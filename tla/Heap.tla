--------------------------------- MODULE Heap ---------------------------------
(***************************************************************************)
(* The kernel heap: kernel/heap.c.  A block is known by the address of its *)
(* header, counted from the start of the heap; the area it hands out       *)
(* follows the header.  Every operation runs with interrupts off.  Callers *)
(* pass only pointers they were given and free each once: kfree checks the *)
(* magic, which says no more than that the block is not free.              *)
(***************************************************************************)
EXTENDS Integers, FiniteSets, FiniteSetsExt

CONSTANTS
    Header,           \* sizeof(block_t): 32, or 20 on i386
    Total,            \* the size of the heap
    Word,             \* what an unsigned number wraps at: 2^32
    Requests          \* sizes asked for

VARIABLES
    blocks,           \* header -> [size, next, prev, free]
    heap_used,
    asked             \* history: header -> the size its holder asked for
heapVars == <<blocks, heap_used, asked>>

NULL == -1
HeapSound ==
    /\ Header \in Nat \ {0} /\ Total \in Nat /\ Header < Total
    /\ Word \in Nat /\ Total + Header + 16 <= Word /\ Requests \subseteq 0 .. Word - 1

\* ALIGN8, as it wraps.
Align8(n) == (((n + 7) % Word) \div 8) * 8
Heap == [blocks |-> blocks, used |-> heap_used]

-----------------------------------------------------------------------------
\* split: what is left becomes a block of its own if it can hold 16 bytes.
Split(h, a, size) ==
    LET b == h.blocks[a]
        n == a + Header + size IN
    IF b.size < size + Header + 16 THEN h
    ELSE [used |-> h.used + Header,
          blocks |-> [c \in DOMAIN h.blocks \cup {n} |->
              IF c = n THEN [size |-> b.size - size - Header, next |-> b.next, prev |-> a, free |-> TRUE]
              ELSE IF c = a THEN [b EXCEPT !.next = n, !.size = size]
              ELSE IF c = b.next THEN [h.blocks[c] EXCEPT !.prev = n] ELSE h.blocks[c]]]

\* kmalloc, first fit along the list, which is in order of address; nothing
\* is handed out when no block is large enough.
Fits(size) == {a \in DOMAIN blocks : blocks[a].free /\ blocks[a].size >= size}
Taken(h, a) == [blocks |-> [h.blocks EXCEPT ![a].free = FALSE], used |-> h.used + h.blocks[a].size]
Kmalloc(n) ==
    /\ n # 0 /\ n <= Word - 16 /\ Align8(n) <= Total
    /\ Fits(Align8(n)) # {}
    /\ LET a == Min(Fits(Align8(n)))
           h == Taken(Split(Heap, a, Align8(n)), a) IN
        /\ blocks' = h.blocks /\ heap_used' = h.used
        /\ asked' = [b \in DOMAIN asked \cup {a} |-> IF b = a THEN n ELSE asked[b]]

\* merge: block a takes in the free blocks that follow it.
Followed(h, a) == h.blocks[a].next # NULL /\ h.blocks[h.blocks[a].next].free
Absorb(h, a) ==
    LET b == h.blocks[a]
        n == h.blocks[b.next] IN
    [used |-> h.used - Header,
     blocks |-> [c \in DOMAIN h.blocks \ {b.next} |->
         IF c = a THEN [b EXCEPT !.size = b.size + n.size + Header, !.next = n.next]
         ELSE IF c = n.next THEN [h.blocks[c] EXCEPT !.prev = a] ELSE h.blocks[c]]]
Merge(h, a) ==
    LET m[k \in 0 .. Cardinality(DOMAIN h.blocks)] ==
            IF k = 0 THEN h ELSE IF Followed(m[k - 1], a) THEN Absorb(m[k - 1], a) ELSE m[k - 1] IN
    m[Cardinality(DOMAIN h.blocks)]

\* kfree: with what follows, and then with what precedes.
Freed(h, a) == [blocks |-> [h.blocks EXCEPT ![a].free = TRUE], used |-> h.used - h.blocks[a].size]
Kfree(a) ==
    /\ ~blocks[a].free
    /\ LET m == Merge(Freed(Heap, a), a)
           p == m.blocks[a].prev
           h == IF p # NULL /\ m.blocks[p].free THEN Merge(m, p) ELSE m IN
        /\ blocks' = h.blocks /\ heap_used' = h.used
    /\ asked' = [b \in DOMAIN asked \ {a} |-> asked[b]]

HeapInit ==
    /\ blocks = [a \in {0} |-> [size |-> Total - Header, next |-> NULL, prev |-> NULL, free |-> TRUE]]
    /\ heap_used = Header /\ asked = [a \in {} |-> 0]
HeapNext == (\E n \in Requests : Kmalloc(n)) \/ (\E a \in DOMAIN blocks : Kfree(a))
HeapSpec == HeapInit /\ [][HeapNext]_heapVars
-----------------------------------------------------------------------------
Ends(h, a) == a + Header + h.blocks[a].size
\* The bytes that are not the area of a free block.
InUse(h) ==
    {x \in 0 .. Total - 1 : ~\E a \in DOMAIN h.blocks : h.blocks[a].free /\ x \in a + Header .. Ends(h, a) - 1}

\* No byte is lost or handed out twice (split, merge, kmalloc, kfree): the
\* list leads through the heap from end to end, each block beginning where
\* the one before it ends, and back; heap_used is what the blocks say; two
\* free neighbours never stay apart, so that freeing everything leaves the
\* one block there was; and who holds a block has the bytes asked for.
HeapWhole ==
    /\ 0 \in DOMAIN blocks /\ blocks[0].prev = NULL
    /\ \A a \in DOMAIN blocks :
        LET e == Ends(Heap, a) IN
        /\ e <= Total /\ \A b \in DOMAIN blocks : a < b => e <= b
        /\ IF e = Total THEN blocks[a].next = NULL
           ELSE blocks[a].next = e /\ e \in DOMAIN blocks /\ blocks[e].prev = a
        /\ blocks[a].free => ~Followed(Heap, a)
    /\ heap_used = Cardinality(InUse(Heap))
    /\ DOMAIN asked = {a \in DOMAIN blocks : ~blocks[a].free}
    /\ \A a \in DOMAIN asked : asked[a] <= blocks[a].size
=============================================================================
