------------------------------- MODULE FatDir -------------------------------
(***************************************************************************)
(* One FAT directory, slot by slot: the walk that assembles long names,    *)
(* the search for free slots, the writing of an entry with its long name,  *)
(* and deletion (kernel/fat.c).                                            *)
(*                                                                         *)
(* A long name takes some fragments and has a short one beside it.  A      *)
(* short name is <<base, tail>>, tail 0 being no "~N"; it stands for its   *)
(* own checksum.  Other systems used the directory before: it may hold     *)
(* fragments nobody owns, and anything behind its end.                     *)
(***************************************************************************)
EXTENDS Integers, Sequences, FiniteSetsExt

CONSTANTS
    DirNames,     \* name -> [short, parts]; without parts the short name is the name
    Found,        \* what the directory may hold when it is first opened
    PER,          \* slots of a cluster
    MaxSlots, LastTail

VARIABLES
    slots,        \* the directory, all its clusters
    fixed,        \* it is the root directory of FAT16, which cannot grow
    listed        \* history: [name, short] of the files that should be there

dirVars == <<slots, fixed, listed>>

End == [kind |-> "end"]
Deleted == [kind |-> "deleted"]
Entry(short) == [kind |-> "entry", short |-> short]
Fragment(order, last, sum, name) == [kind |-> "fragment", order |-> order, last |-> last, sum |-> sum, name |-> name]
Key(n) == IF DirNames[n].parts = 0 THEN DirNames[n].short ELSE <<n, 0>>

-----------------------------------------------------------------------------
\* walk_dir: what is assembled of a long name.  A fragment that does not
\* continue the chain drops it, and so does whatever else comes.
Lfn(have, expected, sum, name, max) ==
    [have |-> have, expected |-> expected, sum |-> sum, name |-> name, max |-> max]
NoLfn == Lfn(FALSE, 0, "none", "none", 0)
Fed(l, f) ==
    LET b == IF f.last THEN Lfn(TRUE, f.order, f.sum, f.name, f.order) ELSE l IN
    IF ~b.have \/ f.order # b.expected \/ f.sum # b.sum THEN Lfn(FALSE, 0, b.sum, b.name, b.max)
    ELSE Lfn(TRUE, b.expected - 1, b.sum, IF f.name = b.name THEN f.name ELSE "mixed", b.max)
After(l, s) ==
    IF s.kind = "fragment" THEN Fed(l, s)
    ELSE Lfn(FALSE, l.expected, l.sum, l.name, IF s.kind = "entry" THEN 0 ELSE l.max)
Assembled(d) ==
    LET lfn[k \in 0 .. Len(d)] == IF k = 0 THEN NoLfn ELSE After(lfn[k - 1], d[k]) IN lfn
\* The entries up to the end, each with its alias and the name it is shown by.
PastEnd(d, k) == \E j \in 1 .. k : d[j].kind = "end"
Entries(d) == {k \in DOMAIN d : d[k].kind = "entry" /\ ~PastEnd(d, k)}
Shown(d, k) ==
    LET l == Assembled(d)[k - 1]
        long == l.have /\ l.expected = 0 /\ l.max # 0 /\ l.sum = d[k].short
    IN  [name |-> IF long THEN <<l.name, 0>> ELSE d[k].short, short |-> d[k].short]
Walk(d) == {Shown(d, k) : k \in Entries(d)}
\* find_cb: the entries with that long name or that alias; the first is taken.
Answers(want) == {k \in Entries(slots) : want \in {Shown(slots, k).name, Shown(slots, k).short}}
Exists(want) == Answers(want) # {}

-----------------------------------------------------------------------------
Free(k) == slots[k].kind = "deleted" \/ PastEnd(slots, k)
Run(k) == k - Max({0} \cup {j \in 1 .. k : ~Free(j)})
\* alloc_dir_slots: the first run of deleted slots that is long enough, or
\* the free slots at the end, for which the directory grows if it may; what
\* follows them there is marked as the end.  start is 0: no room.
AllocDirSlots(need) ==
    LET runs == {k \in DOMAIN slots : ~PastEnd(slots, k) /\ Run(k) >= need}
        start == Len(slots) - Run(Len(slots)) + 1
        grow == Min({g \in 0 .. need : Len(slots) + g * PER >= start + need - 1}) IN
    IF runs # {} THEN [start |-> Min(runs) - need + 1, mark |-> 0, grow |-> 0]
    ELSE IF fixed /\ grow > 0 THEN [start |-> 0, mark |-> 0, grow |-> 0]
    ELSE [start |-> start, grow |-> grow, mark |-> IF start + need <= Len(slots) + grow * PER THEN start + need ELSE 0]

\* write_entry: the first short name nobody answers to; the fragments, last
\* one first, the entry, and the end behind it.
ShortFor(n) ==
    IF DirNames[n].parts = 0 THEN {DirNames[n].short}
    ELSE LET free == {t \in 0 .. LastTail : ~Exists(<<DirNames[n].short[1], t>>)} IN
         {<<DirNames[n].short[1], t>> : t \in (IF free = {} THEN {} ELSE {Min(free)})}
Written(n, short) ==
    LET p == DirNames[n].parts IN
    [i \in 1 .. p + 1 |-> IF i <= p THEN Fragment(p + 1 - i, i = 1, short, n) ELSE Entry(short)]

\* Mutant: no end mark is laid behind the new entry.
LaidOutUnmarked(a, new) ==
    [k \in 1 .. Len(slots) + a.grow * PER |->
        IF k \in a.start .. a.start + Len(new) - 1 THEN new[k - a.start + 1]
        ELSE IF k \in DOMAIN slots THEN slots[k] ELSE End]

\* What the directory grows by is cleared.
LaidOut(a, new) ==
    [k \in 1 .. Len(slots) + a.grow * PER |->
        IF k \in a.start .. a.start + Len(new) - 1 THEN new[k - a.start + 1]
        ELSE IF k # a.mark /\ k \in DOMAIN slots THEN slots[k] ELSE End]
WriteEntry(n) ==
    \E short \in ShortFor(n) : \E a \in {AllocDirSlots(DirNames[n].parts + 1)} :
        /\ a.start # 0 /\ Len(slots) + a.grow * PER <= MaxSlots
        /\ slots' = LaidOut(a, Written(n, short))
        /\ listed' = listed \cup {[name |-> Key(n), short |-> short]}
        /\ UNCHANGED fixed
\* fat_write_impl and fat_mkdir_impl of a name that is not there yet.
Create(n) == ~Exists(Key(n)) /\ WriteEntry(n)

\* erase_entry: the entry, and the chain of fragments that ends at it and
\* carries its checksum.
ChainOf(k) ==
    LET fits(i) == slots[k - i].kind = "fragment" /\ slots[k - i].sum = slots[k].short /\ slots[k - i].order = i
        whole == {p \in 1 .. k - 1 : (\A i \in 1 .. p : fits(i)) /\ slots[k - p].last} IN
    k - (IF whole = {} THEN 0 ELSE Min(whole)) .. k
EraseEntry(want) ==
    /\ Exists(want)
    /\ \E erased \in {ChainOf(Min(Answers(want)))} :
        slots' = [j \in DOMAIN slots |-> IF j \in erased THEN Deleted ELSE slots[j]]
    /\ listed' = {f \in listed : want \notin {f.name, f.short}}
    /\ UNCHANGED fixed

Wants == {Key(n) : n \in DOMAIN DirNames} \cup {<<DirNames[n].short[1], t>> : n \in DOMAIN DirNames, t \in 0 .. 1}

DirInit == slots \in Found /\ fixed \in BOOLEAN /\ listed = Walk(slots)
DirNext == (\E n \in DOMAIN DirNames : Create(n)) \/ (\E w \in Wants : EraseEntry(w))
DirSpec == DirInit /\ [][DirNext]_dirVars

-----------------------------------------------------------------------------
\* No name and no alias means two files.
NoNameTwice(d) ==
    \A i, j \in Entries(d) :
        i # j => {Shown(d, i).name, Shown(d, i).short} \cap {Shown(d, j).name, Shown(d, j).short} = {}

\* The fragments before the end are the long name of an entry, each of them,
\* or carry the checksum of no name that may be written.
Whole(d, e, p) ==
    /\ e \in Entries(d) /\ p \in 1 .. e - 1
    /\ \A i \in 1 .. p :
        /\ d[e - i].kind = "fragment" /\ d[e - i].sum = d[e].short /\ d[e - i].order = i
        /\ d[e - i].last <=> i = p
Aliases == UNION {{DirNames[n].short} \cup {<<DirNames[n].short[1], t>> : t \in 0 .. LastTail} : n \in DOMAIN DirNames}
Tidy(d) ==
    \A k \in DOMAIN d :
        d[k].kind = "fragment" /\ ~PastEnd(d, k) =>
            \/ d[k].sum \notin Aliases
            \/ \E e \in Entries(d) : \E p \in 1 .. e - 1 : Whole(d, e, p) /\ k \in e - p .. e - 1
\* The slots of a directory as they are read.
Slots(d) ==
    \A k \in DOMAIN d :
        /\ d[k].kind \in {"end", "deleted", "entry", "fragment"}
        /\ d[k].kind = "fragment" => d[k].order \in Nat \ {0} /\ d[k].last \in BOOLEAN

\* What other systems left: no name twice, and no part of a long name that an
\* entry written here could take for its own.
DirSound ==
    /\ \A n \in DOMAIN DirNames : DirNames[n].parts \in Nat
    /\ PER \in Nat \ {0} /\ LastTail \in Nat
    /\ \A d \in Found : d \in Seq({d[k] : k \in DOMAIN d}) /\ Slots(d) /\ Tidy(d) /\ NoNameTwice(d)

\* The directory lists exactly the files that were created and not deleted
\* (walk_dir, alloc_dir_slots, write_entry, erase_entry): each under its own
\* long name, whatever lay behind the end or was left of other names, and
\* no name or alias means two files.
ListsItsFiles == Walk(slots) = listed /\ NoNameTwice(slots)
=============================================================================
