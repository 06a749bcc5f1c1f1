-------------------------------- MODULE Spaces --------------------------------
(***************************************************************************)
(* The private address space of an isolated program, over the pool of page *)
(* frames: kernel/user_space.c, the loader of kernel/user_image.c,         *)
(* kernel/pmm.c and the page tables the kernel grows (kernel/paging.c).    *)
(*                                                                         *)
(* A page table is a frame; of its entries the model keeps, for the user   *)
(* part, which frame a page has and with which rights, and for the         *)
(* supervisor part, which of the kernel's own entries were copied.  Of a   *)
(* frame's bytes it keeps where they come from.                            *)
(***************************************************************************)
EXTENDS Integers, Sequences, FiniteSets, FiniteSetsExt

CONSTANTS
    Pool,             \* the frames of pmm.c, numbered by address from 1
    Direct,           \* the last one below KU_DIRECT_LIMIT
    Tables,           \* tables of a space: 4, or 2 on i386
    Plans,            \* images ki_validate accepts: sequences of [page, rights]
    Regions           \* device ranges the kernel may map later

\* A page ki_load maps, with its rights: none can be both written and
\* executed.
Requested == {r \in [page : Nat, rights : SUBSET {"r", "w", "x"}] : ~({"w", "x"} \subseteq r.rights)}
\* Frames have numbers from 1.
MemorySound ==
    /\ Pool \subseteq Nat \ {0} /\ IsFiniteSet(Pool)
    /\ Plans \subseteq Seq(Requested)

VARIABLES
    owner,            \* frame -> "free", "space", "kernel" or "other"
    bytes,            \* frame -> "zero", "code", "data" (of the program), "other"
    kernel,           \* regions the kernel's tables map
    sp,               \* the space: [live, tables, pages, supervisor, pins]
    pending,          \* what ki_load still has to do
    running           \* CR3 holds the root of the space

spaceVars == <<owner, bytes, kernel, sp, pending, running>>

NoSpace == [live |-> FALSE, tables |-> {}, pages |-> {}, supervisor |-> {}, pins |-> 0]
Held == sp.tables \cup {e.frame : e \in sp.pages}

\* pmm_alloc_frame: the first free frame; page_alloc gives a high one back.
FreeFrames == {f \in Pool : owner[f] = "free"}
FirstFree == IF FreeFrames = {} THEN 0 ELSE Min(FreeFrames)
Usable == FirstFree # 0 /\ FirstFree <= Direct
\* new_frame: the frame is the space's, and cleared.
Take(f, who, content) == owner' = [owner EXCEPT ![f] = who] /\ bytes' = [bytes EXCEPT ![f] = content]

-----------------------------------------------------------------------------
\* The rest of the kernel allocates and frees frames; what it leaves in them
\* stays there.
OthersAlloc == FirstFree # 0 /\ Take(FirstFree, "other", "other") /\ UNCHANGED <<kernel, sp, pending, running>>
OthersFree(f) ==
    /\ owner[f] = "other" /\ owner' = [owner EXCEPT ![f] = "free"]
    /\ UNCHANGED <<bytes, kernel, sp, pending, running>>
\* paging_map for a device: a table is allocated, any frame will do, and an
\* entry appears in the kernel's root.
PagingMap(r) ==
    /\ ~running /\ r \notin kernel /\ FirstFree # 0
    /\ Take(FirstFree, "kernel", "zero") /\ kernel' = kernel \cup {r}
    /\ UNCHANGED <<sp, pending, running>>

\* ki_load: ku_create, the pages in order, then the text and the data.
KiLoad(plan) ==
    /\ ~sp.live
    /\ sp' = [NoSpace EXCEPT !.live = TRUE]
    /\ pending' = plan
    /\ UNCHANGED <<owner, bytes, kernel, running>>
Building == sp.live /\ sp.pins = 0
\* table: the entries of the kernel are copied without the user bit.
Table ==
    /\ Building /\ Cardinality(sp.tables) < Tables /\ Usable
    /\ Take(FirstFree, "space", "zero")
    /\ sp' = [sp EXCEPT !.tables = @ \cup {FirstFree}, !.supervisor = kernel]
    /\ UNCHANGED <<kernel, pending, running>>
KuMap ==
    /\ Building /\ Cardinality(sp.tables) = Tables /\ pending # <<>> /\ Usable
    /\ Take(FirstFree, "space", "zero")
    /\ sp' = [sp EXCEPT !.pages = @ \cup {[page |-> Head(pending).page, rights |-> Head(pending).rights, frame |-> FirstFree]}]
    /\ pending' = Tail(pending)
    /\ UNCHANGED <<kernel, running>>
\* ku_load through the loader's own path, and the space is pinned.
Content(e) == IF "x" \in e.rights THEN "code" ELSE "data"
KuLoad ==
    /\ Building /\ Cardinality(sp.tables) = Tables /\ pending = <<>>
    /\ bytes' = [f \in Pool |->
                    IF \E e \in sp.pages : e.frame = f /\ e.rights # {"r"}
                    THEN Content(CHOOSE e \in sp.pages : e.frame = f) ELSE bytes[f]]
    /\ sp' = [sp EXCEPT !.pins = 1]
    /\ UNCHANGED <<owner, kernel, pending, running>>

\* Mutant: frames are released as they are.
ReleaseDirty ==
    /\ owner' = [f \in Pool |-> IF f \in Held THEN "free" ELSE owner[f]]
    /\ UNCHANGED bytes

\* ku_destroy: every frame is cleared before it is released.
Release ==
    /\ owner' = [f \in Pool |-> IF f \in Held THEN "free" ELSE owner[f]]
    /\ bytes' = [f \in Pool |-> IF f \in Held THEN "zero" ELSE bytes[f]]
KuDestroy ==
    /\ sp.live /\ sp.pins = 0
    /\ Release /\ sp' = NoSpace /\ pending' = <<>>
    /\ UNCHANGED <<kernel, running>>
\* No frame for a table or a page: ki_load fails and takes everything back.
LoadFails == Building /\ ~Usable /\ (Cardinality(sp.tables) < Tables \/ pending # <<>>) /\ KuDestroy

-----------------------------------------------------------------------------
\* An event: ku_refresh copies the supervisor entries, then ring 3 runs.
Enter ==
    /\ sp.pins > 0 /\ ~running
    /\ sp' = [sp EXCEPT !.supervisor = kernel] /\ running' = TRUE
    /\ UNCHANGED <<owner, bytes, kernel, pending>>
Store(e) == bytes' = [bytes EXCEPT ![e.frame] = "data"] /\ UNCHANGED <<owner, kernel, sp, pending, running>>
\* The program stores where its page table lets it; the kernel, in a system
\* call, where ku_check does.
UserStores == running /\ \E e \in sp.pages : "w" \in e.rights /\ Store(e)
Checked(e, rights) == rights \subseteq e.rights
CopyOut == running /\ \E e \in sp.pages : Checked(e, {"r", "w"}) /\ Store(e)
Leave == running /\ running' = FALSE /\ UNCHANGED <<owner, bytes, kernel, sp, pending>>
\* ku_app_unload.
KuUnpin ==
    /\ sp.pins > 0 /\ ~running /\ sp' = [sp EXCEPT !.pins = @ - 1]
    /\ UNCHANGED <<owner, bytes, kernel, pending, running>>
Unload == sp.pins = 0 /\ pending = <<>> /\ KuDestroy

SpaceInit ==
    /\ \E used \in SUBSET Pool :
        /\ owner = [f \in Pool |-> IF f \in used THEN "other" ELSE "free"]
        /\ bytes = [f \in Pool |-> "other"]
    /\ kernel = {} /\ sp = NoSpace /\ pending = <<>> /\ running = FALSE

SpaceNext ==
    \/ OthersAlloc \/ Table \/ KuMap \/ KuLoad \/ LoadFails
    \/ Enter \/ UserStores \/ CopyOut \/ Leave \/ KuUnpin \/ Unload
    \/ \E f \in Pool : OthersFree(f)
    \/ \E r \in Regions : PagingMap(r)
    \/ \E plan \in Plans : KiLoad(plan)

SpaceSpec == SpaceInit /\ [][SpaceNext]_spaceVars
-----------------------------------------------------------------------------
\* A program has its frames to itself, from the pool and back (new_frame,
\* ku_destroy and the failure path of ki_load): none leaks when loading stops
\* half way, no page is in two places, nothing of the program remains in a
\* frame it gave up, and nothing of others in a page it got.
FramesOwned ==
    /\ {f \in Pool : owner[f] = "space"} = Held
    /\ Cardinality(Held) = Cardinality(sp.tables) + Cardinality(sp.pages)
    /\ \A f \in Pool :
        /\ bytes[f] \in {"code", "data"} => owner[f] = "space"
        /\ owner[f] = "space" => bytes[f] # "other"

\* In ring 3 the tables hold every entry of the kernel, those of devices
\* mapped after the program was loaded included (ku_refresh), and executable
\* pages hold the code that was loaded: neither the program nor a copy the
\* kernel makes for it changes them (ku_map, ku_check).
RunsOnCurrentTables ==
    /\ running => sp.supervisor = kernel
    /\ sp.pins > 0 => \A e \in sp.pages : "x" \in e.rights => bytes[e.frame] = "code"
=============================================================================
