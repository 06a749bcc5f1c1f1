-------------------------------- MODULE Kvfs --------------------------------
(***************************************************************************)
(* KvFS, kernel/kvfs.c: a superblock, a directory and contiguous files,    *)
(* with a RAM copy of the directory.                                       *)
(*                                                                         *)
(* Every call is split at its ata_write commands, so a power loss or a     *)
(* failed command, whose effect is unknown, can come between any two.  A   *)
(* successful ata_write has flushed the drive's cache.  As kvfs.c says, a  *)
(* directory sector is written whole or not at all; a data sector may be   *)
(* left as junk.  Data sectors are numbered from 1 (data_start).  The disk *)
(* starts foreign or blank, without KvFS entries of another age.           *)
(***************************************************************************)
EXTENDS Integers, FiniteSets

CONSTANTS
    Names,          \* file names of 1..39 bytes
    NoName,
    Contents,       \* what callers save
    Length,         \* Length[c]: how many sectors c takes (at least 1)
    Missing, Mixed, \* no file; a body that is nobody's contents
    SECTORS,        \* data sectors on the disk
    PER_SECTOR,     \* 8: directory entries in a sector
    DIR_SECTORS,    \* 8
    MaxFaults       \* bound on failed commands

ASSUME NameAssumption == NoName \notin Names /\ {Missing, Mixed} \cap Contents = {}
ASSUME SizeAssumption ==
    SECTORS \in Nat /\ PER_SECTOR \in Nat \ {0} /\ DIR_SECTORS \in Nat \ {0} /\ MaxFaults \in Nat
ASSUME LengthAssumption == Length \in [Contents -> Nat \ {0}]

VARIABLES
    super,    \* sector 0 holds a valid superblock
    dsk,      \* the directory on disk
    body,     \* the data sectors
    dir,      \* the directory in RAM
    mounted,
    call,     \* the call in progress, with its new entry and its slot
    pc,       \* its next command: "idle", "body", "commit", "super", "dirs"
    k,        \* loop counter: body or directory sectors written
    reply,    \* result of the last call
    faults

vars == <<super, dsk, body, dir, mounted, call, pc, k, reply, faults>>

KVFS_MAX_FILES == PER_SECTOR * DIR_SECTORS
Slots == 0 .. KVFS_MAX_FILES - 1
Group(slot) == slot \div PER_SECTOR
Sectors == 1 .. SECTORS
Blocks == {<<c, j>> : c \in Contents \cup {Missing}, j \in 0 .. SECTORS}
Junk == <<Missing, 0>>

Entry(n, start, len) == [name |-> n, start |-> start, sectors |-> len]
Free == Entry(NoName, 0, 0)
Damaged == Entry(NoName, 0, 1)  \* any entry kvfs_mount rejects
Entries == {Entry(n, s, l) : n \in Names, s \in Sectors, l \in Sectors} \cup {Free, Damaged}
NoCall == [op |-> "none"]

Used(d) == {i \in DOMAIN d : d[i] # Free}
End(e) == e.start + e.sectors
Overlap(e, start, need) == start < End(e) /\ e.start < start + need

\* What kvfs_mount accepts: each entry in bounds, names and extents distinct.
Valid(d) ==
    \A i \in Used(d) :
        /\ d[i].name \in Names /\ d[i].sectors >= 1
        /\ d[i].start >= 1 /\ End(d[i]) <= SECTORS + 1
        /\ \A j \in Used(d) : j # i =>
            d[i].name # d[j].name /\ ~Overlap(d[j], d[i].start, d[i].sectors)

FindEntry(d, n) == {i \in Used(d) : d[i].name = n}

\* find_space: moving behind whatever clashes, it ends at the first place where
\* the sectors fit, if there is one (MCKvfs!LoopIsFirstFit).
FindSpace(d, need) ==
    LET room == {s \in Sectors : s + need <= SECTORS + 1 /\ \A i \in Used(d) : ~Overlap(d[i], s, need)}
    IN  {s \in room : \A t \in room : s <= t}

Fault == faults < MaxFaults /\ faults' = faults + 1
NoFault == UNCHANGED faults
Return(r) == pc' = "idle" /\ call' = NoCall /\ k' = 0 /\ reply' = r

-----------------------------------------------------------------------------
\* read_dir may fail after any sector; the volume is then unmounted and dir
\* is read again, or cleared, before it is used.
KvfsMount ==
    /\ pc = "idle"
    /\ \/ /\ NoFault /\ dir' = dsk
          /\ mounted' = (super /\ Valid(dsk))
          /\ Return(IF mounted' THEN "ok" ELSE "error")
       \/ /\ Fault /\ mounted' = FALSE /\ Return("error")
          /\ \E s \in 0 .. DIR_SECTORS - 1 :
                dir' = [i \in Slots |-> IF Group(i) < s THEN dsk[i] ELSE dir[i]]
    /\ UNCHANGED <<super, dsk, body>>

KvfsFormat ==
    /\ pc = "idle"
    /\ mounted' = FALSE /\ dir' = [i \in Slots |-> Free]
    /\ call' = [op |-> "format"] /\ pc' = "super" /\ k' = 0 /\ reply' = "none"
    /\ UNCHANGED <<super, dsk, body, faults>>

WriteSuper ==
    /\ pc = "super"
    /\ \/ /\ NoFault /\ super' = TRUE
          /\ pc' = "dirs" /\ UNCHANGED <<call, k, reply>>
       \/ /\ Fault /\ super' \in {super, TRUE} /\ Return("error")
    /\ UNCHANGED <<dsk, body, dir, mounted>>

GroupFrom(d, g) == [i \in Slots |-> IF Group(i) = g THEN d[i] ELSE dsk[i]]

WriteDir ==
    /\ pc = "dirs"
    /\ \/ /\ NoFault /\ dsk' = GroupFrom(dir, k)
          /\ IF k + 1 = DIR_SECTORS
             THEN mounted' = TRUE /\ Return("ok")
             ELSE k' = k + 1 /\ UNCHANGED <<mounted, call, pc, reply>>
       \/ /\ Fault /\ dsk' \in {dsk, GroupFrom(dir, k)} /\ Return("error")
          /\ UNCHANGED mounted
    /\ UNCHANGED <<super, body, dir>>

-----------------------------------------------------------------------------
FirstUnused == {i \in Slots \ Used(dir) : \A j \in Slots \ Used(dir) : i <= j}
SlotFor(n) == IF FindEntry(dir, n) # {} THEN FindEntry(dir, n) ELSE FirstUnused

KvfsWrite(n, c) ==
    /\ pc = "idle" /\ mounted
    /\ \E slot \in SlotFor(n), start \in FindSpace(dir, Length[c]) :
        call' = [op |-> "write", name |-> n, data |-> c,
                 slot |-> slot, entry |-> Entry(n, start, Length[c])]
    /\ pc' = "body" /\ k' = 0 /\ reply' = "none"
    /\ UNCHANGED <<super, dsk, body, dir, mounted, faults>>

\* Bad argument, directory full, no room.
KvfsRefuse(n, c) ==
    /\ pc = "idle"
    /\ \/ ~mounted
       \/ SlotFor(n) = {} \/ FindSpace(dir, Length[c]) = {}
    /\ Return("error")
    /\ UNCHANGED <<super, dsk, body, dir, mounted, faults>>

\* Mutant: the entry is published before the last sector of the body.
BodyWriteShort ==
    LET at == call.entry.start + k
        Put(b) == body' = [body EXCEPT ![at] = b]
    IN  /\ pc = "body"
        /\ \/ /\ NoFault /\ Put(<<call.data, k + 1>>)
              /\ k' = k + 1
              /\ pc' = IF k + 2 >= call.entry.sectors THEN "commit" ELSE "body"
              /\ UNCHANGED <<call, reply>>
           \/ /\ Fault /\ \E b \in {body[at], <<call.data, k + 1>>, Junk} : Put(b)
              /\ Return("error")
        /\ UNCHANGED <<super, dsk, dir, mounted>>

\* A failed body sector ends the call; the volume stays mounted.
BodyWrite ==
    LET at == call.entry.start + k
        Put(b) == body' = [body EXCEPT ![at] = b]
    IN  /\ pc = "body"
        /\ \/ /\ NoFault /\ Put(<<call.data, k + 1>>)
              /\ k' = k + 1
              /\ pc' = IF k + 1 = call.entry.sectors THEN "commit" ELSE "body"
              /\ UNCHANGED <<call, reply>>
           \/ /\ Fault /\ \E b \in {body[at], <<call.data, k + 1>>, Junk} : Put(b)
              /\ Return("error")
        /\ UNCHANGED <<super, dsk, dir, mounted>>

KvfsDelete(n) ==
    /\ pc = "idle" /\ mounted
    /\ \E slot \in FindEntry(dir, n) :
        call' = [op |-> "delete", name |-> n, slot |-> slot, entry |-> Free]
    /\ pc' = "commit" /\ k' = 0 /\ reply' = "none"
    /\ UNCHANGED <<super, dsk, body, dir, mounted, faults>>

\* Mutant: the new name may be taken.
KvfsRenameReplaces(n, to) ==
    /\ pc = "idle" /\ mounted /\ n # to
    /\ \E slot \in FindEntry(dir, n) :
        call' = [op |-> "rename", name |-> n, to |-> to, slot |-> slot,
                 entry |-> Entry(to, dir[slot].start, dir[slot].sectors)]
    /\ pc' = "commit" /\ k' = 0 /\ reply' = "none"
    /\ UNCHANGED <<super, dsk, body, dir, mounted, faults>>

KvfsRename(n, to) ==
    /\ pc = "idle" /\ mounted /\ n # to /\ FindEntry(dir, to) = {}
    /\ \E slot \in FindEntry(dir, n) :
        call' = [op |-> "rename", name |-> n, to |-> to, slot |-> slot,
                 entry |-> Entry(to, dir[slot].start, dir[slot].sectors)]
    /\ pc' = "commit" /\ k' = 0 /\ reply' = "none"
    /\ UNCHANGED <<super, dsk, body, dir, mounted, faults>>

\* Mutant: a failed directory write leaves the volume mounted.
CommitEntryStaysMounted ==
    LET next == GroupFrom([dir EXCEPT ![call.slot] = call.entry], Group(call.slot))
    IN  /\ pc = "commit"
        /\ \/ /\ NoFault /\ dsk' = next
              /\ dir' = [dir EXCEPT ![call.slot] = call.entry]
              /\ Return("ok")
           \/ /\ Fault /\ dsk' \in {dsk, next}
              /\ UNCHANGED dir /\ Return("error")
        /\ UNCHANGED <<super, body, mounted>>

\* One directory sector, built from RAM, then the RAM entry.
CommitEntry ==
    LET next == GroupFrom([dir EXCEPT ![call.slot] = call.entry], Group(call.slot))
    IN  /\ pc = "commit"
        /\ \/ /\ NoFault /\ dsk' = next
              /\ dir' = [dir EXCEPT ![call.slot] = call.entry]
              /\ UNCHANGED mounted /\ Return("ok")
           \/ /\ Fault /\ dsk' \in {dsk, next}
              /\ mounted' = FALSE /\ UNCHANGED dir /\ Return("error")
        /\ UNCHANGED <<super, body>>

\* Power loss: RAM is gone (kept only for a `dir' nobody may use).
Crash ==
    /\ mounted' = FALSE /\ dir' = [i \in Slots |-> Free]
    /\ Return("none")
    /\ UNCHANGED <<super, dsk, body, faults>>

-----------------------------------------------------------------------------
Init ==
    /\ super = FALSE
    /\ dsk \in {[i \in Slots |-> e] : e \in {Free, Damaged}}
    /\ body = [s \in Sectors |-> Junk]
    /\ dir = [i \in Slots |-> Free]
    /\ mounted = FALSE
    /\ call = NoCall /\ pc = "idle" /\ k = 0 /\ reply = "none" /\ faults = 0

Next ==
    \/ KvfsMount \/ KvfsFormat \/ WriteSuper \/ WriteDir
    \/ \E n \in Names, c \in Contents : KvfsWrite(n, c) \/ KvfsRefuse(n, c)
    \/ \E n \in Names : KvfsDelete(n)
    \/ \E n, to \in Names : KvfsRename(n, to)
    \/ BodyWrite \/ CommitEntry \/ Crash

Spec == Init /\ [][Next]_vars

-----------------------------------------------------------------------------
TypeOK ==
    /\ super \in BOOLEAN /\ mounted \in BOOLEAN
    /\ dsk \in [Slots -> Entries] /\ dir \in [Slots -> Entries]
    /\ body \in [Sectors -> Blocks]
    /\ pc \in {"idle", "body", "commit", "super", "dirs"}
    /\ call.op \in {"none", "write", "delete", "rename", "format"}
    /\ call.op = "write" => call.entry \in Entries /\ End(call.entry) - 1 \in Sectors
    /\ k \in 0 .. SECTORS + DIR_SECTORS
    /\ reply \in {"none", "ok", "error"} /\ faults \in 0 .. MaxFaults

\* The RAM directory is never stale while calls are accepted: a group written
\* for one entry does not undo what the disk holds for its neighbours.
RamMatchesDisk == mounted => super /\ dir = dsk

\* No step, failed or interrupted, turns a directory that kvfs_mount accepts
\* into one that it rejects.
StaysMountable == [][Valid(dsk) => Valid(dsk')]_vars

\* The files a mount would find on the disk now.
FileAt(e) ==
    LET whole == {c \in Contents : Length[c] = e.sectors /\
                    \A j \in 1 .. e.sectors : body[e.start + j - 1] = <<c, j>>}
    IN  IF whole = {} THEN Mixed ELSE CHOOSE c \in whole : TRUE

Files ==
    [n \in Names |->
        IF super /\ Valid(dsk) /\ FindEntry(dsk, n) # {}
        THEN FileAt(dsk[CHOOSE i \in FindEntry(dsk, n) : TRUE])
        ELSE Missing]

PendingCall ==
    CASE call.op = "write" -> [op |-> "write", name |-> call.name, data |-> call.data]
      [] call.op = "delete" -> [op |-> "delete", name |-> call.name]
      [] call.op = "rename" -> [op |-> "rename", name |-> call.name, to |-> call.to]
      [] OTHER -> call

Abstract == INSTANCE FileStore WITH store <- Files, pending <- PendingCall

\* KvFS implements the table of whole files, over crashes and failed writes.
ImplementsFileStore == Abstract!Spec
=============================================================================
