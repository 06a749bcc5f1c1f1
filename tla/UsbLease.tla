------------------------------ MODULE UsbLease ------------------------------
(***************************************************************************)
(* A USB disk under its FAT mounts, kernel/usb.c and the lease calls of    *)
(* kernel/fat.c: enumeration generations, the change latch of the port,    *)
(* the write lease, the read cache, and a user who pulls and plugs sticks  *)
(* between any two of the driver's looks at the port.                      *)
(*                                                                         *)
(* The kernel runs one storage call at a time.  A command looks at the     *)
(* route, transfers, and looks again; the three are separate steps.  A     *)
(* device that was plugged in after the enumeration has no address yet and *)
(* answers no transfer.  One disk, one sector to a command.                *)
(***************************************************************************)
EXTENDS Integers, FiniteSets, Sequences

CONSTANTS
    Media, NoMedium,
    SECTORS,        \* sectors of every medium
    Values,         \* what a sector holds
    Filled,         \* what the media may hold at first
    Extents,        \* the FAT volumes a mount may be asked for, as sets of sectors
    Slots,          \* fat_vols[]
    NoMount,
    HUB,            \* behind a hub a change is only seen by polling the hub
    MaxEpoch, MaxFaults

ASSUME MediaAssumption == NoMedium \notin Media
ASSUME ExtentsAssumption == Extents \subseteq SUBSET (1 .. SECTORS)
ASSUME SlotsAssumption == NoMount \notin Slots
ASSUME BoundsAssumption == SECTORS \in Nat /\ MaxEpoch \in Nat /\ MaxFaults \in Nat
ASSUME FilledAssumption == Filled \subseteq [Media -> [1 .. SECTORS -> Values]]

VARIABLES
    port,       \* the medium in the socket
    changed,    \* the change latch of the port, cleared by an enumeration only
    content,    \* what the media hold
    epoch,      \* enumeration_generation
    disk,       \* disks[0]
    cache,      \* valid entries of cache[]
    mounts,     \* fat_vols[]
    writing,    \* the mount between write_begin and write_end
    call, pc,   \* the block call in progress and its next step
    reply,      \* the result of the last call
    faults

vars == <<port, changed, content, epoch, disk, cache, mounts, writing, call, pc, reply, faults>>
hardware == <<port, changed>>

Sectors == 1 .. SECTORS
NoDisk == [medium |-> NoMedium, generation |-> 0, dead |-> TRUE, allowed |-> FALSE, extent |-> {}]
Enumerated(m, generation) ==
    [medium |-> m, generation |-> generation, dead |-> FALSE, allowed |-> FALSE, extent |-> {}]
NoVolume == [medium |-> NoMedium, generation |-> 0, extent |-> {}, fenced |-> FALSE, gone |-> FALSE]
NoCall == [op |-> "none"]
Nothing == [op |-> "none", ok |-> FALSE]

Fault == faults < MaxFaults /\ faults' = faults + 1

-----------------------------------------------------------------------------
\* usb_route_check: a change that is seen kills the route until the next
\* enumeration.  Without polling only the root port's latch is looked at.
Killed(d) ==
    [medium |-> d.medium, generation |-> 0, dead |-> TRUE, allowed |-> FALSE, extent |-> d.extent]
Poll(d) == IF changed THEN Killed(d) ELSE d
Query(d) == IF changed /\ ~HUB THEN Killed(d) ELSE d

\* usb_sectors: a dead disk has no sectors, and nothing is cached for it.
Answers(d) == ~d.dead
QueriedCache == IF Answers(Query(disk)) THEN cache ELSE {}

\* usb_fat_revoke and the grant of usb_fat_authorize.
Revoked(d) ==
    [medium |-> d.medium, generation |-> d.generation, dead |-> d.dead, allowed |-> FALSE,
     extent |-> d.extent]
Granted(extent) ==
    [medium |-> disk.medium, generation |-> disk.generation, dead |-> disk.dead,
     allowed |-> TRUE, extent |-> extent]

\* fat.c live().
Live(v) == mounts[v].generation # 0 /\ Query(disk).generation = mounts[v].generation

\* fat.c fence().
Fenced(v) == [mounts EXCEPT ![v].fenced = TRUE]

Usable(v) == mounts[v].generation # 0 /\ ~mounts[v].fenced
Idle == pc = "idle" /\ call = NoCall
Result(op, ok) == reply' = [op |-> op, ok |-> ok] /\ pc' = "idle" /\ call' = NoCall

-----------------------------------------------------------------------------
\* The user.
Unplug ==
    /\ port # NoMedium
    /\ port' = NoMedium /\ changed' = TRUE
    /\ mounts' = [v \in Slots |->
            IF mounts[v].generation = 0 THEN mounts[v] ELSE [mounts[v] EXCEPT !.gone = TRUE]]
    /\ UNCHANGED <<content, epoch, disk, cache, writing, call, pc, reply, faults>>

Plug(m) ==
    /\ port = NoMedium
    /\ port' = m /\ changed' = TRUE
    /\ UNCHANGED <<content, epoch, disk, cache, mounts, writing, call, pc, reply, faults>>

\* Mutant: a rescan does not start a new generation.
RescanSameEpoch ==
    /\ Idle /\ writing = NoMount /\ epoch < MaxEpoch
    /\ epoch' = IF epoch = 0 THEN 1 ELSE epoch
    /\ cache' = {} /\ reply' = Nothing
    /\ \/ /\ port # NoMedium /\ changed' = FALSE
          /\ disk' = Enumerated(port, epoch')
       \/ disk' = NoDisk /\ UNCHANGED changed
    /\ UNCHANGED <<port, content, mounts, writing, call, pc, faults>>

\* usb_rescan: the latch is acknowledged before the device is addressed.
UsbRescan ==
    /\ Idle /\ writing = NoMount /\ epoch < MaxEpoch
    /\ epoch' = epoch + 1
    /\ cache' = {} /\ reply' = Nothing
    /\ \/ /\ port # NoMedium /\ changed' = FALSE
          /\ disk' = Enumerated(port, epoch')
       \/ disk' = NoDisk /\ UNCHANGED changed
    /\ UNCHANGED <<port, content, mounts, writing, call, pc, faults>>

\* vfs_init forgets every mount; usb_rescan alone does not.
VfsInit ==
    /\ Idle /\ writing = NoMount
    /\ mounts' = [v \in Slots |-> NoVolume] /\ reply' = Nothing
    /\ UNCHANGED <<hardware, content, epoch, disk, cache, writing, call, pc, faults>>

\* fat_mount, after the boot sector was read.
FatMount(v, extent) ==
    /\ Idle /\ writing = NoMount /\ mounts[v].generation = 0
    /\ Answers(Query(disk))
    /\ mounts' = [mounts EXCEPT ![v] =
            [medium |-> disk.medium, generation |-> Query(disk).generation, extent |-> extent,
             fenced |-> FALSE, gone |-> changed]]
    /\ reply' = Nothing
    /\ UNCHANGED <<hardware, content, epoch, disk, cache, writing, call, pc, faults>>

-----------------------------------------------------------------------------
\* write_begin: the lease names the mount's generation and its extent.
WriteBegin(v) ==
    /\ Idle /\ writing = NoMount /\ Usable(v)
    /\ cache' = QueriedCache
    /\ IF Live(v) /\ Answers(Poll(disk))
       THEN /\ disk' = Granted(mounts[v].extent)
            /\ writing' = v /\ UNCHANGED mounts
       ELSE /\ disk' = Revoked(Poll(disk))
            /\ mounts' = Fenced(v) /\ UNCHANGED writing
    /\ reply' = Nothing
    /\ UNCHANGED <<hardware, content, epoch, call, pc, faults>>

\* Mutant: the lease outlives the operation.
WriteEndKeepsLease ==
    /\ Idle /\ writing # NoMount
    /\ mounts' = IF Query(disk).allowed THEN mounts ELSE Fenced(writing)
    /\ disk' = Query(disk) /\ cache' = QueriedCache
    /\ writing' = NoMount /\ reply' = Nothing
    /\ UNCHANGED <<hardware, content, epoch, call, pc, faults>>

\* write_end: without a lease neither commit nor rollback can write, so the
\* mount is fenced; the lease is given back either way.
WriteEnd ==
    /\ Idle /\ writing # NoMount
    /\ mounts' = IF Query(disk).allowed THEN mounts ELSE Fenced(writing)
    /\ disk' = Revoked(Query(disk)) /\ cache' = QueriedCache
    /\ writing' = NoMount /\ reply' = Nothing
    /\ UNCHANGED <<hardware, content, epoch, call, pc, faults>>

\* usb_write, up to its first command; any caller, any range.
WriteGate(lba, count, value) ==
    /\ Idle
    /\ disk' = Query(disk)
    /\ IF Query(disk).allowed /\ lba .. lba + count - 1 \subseteq disk.extent
       THEN /\ cache' = {} /\ pc' = "write" /\ reply' = Nothing
            /\ call' = [op |-> "write", lba |-> lba, left |-> count, value |-> value]
       ELSE cache' = QueriedCache /\ Result("write", FALSE)
    /\ UNCHANGED <<hardware, content, epoch, mounts, writing, faults>>

\* The look at the route before the next command of a call.
Check ==
    /\ pc \in {"write", "read"} /\ call.left > 0
    /\ call.op = "read" => \A e \in cache : e.lba # call.lba
    /\ IF Answers(Poll(disk))
       THEN /\ pc' = IF pc = "write" THEN "send" ELSE "receive"
            /\ call' = IF pc = "write" THEN call ELSE [call EXCEPT !.cached = FALSE]
            /\ UNCHANGED <<disk, cache, reply>>
       ELSE disk' = Poll(disk) /\ cache' = {} /\ Result(call.op, FALSE)
    /\ UNCHANGED <<hardware, content, epoch, mounts, writing, faults>>

\* The transfer of a WRITE: it may be done, and reported so or not.
Send ==
    /\ pc = "send"
    /\ \/ ~changed /\ UNCHANGED faults
          /\ content' = [content EXCEPT ![disk.medium][call.lba] = call.value]
          /\ pc' = "sent"
       \/ changed /\ pc' = "failed" /\ UNCHANGED <<content, faults>>
       \/ /\ ~changed /\ Fault /\ pc' = "failed"
          /\ \/ UNCHANGED content
             \/ content' = [content EXCEPT ![disk.medium][call.lba] = call.value]
    /\ UNCHANGED <<hardware, epoch, disk, cache, mounts, writing, call, reply>>

\* The look at the route after it.
Sent ==
    /\ pc = "sent"
    /\ IF Answers(Poll(disk))
       THEN /\ call' = [op |-> "write", lba |-> call.lba + 1, left |-> call.left - 1,
                       value |-> call.value]
            /\ pc' = "write" /\ UNCHANGED <<disk, cache, reply>>
       ELSE disk' = Poll(disk) /\ cache' = {} /\ Result("write", FALSE)
    /\ UNCHANGED <<hardware, content, epoch, mounts, writing, faults>>

\* write_failed; a failed read revokes the lease as well.
Failed ==
    /\ pc = "failed"
    /\ disk' = Revoked(Poll(disk)) /\ cache' = {}
    /\ Result(call.op, FALSE)
    /\ UNCHANGED <<hardware, content, epoch, mounts, writing, faults>>

WriteDone ==
    /\ pc = "write" /\ call.left = 0
    /\ Result("write", TRUE)
    /\ UNCHANGED <<hardware, content, epoch, disk, cache, mounts, writing, faults>>

-----------------------------------------------------------------------------
\* A FAT read, up to the first sector of usb_read; a stale mount is fenced.
ReadGate(v, lba, count) ==
    /\ Idle /\ Usable(v) /\ writing \in {NoMount, v}
    /\ disk' = Query(disk) /\ cache' = QueriedCache
    /\ IF Live(v)
       THEN /\ pc' = "read" /\ reply' = Nothing /\ UNCHANGED mounts
            /\ call' = [op |-> "read", mount |-> v, lba |-> lba, left |-> count,
                        cached |-> FALSE, first |-> lba, got |-> <<>>, late |-> mounts[v].gone]
       ELSE mounts' = Fenced(v) /\ Result("read", FALSE)
    /\ UNCHANGED <<hardware, content, epoch, writing, faults>>

\* One more sector, from the cache or from the disk.
Got(value, cached) ==
    [op |-> "read", mount |-> call.mount, lba |-> call.lba + 1, left |-> call.left - 1,
     cached |-> cached, first |-> call.first, got |-> Append(call.got, value),
     late |-> call.late]

\* A sector from the cache: the first of a run looks at the route.
Hit ==
    /\ pc = "read" /\ call.left > 0
    /\ \E e \in cache :
        /\ e.lba = call.lba
        /\ IF call.cached \/ Answers(Poll(disk))
           THEN call' = Got(e.value, TRUE) /\ UNCHANGED <<disk, cache, pc, reply>>
           ELSE disk' = Poll(disk) /\ cache' = {} /\ Result("read", FALSE)
    /\ UNCHANGED <<hardware, content, epoch, mounts, writing, faults>>

Receive ==
    /\ pc = "receive"
    /\ \/ /\ ~changed /\ UNCHANGED faults
          /\ call' = Got(content[disk.medium][call.lba], FALSE) /\ pc' = "received"
       \/ changed /\ pc' = "failed" /\ UNCHANGED <<call, faults>>
       \/ ~changed /\ Fault /\ pc' = "failed" /\ UNCHANGED call
    /\ UNCHANGED <<hardware, content, epoch, disk, cache, mounts, writing, reply>>

\* The 32 entries are replaced in turn; which ones go is left open.
Received ==
    /\ pc = "received"
    /\ IF Answers(Poll(disk))
       THEN /\ \E kept \in SUBSET cache :
                cache' = kept \cup {[lba |-> call.lba - 1, value |-> call.got[Len(call.got)]]}
            /\ pc' = "read" /\ UNCHANGED <<disk, call, reply>>
       ELSE disk' = Poll(disk) /\ cache' = {} /\ Result("read", FALSE)
    /\ UNCHANGED <<hardware, content, epoch, mounts, writing, faults>>

\* A run that ends in the cache looks at the route once more.
ReadDone ==
    /\ pc = "read" /\ call.left = 0
    /\ IF call.cached /\ ~Answers(Poll(disk))
       THEN disk' = Poll(disk) /\ cache' = {} /\ Result("read", FALSE)
       ELSE /\ reply' = [op |-> "read", ok |-> TRUE, mount |-> call.mount,
                         first |-> call.first, got |-> call.got, late |-> call.late]
            /\ pc' = "idle" /\ call' = NoCall /\ UNCHANGED <<disk, cache>>
    /\ UNCHANGED <<hardware, content, epoch, mounts, writing, faults>>

-----------------------------------------------------------------------------
Init ==
    /\ port \in Media \cup {NoMedium} /\ changed = (port # NoMedium)
    /\ content \in Filled
    /\ epoch = 0 /\ disk = NoDisk /\ cache = {}
    /\ mounts = [v \in Slots |-> NoVolume] /\ writing = NoMount
    /\ call = NoCall /\ pc = "idle" /\ reply = Nothing /\ faults = 0

Ranges == {r \in Sectors \X (1 .. 2) : r[1] + r[2] - 1 <= SECTORS}

Next ==
    \/ Unplug \/ \E m \in Media : Plug(m)
    \/ UsbRescan \/ VfsInit
    \/ \E v \in Slots, e \in Extents : FatMount(v, e)
    \/ \E v \in Slots : WriteBegin(v)
    \/ WriteEnd
    \/ \E r \in Ranges, value \in Values : WriteGate(r[1], r[2], value)
    \/ \E v \in Slots, r \in Ranges :
        r[1] .. r[1] + r[2] - 1 \subseteq mounts[v].extent /\ ReadGate(v, r[1], r[2])
    \/ Check \/ Send \/ Sent \/ Failed \/ WriteDone
    \/ Hit \/ Receive \/ Received \/ ReadDone

Spec == Init /\ [][Next]_vars

-----------------------------------------------------------------------------
TypeOK ==
    /\ port \in Media \cup {NoMedium} /\ changed \in BOOLEAN
    /\ content \in [Media -> [Sectors -> Values]]
    /\ epoch \in 0 .. MaxEpoch /\ faults \in 0 .. MaxFaults
    /\ disk \in [medium : Media \cup {NoMedium}, generation : 0 .. epoch, dead : BOOLEAN,
                 allowed : BOOLEAN, extent : Extents \cup {{}}]
    /\ cache \in SUBSET [lba : Sectors, value : Values]
    /\ mounts \in [Slots -> [medium : Media \cup {NoMedium}, generation : 0 .. epoch,
                             extent : Extents \cup {{}}, fenced : BOOLEAN, gone : BOOLEAN]]
    /\ writing \in Slots \cup {NoMount}
    /\ pc \in {"idle", "write", "send", "sent", "failed", "read", "receive", "received"}
    /\ call.op \in {"none", "read", "write"} /\ reply.op \in {"none", "read", "write"}

\* The lease is granted for one operation, to the mount that runs it, for its
\* extent and its generation, and is back before the operation returns.
LeaseOnlyInOperation ==
    disk.allowed =>
        /\ writing # NoMount
        /\ disk.extent = mounts[writing].extent
        /\ disk.generation = mounts[writing].generation

\* Nothing is written but by an operation of a mount made on this medium,
\* inside its extent, and not once the medium has left the socket since.
WritesOwnMedium ==
    [][\A m \in Media, s \in Sectors : content'[m][s] # content[m][s] =>
            /\ writing # NoMount
            /\ mounts[writing].medium = m /\ s \in mounts[writing].extent
            /\ ~mounts[writing].gone]_vars

\* A read that succeeds returns what the mount's medium holds, cached or not,
\* and a read begun after the medium left the socket does not succeed.
ReadsCurrent ==
    reply.op = "read" /\ reply.ok =>
        /\ ~reply.late
        /\ \A i \in 1 .. Len(reply.got) :
                reply.got[i] = content[mounts[reply.mount].medium][reply.first + i - 1]

\* Both directions: a transfer is with the medium the mount was made on
\* (usb_read, usb_write and the lease of fat.c).
TransfersOwnMedium == []ReadsCurrent /\ WritesOwnMedium
=============================================================================
