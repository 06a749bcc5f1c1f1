--------------------------- MODULE UsbDeskProofs ---------------------------
(***************************************************************************)
(* The write lease and the reads of a USB disk, proved for every set of    *)
(* media, volumes and mounts, with or without a hub, and for every number  *)
(* of rescans and failed transfers; then what the desktop redraws and what *)
(* of it can be clicked, proved for every screen and every number of       *)
(* windows, applications and rectangles.                                   *)
(***************************************************************************)
EXTENDS UsbLease, Damage, FiniteSetTheorems, WellFoundedInduction, TLAPS

-----------------------------------------------------------------------------
(***************************************************************************)
(* The inductive invariant.                                                *)
(***************************************************************************)
CallRecords ==
    [write |-> [op : {"write"}, lba : Nat, left : Nat, value : Values],
     read |-> [op : {"read"}, mount : Slots, lba : Nat, left : Nat, cached : BOOLEAN,
               first : Nat, got : Seq(Values), late : BOOLEAN]]

Writing == {"write", "send", "sent"}
Reading == {"read", "receive", "received"}

\* The disk table has the medium of the last enumeration, and until the latch
\* is set that is the medium in the socket.
DiskTrue ==
    /\ disk.dead => disk.generation = 0 /\ ~disk.allowed
    /\ ~disk.dead => /\ disk.generation = epoch /\ epoch > 0 /\ disk.medium \in Media
                     /\ ~changed => port = disk.medium

\* A mount of the current enumeration is on the disk's medium, and the medium
\* has left the socket since exactly if the latch says so.
MountsTrue ==
    ~disk.dead => \A v \in Slots : mounts[v].generation = disk.generation =>
        mounts[v].medium = disk.medium /\ (mounts[v].gone <=> changed)

\* The read cache holds what the disk's medium holds.
CacheTrue == ~disk.dead => \A e \in cache : e.value = content[disk.medium][e.lba]

\* A WRITE that is under way has the lease and stays within it.
WriteTrue ==
    pc \in Writing =>
        /\ call \in CallRecords.write /\ cache = {} /\ disk.allowed
        /\ \A s \in call.lba .. call.lba + call.left - 1 : s \in disk.extent
        /\ pc # "write" => call.left > 0

\* What a read has got so far.
GotTrue(m, first, got) == \A i \in 1 .. Len(got) : got[i] = content[m][first + i - 1]

\* A read that is under way has the mount's medium; begun after the medium has
\* left the socket it has not got past its first look at the route.
ReadTrue ==
    pc \in Reading =>
        /\ call \in CallRecords.read /\ ~disk.dead
        /\ mounts[call.mount].medium = disk.medium
        /\ call.first >= 1 /\ call.lba = call.first + Len(call.got)
        /\ call.lba + call.left <= SECTORS + 1
        /\ GotTrue(disk.medium, call.first, call.got)
        /\ pc = "receive" => call.left > 0
        /\ pc = "received" => Len(call.got) > 0
        /\ call.late => changed /\ pc = "read" /\ call.left > 0 /\ ~call.cached

\* Between two calls nothing is pending, and within one nothing is answered.
CallTrue ==
    /\ pc = "idle" => call = NoCall
    /\ pc # "idle" => call.op # "none" /\ reply = Nothing

ReplyTrue ==
    /\ reply.ok \in BOOLEAN
    /\ reply.op = "read" /\ reply.ok =>
        /\ reply.mount \in Slots /\ ~reply.late
        /\ GotTrue(mounts[reply.mount].medium, reply.first, reply.got)

IInv ==
    /\ TypeOK /\ DiskTrue /\ MountsTrue /\ CacheTrue /\ LeaseOnlyInOperation
    /\ WriteTrue /\ ReadTrue /\ CallTrue /\ ReplyTrue

-----------------------------------------------------------------------------
(***************************************************************************)
(* Looks at the route.                                                     *)
(***************************************************************************)
DiskRecords(last) ==
    [medium : Media \cup {NoMedium}, generation : 0 .. last, dead : BOOLEAN,
     allowed : BOOLEAN, extent : Extents \cup {{}}]
MountRecords(last) ==
    [medium : Media \cup {NoMedium}, generation : 0 .. last, extent : Extents \cup {{}},
     fenced : BOOLEAN, gone : BOOLEAN]

\* What a look at the route, or a revoked lease, leaves of the disk.
Looked == {disk, Killed(disk), Revoked(disk), Revoked(Killed(disk))}

\* The disk after a look: the same one, or without its lease, or dead.
LEMMA LookedDisk ==
    ASSUME TypeOK, DiskTrue, NEW d \in Looked
    PROVE  /\ d \in DiskRecords(epoch)
           /\ d.medium = disk.medium
           /\ d.dead => d.generation = 0 /\ ~d.allowed
           /\ ~d.dead => ~disk.dead /\ d.generation = disk.generation
           /\ d.allowed => d = disk
<1>1. disk \in DiskRecords(epoch) BY DEF TypeOK, DiskRecords
<1>2. epoch \in Nat BY DEF TypeOK
<1>5. Revoked(Killed(disk)) = Killed(disk) BY DEF Revoked, Killed
<1>6. CASE d = disk BY <1>1, <1>6 DEF DiskTrue
<1>7. CASE d = Killed(disk) BY <1>1, <1>2, <1>7 DEF DiskRecords, Killed
<1>8. CASE d = Revoked(disk) BY <1>1, <1>2, <1>8 DEF DiskRecords, DiskTrue, Revoked
<1>9. QED BY <1>5, <1>6, <1>7, <1>8 DEF Looked

\* A look keeps the disk or kills it, and kills it when a change is seen.
LEMMA PollQuery ==
    ASSUME TypeOK
    PROVE  /\ Poll(disk) \in Looked /\ Query(disk) \in Looked
           /\ Revoked(Poll(disk)) \in Looked /\ Revoked(Query(disk)) \in Looked
           /\ ~Poll(disk).dead => Poll(disk) = disk /\ ~changed
           /\ ~Query(disk).dead => Query(disk) = disk
           /\ ~changed => Poll(disk) = disk /\ Query(disk) = disk
<1>1. Killed(disk).dead BY DEF TypeOK, Killed
<1>2. QED BY <1>1 DEF Poll, Query, Looked, Answers

\* Mounts keep what they are on, whatever is fenced.
SameMounts ==
    /\ mounts' \in [Slots -> MountRecords(epoch)]
    /\ \A v \in Slots :
        /\ mounts'[v].medium = mounts[v].medium
        /\ mounts'[v].generation = mounts[v].generation
        /\ mounts'[v].extent = mounts[v].extent
        /\ mounts'[v].gone = mounts[v].gone

LEMMA FencedMounts ==
    ASSUME TypeOK, NEW v \in Slots, mounts' = Fenced(v)
    PROVE  SameMounts
<1>1. mounts \in [Slots -> MountRecords(epoch)] BY DEF TypeOK, MountRecords
<1>2. mounts' = [mounts EXCEPT ![v].fenced = TRUE] BY DEF Fenced
<1>3. ASSUME NEW u \in Slots
      PROVE  /\ mounts'[u] \in MountRecords(epoch)
             /\ mounts'[u].medium = mounts[u].medium
             /\ mounts'[u].generation = mounts[u].generation
             /\ mounts'[u].extent = mounts[u].extent
             /\ mounts'[u].gone = mounts[u].gone
  <2> DEFINE m == mounts[u]
             new == [m EXCEPT !.fenced = TRUE]
  <2>0. m \in MountRecords(epoch) /\ mounts'[u] \in {m, new}
    <3>1. mounts'[u] = IF u = v THEN [mounts[u] EXCEPT !.fenced = TRUE] ELSE mounts[u] BY <1>1, <1>2, Zenon
    <3> QED BY <1>1, <3>1, Zenon
  <2> HIDE DEF m
  <2>1. new \in MountRecords(epoch) BY <2>0, Zenon DEF MountRecords
  <2>2. new.medium = m.medium /\ new.generation = m.generation /\ new.extent = m.extent /\ new.gone = m.gone
    BY <2>0, Zenon DEF MountRecords
  <2> HIDE DEF new
  <2>3. QED BY <2>0, <2>1, <2>2, Zenon DEF m
<1>4. QED BY <1>1, <1>2, <1>3 DEF SameMounts

LEMMA KeptMounts == ASSUME TypeOK, UNCHANGED <<mounts, epoch>> PROVE SameMounts
BY DEF TypeOK, MountRecords, SameMounts

\* The parts of the invariant that are about the disk, its mounts and cache.
DeviceTrue ==
    /\ disk \in DiskRecords(epoch) /\ mounts \in [Slots -> MountRecords(epoch)]
    /\ DiskTrue /\ MountsTrue /\ CacheTrue /\ LeaseOnlyInOperation

\* A look at the route disturbs none of them.
LEMMA LookStep ==
    ASSUME TypeOK, DeviceTrue, disk' \in Looked, cache' \subseteq cache, SameMounts,
           UNCHANGED <<port, changed, content, epoch>>,
           disk'.allowed => writing' = writing /\ writing \in Slots
    PROVE  DeviceTrue'
<1>1. /\ disk' \in DiskRecords(epoch) /\ disk'.medium = disk.medium
      /\ disk'.dead => disk'.generation = 0 /\ ~disk'.allowed
      /\ ~disk'.dead => ~disk.dead /\ disk'.generation = disk.generation
      /\ disk'.allowed => disk' = disk BY LookedDisk DEF DeviceTrue
<1>2. DiskTrue' BY <1>1 DEF DeviceTrue, DiskTrue
<1>3. MountsTrue' BY <1>1 DEF DeviceTrue, MountsTrue, SameMounts
<1>4. CacheTrue' BY <1>1 DEF DeviceTrue, CacheTrue
<1>5. LeaseOnlyInOperation' BY <1>1 DEF DeviceTrue, LeaseOnlyInOperation, SameMounts
<1>6. QED BY <1>1, <1>2, <1>3, <1>4, <1>5 DEF DeviceTrue, SameMounts

\* The rest of the type invariant.
RestOK ==
    /\ port \in Media \cup {NoMedium} /\ changed \in BOOLEAN
    /\ content \in [Media -> [Sectors -> Values]]
    /\ epoch \in 0 .. MaxEpoch /\ faults \in 0 .. MaxFaults
    /\ cache \in SUBSET [lba : Sectors, value : Values]
    /\ writing \in Slots \cup {NoMount}
    /\ pc \in {"idle", "write", "send", "sent", "failed", "read", "receive", "received"}
    /\ call.op \in {"none", "read", "write"} /\ reply.op \in {"none", "read", "write"}

CallsTrue == WriteTrue /\ ReadTrue /\ CallTrue /\ ReplyTrue

LEMMA InvParts == IInv <=> DeviceTrue /\ RestOK /\ CallsTrue
BY DEF IInv, DeviceTrue, RestOK, CallsTrue, TypeOK, DiskRecords, MountRecords

LEMMA InvPartsNext == DeviceTrue' /\ RestOK' /\ CallsTrue' => IInv'
BY DEF IInv, DeviceTrue, RestOK, CallsTrue, TypeOK, DiskRecords, MountRecords

\* A call that ends, or never starts, without a successful read.
LEMMA EndStep ==
    ASSUME pc' = "idle", call' = NoCall, reply'.op \in {"none", "read", "write"},
           reply'.ok \in BOOLEAN, reply'.ok => reply'.op = "write"
    PROVE  CallsTrue' /\ pc' \in {"idle"} /\ call'.op = "none"
BY DEF CallsTrue, WriteTrue, ReadTrue, CallTrue, ReplyTrue, Writing, Reading, NoCall

\* A block call that returns without a read.
LEMMA ResultStep ==
    ASSUME NEW op \in {"read", "write"}, NEW ok \in BOOLEAN, ok => op = "write", Result(op, ok)
    PROVE  CallsTrue' /\ pc' = "idle" /\ call'.op = "none" /\ reply'.op = op BY EndStep DEF Result

LEMMA QuietStep ==
    ASSUME CallsTrue, Idle, UNCHANGED <<call, pc>>, reply' = Nothing
    PROVE  CallsTrue' /\ pc' = "idle" /\ call'.op = "none" /\ reply'.op = "none" BY EndStep DEF Idle, Nothing

-----------------------------------------------------------------------------
(***************************************************************************)
(* The steps.                                                              *)
(***************************************************************************)

\* The user pulls the stick: every mount of this enumeration has lost it.
LEMMA UnplugStep == ASSUME IInv, Unplug PROVE IInv'
<1>1. DeviceTrue /\ RestOK /\ CallsTrue BY InvParts
<1>2. ASSUME NEW v \in Slots
      PROVE  /\ mounts'[v] \in MountRecords(epoch)
             /\ mounts'[v].medium = mounts[v].medium
             /\ mounts'[v].generation = mounts[v].generation
             /\ mounts'[v].extent = mounts[v].extent
             /\ mounts[v].generation # 0 => mounts'[v].gone
  <2>1. mounts[v] \in MountRecords(epoch) BY <1>1 DEF DeviceTrue
  <2>2. CASE mounts[v].generation = 0 BY <2>1, <2>2 DEF Unplug
  <2>3. CASE mounts[v].generation # 0
    <3>1. mounts'[v] = [mounts[v] EXCEPT !.gone = TRUE] BY <2>3 DEF Unplug
    <3>2. QED BY <2>1, <3>1 DEF MountRecords
  <2>4. QED BY <2>2, <2>3
<1>3. mounts' \in [Slots -> MountRecords(epoch)] BY <1>2 DEF Unplug
<1>4. DiskTrue' /\ CacheTrue' /\ LeaseOnlyInOperation'
  BY <1>1, <1>2 DEF Unplug, DeviceTrue, DiskTrue, CacheTrue, LeaseOnlyInOperation, RestOK
<1>5. MountsTrue' BY <1>1, <1>2 DEF Unplug, DeviceTrue, DiskTrue, MountsTrue, RestOK
<1>6. RestOK' BY <1>1 DEF Unplug, RestOK
<1>7. WriteTrue' /\ CallTrue' BY <1>1 DEF Unplug, CallsTrue, WriteTrue, CallTrue
<1>8. ReadTrue' BY <1>1, <1>2 DEF Unplug, CallsTrue, ReadTrue, GotTrue, CallRecords
<1>9. ReplyTrue' BY <1>1, <1>2 DEF Unplug, CallsTrue, ReplyTrue, GotTrue
<1>10. QED BY <1>1, <1>3, <1>4, <1>5, <1>6, <1>7, <1>8, <1>9, InvPartsNext DEF Unplug, DeviceTrue, CallsTrue

\* A stick is plugged in: the socket was empty, so the latch is set already.
LEMMA PlugStep == ASSUME IInv, NEW m \in Media, Plug(m) PROVE IInv'
<1>1. DeviceTrue /\ RestOK /\ CallsTrue BY InvParts
<1>2. ~disk.dead => changed BY <1>1, MediaAssumption DEF Plug, DeviceTrue, DiskTrue
<1>3. DeviceTrue' BY <1>1, <1>2 DEF Plug, DeviceTrue, DiskTrue, MountsTrue, CacheTrue, LeaseOnlyInOperation
<1>4. RestOK' BY <1>1 DEF Plug, RestOK
<1>5. CallsTrue' BY <1>1 DEF Plug, CallsTrue, WriteTrue, ReadTrue, CallTrue, ReplyTrue, GotTrue
<1>6. QED BY <1>3, <1>4, <1>5, InvPartsNext

\* A new generation: no mount is of it, and nothing is cached.
LEMMA RescanStep == ASSUME IInv, UsbRescan PROVE IInv'
<1>1. DeviceTrue /\ RestOK /\ CallsTrue BY InvParts
<1>2. /\ epoch \in Nat /\ epoch' = epoch + 1 /\ epoch' \in 0 .. MaxEpoch
      /\ cache' = {} /\ writing' = NoMount /\ UNCHANGED <<content, mounts, port>>
  BY <1>1, BoundsAssumption DEF UsbRescan, RestOK
<1>3. mounts' \in [Slots -> MountRecords(epoch')] BY <1>1, <1>2 DEF DeviceTrue, MountRecords
<1>4. \A v \in Slots : mounts[v].generation # epoch' BY <1>1, <1>2 DEF DeviceTrue, MountRecords
<1>5. CASE port # NoMedium /\ changed' = FALSE /\ disk' = Enumerated(port, epoch')
  <2>1. DeviceTrue' BY <1>1, <1>2, <1>3, <1>4, <1>5 DEF DeviceTrue, DiskRecords, Enumerated, DiskTrue, MountsTrue,
    CacheTrue, LeaseOnlyInOperation, RestOK
  <2>2. QED BY <1>1, <1>2, <1>5, <2>1, QuietStep, InvPartsNext DEF UsbRescan, RestOK
<1>6. CASE disk' = NoDisk /\ UNCHANGED changed
  <2>1. DeviceTrue' BY <1>1, <1>2, <1>3, <1>6 DEF DeviceTrue, DiskRecords, NoDisk, DiskTrue, MountsTrue, CacheTrue,
    LeaseOnlyInOperation
  <2>2. QED BY <1>1, <1>2, <1>6, <2>1, QuietStep, InvPartsNext DEF UsbRescan, RestOK
<1>7. QED BY <1>5, <1>6 DEF UsbRescan

\* Every mount is forgotten.
LEMMA VfsInitStep == ASSUME IInv, VfsInit PROVE IInv'
<1>1. DeviceTrue /\ RestOK /\ CallsTrue BY InvParts
<1>2. mounts' \in [Slots -> MountRecords(epoch)] BY <1>1 DEF VfsInit, NoVolume, MountRecords, RestOK
<1>3. ~disk.allowed BY <1>1, SlotsAssumption DEF VfsInit, DeviceTrue, LeaseOnlyInOperation
<1>4. ~disk.dead => \A v \in Slots : mounts'[v].generation # disk.generation
  BY <1>1 DEF VfsInit, NoVolume, DeviceTrue, DiskTrue, RestOK
<1>5. DeviceTrue' BY <1>1, <1>2, <1>3, <1>4 DEF VfsInit, hardware, DeviceTrue, DiskTrue, MountsTrue, CacheTrue,
  LeaseOnlyInOperation
<1>6. QED BY <1>1, <1>5, QuietStep, InvPartsNext DEF VfsInit, hardware, RestOK

\* A mount of a disk that answers is on its medium.
LEMMA MountStep ==
    ASSUME IInv, NEW v \in Slots, NEW e \in Extents, FatMount(v, e)
    PROVE  IInv'
<1>1. DeviceTrue /\ RestOK /\ CallsTrue /\ TypeOK BY InvParts DEF IInv
<1>2. ~disk.dead /\ Query(disk) = disk BY <1>1, PollQuery DEF FatMount, Answers
<1>3. mounts' = [mounts EXCEPT ![v] =
        [medium |-> disk.medium, generation |-> disk.generation, extent |-> e,
         fenced |-> FALSE, gone |-> changed]] BY <1>2 DEF FatMount
<1>4. mounts' \in [Slots -> MountRecords(epoch)] BY <1>1, <1>3 DEF DeviceTrue, MountRecords, DiskRecords, RestOK
<1>5. ~disk.allowed BY <1>1, SlotsAssumption DEF FatMount, DeviceTrue, LeaseOnlyInOperation
<1>6. MountsTrue'
  <2>1. ASSUME NEW u \in Slots, mounts'[u].generation = disk.generation
        PROVE  mounts'[u].medium = disk.medium /\ (mounts'[u].gone <=> changed)
    <3>1. CASE u = v BY <1>1, <1>3, <3>1 DEF DeviceTrue
    <3>2. CASE u # v BY <1>1, <1>2, <1>3, <2>1, <3>2 DEF DeviceTrue, MountsTrue
    <3>3. QED BY <3>1, <3>2
  <2>2. QED BY <2>1 DEF FatMount, hardware, MountsTrue
<1>7. DeviceTrue' BY <1>1, <1>4, <1>5, <1>6 DEF FatMount, hardware, DeviceTrue, DiskTrue, CacheTrue,
  LeaseOnlyInOperation
<1>8. QED BY <1>1, <1>7, QuietStep, InvPartsNext DEF FatMount, hardware, RestOK

\* What the sectors queried leave of the cache.
LEMMA QueriedSubset == QueriedCache \subseteq cache BY DEF QueriedCache

\* The lease is for the mount and its generation, or the mount is fenced.
LEMMA WriteBeginStep == ASSUME IInv, NEW v \in Slots, WriteBegin(v) PROVE IInv'
<1>1. DeviceTrue /\ RestOK /\ CallsTrue /\ TypeOK BY InvParts DEF IInv
<1>2. CASE Live(v) /\ Answers(Poll(disk))
  <2>1. ~disk.dead /\ Query(disk) = disk /\ mounts[v].generation = disk.generation
    BY <1>1, <1>2, PollQuery DEF Live, Answers
  <2>2. /\ disk' = [medium |-> disk.medium, generation |-> disk.generation, dead |-> disk.dead,
                    allowed |-> TRUE, extent |-> mounts[v].extent]
        /\ writing' = v /\ mounts' = mounts /\ cache' \subseteq cache BY <1>2, QueriedSubset DEF WriteBegin, Granted
  <2>3. disk' \in DiskRecords(epoch) BY <1>1, <2>2 DEF DeviceTrue, DiskRecords, MountRecords
  <2>4. DeviceTrue' BY <1>1, <2>1, <2>2, <2>3, SlotsAssumption DEF WriteBegin, hardware, DeviceTrue, DiskTrue,
    MountsTrue, CacheTrue, LeaseOnlyInOperation
  <2>5. QED BY <1>1, <2>2, <2>4, QuietStep, InvPartsNext DEF WriteBegin, hardware, RestOK
<1>3. CASE ~(Live(v) /\ Answers(Poll(disk)))
  <2>1. disk' = Revoked(Poll(disk)) /\ mounts' = Fenced(v) /\ writing' = writing BY <1>3 DEF WriteBegin
  <2>2. SameMounts /\ disk' \in Looked /\ cache' \subseteq cache /\ ~disk'.allowed
    BY <1>1, <2>1, FencedMounts, PollQuery, QueriedSubset DEF WriteBegin, Revoked
  <2>3. DeviceTrue' BY <1>1, <2>1, <2>2, LookStep DEF WriteBegin, hardware
  <2>4. QED BY <1>1, <2>1, <2>2, <2>3, QuietStep, InvPartsNext DEF WriteBegin, hardware, RestOK
<1>4. QED BY <1>2, <1>3

\* The lease is given back.
LEMMA WriteEndStep == ASSUME IInv, WriteEnd PROVE IInv'
<1>1. DeviceTrue /\ RestOK /\ CallsTrue /\ TypeOK BY InvParts DEF IInv
<1>2. writing \in Slots /\ writing' = NoMount BY <1>1 DEF WriteEnd, RestOK
<1>3. SameMounts BY <1>1, <1>2, FencedMounts, KeptMounts DEF WriteEnd
<1>4. disk' \in Looked /\ cache' \subseteq cache /\ ~disk'.allowed
  BY <1>1, PollQuery, QueriedSubset DEF WriteEnd, Revoked
<1>5. DeviceTrue' BY <1>1, <1>3, <1>4, LookStep DEF WriteEnd, hardware
<1>6. QED BY <1>1, <1>2, <1>4, <1>5, QuietStep, InvPartsNext DEF WriteEnd, hardware, RestOK

\* A write is let through inside the lease only.
LEMMA WriteGateStep ==
    ASSUME IInv, NEW r \in Ranges, NEW value \in Values, WriteGate(r[1], r[2], value)
    PROVE  IInv'
<1>1. DeviceTrue /\ RestOK /\ CallsTrue /\ TypeOK BY InvParts DEF IInv
<1>2. r[1] \in Nat /\ r[2] \in Nat BY DEF Ranges, Sectors
<1>3. disk' = Query(disk) /\ disk' \in Looked /\ SameMounts /\ writing' = writing
  BY <1>1, PollQuery, KeptMounts DEF WriteGate
<1>4. CASE Query(disk).allowed /\ r[1] .. r[1] + r[2] - 1 \subseteq disk.extent
  <2>1. /\ cache' = {} /\ pc' = "write" /\ reply' = Nothing
        /\ call' = [op |-> "write", lba |-> r[1], left |-> r[2], value |-> value] BY <1>4 DEF WriteGate
  <2>2. disk' = disk /\ disk.allowed /\ writing \in Slots
    BY <1>1, <1>3, <1>4, LookedDisk DEF IInv, RestOK, DeviceTrue, LeaseOnlyInOperation
  <2>3. DeviceTrue' BY <1>1, <1>3, <2>1, <2>2, LookStep DEF WriteGate, hardware
  <2>4. CallsTrue' BY <1>2, <1>4, <2>1, <2>2 DEF CallsTrue, WriteTrue, ReadTrue, CallTrue, ReplyTrue, CallRecords,
    Writing, Reading, Nothing
  <2>5. QED BY <1>1, <1>3, <2>1, <2>3, <2>4, InvPartsNext DEF WriteGate, hardware, RestOK, Nothing
<1>5. CASE ~(Query(disk).allowed /\ r[1] .. r[1] + r[2] - 1 \subseteq disk.extent)
  <2>1. cache' \subseteq cache /\ Result("write", FALSE) BY <1>5, QueriedSubset DEF WriteGate
  <2>2. disk'.allowed => writing \in Slots
    BY <1>1, <1>3, LookedDisk DEF IInv, RestOK, DeviceTrue, LeaseOnlyInOperation
  <2>3. DeviceTrue' BY <1>1, <1>3, <2>1, <2>2, LookStep DEF WriteGate, hardware
  <2>4. CallsTrue' /\ pc' = "idle" /\ call'.op = "none" /\ reply'.op = "write" BY <2>1, ResultStep
  <2>5. QED BY <1>1, <1>3, <2>1, <2>3, <2>4, InvPartsNext DEF WriteGate, hardware, RestOK
<1>6. QED BY <1>4, <1>5

\* The mount that has the lease.
LEMMA Leased == ASSUME IInv, disk.allowed PROVE writing \in Slots /\ ~disk.dead
BY DEF IInv, TypeOK, LeaseOnlyInOperation, DiskTrue

\* A look that leaves the disk, its mounts and the media alone.
LEMMA DeviceStep ==
    ASSUME IInv, disk' \in Looked, cache' \subseteq cache, SameMounts,
           UNCHANGED <<port, changed, content, epoch, writing>>
    PROVE  DeviceTrue'
<1>1. DeviceTrue /\ TypeOK BY InvParts DEF IInv
<1>2. disk'.allowed => writing \in Slots BY <1>1, LookedDisk, Leased DEF IInv
<1>3. QED BY <1>1, <1>2, LookStep

\* A call that a dead route ends.
LEMMA EndedStep ==
    ASSUME IInv, NEW op \in {"read", "write"}, disk' \in Looked, cache' = {}, Result(op, FALSE),
           UNCHANGED <<hardware, content, epoch, mounts, writing, faults>>
    PROVE  IInv'
<1>1. RestOK /\ TypeOK BY InvParts DEF IInv
<1>2. SameMounts BY <1>1, KeptMounts
<1>3. DeviceTrue' BY <1>2, DeviceStep DEF hardware
<1>4. CallsTrue' /\ pc' = "idle" /\ call'.op = "none" /\ reply'.op = op BY ResultStep
<1>5. RestOK' BY <1>1, <1>4 DEF hardware, RestOK
<1>6. QED BY <1>3, <1>4, <1>5, InvPartsNext

\* A read of a mount that is live; a stale one is fenced.
LEMMA ReadGateStep ==
    ASSUME IInv, NEW v \in Slots, NEW r \in Ranges, ReadGate(v, r[1], r[2])
    PROVE  IInv'
<1>1. DeviceTrue /\ RestOK /\ CallsTrue /\ TypeOK BY InvParts DEF IInv
<1>2. /\ r[1] \in Nat /\ r[2] \in Nat /\ r[1] >= 1 /\ r[2] >= 1
      /\ r[1] + r[2] <= SECTORS + 1 BY BoundsAssumption DEF Ranges, Sectors
<1>3. disk' = Query(disk) /\ disk' \in Looked /\ cache' \subseteq cache BY <1>1, PollQuery, QueriedSubset DEF ReadGate
<1>4. CASE Live(v)
  <2>1. /\ pc' = "read" /\ reply' = Nothing /\ UNCHANGED mounts
        /\ call' = [op |-> "read", mount |-> v, lba |-> r[1], left |-> r[2], cached |-> FALSE,
                    first |-> r[1], got |-> <<>>, late |-> mounts[v].gone] BY <1>4 DEF ReadGate
  <2>2. ~disk.dead /\ Query(disk) = disk /\ mounts[v].generation = disk.generation
    BY <1>1, <1>4, PollQuery, LookedDisk DEF Live, DeviceTrue
  <2>3. mounts[v].medium = disk.medium /\ (mounts[v].gone <=> changed) BY <1>1, <2>2 DEF DeviceTrue, MountsTrue
  <2>4. mounts[v].gone \in BOOLEAN BY <1>1 DEF DeviceTrue, MountRecords
  <2>5. DeviceTrue' BY <1>1, <1>3, <2>1, DeviceStep, KeptMounts DEF ReadGate, hardware
  <2>6. call' \in CallRecords.read BY <1>2, <2>1, <2>4 DEF CallRecords
  <2>7. CallsTrue' BY <1>2, <1>3, <2>1, <2>2, <2>3, <2>6 DEF ReadGate, hardware, CallsTrue, WriteTrue, ReadTrue,
    CallTrue, ReplyTrue, GotTrue, Writing, Reading, Nothing
  <2>8. QED BY <1>1, <1>3, <2>1, <2>5, <2>7, InvPartsNext DEF ReadGate, hardware, RestOK, Nothing
<1>5. CASE ~Live(v)
  <2>1. mounts' = Fenced(v) /\ Result("read", FALSE) BY <1>5 DEF ReadGate
  <2>2. DeviceTrue' BY <1>1, <1>3, <2>1, FencedMounts, DeviceStep DEF ReadGate, hardware
  <2>3. CallsTrue' /\ pc' = "idle" /\ call'.op = "none" /\ reply'.op = "read" BY <2>1, ResultStep
  <2>4. QED BY <1>1, <1>3, <2>2, <2>3, InvPartsNext DEF ReadGate, hardware, RestOK
<1>6. QED BY <1>4, <1>5

\* The look before a transfer.
LEMMA CheckStep == ASSUME IInv, Check PROVE IInv'
<1>1. DeviceTrue /\ RestOK /\ CallsTrue /\ TypeOK BY InvParts DEF IInv
<1>2. CASE Answers(Poll(disk))
  <2>1. ~disk.dead /\ ~changed BY <1>1, <1>2, PollQuery DEF Answers
  <2>2. /\ pc' = IF pc = "write" THEN "send" ELSE "receive"
        /\ call' = IF pc = "write" THEN call ELSE [call EXCEPT !.cached = FALSE]
        /\ UNCHANGED <<disk, cache, reply>> /\ pc \in {"write", "read"} /\ call.left > 0 BY <1>2 DEF Check
  <2>3. DeviceTrue' BY <1>1, <2>2 DEF Check, hardware, DeviceTrue, DiskTrue, MountsTrue, CacheTrue,
    LeaseOnlyInOperation
  <2>4. CASE pc = "write" BY <1>1, <2>2, <2>3, <2>4, InvPartsNext
       DEF Check, hardware, RestOK, CallsTrue, WriteTrue, ReadTrue, CallTrue, ReplyTrue, Writing,
           Reading, CallRecords, Nothing
  <2>5. CASE pc = "read"
    <3>1. call \in CallRecords.read BY <1>1, <2>5 DEF CallsTrue, ReadTrue, Reading
    <3>2. /\ call' \in CallRecords.read /\ pc' = "receive" /\ call'.cached = FALSE
          /\ call'.op = "read" /\ call'.mount = call.mount /\ call'.lba = call.lba
          /\ call'.left = call.left /\ call'.first = call.first /\ call'.got = call.got
          /\ call'.late = call.late BY <2>2, <2>5, <3>1 DEF CallRecords
    <3>3. ~call.late BY <1>1, <2>1, <2>5 DEF CallsTrue, ReadTrue, Reading
    <3>4. CallsTrue' BY <1>1, <2>1, <2>2, <2>5, <3>2, <3>3 DEF Check, hardware, CallsTrue, WriteTrue, ReadTrue,
      CallTrue, ReplyTrue, GotTrue, Writing, Reading, Nothing
    <3>5. QED BY <1>1, <2>2, <2>3, <3>2, <3>4, InvPartsNext DEF Check, hardware, RestOK
  <2>6. QED BY <2>2, <2>4, <2>5
<1>3. CASE ~Answers(Poll(disk))
  <2>1. call.op \in {"read", "write"} BY <1>1 DEF Check, CallsTrue, CallTrue, RestOK
  <2>2. QED BY <1>1, <1>3, <2>1, PollQuery, EndedStep DEF Check
<1>4. QED BY <1>2, <1>3

\* A WRITE to the medium of the lease.
LEMMA SendFacts ==
    ASSUME IInv, pc = "send"
    PROVE  /\ disk.medium \in Media /\ call.lba \in Sectors /\ call.value \in Values
           /\ writing \in Slots /\ call.lba \in mounts[writing].extent
           /\ mounts[writing].medium = disk.medium /\ (mounts[writing].gone <=> changed)
           /\ disk.allowed /\ cache = {} /\ reply = Nothing
<1>1. /\ call \in CallRecords.write /\ cache = {} /\ disk.allowed /\ call.left > 0
      /\ \A s \in call.lba .. call.lba + call.left - 1 : s \in disk.extent
      /\ reply = Nothing BY DEF IInv, WriteTrue, CallTrue, Writing
<1>2. call.lba \in disk.extent /\ call.value \in Values BY <1>1 DEF CallRecords
<1>3. writing \in Slots /\ ~disk.dead BY <1>1, Leased
<1>4. disk.extent = mounts[writing].extent /\ disk.generation = mounts[writing].generation
  BY <1>1 DEF IInv, LeaseOnlyInOperation
<1>5. disk.medium \in Media BY <1>3 DEF IInv, DiskTrue
<1>6. mounts[writing].medium = disk.medium /\ (mounts[writing].gone <=> changed) BY <1>3, <1>4 DEF IInv, MountsTrue
<1>7. call.lba \in Sectors BY <1>2, ExtentsAssumption DEF IInv, TypeOK, Sectors
<1>8. QED BY <1>1, <1>2, <1>3, <1>4, <1>5, <1>6, <1>7

LEMMA SendStep == ASSUME IInv, Send PROVE IInv'
<1>1. DeviceTrue /\ RestOK /\ CallsTrue /\ TypeOK BY InvParts DEF IInv
<1>2. pc = "send" /\ pc' \in {"sent", "failed"} BY DEF Send
<1>3. /\ disk.medium \in Media /\ call.lba \in Sectors /\ call.value \in Values
      /\ disk.allowed /\ cache = {} /\ reply = Nothing BY <1>2, SendFacts
<1>4. content' \in [Media -> [Sectors -> Values]] BY <1>1, <1>3 DEF Send, RestOK
<1>5. faults' \in 0 .. MaxFaults BY <1>1, BoundsAssumption DEF Send, RestOK, Fault
<1>6. DeviceTrue' BY <1>1, <1>3 DEF Send, hardware, DeviceTrue, DiskTrue, MountsTrue, CacheTrue, LeaseOnlyInOperation
<1>7. RestOK' BY <1>1, <1>2, <1>4, <1>5 DEF Send, hardware, RestOK
<1>8. CallsTrue' BY <1>1, <1>2, <1>3 DEF Send, CallsTrue, WriteTrue, ReadTrue, CallTrue, ReplyTrue, CallRecords,
  Writing, Reading, Nothing
<1>9. QED BY <1>6, <1>7, <1>8, InvPartsNext

\* The look after it.
LEMMA SentStep == ASSUME IInv, Sent PROVE IInv'
<1>1. DeviceTrue /\ RestOK /\ CallsTrue /\ TypeOK BY InvParts DEF IInv
<1>2. CASE Answers(Poll(disk))
  <2>1. /\ call' = [op |-> "write", lba |-> call.lba + 1, left |-> call.left - 1,
                    value |-> call.value]
        /\ pc = "sent" /\ pc' = "write" /\ UNCHANGED <<disk, cache, reply>> BY <1>2 DEF Sent
  <2>2. /\ call \in CallRecords.write /\ call.left > 0 /\ cache = {} /\ disk.allowed
        /\ \A s \in call.lba .. call.lba + call.left - 1 : s \in disk.extent
        /\ reply = Nothing BY <1>1, <2>1 DEF CallsTrue, WriteTrue, CallTrue, Writing
  <2>3. /\ call.lba \in Nat /\ call.left \in Nat /\ call' \in CallRecords.write
        /\ call'.lba = call.lba + 1 /\ call'.left = call.left - 1 BY <2>1, <2>2 DEF CallRecords
  <2>4. \A s \in call'.lba .. call'.lba + call'.left - 1 : s \in disk.extent BY <2>2, <2>3
  <2>5. DeviceTrue' BY <1>1, <2>1 DEF Sent, hardware, DeviceTrue, DiskTrue, MountsTrue, CacheTrue,
    LeaseOnlyInOperation
  <2>6. CallsTrue' BY <2>1, <2>2, <2>3, <2>4 DEF CallsTrue, WriteTrue, ReadTrue, CallTrue, ReplyTrue, Writing,
    Reading, Nothing
  <2>7. QED BY <1>1, <2>1, <2>5, <2>6, InvPartsNext DEF Sent, hardware, RestOK
<1>3. CASE ~Answers(Poll(disk)) BY <1>1, <1>3, PollQuery, EndedStep DEF Sent
<1>4. QED BY <1>2, <1>3

\* A failed transfer revokes the lease.
LEMMA FailedStep == ASSUME IInv, Failed PROVE IInv'
<1>1. RestOK /\ CallsTrue /\ TypeOK BY InvParts DEF IInv
<1>2. call.op \in {"read", "write"} BY <1>1 DEF Failed, CallsTrue, CallTrue, RestOK
<1>3. QED BY <1>1, <1>2, PollQuery, EndedStep DEF Failed

LEMMA WriteDoneStep == ASSUME IInv, WriteDone PROVE IInv'
<1>1. DeviceTrue /\ RestOK /\ CallsTrue BY InvParts
<1>2. CallsTrue' /\ pc' = "idle" /\ call'.op = "none" /\ reply'.op = "write" BY ResultStep DEF WriteDone
<1>3. DeviceTrue' BY <1>1 DEF WriteDone, hardware, DeviceTrue, DiskTrue, MountsTrue, CacheTrue, LeaseOnlyInOperation
<1>4. QED BY <1>1, <1>2, <1>3, InvPartsNext DEF WriteDone, hardware, RestOK

\* One more sector of the mount's medium.
LEMMA GotStep ==
    ASSUME IInv, pc \in {"read", "receive"}, call.op = "read", call.left > 0, ~call.late,
           NEW cached \in BOOLEAN, NEW value \in Values,
           value = content[disk.medium][call.lba],
           call' = Got(value, cached), pc' \in {"read", "received"},
           UNCHANGED <<port, changed, content, epoch, disk, mounts, writing, reply>>
    PROVE  CallsTrue'
<1>1. CallsTrue /\ RestOK BY InvParts
<1>2. pc \in Reading /\ reply = Nothing BY <1>1 DEF Reading, CallsTrue, CallTrue
<1>3. /\ call \in CallRecords.read /\ ~disk.dead /\ mounts[call.mount].medium = disk.medium
      /\ call.first >= 1 /\ call.lba = call.first + Len(call.got)
      /\ call.lba + call.left <= SECTORS + 1
      /\ GotTrue(disk.medium, call.first, call.got) BY <1>1, <1>2 DEF CallsTrue, ReadTrue
<1>4. /\ call.mount \in Slots /\ call.lba \in Nat /\ call.left \in Nat /\ call.first \in Nat
      /\ call.got \in Seq(Values) /\ call.late \in BOOLEAN BY <1>3 DEF CallRecords
<1>5. DEFINE more == Append(call.got, value)
<1>6. /\ more \in Seq(Values) /\ Len(more) = Len(call.got) + 1
      /\ more[Len(call.got) + 1] = value
      /\ \A i \in 1 .. Len(call.got) : more[i] = call.got[i] BY <1>4
<1>7. /\ call'.op = "read" /\ call'.mount = call.mount /\ call'.lba = call.lba + 1
      /\ call'.left = call.left - 1 /\ call'.cached = cached /\ call'.first = call.first
      /\ call'.got = more /\ call'.late = call.late /\ call' \in CallRecords.read BY <1>4, <1>6 DEF Got, CallRecords
<1>8. GotTrue(disk.medium, call.first, more)
  <2>1. ASSUME NEW i \in 1 .. Len(more)
        PROVE  more[i] = content[disk.medium][call.first + i - 1]
    <3>1. CASE i \in 1 .. Len(call.got) BY <1>3, <1>6, <3>1 DEF GotTrue
    <3>2. CASE i = Len(call.got) + 1 BY <1>3, <1>4, <1>6, <3>2
    <3>3. QED BY <1>4, <1>6, <3>1, <3>2
  <2>2. QED BY <2>1 DEF GotTrue
<1>9. ReadTrue'
  <2> HIDE DEF more
  <2>1. \A i \in 1 .. Len(call'.got) : call'.got[i] = content'[disk'.medium][call'.first + i - 1]
    BY <1>7, <1>8 DEF GotTrue
  <2>2. /\ call'.lba = call'.first + Len(call'.got) /\ Len(call'.got) > 0
        /\ call'.lba + call'.left <= SECTORS + 1
    <3>1. Len(call.got) \in Nat /\ Len(more) = Len(call.got) + 1 BY <1>4, <1>6
    <3>2. call'.lba = call.lba + 1 /\ call'.left = call.left - 1 /\ call'.first = call.first BY <1>7
    <3>3. Len(call'.got) = Len(more) BY <1>7
    <3>4. call'.lba + call'.left = call.lba + call.left BY <1>4, <3>2
    <3>5. call'.lba = call'.first + Len(call'.got)
      <4>1. call.lba = call.first + Len(call.got) BY <1>3
      <4>2. call.lba + 1 = call.first + Len(more) BY <1>4, <3>1, <4>1
      <4>3. QED BY <3>2, <3>3, <4>2
    <3>6. QED BY <1>3, <3>1, <3>3, <3>4, <3>5
  <2>3. /\ ~disk'.dead /\ mounts'[call'.mount].medium = disk'.medium /\ call'.first >= 1
        /\ ~call'.late BY <1>3, <1>7
  <2>4. QED BY <1>7, <2>1, <2>2, <2>3 DEF ReadTrue, GotTrue, Reading
<1>10. WriteTrue' /\ CallTrue' /\ ReplyTrue' BY <1>2, <1>7 DEF WriteTrue, CallTrue, ReplyTrue, Writing, Nothing
<1>11. QED BY <1>9, <1>10 DEF CallsTrue

LEMMA ReadFacts ==
    ASSUME IInv, pc \in Reading
    PROVE  /\ call \in CallRecords.read /\ call.op = "read" /\ ~disk.dead
           /\ disk.medium \in Media /\ reply = Nothing /\ call.left \in Nat
           /\ call.lba >= 1 /\ call.lba \in Nat /\ call.late \in BOOLEAN
           /\ call.lba + call.left <= SECTORS + 1
<1>1. CallsTrue /\ RestOK BY InvParts
<1>2. call \in CallRecords.read /\ ~disk.dead /\ call.first >= 1
      /\ call.lba = call.first + Len(call.got) /\ call.lba + call.left <= SECTORS + 1 BY <1>1 DEF CallsTrue, ReadTrue
<1>3. call.got \in Seq(Values) /\ call.first \in Nat BY <1>2 DEF CallRecords
<1>4. reply = Nothing BY <1>1 DEF CallsTrue, CallTrue, Reading
<1>5. disk.medium \in Media BY <1>2 DEF IInv, DiskTrue
<1>6. QED BY <1>2, <1>3, <1>4, <1>5 DEF CallRecords

\* A sector from the cache.
LEMMA HitStep == ASSUME IInv, Hit PROVE IInv'
<1>1. DeviceTrue /\ RestOK /\ CallsTrue /\ TypeOK BY InvParts DEF IInv
<1>2. pc = "read" /\ pc \in Reading /\ call.left > 0 BY DEF Hit, Reading
<1>3. PICK e \in cache :
        /\ e.lba = call.lba
        /\ IF call.cached \/ Answers(Poll(disk))
           THEN call' = Got(e.value, TRUE) /\ UNCHANGED <<disk, cache, pc, reply>>
           ELSE disk' = Poll(disk) /\ cache' = {} /\ Result("read", FALSE) BY DEF Hit
<1>4. call.op = "read" /\ ~disk.dead BY <1>2, ReadFacts
<1>5. CASE call.cached \/ Answers(Poll(disk))
  <2>1. ~call.late
    <3>1. call.late => changed /\ ~call.cached BY <1>1, <1>2 DEF CallsTrue, ReadTrue
    <3>2. changed => ~Answers(Poll(disk)) BY <1>1, PollQuery DEF Answers
    <3>3. QED BY <1>5, <3>1, <3>2
  <2>2. e.value \in Values /\ e.value = content[disk.medium][call.lba]
    BY <1>1, <1>3, <1>4 DEF RestOK, DeviceTrue, CacheTrue
  <2>3. call' = Got(e.value, TRUE) /\ UNCHANGED <<disk, cache, pc, reply>> BY <1>3, <1>5
  <2>4. CallsTrue' BY <1>2, <1>4, <2>1, <2>2, <2>3, GotStep DEF Hit, hardware
  <2>5. DeviceTrue' BY <1>1, <2>3 DEF Hit, hardware, DeviceTrue, DiskTrue, MountsTrue, CacheTrue, LeaseOnlyInOperation
  <2>6. RestOK' BY <1>1, <2>3 DEF Hit, hardware, RestOK, Got
  <2>7. QED BY <2>4, <2>5, <2>6, InvPartsNext
<1>6. CASE ~(call.cached \/ Answers(Poll(disk))) BY <1>1, <1>3, <1>6, PollQuery, EndedStep DEF Hit
<1>7. QED BY <1>5, <1>6

\* A sector from the disk.
LEMMA ReceiveStep == ASSUME IInv, Receive PROVE IInv'
<1>1. DeviceTrue /\ RestOK /\ CallsTrue /\ TypeOK BY InvParts DEF IInv
<1>2. pc = "receive" /\ pc \in Reading BY DEF Receive, Reading
<1>3. call.left > 0 /\ ~call.late BY <1>1, <1>2 DEF CallsTrue, ReadTrue
<1>4. /\ call.op = "read" /\ ~disk.dead /\ disk.medium \in Media /\ reply = Nothing
      /\ call.lba \in Sectors BY <1>2, <1>3, ReadFacts, BoundsAssumption DEF Sectors
<1>5. DeviceTrue' BY <1>1 DEF Receive, hardware, DeviceTrue, DiskTrue, MountsTrue, CacheTrue, LeaseOnlyInOperation
<1>6. CASE ~changed /\ UNCHANGED faults /\ call' = Got(content[disk.medium][call.lba], FALSE)
           /\ pc' = "received"
  <2>1. content[disk.medium][call.lba] \in Values BY <1>1, <1>4 DEF RestOK
  <2>2. CallsTrue' BY <1>2, <1>3, <1>4, <1>6, <2>1, GotStep DEF Receive, hardware
  <2>3. RestOK' BY <1>1, <1>6 DEF Receive, hardware, RestOK, Got
  <2>4. QED BY <1>5, <2>2, <2>3, InvPartsNext
<1>7. CASE pc' = "failed" /\ UNCHANGED call /\ faults' \in 0 .. MaxFaults
  <2>1. CallsTrue' BY <1>2, <1>4, <1>7 DEF Receive, CallsTrue, WriteTrue, ReadTrue, CallTrue, ReplyTrue, Writing,
    Reading, Nothing
  <2>2. RestOK' BY <1>1, <1>7 DEF Receive, hardware, RestOK
  <2>3. QED BY <1>5, <2>1, <2>2, InvPartsNext
<1>8. faults \in 0 .. MaxFaults BY <1>1 DEF RestOK
<1>9. faults + 1 \in 0 .. MaxFaults \/ ~(faults < MaxFaults) BY <1>8, BoundsAssumption
<1>10. CASE changed /\ pc' = "failed" /\ UNCHANGED <<call, faults>> BY <1>7, <1>8, <1>10
<1>11. CASE ~changed /\ Fault /\ pc' = "failed" /\ UNCHANGED call BY <1>7, <1>9, <1>11 DEF Fault
<1>12. QED BY <1>6, <1>10, <1>11 DEF Receive, Fault

\* It is cached once the route has been looked at again.
LEMMA ReceivedStep == ASSUME IInv, Received PROVE IInv'
<1>1. DeviceTrue /\ RestOK /\ CallsTrue /\ TypeOK BY InvParts DEF IInv
<1>2. pc = "received" /\ pc \in Reading BY DEF Received, Reading
<1>3. /\ call \in CallRecords.read /\ ~disk.dead /\ call.first >= 1
      /\ call.lba = call.first + Len(call.got) /\ call.lba + call.left <= SECTORS + 1
      /\ GotTrue(disk.medium, call.first, call.got) /\ Len(call.got) > 0 /\ ~call.late
  BY <1>1, <1>2 DEF CallsTrue, ReadTrue
<1>4. call.got \in Seq(Values) /\ call.first \in Nat /\ call.left \in Nat BY <1>3 DEF CallRecords
<1>5. CASE Answers(Poll(disk))
  <2>1. PICK kept \in SUBSET cache :
            cache' = kept \cup {[lba |-> call.lba - 1, value |-> call.got[Len(call.got)]]} BY <1>5 DEF Received
  <2>2. pc' = "read" /\ UNCHANGED <<disk, call, reply>> BY <1>5 DEF Received
  <2>3. /\ call.got[Len(call.got)] \in Values /\ call.lba - 1 \in Sectors
        /\ call.got[Len(call.got)] = content[disk.medium][call.lba - 1]
    <3>1. Len(call.got) \in 1 .. Len(call.got) /\ call.lba - 1 = call.first + Len(call.got) - 1 BY <1>3, <1>4
    <3>2. call.got[Len(call.got)] = content[disk.medium][call.first + Len(call.got) - 1] BY <1>3, <3>1 DEF GotTrue
    <3>3. call.got[Len(call.got)] \in Values BY <1>4, <3>1
    <3>4. call.lba - 1 \in Sectors BY <1>3, <1>4, BoundsAssumption DEF Sectors
    <3>5. QED BY <3>1, <3>2, <3>3, <3>4
  <2>4. \A e \in cache' : e \in cache \/ (/\ e.lba = call.lba - 1
                                          /\ e.value = call.got[Len(call.got)]) BY <2>1
  <2>5. cache' \in SUBSET [lba : Sectors, value : Values] BY <1>1, <2>1, <2>3 DEF RestOK
  <2>6. CacheTrue' BY <1>1, <2>2, <2>3, <2>4 DEF Received, DeviceTrue, CacheTrue
  <2>7. DeviceTrue' BY <1>1, <2>2, <2>6 DEF Received, hardware, DeviceTrue, DiskTrue, MountsTrue, LeaseOnlyInOperation
  <2>8. CallsTrue' BY <1>1, <1>2, <1>3, <2>2 DEF Received, hardware, CallsTrue, WriteTrue, ReadTrue, CallTrue,
    ReplyTrue, GotTrue, Writing, Reading
  <2>9. QED BY <1>1, <2>2, <2>5, <2>7, <2>8, InvPartsNext DEF Received, hardware, RestOK
<1>6. CASE ~Answers(Poll(disk)) BY <1>1, <1>6, PollQuery, EndedStep DEF Received
<1>7. QED BY <1>5, <1>6

\* A read begun too late has not come to its end.
LEMMA ReadDoneStep == ASSUME IInv, ReadDone PROVE IInv'
<1>1. DeviceTrue /\ RestOK /\ CallsTrue /\ TypeOK BY InvParts DEF IInv
<1>2. pc = "read" /\ pc \in Reading /\ call.left = 0 BY DEF ReadDone, Reading
<1>3. /\ call \in CallRecords.read /\ mounts[call.mount].medium = disk.medium
      /\ GotTrue(disk.medium, call.first, call.got) /\ ~call.late BY <1>1, <1>2 DEF CallsTrue, ReadTrue
<1>4. CASE call.cached /\ ~Answers(Poll(disk)) BY <1>1, <1>4, PollQuery, EndedStep DEF ReadDone
<1>5. CASE ~(call.cached /\ ~Answers(Poll(disk)))
  <2>1. /\ reply' = [op |-> "read", ok |-> TRUE, mount |-> call.mount,
                     first |-> call.first, got |-> call.got, late |-> call.late]
        /\ pc' = "idle" /\ call' = NoCall /\ UNCHANGED <<disk, cache>> BY <1>5 DEF ReadDone
  <2>2. DeviceTrue' BY <1>1, <2>1 DEF ReadDone, hardware, DeviceTrue, DiskTrue, MountsTrue, CacheTrue,
    LeaseOnlyInOperation
  <2>3. call.mount \in Slots BY <1>3 DEF CallRecords
  <2>4. CallsTrue' BY <1>3, <2>1, <2>3 DEF ReadDone, CallsTrue, WriteTrue, ReadTrue, CallTrue, ReplyTrue, GotTrue,
    Writing, Reading
  <2>5. QED BY <1>1, <2>1, <2>2, <2>4, InvPartsNext DEF ReadDone, hardware, RestOK, NoCall
<1>6. QED BY <1>4, <1>5

-----------------------------------------------------------------------------
(***************************************************************************)
(* The theorems.                                                           *)
(***************************************************************************)
LEMMA InitInv == Init => IInv
<1> SUFFICES ASSUME Init PROVE IInv OBVIOUS
<1>1. DeviceTrue BY DEF Init, DeviceTrue, DiskRecords, MountRecords, NoDisk, NoVolume, DiskTrue, MountsTrue,
  CacheTrue, LeaseOnlyInOperation
<1>2. RestOK BY BoundsAssumption, FilledAssumption DEF Init, RestOK, NoCall, Nothing, Sectors
<1>3. CallsTrue BY DEF Init, CallsTrue, WriteTrue, ReadTrue, CallTrue, ReplyTrue, Writing, Reading, Nothing
<1>4. QED BY <1>1, <1>2, <1>3, InvParts

LEMMA NextInv == IInv /\ [Next]_vars => IInv'
<1> SUFFICES ASSUME IInv, [Next]_vars PROVE IInv' OBVIOUS
<1>1. CASE Unplug \/ UsbRescan \/ VfsInit \/ WriteEnd \/ Check \/ Send \/ Sent \/ Failed
           \/ WriteDone \/ Hit \/ Receive \/ Received \/ ReadDone
  BY <1>1, UnplugStep, RescanStep, VfsInitStep, WriteEndStep, CheckStep, SendStep, SentStep, FailedStep,
    WriteDoneStep, HitStep, ReceiveStep, ReceivedStep, ReadDoneStep
<1>2. ASSUME NEW m \in Media, Plug(m) PROVE IInv' BY <1>2, PlugStep
<1>3. ASSUME NEW v \in Slots, NEW e \in Extents, FatMount(v, e) PROVE IInv' BY <1>3, MountStep
<1>4. ASSUME NEW v \in Slots, WriteBegin(v) PROVE IInv' BY <1>4, WriteBeginStep
<1>5. ASSUME NEW r \in Ranges, NEW value \in Values, WriteGate(r[1], r[2], value) PROVE IInv' BY <1>5, WriteGateStep
<1>6. ASSUME NEW v \in Slots, NEW r \in Ranges, ReadGate(v, r[1], r[2]) PROVE IInv' BY <1>6, ReadGateStep
<1>7. CASE UNCHANGED vars BY <1>7 DEF vars, IInv, TypeOK, DiskTrue, MountsTrue, CacheTrue, LeaseOnlyInOperation,
  WriteTrue, ReadTrue, CallTrue, ReplyTrue, GotTrue
<1>8. QED BY <1>1, <1>2, <1>3, <1>4, <1>5, <1>6, <1>7 DEF Next

\* The inductive invariant holds in every state.
THEOREM Inductive == Spec => []IInv BY InitInv, NextInv, PTL DEF Spec

\* Every variable keeps its type.
THEOREM TypeCorrect == Spec => []TypeOK
<1>1. IInv => TypeOK BY DEF IInv
<1>2. QED BY <1>1, Inductive, PTL

\* Outside an operation nobody has the lease, and in one only its own mount
\* (write_begin, write_end, usb_fat_authorize).
THEOREM LeaseHeld == Spec => []LeaseOnlyInOperation
<1>1. IInv => LeaseOnlyInOperation BY DEF IInv
<1>2. QED BY <1>1, Inductive, PTL

\* Whatever is pulled and plugged at whatever moment, every transfer that
\* counts is with the medium of its mount (usb_read, usb_write, usb_rescan).
THEOREM OwnMedium == Spec => TransfersOwnMedium
<1>1. IInv => ReadsCurrent BY DEF IInv, ReplyTrue, ReadsCurrent, GotTrue
<1>2. ASSUME IInv, [Next]_vars, NEW m \in Media, NEW s \in Sectors, content'[m][s] # content[m][s]
      PROVE  /\ writing # NoMount
             /\ mounts[writing].medium = m /\ s \in mounts[writing].extent
             /\ ~mounts[writing].gone
  <2>1. Send BY <1>2 DEF Next, vars, Unplug, Plug, UsbRescan, VfsInit, FatMount, WriteBegin, WriteEnd, WriteGate,
    ReadGate, Check, Sent, Failed, WriteDone, Hit, Receive, Received, ReadDone
  <2>2. /\ ~changed /\ pc = "send"
        /\ content' = [content EXCEPT ![disk.medium][call.lba] = call.value] BY <1>2, <2>1 DEF Send
  <2>3. /\ disk.medium \in Media /\ call.lba \in Sectors /\ writing \in Slots
        /\ call.lba \in mounts[writing].extent
        /\ mounts[writing].medium = disk.medium /\ (mounts[writing].gone <=> changed) BY <1>2, <2>2, SendFacts
  <2>4. m = disk.medium /\ s = call.lba BY <1>2, <2>2, <2>3 DEF IInv, TypeOK
  <2>5. QED BY <2>2, <2>3, <2>4, SlotsAssumption
<1>3. IInv /\ [Next]_vars =>
        [\A m \in Media, s \in Sectors : content'[m][s] # content[m][s] =>
            /\ writing # NoMount
            /\ mounts[writing].medium = m /\ s \in mounts[writing].extent
            /\ ~mounts[writing].gone]_vars BY <1>2
<1>4. QED BY <1>1, <1>3, Inductive, PTL DEF Spec, TransfersOwnMedium, WritesOwnMedium

-----------------------------------------------------------------------------
(***************************************************************************)
(* The desktop.                                                            *)
(***************************************************************************)
\* Induction over a count, by the least number that is missing from K.
LEMMA Rises ==
  ASSUME NEW N \in Nat, NEW K, 0 \in K, \A k \in 1 .. N : k - 1 \in K => k \in K
  PROVE  \A k \in 0 .. N : k \in K
<1> DEFINE R == {p \in Nat \X Nat : p[1] < p[2]}
           B == {n \in 0 .. N : n \notin K}
<1>1. IsWellFoundedOn(R, Nat) BY NatLessThanWellFounded DEF OpToRel
<1>2. \A x, y \in Nat : <<y, x>> \in R <=> y < x OBVIOUS
<1> HIDE DEF R
<1> SUFFICES ASSUME B # {} PROVE FALSE OBVIOUS
<1>5. B \subseteq Nat OBVIOUS
<1>6. PICK n \in B : \A y \in B : ~(<<y, n>> \in R) BY <1>1, <1>5, WFMin
<1>3. n # 0 /\ n \in 1 .. N /\ n - 1 \in 0 .. N BY <1>6
<1>4. n - 1 \notin B
  <2>1. <<n - 1, n>> \in R BY <1>2, <1>3
  <2> QED BY <1>6, <2>1
<1> QED BY <1>6, <1>3, <1>4

\* The least and the greatest number of a set.
LEMMA LeastIsIn ==
  ASSUME NEW S, S \subseteq Nat, S # {}
  PROVE  Min(S) \in S /\ \A y \in S : Min(S) <= y
<1> DEFINE R == {p \in Nat \X Nat : p[1] < p[2]}
<1>1. IsWellFoundedOn(R, Nat) BY NatLessThanWellFounded DEF OpToRel
<1>2. \A x, y \in Nat : <<y, x>> \in R <=> y < x OBVIOUS
<1> HIDE DEF R
<1>4. PICK n \in S : \A y \in S : ~(<<y, n>> \in R) BY <1>1, WFMin
<1>5. ASSUME NEW y \in S PROVE n <= y
  <2>1. y \in Nat /\ n \in Nat /\ ~(<<y, n>> \in R) BY <1>4
  <2>2. ~(y < n) BY <1>2, <2>1
  <2> QED BY <2>1, <2>2
<1> QED BY <1>4, <1>5 DEF Min
LEMMA GreatestIsIn ==
  ASSUME NEW S, NEW N \in Int, S \subseteq Int, S # {}, \A y \in S : y <= N
  PROVE  Max(S) \in S /\ \A y \in S : y <= Max(S)
<1> DEFINE B == {N - y : y \in S}
<1>1. B \subseteq Nat /\ B # {}
  <2>1. ASSUME NEW y \in S PROVE N - y \in Nat
    <3>1. y \in Int /\ y <= N OBVIOUS
    <3> QED BY <3>1
  <2> QED BY <2>1
<1>2. Min(B) \in B /\ \A b \in B : Min(B) <= b BY <1>1, LeastIsIn
<1>3. PICK n \in S : Min(B) = N - n BY <1>2
<1>4. ASSUME NEW y \in S PROVE y <= n
  <2>1. N - n <= N - y BY <1>2, <1>3
  <2> QED BY <2>1
<1> QED BY <1>3, <1>4 DEF Max

\* Rectangles on the screen.
Rects == {r \in [x : Nat, y : Nat, w : Nat \ {0}, h : Nat \ {0}] : r.x + r.w <= ScrW /\ r.y + r.h <= ScrH}
Within(b, m) ==
    /\ m.x <= b.x /\ b.x + b.w <= m.x + m.w
    /\ m.y <= b.y /\ b.y + b.h <= m.y + m.h

LEMMA BoxHolds ==
  ASSUME DesktopSound, NEW R, R \subseteq Rects, R # {}
  PROVE  /\ Box(R) \in Rects
         /\ \A b \in R : Within(b, Box(R))
         /\ \A g \in R : (\A b \in R : Within(b, g)) => Box(R) = g
<1> DEFINE X == {r.x : r \in R}
           Y == {r.y : r \in R}
           U == {r.x + r.w : r \in R}
           V == {r.y + r.h : r \in R}
<1>1. ScrW \in Nat /\ ScrH \in Nat BY DEF DesktopSound
<1>2. \A r \in R : r.x \in Nat /\ r.y \in Nat /\ r.w \in Nat \ {0} /\ r.h \in Nat \ {0}
                   /\ r.x + r.w <= ScrW /\ r.y + r.h <= ScrH BY DEF Rects
<1>3. X \subseteq Nat /\ Y \subseteq Nat /\ U \subseteq Int /\ V \subseteq Int BY <1>2
<1>4. X # {} /\ Y # {} /\ U # {} /\ V # {} OBVIOUS
<1>5. (\A u \in U : u <= ScrW) /\ (\A v \in V : v <= ScrH) BY <1>2
<1>6. /\ Min(X) \in X /\ \A x \in X : Min(X) <= x
      /\ Min(Y) \in Y /\ \A y \in Y : Min(Y) <= y BY <1>3, <1>4, LeastIsIn
<1>7. /\ Max(U) \in U /\ \A u \in U : u <= Max(U)
      /\ Max(V) \in V /\ \A v \in V : v <= Max(V)
  <2>1. U \subseteq Int /\ U # {} /\ V \subseteq Int /\ V # {} BY <1>3, <1>4
  <2> HIDE DEF U, V, X, Y
  <2>4. ScrW \in Int /\ ScrH \in Int /\ (\A u \in U : u <= ScrW) /\ (\A v \in V : v <= ScrH) BY <1>1, <1>5
  <2>2. Max(U) \in U /\ \A u \in U : u <= Max(U) BY <2>1, <2>4, GreatestIsIn, Zenon
  <2>3. Max(V) \in V /\ \A v \in V : v <= Max(V) BY <2>1, <2>4, GreatestIsIn, Zenon
  <2> QED BY <2>2, <2>3
<1>8. Box(R) = [x |-> Min(X), y |-> Min(Y), w |-> Max(U) - Min(X), h |-> Max(V) - Min(Y)] BY DEF Box
<1>9. \A r \in R : r.x \in X /\ r.y \in Y /\ r.x + r.w \in U /\ r.y + r.h \in V OBVIOUS
<1>10. \A r \in R : Min(X) <= r.x /\ Min(Y) <= r.y /\ r.x + r.w <= Max(U) /\ r.y + r.h <= Max(V)
  <2> HIDE DEF X, Y, U, V
  <2> QED BY <1>6, <1>7, <1>9
<1>11. Min(X) \in Nat /\ Min(Y) \in Nat /\ Max(U) \in Int /\ Max(V) \in Int /\ Max(U) <= ScrW /\ Max(V) <= ScrH
  <2> HIDE DEF X, Y, U, V
  <2> QED BY <1>3, <1>5, <1>6, <1>7
<1>12. Box(R) \in Rects
  <2>1. PICK r \in R : TRUE OBVIOUS
  <2>2. Min(X) < Max(U) /\ Min(Y) < Max(V)
    <3> HIDE DEF X, Y, U, V
    <3> QED BY <1>2, <1>10, <1>11, <2>1
  <2> HIDE DEF X, Y, U, V
  <2> QED BY <1>1, <1>8, <1>11, <2>2 DEF Rects
<1>13. \A b \in R : Within(b, Box(R))
  <2> HIDE DEF X, Y, U, V
  <2> QED BY <1>8, <1>10, <1>11 DEF Within
<1>14. ASSUME NEW g \in R, \A b \in R : Within(b, g) PROVE Box(R) = g
  <2>1. g = [x |-> g.x, y |-> g.y, w |-> g.w, h |-> g.h] BY DEF Rects
  <2>2. \A b \in R : g.x <= b.x /\ g.y <= b.y /\ b.x + b.w <= g.x + g.w /\ b.y + b.h <= g.y + g.h BY <1>14 DEF Within
  <2>3. Min(X) = g.x
    <3>1. PICK b \in R : Min(X) = b.x BY <1>6
    <3>2. g.x <= b.x /\ Min(X) <= g.x BY <1>10, <2>2
    <3>3. g.x \in Nat /\ b.x \in Nat BY <1>2
    <3> HIDE DEF X
    <3> QED BY <3>1, <3>2, <3>3
  <2>4. Min(Y) = g.y
    <3>1. PICK b \in R : Min(Y) = b.y BY <1>6
    <3>2. g.y <= b.y /\ Min(Y) <= g.y BY <1>10, <2>2
    <3>3. g.y \in Nat /\ b.y \in Nat BY <1>2
    <3> HIDE DEF Y
    <3> QED BY <3>1, <3>2, <3>3
  <2>5. Max(U) = g.x + g.w
    <3>1. PICK b \in R : Max(U) = b.x + b.w BY <1>7
    <3>2. b.x + b.w <= g.x + g.w /\ g.x + g.w <= Max(U) BY <1>10, <2>2
    <3>3. g.x + g.w \in Int /\ b.x + b.w \in Int BY <1>2
    <3> HIDE DEF U
    <3> QED BY <3>1, <3>2, <3>3
  <2>6. Max(V) = g.y + g.h
    <3>1. PICK b \in R : Max(V) = b.y + b.h BY <1>7
    <3>2. b.y + b.h <= g.y + g.h /\ g.y + g.h <= Max(V) BY <1>10, <2>2
    <3>3. g.y + g.h \in Int /\ b.y + b.h \in Int BY <1>2
    <3> HIDE DEF V
    <3> QED BY <3>1, <3>2, <3>3
  <2> HIDE DEF X, Y, U, V
  <2> QED BY <1>2, <1>8, <2>1, <2>3, <2>4, <2>5, <2>6
<1> QED BY <1>12, <1>13, <1>14

LEMMA WithinFacts ==
  ASSUME NEW a \in Rects, NEW b \in Rects, NEW c \in Rects
  PROVE  /\ Within(a, a)
         /\ Within(a, b) /\ Within(b, c) => Within(a, c)
         /\ Within(a, b) /\ Touch(a, c) => Touch(b, c)
         /\ Touch(a, c) => Touch(c, a) BY DEF Within, Touch, Rects

\* The rectangle grown round by round.
Grown(r, R, n, g) ==
    g = [k \in 0 .. n |-> IF k = 0 THEN r ELSE Box({g[k - 1]} \cup {b \in R : Touch(g[k - 1], b)})]
LEMMA MergedIsGrown ==
  ASSUME NEW r, NEW R, IsFiniteSet(R)
  PROVE  \E g : Grown(r, R, Cardinality(R), g) /\ Merged(r, R) = g[Cardinality(R)]
<1> DEFINE N == Cardinality(R)
           K == {m \in 0 .. N : \E g : Grown(r, R, m, g)}
           Round(a) == Box({a} \cup {b \in R : Touch(a, b)})
<1>0. N \in Nat BY FS_CardinalityType
<1>1. 0 \in K
  <2> DEFINE g == [m \in 0 .. 0 |-> r]
  <2>1. Grown(r, R, 0, g) BY DEF Grown
  <2> QED BY <1>0, <2>1
<1> HIDE DEF N
<1>2. ASSUME NEW k \in 1 .. N, k - 1 \in K PROVE k \in K
  <2>1. PICK g : Grown(r, R, k - 1, g) BY <1>2
  <2> DEFINE G == [m \in 0 .. k |-> IF m = k THEN Round(g[k - 1]) ELSE g[m]]
  <2>2. \A m \in 0 .. k - 1 : g[m] = IF m = 0 THEN r ELSE Round(g[m - 1])
    <3>1. g = [m \in 0 .. k - 1 |-> IF m = 0 THEN r ELSE Round(g[m - 1])] BY <2>1 DEF Grown
    <3> HIDE DEF Round
    <3> QED BY <3>1, Zenon
  <2> HIDE DEF Round
  <2>3. \A m \in 0 .. k - 1 : G[m] = g[m] BY <1>0
  <2>4. G[k] = Round(G[k - 1]) BY <1>0, <2>3
  <2>5. G = [m \in 0 .. k |-> G[m]] OBVIOUS
  <2> HIDE DEF G, K
  <2>6. \A m \in 0 .. k : G[m] = IF m = 0 THEN r ELSE Round(G[m - 1])
    <3>1. ASSUME NEW m \in 0 .. k - 1, m # 0 PROVE m - 1 \in 0 .. k - 1 BY <1>0, <3>1
    <3>2. ASSUME NEW m \in 0 .. k - 1 PROVE G[m] = IF m = 0 THEN r ELSE Round(G[m - 1]) BY <2>2, <2>3, <3>1
    <3> QED BY <1>0, <2>4, <3>2
  <2>7. Grown(r, R, k, G) BY <2>5, <2>6 DEF Grown, Round
  <2> QED BY <1>0, <2>7 DEF K
<1> HIDE DEF K
<1>3. \A k \in 1 .. N : k - 1 \in K => k \in K BY <1>2
<1>4. \A k \in 0 .. N : k \in K BY <1>0, <1>1, <1>3, Rises
<1>5. \E g : Grown(r, R, N, g) BY <1>0, <1>4 DEF K
<1> QED BY <1>5 DEF Merged, Grown, N

\* The merged rectangle contains every one it touches: a round that does not
\* settle takes in one more, and there are only so many.
LEMMA MergedSettles ==
  ASSUME DesktopSound, NEW r \in Rects, NEW R, R \subseteq Rects, IsFiniteSet(R)
  PROVE  LET m == Merged(r, R) IN
         m \in Rects /\ Within(r, m) /\ \A b \in R : Touch(m, b) => Within(b, m)
<1> DEFINE N == Cardinality(R)
<1>1. PICK g : Grown(r, R, N, g) /\ Merged(r, R) = g[N] BY MergedIsGrown
<1>2. N \in Nat BY FS_CardinalityType
<1> HIDE DEF N
<1> DEFINE T(k) == {b \in R : Touch(g[k], b)}
           Round(a) == Box({a} \cup {b \in R : Touch(a, b)})
           Settled(k) == \A b \in T(k) : Within(b, g[k])
           Fine(k) == g[k] \in Rects /\ Within(r, g[k]) /\ (Settled(k) \/ Cardinality(T(k)) >= k + 1)
           K == {k \in 0 .. N : Fine(k)}
<1>3. \A k \in 0 .. N : g[k] = IF k = 0 THEN r ELSE Round(g[k - 1])
  <2>1. g = [k \in 0 .. N |-> IF k = 0 THEN r ELSE Round(g[k - 1])] BY <1>1 DEF Grown
  <2> HIDE DEF Round
  <2> QED BY <2>1, Zenon
<1>4. \A k \in 0 .. N : IsFiniteSet(T(k)) /\ Cardinality(T(k)) \in Nat /\ Cardinality(T(k)) <= N
  <2>1. \A k \in 0 .. N : T(k) \subseteq R OBVIOUS
  <2> HIDE DEF T
  <2> QED BY <2>1, FS_Subset, FS_CardinalityType DEF N
<1>5. 0 \in K
  <2>1. g[0] = r
    <3> HIDE DEF Round
    <3> QED BY <1>2, <1>3
  <2>2. Within(r, r) BY WithinFacts
  <2>3. ASSUME ~Settled(0) PROVE Cardinality(T(0)) >= 1
    <3>1. T(0) # {} BY <2>3
    <3>2. 0 \in 0 .. N BY <1>2
    <3> HIDE DEF T
    <3> QED BY <1>4, <3>1, <3>2, FS_EmptySet
  <2> HIDE DEF Settled, T
  <2> QED BY <1>2, <2>1, <2>2, <2>3
<1>6. ASSUME NEW k \in 1 .. N, k - 1 \in K PROVE k \in K
  <2> DEFINE a == g[k - 1]
             c == g[k]
  <2>1. c = Round(a)
    <3> HIDE DEF Round
    <3> QED BY <1>2, <1>3
  <2>0. k - 1 \in 0 .. N /\ k \in 0 .. N BY <1>2
  <2>2. a \in Rects /\ Within(r, a) /\ (Settled(k - 1) \/ Cardinality(T(k - 1)) >= k)
    <3>1. Fine(k - 1) BY <1>6
    <3> HIDE DEF Settled, T
    <3> QED BY <1>2, <3>1
  <2>3. /\ c \in Rects /\ Within(a, c) /\ \A b \in T(k - 1) : Within(b, c)
        /\ Settled(k - 1) => c = a
    <3> DEFINE B == {a} \cup T(k - 1)
    <3>1. B \subseteq Rects /\ B # {} /\ c = Box(B) /\ a \in B BY <2>1, <2>2
    <3>2. /\ Box(B) \in Rects /\ \A b \in B : Within(b, Box(B))
          /\ \A h \in B : (\A b \in B : Within(b, h)) => Box(B) = h
      <4> HIDE DEF B
      <4> QED BY <3>1, BoxHolds
    <3>3. Within(a, a) BY <2>2, WithinFacts
    <3>4. ASSUME Settled(k - 1) PROVE c = a
      <4>1. \A b \in B : Within(b, a) BY <3>3, <3>4
      <4> HIDE DEF B
      <4> QED BY <3>1, <3>2, <4>1
    <3> QED BY <3>1, <3>2, <3>4
  <2>4. Within(r, c) BY <2>2, <2>3, WithinFacts
  <2>5. ASSUME ~Settled(k) PROVE Cardinality(T(k)) >= k + 1
    <3>1. PICK b \in T(k) : ~Within(b, c) BY <2>5
    <3>2. ~Settled(k - 1)
      <4>1. CASE Settled(k - 1)
        <5>1. c = a BY <2>3, <4>1
        <5> QED BY <3>1, <4>1, <5>1
      <4> QED BY <4>1
    <3>3. Cardinality(T(k - 1)) >= k BY <2>2, <3>2
    <3>4. T(k - 1) \subseteq T(k)
      <4> SUFFICES ASSUME NEW d \in T(k - 1) PROVE d \in T(k) OBVIOUS
      <4>1. d \in R /\ Touch(a, d) /\ d \in Rects OBVIOUS
      <4>2. Touch(c, d) BY <2>2, <2>3, <4>1, WithinFacts
      <4> QED BY <4>1, <4>2
    <3>5. b \notin T(k - 1) BY <2>3, <3>1
    <3>6. b \in T(k) OBVIOUS
    <3> HIDE DEF T
    <3>7. Cardinality(T(k - 1)) < Cardinality(T(k)) BY <1>4, <2>0, <3>4, <3>5, <3>6, FS_Subset
    <3> QED BY <1>4, <2>0, <3>3, <3>7
  <2> HIDE DEF Settled, T
  <2> QED BY <2>0, <2>3, <2>4, <2>5
<1> HIDE DEF K
<1>7. \A k \in 1 .. N : k - 1 \in K => k \in K BY <1>6
<1>8. \A k \in 0 .. N : k \in K BY <1>2, <1>5, <1>7, Rises
<1>9. Fine(N) BY <1>2, <1>8 DEF K
<1>10. Settled(N)
  <2> HIDE DEF Settled, T
  <2> QED BY <1>2, <1>4, <1>9
<1> QED BY <1>1, <1>9, <1>10

\* The damage list, what it may only gain, and what it covers.
Kept(D) ==
    /\ D \in [rects : SUBSET Rects, all : BOOLEAN] /\ IsFiniteSet(D.rects)
    /\ \A a, b \in D.rects : a # b => ~Touch(a, b)
More(D, E) == E.all \/ (~D.all /\ \A b \in D.rects : \E m \in E.rects : Within(b, m))
Has(E, r) == E.all \/ \E m \in E.rects : Within(r, m)
Numbers(r) == r.x \in Int /\ r.y \in Int /\ r.w \in Int /\ r.h \in Int
Shown(r) == Numbers(r) /\ r.w > 0 /\ r.h > 0 /\ r.x < ScrW /\ r.x + r.w > 0 /\ r.y < ScrH /\ r.y + r.h > 0

LEMMA MoreOn ==
  ASSUME NEW D, NEW E, NEW F, Kept(D), Kept(E), Kept(F), More(D, E), More(E, F)
  PROVE  More(D, F)
<1> SUFFICES ASSUME ~F.all PROVE ~D.all /\ \A b \in D.rects : \E m \in F.rects : Within(b, m) BY DEF More
<1>1. ~E.all /\ ~D.all BY DEF More
<1>2. ASSUME NEW b \in D.rects PROVE \E m \in F.rects : Within(b, m)
  <2>1. PICK c \in E.rects : Within(b, c) BY <1>1 DEF More
  <2>2. PICK m \in F.rects : Within(c, m) BY <2>1 DEF More
  <2>3. b \in Rects /\ c \in Rects /\ m \in Rects BY DEF Kept
  <2>4. Within(b, m) BY <2>1, <2>2, <2>3, WithinFacts
  <2> QED BY <2>4
<1> QED BY <1>1, <1>2
LEMMA HasOn ==
  ASSUME NEW D, NEW E, Kept(D), Kept(E), More(D, E), NEW r \in Rects, Has(D, r)
  PROVE  Has(E, r)
<1> SUFFICES ASSUME ~E.all PROVE \E m \in E.rects : Within(r, m) BY DEF Has
<1>1. ~D.all BY DEF More
<1>2. PICK c \in D.rects : Within(r, c) BY <1>1 DEF Has
<1>3. PICK m \in E.rects : Within(c, m) BY <1>1, <1>2 DEF More
<1>4. c \in Rects /\ m \in Rects BY DEF Kept
<1>5. Within(r, m) BY <1>2, <1>3, <1>4, WithinFacts
<1> QED BY <1>5
LEMMA MoreSelf == ASSUME NEW D, Kept(D) PROVE More(D, D)
<1>1. \A b \in D.rects : b \in Rects BY DEF Kept
<1> QED BY <1>1, WithinFacts DEF More

LEMMA Clipped ==
  ASSUME DesktopSound, NEW rect, Numbers(rect)
  PROVE  /\ OnScreen(rect).w > 0 /\ OnScreen(rect).h > 0 /\ rect.w > 0 /\ rect.h > 0 => OnScreen(rect) \in Rects
         /\ Shown(rect) => OnScreen(rect).w > 0 /\ OnScreen(rect).h > 0 /\ OnScreen(rect) \in Rects
<1>1. ScrW \in Nat \ {0} /\ ScrH \in Nat \ {0} BY DEF DesktopSound
<1> DEFINE x == Greater(rect.x, 0)
           y == Greater(rect.y, 0)
           w == Lesser(rect.x + rect.w, ScrW) - x
           h == Lesser(rect.y + rect.h, ScrH) - y
<1>2. OnScreen(rect) = [x |-> x, y |-> y, w |-> w, h |-> h] BY DEF OnScreen
<1>3. x \in Nat /\ y \in Nat /\ w \in Int /\ h \in Int /\ x + w <= ScrW /\ y + h <= ScrH
  BY <1>1 DEF Greater, Lesser, Numbers
<1>4. Shown(rect) => w > 0 /\ h > 0 BY <1>1 DEF Greater, Lesser, Shown, Numbers
<1> HIDE DEF x, y, w, h
<1> QED BY <1>2, <1>3, <1>4 DEF Rects

LEMMA AddKeeps ==
  ASSUME DesktopSound, NEW D, Kept(D), NEW rect, Numbers(rect)
  PROVE  LET E == Add(D, rect) IN
         Kept(E) /\ More(D, E) /\ (Shown(rect) => Has(E, OnScreen(rect)))
<1> DEFINE r == OnScreen(rect)
           m == Merged(r, D.rects)
           kept == {b \in D.rects : ~Touch(m, b)}
           R == kept \cup {m}
           E == Add(D, rect)
<1>1. CASE D.all
  <2>1. E = D BY <1>1 DEF Add
  <2> QED BY <1>1, <2>1 DEF More, Has
<1>2. CASE ~D.all /\ (rect.w <= 0 \/ rect.h <= 0 \/ r.w <= 0 \/ r.h <= 0)
  <2>1. E = D BY <1>2 DEF Add
  <2>2. r.w \in Int /\ r.h \in Int
    <3>1. ScrW \in Nat /\ ScrH \in Nat BY DEF DesktopSound
    <3> QED BY <3>1 DEF OnScreen, Greater, Lesser, Numbers
  <2>3. ~Shown(rect)
    <3>1. CASE Shown(rect)
      <4>1. r.w > 0 /\ r.h > 0 BY <3>1, Clipped
      <4>2. rect.w > 0 /\ rect.h > 0 /\ rect.w \in Int /\ rect.h \in Int BY <3>1 DEF Shown, Numbers
      <4> HIDE DEF r
      <4> QED BY <1>2, <2>2, <4>1, <4>2
    <3> QED BY <3>1
  <2> QED BY <2>1, <2>3, MoreSelf
<1>3. CASE ~D.all /\ ~(rect.w <= 0 \/ rect.h <= 0 \/ r.w <= 0 \/ r.h <= 0)
  <2>1. E = IF Cardinality(kept) >= MaxDirty \/ 2 * Area(R) > ScrW * ScrH THEN Everything
            ELSE [rects |-> R, all |-> FALSE] BY <1>3 DEF Add
  <2>2. r \in Rects
    <3>1. r.w \in Int /\ r.h \in Int
      <4>1. ScrW \in Nat /\ ScrH \in Nat BY DEF DesktopSound
      <4> QED BY <4>1 DEF OnScreen, Greater, Lesser, Numbers
    <3>2. rect.w > 0 /\ rect.h > 0 /\ r.w > 0 /\ r.h > 0
      <4> HIDE DEF r
      <4> QED BY <1>3, <3>1 DEF Numbers
    <3> QED BY <3>2, Clipped
  <2> HIDE DEF r
  <2>3. D.rects \subseteq Rects /\ IsFiniteSet(D.rects) /\ \A a, b \in D.rects : a # b => ~Touch(a, b) BY DEF Kept
  <2>4. m \in Rects /\ Within(r, m) /\ \A b \in D.rects : Touch(m, b) => Within(b, m) BY <2>2, <2>3, MergedSettles
  <2> HIDE DEF m
  <2>5. kept \subseteq D.rects /\ \A b \in kept : ~Touch(m, b) /\ ~Touch(b, m)
    <3>1. \A b \in D.rects : Touch(b, m) => Touch(m, b) BY <2>3, <2>4, WithinFacts
    <3> QED BY <3>1
  <2>6. \A b \in D.rects : b \in kept \/ Within(b, m) BY <2>4
  <2> HIDE DEF kept
  <2>7. IsFiniteSet(R)
    <3>1. IsFiniteSet(kept) BY <2>3, <2>5, FS_Subset
    <3> QED BY <3>1, FS_AddElement
  <2>8. R \subseteq Rects /\ \A a, b \in R : a # b => ~Touch(a, b) BY <2>3, <2>4, <2>5
  <2>9. \A b \in D.rects : \E n \in R : Within(b, n)
    <3> SUFFICES ASSUME NEW b \in D.rects PROVE \E n \in R : Within(b, n) OBVIOUS
    <3>1. CASE b \in kept
      <4>1. Within(b, b) BY <2>3, WithinFacts
      <4> QED BY <3>1, <4>1
    <3>2. CASE Within(b, m) BY <3>2
    <3> QED BY <2>6, <3>1, <3>2
  <2>10. m \in R OBVIOUS
  <2> HIDE DEF R
  <2>11. CASE E = Everything
    <3>1. Kept(Everything)
      <4>1. IsFiniteSet({}) BY FS_EmptySet
      <4> QED BY <4>1 DEF Everything, Kept
    <3> QED BY <2>11, <3>1 DEF Everything, More, Has
  <2>12. CASE E = [rects |-> R, all |-> FALSE]
    <3>1. E.rects = R /\ ~E.all BY <2>12
    <3>2. Kept(E) BY <2>7, <2>8, <2>12 DEF Kept
    <3>3. More(D, E) BY <1>3, <2>9, <3>1 DEF More
    <3>4. Has(E, r) BY <2>4, <2>10, <3>1 DEF Has
    <3> QED BY <3>2, <3>3, <3>4 DEF r
  <2> QED BY <2>1, <2>11, <2>12
<1> QED BY <1>1, <1>2, <1>3

-----------------------------------------------------------------------------
\* The windows and their order: every window that is used has one place in
\* z_order, and can be seen.
Window == [used : BOOLEAN, app : Apps \cup {NoApp}, min : BOOLEAN, x : Int, y : Int]
Ordered(d) ==
    /\ d \in [wins : [Windows -> Window], z : Seq(Windows)]
    /\ \A j, k \in 1 .. Len(d.z) : d.z[j] = d.z[k] => j = k
    /\ \A i \in Windows : d.wins[i].used <=> \E k \in 1 .. Len(d.z) : d.z[k] = i
    /\ \A i \in Windows : d.wins[i].used => d.wins[i].app \in Apps /\ Shown(RectOf(d.wins[i]))

LEMMA OrderedFacts ==
  ASSUME NEW d, Ordered(d)
  PROVE  Len(d.z) \in Nat /\ DOMAIN d.z = 1 .. Len(d.z) /\ \A k \in 1 .. Len(d.z) : d.z[k] \in Windows BY DEF Ordered

LEMMA PositionIs ==
  ASSUME NEW d, Ordered(d), NEW id
  PROVE  LET p == Position(d, id) IN
         \/ p = 0 /\ \A k \in 1 .. Len(d.z) : d.z[k] # id
         \/ p \in 1 .. Len(d.z) /\ d.z[p] = id
<1> DEFINE K == {k \in DOMAIN d.z : d.z[k] = id}
<1>0. DOMAIN d.z = 1 .. Len(d.z) BY OrderedFacts
<1>1. Position(d, id) = IF K = {} THEN 0 ELSE Min(K) BY DEF Position
<1>2. CASE K = {} BY <1>0, <1>1, <1>2
<1>3. CASE K # {}
  <2>1. K \subseteq Nat BY <1>0
  <2>2. Min(K) \in K
    <3> HIDE DEF K
    <3> QED BY <1>3, <2>1, LeastIsIn
  <2> QED BY <1>0, <1>1, <1>3, <2>2
<1> QED BY <1>2, <1>3

LEMMA HighestIs ==
  ASSUME NEW d, Ordered(d), NEW K, K \subseteq DOMAIN d.z
  PROVE  /\ K = {} => Highest(d, K) = 0
         /\ K # {} => \E p \in K : Highest(d, K) = d.z[p] /\ \A k \in K : k <= p
<1>0. DOMAIN d.z = 1 .. Len(d.z) /\ Len(d.z) \in Nat BY OrderedFacts
<1>1. ASSUME K # {} PROVE Max(K) \in K /\ \A k \in K : k <= Max(K)
  <2>1. K \subseteq Int /\ Len(d.z) \in Int /\ \A k \in K : k <= Len(d.z) BY <1>0
  <2> QED BY <1>1, <2>1, GreatestIsIn, Zenon
<1> QED BY <1>1 DEF Highest

\* A change of one window's fields that keeps it in sight.
LEMMA ChangeKeeps ==
  ASSUME NEW d, Ordered(d), NEW id \in Windows, NEW v \in Window,
         v.used = d.wins[id].used, v.used => v.app \in Apps /\ Shown(RectOf(v))
  PROVE  Ordered([d EXCEPT !.wins[id] = v])
<1> DEFINE w == [d.wins EXCEPT ![id] = v]
<1>1. w \in [Windows -> Window] /\ \A i \in Windows : w[i] = IF i = id THEN v ELSE d.wins[i] BY DEF Ordered
<1>2. d = [wins |-> d.wins, z |-> d.z] /\ d.z \in Seq(Windows) BY DEF Ordered
<1>3. [d EXCEPT !.wins[id] = v] = [wins |-> w, z |-> d.z] BY <1>2
<1> HIDE DEF w
<1> QED BY <1>1, <1>2, <1>3 DEF Ordered

LEMMA RaiseKeeps ==
  ASSUME NEW d, Ordered(d), NEW id \in Windows
  PROVE  Ordered(Raise(d, id)) /\ Raise(d, id).wins = d.wins
<1> DEFINE p == Position(d, id)
           n == Len(d.z)
           z1 == [k \in 1 .. n |-> IF k < p THEN d.z[k] ELSE IF k < n THEN d.z[k + 1] ELSE id]
<1>1. CASE p = 0 BY <1>1 DEF Raise
<1>2. CASE p # 0
  <2>1. p \in 1 .. n /\ d.z[p] = id BY <1>2, PositionIs
  <2>2. n \in Nat /\ \A k \in 1 .. n : d.z[k] \in Windows BY OrderedFacts
  <2>3. \A j, k \in 1 .. n : d.z[j] = d.z[k] => j = k BY DEF Ordered
  <2>4. Raise(d, id) = [d EXCEPT !.z = z1] BY <1>2 DEF Raise
  <2> HIDE DEF p, n
  <2>5. \A k \in 1 .. n : z1[k] \in Windows BY <2>1, <2>2
  <2>6. z1 \in Seq(Windows) /\ Len(z1) = n BY <2>2, <2>5
  <2>7. \A j, k \in 1 .. n : z1[j] = z1[k] => j = k BY <2>1, <2>2, <2>3
  <2>8. \A i : (\E k \in 1 .. n : d.z[k] = i) => \E k \in 1 .. n : z1[k] = i
    <3> SUFFICES ASSUME NEW j \in 1 .. n PROVE \E k \in 1 .. n : z1[k] = d.z[j] OBVIOUS
    <3>1. CASE j < p BY <2>2, <3>1
    <3>2. CASE j = p
      <4>1. n \in 1 .. n /\ z1[n] = id BY <2>1, <2>2
      <4> QED BY <2>1, <3>2, <4>1
    <3>3. CASE j > p
      <4>1. j - 1 \in 1 .. n /\ z1[j - 1] = d.z[j] BY <2>1, <2>2, <3>3
      <4> QED BY <4>1
    <3> QED BY <2>1, <2>2, <3>1, <3>2, <3>3
  <2>9. \A k \in 1 .. n : \E j \in 1 .. n : z1[k] = d.z[j]
    <3> SUFFICES ASSUME NEW k \in 1 .. n PROVE \E j \in 1 .. n : z1[k] = d.z[j] OBVIOUS
    <3>1. CASE k < p BY <2>2, <3>1
    <3>2. CASE ~(k < p) /\ k < n
      <4>1. k + 1 \in 1 .. n /\ z1[k] = d.z[k + 1] BY <2>1, <2>2, <3>2
      <4> QED BY <4>1
    <3>3. CASE ~(k < p) /\ ~(k < n)
      <4>1. z1[k] = id BY <3>3
      <4> QED BY <2>1, <4>1
    <3> QED BY <3>1, <3>2, <3>3
  <2> HIDE DEF z1
  <2>10. /\ Raise(d, id) \in [wins : [Windows -> Window], z : Seq(Windows)]
         /\ Raise(d, id).z = z1 /\ Raise(d, id).wins = d.wins BY <2>4, <2>6 DEF Ordered
  <2>11. \A i : (\E k \in 1 .. n : z1[k] = i) <=> (\E k \in 1 .. n : d.z[k] = i) BY <2>8, <2>9
  <2> QED BY <2>6, <2>7, <2>10, <2>11 DEF Ordered, n
<1> QED BY <1>1, <1>2

LEMMA CloseKeeps ==
  ASSUME NEW d, Ordered(d), NEW id \in Windows
  PROVE  /\ Ordered(Close(d, id)) /\ ~Close(d, id).wins[id].used
         /\ \A i \in Windows : i # id => Close(d, id).wins[i] = d.wins[i]
<1> DEFINE p == Position(d, id)
           n == Len(d.z)
           z1 == IF p = 0 THEN d.z ELSE [k \in 1 .. n - 1 |-> IF k < p THEN d.z[k] ELSE d.z[k + 1]]
           w1 == [d.wins EXCEPT ![id].used = FALSE]
<1>0. d.wins \in [Windows -> Window]
  <2> HIDE DEF p, n, z1, w1
  <2> QED BY DEF Ordered
<1>1. (p = 0 /\ \A k \in 1 .. n : d.z[k] # id) \/ (p \in 1 .. n /\ d.z[p] = id) BY PositionIs
<1>2. n \in Nat /\ \A k \in 1 .. n : d.z[k] \in Windows BY OrderedFacts
<1>3. \A j, k \in 1 .. n : d.z[j] = d.z[k] => j = k BY DEF Ordered
<1>4. Close(d, id) = [wins |-> w1, z |-> z1] BY DEF Close
<1>5. /\ w1 \in [Windows -> Window] /\ ~w1[id].used
      /\ \A i \in Windows : i # id => w1[i] = d.wins[i]
  <2> DEFINE v == [d.wins[id] EXCEPT !.used = FALSE]
  <2>1. w1 = [d.wins EXCEPT ![id] = v] OBVIOUS
  <2> HIDE DEF w1
  <2>2. v \in Window /\ ~v.used BY <1>0 DEF Window
  <2> HIDE DEF v
  <2> QED BY <1>0, <2>1, <2>2
<1> HIDE DEF p, n, w1
<1> DEFINE m == IF p = 0 THEN n ELSE n - 1
<1>6. m \in Nat /\ z1 \in Seq(Windows) /\ Len(z1) = m
  <2>1. CASE p = 0 BY <1>2, <2>1 DEF Ordered, n
  <2>2. CASE p # 0
    <3>1. p \in 1 .. n BY <1>1, <2>2
    <3>2. n - 1 \in Nat /\ \A k \in 1 .. n - 1 : z1[k] \in Windows BY <1>2, <2>2, <3>1
    <3> QED BY <2>2, <3>2
  <2> QED BY <2>1, <2>2
<1>7. \A j, k \in 1 .. m : z1[j] = z1[k] => j = k BY <1>1, <1>2, <1>3
<1>8. \A i : i # id /\ (\E k \in 1 .. n : d.z[k] = i) => \E k \in 1 .. m : z1[k] = i
  <2> SUFFICES ASSUME NEW j \in 1 .. n, d.z[j] # id PROVE \E k \in 1 .. m : z1[k] = d.z[j] OBVIOUS
  <2>1. CASE p = 0 BY <1>2, <2>1
  <2>2. CASE p # 0 /\ j < p
    <3>1. j \in 1 .. m /\ z1[j] = d.z[j] BY <1>1, <1>2, <2>2
    <3> QED BY <3>1
  <2>3. CASE p # 0 /\ j > p
    <3>1. j - 1 \in 1 .. m /\ z1[j - 1] = d.z[j] BY <1>1, <1>2, <2>3
    <3> QED BY <3>1
  <2>4. p = 0 \/ (p # 0 /\ j < p) \/ (p # 0 /\ j > p) BY <1>1, <1>2
  <2> HIDE DEF z1, m
  <2> QED BY <2>1, <2>2, <2>3, <2>4
<1>9. \A k \in 1 .. m : z1[k] # id /\ \E j \in 1 .. n : z1[k] = d.z[j]
  <2> SUFFICES ASSUME NEW k \in 1 .. m PROVE z1[k] # id /\ \E j \in 1 .. n : z1[k] = d.z[j] OBVIOUS
  <2>1. CASE p = 0 BY <1>1, <1>2, <2>1
  <2>2. CASE p # 0 /\ k < p
    <3>1. k \in 1 .. n /\ z1[k] = d.z[k] BY <1>1, <1>2, <2>2
    <3> QED BY <1>1, <1>3, <2>2, <3>1
  <2>3. CASE p # 0 /\ ~(k < p)
    <3>1. k + 1 \in 1 .. n /\ z1[k] = d.z[k + 1] /\ k + 1 # p BY <1>1, <1>2, <2>3
    <3> QED BY <1>1, <1>3, <2>3, <3>1
  <2> QED BY <1>1, <2>1, <2>2, <2>3
<1> HIDE DEF z1, m
<1>10. \A i : (\E k \in 1 .. m : z1[k] = i) <=> i # id /\ \E k \in 1 .. n : d.z[k] = i BY <1>8, <1>9
<1>11. \A i \in Windows : w1[i].used <=> \E k \in 1 .. m : z1[k] = i
  <2>1. \A i \in Windows : d.wins[i].used <=> \E k \in 1 .. n : d.z[k] = i BY DEF Ordered, n
  <2> QED BY <1>5, <1>10, <2>1
<1>12. \A i \in Windows : w1[i].used => w1[i].app \in Apps /\ Shown(RectOf(w1[i])) BY <1>5 DEF Ordered
<1> QED BY <1>4, <1>5, <1>6, <1>7, <1>11, <1>12 DEF Ordered

LEMMA OpenKeeps ==
  ASSUME DesktopSound, NEW d, Ordered(d), NEW app \in Apps
  PROVE  /\ Ordered(WinOpen(d, app))
         /\ \A i \in Windows : d.wins[i].used => WinOpen(d, app).wins[i] = d.wins[i]
<1> DEFINE free == {i \in Windows : ~d.wins[i].used}
           i == Min(free)
           v == [used |-> TRUE, app |-> app, min |-> FALSE, x |-> Frame[app].x, y |-> Frame[app].y]
           w == [d.wins EXCEPT ![i] = v]
           n == Len(d.z)
           z1 == Append(d.z, i)
<1>1. CASE free = {}
  <2>1. WinOpen(d, app) = d BY <1>1 DEF WinOpen
  <2> QED BY <2>1
<1>2. CASE free # {}
  <2>1. WinOpen(d, app) = [wins |-> w, z |-> z1] BY <1>2 DEF WinOpen
  <2>2. i \in free
    <3>1. free \subseteq Nat BY DEF Windows
    <3> HIDE DEF free
    <3> QED BY <1>2, <3>1, LeastIsIn
  <2>3. i \in Windows /\ ~d.wins[i].used BY <2>2
  <2> HIDE DEF i
  <2>4. /\ n \in Nat /\ \A k \in 1 .. n : d.z[k] \in Windows
        /\ \A j, k \in 1 .. n : d.z[j] = d.z[k] => j = k
        /\ \A o \in Windows : d.wins[o].used <=> \E k \in 1 .. n : d.z[k] = o
        /\ d.wins \in [Windows -> Window] /\ d.z \in Seq(Windows) BY OrderedFacts DEF Ordered
  <2>5. v \in Window /\ v.used /\ v.app \in Apps /\ Shown(RectOf(v))
    <3> DEFINE f == Frame[app]
    <3>1. {f.x, f.y} \subseteq Int /\ {f.w, f.h} \subseteq Nat \ {0} BY DEF DesktopSound
    <3>2. f.x < ScrW /\ f.x + f.w > 0 /\ f.y < ScrH /\ f.y + f.h > 0
      <4> DEFINE p == <<f.x, f.y>>
      <4>1. p[1] < ScrW /\ p[1] + f.w > 0 /\ p[2] < ScrH /\ p[2] + f.h > 0 BY DEF DesktopSound
      <4> QED BY <4>1
    <3>3. v = [used |-> TRUE, app |-> app, min |-> FALSE, x |-> f.x, y |-> f.y] OBVIOUS
    <3>4. RectOf(v) = [x |-> f.x, y |-> f.y, w |-> f.w, h |-> f.h] BY DEF RectOf
    <3> HIDE DEF f, v
    <3>5. v \in Window /\ v.used /\ v.app \in Apps BY <3>1, <3>3 DEF Window
    <3>6. Shown(RectOf(v)) BY <3>1, <3>2, <3>4 DEF Shown, Numbers
    <3> QED BY <3>5, <3>6
  <2> HIDE DEF v
  <2>6. w \in [Windows -> Window] /\ w[i] = v /\ \A o \in Windows : o # i => w[o] = d.wins[o] BY <2>3, <2>4, <2>5
  <2> HIDE DEF w, n
  <2>7. /\ z1 \in Seq(Windows) /\ Len(z1) = n + 1 /\ z1[n + 1] = i
        /\ \A k \in 1 .. n : z1[k] = d.z[k] BY <2>3, <2>4 DEF n
  <2>8. \A k \in 1 .. n : d.z[k] # i BY <2>3, <2>4
  <2> HIDE DEF z1
  <2>9. \A j, k \in 1 .. n + 1 : z1[j] = z1[k] => j = k BY <2>4, <2>7, <2>8
  <2>10. \A o \in Windows : w[o].used <=> \E k \in 1 .. n + 1 : z1[k] = o
    <3> SUFFICES ASSUME NEW o \in Windows PROVE w[o].used <=> \E k \in 1 .. n + 1 : z1[k] = o OBVIOUS
    <3>1. CASE o = i
      <4>1. n + 1 \in 1 .. n + 1 BY <2>4
      <4>2. w[o].used BY <2>5, <2>6, <3>1
      <4> QED BY <2>7, <3>1, <4>1, <4>2
    <3>2. CASE o # i
      <4>1. w[o].used <=> \E k \in 1 .. n : d.z[k] = o BY <2>4, <2>6, <3>2
      <4>2. (\E k \in 1 .. n + 1 : z1[k] = o) <=> \E k \in 1 .. n : d.z[k] = o BY <2>4, <2>7, <3>2
      <4> QED BY <4>1, <4>2
    <3> QED BY <3>1, <3>2
  <2>11. \A o \in Windows : w[o].used => w[o].app \in Apps /\ Shown(RectOf(w[o])) BY <2>5, <2>6 DEF Ordered
  <2> HIDE DEF free
  <2> QED BY <2>1, <2>3, <2>6, <2>7, <2>9, <2>10, <2>11 DEF Ordered
<1> QED BY <1>1, <1>2

\* A window put out of sight, or brought back.
LEMMA MinKeeps ==
  ASSUME NEW d, Ordered(d), NEW id \in Windows, NEW b \in BOOLEAN
  PROVE  LET e == [d EXCEPT !.wins[id].min = b] IN
         /\ Ordered(e)
         /\ \A i \in Windows : e.wins[i].used = d.wins[i].used /\ e.wins[i].app = d.wins[i].app
<1> DEFINE v == [d.wins[id] EXCEPT !.min = b]
           w == [d.wins EXCEPT ![id] = v]
           e == [d EXCEPT !.wins[id] = v]
<1>1. [d EXCEPT !.wins[id].min = b] = e OBVIOUS
<1>2. e = [d EXCEPT !.wins = w] OBVIOUS
<1> HIDE DEF w, e
<1>3. d.wins \in [Windows -> Window] /\ d.wins[id] \in Window BY DEF Ordered
<1>4. v \in Window /\ v.used = d.wins[id].used /\ v.app = d.wins[id].app /\ RectOf(v) = RectOf(d.wins[id])
  BY <1>3 DEF Window, RectOf
<1>5. v.used => v.app \in Apps /\ Shown(RectOf(v)) BY <1>4 DEF Ordered
<1> HIDE DEF v
<1>6. Ordered(e) BY <1>4, <1>5, ChangeKeeps DEF e
<1>7. e.wins = w BY <1>2 DEF Ordered
<1>8. \A i \in Windows : e.wins[i] = IF i = id THEN v ELSE d.wins[i] BY <1>3, <1>7 DEF w
<1> QED BY <1>1, <1>4, <1>6, <1>8

LEMMA PlaceKeeps ==
  ASSUME DesktopSound, NEW d, Ordered(d), NEW id \in Windows, d.wins[id].used, NEW p \in Places
  PROVE  LET e == [d EXCEPT !.wins[id].x = p[1], !.wins[id].y = p[2]] IN
         /\ Ordered(e)
         /\ \A i \in Windows : e.wins[i].used = d.wins[i].used /\ e.wins[i].app = d.wins[i].app
<1> DEFINE v == [d.wins[id] EXCEPT !.x = p[1], !.y = p[2]]
           w == [d.wins EXCEPT ![id] = v]
           e == [d EXCEPT !.wins[id] = v]
           e1 == [d EXCEPT !.wins[id].x = p[1], !.wins[id].y = p[2]]
<1>3. d.wins \in [Windows -> Window] /\ d.wins[id] \in Window /\ d.wins[id].app \in Apps
      /\ Shown(RectOf(d.wins[id])) BY DEF Ordered
<1>0. d = [wins |-> d.wins, z |-> d.z] /\ d.z \in Seq(Windows) BY DEF Ordered
<1>1. e1 = e BY <1>0, <1>3
<1>2. e = [d EXCEPT !.wins = w] OBVIOUS
<1> HIDE DEF w, e
<1>9. p[1] \in Int /\ p[2] \in Int BY DEF DesktopSound
<1>4. /\ v \in Window /\ v.used = d.wins[id].used /\ v.app = d.wins[id].app
      /\ v.x = p[1] /\ v.y = p[2] BY <1>3, <1>9 DEF Window
<1>5. v.app \in Apps /\ Shown(RectOf(v))
  <2> DEFINE f == Frame[v.app]
  <2>1. v.app \in Apps BY <1>3, <1>4
  <2>2. {f.w, f.h} \subseteq Nat \ {0} BY <2>1 DEF DesktopSound
  <2>3. p[1] < ScrW /\ p[1] + f.w > 0 /\ p[2] < ScrH /\ p[2] + f.h > 0 BY <2>1 DEF DesktopSound
  <2>4. RectOf(v) = [x |-> p[1], y |-> p[2], w |-> f.w, h |-> f.h] BY <1>4 DEF RectOf
  <2> HIDE DEF f, v
  <2>5. Shown(RectOf(v)) BY <1>9, <2>2, <2>3, <2>4 DEF Shown, Numbers
  <2> QED BY <2>1, <2>5
<1> HIDE DEF v
<1>6. Ordered(e) BY <1>4, <1>5, ChangeKeeps DEF e
<1>7. e.wins = w BY <1>2 DEF Ordered
<1>8. \A i \in Windows : e.wins[i] = IF i = id THEN v ELSE d.wins[i] BY <1>3, <1>7 DEF w
<1> HIDE DEF e1
<1> QED BY <1>1, <1>4, <1>6, <1>8 DEF e1

LEMMA OpenAppKeeps ==
  ASSUME DesktopSound, NEW d, Ordered(d), NEW app \in Apps
  PROVE  LET e == OpenApp(d, app) IN
         /\ Ordered(e)
         /\ \A i \in Windows : d.wins[i].used => e.wins[i].used /\ e.wins[i].app = d.wins[i].app
<1> DEFINE own == {i \in Windows : d.wins[i].used /\ d.wins[i].app = app}
           e == OpenApp(d, app)
<1>1. CASE own = {}
  <2>1. e = WinOpen(d, app) BY <1>1 DEF OpenApp
  <2> HIDE DEF own, e
  <2> QED BY <2>1, OpenKeeps DEF e
<1>2. CASE own # {}
  <2> DEFINE m == Min(own)
             b == [d EXCEPT !.wins[m].min = FALSE]
  <2>1. e = Raise(b, m) BY <1>2 DEF OpenApp
  <2>2. m \in Windows
    <3>1. own \subseteq Nat BY DEF Windows
    <3>2. m \in own
      <4> HIDE DEF own
      <4> QED BY <1>2, <3>1, LeastIsIn
    <3> QED BY <3>2
  <2> HIDE DEF own, m, e
  <2>3. Ordered(b) /\ \A i \in Windows : b.wins[i].used = d.wins[i].used /\ b.wins[i].app = d.wins[i].app
    BY <2>2, MinKeeps
  <2> HIDE DEF b
  <2>4. Ordered(Raise(b, m)) /\ Raise(b, m).wins = b.wins BY <2>2, <2>3, RaiseKeeps
  <2> QED BY <2>1, <2>3, <2>4 DEF e
<1> QED BY <1>1, <1>2

-----------------------------------------------------------------------------
\* What is damaged for one window.
HasWindow(E, v) == Visible(v) => Has(E, OnScreen(RectOf(v)))
Sound(d) == \A i \in Windows : Visible(d.wins[i]) => Shown(RectOf(d.wins[i]))

LEMMA OrderedSound == ASSUME NEW d, Ordered(d) PROVE Sound(d) BY DEF Ordered, Sound, Visible

LEMMA AddWindowKeeps ==
  ASSUME DesktopSound, NEW D, Kept(D), NEW v, Visible(v) => Shown(RectOf(v))
  PROVE  LET E == AddWindow(D, v) IN Kept(E) /\ More(D, E) /\ HasWindow(E, v)
<1>1. CASE Visible(v)
  <2>1. Numbers(RectOf(v)) /\ Shown(RectOf(v)) BY <1>1 DEF Shown
  <2>2. AddWindow(D, v) = Add(D, RectOf(v)) BY <1>1 DEF AddWindow
  <2> QED BY <2>1, <2>2, AddKeeps DEF HasWindow
<1>2. CASE ~Visible(v)
  <2>1. AddWindow(D, v) = D BY <1>2 DEF AddWindow
  <2> QED BY <1>2, <2>1, MoreSelf DEF HasWindow
<1> QED BY <1>1, <1>2

LEMMA HasWindowOn ==
  ASSUME DesktopSound, NEW D, NEW E, Kept(D), Kept(E), More(D, E), NEW v, Visible(v) => Shown(RectOf(v)), HasWindow(D, v)
  PROVE  HasWindow(E, v)
<1> SUFFICES ASSUME Visible(v) PROVE Has(E, OnScreen(RectOf(v))) BY DEF HasWindow
<1>1. Shown(RectOf(v)) /\ Numbers(RectOf(v)) /\ Has(D, OnScreen(RectOf(v))) BY DEF HasWindow, Shown
<1>2. OnScreen(RectOf(v)) \in Rects BY <1>1, Clipped
<1> QED BY <1>1, <1>2, HasOn

LEMMA BothKeeps ==
  ASSUME DesktopSound, NEW D, Kept(D), NEW d, NEW e, Sound(d), Sound(e), NEW i \in Windows
  PROVE  LET E == Both(D, d, e, i) IN
         Kept(E) /\ More(D, E) /\ HasWindow(E, d.wins[i]) /\ HasWindow(E, e.wins[i])
<1> DEFINE C == AddWindow(D, d.wins[i])
           E == AddWindow(C, e.wins[i])
<1>1. /\ Visible(d.wins[i]) => Shown(RectOf(d.wins[i]))
      /\ Visible(e.wins[i]) => Shown(RectOf(e.wins[i])) BY DEF Sound
<1>2. Kept(C) /\ More(D, C) /\ HasWindow(C, d.wins[i]) BY <1>1, AddWindowKeeps
<1> HIDE DEF C
<1>3. Kept(E) /\ More(C, E) /\ HasWindow(E, e.wins[i]) BY <1>1, <1>2, AddWindowKeeps
<1>4. Both(D, d, e, i) = E BY DEF Both, C
<1> HIDE DEF E
<1>5. HasWindow(E, d.wins[i]) BY <1>1, <1>2, <1>3, HasWindowOn
<1>6. More(D, E) BY <1>2, <1>3, MoreOn
<1> QED BY <1>3, <1>4, <1>5, <1>6

\* The windows marked slot by slot.
Marked(D, d, e, n, f) ==
    f = [i \in 0 .. n |->
            IF i = 0 THEN D ELSE IF Moved(d, e, i) THEN Both(f[i - 1], d, e, i) ELSE f[i - 1]]
LEMMA AfterIsMarked ==
  ASSUME DesktopSound, NEW D, NEW d, NEW e, NEW focus
  PROVE  \E f : /\ Marked(D, d, e, MaxWin, f)
                /\ LET inner == IF focus = 0 THEN f[MaxWin] ELSE Both(f[MaxWin], d, e, focus) IN
                   After(D, d, e, focus)
                      = IF \E i \in Windows : Moved(d, e, i) THEN Add(inner, PanelRect) ELSE inner
<1> DEFINE Round(a, i) == IF Moved(d, e, i) THEN Both(a, d, e, i) ELSE a
           K == {m \in 0 .. MaxWin : \E f : Marked(D, d, e, m, f)}
<1>0. MaxWin \in Nat BY DEF DesktopSound
<1>1. 0 \in K
  <2> DEFINE f == [m \in 0 .. 0 |-> D]
  <2>1. Marked(D, d, e, 0, f) BY DEF Marked
  <2> QED BY <1>0, <2>1
<1>2. ASSUME NEW k \in 1 .. MaxWin, k - 1 \in K PROVE k \in K
  <2>1. PICK g : Marked(D, d, e, k - 1, g) BY <1>2
  <2> DEFINE G == [m \in 0 .. k |-> IF m = k THEN Round(g[k - 1], k) ELSE g[m]]
  <2>2. \A m \in 0 .. k - 1 : g[m] = IF m = 0 THEN D ELSE Round(g[m - 1], m)
    <3>1. g = [m \in 0 .. k - 1 |-> IF m = 0 THEN D ELSE Round(g[m - 1], m)] BY <2>1 DEF Marked
    <3> HIDE DEF Round
    <3> QED BY <3>1, Zenon
  <2> HIDE DEF Round
  <2>3. \A m \in 0 .. k - 1 : G[m] = g[m] BY <1>0
  <2>4. G[k] = Round(G[k - 1], k) BY <1>0, <2>3
  <2>5. G = [m \in 0 .. k |-> G[m]] OBVIOUS
  <2> HIDE DEF G, K
  <2>6. \A m \in 0 .. k : G[m] = IF m = 0 THEN D ELSE Round(G[m - 1], m)
    <3>1. ASSUME NEW m \in 0 .. k - 1, m # 0 PROVE m - 1 \in 0 .. k - 1 BY <1>0, <3>1
    <3>2. ASSUME NEW m \in 0 .. k - 1 PROVE G[m] = IF m = 0 THEN D ELSE Round(G[m - 1], m) BY <2>2, <2>3, <3>1
    <3> QED BY <1>0, <2>4, <3>2
  <2>7. Marked(D, d, e, k, G) BY <2>5, <2>6 DEF Marked, Round
  <2> QED BY <1>0, <2>7 DEF K
<1> HIDE DEF K
<1>3. \A k \in 1 .. MaxWin : k - 1 \in K => k \in K BY <1>2
<1>4. \A k \in 0 .. MaxWin : k \in K BY <1>0, <1>1, <1>3, Rises
<1>5. \E f : Marked(D, d, e, MaxWin, f) BY <1>0, <1>4 DEF K
<1> QED BY <1>5, Zenon DEF After, Marked

\* gui_damage_after_input loses nothing, and damages every window that
\* moved or took the input where it was and where it is, and the panel.
LEMMA AfterKeeps ==
  ASSUME DesktopSound, NEW D, Kept(D), NEW d, NEW e, Sound(d), Sound(e), NEW focus \in 0 .. MaxWin
  PROVE  LET E == After(D, d, e, focus) IN
         /\ Kept(E) /\ More(D, E)
         /\ \A i \in Windows : Moved(d, e, i) \/ i = focus =>
              HasWindow(E, d.wins[i]) /\ HasWindow(E, e.wins[i])
         /\ (\E i \in Windows : Moved(d, e, i)) => Has(E, OnScreen(PanelRect))
<1>1. PICK f : /\ Marked(D, d, e, MaxWin, f)
               /\ LET inner == IF focus = 0 THEN f[MaxWin] ELSE Both(f[MaxWin], d, e, focus) IN
                  After(D, d, e, focus)
                      = IF \E i \in Windows : Moved(d, e, i) THEN Add(inner, PanelRect) ELSE inner BY AfterIsMarked
<1>0. MaxWin \in Nat BY DEF DesktopSound
<1> DEFINE Good(E, i) == HasWindow(E, d.wins[i]) /\ HasWindow(E, e.wins[i])
           Fine(k) == /\ Kept(f[k]) /\ More(D, f[k])
                      /\ \A i \in 1 .. k : Moved(d, e, i) => Good(f[k], i)
           Round(a, i) == IF Moved(d, e, i) THEN Both(a, d, e, i) ELSE a
           K == {k \in 0 .. MaxWin : Fine(k)}
<1>2. \A k \in 0 .. MaxWin : f[k] = IF k = 0 THEN D ELSE Round(f[k - 1], k)
  <2>1. f = [k \in 0 .. MaxWin |-> IF k = 0 THEN D ELSE Round(f[k - 1], k)] BY <1>1 DEF Marked
  <2> HIDE DEF Round
  <2> QED BY <2>1, Zenon
<1>3. ASSUME NEW A, NEW B, Kept(A), Kept(B), More(A, B), NEW i \in Windows, Good(A, i) PROVE Good(B, i)
  <2>1. /\ Visible(d.wins[i]) => Shown(RectOf(d.wins[i]))
        /\ Visible(e.wins[i]) => Shown(RectOf(e.wins[i])) BY DEF Sound
  <2> QED BY <1>3, <2>1, HasWindowOn
<1>4. 0 \in K
  <2>1. f[0] = D
    <3> HIDE DEF Round
    <3> QED BY <1>0, <1>2
  <2>2. Fine(0)
    <3> HIDE DEF Good
    <3> QED BY <2>1, MoreSelf
  <2> QED BY <1>0, <2>2
<1>5. ASSUME NEW k \in 1 .. MaxWin, k - 1 \in K PROVE k \in K
  <2> DEFINE a == f[k - 1]
             c == f[k]
  <2>0. k - 1 \in 0 .. MaxWin /\ k \in 0 .. MaxWin /\ k # 0 /\ k \in Windows BY <1>0 DEF Windows
  <2>1. c = Round(a, k)
    <3> HIDE DEF Round
    <3> QED BY <1>2, <2>0
  <2>2. Kept(a) /\ More(D, a) /\ \A i \in 1 .. k - 1 : Moved(d, e, i) => Good(a, i)
    <3>1. Fine(k - 1) BY <1>5
    <3> HIDE DEF Good
    <3> QED BY <3>1
  <2>3. Kept(c) /\ More(a, c) /\ (Moved(d, e, k) => Good(c, k))
    <3>1. CASE Moved(d, e, k)
      <4>1. c = Both(a, d, e, k) BY <2>1, <3>1
      <4> HIDE DEF a, c
      <4> QED BY <2>0, <2>2, <4>1, BothKeeps
    <3>2. CASE ~Moved(d, e, k)
      <4>1. c = a BY <2>1, <3>2
      <4> HIDE DEF a, c, Good
      <4> QED BY <2>2, <3>2, <4>1, MoreSelf
    <3> QED BY <3>1, <3>2
  <2> HIDE DEF a, c, Good
  <2>4. More(D, c) BY <2>2, <2>3, MoreOn
  <2>5. ASSUME NEW i \in 1 .. k, Moved(d, e, i) PROVE Good(c, i)
    <3>1. CASE i = k BY <2>3, <2>5, <3>1
    <3>2. CASE i # k
      <4>1. i \in 1 .. k - 1 /\ i \in Windows BY <1>0, <2>0, <3>2 DEF Windows
      <4>2. Good(a, i) BY <2>2, <2>5, <4>1
      <4> QED BY <1>3, <2>2, <2>3, <4>1, <4>2
    <3> QED BY <3>1, <3>2
  <2>6. Fine(k) BY <2>3, <2>4, <2>5 DEF c
  <2> HIDE DEF Fine
  <2> QED BY <2>0, <2>6
<1> HIDE DEF K
<1>6. \A k \in 1 .. MaxWin : k - 1 \in K => k \in K BY <1>5
<1>7. \A k \in 0 .. MaxWin : k \in K BY <1>0, <1>4, <1>6, Rises
<1> DEFINE m == f[MaxWin]
           inner == IF focus = 0 THEN m ELSE Both(m, d, e, focus)
           E == IF \E i \in Windows : Moved(d, e, i) THEN Add(inner, PanelRect) ELSE inner
<1>8. Kept(m) /\ More(D, m) /\ \A i \in Windows : Moved(d, e, i) => Good(m, i)
  <2>1. Fine(MaxWin) BY <1>0, <1>7 DEF K
  <2> HIDE DEF Good
  <2> QED BY <2>1 DEF Windows
<1> HIDE DEF m, Round
<1>9. Kept(inner) /\ More(m, inner) /\ (focus # 0 => Good(inner, focus))
  <2>1. CASE focus = 0
    <3>1. inner = m BY <2>1
    <3> HIDE DEF inner, Good
    <3> QED BY <1>8, <2>1, <3>1, MoreSelf
  <2>2. CASE focus # 0
    <3>1. inner = Both(m, d, e, focus) BY <2>2
    <3>2. focus \in Windows BY <1>0, <2>2 DEF Windows
    <3> HIDE DEF inner
    <3> QED BY <1>8, <3>1, <3>2, BothKeeps
  <2> QED BY <2>1, <2>2
<1> HIDE DEF inner
<1>10. Kept(E) /\ More(inner, E) /\ ((\E i \in Windows : Moved(d, e, i)) => Has(E, OnScreen(PanelRect)))
  <2>1. CASE \E i \in Windows : Moved(d, e, i)
    <3>1. E = Add(inner, PanelRect) BY <2>1
    <3>2. Shown(PanelRect) /\ Numbers(PanelRect) BY DEF DesktopSound, PanelRect, Shown, Numbers
    <3> HIDE DEF E
    <3> QED BY <1>9, <3>1, <3>2, AddKeeps
  <2>2. CASE ~\E i \in Windows : Moved(d, e, i)
    <3>1. E = inner BY <2>2
    <3> HIDE DEF E
    <3> QED BY <1>9, <2>2, <3>1, MoreSelf
  <2> QED BY <2>1, <2>2
<1>11. After(D, d, e, focus) = E BY <1>1 DEF inner, m
<1> HIDE DEF E, Good
<1>12. More(m, E) BY <1>8, <1>9, <1>10, MoreOn
<1>13. More(D, E) BY <1>8, <1>10, <1>12, MoreOn
<1>14. ASSUME NEW i \in Windows, Moved(d, e, i) \/ i = focus PROVE Good(E, i)
  <2>1. CASE Moved(d, e, i) BY <1>3, <1>8, <1>10, <1>12, <2>1
  <2>2. CASE i = focus
    <3>1. focus # 0 BY <1>0, <2>2 DEF Windows
    <3> QED BY <1>3, <1>9, <1>10, <2>2, <3>1
  <2> QED BY <1>14, <2>1, <2>2
<1> QED BY <1>10, <1>11, <1>13, <1>14 DEF Good

\* The damage of the end of the loop.
Updated(n, f) == f = [i \in 0 .. n |-> IF i = 0 THEN dirty ELSE AddWindow(f[i - 1], wins[i])]
LEMMA DamagedIsUpdated ==
  ASSUME DesktopSound, NEW due
  PROVE  \E f : /\ Updated(MaxWin, f)
                /\ LET D == IF due THEN Add(f[MaxWin], PanelRect) ELSE dirty IN
                   Damaged(due) = IF pointer # drawn THEN Add(Add(D, At1(drawn)), At1(pointer)) ELSE D
<1> DEFINE Round(a, i) == AddWindow(a, wins[i])
           K == {m \in 0 .. MaxWin : \E f : Updated(m, f)}
<1>0. MaxWin \in Nat BY DEF DesktopSound
<1>1. 0 \in K
  <2> DEFINE f == [m \in 0 .. 0 |-> dirty]
  <2>1. Updated(0, f) BY DEF Updated
  <2> QED BY <1>0, <2>1
<1>2. ASSUME NEW k \in 1 .. MaxWin, k - 1 \in K PROVE k \in K
  <2>1. PICK g : Updated(k - 1, g) BY <1>2
  <2> DEFINE G == [m \in 0 .. k |-> IF m = k THEN Round(g[k - 1], k) ELSE g[m]]
  <2>2. \A m \in 0 .. k - 1 : g[m] = IF m = 0 THEN dirty ELSE Round(g[m - 1], m)
    <3>1. g = [m \in 0 .. k - 1 |-> IF m = 0 THEN dirty ELSE Round(g[m - 1], m)] BY <2>1 DEF Updated
    <3> HIDE DEF Round
    <3> QED BY <3>1, Zenon
  <2> HIDE DEF Round
  <2>3. \A m \in 0 .. k - 1 : G[m] = g[m] BY <1>0
  <2>4. G[k] = Round(G[k - 1], k) BY <1>0, <2>3
  <2>5. G = [m \in 0 .. k |-> G[m]] OBVIOUS
  <2> HIDE DEF G, K
  <2>6. \A m \in 0 .. k : G[m] = IF m = 0 THEN dirty ELSE Round(G[m - 1], m)
    <3>1. ASSUME NEW m \in 0 .. k - 1, m # 0 PROVE m - 1 \in 0 .. k - 1 BY <1>0, <3>1
    <3>2. ASSUME NEW m \in 0 .. k - 1 PROVE G[m] = IF m = 0 THEN dirty ELSE Round(G[m - 1], m) BY <2>2, <2>3, <3>1
    <3> QED BY <1>0, <2>4, <3>2
  <2>7. Updated(k, G) BY <2>5, <2>6 DEF Updated, Round
  <2> QED BY <1>0, <2>7 DEF K
<1> HIDE DEF K
<1>3. \A k \in 1 .. MaxWin : k - 1 \in K => k \in K BY <1>2
<1>4. \A k \in 0 .. MaxWin : k \in K BY <1>0, <1>1, <1>3, Rises
<1>5. \E f : Updated(MaxWin, f) BY <1>0, <1>4 DEF K
<1> QED BY <1>5, Zenon DEF Damaged, Updated

LEMMA DamagedKeeps ==
  ASSUME DesktopSound, Kept(dirty), Sound(Now), pointer \in Pointers, drawn \in Pointers, NEW due
  PROVE  Kept(Damaged(due)) /\ More(dirty, Damaged(due))
<1>1. PICK f : /\ Updated(MaxWin, f)
               /\ LET D == IF due THEN Add(f[MaxWin], PanelRect) ELSE dirty IN
                  Damaged(due) = IF pointer # drawn THEN Add(Add(D, At1(drawn)), At1(pointer)) ELSE D
  BY DamagedIsUpdated
<1>0. MaxWin \in Nat BY DEF DesktopSound
<1> DEFINE Fine(k) == Kept(f[k]) /\ More(dirty, f[k])
           Round(a, i) == AddWindow(a, wins[i])
           K == {k \in 0 .. MaxWin : Fine(k)}
<1>2. \A k \in 0 .. MaxWin : f[k] = IF k = 0 THEN dirty ELSE Round(f[k - 1], k)
  <2>1. f = [k \in 0 .. MaxWin |-> IF k = 0 THEN dirty ELSE Round(f[k - 1], k)] BY <1>1 DEF Updated
  <2> HIDE DEF Round
  <2> QED BY <2>1, Zenon
<1>3. 0 \in K
  <2>1. f[0] = dirty
    <3> HIDE DEF Round
    <3> QED BY <1>0, <1>2
  <2> QED BY <1>0, <2>1, MoreSelf
<1>4. ASSUME NEW k \in 1 .. MaxWin, k - 1 \in K PROVE k \in K
  <2> DEFINE a == f[k - 1]
             c == f[k]
  <2>0. k - 1 \in 0 .. MaxWin /\ k \in 0 .. MaxWin /\ k # 0 /\ k \in Windows BY <1>0 DEF Windows
  <2>1. c = AddWindow(a, wins[k])
    <3>1. c = Round(a, k)
      <4> HIDE DEF Round
      <4> QED BY <1>2, <2>0
    <3> QED BY <3>1
  <2>2. Kept(a) /\ More(dirty, a) BY <1>4
  <2>3. Visible(wins[k]) => Shown(RectOf(wins[k])) BY <2>0 DEF Sound, Now
  <2> HIDE DEF a, c
  <2>4. Kept(c) /\ More(a, c) BY <2>1, <2>2, <2>3, AddWindowKeeps
  <2>5. More(dirty, c) BY <2>2, <2>4, MoreOn
  <2> QED BY <2>0, <2>4, <2>5 DEF c
<1> HIDE DEF K
<1>5. \A k \in 1 .. MaxWin : k - 1 \in K => k \in K BY <1>4
<1>6. \A k \in 0 .. MaxWin : k \in K BY <1>0, <1>3, <1>5, Rises
<1> DEFINE m == f[MaxWin]
           D == IF due THEN Add(m, PanelRect) ELSE dirty
           A == Add(D, At1(drawn))
           B == Add(A, At1(pointer))
<1>7. Kept(m) /\ More(dirty, m) BY <1>0, <1>6 DEF K
<1>11. Damaged(due) = IF pointer # drawn THEN B ELSE D BY <1>1
<1> HIDE DEF m, Round
<1>8. Kept(D) /\ More(dirty, D)
  <2>1. CASE due
    <3>1. D = Add(m, PanelRect) BY <2>1
    <3>2. Numbers(PanelRect) BY DEF DesktopSound, PanelRect, Numbers
    <3> HIDE DEF D
    <3>3. Kept(D) /\ More(m, D) BY <1>7, <3>1, <3>2, AddKeeps
    <3> QED BY <1>7, <3>3, MoreOn
  <2>2. CASE ~due BY <2>2, MoreSelf
  <2> QED BY <2>1, <2>2
<1> HIDE DEF D
<1>9. Kept(A) /\ More(D, A)
  <2>1. Numbers(At1(drawn)) BY DEF DesktopSound, At1, Numbers
  <2> QED BY <1>8, <2>1, AddKeeps
<1> HIDE DEF A
<1>10. Kept(B) /\ More(A, B)
  <2>1. Numbers(At1(pointer)) BY DEF DesktopSound, At1, Numbers
  <2> QED BY <1>9, <2>1, AddKeeps
<1> HIDE DEF B
<1>12. More(dirty, A) BY <1>8, <1>9, MoreOn
<1>13. More(dirty, B) BY <1>8, <1>9, <1>10, <1>12, MoreOn
<1> QED BY <1>8, <1>10, <1>11, <1>13

-----------------------------------------------------------------------------
\* What the screen shows changes only where a window that moved was or is.
ShowsAt(d, c) == {k \in DOMAIN d.z : Visible(d.wins[d.z[k]]) /\ InRect(c, RectOf(d.wins[d.z[k]]))}

LEMMA AtIs == ASSUME NEW d, NEW c PROVE At(d, c) = Highest(d, ShowsAt(d, c)) BY DEF At, ShowsAt

\* A window that has not moved keeps its place.
LEMMA StillThere ==
  ASSUME NEW d, NEW e, Ordered(d), Ordered(e), NEW k \in DOMAIN d.z, ~Moved(d, e, d.z[k])
  PROVE  k \in DOMAIN e.z /\ e.z[k] = d.z[k] /\ e.wins[d.z[k]] = d.wins[d.z[k]]
<1> DEFINE i == d.z[k]
<1>1. DOMAIN d.z = 1 .. Len(d.z) /\ DOMAIN e.z = 1 .. Len(e.z) /\ Len(d.z) \in Nat BY OrderedFacts
<1>2. Position(d, i) = k
  <2>1. Position(d, i) \in 1 .. Len(d.z) /\ d.z[Position(d, i)] = i BY <1>1, PositionIs
  <2> QED BY <1>1, <2>1 DEF Ordered
<1>3. Position(e, i) = k /\ e.wins[i] = d.wins[i] BY <1>2 DEF Moved
<1>4. k # 0 BY <1>1
<1>5. k \in 1 .. Len(e.z) /\ e.z[k] = i BY <1>3, <1>4, PositionIs
<1> QED BY <1>1, <1>3, <1>5

LEMMA MovedBack == ASSUME NEW d, NEW e, NEW i PROVE Moved(d, e, i) <=> Moved(e, d, i) BY DEF Moved

LEMMA PictureStays ==
  ASSUME NEW d, NEW e, Ordered(d), Ordered(e), NEW c \in Cells \ Panel,
         \A i \in Windows : Moved(d, e, i) =>
            /\ ~(Visible(d.wins[i]) /\ InRect(c, RectOf(d.wins[i])))
            /\ ~(Visible(e.wins[i]) /\ InRect(c, RectOf(e.wins[i])))
  PROVE  Picture(d)[c] = Picture(e)[c]
<1> DEFINE S == ShowsAt(d, c)
           T == ShowsAt(e, c)
<1>1. DOMAIN d.z = 1 .. Len(d.z) /\ DOMAIN e.z = 1 .. Len(e.z)
      /\ (\A k \in DOMAIN d.z : d.z[k] \in Windows) /\ (\A k \in DOMAIN e.z : e.z[k] \in Windows) BY OrderedFacts
<1>2. ASSUME NEW k \in S PROVE k \in T /\ e.z[k] = d.z[k] /\ e.wins[d.z[k]] = d.wins[d.z[k]]
  <2>1. k \in DOMAIN d.z /\ Visible(d.wins[d.z[k]]) /\ InRect(c, RectOf(d.wins[d.z[k]])) BY <1>2 DEF ShowsAt
  <2>2. ~Moved(d, e, d.z[k]) BY <1>1, <2>1
  <2>3. k \in DOMAIN e.z /\ e.z[k] = d.z[k] /\ e.wins[d.z[k]] = d.wins[d.z[k]] BY <2>1, <2>2, StillThere
  <2> QED BY <2>1, <2>3 DEF ShowsAt
<1>3. ASSUME NEW k \in T PROVE k \in S
  <2>1. k \in DOMAIN e.z /\ Visible(e.wins[e.z[k]]) /\ InRect(c, RectOf(e.wins[e.z[k]])) BY <1>3 DEF ShowsAt
  <2>2. ~Moved(e, d, e.z[k]) BY <1>1, <2>1, MovedBack
  <2>3. k \in DOMAIN d.z /\ d.z[k] = e.z[k] /\ d.wins[e.z[k]] = e.wins[e.z[k]] BY <2>1, <2>2, StillThere
  <2> QED BY <2>1, <2>3 DEF ShowsAt
<1>4. S = T BY <1>2, <1>3
<1>5. S \subseteq DOMAIN d.z /\ T \subseteq DOMAIN e.z BY DEF ShowsAt
<1>6. At(d, c) = Highest(d, S) /\ At(e, c) = Highest(e, T) BY AtIs
<1>7. Picture(d)[c] = (IF At(d, c) = 0 THEN <<>> ELSE <<At(d, c), d.wins[At(d, c)]>>)
      /\ Picture(e)[c] = (IF At(e, c) = 0 THEN <<>> ELSE <<At(e, c), e.wins[At(e, c)]>>) BY DEF Picture
<1> HIDE DEF S, T
<1>8. CASE S = {}
  <2>1. At(d, c) = 0 /\ At(e, c) = 0 BY <1>4, <1>6, <1>8 DEF Highest
  <2> QED BY <1>7, <2>1
<1>9. CASE S # {}
  <2>1. Highest(d, S) = d.z[Max(S)] /\ Highest(e, S) = e.z[Max(S)] BY <1>9 DEF Highest
  <2>2. Max(S) \in S
    <3>1. S \subseteq Int /\ Len(d.z) \in Int /\ \A k \in S : k <= Len(d.z)
      <4>1. Len(d.z) \in Nat /\ S \subseteq 1 .. Len(d.z) BY <1>1, <1>5, OrderedFacts
      <4> QED BY <4>1
    <3> QED BY <1>9, <3>1, GreatestIsIn, Zenon
  <2>3. At(e, c) = At(d, c) /\ e.wins[At(d, c)] = d.wins[At(d, c)] BY <1>2, <1>4, <1>6, <2>1, <2>2
  <2> QED BY <1>7, <2>3
<1> QED BY <1>8, <1>9

LEMMA ButtonsStay ==
  ASSUME NEW d, NEW e, Ordered(d), Ordered(e), \A i \in Windows : ~Moved(d, e, i)
  PROVE  Buttons(d) = Buttons(e)
<1>1. DOMAIN d.z = 1 .. Len(d.z) /\ DOMAIN e.z = 1 .. Len(e.z)
      /\ (\A k \in DOMAIN d.z : d.z[k] \in Windows) /\ (\A k \in DOMAIN e.z : e.z[k] \in Windows) BY OrderedFacts
<1>2. \A k \in DOMAIN d.z : k \in DOMAIN e.z /\ e.z[k] = d.z[k] BY <1>1, StillThere
<1>3. \A k \in DOMAIN e.z : k \in DOMAIN d.z BY <1>1, StillThere, MovedBack
<1>4. DOMAIN d.z = DOMAIN e.z BY <1>2, <1>3
<1>5. d.z = e.z
  <2>1. d.z = [k \in DOMAIN d.z |-> d.z[k]] /\ e.z = [k \in DOMAIN e.z |-> e.z[k]] BY DEF Ordered
  <2> QED BY <1>2, <1>4, <2>1
<1>6. d.wins = e.wins
  <2>1. \A i \in Windows : d.wins[i] = e.wins[i] BY DEF Moved
  <2> QED BY <2>1 DEF Ordered
<1>7. d = [wins |-> d.wins, z |-> d.z] /\ e = [wins |-> e.wins, z |-> e.z] BY DEF Ordered
<1>8. d = e BY <1>5, <1>6, <1>7
<1> QED BY <1>8

\* The window on top of a cell is in sight there.
LEMMA AtIsShown ==
  ASSUME NEW d, Ordered(d), NEW c, At(d, c) # 0
  PROVE  At(d, c) \in Windows /\ Visible(d.wins[At(d, c)]) /\ InRect(c, RectOf(d.wins[At(d, c)]))
<1>1. ShowsAt(d, c) \subseteq DOMAIN d.z BY DEF ShowsAt
<1>2. PICK p \in ShowsAt(d, c) : At(d, c) = d.z[p] BY <1>1, AtIs, HighestIs
<1>3. d.z[p] \in Windows BY <1>1, OrderedFacts
<1> QED BY <1>2, <1>3 DEF ShowsAt

LEMMA TopIsWindow ==
  ASSUME NEW d, Ordered(d), Top(d) # 0
  PROVE  Top(d) \in Windows
<1> DEFINE K == {k \in DOMAIN d.z : Visible(d.wins[d.z[k]])}
<1>1. K \subseteq DOMAIN d.z OBVIOUS
<1>2. Top(d) = Highest(d, K) BY DEF Top
<1> HIDE DEF K
<1>3. \E p \in K : Top(d) = d.z[p] BY <1>1, <1>2, HighestIs
<1> QED BY <1>1, <1>3, OrderedFacts

\* A cell of a window on the screen is in what is left of the window there.
LEMMA CellCovered ==
  ASSUME DesktopSound, NEW c \in Cells, NEW rect, Shown(rect), InRect(c, rect)
  PROVE  InRect(c, OnScreen(rect))
<1>1. c[1] \in Nat /\ c[2] \in Nat /\ c[1] < ScrW /\ c[2] < ScrH /\ ScrW \in Nat /\ ScrH \in Nat
  BY DEF Cells, DesktopSound
<1> DEFINE x == Greater(rect.x, 0)
           y == Greater(rect.y, 0)
           w == Lesser(rect.x + rect.w, ScrW) - x
           h == Lesser(rect.y + rect.h, ScrH) - y
<1>2. OnScreen(rect) = [x |-> x, y |-> y, w |-> w, h |-> h] BY DEF OnScreen
<1>3. x <= c[1] /\ c[1] < x + w /\ y <= c[2] /\ c[2] < y + h BY <1>1 DEF Greater, Lesser, Shown, Numbers, InRect
<1> HIDE DEF x, y, w, h
<1> QED BY <1>2, <1>3 DEF InRect

LEMMA HasCell ==
  ASSUME NEW E, Kept(E), NEW c \in Cells, NEW r \in Rects, InRect(c, r), Has(E, r), ~E.all
  PROVE  \E m \in E.rects : InRect(c, m)
<1>1. PICK m \in E.rects : Within(r, m) BY DEF Has
<1>2. m \in Rects BY DEF Kept
<1>3. c[1] \in Int /\ c[2] \in Int BY DEF Cells
<1>4. InRect(c, m) BY <1>1, <1>2, <1>3 DEF Within, InRect, Rects
<1> QED BY <1>4

-----------------------------------------------------------------------------
\* What the loop keeps.  A visible window's areas are the ones it has, or it
\* is still to be drawn.
Covered(E, c) == E.all \/ \E r \in E.rects : InRect(c, r)
Due(E, v) == E.all \/ \E r \in E.rects : Overlap(r, RectOf(v))
Hits == {h \in [app : Apps \cup {NoApp}, x : Int, y : Int, n : Nat, of : Nat, crowded : BOOLEAN] :
            h.n = h.of \/ h.crowded}
Belongs(h, v) == h.app = v.app /\ h.n <= Areas[v.app].most
Current(h, v) == h.app = v.app /\ h.x = v.x /\ h.y = v.y
DeskInv ==
    /\ Ordered(Now) /\ dragging \in 0 .. MaxWin
    /\ Kept(dirty) /\ stale \subseteq Cells
    /\ pointer \in Pointers /\ drawn \in Pointers
    /\ hits \in [Windows -> Hits] /\ HitCount(hits) <= MaxHit
    /\ \A c \in stale : Covered(dirty, c)
    /\ \A i \in Windows : hits[i] # NoHit => wins[i].used /\ Belongs(hits[i], wins[i])
    /\ \A i \in Windows : Visible(wins[i]) => Current(hits[i], wins[i]) \/ Due(dirty, wins[i])

LEMMA MoreCovers ==
  ASSUME NEW D, NEW E, Kept(D), Kept(E), More(D, E)
  PROVE  /\ \A c \in Cells : Covered(D, c) => Covered(E, c)
         /\ \A v : Numbers(RectOf(v)) /\ Due(D, v) => Due(E, v)
<1> SUFFICES ASSUME ~E.all
             PROVE  /\ \A c \in Cells : Covered(D, c) => Covered(E, c)
                    /\ \A v : Numbers(RectOf(v)) /\ Due(D, v) => Due(E, v) BY DEF Covered, Due
<1>1. ~D.all /\ \A b \in D.rects : \E m \in E.rects : Within(b, m) BY DEF More
<1>2. ASSUME NEW c \in Cells, Covered(D, c) PROVE Covered(E, c)
  <2>1. PICK b \in D.rects : InRect(c, b) BY <1>1, <1>2 DEF Covered
  <2>2. PICK m \in E.rects : Within(b, m) BY <1>1
  <2>3. b \in Rects /\ m \in Rects BY DEF Kept
  <2>4. c[1] \in Int /\ c[2] \in Int BY DEF Cells
  <2>5. InRect(c, m) BY <2>1, <2>2, <2>3, <2>4 DEF Within, InRect, Rects
  <2> QED BY <2>5 DEF Covered
<1>3. ASSUME NEW v, Numbers(RectOf(v)), Due(D, v) PROVE Due(E, v)
  <2> DEFINE r == RectOf(v)
  <2>1. PICK b \in D.rects : Overlap(b, r) BY <1>1, <1>3 DEF Due
  <2>2. PICK m \in E.rects : Within(b, m) BY <1>1
  <2>3. b \in Rects /\ m \in Rects BY DEF Kept
  <2>4. Numbers(r) BY <1>3
  <2> HIDE DEF r
  <2>5. Overlap(m, r) BY <2>1, <2>2, <2>3, <2>4 DEF Within, Overlap, Rects, Numbers
  <2> QED BY <2>5 DEF Due, r
<1> QED BY <1>2, <1>3

LEMMA HasIsDue ==
  ASSUME DesktopSound, NEW E, Kept(E), NEW v, Visible(v), Shown(RectOf(v)), HasWindow(E, v)
  PROVE  Due(E, v) /\ \A c \in Cells : InRect(c, RectOf(v)) => Covered(E, c)
<1> DEFINE r == RectOf(v)
           o == OnScreen(r)
<1>1. o \in Rects /\ Has(E, o) /\ Numbers(r) BY Clipped DEF HasWindow, Shown
<1> SUFFICES ASSUME ~E.all PROVE Due(E, v) /\ \A c \in Cells : InRect(c, RectOf(v)) => Covered(E, c)
  BY DEF Due, Covered
<1>2. PICK m \in E.rects : Within(o, m) BY <1>1 DEF Has
<1>3. m \in Rects BY DEF Kept
<1>4. r.x <= o.x /\ r.y <= o.y /\ o.x + o.w <= r.x + r.w /\ o.y + o.h <= r.y + r.h
  <2> HIDE DEF r
  <2>1. ScrW \in Nat /\ ScrH \in Nat BY DEF DesktopSound
  <2>2. o = [x |-> Greater(r.x, 0), y |-> Greater(r.y, 0),
             w |-> Lesser(r.x + r.w, ScrW) - Greater(r.x, 0), h |-> Lesser(r.y + r.h, ScrH) - Greater(r.y, 0)]
    BY DEF OnScreen
  <2> HIDE DEF o
  <2> QED BY <1>1, <2>1, <2>2 DEF Greater, Lesser, Numbers
<1>5. \A c \in Cells : InRect(c, RectOf(v)) => InRect(c, o) BY CellCovered
<1>6. ASSUME NEW c \in Cells, InRect(c, RectOf(v)) PROVE Covered(E, c)
  <2>1. \E b \in E.rects : InRect(c, b)
    <3>1. InRect(c, o) BY <1>5, <1>6
    <3> HIDE DEF o, r
    <3> QED BY <1>1, <3>1, HasCell
  <2> QED BY <2>1 DEF Covered
<1> HIDE DEF o, r
<1>7. Overlap(m, r) BY <1>1, <1>2, <1>3, <1>4 DEF Overlap, Within, Rects, Numbers
<1> QED BY <1>6, <1>7 DEF Due, r

\* The panel lies under its own damage.
LEMMA PanelIsCovered ==
  ASSUME DesktopSound, NEW E, Kept(E), Has(E, OnScreen(PanelRect)), NEW c \in Panel
  PROVE  c \in Cells /\ Covered(E, c)
<1>1. c \in Cells /\ c[2] = ScrH - 1 BY DEF Panel
<1>2. c[1] \in Nat /\ c[1] < ScrW /\ ScrW \in Nat /\ ScrH \in Nat \ {0} BY <1>1 DEF Cells, DesktopSound
<1>3. Shown(PanelRect) /\ Numbers(PanelRect) BY DEF DesktopSound, PanelRect, Shown, Numbers
<1>4. InRect(c, PanelRect) BY <1>1, <1>2 DEF InRect, PanelRect
<1>5. OnScreen(PanelRect) \in Rects BY <1>3, Clipped
<1>6. InRect(c, OnScreen(PanelRect)) BY <1>1, <1>3, <1>4, CellCovered
<1>7. E.all \/ \E m \in E.rects : InRect(c, m) BY <1>1, <1>5, <1>6, HasCell
<1> QED BY <1>1, <1>7 DEF Covered

\* The list of clickable areas: what the windows hold of it is finite, and
\* less when windows give theirs back.
LEMMA ColumnsFinite ==
  ASSUME DesktopSound, NEW W \in SUBSET Windows, NEW f, \A i \in W : f[i] \in Nat
  PROVE  IsFiniteSet(UNION {{i} \X (1 .. f[i]) : i \in W})
<1> DEFINE g == [i \in W |-> {i} \X (1 .. f[i])]
           T == {{i} \X (1 .. f[i]) : i \in W}
<1>1. IsFiniteSet(W)
  <2>1. MaxWin \in Int /\ 1 \in Int BY DEF DesktopSound
  <2>2. IsFiniteSet(Windows) BY <2>1, FS_Interval DEF Windows
  <2> QED BY <2>2, FS_Subset
<1>2. g \in Surjection(W, T) BY DEF Surjection
<1>3. IsFiniteSet(T)
  <2> HIDE DEF g, T
  <2> QED BY <1>1, <1>2, FS_Surjection
<1>4. ASSUME NEW t \in T PROVE IsFiniteSet(t)
  <2>1. PICK i \in W : t = {i} \X (1 .. f[i]) OBVIOUS
  <2>2. f[i] \in Int /\ 1 \in Int OBVIOUS
  <2>3. IsFiniteSet({i}) BY FS_Singleton
  <2>4. IsFiniteSet(1 .. f[i]) BY <2>2, FS_Interval
  <2> QED BY <2>1, <2>3, <2>4, FS_Product
<1> HIDE DEF T
<1>5. IsFiniteSet(UNION T) BY <1>3, <1>4, FS_UNION
<1> QED BY <1>5 DEF T

LEMMA TakenFinite ==
  ASSUME DesktopSound, NEW h \in [Windows -> Hits]
  PROVE  IsFiniteSet(Taken(h)) /\ HitCount(h) \in Nat
<1> DEFINE f == [i \in Windows |-> h[i].n]
<1>1. \A i \in Windows : f[i] \in Nat /\ f[i] = h[i].n BY DEF Hits
<1> HIDE DEF f
<1>2. IsFiniteSet(UNION {{i} \X (1 .. f[i]) : i \in Windows}) BY <1>1, ColumnsFinite
<1>3. Taken(h) = UNION {{i} \X (1 .. f[i]) : i \in Windows} BY <1>1 DEF Taken
<1>4. IsFiniteSet(Taken(h)) BY <1>2, <1>3
<1> QED BY <1>4, FS_CardinalityType DEF HitCount

LEMMA FewerHits ==
  ASSUME DesktopSound, NEW h \in [Windows -> Hits], NEW g \in [Windows -> Hits],
         \A i \in Windows : g[i] # h[i] => g[i] = NoHit, HitCount(h) <= MaxHit
  PROVE  Taken(g) \subseteq Taken(h) /\ HitCount(g) <= MaxHit
<1>1. Taken(g) \subseteq Taken(h)
  <2> SUFFICES ASSUME NEW i \in Windows, NEW x \in {i} \X (1 .. g[i].n) PROVE x \in {i} \X (1 .. h[i].n) BY DEF Taken
  <2>1. g[i] # NoHit BY DEF NoHit
  <2> QED BY <2>1
<1>2. IsFiniteSet(Taken(h)) /\ HitCount(h) \in Nat /\ HitCount(g) \in Nat BY TakenFinite
<1>3. HitCount(g) <= HitCount(h) BY <1>1, <1>2, FS_Subset DEF HitCount
<1>4. MaxHit \in Nat BY DEF DesktopSound
<1> QED BY <1>1, <1>2, <1>3, <1>4

\* One turn of the input keeps it, whatever the desktop became, when the
\* areas that go are those of windows that went.
LEMMA TurnKeeps ==
  ASSUME DesktopSound, DeskInv, NEW d, Ordered(d), NEW focus \in 0 .. MaxWin, Turn(d, focus),
         pointer' \in Pointers, dragging' \in 0 .. MaxWin,
         hits' \in [Windows -> Hits],
         \A i \in Windows : hits'[i] # hits[i] => hits'[i] = NoHit /\ ~d.wins[i].used,
         \A i \in Windows : wins[i].used /\ hits'[i] # NoHit => d.wins[i].used /\ d.wins[i].app = wins[i].app
  PROVE  DeskInv'
<1> DEFINE old == Picture(Now)
           new == Picture(d)
           F == After(dirty, Now, d, focus)
<1>1. /\ wins' = d.wins /\ z' = d.z /\ dirty' = F /\ drawn' = drawn
      /\ stale' = stale
              \cup {c \in DOMAIN new : old[c] # new[c] \/ (new[c] # <<>> /\ new[c][1] = focus)}
              \cup (IF Buttons(d) # Buttons(Now) THEN Panel ELSE {}) BY DEF Turn
<1>2. Now' = d
  <2>1. d = [wins |-> d.wins, z |-> d.z] BY DEF Ordered
  <2> QED BY <1>1, <2>1 DEF Now
<1>3. Ordered(Now) /\ Sound(Now) /\ Sound(d) /\ Kept(dirty) /\ MaxWin \in Nat /\ Now.wins = wins
  BY OrderedSound DEF DeskInv, DesktopSound, Now
<1>4. /\ Kept(F) /\ More(dirty, F)
      /\ \A i \in Windows : Moved(Now, d, i) \/ i = focus =>
              HasWindow(F, Now.wins[i]) /\ HasWindow(F, d.wins[i])
      /\ (\E i \in Windows : Moved(Now, d, i)) => Has(F, OnScreen(PanelRect)) BY <1>3, AfterKeeps
<1> HIDE DEF F
<1>5. \A i \in Windows :
        /\ Visible(wins[i]) => Shown(RectOf(wins[i])) /\ Numbers(RectOf(wins[i]))
        /\ Visible(d.wins[i]) => Shown(RectOf(d.wins[i])) /\ Numbers(RectOf(d.wins[i])) BY <1>3 DEF Sound, Shown
<1>6. ASSUME NEW c \in stale' PROVE c \in Cells /\ Covered(F, c)
  <2>1. CASE c \in stale
    <3>1. c \in Cells /\ Covered(dirty, c) BY <2>1 DEF DeskInv
    <3> QED BY <1>3, <1>4, <3>1, MoreCovers
  <2>2. CASE c \in DOMAIN new /\ old[c] # new[c]
    <3>1. c \in Cells \ Panel BY <2>2 DEF Picture
    <3>2. PICK i \in Windows :
            /\ Moved(Now, d, i)
            /\ \/ Visible(Now.wins[i]) /\ InRect(c, RectOf(Now.wins[i]))
               \/ Visible(d.wins[i]) /\ InRect(c, RectOf(d.wins[i]))
      <4> HIDE DEF Picture
      <4> QED BY <1>3, <2>2, <3>1, PictureStays
    <3>3. HasWindow(F, wins[i]) /\ HasWindow(F, d.wins[i]) BY <1>3, <1>4, <3>2
    <3> QED BY <1>3, <1>4, <1>5, <3>1, <3>2, <3>3, HasIsDue
  <2>3. CASE c \in DOMAIN new /\ new[c] # <<>> /\ new[c][1] = focus
    <3>1. c \in Cells /\ At(d, c) # 0 /\ At(d, c) = focus BY <2>3 DEF Picture
    <3>2. focus \in Windows /\ Visible(d.wins[focus]) /\ InRect(c, RectOf(d.wins[focus])) BY <3>1, AtIsShown
    <3>3. HasWindow(F, d.wins[focus]) BY <1>4, <3>2
    <3> QED BY <1>4, <1>5, <3>1, <3>2, <3>3, HasIsDue
  <2>4. CASE c \in Panel /\ Buttons(d) # Buttons(Now)
    <3>1. \E i \in Windows : Moved(Now, d, i) BY <1>3, <2>4, ButtonsStay
    <3> QED BY <1>4, <2>4, <3>1, PanelIsCovered
  <2> HIDE DEF old, new
  <2> QED BY <1>1, <2>1, <2>2, <2>3, <2>4
<1>7. ASSUME NEW i \in Windows, hits'[i] # NoHit PROVE d.wins[i].used /\ Belongs(hits'[i], d.wins[i])
  <2>1. hits'[i] = hits[i] BY <1>7
  <2>2. wins[i].used /\ Belongs(hits[i], wins[i]) BY <1>7, <2>1 DEF DeskInv
  <2> QED BY <1>7, <2>1, <2>2 DEF Belongs
<1>8. ASSUME NEW i \in Windows, Visible(d.wins[i]) PROVE Current(hits'[i], d.wins[i]) \/ Due(F, d.wins[i])
  <2>1. CASE Moved(Now, d, i)
    <3>1. HasWindow(F, d.wins[i]) BY <1>4, <2>1
    <3> QED BY <1>4, <1>5, <1>8, <3>1, HasIsDue
  <2>2. CASE ~Moved(Now, d, i)
    <3>1. d.wins[i] = wins[i] BY <1>3, <2>2 DEF Moved
    <3>2. hits'[i] = hits[i] BY <1>8 DEF Visible
    <3>3. Current(hits[i], wins[i]) \/ Due(dirty, wins[i]) BY <1>8, <3>1 DEF DeskInv
    <3>4. Due(dirty, wins[i]) => Due(F, wins[i]) BY <1>3, <1>4, <1>5, <1>8, <3>1, MoreCovers
    <3> QED BY <3>1, <3>2, <3>3, <3>4
  <2> QED BY <2>1, <2>2
<1>9. drawn' \in Pointers BY <1>1 DEF DeskInv
<1>10. Kept(dirty)' /\ \A c \in stale' : c \in Cells /\ Covered(dirty', c) BY <1>1, <1>4, <1>6
<1>11. Ordered(Now') BY <1>2
<1>12. HitCount(hits') <= MaxHit
  <2>1. hits \in [Windows -> Hits] /\ HitCount(hits) <= MaxHit BY DEF DeskInv
  <2> QED BY <2>1, FewerHits
<1> QED BY <1>1, <1>7, <1>8, <1>9, <1>10, <1>11, <1>12 DEF DeskInv

\* The same for a turn that keeps every window it had.
LEMMA InputKeeps ==
  ASSUME DesktopSound, DeskInv, NEW d, Ordered(d), NEW focus \in 0 .. MaxWin, Turn(d, focus),
         pointer' \in Pointers, dragging' \in 0 .. MaxWin, UNCHANGED hits,
         \A i \in Windows : wins[i].used => d.wins[i].used /\ d.wins[i].app = wins[i].app
  PROVE  DeskInv'
<1>1. hits' = hits /\ hits \in [Windows -> Hits] BY DEF DeskInv
<1> QED BY <1>1, TurnKeeps

LEMMA CloseStep ==
  ASSUME DesktopSound, DeskInv, NEW id \in Windows, CloseWindow(id), pointer' \in Pointers
  PROVE  DeskInv'
<1> DEFINE d == Close(Now, id)
<1>1. Turn(d, 0) /\ hits' = [hits EXCEPT ![id] = NoHit] /\ dragging' = dragging BY DEF CloseWindow
<1>2. Ordered(d) /\ ~d.wins[id].used /\ \A i \in Windows : i # id => d.wins[i] = wins[i]
  <2>1. Ordered(Now) /\ Now.wins = wins BY DEF DeskInv, Now
  <2> QED BY <2>1, CloseKeeps
<1> HIDE DEF d
<1>3. hits \in [Windows -> Hits] /\ dragging' \in 0 .. MaxWin BY <1>1 DEF DeskInv
<1>4. NoHit \in Hits BY DEF NoHit, Hits
<1>5. /\ hits' \in [Windows -> Hits]
      /\ \A i \in Windows : hits'[i] = IF i = id THEN NoHit ELSE hits[i] BY <1>1, <1>3, <1>4
<1>6. 0 \in 0 .. MaxWin BY DEF DesktopSound
<1> QED BY <1>1, <1>2, <1>3, <1>5, <1>6, TurnKeeps

LEMMA WinIds == ASSUME DesktopSound PROVE /\ \A id \in Windows : id \in 0 .. MaxWin
                                          /\ \A id \in 0 .. MaxWin : id # 0 => id \in Windows
                                          /\ 0 \in 0 .. MaxWin BY DEF DesktopSound, Windows

\* The input actions.
LEMMA KeysStep ==
  ASSUME DesktopSound, DeskInv, Key \/ Escape
  PROVE  DeskInv'
<1>1. Ordered(Now) /\ Now.wins = wins /\ pointer' \in Pointers BY DEF DeskInv, Now, Key, Escape, AtKeys
<1>2. Top(Now) # 0 /\ Top(Now) \in Windows /\ Top(Now) \in 0 .. MaxWin BY <1>1, TopIsWindow, WinIds DEF Key, Escape
<1>3. CASE Key
  <2>1. Turn(Now, Top(Now)) /\ UNCHANGED hits /\ dragging' \in 0 .. MaxWin BY <1>3 DEF Key, Keep, DeskInv
  <2> QED BY <1>1, <1>2, <2>1, InputKeeps
<1>4. CASE Escape BY <1>1, <1>2, <1>4, CloseStep DEF Escape
<1> QED BY <1>3, <1>4

LEMMA ClickStep ==
  ASSUME DesktopSound, DeskInv, NEW id \in Windows, InWindow(id)
  PROVE  DeskInv'
<1>1. Ordered(Now) /\ Now.wins = wins /\ pointer' \in Pointers /\ id \in 0 .. MaxWin /\ dragging \in 0 .. MaxWin
  BY WinIds DEF DeskInv, Now, InWindow, ClickClose, ClickMinimize, ClickTitle, ClickInside, Taskbar, Clicked, AtMouse
<1> DEFINE Same(e) == \A i \in Windows : e.wins[i].used = wins[i].used /\ e.wins[i].app = wins[i].app
<1>2. ASSUME NEW b \in BOOLEAN
      PROVE  LET e == [Now EXCEPT !.wins[id].min = b] IN
             Ordered(e) /\ Same(e) /\ Ordered(Raise(e, id)) /\ Same(Raise(e, id))
  <2> DEFINE e == [Now EXCEPT !.wins[id].min = b]
  <2>1. Ordered(e) /\ Same(e) BY <1>1, MinKeeps
  <2> HIDE DEF e
  <2>2. Ordered(Raise(e, id)) /\ Raise(e, id).wins = e.wins BY <2>1, RaiseKeeps
  <2>3. Same(Raise(e, id)) BY <2>1, <2>2
  <2> QED BY <2>1, <2>2, <2>3 DEF e
<1>3. Ordered(Raise(Now, id)) /\ Same(Raise(Now, id))
  <2>1. Ordered(Raise(Now, id)) /\ Raise(Now, id).wins = wins BY <1>1, RaiseKeeps
  <2> QED BY <2>1
<1>4. CASE ClickClose(id) BY <1>1, <1>4, CloseStep DEF ClickClose
<1>5. CASE ClickMinimize(id)
  <2> DEFINE e == [Now EXCEPT !.wins[id].min = TRUE]
  <2>1. Turn(Raise(e, id), id) /\ UNCHANGED <<hits, dragging>> BY <1>5 DEF ClickMinimize, Keep
  <2>2. Ordered(Raise(e, id)) /\ Same(Raise(e, id)) BY <1>2
  <2> HIDE DEF e
  <2> QED BY <1>1, <2>1, <2>2, InputKeeps
<1>6. CASE ClickTitle(id)
  <2>1. Turn(Raise(Now, id), id) /\ UNCHANGED hits /\ dragging' = id BY <1>6 DEF ClickTitle
  <2> QED BY <1>1, <1>3, <2>1, InputKeeps
<1>7. CASE ClickInside(id)
  <2>1. Turn(Raise(Now, id), id) /\ UNCHANGED <<hits, dragging>> BY <1>7 DEF ClickInside, Keep
  <2> QED BY <1>1, <1>3, <2>1, InputKeeps
<1>8. CASE Taskbar(id)
  <2> DEFINE e == [Now EXCEPT !.wins[id].min = TRUE]
             u == [Now EXCEPT !.wins[id].min = FALSE]
             d == IF id = Top(Now) THEN e ELSE Raise(u, id)
  <2>1. Turn(d, 0) /\ UNCHANGED <<hits, dragging>> BY <1>8 DEF Taskbar, Keep
  <2>2. Ordered(e) /\ Same(e) BY <1>2
  <2>3. Ordered(Raise(u, id)) /\ Same(Raise(u, id)) BY <1>2
  <2> HIDE DEF e, u
  <2>4. Ordered(d) /\ Same(d) BY <2>2, <2>3
  <2> HIDE DEF d
  <2> QED BY <1>1, <2>1, <2>4, WinIds, InputKeeps
<1> QED BY <1>4, <1>5, <1>6, <1>7, <1>8 DEF InWindow

LEMMA OpenStep ==
  ASSUME DesktopSound, DeskInv, NEW app \in Apps, Open(app)
  PROVE  DeskInv'
<1> DEFINE d == OpenApp(Now, app)
<1>1. Ordered(Now) /\ Now.wins = wins /\ pointer' \in Pointers /\ dragging' \in 0 .. MaxWin
      /\ UNCHANGED hits /\ Turn(d, 0) BY DEF DeskInv, Now, Open, AtMouse, Keep
<1>2. Ordered(d) /\ \A i \in Windows : wins[i].used => d.wins[i].used /\ d.wins[i].app = wins[i].app
  BY <1>1, OpenAppKeeps
<1> HIDE DEF d
<1> QED BY <1>1, <1>2, WinIds, InputKeeps

LEMMA DragStep ==
  ASSUME DesktopSound, DeskInv, Drag
  PROVE  DeskInv'
<1>1. Ordered(Now) /\ Now.wins = wins /\ pointer' \in Pointers /\ dragging' \in 0 .. MaxWin
      /\ UNCHANGED hits /\ dragging \in Windows /\ wins[dragging].used /\ dragging \in 0 .. MaxWin
  BY WinIds DEF DeskInv, Now, Drag, AtMouse, Keep
<1>2. PICK p \in Places : Turn([Now EXCEPT !.wins[dragging].x = p[1], !.wins[dragging].y = p[2]], dragging)
  BY Zenon DEF Drag
<1> DEFINE d == [Now EXCEPT !.wins[dragging].x = p[1], !.wins[dragging].y = p[2]]
<1>4. Turn(d, dragging) BY <1>2
<1>5. Ordered(Now) /\ dragging \in Windows /\ Now.wins[dragging].used BY <1>1
<1>6. Ordered(d) /\ \A i \in Windows : d.wins[i].used = Now.wins[i].used /\ d.wins[i].app = Now.wins[i].app
  BY <1>5, PlaceKeeps, Zenon
<1> HIDE DEF d
<1>3. Ordered(d) /\ \A i \in Windows : d.wins[i].used = wins[i].used /\ d.wins[i].app = wins[i].app BY <1>1, <1>6
<1> QED BY <1>1, <1>3, <1>4, InputKeeps

\* The list while the windows are drawn: what is left in it is of windows in
\* sight, so that it holds no more than they can ask for.
Fine(h) ==
    /\ h \in [Windows -> Hits] /\ HitCount(h) <= MaxHit
    /\ \A i \in Windows : h[i] = NoHit \/ (Visible(wins[i]) /\ Belongs(h[i], wins[i]))

LEMMA FineIsPossible ==
  ASSUME DesktopSound, Ordered(Now), NEW h, Fine(h)
  PROVE  Taken(h) \subseteq Possible /\ IsFiniteSet(Possible) /\ Cardinality(Possible) \in Nat
<1> DEFINE W == {j \in Windows : Visible(wins[j])}
           f == [i \in W |-> Areas[wins[i].app].most]
<1>1. \A i \in W : f[i] \in Nat /\ f[i] = Areas[wins[i].app].most
  <2>1. \A i \in W : wins[i].app \in Apps BY DEF Ordered, Now, Visible
  <2> QED BY <2>1 DEF DesktopSound
<1>2. W \in SUBSET Windows OBVIOUS
<1>3. Possible = UNION {{i} \X (1 .. Areas[wins[i].app].most) : i \in W} BY DEF Possible
<1> HIDE DEF f, W
<1>4. IsFiniteSet(UNION {{i} \X (1 .. f[i]) : i \in W}) BY <1>1, <1>2, ColumnsFinite
<1>5. Possible = UNION {{i} \X (1 .. f[i]) : i \in W} BY <1>1, <1>3
<1>6. IsFiniteSet(Possible) BY <1>4, <1>5
<1>7. ASSUME NEW i \in Windows, NEW k \in 1 .. h[i].n PROVE <<i, k>> \in Possible
  <2>1. h[i] # NoHit BY DEF NoHit
  <2>2. i \in W /\ h[i].n <= Areas[wins[i].app].most /\ h[i].n \in Nat BY <2>1 DEF Fine, Belongs, W, Hits
  <2>3. k \in 1 .. f[i] BY <1>1, <2>2
  <2> QED BY <1>5, <2>2, <2>3
<1>8. Taken(h) \subseteq Possible BY <1>7 DEF Taken
<1> QED BY <1>6, <1>8, FS_CardinalityType

\* One window gives its areas back and adds them anew.
LEMMA DrawKeeps ==
  ASSUME DesktopSound, Ordered(Now), NEW h, Fine(h), NEW i \in Windows, Visible(wins[i]),
         NEW n \in Nat, n <= Areas[wins[i].app].most
  PROVE  LET G == Draw(h, i, n) IN
         /\ Fine(G) /\ Current(G[i], wins[i])
         /\ \A j \in Windows : j # i => G[j] = h[j]
<1> DEFINE g == [h EXCEPT ![i] = NoHit]
           m == Lesser(n, MaxHit - HitCount(g))
           v == [app |-> wins[i].app, x |-> wins[i].x, y |-> wins[i].y,
                 n |-> m, of |-> n, crowded |-> Cardinality(Possible) > MaxHit]
           G == Draw(h, i, n)
<1>1. h \in [Windows -> Hits] /\ HitCount(h) <= MaxHit /\ NoHit \in Hits BY DEF Fine, NoHit, Hits
<1>2. G = [g EXCEPT ![i] = v] BY DEF Draw
<1>3. g \in [Windows -> Hits] /\ g[i] = NoHit /\ \A j \in Windows : j # i => g[j] = h[j] BY <1>1
<1> HIDE DEF G, v, g
<1>4. HitCount(g) <= MaxHit /\ HitCount(g) \in Nat /\ IsFiniteSet(Taken(g)) /\ MaxHit \in Nat
  BY <1>1, <1>3, FewerHits, TakenFinite DEF DesktopSound
<1>5. m \in Nat /\ m <= n /\ m <= MaxHit - HitCount(g) /\ (m # n => m = MaxHit - HitCount(g) /\ m < n)
  BY <1>4 DEF Lesser
<1>6. Fine(g) BY <1>3, <1>4 DEF Fine
<1>7. Taken(g) \subseteq Possible /\ IsFiniteSet(Possible) /\ Cardinality(Possible) \in Nat BY <1>6, FineIsPossible
<1>8. ASSUME NEW k \in Nat
      PROVE  /\ IsFiniteSet(Taken(g) \cup ({i} \X (1 .. k)))
             /\ Cardinality(Taken(g) \cup ({i} \X (1 .. k))) = HitCount(g) + k
  <2> DEFINE C == {i} \X (1 .. k)
  <2>1. IsFiniteSet(C) /\ Cardinality(C) = k
    <3>1. IsFiniteSet({i}) /\ Cardinality({i}) = 1 BY FS_Singleton
    <3>2. IsFiniteSet(1 .. k) /\ Cardinality(1 .. k) = k BY FS_Interval
    <3> DEFINE A == {i}
               B == 1 .. k
    <3>3. IsFiniteSet(A) /\ Cardinality(A) = 1 /\ IsFiniteSet(B) /\ Cardinality(B) = k BY <3>1, <3>2
    <3> HIDE DEF A, B
    <3>4. IsFiniteSet(A \X B) /\ Cardinality(A \X B) = Cardinality(A) * Cardinality(B) BY <3>3, FS_Product
    <3> QED BY <3>3, <3>4 DEF A, B
  <2>2. Taken(g) \cap C = {} BY <1>3 DEF Taken, NoHit
  <2> HIDE DEF C
  <2>3. Cardinality({}) = 0 BY FS_EmptySet
  <2>4. IsFiniteSet(Taken(g) \cup C) /\ Cardinality(Taken(g) \cup C) = HitCount(g) + k
    BY <1>4, <2>1, <2>2, <2>3, FS_Union DEF HitCount
  <2> QED BY <2>4 DEF C
<1>9. m = n \/ Cardinality(Possible) > MaxHit
  <2> SUFFICES ASSUME m # n PROVE Cardinality(Possible) > MaxHit OBVIOUS
  <2> DEFINE C == Taken(g) \cup ({i} \X (1 .. n))
  <2>1. Areas[wins[i].app].most \in Nat BY DEF Ordered, Now, Visible, DesktopSound
  <2>2. {i} \X (1 .. n) \subseteq {i} \X (1 .. Areas[wins[i].app].most) BY <2>1
  <2>3. {i} \X (1 .. Areas[wins[i].app].most) \subseteq Possible BY DEF Possible
  <2>4. C \subseteq Possible BY <1>7, <2>2, <2>3
  <2>5. Cardinality(C) = HitCount(g) + n BY <1>8
  <2> HIDE DEF C
  <2>6. Cardinality(C) <= Cardinality(Possible) BY <1>7, <2>4, FS_Subset
  <2> QED BY <1>4, <1>5, <1>7, <2>5, <2>6
<1>10. wins[i].app \in Apps /\ wins[i] \in Window BY DEF Ordered, Now, Visible
<1> HIDE DEF m
<1>11. v \in Hits
  <2>1. /\ v.n = m /\ v.of = n /\ v.crowded = (Cardinality(Possible) > MaxHit)
        /\ v \in [app : Apps \cup {NoApp}, x : Int, y : Int, n : Nat, of : Nat, crowded : BOOLEAN]
    BY <1>5, <1>10 DEF v, Window
  <2> QED BY <1>9, <2>1 DEF Hits
<1>12. G \in [Windows -> Hits] /\ G[i] = v /\ \A j \in Windows : j # i => G[j] = g[j] BY <1>2, <1>3, <1>11
<1>13. Belongs(v, wins[i]) /\ Current(v, wins[i]) /\ v.n = m BY <1>5, <1>10 DEF v, Belongs, Current, DesktopSound
<1>14. Taken(G) = Taken(g) \cup ({i} \X (1 .. m))
  <2>1. \A j \in Windows : 1 .. G[j].n = IF j = i THEN 1 .. m ELSE 1 .. g[j].n BY <1>12, <1>13
  <2>2. 1 .. g[i].n = {} BY <1>3 DEF NoHit
  <2>3. \A x : x \in Taken(G) <=> x \in Taken(g) \/ x \in {i} \X (1 .. m)
    <3> TAKE x
    <3>1. x \in Taken(G) <=> \E j \in Windows : \E k \in 1 .. G[j].n : x = <<j, k>> BY DEF Taken
    <3>2. x \in Taken(g) <=> \E j \in Windows : \E k \in 1 .. g[j].n : x = <<j, k>> BY DEF Taken
    <3>3. x \in {i} \X (1 .. m) <=> \E k \in 1 .. m : x = <<i, k>> OBVIOUS
    <3> QED BY <2>1, <2>2, <3>1, <3>2, <3>3
  <2> QED BY <2>3
<1>15. HitCount(G) <= MaxHit
  <2>1. Cardinality(Taken(g) \cup ({i} \X (1 .. m))) = HitCount(g) + m BY <1>5, <1>8
  <2>2. HitCount(G) = HitCount(g) + m BY <1>14, <2>1 DEF HitCount
  <2> QED BY <1>4, <1>5, <2>2
<1>16. Fine(G) BY <1>6, <1>12, <1>13, <1>15 DEF Fine
<1>17. Fine(G) /\ Current(G[i], wins[i]) /\ \A j \in Windows : j # i => G[j] = h[j] BY <1>3, <1>12, <1>13, <1>16
<1> QED BY <1>17 DEF G

\* The windows drawn one after the other.
Drawn(D, asked, n, f) ==
    f = [k \in 0 .. n |->
            IF k = 0 THEN Left(D)
            ELSE IF Redrawn(D, wins[z[k]]) THEN Draw(f[k - 1], z[k], asked[z[k]])
            ELSE f[k - 1]]
LEMMA HitsAreDrawn ==
  ASSUME Len(z) \in Nat, NEW D, NEW asked
  PROVE  \E f : Drawn(D, asked, Len(z), f) /\ HitsAfter(D, asked) = f[Len(z)]
<1> DEFINE Round(a, k) == IF Redrawn(D, wins[z[k]]) THEN Draw(a, z[k], asked[z[k]]) ELSE a
           K == {m \in 0 .. Len(z) : \E f : Drawn(D, asked, m, f)}
<1>1. 0 \in K
  <2> DEFINE f == [m \in 0 .. 0 |-> Left(D)]
  <2>1. Drawn(D, asked, 0, f) BY DEF Drawn
  <2> QED BY <2>1
<1>2. ASSUME NEW k \in 1 .. Len(z), k - 1 \in K PROVE k \in K
  <2>1. PICK g : Drawn(D, asked, k - 1, g) BY <1>2
  <2> DEFINE G == [m \in 0 .. k |-> IF m = k THEN Round(g[k - 1], k) ELSE g[m]]
  <2>2. \A m \in 0 .. k - 1 : g[m] = IF m = 0 THEN Left(D) ELSE Round(g[m - 1], m)
    <3>1. g = [m \in 0 .. k - 1 |-> IF m = 0 THEN Left(D) ELSE Round(g[m - 1], m)] BY <2>1 DEF Drawn
    <3> HIDE DEF Round
    <3> QED BY <3>1, Zenon
  <2> HIDE DEF Round
  <2>3. \A m \in 0 .. k - 1 : G[m] = g[m] OBVIOUS
  <2>4. G[k] = Round(G[k - 1], k) BY <2>3
  <2>5. G = [m \in 0 .. k |-> G[m]] OBVIOUS
  <2> HIDE DEF G, K
  <2>6. \A m \in 0 .. k : G[m] = IF m = 0 THEN Left(D) ELSE Round(G[m - 1], m)
    <3>1. ASSUME NEW m \in 0 .. k - 1, m # 0 PROVE m - 1 \in 0 .. k - 1 BY <3>1
    <3>2. ASSUME NEW m \in 0 .. k - 1 PROVE G[m] = IF m = 0 THEN Left(D) ELSE Round(G[m - 1], m) BY <2>2, <2>3, <3>1
    <3> QED BY <2>4, <3>2
  <2>7. Drawn(D, asked, k, G) BY <2>5, <2>6 DEF Drawn, Round
  <2> QED BY <2>7 DEF K
<1> HIDE DEF K
<1>3. \A k \in 1 .. Len(z) : k - 1 \in K => k \in K BY <1>2
<1>4. \A k \in 0 .. Len(z) : k \in K BY <1>1, <1>3, Rises
<1>5. \E f : Drawn(D, asked, Len(z), f) BY <1>4 DEF K
<1> QED BY <1>5, Zenon DEF HitsAfter, Drawn

LEMMA HitsDrawn ==
  ASSUME DesktopSound, Ordered(Now), NEW D, Fine(Left(D)), NEW asked \in Asked
  PROVE  LET h == HitsAfter(D, asked) IN
         /\ Fine(h)
         /\ \A i \in Windows : IF Redrawn(D, wins[i]) THEN Current(h[i], wins[i]) ELSE h[i] = Left(D)[i]
<1>1. Len(z) \in Nat /\ (\A k \in 1 .. Len(z) : z[k] \in Windows)
      /\ (\A i \in Windows : Visible(wins[i]) => \E k \in 1 .. Len(z) : z[k] = i)
      /\ (\A j, k \in 1 .. Len(z) : z[j] = z[k] => j = k) BY DEF Ordered, Now, Visible
<1>2. PICK f : Drawn(D, asked, Len(z), f) /\ HitsAfter(D, asked) = f[Len(z)] BY <1>1, HitsAreDrawn
<1> DEFINE Round(a, k) == IF Redrawn(D, wins[z[k]]) THEN Draw(a, z[k], asked[z[k]]) ELSE a
           Done(k) ==
             /\ Fine(f[k])
             /\ \A i \in Windows :
                   IF Redrawn(D, wins[i]) /\ \E j \in 1 .. k : z[j] = i
                   THEN Current(f[k][i], wins[i]) ELSE f[k][i] = Left(D)[i]
           K == {k \in 0 .. Len(z) : Done(k)}
<1>3. \A k \in 0 .. Len(z) : f[k] = IF k = 0 THEN Left(D) ELSE Round(f[k - 1], k)
  <2>1. f = [k \in 0 .. Len(z) |-> IF k = 0 THEN Left(D) ELSE Round(f[k - 1], k)] BY <1>2 DEF Drawn
  <2> HIDE DEF Round
  <2> QED BY <2>1, Zenon
<1>4. 0 \in K
  <2>1. f[0] = Left(D)
    <3> HIDE DEF Round
    <3> QED BY <1>1, <1>3
  <2> QED BY <1>1, <2>1
<1>5. ASSUME NEW k \in 1 .. Len(z), k - 1 \in K PROVE k \in K
  <2>1. k \in 0 .. Len(z) /\ k # 0 /\ k - 1 \in 0 .. Len(z) /\ Done(k - 1) /\ z[k] \in Windows BY <1>1, <1>5
  <2>2. f[k] = Round(f[k - 1], k)
    <3> HIDE DEF Round, Done
    <3> QED BY <1>3, <2>1
  <2>3. \A j \in 1 .. k : j = k \/ j \in 1 .. k - 1 OBVIOUS
  <2>4. 1 .. k - 1 \subseteq 1 .. k OBVIOUS
  <2>5. CASE ~Redrawn(D, wins[z[k]])
    <3>1. f[k] = f[k - 1] BY <2>2, <2>5
    <3>2. \A i \in Windows : Redrawn(D, wins[i]) =>
            ((\E j \in 1 .. k : z[j] = i) <=> \E j \in 1 .. k - 1 : z[j] = i) BY <2>3, <2>4, <2>5
    <3>3. Done(k) BY <2>1, <3>1, <3>2
    <3> QED BY <2>1, <3>3
  <2>6. CASE Redrawn(D, wins[z[k]])
    <3>1. f[k] = Draw(f[k - 1], z[k], asked[z[k]]) BY <2>2, <2>6
    <3>2. Visible(wins[z[k]]) BY <2>6 DEF Redrawn
    <3>3. asked[z[k]] \in Nat /\ asked[z[k]] <= Areas[wins[z[k]].app].most
      <4>1. asked[z[k]] \in Areas[wins[z[k]].app].least .. Areas[wins[z[k]].app].most BY <2>1, <3>2 DEF Asked, Asks
      <4>2. Areas[wins[z[k]].app].least \in Nat /\ Areas[wins[z[k]].app].most \in Nat
        BY <2>1, <3>2 DEF Ordered, Now, Visible, DesktopSound
      <4> QED BY <4>1, <4>2
    <3>4. Fine(f[k - 1]) BY <2>1
    <3>5. /\ Fine(f[k]) /\ Current(f[k][z[k]], wins[z[k]])
          /\ \A j \in Windows : j # z[k] => f[k][j] = f[k - 1][j] BY <2>1, <3>1, <3>2, <3>3, <3>4, DrawKeeps
    <3>6. \A i \in Windows : i # z[k] =>
            ((\E j \in 1 .. k : z[j] = i) <=> \E j \in 1 .. k - 1 : z[j] = i) BY <2>3, <2>4
    <3>7. \E j \in 1 .. k : z[j] = z[k] OBVIOUS
    <3>8. Done(k) BY <2>1, <2>6, <3>5, <3>6, <3>7
    <3> QED BY <2>1, <3>8
  <2> QED BY <2>5, <2>6
<1> HIDE DEF K
<1>6. \A k \in 1 .. Len(z) : k - 1 \in K => k \in K BY <1>5
<1>7. Len(z) \in K
  <2>1. \A k \in 0 .. Len(z) : k \in K BY <1>1, <1>4, <1>6, Rises
  <2> QED BY <1>1, <2>1
<1>8. Done(Len(z)) BY <1>7 DEF K
<1>9. \A i \in Windows : Redrawn(D, wins[i]) => \E j \in 1 .. Len(z) : z[j] = i BY <1>1 DEF Redrawn
<1> QED BY <1>2, <1>8, <1>9

\* What is drawn is what was due.
LEMMA FrameStep ==
  ASSUME DesktopSound, DeskInv, NEW due \in BOOLEAN, FrameEnds(due)
  PROVE  DeskInv'
<1> DEFINE D == Damaged(due)
<1>0. Ordered(Now) /\ Sound(Now) /\ Kept(dirty) /\ pointer \in Pointers /\ drawn \in Pointers
      /\ Now.wins = wins /\ wins \in [Windows -> Window]
  <2>1. Ordered(Now) /\ Now.wins = wins BY DEF DeskInv, Now
  <2> QED BY <2>1, OrderedSound DEF DeskInv, Ordered
<1>1. Kept(D) /\ More(dirty, D) BY <1>0, DamagedKeeps
<1>2. pointer' = pointer /\ (Render(D) \/ UNCHANGED <<wins, z, dragging, dirty, stale, hits, drawn>>) BY DEF FrameEnds
<1> HIDE DEF D
<1>3. CASE UNCHANGED <<wins, z, dragging, dirty, stale, hits, drawn>> BY <1>2, <1>3 DEF DeskInv, Now
<1>4. CASE Render(D)
  <2>1. /\ stale' = {c \in stale : ~D.all /\ \A r \in D.rects : ~InRect(c, r)}
        /\ dirty' = [rects |-> {}, all |-> FALSE] /\ drawn' = pointer
        /\ wins' = wins /\ z' = z /\ dragging' = dragging BY <1>4 DEF Render
  <2>2. stale' = {}
    <3> SUFFICES ASSUME NEW c \in stale PROVE Covered(D, c) BY <2>1 DEF Covered
    <3>1. c \in Cells /\ Covered(dirty, c) BY DEF DeskInv
    <3> QED BY <1>0, <1>1, <3>1, MoreCovers
  <2>3. PICK asked \in Asked : hits' = HitsAfter(D, asked) BY <1>4 DEF Render
  <2>4. hits \in [Windows -> Hits] /\ HitCount(hits) <= MaxHit /\ NoHit \in Hits BY DEF DeskInv, NoHit, Hits
  <2>5. /\ Left(D) \in [Windows -> Hits]
        /\ \A i \in Windows : Left(D)[i] = IF D.all \/ ~Visible(wins[i]) THEN NoHit ELSE hits[i] BY <2>4 DEF Left
  <2>6. HitCount(Left(D)) <= MaxHit
    <3>1. \A i \in Windows : Left(D)[i] # hits[i] => Left(D)[i] = NoHit BY <2>5
    <3> QED BY <2>4, <2>5, <3>1, FewerHits
  <2>7. \A i \in Windows : Left(D)[i] = NoHit \/ (Visible(wins[i]) /\ Belongs(Left(D)[i], wins[i]))
    BY <2>5 DEF DeskInv
  <2>8. /\ Fine(hits')
        /\ \A i \in Windows : IF Redrawn(D, wins[i]) THEN Current(hits'[i], wins[i]) ELSE hits'[i] = Left(D)[i]
    <3>1. Fine(Left(D)) BY <2>5, <2>6, <2>7 DEF Fine
    <3> QED BY <1>0, <2>3, <3>1, HitsDrawn
  <2>9. \A i \in Windows : Visible(wins[i]) => Current(hits'[i], wins[i])
    <3> SUFFICES ASSUME NEW i \in Windows, Visible(wins[i]), ~Redrawn(D, wins[i])
                 PROVE  Current(hits'[i], wins[i]) BY <2>8
    <3>1. Current(hits[i], wins[i]) \/ Due(dirty, wins[i]) BY DEF DeskInv
    <3>2. Numbers(RectOf(wins[i])) BY <1>0 DEF Sound, Shown
    <3>3. ~D.all /\ ~Due(D, wins[i]) BY DEF Redrawn, Due
    <3>4. ~Due(dirty, wins[i]) BY <1>0, <1>1, <3>2, <3>3, MoreCovers
    <3>5. hits'[i] = hits[i] BY <2>5, <2>8, <3>3
    <3> QED BY <3>1, <3>4, <3>5
  <2>10. Kept(dirty')
    <3>1. IsFiniteSet({}) BY FS_EmptySet
    <3> QED BY <2>1, <3>1 DEF Kept
  <2>11. Now' = Now BY <2>1 DEF Now
  <2>12. drawn' \in Pointers /\ pointer' \in Pointers /\ dragging' \in 0 .. MaxWin BY <1>0, <1>2, <2>1 DEF DeskInv
  <2>13. Ordered(Now') BY <1>0, <2>11
  <2>14. \A i \in Windows : hits'[i] # NoHit => wins'[i].used /\ Belongs(hits'[i], wins'[i])
    BY <2>1, <2>8 DEF Fine, Visible
  <2>15. hits' \in [Windows -> Hits] /\ HitCount(hits') <= MaxHit BY <2>8 DEF Fine
  <2> QED BY <2>1, <2>2, <2>9, <2>10, <2>12, <2>13, <2>14, <2>15 DEF DeskInv
<1> QED BY <1>2, <1>3, <1>4

LEMMA DeskInvStarts == ASSUME DesktopSound, DeskInit PROVE DeskInv
<1> DEFINE v == [used |-> FALSE, app |-> NoApp, min |-> FALSE, x |-> 0, y |-> 0]
<1>1. wins = [i \in Windows |-> v] /\ z = <<>> /\ v \in Window BY DEF DeskInit, Window
<1>2. ~v.used OBVIOUS
<1> HIDE DEF v
<1>3. Ordered(Now)
  <2>1. Now.wins = wins /\ Now.z = <<>> /\ Len(<<>>) = 0 /\ <<>> \in Seq(Windows) BY <1>1 DEF Now
  <2>2. Now \in [wins : [Windows -> Window], z : Seq(Windows)] BY <1>1, <2>1 DEF Now
  <2>3. \A i \in Windows : ~Now.wins[i].used BY <1>1, <1>2, <2>1
  <2> QED BY <2>1, <2>2, <2>3 DEF Ordered
<1>4. Kept(dirty) /\ dirty.all
  <2>1. IsFiniteSet({}) BY FS_EmptySet
  <2> QED BY <2>1 DEF DeskInit, Everything, Kept
<1>5. NoHit \in Hits BY DEF NoHit, Hits
<1>a. hits \in [Windows -> Hits] /\ HitCount(hits) <= MaxHit
  <2>1. hits = [i \in Windows |-> NoHit] BY DEF DeskInit
  <2>2. Taken(hits) = {} BY <2>1 DEF Taken, NoHit
  <2>3. HitCount(hits) = 0 BY <2>2, FS_EmptySet DEF HitCount
  <2> QED BY <1>5, <2>1, <2>3 DEF DesktopSound
<1>6. hits = [i \in Windows |-> NoHit] /\ dragging = 0 /\ stale = Cells /\ pointer \in Pointers /\ drawn \in Pointers
  BY DEF DeskInit
<1> QED BY <1>3, <1>4, <1>5, <1>6, <1>a, WinIds DEF DeskInv, Covered, Due

LEMMA DeskInvStep == ASSUME DesktopSound, DeskInv, [DeskNext]_deskVars PROVE DeskInv'
<1>1. CASE Key \/ Escape BY <1>1, KeysStep
<1>2. CASE Rest
  <2>1. UNCHANGED <<wins, z, dragging, dirty, stale, hits, drawn>> /\ pointer' \in Pointers BY <1>2 DEF Rest, AtMouse
  <2> QED BY <2>1 DEF DeskInv, Now
<1>3. CASE Drag BY <1>3, DragStep
<1>4. CASE Release
  <2>1. UNCHANGED <<wins, z, dirty, stale, hits, drawn>> /\ pointer' \in Pointers /\ dragging' = 0
    BY <1>4 DEF Release, AtMouse
  <2> QED BY <2>1, WinIds DEF DeskInv, Now
<1>5. ASSUME NEW id \in Windows, InWindow(id) PROVE DeskInv' BY <1>5, ClickStep
<1>6. ASSUME NEW app \in Apps, Open(app) PROVE DeskInv' BY <1>6, OpenStep
<1>7. ASSUME NEW due \in BOOLEAN, FrameEnds(due) PROVE DeskInv' BY <1>7, FrameStep
<1>8. CASE UNCHANGED deskVars BY <1>8 DEF deskVars, DeskInv, Now
<1> QED BY <1>1, <1>2, <1>3, <1>4, <1>5, <1>6, <1>7, <1>8 DEF DeskNext

\* Nothing out of date is lost by the damage list (damage_add_rect,
\* gui_damage_after_input, render_damage): a cell that shows something else
\* than when it was drawn lies in a rectangle still to be redrawn, and the
\* rectangles of the list never touch, for any screen, any windows and any
\* length of the list.
THEOREM DamageNeverLost == ASSUME DesktopSound PROVE DeskSpec => []ScreenFollows
<1>1. DeskInit => DeskInv BY DeskInvStarts
<1>2. DeskInv /\ [DeskNext]_deskVars => DeskInv' BY DeskInvStep
<1>3. DeskInv => ScreenFollows BY DEF DeskInv, ScreenFollows, Kept, Covered
<1> QED BY <1>1, <1>2, <1>3, PTL DEF DeskSpec

\* A click never reaches what another application drew in the slot before
\* (win_close, hit_remove_window, hit_prune_invisible, render_damage): the
\* areas of a slot are those of the application that holds it, and when
\* nothing is left to redraw those of a window in sight are where it is.  The
\* list of MAX_HIT areas never overflows, and hit_add refuses none while the
\* windows in sight can have no more than that between them.
THEOREM HitsStayTrue == ASSUME DesktopSound PROVE DeskSpec => []HitsFollow
<1>1. DeskInit => DeskInv BY DeskInvStarts
<1>2. DeskInv /\ [DeskNext]_deskVars => DeskInv' BY DeskInvStep
<1>3. DeskInv => HitsFollow BY DEF DeskInv, HitsFollow, Due, Current, Belongs, Hits
<1> QED BY <1>1, <1>2, <1>3, PTL DEF DeskSpec
=============================================================================
