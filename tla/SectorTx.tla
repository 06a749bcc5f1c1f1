------------------------------ MODULE SectorTx ------------------------------
(***************************************************************************)
(* The undo write-ahead log of kernel/sector_tx.c on a block device with a *)
(* volatile write cache.                                                   *)
(*                                                                         *)
(* stx_begin, stx_write, stx_commit, stx_abort, stx_recover and stx_format *)
(* are split at every device command they issue, so that a power loss, a   *)
(* failed WRITE (whose effect is unknown) or a failed barrier can happen   *)
(* between any two of them.  One action is one device command together     *)
(* with the assignments up to the next one.  The caller follows fat.c: it  *)
(* fences the volume after a failed begin, abort or recovery, and a fenced *)
(* volume comes back only through a remount or a reboot.                   *)
(*                                                                         *)
(* Abstractions: a sector holds a value of Data; the CRC of a value is the *)
(* value (no collisions); the header's magic, version, identity, extents   *)
(* and CRC are its "kind": "zero" and "torn" fail them.  With Durable =    *)
(* FALSE (journal_count = 0) the log lives in RAM only.                    *)
(***************************************************************************)
EXTENDS Integers, Sequences, FiniteSets

CONSTANTS
    Targets,    \* LBAs in first .. first+count-1
    Data,       \* contents of a sector
    Torn,       \* the contents a torn write may leave behind
    STX_MAX,    \* undo records the log can hold
    Durable,    \* journal_count # 0
    HeaderTears,\* a torn journal header is among the faults
    MaxFaults   \* bound on power losses and failed device commands

ASSUME DataAssumption == Data # {} /\ Torn \subseteq Data
ASSUME StxMaxAssumption == STX_MAX \in Nat
ASSUME ModeAssumption == Durable \in BOOLEAN /\ HeaderTears \in BOOLEAN
ASSUME FaultAssumption == MaxFaults \in Nat

VARIABLES
    tgt,    \* tgt[l]: what a read of target l returns
    tposs,  \* tposs[l]: what l may hold after a power loss now
    slot,   \* backup sectors journal+1 .. journal+STX_MAX, as read
    sposs,  \* and after a power loss
    hdr,    \* the journal header, as read
    hposs,  \* and after a power loss
    log,    \* sector_tx_t: lba[i], old[i] (and crc[i]) for i < n
    active, failed, closing,  \* sector_tx_t flags
    op,     \* the call being executed
    pc,     \* its next device command, or "idle" / "unmounted"
    arg,    \* stx_write's arguments
    idx,    \* stx_abort's loop counter
    fenced, \* fat_vol_t.fenced, as the callers of stx_* set it
    faults, \* faults so far
    base,   \* history: the contents before the open transaction
    want,   \* history: base with the transaction's writes
    point   \* history: stx_commit has begun to close the log

device == <<tgt, tposs, slot, sposs, hdr, hposs>>
flags == <<active, failed, closing>>
history == <<base, want, point>>
vars == <<tgt, tposs, slot, sposs, hdr, hposs, log, active, failed, closing,
          op, pc, arg, idx, fenced, faults, base, want, point>>

Images == [Targets -> Data]
Records == [lba : Targets, old : Data]
Kinds == {"zero", "torn", "clean", "active"}
Headers == [kind : Kinds, log : Seq(Records)]
Slots == 1 .. STX_MAX

\* The header sectors header(t,1) and header(t,0) write, and damaged ones.
ActiveHeader(l) == [kind |-> "active", log |-> l]
CleanHeader == [kind |-> "clean", log |-> <<>>]
TornHeader == [kind |-> "torn", log |-> <<>>]
ZeroHeader == [kind |-> "zero", log |-> <<>>]

Lbas(l) == {l[i].lba : i \in DOMAIN l}

-----------------------------------------------------------------------------
(***************************************************************************)
(* The device.  Between a write and the next barrier a sector may hold any *)
(* of the values it had, in any order across sectors; writing other        *)
(* contents may also leave a torn mixture of the two.                      *)
(***************************************************************************)
TornOver(poss, v) == IF poss = {v} THEN {} ELSE Torn

WriteTarget(l, v) ==
    /\ tgt' = [tgt EXCEPT ![l] = v]
    /\ tposs' = [tposs EXCEPT ![l] = @ \cup {v} \cup TornOver(@, v)]
    /\ UNCHANGED <<slot, sposs, hdr, hposs>>

WriteSlot(i, v) ==
    /\ slot' = [slot EXCEPT ![i] = v]
    /\ sposs' = [sposs EXCEPT ![i] = @ \cup {v} \cup TornOver(@, v)]
    /\ UNCHANGED <<tgt, tposs, hdr, hposs>>

TornHeaders == IF HeaderTears THEN {TornHeader} ELSE {}

WriteHeader(h) ==
    /\ hdr' = h
    /\ hposs' = hposs \cup {h} \cup TornHeaders
    /\ UNCHANGED <<tgt, tposs, slot, sposs>>

Barrier ==
    /\ tposs' = [l \in Targets |-> {tgt[l]}]
    /\ sposs' = [i \in Slots |-> {slot[i]}]
    /\ hposs' = {hdr}
    /\ UNCHANGED <<tgt, slot, hdr>>

Fault == faults < MaxFaults /\ faults' = faults + 1
NoFault == UNCHANGED faults

\* A WRITE that reported an error was not executed, was executed, or tore.
FailedTarget(l, v) ==
    Fault /\ (\/ UNCHANGED device
              \/ \E x \in {v} \cup TornOver(tposs[l], v) : WriteTarget(l, x))
FailedSlot(i, v) ==
    Fault /\ (\/ UNCHANGED device
              \/ \E x \in {v} \cup TornOver(sposs[i], v) : WriteSlot(i, x))
FailedHeader(h) ==
    Fault /\ (\/ UNCHANGED device
              \/ \E x \in {h} \cup TornHeaders : WriteHeader(x))
FailedBarrier == Fault /\ UNCHANGED device

-----------------------------------------------------------------------------
(***************************************************************************)
(* stx_load: validates the header, every address and every backup CRC, and *)
(* writes nothing.                                                         *)
(***************************************************************************)
Distinct(l) == \A i, j \in DOMAIN l : i # j => l[i].lba # l[j].lba

Loadable(h, s) ==
    /\ h.kind \in {"clean", "active"}
    /\ h.kind = "active" =>
        /\ Len(h.log) <= STX_MAX
        /\ Distinct(h.log)
        /\ \A i \in DOMAIN h.log : h.log[i].lba \in Targets /\ s[i] = h.log[i].old

\* What the sectors hold once the records of h are written back over t.
Recovered(h, t) ==
    [l \in Targets |->
        IF l \in Lbas(h.log)
        THEN h.log[CHOOSE i \in DOMAIN h.log : h.log[i].lba = l].old
        ELSE t[l]]

\* The image a header stands for: an empty log with the commit point passed
\* is the committed contents.
Resolved(h) == IF point /\ h.log = <<>> THEN want ELSE base

Idle == pc' = "idle" /\ op' = "none"
Goto(label) == pc' = label /\ op' = op
KeepCall == UNCHANGED <<arg, idx>>

\* A failed call after which the caller fences the volume (fat.c).
FailAndFence == Idle /\ fenced' = TRUE

\* stx_load found nothing to undo, an active log, or refused.
LoadClean ==
    /\ Durable => Loadable(hdr, slot) /\ hdr.kind = "clean"
    /\ log' = <<>> /\ failed' = FALSE /\ closing' = FALSE
    /\ NoFault /\ UNCHANGED device

LoadActive ==
    /\ Durable /\ Loadable(hdr, slot) /\ hdr.kind = "active"
    /\ log' = hdr.log /\ active' = TRUE /\ failed' = FALSE /\ closing' = FALSE
    /\ idx' = Len(hdr.log)
    /\ pc' = IF hdr.log = <<>> THEN "undoS" ELSE "undo"
    /\ NoFault /\ UNCHANGED <<device, arg, fenced, history>>

LoadRefused ==
    /\ Durable
    /\ \/ ~Loadable(hdr, slot) /\ NoFault
       \/ Fault                            \* a read failed
    /\ log' = <<>> /\ active' = FALSE /\ failed' = FALSE /\ closing' = FALSE
    /\ FailAndFence /\ KeepCall
    /\ UNCHANGED <<device, history>>

\* A mount (also after a rescan or a reboot) recovers before it publishes.
StxRecover ==
    /\ pc = "unmounted"
    /\ \/ LoadClean /\ active' = FALSE /\ Idle /\ KeepCall
          /\ UNCHANGED <<fenced, history>>
       \/ LoadActive /\ op' = "recover"
       \/ LoadRefused

\* write_begin; stx_begin runs stx_recover itself, so it also serves a
\* client that has not recovered first.
StxBegin ==
    /\ pc = "unmounted" \/ (pc = "idle" /\ ~fenced /\ ~active)
    /\ \/ LoadClean /\ active' = TRUE /\ KeepCall /\ UNCHANGED fenced
          /\ IF Durable
             THEN pc' = "openW" /\ op' = "begin" /\ UNCHANGED history
             ELSE Idle /\ base' = tgt /\ want' = tgt /\ point' = FALSE
       \/ LoadActive /\ op' = "begin"
       \/ LoadRefused

\* header(t,1) of stx_begin.
OpenWrite ==
    /\ pc = "openW"
    /\ \/ NoFault /\ WriteHeader(ActiveHeader(log)) /\ Goto("openS")
          /\ UNCHANGED <<failed, fenced>>
       \/ FailedHeader(ActiveHeader(log)) /\ failed' = TRUE /\ FailAndFence
    /\ KeepCall /\ UNCHANGED <<log, active, closing, history>>

OpenBarrier ==
    /\ pc = "openS"
    /\ \/ NoFault /\ Barrier /\ Idle /\ UNCHANGED <<failed, fenced>>
          /\ base' = Resolved(hdr) /\ want' = Resolved(hdr) /\ point' = FALSE
       \/ FailedBarrier /\ failed' = TRUE /\ FailAndFence /\ UNCHANGED history
    /\ KeepCall /\ UNCHANGED <<log, active, closing>>

-----------------------------------------------------------------------------
(***************************************************************************)
(* stx_write.                                                              *)
(***************************************************************************)
Writable == pc = "idle" /\ active /\ ~failed /\ ~closing /\ ~fenced

\* The sector already has its undo record.
StxWriteAgain(l, v) ==
    /\ Writable /\ l \in Lbas(log)
    /\ arg' = [lba |-> l, data |-> v] /\ pc' = "tw" /\ op' = "write"
    /\ UNCHANGED <<device, log, flags, idx, fenced, faults, history>>

\* A new record: read the old contents, then back them up.
StxWriteNew(l, v) ==
    /\ Writable /\ l \notin Lbas(log) /\ Len(log) < STX_MAX
    /\ log' = Append(log, [lba |-> l, old |-> tgt[l]])
    /\ arg' = [lba |-> l, data |-> v]
    /\ pc' = IF Durable THEN "backupW" ELSE "tw"
    /\ op' = "write"
    /\ UNCHANGED <<device, flags, idx, fenced, faults, history>>

\* Address out of range, log full, or the old contents cannot be read.
StxWriteRefused ==
    /\ Writable
    /\ \/ NoFault \* an address outside Targets
       \/ Lbas(log) # Targets /\ Len(log) = STX_MAX /\ NoFault
       \/ Lbas(log) # Targets /\ Len(log) < STX_MAX /\ Fault
    /\ failed' = TRUE
    /\ UNCHANGED <<device, log, active, closing, op, pc, arg, idx, fenced, history>>

BackupWrite ==
    /\ pc = "backupW"
    /\ \/ NoFault /\ WriteSlot(Len(log), log[Len(log)].old) /\ Goto("backupS")
          /\ UNCHANGED failed
       \/ FailedSlot(Len(log), log[Len(log)].old) /\ failed' = TRUE /\ Idle
    /\ KeepCall /\ UNCHANGED <<log, active, closing, fenced, history>>

\* Mutant: no barrier between the backup and the header that indexes it.
BackupBarrierMissing ==
    /\ pc = "backupS" /\ Goto("indexW")
    /\ KeepCall /\ UNCHANGED <<device, log, flags, fenced, faults, history>>

BackupBarrier ==
    /\ pc = "backupS"
    /\ \/ NoFault /\ Barrier /\ Goto("indexW") /\ UNCHANGED failed
       \/ FailedBarrier /\ failed' = TRUE /\ Idle
    /\ KeepCall /\ UNCHANGED <<log, active, closing, fenced, history>>

IndexWrite ==
    /\ pc = "indexW"
    /\ \/ NoFault /\ WriteHeader(ActiveHeader(log)) /\ Goto("indexS") /\ UNCHANGED failed
       \/ FailedHeader(ActiveHeader(log)) /\ failed' = TRUE /\ Idle
    /\ KeepCall /\ UNCHANGED <<log, active, closing, fenced, history>>

\* Mutant: no barrier between the indexed header and the target.
IndexBarrierMissing ==
    /\ pc = "indexS" /\ Goto("tw")
    /\ KeepCall /\ UNCHANGED <<device, log, flags, fenced, faults, history>>

IndexBarrier ==
    /\ pc = "indexS"
    /\ \/ NoFault /\ Barrier /\ Goto("tw") /\ UNCHANGED failed
       \/ FailedBarrier /\ failed' = TRUE /\ Idle
    /\ KeepCall /\ UNCHANGED <<log, active, closing, fenced, history>>

TargetWrite ==
    /\ pc = "tw"
    /\ \/ NoFault /\ WriteTarget(arg.lba, arg.data) /\ UNCHANGED failed
          /\ want' = [want EXCEPT ![arg.lba] = arg.data]
       \/ FailedTarget(arg.lba, arg.data) /\ failed' = TRUE /\ UNCHANGED want
    /\ Idle /\ KeepCall
    /\ UNCHANGED <<log, active, closing, fenced, base, point>>

-----------------------------------------------------------------------------
(***************************************************************************)
(* stx_commit and stx_abort.  Both end with header(t,0).                   *)
(***************************************************************************)
StxCommit ==
    /\ pc = "idle" /\ active /\ ~failed /\ ~fenced
    /\ pc' = "commitS" /\ op' = "commit"
    /\ UNCHANGED <<device, log, flags, arg, idx, fenced, faults, history>>

\* Mutant: stx_commit closes the log without a barrier before it.
CommitBarrierMissing ==
    /\ pc = "commitS" /\ Durable
    /\ closing' = TRUE /\ point' = TRUE /\ Goto("closeW")
    /\ KeepCall
    /\ UNCHANGED <<device, log, active, failed, fenced, faults, base, want>>

CommitBarrier ==
    /\ pc = "commitS"
    /\ \/ /\ NoFault /\ Barrier /\ Durable
          /\ closing' = TRUE /\ point' = TRUE /\ Goto("closeW")
          /\ UNCHANGED <<log, active, failed, base, want>>
       \/ /\ NoFault /\ Barrier /\ ~Durable
          /\ active' = FALSE /\ log' = <<>> /\ base' = want /\ Idle
          /\ UNCHANGED <<failed, closing, want, point>>
       \/ /\ FailedBarrier /\ failed' = TRUE /\ Idle
          /\ UNCHANGED <<log, active, closing, history>>
    /\ KeepCall /\ UNCHANGED fenced

\* Mutant: rolls back even after the log has begun to close.
StxAbortAfterClose ==
    /\ pc = "idle" /\ active /\ ~fenced
    /\ pc' = IF log = <<>> THEN "undoS" ELSE "undo"
    /\ op' = "abort" /\ idx' = Len(log)
    /\ UNCHANGED <<device, log, flags, arg, fenced, faults, history>>

\* write_end calls this after a failed operation or a failed commit.
StxAbort ==
    /\ pc = "idle" /\ active /\ ~fenced
    /\ IF closing
       THEN FailAndFence /\ UNCHANGED idx
       ELSE /\ pc' = IF log = <<>> THEN "undoS" ELSE "undo"
            /\ op' = "abort" /\ idx' = Len(log) /\ UNCHANGED fenced
    /\ UNCHANGED <<device, log, flags, arg, faults, history>>

\* Mutant: the oldest record is not written back.
UndoWriteStopsEarly ==
    /\ pc = "undo"
    /\ \/ /\ NoFault /\ WriteTarget(log[idx].lba, log[idx].old)
          /\ idx' = idx - 1
          /\ Goto(IF idx <= 2 THEN "undoS" ELSE "undo")
          /\ UNCHANGED fenced
       \/ /\ FailedTarget(log[idx].lba, log[idx].old)
          /\ FailAndFence /\ UNCHANGED idx
    /\ UNCHANGED <<log, flags, arg, history>>

\* The loop of stx_abort: the newest record first.
UndoWrite ==
    /\ pc = "undo"
    /\ \/ /\ NoFault /\ WriteTarget(log[idx].lba, log[idx].old)
          /\ idx' = idx - 1
          /\ Goto(IF idx = 1 THEN "undoS" ELSE "undo")
          /\ UNCHANGED fenced
       \/ /\ FailedTarget(log[idx].lba, log[idx].old)
          /\ FailAndFence /\ UNCHANGED idx
    /\ UNCHANGED <<log, flags, arg, history>>

\* Mutant: stx_abort ends without closing the log.
UndoBarrierLeavesOpen ==
    /\ pc = "undoS" /\ NoFault /\ Barrier
    /\ active' = FALSE /\ log' = <<>> /\ want' = base /\ Idle
    /\ KeepCall /\ UNCHANGED <<failed, closing, fenced, base, point>>

UndoBarrier ==
    /\ pc = "undoS"
    /\ \/ /\ NoFault /\ Barrier /\ Durable
          /\ closing' = TRUE /\ Goto("closeW")
          /\ base' = Resolved(ActiveHeader(log))
          /\ want' = base' /\ point' = FALSE
          /\ UNCHANGED <<log, active, fenced>>
       \/ /\ NoFault /\ Barrier /\ ~Durable
          /\ active' = FALSE /\ log' = <<>> /\ want' = base /\ Idle
          /\ UNCHANGED <<closing, fenced, base, point>>
       \/ /\ FailedBarrier /\ FailAndFence
          /\ UNCHANGED <<log, active, closing, history>>
    /\ KeepCall /\ UNCHANGED failed

\* A failed close: stx_commit returns -1 with the outcome unknown and
\* nothing is rolled back; every other caller fences.
CloseFailed ==
    /\ IF op = "commit"
       THEN failed' = TRUE /\ Idle /\ UNCHANGED fenced
       ELSE FailAndFence /\ UNCHANGED failed
    /\ UNCHANGED <<log, active, closing, history>>

CloseWrite ==
    /\ pc = "closeW"
    /\ \/ NoFault /\ WriteHeader(CleanHeader) /\ Goto("closeS")
          /\ UNCHANGED <<log, flags, fenced, history>>
       \/ FailedHeader(CleanHeader) /\ CloseFailed
    /\ KeepCall

CloseBarrier ==
    /\ pc = "closeS"
    /\ \/ /\ NoFault /\ Barrier /\ log' = <<>>
          /\ IF op = "begin"
             THEN active' = TRUE /\ Goto("openW")
             ELSE active' = FALSE /\ Idle
          /\ base' = want /\ point' = FALSE
          /\ UNCHANGED <<want, failed, closing, fenced>>
       \/ FailedBarrier /\ CloseFailed
    /\ KeepCall

-----------------------------------------------------------------------------
\* stx_format: explicit provisioning over an entirely zeroed journal.
StxFormat ==
    /\ Durable /\ pc = "unmounted" /\ hdr.kind = "zero"
    /\ \/ /\ NoFault
          /\ log' = <<>> /\ active' = FALSE /\ failed' = FALSE /\ closing' = FALSE
          /\ pc' = "closeW" /\ op' = "format" /\ UNCHANGED fenced
       \/ Fault /\ FailAndFence /\ UNCHANGED <<log, flags>>   \* a read failed
    /\ KeepCall /\ UNCHANGED <<device, history>>

\* vfs rescan: the volume is mounted again, the device keeps its cache.
Remount ==
    /\ pc = "idle" /\ (fenced \/ ~active)
    /\ pc' = "unmounted" /\ fenced' = FALSE
    /\ IF Durable THEN UNCHANGED history
       ELSE base' = tgt /\ want' = tgt /\ point' = FALSE
    /\ UNCHANGED <<device, log, flags, op, arg, idx, faults>>

\* Power loss: every sector keeps one of the values it may hold.
Crash ==
    /\ Fault
    /\ tgt' \in {t \in Images : \A l \in Targets : t[l] \in tposs[l]}
    /\ slot' \in {s \in [Slots -> Data] : \A i \in Slots : s[i] \in sposs[i]}
    /\ hdr' \in hposs
    /\ tposs' = [l \in Targets |-> {tgt'[l]}]
    /\ sposs' = [i \in Slots |-> {slot'[i]}]
    /\ hposs' = {hdr'}
    /\ log' = <<>> /\ active' = FALSE /\ failed' = FALSE /\ closing' = FALSE
    /\ pc' = "unmounted" /\ op' = "none" /\ fenced' = FALSE
    /\ base' = IF Durable THEN Resolved(hdr') ELSE tgt'
    /\ want' = base' /\ point' = FALSE
    /\ KeepCall

-----------------------------------------------------------------------------
Init ==
    /\ \E d \in Data : tgt = [l \in Targets |-> d] /\ slot = [i \in Slots |-> d]
    /\ tposs = [l \in Targets |-> {tgt[l]}]
    /\ sposs = [i \in Slots |-> {slot[i]}]
    /\ hdr = ZeroHeader /\ hposs = {hdr}
    /\ log = <<>> /\ active = FALSE /\ failed = FALSE /\ closing = FALSE
    /\ op = "none" /\ pc = "unmounted" /\ idx = 0 /\ fenced = FALSE
    /\ arg \in {[lba |-> l, data |-> tgt[l]] : l \in Targets}
    /\ faults = 0
    /\ base = tgt /\ want = tgt /\ point = FALSE

Call ==
    \/ StxFormat \/ StxRecover \/ StxBegin \/ StxCommit \/ StxAbort \/ Remount
    \/ StxWriteRefused
    \/ \E l \in Targets, v \in Data \ Torn :
        StxWriteAgain(l, v) \/ StxWriteNew(l, v)

Step ==
    \/ OpenWrite \/ OpenBarrier
    \/ BackupWrite \/ BackupBarrier \/ IndexWrite \/ IndexBarrier \/ TargetWrite
    \/ CommitBarrier \/ UndoWrite \/ UndoBarrier \/ CloseWrite \/ CloseBarrier

Next == Call \/ Step \/ Crash

Spec == Init /\ [][Next]_vars

\* A call that has been made runs to its end (the kernel polls its devices),
\* and a boot mounts its volumes.
FairSpec == Spec /\ WF_vars(Step) /\ WF_vars(StxRecover)

-----------------------------------------------------------------------------
(***************************************************************************)
(* Properties.                                                             *)
(***************************************************************************)
Labels == {"idle", "unmounted", "openW", "openS", "backupW", "backupS", "indexW",
           "indexS", "tw", "commitS", "undo", "undoS", "closeW", "closeS"}
Ops == {"none", "begin", "write", "commit", "abort", "recover", "format"}

TypeOK ==
    /\ tgt \in Images /\ tposs \in [Targets -> SUBSET Data]
    /\ slot \in [Slots -> Data] /\ sposs \in [Slots -> SUBSET Data]
    /\ hdr \in Headers /\ hposs \in SUBSET Headers
    /\ log \in Seq(Records) /\ Len(log) <= STX_MAX
    /\ active \in BOOLEAN /\ failed \in BOOLEAN /\ closing \in BOOLEAN
    /\ op \in Ops /\ pc \in Labels
    /\ arg \in [lba : Targets, data : Data]
    /\ idx \in 0 .. STX_MAX
    /\ fenced \in BOOLEAN /\ faults \in 0 .. MaxFaults
    /\ base \in Images /\ want \in Images /\ point \in BOOLEAN

MediaImages == {t \in Images : \A l \in Targets : t[l] \in tposs[l]}
MediaSlots == {s \in [Slots -> Data] : \A i \in Slots : s[i] \in sposs[i]}
Allowed == IF point THEN {base, want} ELSE {base}

\* Whatever a power loss leaves on the media at this instant, a recovery that
\* accepts the log restores the image before the transaction, or, once
\* stx_commit has begun to close the log, that image or the whole new one.
\* (sector_tx.c: backup+barrier, header+barrier, then the metadata write.)
CrashAtomic ==
    Durable => \A h \in hposs, s \in MediaSlots, t \in MediaImages :
                    Loadable(h, s) => Recovered(h, t) \in Allowed

\* Without torn header sectors no power loss leaves a log that stx_load
\* refuses: every header that may be on the media has all its backups there.
NeverRefused ==
    (Durable /\ ~HeaderTears) =>
        \A h \in hposs, s \in MediaSlots : h.kind = "zero" \/ Loadable(h, s)

\* A mounted volume with no open transaction shows a whole image: a commit or
\* an abort that returned 0, or a mount that succeeded, left no mixture.
PublishedWhole ==
    (pc = "idle" /\ ~active /\ ~fenced) => tgt \in Allowed

\* The comment of sector_tx.c: targets are never rolled back, or written at
\* all, while a clean header might already be durable.
CloseIsFence ==
    [][(\E h \in hposs : h.kind = "clean") => UNCHANGED <<tgt, tposs>>]_vars

\* After the last fault a pending log is rolled back and closed: recovery can
\* be interrupted any number of times and still completes.
RecoveryConverges ==
    (Durable /\ ~HeaderTears /\ faults = MaxFaults /\ pc = "unmounted" /\ hdr.kind = "active")
        ~> (hdr.kind = "clean" /\ tgt = base)

\* The images recovery may produce, read off the media alone.
RecoverableImages ==
    {Recovered(h, t) : h \in {h \in hposs : h.kind # "torn"}, t \in MediaImages}

Abstract == INSTANCE AtomicDisk
    WITH outcomes <- RecoverableImages, staged <- want, committing <- point

\* The journalled sectors implement an all-or-nothing store.
ImplementsAtomicDisk == Abstract!Spec
=============================================================================
