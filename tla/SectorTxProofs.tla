--------------------------- MODULE SectorTxProofs ---------------------------
(***************************************************************************)
(* The transaction log for every set of sectors, every log size and every  *)
(* fault bound.  First its types; then the durable log is atomic: IInv is  *)
(* inductive, and it implies the safety properties of the runs, torn       *)
(* sectors and a torn header included; without a torn header the log       *)
(* implements the all-or-nothing store.  Then what a scan mounts, and the  *)
(* log a volume keeps in a file of its own.                                *)
(***************************************************************************)
EXTENDS SectorTxInv, Partitions, Wal, FiniteSetTheorems, WellFoundedInduction, TLAPS

-----------------------------------------------------------------------------
(***************************************************************************)
(* Type correctness.                                                       *)
(***************************************************************************)

\* The device part of TypeOK.
DeviceOK ==
    /\ tgt \in Images /\ tposs \in [Targets -> SUBSET Data]
    /\ slot \in [Slots -> Data] /\ sposs \in [Slots -> SUBSET Data]
    /\ hdr \in Headers /\ hposs \in SUBSET Headers

\* The rest, with two facts that make it inductive: the loop counter points
\* at a record while stx_abort writes back, and stx_write has a newest record
\* to back up.
RamOK ==
    /\ log \in Seq(Records) /\ Len(log) <= STX_MAX
    /\ active \in BOOLEAN /\ failed \in BOOLEAN /\ closing \in BOOLEAN
    /\ op \in Ops /\ pc \in Labels
    /\ arg \in [lba : Targets, data : Data]
    /\ idx \in 0 .. STX_MAX
    /\ fenced \in BOOLEAN /\ faults \in 0 .. MaxFaults
    /\ base \in Images /\ want \in Images /\ point \in BOOLEAN
    /\ pc = "undo" => idx \in 1 .. Len(log)
    /\ pc = "backupW" => Len(log) \in 1 .. STX_MAX

TypeInv == DeviceOK /\ RamOK

\* The header sectors the log writes are header values.
LEMMA HeaderType ==
    ASSUME TypeOK
    PROVE  /\ ActiveHeader(log) \in Headers /\ CleanHeader \in Headers
           /\ TornHeader \in Headers /\ ZeroHeader \in Headers
           /\ TornHeaders \subseteq Headers
<1>1. <<>> \in Seq(Records) /\ log \in Seq(Records) BY DEF TypeOK
<1>2. TornHeader \in Headers /\ ZeroHeader \in Headers /\ CleanHeader \in Headers
  BY <1>1 DEF TornHeader, ZeroHeader, CleanHeader, Headers, Kinds
<1>3. ActiveHeader(log) \in Headers BY <1>1 DEF ActiveHeader, Headers, Kinds
<1>4. QED BY <1>2, <1>3 DEF TornHeaders

\* Device commands keep the media well typed.
LEMMA WriteTargetType ==
    ASSUME TypeOK, NEW l \in Targets, NEW v \in Data, WriteTarget(l, v)
    PROVE  /\ tgt' \in Images /\ tposs' \in [Targets -> SUBSET Data]
           /\ UNCHANGED <<slot, sposs, hdr, hposs>> BY DataAssumption DEF TypeOK, WriteTarget, Images, TornOver

LEMMA WriteSlotType ==
    ASSUME TypeOK, NEW i \in Slots, NEW v \in Data, WriteSlot(i, v)
    PROVE  /\ slot' \in [Slots -> Data] /\ sposs' \in [Slots -> SUBSET Data]
           /\ UNCHANGED <<tgt, tposs, hdr, hposs>> BY DataAssumption DEF TypeOK, WriteSlot, TornOver

LEMMA WriteHeaderType ==
    ASSUME TypeOK, NEW h \in Headers, WriteHeader(h)
    PROVE  /\ hdr' \in Headers /\ hposs' \in SUBSET Headers
           /\ UNCHANGED <<tgt, tposs, slot, sposs>> BY HeaderType DEF TypeOK, WriteHeader

LEMMA BarrierType ==
    ASSUME TypeOK, Barrier
    PROVE  /\ tposs' \in [Targets -> SUBSET Data] /\ sposs' \in [Slots -> SUBSET Data]
           /\ hposs' \in SUBSET Headers /\ UNCHANGED <<tgt, slot, hdr>> BY DEF TypeOK, Barrier, Images

\* Every device command keeps the device well typed.
LEMMA DeviceType ==
    ASSUME TypeOK
    PROVE  /\ UNCHANGED device => DeviceOK'
           /\ Barrier => DeviceOK'
           /\ \A l \in Targets, v \in Data :
                /\ WriteTarget(l, v) => DeviceOK'
                /\ FailedTarget(l, v) => DeviceOK'
           /\ \A i \in Slots, v \in Data :
                /\ WriteSlot(i, v) => DeviceOK'
                /\ FailedSlot(i, v) => DeviceOK'
           /\ \A h \in Headers :
                /\ WriteHeader(h) => DeviceOK'
                /\ FailedHeader(h) => DeviceOK'
<1>0. DeviceOK BY DEF TypeOK, DeviceOK
<1>1. UNCHANGED device => DeviceOK' BY <1>0 DEF DeviceOK, device
<1>2. Barrier => DeviceOK' BY <1>0, BarrierType DEF DeviceOK
<1>3. ASSUME NEW l \in Targets, NEW v \in Data
      PROVE  /\ WriteTarget(l, v) => DeviceOK'
             /\ FailedTarget(l, v) => DeviceOK'
  <2>1. ASSUME NEW x \in Data PROVE WriteTarget(l, x) => DeviceOK' BY <1>0, WriteTargetType DEF DeviceOK
  <2>2. {v} \cup TornOver(tposs[l], v) \subseteq Data BY DataAssumption DEF TornOver
  <2>3. QED BY <1>1, <2>1, <2>2 DEF FailedTarget
<1>4. ASSUME NEW i \in Slots, NEW v \in Data
      PROVE  /\ WriteSlot(i, v) => DeviceOK'
             /\ FailedSlot(i, v) => DeviceOK'
  <2>1. ASSUME NEW x \in Data PROVE WriteSlot(i, x) => DeviceOK' BY <1>0, WriteSlotType DEF DeviceOK
  <2>2. {v} \cup TornOver(sposs[i], v) \subseteq Data BY DataAssumption DEF TornOver
  <2>3. QED BY <1>1, <2>1, <2>2 DEF FailedSlot
<1>5. ASSUME NEW h \in Headers
      PROVE  /\ WriteHeader(h) => DeviceOK'
             /\ FailedHeader(h) => DeviceOK'
  <2>1. ASSUME NEW x \in Headers PROVE WriteHeader(x) => DeviceOK' BY <1>0, WriteHeaderType DEF DeviceOK
  <2>2. {h} \cup TornHeaders \subseteq Headers BY HeaderType
  <2>3. QED BY <1>1, <2>1, <2>2 DEF FailedHeader
<1>6. QED BY <1>1, <1>2, <1>3, <1>4, <1>5

\* Init gives every variable a value of its type.
LEMMA InitType == Init => TypeInv
<1> SUFFICES ASSUME Init PROVE TypeInv OBVIOUS
<1>1. PICK d \in Data : tgt = [l \in Targets |-> d] /\ slot = [i \in Slots |-> d] BY DEF Init
<1>2. tgt \in Images /\ slot \in [Slots -> Data] BY <1>1 DEF Images
<1>3. tposs \in [Targets -> SUBSET Data] /\ sposs \in [Slots -> SUBSET Data] BY <1>2 DEF Init, Images
<1>4. hdr \in Headers /\ hposs \in SUBSET Headers
  <2>1. <<>> \in Seq(Records) OBVIOUS
  <2>2. QED BY <2>1 DEF Init, ZeroHeader, Headers, Kinds
<1>5. log \in Seq(Records) /\ Len(log) <= STX_MAX BY StxMaxAssumption DEF Init
<1>6. arg \in [lba : Targets, data : Data] BY <1>2 DEF Init, Images
<1>7. idx \in 0 .. STX_MAX /\ faults \in 0 .. MaxFaults BY StxMaxAssumption, FaultAssumption DEF Init
<1>8. QED BY <1>2, <1>3, <1>4, <1>5, <1>6, <1>7 DEF Init, TypeInv, DeviceOK, RamOK, Ops, Labels

\* Faults stay within their bound.
LEMMA FaultType ==
    ASSUME faults \in 0 .. MaxFaults, Fault \/ NoFault
    PROVE  faults' \in 0 .. MaxFaults BY FaultAssumption DEF Fault, NoFault

\* A sequence of records that is not empty has a last record.
LEMMA LastRecord ==
    ASSUME NEW l \in Seq(Records), l # <<>>
    PROVE  Len(l) \in 1 .. Len(l) /\ Len(l) \in DOMAIN l /\ l[Len(l)] \in Records OBVIOUS

\* stx_load takes over a log that fits sector_tx_t.
LEMMA LoadActiveType ==
    ASSUME DeviceOK, LoadActive
    PROVE  /\ log' \in Seq(Records) /\ Len(log') <= STX_MAX
           /\ idx' \in 0 .. STX_MAX /\ pc' \in {"undo", "undoS"}
           /\ pc' = "undo" => idx' \in 1 .. Len(log')
<1>1. hdr.log \in Seq(Records) /\ Len(hdr.log) <= STX_MAX /\ Len(hdr.log) \in Nat
  BY DEF DeviceOK, LoadActive, Loadable, Headers
<1>2. hdr.log # <<>> => Len(hdr.log) \in 1 .. Len(hdr.log) BY <1>1, LastRecord
<1>3. log' = hdr.log /\ idx' = Len(hdr.log)
      /\ pc' = IF hdr.log = <<>> THEN "undoS" ELSE "undo" BY DEF LoadActive
<1>4. QED BY <1>1, <1>2, <1>3, StxMaxAssumption

\* Every step keeps every variable in its type.
LEMMA NextType == TypeInv /\ [Next]_vars => TypeInv'
<1> SUFFICES ASSUME TypeInv, [Next]_vars PROVE TypeInv' OBVIOUS
<1>a. TypeOK /\ DeviceOK /\ RamOK BY DEF TypeInv, TypeOK, DeviceOK, RamOK
<1>b. ActiveHeader(log) \in Headers /\ CleanHeader \in Headers BY <1>a, HeaderType
<1>c. <<>> \in Seq(Records) /\ Len(<<>>) = 0 /\ 0 <= STX_MAX BY StxMaxAssumption
<1>d. \A h \in Headers : Resolved(h) \in Images BY <1>a DEF RamOK, Resolved
<1> USE DEF Ops, Labels
<1>1. CASE StxFormat
  <2>1. DeviceOK' BY <1>1, <1>a, DeviceType DEF StxFormat
  <2>2. faults' \in 0 .. MaxFaults BY <1>1, <1>a, FaultType DEF StxFormat, RamOK
  <2>3. RamOK' BY <1>1, <1>a, <1>c, <2>2 DEF StxFormat, RamOK, KeepCall, history, FailAndFence, Idle, flags
  <2>4. QED BY <2>1, <2>3 DEF TypeInv
<1>2. CASE StxRecover
  <2>1. DeviceOK' BY <1>2, <1>a, DeviceType DEF StxRecover, LoadClean, LoadActive, LoadRefused
  <2>2. faults' \in 0 .. MaxFaults BY <1>2, <1>a, FaultType DEF StxRecover, LoadClean, LoadActive, LoadRefused, RamOK
  <2>3. CASE LoadActive BY <1>2, <1>a, <2>1, <2>2, <2>3, LoadActiveType DEF TypeInv, StxRecover, LoadActive,
    LoadClean, LoadRefused, RamOK, history
  <2>4. CASE ~LoadActive BY <1>2, <1>a, <1>c, <2>1, <2>2, <2>4 DEF TypeInv, StxRecover, LoadClean, LoadRefused, RamOK,
    KeepCall, history, FailAndFence, Idle, DeviceOK
  <2>5. QED BY <2>3, <2>4
<1>3. CASE StxBegin
  <2>1. DeviceOK' BY <1>3, <1>a, DeviceType DEF StxBegin, LoadClean, LoadActive, LoadRefused
  <2>2. faults' \in 0 .. MaxFaults BY <1>3, <1>a, FaultType DEF StxBegin, LoadClean, LoadActive, LoadRefused, RamOK
  <2>3. CASE LoadActive BY <1>3, <1>a, <2>1, <2>2, <2>3, LoadActiveType DEF TypeInv, StxBegin, LoadActive, LoadClean,
    LoadRefused, RamOK, history
  <2>4. CASE ~LoadActive BY <1>3, <1>a, <1>c, <2>1, <2>2, <2>4 DEF TypeInv, StxBegin, LoadClean, LoadRefused, RamOK,
    KeepCall, history, FailAndFence, Idle, DeviceOK
  <2>5. QED BY <2>3, <2>4
<1>4. CASE StxCommit BY <1>4, <1>a, DeviceType DEF TypeInv, StxCommit, RamOK, flags, history
<1>5. CASE StxAbort
  <2>1. DeviceOK' BY <1>5, <1>a, DeviceType DEF StxAbort
  <2>2. log \in Seq(Records) /\ Len(log) \in 0 .. STX_MAX
        /\ (log # <<>> => Len(log) \in 1 .. Len(log)) BY <1>a, LastRecord, StxMaxAssumption DEF RamOK
  <2>3. CASE closing BY <1>5, <1>a, <2>1, <2>3 DEF TypeInv, StxAbort, RamOK, flags, history, FailAndFence, Idle
  <2>4. CASE ~closing BY <1>5, <1>a, <2>1, <2>2, <2>4 DEF TypeInv, StxAbort, RamOK, flags, history
  <2>5. QED BY <2>3, <2>4
<1>6. CASE Remount BY <1>6, <1>a, DeviceType DEF TypeInv, Remount, RamOK, flags, history, DeviceOK
<1>7. CASE StxWriteRefused
  <2>1. faults' \in 0 .. MaxFaults BY <1>7, <1>a, FaultType DEF StxWriteRefused, RamOK
  <2>2. QED BY <1>7, <2>1, <1>a, DeviceType DEF TypeInv, StxWriteRefused, RamOK, history
<1>8. ASSUME NEW l \in Targets, NEW v \in Data \ Torn, StxWriteAgain(l, v)
      PROVE  TypeInv' BY <1>8, <1>a, DeviceType DEF TypeInv, StxWriteAgain, RamOK, flags, history
<1>9. ASSUME NEW l \in Targets, NEW v \in Data \ Torn, StxWriteNew(l, v)
      PROVE  TypeInv'
  <2>1. tgt[l] \in Data BY <1>a DEF DeviceOK, Images
  <2>2. [lba |-> l, old |-> tgt[l]] \in Records BY <2>1 DEF Records
  <2>3. log' \in Seq(Records) /\ Len(log') = Len(log) + 1 BY <1>9, <1>a, <2>2 DEF StxWriteNew, RamOK
  <2>4. Len(log') \in 1 .. STX_MAX BY <1>9, <1>a, <2>3, StxMaxAssumption DEF StxWriteNew, RamOK
  <2>5. RamOK' BY <1>9, <1>a, <2>3, <2>4 DEF StxWriteNew, RamOK, flags, history
  <2>6. QED BY <1>9, <2>5, <1>a, DeviceType DEF TypeInv, StxWriteNew
<1>10. CASE OpenWrite
  <2>1. DeviceOK' /\ faults' \in 0 .. MaxFaults
    BY <1>10, <1>a, <1>b, DeviceType, FaultType DEF OpenWrite, RamOK, FailedHeader
  <2>2. QED BY <1>10, <1>a, <2>1 DEF TypeInv, OpenWrite, RamOK, KeepCall, history, FailAndFence, Idle, Goto
<1>11. CASE OpenBarrier
  <2>1. DeviceOK' /\ faults' \in 0 .. MaxFaults
    BY <1>11, <1>a, DeviceType, FaultType DEF OpenBarrier, RamOK, FailedBarrier
  <2>2. Resolved(hdr) \in Images BY <1>a, <1>d DEF DeviceOK
  <2>3. QED BY <1>11, <1>a, <2>1, <2>2 DEF TypeInv, OpenBarrier, RamOK, KeepCall, history, FailAndFence, Idle
<1>12. CASE BackupWrite
  <2>1. Len(log) \in Slots /\ log[Len(log)].old \in Data
    <3>1. Len(log) \in 1 .. STX_MAX /\ log \in Seq(Records) BY <1>12, <1>a DEF BackupWrite, RamOK
    <3>2. log # <<>> BY <3>1
    <3>3. QED BY <3>1, <3>2, LastRecord DEF Slots, Records
  <2>2. DeviceOK' /\ faults' \in 0 .. MaxFaults
    BY <1>12, <1>a, <2>1, DeviceType, FaultType DEF BackupWrite, RamOK, FailedSlot
  <2>3. QED BY <1>12, <1>a, <2>2 DEF TypeInv, BackupWrite, RamOK, KeepCall, history, Idle, Goto
<1>13. CASE BackupBarrier
  <2>1. DeviceOK' /\ faults' \in 0 .. MaxFaults
    BY <1>13, <1>a, DeviceType, FaultType DEF BackupBarrier, RamOK, FailedBarrier
  <2>2. QED BY <1>13, <1>a, <2>1 DEF TypeInv, BackupBarrier, RamOK, KeepCall, history, Idle, Goto
<1>14. CASE IndexWrite
  <2>1. DeviceOK' /\ faults' \in 0 .. MaxFaults
    BY <1>14, <1>a, <1>b, DeviceType, FaultType DEF IndexWrite, RamOK, FailedHeader
  <2>2. QED BY <1>14, <1>a, <2>1 DEF TypeInv, IndexWrite, RamOK, KeepCall, history, Idle, Goto
<1>15. CASE IndexBarrier
  <2>1. DeviceOK' /\ faults' \in 0 .. MaxFaults
    BY <1>15, <1>a, DeviceType, FaultType DEF IndexBarrier, RamOK, FailedBarrier
  <2>2. QED BY <1>15, <1>a, <2>1 DEF TypeInv, IndexBarrier, RamOK, KeepCall, history, Idle, Goto
<1>16. CASE TargetWrite
  <2>1. arg.lba \in Targets /\ arg.data \in Data BY <1>a DEF RamOK
  <2>2. DeviceOK' /\ faults' \in 0 .. MaxFaults
    BY <1>16, <1>a, <2>1, DeviceType, FaultType DEF TargetWrite, RamOK, FailedTarget
  <2>3. want' \in Images BY <1>16, <1>a, <2>1 DEF TargetWrite, RamOK, Images
  <2>4. QED BY <1>16, <1>a, <2>2, <2>3 DEF TypeInv, TargetWrite, RamOK, KeepCall, Idle
<1>17. CASE CommitBarrier
  <2>1. DeviceOK' /\ faults' \in 0 .. MaxFaults
    BY <1>17, <1>a, DeviceType, FaultType DEF CommitBarrier, RamOK, FailedBarrier
  <2>2. QED BY <1>17, <1>a, <1>c, <2>1 DEF TypeInv, CommitBarrier, RamOK, KeepCall, history, Idle, Goto
<1>18. CASE UndoWrite
  <2>1. idx \in 1 .. Len(log) /\ log[idx] \in Records BY <1>18, <1>a DEF UndoWrite, RamOK
  <2>2. log[idx].lba \in Targets /\ log[idx].old \in Data BY <2>1 DEF Records
  <2>3. DeviceOK' /\ faults' \in 0 .. MaxFaults
    BY <1>18, <1>a, <2>2, DeviceType, FaultType DEF UndoWrite, RamOK, FailedTarget
  <2>4. idx' \in 0 .. STX_MAX /\ (pc' = "undo" => idx' \in 1 .. Len(log)) BY <1>18, <1>a, <2>1, StxMaxAssumption
    DEF UndoWrite, RamOK, Goto, FailAndFence, Idle
  <2>5. QED BY <1>18, <1>a, <2>3, <2>4 DEF TypeInv, UndoWrite, RamOK, flags, history, FailAndFence, Idle, Goto
<1>19. CASE UndoBarrier
  <2>1. DeviceOK' /\ faults' \in 0 .. MaxFaults
    BY <1>19, <1>a, DeviceType, FaultType DEF UndoBarrier, RamOK, FailedBarrier
  <2>2. Resolved(ActiveHeader(log)) \in Images BY <1>b, <1>d
  <2>3. QED BY <1>19, <1>a, <1>c, <2>1, <2>2 DEF TypeInv, UndoBarrier, RamOK, KeepCall, history, FailAndFence, Idle,
    Goto
<1>20. CASE CloseWrite
  <2>1. DeviceOK' /\ faults' \in 0 .. MaxFaults
    BY <1>20, <1>a, <1>b, DeviceType, FaultType DEF CloseWrite, RamOK, FailedHeader
  <2>2. QED BY <1>20, <1>a, <2>1 DEF TypeInv, CloseWrite, CloseFailed, RamOK, KeepCall, flags, history, FailAndFence,
    Idle, Goto
<1>21. CASE CloseBarrier
  <2>1. DeviceOK' /\ faults' \in 0 .. MaxFaults
    BY <1>21, <1>a, DeviceType, FaultType DEF CloseBarrier, RamOK, FailedBarrier
  <2>2. QED BY <1>21, <1>a, <1>c, <2>1 DEF TypeInv, CloseBarrier, CloseFailed, RamOK, KeepCall, history, FailAndFence,
    Idle, Goto
<1>22. CASE Crash
  <2>1. tgt' \in Images /\ slot' \in [Slots -> Data] /\ hdr' \in Headers BY <1>22, <1>a DEF Crash, DeviceOK
  <2>2. DeviceOK' BY <1>22, <2>1 DEF Crash, DeviceOK, Images
  <2>3. faults' \in 0 .. MaxFaults BY <1>22, <1>a, FaultType DEF Crash, RamOK
  <2>4. base' \in Images /\ want' \in Images BY <1>22, <1>d, <2>1 DEF Crash
  <2>5. QED BY <1>22, <1>a, <1>c, <2>2, <2>3, <2>4 DEF TypeInv, Crash, RamOK, KeepCall
<1>23. CASE UNCHANGED vars BY <1>23, <1>a DEF TypeInv, vars, DeviceOK, RamOK
<1>24. QED BY <1>1, <1>2, <1>3, <1>4, <1>5, <1>6, <1>7, <1>8, <1>9, <1>10, <1>11, <1>12, <1>13,
     <1>14, <1>15, <1>16, <1>17, <1>18, <1>19, <1>20, <1>21, <1>22, <1>23
  DEF Next, Call, Step

\* The type invariant of the runs, for every value of the constants.
THEOREM TypeCorrect == Spec => []TypeOK
<1>1. TypeInv => TypeOK BY DEF TypeInv, TypeOK, DeviceOK, RamOK
<1>2. QED BY <1>1, InitType, NextType, PTL DEF Spec

-----------------------------------------------------------------------------
(***************************************************************************)
(* How the device commands affect what may be on the media.                *)
(***************************************************************************)
MediaHeader(h) ==
    /\ RecoversTo(h) /\ Distinct(h.log)
    /\ h.kind # "active" => h.log = <<>>
    /\ h.kind = "torn" => HeaderTears

\* Nothing changes.
LEMMA MediaFrame ==
    ASSUME Media, UNCHANGED device, UNCHANGED history
    PROVE  Media' BY DEF Media, device, history, RecoversTo, Resolved, Pending

\* A barrier makes durable what is read.
LEMMA MediaBarrier ==
    ASSUME TypeInv, Media, Barrier, hdr.kind # "zero",
           hdr.kind # "torn" => Resolved(hdr)' = Resolved(hdr)
    PROVE  Media'
<1>1. /\ hposs' = {hdr} /\ hdr' = hdr /\ tgt' = tgt /\ slot' = slot
      /\ tposs' = [l \in Targets |-> {tgt[l]}] /\ sposs' = [i \in Slots |-> {slot[i]}] BY DEF Barrier
<1>2. hdr \in hposs /\ MediaHeader(hdr) BY DEF Media, MediaHeader
<1>3. RecoversTo(hdr)'
  <2> SUFFICES ASSUME hdr.kind # "torn"
               PROVE  /\ \A i \in DOMAIN hdr.log :
                            /\ hdr.log[i].old = Resolved(hdr)[hdr.log[i].lba]
                            /\ i \in Slots /\ sposs'[i] = {hdr.log[i].old}
                      /\ \A l \in Targets : l \notin Lbas(hdr.log) => tposs'[l] = {Resolved(hdr)[l]}
    BY <1>1 DEF RecoversTo
  <2>1. RecoversTo(hdr) BY <1>2 DEF MediaHeader
  <2>2. ASSUME NEW i \in DOMAIN hdr.log
        PROVE  /\ hdr.log[i].old = Resolved(hdr)[hdr.log[i].lba]
               /\ i \in Slots /\ sposs'[i] = {hdr.log[i].old}
    <3>1. i \in Slots /\ sposs[i] = {hdr.log[i].old}
          /\ hdr.log[i].old = Resolved(hdr)[hdr.log[i].lba] BY <2>1 DEF RecoversTo
    <3>2. slot[i] \in sposs[i] BY <3>1 DEF Media
    <3>3. QED BY <3>1, <3>2, <1>1
  <2>3. ASSUME NEW l \in Targets, l \notin Lbas(hdr.log)
        PROVE  tposs'[l] = {Resolved(hdr)[l]}
    <3>1. tposs[l] = {Resolved(hdr)[l]} BY <2>1, <2>3 DEF RecoversTo
    <3>2. tgt[l] \in tposs[l] BY DEF Media
    <3>3. QED BY <3>1, <3>2, <1>1
  <2>4. QED BY <2>2, <2>3
<1>4. hdr.log # <<>> => Pending(hdr)' BY <1>1, <1>2 DEF MediaHeader, Pending, TypeInv, DeviceOK, Headers, Kinds
<1>5. QED BY <1>1, <1>2, <1>3, <1>4 DEF Media, MediaHeader

\* A header may be written when it stands for the image on the media.
LEMMA MediaWriteHeader ==
    ASSUME Media, NEW h, WriteHeader(h), UNCHANGED history, MediaHeader(h),
           h.kind # "zero",
           h.log # <<>> => Pending(h) /\ \A g \in hposs : Pending(g)
    PROVE  Media'
<1>1. /\ hposs' = hposs \cup {h} \cup TornHeaders /\ hdr' = h
      /\ UNCHANGED <<tgt, tposs, slot, sposs, base, want, point>> BY DEF WriteHeader, history
<1>2. ASSUME NEW g PROVE /\ RecoversTo(g)' = RecoversTo(g) /\ Pending(g)' = Pending(g)
  BY <1>1 DEF RecoversTo, Resolved, Pending
<1>3. ASSUME NEW g \in hposs' PROVE MediaHeader(g)
  <2>1. CASE g \in hposs BY <2>1 DEF Media, MediaHeader
  <2>2. CASE g = h BY <2>2
  <2>3. CASE g \in TornHeaders BY <2>3 DEF TornHeaders, TornHeader, MediaHeader, RecoversTo, Distinct
  <2>4. QED BY <1>1, <2>1, <2>2, <2>3
<1>4. ASSUME NEW g \in hposs', h.log # <<>> PROVE Pending(g) BY <1>1, <1>4 DEF TornHeaders, TornHeader, Pending
<1>5. QED BY <1>1, <1>2, <1>3, <1>4 DEF Media, MediaHeader

\* A header WRITE that failed.
LEMMA MediaFailedHeader ==
    ASSUME Media, NEW h, FailedHeader(h), UNCHANGED history, MediaHeader(h),
           h.kind # "zero",
           h.log # <<>> => Pending(h) /\ \A g \in hposs : Pending(g)
    PROVE  Media'
<1>1. CASE UNCHANGED device BY <1>1, MediaFrame
<1>2. CASE WriteHeader(h) BY <1>2, MediaWriteHeader
<1>3. ASSUME NEW x \in TornHeaders, WriteHeader(x) PROVE Media'
  <2>1. MediaHeader(x) /\ x.log = <<>> /\ x.kind # "zero"
    BY DEF TornHeaders, TornHeader, MediaHeader, RecoversTo, Distinct
  <2>2. QED BY <1>3, <2>1, MediaWriteHeader
<1>4. QED BY <1>1, <1>2, <1>3 DEF FailedHeader

\* A target may be written when every header that may be on the media indexes
\* it, or when the contents are the only ones it may hold.
LEMMA MediaWriteTarget ==
    ASSUME TypeInv, Media, NEW l \in Targets, NEW v \in Data, WriteTarget(l, v),
           UNCHANGED <<base, point>>, want' = want \/ (~point /\ hdr.kind # "zero"),
           \A h \in hposs : h.kind = "torn" \/ l \in Lbas(h.log) \/ tposs[l] = {v}
    PROVE  Media'
<1>1. /\ tgt' = [tgt EXCEPT ![l] = v]
      /\ tposs' = [tposs EXCEPT ![l] = @ \cup {v} \cup TornOver(@, v)]
      /\ UNCHANGED <<slot, sposs, hdr, hposs>> BY DEF WriteTarget
<1>2. /\ tgt \in [Targets -> Data] /\ tposs \in [Targets -> SUBSET Data] BY DEF TypeInv, DeviceOK, Images
<1>3. ASSUME NEW h \in hposs PROVE Resolved(h)' = Resolved(h) /\ Pending(h)' = Pending(h) BY DEF Resolved, Pending
<1>4. ASSUME NEW h \in hposs, h.kind # "torn", NEW k \in Targets, k \notin Lbas(h.log)
      PROVE  tposs'[k] = tposs[k]
  <2>1. CASE k # l BY <1>1, <1>2, <2>1
  <2>2. CASE k = l
    <3>1. tposs[l] = {v} BY <1>4, <2>2
    <3>2. TornOver(tposs[l], v) = {} BY <3>1 DEF TornOver
    <3>3. QED BY <1>1, <1>2, <2>2, <3>1, <3>2
  <2>3. QED BY <2>1, <2>2
<1>5. ASSUME NEW h \in hposs PROVE RecoversTo(h)'
  <2> SUFFICES ASSUME h.kind # "torn"
               PROVE  /\ \A i \in DOMAIN h.log :
                            /\ h.log[i].old = Resolved(h)[h.log[i].lba]
                            /\ i \in Slots /\ sposs[i] = {h.log[i].old}
                      /\ \A k \in Targets : k \notin Lbas(h.log) => tposs'[k] = {Resolved(h)[k]}
    BY <1>1, <1>3 DEF RecoversTo
  <2>1. RecoversTo(h) BY DEF Media
  <2>2. QED BY <2>1, <1>4 DEF RecoversTo
<1>6. \A k \in Targets : tgt'[k] \in tposs'[k] BY <1>1, <1>2 DEF Media
<1>7. QED BY <1>1, <1>3, <1>5, <1>6 DEF Media

\* A target WRITE that failed.
LEMMA MediaFailedTarget ==
    ASSUME TypeInv, Media, NEW l \in Targets, NEW v \in Data, FailedTarget(l, v),
           UNCHANGED history,
           \A h \in hposs : h.kind = "torn" \/ l \in Lbas(h.log) \/ tposs[l] = {v}
    PROVE  Media'
<1>1. CASE UNCHANGED device BY <1>1, MediaFrame
<1>2. ASSUME NEW x \in {v} \cup TornOver(tposs[l], v), WriteTarget(l, x) PROVE Media'
  <2>1. x \in Data BY DataAssumption DEF TornOver
  <2>2. \A h \in hposs : h.kind = "torn" \/ l \in Lbas(h.log) \/ tposs[l] = {x} BY DEF TornOver
  <2>3. QED BY <1>2, <2>1, <2>2, MediaWriteTarget DEF history
<1>3. QED BY <1>1, <1>2 DEF FailedTarget

\* A backup sector may be written when no header indexes it.
LEMMA MediaWriteSlot ==
    ASSUME TypeInv, Media, NEW j \in Slots, NEW v \in Data, WriteSlot(j, v),
           UNCHANGED history, \A h \in hposs : h.kind = "torn" \/ j \notin DOMAIN h.log
    PROVE  Media'
<1>1. /\ slot' = [slot EXCEPT ![j] = v]
      /\ sposs' = [sposs EXCEPT ![j] = @ \cup {v} \cup TornOver(@, v)]
      /\ UNCHANGED <<tgt, tposs, hdr, hposs, base, want, point>> BY DEF WriteSlot, history
<1>2. /\ slot \in [Slots -> Data] /\ sposs \in [Slots -> SUBSET Data] BY DEF TypeInv, DeviceOK
<1>3. ASSUME NEW h \in hposs PROVE RecoversTo(h)' /\ Pending(h)' = Pending(h)
  BY <1>1, <1>2 DEF Media, RecoversTo, Resolved, Pending
<1>4. \A i \in Slots : slot'[i] \in sposs'[i] BY <1>1, <1>2 DEF Media
<1>5. QED BY <1>1, <1>3, <1>4 DEF Media

\* A backup WRITE that failed.
LEMMA MediaFailedSlot ==
    ASSUME TypeInv, Media, NEW j \in Slots, NEW v \in Data, FailedSlot(j, v),
           UNCHANGED history, \A h \in hposs : h.kind = "torn" \/ j \notin DOMAIN h.log
    PROVE  Media'
<1>1. CASE UNCHANGED device BY <1>1, MediaFrame
<1>2. ASSUME NEW x \in {v} \cup TornOver(sposs[j], v), WriteSlot(j, x) PROVE Media'
  <2>1. x \in Data BY DataAssumption DEF TornOver
  <2>2. QED BY <1>2, <2>1, MediaWriteSlot
<1>3. QED BY <1>1, <1>2 DEF FailedSlot

\* A power loss leaves one of the possible headers, and the image it stands
\* for everywhere else.
LEMMA MediaCrash ==
    ASSUME TypeInv, Durable, Media, Crash
    PROVE  Media'
<1>1. /\ hdr' \in hposs /\ hposs' = {hdr'}
      /\ tposs' = [l \in Targets |-> {tgt'[l]}] /\ sposs' = [i \in Slots |-> {slot'[i]}]
      /\ \A l \in Targets : tgt'[l] \in tposs[l]
      /\ \A i \in Slots : slot'[i] \in sposs[i]
      /\ base' = Resolved(hdr') /\ want' = base' /\ point' = FALSE BY DEF Crash
<1>2. MediaHeader(hdr') BY <1>1 DEF Media, MediaHeader
<1>3. ASSUME NEW h, h = hdr' PROVE RecoversTo(h)'
  <2>0. MediaHeader(h) BY <1>2, <1>3
  <2>1. Resolved(h)' = Resolved(h) BY <1>1, <1>3 DEF Resolved
  <2>2. QED BY <1>1, <2>0, <2>1 DEF MediaHeader, RecoversTo
<1>4. ASSUME NEW h, h = hdr', h.log # <<>> PROVE Pending(h)'
  <2>1. h.kind = "active" BY <1>2, <1>4 DEF MediaHeader
  <2>2. QED BY <1>1, <2>1 DEF Pending
<1>5. QED
  <2>1. \A h \in hposs' : h = hdr' BY <1>1
  <2>2. \A h \in hposs' : RecoversTo(h)' /\ (hdr'.log # <<>> => Pending(h)') BY <2>1, <1>3, <1>4
  <2>3. QED BY <1>1, <1>2, <2>1, <2>2 DEF Media, MediaHeader

-----------------------------------------------------------------------------
(***************************************************************************)
(* One lemma per action: the step keeps the media recoverable, and leaves  *)
(* the stage it enters in order.                                           *)
(***************************************************************************)
IInvParts == Media /\ Stages

\* A call that ends in a fence leaves nothing to show but the media.
LEMMA FencedStages ==
    ASSUME pc' = "idle", fenced' = TRUE
    PROVE  Stages' BY DEF Stages, OpenTx, HealthyTx, AppendTx, WriteTx, CommitTx, Undoing, Closing, Opening,
      Published, FencedIdle, InTx, Appending

\* After a power loss or a remount only the media count.
LEMMA UnmountedStages ==
    ASSUME pc' = "unmounted", fenced' = FALSE
    PROVE  Stages' BY DEF Stages, OpenTx, HealthyTx, AppendTx, WriteTx, CommitTx, Undoing, Closing, Opening,
      Published, FencedIdle, InTx, Appending

\* An image can be read off an empty log.
LEMMA EmptyLog ==
    ASSUME TypeInv, Media, hdr.log = <<>>, hdr.kind # "torn"
    PROVE  \A l \in Targets : tposs[l] = {Resolved(ActiveHeader(<<>>))[l]}
<1>1. RecoversTo(hdr) BY DEF Media
<1>2. Lbas(hdr.log) = {} BY DEF Lbas
<1>3. Resolved(hdr) = Resolved(ActiveHeader(<<>>)) BY DEF Resolved, ActiveHeader
<1>4. QED BY <1>1, <1>2, <1>3 DEF RecoversTo

\* stx_format starts over a journal that never held a transaction.
LEMMA FormatStep ==
    ASSUME TypeInv, Durable, IInvParts, StxFormat
    PROVE  IInvParts'
<1>1. Media' BY MediaFrame DEF StxFormat, IInvParts
<1>2. CASE FailAndFence BY <1>1, <1>2, FencedStages DEF FailAndFence, Idle, IInvParts
<1>3. CASE ~FailAndFence
  <2>1. hdr.kind = "zero" /\ pc' = "closeW" /\ op' = "format" /\ fenced' = fenced /\ pc = "unmounted"
    BY <1>3 DEF StxFormat
  <2>2. UNCHANGED <<tgt, tposs, base, want, point, hposs, hdr>> BY <1>3 DEF StxFormat, device, history
  <2>3. hdr \in hposs /\ RecoversTo(hdr) /\ hdr.log = <<>> BY <2>1 DEF IInvParts, Media
  <2>4. ~point /\ base = want /\ \A l \in Targets : tposs[l] = {want[l]}
    BY <2>1, <2>3, EmptyLog DEF IInvParts, Media, Resolved
  <2>5. Closing' BY <2>1, <2>2, <2>4 DEF Closing
  <2>6. QED BY <1>1, <2>1, <2>5 DEF IInvParts, Stages, OpenTx, HealthyTx, AppendTx, WriteTx, CommitTx, Undoing,
    Opening, Published, FencedIdle, InTx, Appending
<1>4. QED BY <1>2, <1>3

\* stx_load found an active log: the loop of stx_abort starts over all of it.
LEMMA LoadActiveStages ==
    ASSUME TypeInv, Durable, IInvParts, LoadActive, ~fenced, op' # "commit"
    PROVE  IInvParts'
<1>1. Media' BY MediaFrame DEF LoadActive, IInvParts
<1>2. /\ log' = hdr.log /\ active' = TRUE /\ closing' = FALSE /\ idx' = Len(hdr.log)
      /\ pc' = IF hdr.log = <<>> THEN "undoS" ELSE "undo"
      /\ UNCHANGED <<tgt, tposs, hdr, hposs, base, want, point, fenced>> BY DEF LoadActive, device, history
<1>3. hdr.log \in Seq(Records) /\ hdr = ActiveHeader(hdr.log) /\ hdr.kind = "active"
  BY DEF TypeInv, DeviceOK, Headers, ActiveHeader, LoadActive
<1>4. hdr \in hposs /\ RecoversTo(hdr) BY DEF IInvParts, Media
<1>5. DOMAIN hdr.log = 1 .. Len(hdr.log) /\ Len(hdr.log) \in Nat BY <1>3
<1>6. \A i \in DOMAIN hdr.log : hdr.log[i].old = Resolved(hdr)[hdr.log[i].lba] BY <1>3, <1>4 DEF RecoversTo
<1>7. ASSUME NEW l \in Targets, \A i \in DOMAIN hdr.log : i <= Len(hdr.log) => hdr.log[i].lba # l
      PROVE  tgt[l] = Resolved(hdr)[l]
  <2>1. l \notin Lbas(hdr.log) BY <1>5, <1>7 DEF Lbas
  <2>2. tposs[l] = {Resolved(hdr)[l]} BY <2>1, <1>3, <1>4 DEF RecoversTo
  <2>3. QED BY <2>2 DEF IInvParts, Media
<1>8. pc' = "undo" => idx' \in DOMAIN log' /\ \A h \in hposs : Pending(h)
  BY <1>2, <1>3, <1>5, LastRecord DEF IInvParts, Media
<1>9. pc' = "undoS" => idx' = 0 BY <1>2, <1>3
<1>10. Resolved(ActiveHeader(log))' = Resolved(hdr) BY <1>2, <1>3 DEF Resolved, ActiveHeader
<1>11. \A h \in hposs : Pending(h)' = Pending(h) BY <1>2 DEF Pending
<1>12. (hdr = ActiveHeader(log))' BY <1>2, <1>3 DEF ActiveHeader
<1>13. Undoing' BY <1>2, <1>3, <1>6, <1>7, <1>8, <1>9, <1>10, <1>11, <1>12 DEF Undoing
<1>14. pc' \in {"undo", "undoS"} BY <1>2
<1>15. QED BY <1>1, <1>2, <1>13, <1>14 DEF IInvParts, Stages, OpenTx, HealthyTx, AppendTx, WriteTx, CommitTx, Closing,
  Opening, Published, FencedIdle, InTx, Appending

\* A mount publishes a clean log, starts to undo an active one, or fences.
LEMMA RecoverStep ==
    ASSUME TypeInv, Durable, IInvParts, StxRecover
    PROVE  IInvParts'
<1>0. pc = "unmounted" /\ ~fenced BY DEF StxRecover, IInvParts, Stages, FencedIdle
<1>1. CASE LoadClean /\ active' = FALSE /\ Idle /\ KeepCall /\ UNCHANGED <<fenced, history>>
  <2>1. Media' BY <1>1, MediaFrame DEF LoadClean, IInvParts
  <2>2. hdr'.kind = "clean" /\ pc' = "idle" /\ ~active' /\ ~fenced' BY <1>0, <1>1 DEF LoadClean, Idle, device
  <2>3. QED BY <2>1, <2>2 DEF IInvParts, Stages, OpenTx, HealthyTx, AppendTx, WriteTx, CommitTx, Undoing, Closing,
    Opening, Published, FencedIdle, InTx, Appending
<1>2. CASE LoadActive /\ op' = "recover" BY <1>0, <1>2, LoadActiveStages
<1>3. CASE LoadRefused BY <1>3, MediaFrame, FencedStages DEF LoadRefused, FailAndFence, Idle, IInvParts
<1>4. QED BY <1>1, <1>2, <1>3 DEF StxRecover

\* stx_begin recovers first, and opens only over a clean log.
LEMMA BeginStep ==
    ASSUME TypeInv, Durable, IInvParts, StxBegin
    PROVE  IInvParts'
<1>0. ~fenced BY DEF StxBegin, IInvParts, Stages, FencedIdle
<1>1. CASE LoadClean /\ active' = TRUE /\ UNCHANGED fenced /\ pc' = "openW" /\ op' = "begin"
           /\ UNCHANGED history
  <2>1. Media' BY <1>1, MediaFrame DEF LoadClean, IInvParts
  <2>2. hdr.kind = "clean" /\ log' = <<>> /\ UNCHANGED <<hdr, hposs, tposs, base, want, point>>
    BY <1>1 DEF LoadClean, device, history
  <2>3. hdr.log = <<>> BY <2>2 DEF IInvParts, Media
  <2>4. \A l \in Targets : tposs[l] = {Resolved(ActiveHeader(<<>>))[l]} BY <2>2, <2>3, EmptyLog DEF IInvParts
  <2>5. Opening' BY <1>1, <2>2, <2>3, <2>4 DEF Opening, Resolved
  <2>6. QED BY <1>0, <1>1, <2>1, <2>5 DEF IInvParts, Stages, OpenTx, HealthyTx, AppendTx, WriteTx, CommitTx, Undoing,
    Closing, Published, FencedIdle, InTx, Appending
<1>2. CASE LoadActive /\ op' = "begin" BY <1>0, <1>2, LoadActiveStages
<1>3. CASE LoadRefused BY <1>3, MediaFrame, FencedStages DEF LoadRefused, FailAndFence, Idle, IInvParts
<1>4. QED BY <1>1, <1>2, <1>3 DEF StxBegin

\* The empty active header stands for the same image as the clean one.
LEMMA OpenWriteStep ==
    ASSUME TypeInv, Durable, IInvParts, OpenWrite
    PROVE  IInvParts'
<1>1. /\ pc = "openW" /\ ~fenced /\ active /\ log = <<>> /\ hdr.log = <<>>
      /\ \A l \in Targets : tposs[l] = {Resolved(ActiveHeader(<<>>))[l]}
  BY DEF OpenWrite, IInvParts, Stages, Opening, FencedIdle
<1>2. ActiveHeader(log) = ActiveHeader(<<>>) BY <1>1
<1>3. /\ ActiveHeader(<<>>).log = <<>> /\ ActiveHeader(<<>>).kind = "active"
      /\ Lbas(<<>>) = {} /\ Distinct(<<>>) BY DEF ActiveHeader, Lbas, Distinct
<1>4. MediaHeader(ActiveHeader(<<>>)) BY <1>1, <1>3 DEF MediaHeader, RecoversTo
<1>5. UNCHANGED history BY DEF OpenWrite
<1>6. CASE FailedHeader(ActiveHeader(log)) /\ failed' = TRUE /\ FailAndFence
  BY <1>2, <1>3, <1>4, <1>5, <1>6, MediaFailedHeader, FencedStages DEF IInvParts, FailAndFence, Idle
<1>7. CASE WriteHeader(ActiveHeader(log)) /\ Goto("openS") /\ UNCHANGED <<failed, fenced>>
  <2>1. Media' BY <1>2, <1>3, <1>4, <1>5, <1>7, MediaWriteHeader DEF IInvParts
  <2>2. hdr' = ActiveHeader(<<>>) /\ UNCHANGED <<tposs, active, log, fenced>> /\ pc' = "openS"
    BY <1>2, <1>7 DEF WriteHeader, Goto, OpenWrite
  <2>3. Opening' BY <1>1, <1>3, <1>5, <2>2 DEF Opening, Resolved, history
  <2>4. QED BY <1>1, <2>1, <2>2, <2>3 DEF IInvParts, Stages, OpenTx, HealthyTx, AppendTx, WriteTx, CommitTx, Undoing,
    Closing, Published, FencedIdle, InTx, Appending
<1>8. QED BY <1>6, <1>7 DEF OpenWrite

\* The transaction opens on the image its empty header stands for.
LEMMA OpenBarrierStep ==
    ASSUME TypeInv, Durable, IInvParts, OpenBarrier
    PROVE  IInvParts'
<1>1. /\ pc = "openS" /\ ~fenced /\ active /\ log = <<>> /\ hdr = ActiveHeader(<<>>)
      /\ \A l \in Targets : tposs[l] = {Resolved(ActiveHeader(<<>>))[l]}
  BY DEF OpenBarrier, IInvParts, Stages, Opening, FencedIdle
<1>2. /\ ActiveHeader(<<>>).log = <<>> /\ ActiveHeader(<<>>).kind = "active"
      /\ Lbas(<<>>) = {} /\ Distinct(<<>>) /\ DOMAIN <<>> = {} BY DEF ActiveHeader, Lbas, Distinct
<1>3. CASE FailedBarrier /\ FailAndFence /\ UNCHANGED history
  BY <1>3, MediaFrame, FencedStages DEF FailedBarrier, FailAndFence, Idle, IInvParts
<1>4. CASE Barrier /\ Idle /\ UNCHANGED <<failed, fenced>>
           /\ base' = Resolved(hdr) /\ want' = Resolved(hdr) /\ point' = FALSE
  <2>1. Media' BY <1>1, <1>2, <1>4, MediaBarrier DEF IInvParts, Resolved, Barrier
  <2>2. /\ hdr' = hdr /\ hposs' = {hdr} /\ tgt' = tgt /\ UNCHANGED <<active, log, fenced>>
        /\ tposs' = [l \in Targets |-> {tgt[l]}] /\ pc' = "idle" BY <1>4 DEF Barrier, OpenBarrier, Idle
  <2>3. ASSUME NEW l \in Targets PROVE tgt[l] = Resolved(hdr)[l] BY <1>1 DEF IInvParts, Media
  <2>4. tgt = Resolved(hdr)
    <3>1. tgt \in [Targets -> Data] /\ Resolved(hdr) \in [Targets -> Data]
      BY DEF TypeInv, DeviceOK, RamOK, Resolved, Images
    <3>2. QED BY <2>3, <3>1
  <2>5. SavesBase' BY <1>1, <1>2, <1>4, <2>2, <2>3 DEF SavesBase, Distinct
  <2>6. OpenTx' /\ HealthyTx' BY <1>1, <1>2, <1>4, <2>2, <2>4, <2>5 DEF OpenTx, HealthyTx, InTx, Appending
  <2>7. QED BY <1>1, <2>1, <2>2, <2>6 DEF IInvParts, Stages, AppendTx, WriteTx, CommitTx, Undoing, Closing, Opening,
    Published, FencedIdle, Appending
<1>5. QED BY <1>3, <1>4 DEF OpenBarrier

\* stx_commit changes nothing before its barrier.
LEMMA CommitStep ==
    ASSUME TypeInv, Durable, IInvParts, StxCommit
    PROVE  IInvParts'
<1>1. Media' BY MediaFrame DEF StxCommit, IInvParts
<1>2. /\ pc = "idle" /\ active /\ ~failed /\ ~fenced /\ pc' = "commitS" /\ op' = "commit"
      /\ UNCHANGED <<tgt, tposs, hdr, hposs, log, active, failed, closing, fenced, base, want, point>>
  BY DEF StxCommit, device, flags, history
<1>3. InTx /\ InTx' BY <1>2 DEF InTx
<1>4. OpenTx' /\ HealthyTx' BY <1>2, <1>3 DEF IInvParts, Stages, OpenTx, HealthyTx, SavesBase, Appending, ActiveHeader
<1>5. QED BY <1>1, <1>2, <1>4 DEF IInvParts, Stages, AppendTx, WriteTx, CommitTx, Undoing, Closing, Opening,
  Published, FencedIdle, Appending

\* stx_abort starts with every record still to write back, or refuses.
LEMMA AbortStep ==
    ASSUME TypeInv, Durable, IInvParts, StxAbort
    PROVE  IInvParts'
<1>1. Media' BY MediaFrame DEF StxAbort, IInvParts
<1>2. CASE closing BY <1>1, <1>2, FencedStages DEF StxAbort, FailAndFence, Idle, IInvParts
<1>3. CASE ~closing
  <2>1. /\ pc = "idle" /\ active /\ ~fenced
        /\ pc' = IF log = <<>> THEN "undoS" ELSE "undo"
        /\ idx' = Len(log) /\ op' = "abort"
        /\ UNCHANGED <<tgt, tposs, hdr, hposs, log, active, failed, closing, fenced, base, want, point>>
    BY <1>3 DEF StxAbort, device, flags, history
  <2>2. ~point /\ SavesBase /\ \A h \in hposs : h.kind \in {"torn", "active"}
    BY <1>3, <2>1 DEF IInvParts, Stages, OpenTx, InTx
  <2>3. log \in Seq(Records) /\ DOMAIN log = 1 .. Len(log) /\ Len(log) \in Nat BY DEF TypeInv, RamOK
  <2>4. Resolved(ActiveHeader(log))' = base BY <2>1, <2>2 DEF Resolved
  <2>5. pc' = "undo" => idx' \in DOMAIN log BY <2>1, <2>3, LastRecord
  <2>6. ASSUME NEW l \in Targets, \A i \in DOMAIN log : i <= Len(log) => log[i].lba # l
        PROVE  tgt[l] = base[l]
    <3>1. l \notin Lbas(log) BY <2>3, <2>6 DEF Lbas
    <3>2. tposs[l] = {base[l]} BY <3>1, <2>2 DEF SavesBase
    <3>3. QED BY <3>2 DEF IInvParts, Media
  <2>7. hdr \in hposs BY DEF IInvParts, Media
  <2>8. Undoing' BY <1>3, <2>1, <2>2, <2>3, <2>4, <2>5, <2>6, <2>7 DEF Undoing, SavesBase, Pending
  <2>9. pc' \in {"undo", "undoS"} BY <2>1
  <2>10. QED BY <1>1, <2>1, <2>8, <2>9 DEF IInvParts, Stages, OpenTx, HealthyTx, AppendTx, WriteTx, CommitTx, Closing,
    Opening, Published, FencedIdle, InTx, Appending
<1>4. QED BY <1>2, <1>3

\* A remount keeps the media.
LEMMA RemountStep ==
    ASSUME TypeInv, Durable, IInvParts, Remount
    PROVE  IInvParts' BY MediaFrame, UnmountedStages DEF IInvParts, Remount

\* A refused stx_write fails the transaction and nothing else.
LEMMA WriteRefusedStep ==
    ASSUME TypeInv, Durable, IInvParts, StxWriteRefused
    PROVE  IInvParts'
<1>1. Media' BY MediaFrame DEF StxWriteRefused, IInvParts
<1>2. /\ pc = "idle" /\ active /\ ~closing /\ ~fenced /\ failed' = TRUE
      /\ UNCHANGED <<tgt, tposs, hdr, hposs, log, active, closing, fenced, base, want, point, pc>>
  BY DEF StxWriteRefused, Writable, device, history
<1>3. OpenTx' BY <1>2 DEF IInvParts, Stages, OpenTx, InTx, SavesBase
<1>4. QED BY <1>1, <1>2, <1>3 DEF IInvParts, Stages, HealthyTx, AppendTx, WriteTx, CommitTx, Undoing, Closing,
  Opening, Published, FencedIdle, InTx, Appending

\* A sector that has its record is written at once.
LEMMA WriteAgainStep ==
    ASSUME TypeInv, Durable, IInvParts, NEW l \in Targets, NEW v \in Data, StxWriteAgain(l, v)
    PROVE  IInvParts'
<1>1. Media' BY MediaFrame DEF StxWriteAgain, IInvParts
<1>2. /\ pc = "idle" /\ active /\ ~closing /\ ~failed /\ ~fenced /\ pc' = "tw" /\ l \in Lbas(log)
      /\ arg' = [lba |-> l, data |-> v]
      /\ UNCHANGED <<tgt, tposs, hdr, hposs, log, active, failed, closing, fenced, base, want, point>>
  BY DEF StxWriteAgain, Writable, device, flags, history
<1>3. OpenTx' /\ HealthyTx' BY <1>2 DEF IInvParts, Stages, OpenTx, HealthyTx, InTx, SavesBase, Appending, ActiveHeader
<1>4. WriteTx' BY <1>2 DEF WriteTx
<1>5. QED BY <1>1, <1>2, <1>3, <1>4 DEF IInvParts, Stages, AppendTx, CommitTx, Undoing, Closing, Opening, Published,
  FencedIdle, Appending

\* Appending a record of the contents that are read extends what the log saves.
LEMMA AppendSaves ==
    ASSUME TypeInv, Media, SavesBase, NEW l \in Targets, l \notin Lbas(log),
           log' = Append(log, [lba |-> l, old |-> tgt[l]]), UNCHANGED <<tposs, base>>
    PROVE  /\ SavesBase' /\ log' \in Seq(Records) /\ Len(log') = Len(log) + 1
           /\ log'[Len(log')] = [lba |-> l, old |-> tgt[l]]
           /\ DOMAIN log' = 1 .. Len(log) + 1
           /\ \A i \in DOMAIN log : log'[i] = log[i]
<1> DEFINE r == [lba |-> l, old |-> tgt[l]]
<1>1. log \in Seq(Records) /\ r \in Records BY DEF TypeInv, RamOK, DeviceOK, Images, Records
<1>2. /\ log' \in Seq(Records) /\ Len(log') = Len(log) + 1 /\ Len(log) \in Nat
      /\ log'[Len(log) + 1] = r /\ \A i \in 1 .. Len(log) : log'[i] = log[i]
      /\ DOMAIN log = 1 .. Len(log) /\ DOMAIN log' = 1 .. Len(log) + 1 BY <1>1
<1>3. tgt[l] = base[l] BY DEF Media, SavesBase
<1>4. ASSUME NEW i \in DOMAIN log PROVE log[i].lba # l /\ log[i].lba \in Lbas(log) BY DEF Lbas
<1>5. Distinct(log') BY <1>2, <1>4 DEF SavesBase, Distinct
<1>6. \A i \in DOMAIN log' : log'[i].old = base[log'[i].lba] BY <1>2, <1>3 DEF SavesBase
<1>7. ASSUME NEW k \in Targets, k \notin Lbas(log') PROVE tposs[k] = {base[k]}
  <2>1. k \notin Lbas(log) BY <1>2, <1>7 DEF Lbas
  <2>2. QED BY <2>1 DEF SavesBase
<1>8. QED BY <1>2, <1>5, <1>6, <1>7 DEF SavesBase

\* stx_write takes the old contents of a sector it has no record of.
LEMMA WriteNewStep ==
    ASSUME TypeInv, Durable, IInvParts, NEW l \in Targets, NEW v \in Data, StxWriteNew(l, v)
    PROVE  IInvParts'
<1>1. Media' BY MediaFrame DEF StxWriteNew, IInvParts
<1>2. /\ pc = "idle" /\ active /\ ~closing /\ ~failed /\ ~fenced /\ pc' = "backupW"
      /\ l \notin Lbas(log) /\ log' = Append(log, [lba |-> l, old |-> tgt[l]])
      /\ arg' = [lba |-> l, data |-> v]
      /\ UNCHANGED <<tgt, tposs, hdr, hposs, active, failed, closing, fenced, base, want, point>>
  BY DEF StxWriteNew, Writable, device, flags, history
<1>3. /\ ~point /\ tgt = want /\ SavesBase /\ hdr = ActiveHeader(log) /\ hposs = {hdr}
  BY <1>2 DEF IInvParts, Stages, HealthyTx, InTx, Appending
<1>4. /\ SavesBase' /\ log' \in Seq(Records) /\ Len(log') = Len(log) + 1 /\ Len(log) \in Nat
      /\ log'[Len(log')] = [lba |-> l, old |-> tgt[l]] BY <1>2, <1>3, AppendSaves DEF IInvParts, TypeInv, RamOK
<1>5. hdr.kind = "active" /\ hdr.log = log BY <1>3 DEF ActiveHeader
<1>6. OpenTx' /\ HealthyTx' BY <1>2, <1>3, <1>4, <1>5 DEF OpenTx, HealthyTx, InTx, Appending
<1>7. AppendTx' BY <1>2, <1>3, <1>4, <1>5 DEF AppendTx, Appending
<1>8. QED BY <1>1, <1>2, <1>6, <1>7 DEF IInvParts, Stages, WriteTx, CommitTx, Undoing, Closing, Opening, Published,
  FencedIdle

\* A transaction that failed keeps what its abort needs.
LEMMA FailedStages ==
    ASSUME pc' = "idle", active', failed', fenced' = FALSE,
           ~point', SavesBase', \A h \in hposs' : h.kind \in {"torn", "active"}
    PROVE  Stages' BY DEF Stages, OpenTx, HealthyTx, AppendTx, WriteTx, CommitTx, Undoing, Closing, Opening,
      Published, FencedIdle, InTx, Appending

\* What holds while stx_write adds a record.
LEMMA AppendFacts ==
    ASSUME TypeInv, IInvParts, pc \in Appending
    PROVE  /\ active /\ ~failed /\ ~closing /\ fenced = FALSE /\ ~point /\ tgt = want /\ SavesBase
           /\ \A h \in hposs : h.kind \in {"torn", "active"}
           /\ log \in Seq(Records) /\ Len(log) \in DOMAIN log /\ Len(log) \in Slots
           /\ DOMAIN log = 1 .. Len(log)
           /\ arg.lba = log[Len(log)].lba /\ log[Len(log)] \in Records
<1>1. /\ active /\ ~failed /\ ~closing /\ log # <<>> /\ arg.lba = log[Len(log)].lba BY DEF IInvParts, Stages, AppendTx
<1>2. fenced = FALSE BY DEF IInvParts, Stages, FencedIdle, Appending, TypeInv, RamOK
<1>3. InTx BY <1>1, <1>2 DEF InTx
<1>4. ~point /\ tgt = want /\ SavesBase /\ \A h \in hposs : h.kind \in {"torn", "active"}
  BY <1>1, <1>3 DEF IInvParts, Stages, HealthyTx, OpenTx
<1>5. log \in Seq(Records) /\ Len(log) <= STX_MAX BY DEF TypeInv, RamOK
<1>6. /\ Len(log) \in 1 .. Len(log) /\ Len(log) \in DOMAIN log /\ log[Len(log)] \in Records
      /\ DOMAIN log = 1 .. Len(log) BY <1>1, <1>5, LastRecord
<1>7. Len(log) \in Slots BY <1>5, <1>6, StxMaxAssumption DEF Slots
<1>8. QED BY <1>1, <1>2, <1>4, <1>5, <1>6, <1>7

\* Until the header indexes the new record it holds all the others.
LEMMA Unindexed ==
    ASSUME TypeInv, IInvParts, pc \in {"backupW", "backupS", "indexW"}
    PROVE  /\ hposs = {hdr} /\ hdr.kind = "active"
           /\ Len(log) \notin DOMAIN hdr.log
           /\ \A i \in DOMAIN log : i # Len(log) => i \in DOMAIN hdr.log /\ hdr.log[i] = log[i]
<1>1. /\ hposs = {hdr} /\ hdr.kind = "active" /\ log = Append(hdr.log, log[Len(log)])
  BY DEF IInvParts, Stages, AppendTx, Appending
<1>2. hdr.log \in Seq(Records) /\ log[Len(log)] \in Records BY AppendFacts DEF TypeInv, DeviceOK, Headers, Appending
<1>3. ASSUME NEW s \in Seq(Records), NEW r \in Records, log = Append(s, r)
      PROVE  Len(log) = Len(s) + 1 /\ DOMAIN log = 1 .. Len(s) + 1 /\ DOMAIN s = 1 .. Len(s)
             /\ Len(s) \in Nat /\ \A i \in 1 .. Len(s) : log[i] = s[i] BY <1>3
<1>4. QED BY <1>1, <1>2, <1>3

\* The old contents go to their backup sector.
LEMMA BackupWriteStep ==
    ASSUME TypeInv, Durable, IInvParts, BackupWrite
    PROVE  IInvParts'
<1>1. pc = "backupW" /\ pc \in Appending /\ UNCHANGED <<log, active, closing, fenced, history, arg>>
  BY DEF BackupWrite, Appending, KeepCall
<1>2. log[Len(log)].old \in Data /\ Len(log) \in Slots BY <1>1, AppendFacts DEF Records
<1>3. \A h \in hposs : h.kind = "torn" \/ Len(log) \notin DOMAIN h.log BY <1>1, Unindexed
<1>4. CASE FailedSlot(Len(log), log[Len(log)].old) /\ failed' = TRUE /\ Idle
  <2>1. Media' BY <1>1, <1>2, <1>3, <1>4, MediaFailedSlot DEF IInvParts
  <2>2. UNCHANGED <<tposs, hposs>> BY <1>4 DEF FailedSlot, WriteSlot, device
  <2>3. SavesBase' /\ ~point' /\ \A h \in hposs' : h.kind \in {"torn", "active"}
    BY <1>1, <2>2, AppendFacts DEF SavesBase, history
  <2>4. QED BY <1>1, <1>4, <2>1, <2>3, FailedStages, AppendFacts DEF IInvParts, Idle
<1>5. CASE WriteSlot(Len(log), log[Len(log)].old) /\ Goto("backupS") /\ UNCHANGED failed
  <2>1. Media' BY <1>1, <1>2, <1>3, <1>5, MediaWriteSlot DEF IInvParts
  <2>2. /\ UNCHANGED <<tgt, tposs, hdr, hposs>> /\ pc' = "backupS"
        /\ slot' = [slot EXCEPT ![Len(log)] = log[Len(log)].old] BY <1>5 DEF WriteSlot, Goto
  <2>3. slot'[Len(log)] = log[Len(log)].old BY <1>2, <2>2 DEF TypeInv, DeviceOK
  <2>4. SavesBase' /\ ~point' /\ tgt' = want' /\ \A h \in hposs' : h.kind \in {"torn", "active"}
    BY <1>1, <2>2, AppendFacts DEF SavesBase, history
  <2>5. OpenTx' /\ HealthyTx' BY <2>2, <2>4 DEF OpenTx, HealthyTx, Appending
  <2>6. AppendTx' BY <1>1, <1>5, <2>2, <2>3 DEF AppendTx, IInvParts, Stages, Appending
  <2>7. QED BY <1>1, <2>1, <2>2, <2>5, <2>6, AppendFacts DEF IInvParts, Stages, WriteTx, CommitTx, Undoing, Closing,
    Opening, Published, FencedIdle
<1>6. QED BY <1>4, <1>5 DEF BackupWrite

\* A barrier changes nothing that is read, so what the log saves stays saved.
LEMMA BarrierSaves ==
    ASSUME Media, SavesBase, Barrier, UNCHANGED <<log, base>>
    PROVE  SavesBase'
<1>1. tposs' = [l \in Targets |-> {tgt[l]}] BY DEF Barrier
<1>2. ASSUME NEW l \in Targets, l \notin Lbas(log) PROVE tposs'[l] = {base[l]}
  <2>1. tposs[l] = {base[l]} /\ tgt[l] \in tposs[l] BY <1>2 DEF SavesBase, Media
  <2>2. QED BY <1>1, <2>1
<1>3. QED BY <1>2 DEF SavesBase

\* A failed barrier while a record is added.
LEMMA FailedAppendBarrier ==
    ASSUME TypeInv, IInvParts, pc \in Appending, FailedBarrier, failed' = TRUE, Idle,
           UNCHANGED <<log, active, fenced, history>>
    PROVE  IInvParts'
<1>1. Media' /\ UNCHANGED <<tposs, hposs>> BY MediaFrame DEF IInvParts, FailedBarrier, device
<1>2. SavesBase' /\ ~point' /\ \A h \in hposs' : h.kind \in {"torn", "active"}
  BY <1>1, AppendFacts DEF SavesBase, history
<1>3. QED BY <1>1, <1>2, FailedStages, AppendFacts DEF IInvParts, Idle

\* The barrier after the backup.
LEMMA BackupBarrierStep ==
    ASSUME TypeInv, Durable, IInvParts, BackupBarrier
    PROVE  IInvParts'
<1>1. pc = "backupS" /\ pc \in Appending /\ UNCHANGED <<log, active, closing, fenced, history, arg>>
  BY DEF BackupBarrier, Appending, KeepCall
<1>2. CASE FailedBarrier /\ failed' = TRUE /\ Idle BY <1>1, <1>2, FailedAppendBarrier
<1>3. CASE Barrier /\ Goto("indexW") /\ UNCHANGED failed
  <2>1. /\ UNCHANGED <<tgt, slot, hdr>> /\ hposs' = {hdr} /\ pc' = "indexW"
        /\ sposs' = [i \in Slots |-> {slot[i]}] BY <1>3 DEF Barrier, Goto
  <2>2. Media' BY <1>1, <1>3, <2>1, Unindexed, MediaBarrier DEF IInvParts, Resolved, history
  <2>3. SavesBase' /\ ~point' /\ tgt' = want' /\ hdr.kind = "active"
    BY <1>1, <1>3, <2>1, AppendFacts, BarrierSaves, Unindexed DEF IInvParts, history
  <2>4. sposs'[Len(log)] = {log[Len(log)].old} BY <1>1, <2>1, AppendFacts DEF IInvParts, Stages, AppendTx
  <2>5. OpenTx' /\ HealthyTx' BY <2>1, <2>3 DEF OpenTx, HealthyTx, Appending
  <2>6. AppendTx' BY <1>1, <1>3, <2>1, <2>4 DEF AppendTx, IInvParts, Stages, Appending
  <2>7. QED BY <1>1, <2>1, <2>2, <2>5, <2>6, AppendFacts DEF IInvParts, Stages, WriteTx, CommitTx, Undoing, Closing,
    Opening, Published, FencedIdle
<1>4. QED BY <1>2, <1>3 DEF BackupBarrier

\* The header that indexes the backups already on the media.
LEMMA IndexWriteStep ==
    ASSUME TypeInv, Durable, IInvParts, IndexWrite
    PROVE  IInvParts'
<1>1. pc = "indexW" /\ pc \in Appending /\ UNCHANGED <<log, active, closing, fenced, history, arg>>
  BY DEF IndexWrite, Appending, KeepCall
<1> DEFINE h == ActiveHeader(log)
<1>2. h.kind = "active" /\ h.log = log /\ h.kind # "zero" BY DEF ActiveHeader
<1>3. RecoversTo(hdr) /\ hdr.kind = "active" /\ sposs[Len(log)] = {log[Len(log)].old}
  BY <1>1, Unindexed DEF IInvParts, Media, Stages, AppendTx, Appending
<1>4. Resolved(h) = base BY <1>1, AppendFacts DEF Resolved
<1>5. ASSUME NEW i \in DOMAIN log
      PROVE  log[i].old = base[log[i].lba] /\ i \in Slots /\ sposs[i] = {log[i].old}
  <2>1. log[i].old = base[log[i].lba] BY <1>1, AppendFacts DEF SavesBase
  <2>2. CASE i = Len(log) BY <1>1, <1>3, <2>1, <2>2, AppendFacts
  <2>3. CASE i # Len(log) BY <1>1, <1>3, <2>1, <2>3, Unindexed DEF RecoversTo
  <2>4. QED BY <2>2, <2>3
<1>6. MediaHeader(h) BY <1>1, <1>2, <1>4, <1>5, AppendFacts DEF MediaHeader, RecoversTo, SavesBase
<1>7. Pending(h) /\ \A g \in hposs : Pending(g) BY <1>1, <1>2, Unindexed, AppendFacts DEF Pending
<1>8. CASE FailedHeader(h) /\ failed' = TRUE /\ Idle
  <2>1. Media' BY <1>1, <1>2, <1>6, <1>7, <1>8, MediaFailedHeader DEF IInvParts
  <2>2. tposs' = tposs /\ hposs' \subseteq hposs \cup {h} \cup TornHeaders
    BY <1>8 DEF FailedHeader, WriteHeader, device
  <2>3. SavesBase' /\ ~point' BY <1>1, <2>2, AppendFacts DEF SavesBase, history
  <2>4. \A g \in hposs' : g.kind \in {"torn", "active"} BY <1>1, <1>2, <2>2, AppendFacts DEF TornHeaders, TornHeader
  <2>5. QED BY <1>1, <1>8, <2>1, <2>3, <2>4, FailedStages, AppendFacts DEF IInvParts, Idle
<1>9. CASE WriteHeader(h) /\ Goto("indexS") /\ UNCHANGED failed
  <2>1. Media' BY <1>1, <1>2, <1>6, <1>7, <1>9, MediaWriteHeader DEF IInvParts
  <2>2. /\ UNCHANGED <<tgt, tposs, slot, sposs>> /\ pc' = "indexS" /\ hdr' = h
        /\ hposs' = hposs \cup {h} \cup TornHeaders BY <1>9 DEF WriteHeader, Goto
  <2>3. SavesBase' /\ ~point' /\ tgt' = want' BY <1>1, <2>2, AppendFacts DEF SavesBase, history
  <2>4. \A g \in hposs' : g.kind \in {"torn", "active"} BY <1>1, <1>2, <2>2, AppendFacts DEF TornHeaders, TornHeader
  <2>5. OpenTx' /\ HealthyTx' BY <1>1, <2>2, <2>3, <2>4 DEF OpenTx, HealthyTx, Appending, ActiveHeader
  <2>6. AppendTx' BY <1>1, <1>3, <1>9, <2>2, AppendFacts DEF AppendTx, IInvParts, Stages, Appending
  <2>7. QED BY <1>1, <2>1, <2>2, <2>5, <2>6, AppendFacts DEF IInvParts, Stages, WriteTx, CommitTx, Undoing, Closing,
    Opening, Published, FencedIdle
<1>10. QED BY <1>8, <1>9 DEF IndexWrite

\* The barrier after the header: the sector may be written.
LEMMA IndexBarrierStep ==
    ASSUME TypeInv, Durable, IInvParts, IndexBarrier
    PROVE  IInvParts'
<1>1. pc = "indexS" /\ pc \in Appending /\ UNCHANGED <<log, active, closing, fenced, history, arg>>
  BY DEF IndexBarrier, Appending, KeepCall
<1>2. CASE FailedBarrier /\ failed' = TRUE /\ Idle BY <1>1, <1>2, FailedAppendBarrier
<1>3. CASE Barrier /\ Goto("tw") /\ UNCHANGED failed
  <2>1. UNCHANGED <<tgt, slot, hdr>> /\ hposs' = {hdr} /\ pc' = "tw" BY <1>3 DEF Barrier, Goto
  <2>2. hdr = ActiveHeader(log) /\ hdr.kind = "active"
    <3>1. InTx /\ ~failed BY <1>1, AppendFacts DEF InTx
    <3>2. QED BY <1>1, <3>1 DEF IInvParts, Stages, HealthyTx, ActiveHeader
  <2>3. Media' BY <1>1, <1>3, <2>1, <2>2, MediaBarrier DEF IInvParts, Resolved, history
  <2>4. SavesBase' /\ ~point' /\ tgt' = want' BY <1>1, <1>3, <2>1, AppendFacts, BarrierSaves DEF IInvParts, history
  <2>5. OpenTx' /\ HealthyTx' BY <1>1, <2>1, <2>2, <2>4 DEF OpenTx, HealthyTx, Appending, ActiveHeader
  <2>6. WriteTx' BY <1>1, <1>3, <2>1, AppendFacts DEF WriteTx, Lbas
  <2>7. QED BY <1>1, <2>1, <2>3, <2>5, <2>6, AppendFacts DEF IInvParts, Stages, AppendTx, CommitTx, Undoing, Closing,
    Opening, Published, FencedIdle, Appending
<1>4. QED BY <1>2, <1>3 DEF IndexBarrier

\* The sector itself: every header that may be on the media indexes it.
LEMMA TargetWriteStep ==
    ASSUME TypeInv, Durable, IInvParts, TargetWrite
    PROVE  IInvParts'
<1>1. /\ pc = "tw" /\ pc' = "idle" /\ UNCHANGED <<log, active, closing, fenced, base, point>> BY DEF TargetWrite, Idle
<1>2. active /\ ~failed /\ ~closing /\ fenced = FALSE /\ arg.lba \in Lbas(log)
  BY <1>1 DEF IInvParts, Stages, WriteTx, FencedIdle, TypeInv, RamOK
<1>3. ~point /\ tgt = want /\ SavesBase /\ hdr = ActiveHeader(log) /\ hposs = {hdr}
  BY <1>1, <1>2 DEF IInvParts, Stages, HealthyTx, InTx, Appending
<1>4. arg.lba \in Targets /\ arg.data \in Data BY DEF TypeInv, RamOK
<1>5. hdr.kind = "active" /\ \A h \in hposs : arg.lba \in Lbas(h.log) BY <1>2, <1>3 DEF ActiveHeader
<1>6. ASSUME NEW x \in Data, UNCHANGED device \/ WriteTarget(arg.lba, x)
      PROVE  SavesBase' /\ UNCHANGED <<hdr, hposs>>
  <2>1. UNCHANGED <<hdr, hposs>> BY <1>6 DEF WriteTarget, device
  <2>2. ASSUME NEW k \in Targets, k \notin Lbas(log) PROVE tposs'[k] = tposs[k]
    BY <1>2, <1>4, <1>6, <2>2 DEF WriteTarget, device, TypeInv, DeviceOK
  <2>3. QED BY <1>1, <1>3, <2>1, <2>2 DEF SavesBase
<1>7. CASE FailedTarget(arg.lba, arg.data) /\ failed' = TRUE /\ UNCHANGED want
  <2>1. Media' BY <1>1, <1>4, <1>5, <1>7, MediaFailedTarget DEF IInvParts, history
  <2>2. PICK x \in Data : UNCHANGED device \/ WriteTarget(arg.lba, x)
    BY <1>4, <1>7, DataAssumption DEF FailedTarget, TornOver
  <2>3. SavesBase' /\ UNCHANGED <<hdr, hposs>> BY <1>6, <2>2
  <2>4. QED BY <1>1, <1>2, <1>3, <1>5, <1>7, <2>1, <2>3, FailedStages DEF IInvParts
<1>8. CASE /\ WriteTarget(arg.lba, arg.data) /\ UNCHANGED failed
           /\ want' = [want EXCEPT ![arg.lba] = arg.data]
  <2>1. Media' BY <1>1, <1>3, <1>4, <1>5, <1>8, MediaWriteTarget DEF IInvParts
  <2>2. SavesBase' /\ UNCHANGED <<hdr, hposs>> /\ tgt' = want' BY <1>3, <1>4, <1>6, <1>8 DEF WriteTarget
  <2>3. OpenTx' /\ HealthyTx' BY <1>1, <1>3, <1>5, <2>2 DEF OpenTx, HealthyTx, Appending, ActiveHeader
  <2>4. QED BY <1>1, <1>2, <2>1, <2>3 DEF IInvParts, Stages, AppendTx, WriteTx, CommitTx, Undoing, Closing, Opening,
    Published, FencedIdle, Appending
<1>9. QED BY <1>7, <1>8 DEF TargetWrite

\* The barrier of stx_commit: from here on the new image is complete.
LEMMA CommitBarrierStep ==
    ASSUME TypeInv, Durable, IInvParts, CommitBarrier
    PROVE  IInvParts'
<1>1. pc = "commitS" /\ active /\ ~failed /\ fenced = FALSE /\ op = "commit" /\ UNCHANGED fenced
  BY DEF CommitBarrier, IInvParts, Stages, CommitTx, FencedIdle, TypeInv, RamOK
<1>2. ~point /\ tgt = want /\ SavesBase /\ hdr = ActiveHeader(log) /\ hposs = {hdr}
  BY <1>1 DEF IInvParts, Stages, HealthyTx, InTx, Appending
<1>3. hdr.kind = "active" /\ hdr.log = log BY <1>2 DEF ActiveHeader
<1>4. CASE FailedBarrier /\ failed' = TRUE /\ Idle /\ UNCHANGED <<log, active, closing, history>>
  <2>1. Media' /\ UNCHANGED <<tposs, hposs>> BY <1>4, MediaFrame DEF IInvParts, FailedBarrier, device
  <2>2. SavesBase' /\ ~point' /\ \A h \in hposs' : h.kind \in {"torn", "active"}
    BY <1>2, <1>3, <1>4, <2>1 DEF SavesBase, history
  <2>3. QED BY <1>1, <1>4, <2>1, <2>2, FailedStages DEF IInvParts, Idle
<1>5. CASE /\ Barrier /\ closing' = TRUE /\ point' = TRUE /\ Goto("closeW")
           /\ UNCHANGED <<log, active, failed, base, want>>
  <2>1. log = <<>> => base = want
    <3> SUFFICES ASSUME log = <<>> PROVE base = want OBVIOUS
    <3>1. Lbas(log) = {} BY DEF Lbas
    <3>2. \A l \in Targets : tgt[l] = base[l] BY <1>2, <3>1 DEF SavesBase, IInvParts, Media
    <3>3. QED BY <1>2, <3>2 DEF TypeInv, DeviceOK, RamOK, Images
  <2>2. Resolved(hdr)' = Resolved(hdr) BY <1>2, <1>3, <1>5, <2>1 DEF Resolved, Barrier
  <2>3. Media' BY <1>3, <1>5, <2>2, MediaBarrier DEF IInvParts
  <2>4. \A l \in Targets : tposs'[l] = {want'[l]} BY <1>2, <1>5 DEF Barrier
  <2>5. pc' = "closeW" /\ op' = "commit" BY <1>1, <1>5 DEF Goto
  <2>6. Closing' BY <1>1, <1>5, <2>4, <2>5 DEF Closing
  <2>7. QED BY <1>1, <2>3, <2>5, <2>6 DEF IInvParts, Stages, OpenTx, HealthyTx, AppendTx, WriteTx, CommitTx, Undoing,
    Opening, Published, FencedIdle, InTx, Appending
<1>6. QED BY <1>4, <1>5 DEF CommitBarrier

\* One record of stx_abort goes back: the media can only have held it there.
LEMMA UndoWriteStep ==
    ASSUME TypeInv, Durable, IInvParts, UndoWrite
    PROVE  IInvParts'
<1> DEFINE l == log[idx].lba
           v == log[idx].old
           img == Resolved(ActiveHeader(log))
<1>1. pc = "undo" /\ fenced = FALSE /\ UNCHANGED <<log, active, failed, closing, base, want, point>>
  BY DEF UndoWrite, flags, history, IInvParts, Stages, FencedIdle, TypeInv, RamOK
<1>2. /\ active /\ ~closing /\ op # "commit" /\ hdr.kind \in {"torn", "active"}
      /\ point => hdr = ActiveHeader(log)
      /\ \A i \in DOMAIN log : log[i].old = img[log[i].lba]
      /\ idx \in DOMAIN log /\ \A h \in hposs : Pending(h)
      /\ \A k \in Targets : (\A i \in DOMAIN log : i <= idx => log[i].lba # k) => tgt[k] = img[k]
  BY <1>1 DEF IInvParts, Stages, Undoing
<1>3. /\ log \in Seq(Records) /\ log[idx] \in Records /\ l \in Targets /\ v \in Data
      /\ DOMAIN log = 1 .. Len(log) /\ idx \in 1 .. Len(log) /\ Len(log) \in Nat
  <2>1. log \in Seq(Records) BY DEF TypeInv, RamOK
  <2>2. /\ DOMAIN log = 1 .. Len(log) /\ idx \in 1 .. Len(log) /\ Len(log) \in Nat
        /\ log[idx] \in Records BY <1>2, <2>1
  <2>3. QED BY <2>1, <2>2 DEF Records
<1>4. img = base /\ log # <<>>
  <2>1. log # <<>> BY <1>2
  <2>2. QED BY <2>1 DEF Resolved, ActiveHeader
<1>5. ASSUME NEW h \in hposs PROVE h.kind = "torn" \/ l \in Lbas(h.log) \/ tposs[l] = {v}
  <2> SUFFICES ASSUME h.kind # "torn", l \notin Lbas(h.log) PROVE tposs[l] = {v} OBVIOUS
  <2>1. h.kind = "active" /\ (point => h.log # <<>>) BY <1>2 DEF Pending
  <2>2. Resolved(h) = base BY <2>1 DEF Resolved
  <2>3. RecoversTo(h) BY DEF IInvParts, Media
  <2>4. QED BY <1>2, <1>3, <1>4, <2>2, <2>3 DEF RecoversTo
<1>6. CASE FailedTarget(l, v) /\ FailAndFence
  BY <1>1, <1>3, <1>5, <1>6, MediaFailedTarget, FencedStages DEF IInvParts, FailAndFence, Idle, history
<1>7. CASE /\ WriteTarget(l, v) /\ idx' = idx - 1
           /\ Goto(IF idx = 1 THEN "undoS" ELSE "undo") /\ UNCHANGED fenced
  <2>1. Media' BY <1>1, <1>3, <1>5, <1>7, MediaWriteTarget DEF IInvParts
  <2>2. /\ UNCHANGED <<hdr, hposs>> /\ tgt' = [tgt EXCEPT ![l] = v] /\ op' = op
        /\ pc' = IF idx = 1 THEN "undoS" ELSE "undo" BY <1>7 DEF WriteTarget, Goto
  <2>3. Resolved(ActiveHeader(log))' = img BY <1>1 DEF Resolved, ActiveHeader
  <2>4. \A h \in hposs' : Pending(h)' BY <1>1, <1>2, <2>2 DEF Pending
  <2>5. ASSUME NEW k \in Targets, \A i \in DOMAIN log : i <= idx - 1 => log[i].lba # k
        PROVE  tgt'[k] = img[k]
    <3>0. tgt \in [Targets -> Data] BY DEF TypeInv, DeviceOK, Images
    <3>1. CASE k = l BY <1>2, <1>3, <2>2, <3>0, <3>1
    <3>2. CASE k # l
      <4>1. \A i \in DOMAIN log : i <= idx => log[i].lba # k BY <1>3, <2>5, <3>2
      <4>2. QED BY <1>2, <2>2, <3>0, <3>2, <4>1
    <3>3. QED BY <3>1, <3>2
  <2>6. idx' \in Int /\ (pc' = "undo" => idx' \in DOMAIN log) /\ (pc' = "undoS" => idx' = 0) BY <1>3, <1>7, <2>2
  <2>7. (point => hdr = ActiveHeader(log))' BY <1>1, <1>2, <2>2 DEF ActiveHeader
  <2>8. Undoing' BY <1>1, <1>2, <1>7, <2>2, <2>3, <2>4, <2>5, <2>6, <2>7 DEF Undoing
  <2>9. pc' \in {"undo", "undoS"} BY <2>2
  <2>10. QED BY <1>1, <1>7, <2>1, <2>8, <2>9 DEF IInvParts, Stages, OpenTx, HealthyTx, AppendTx, WriteTx, CommitTx,
    Closing, Opening, Published, FencedIdle, InTx, Appending
<1>8. QED BY <1>6, <1>7 DEF UndoWrite

\* The barrier of stx_abort: the old image is back.
LEMMA UndoBarrierStep ==
    ASSUME TypeInv, Durable, IInvParts, UndoBarrier
    PROVE  IInvParts'
<1> DEFINE img == Resolved(ActiveHeader(log))
<1>1. pc = "undoS" /\ fenced = FALSE BY DEF UndoBarrier, IInvParts, Stages, FencedIdle, TypeInv, RamOK
<1>2. /\ active /\ ~closing /\ op # "commit" /\ hdr.kind \in {"torn", "active"}
      /\ point => hdr = ActiveHeader(log)
      /\ idx = 0
      /\ \A k \in Targets : (\A i \in DOMAIN log : i <= idx => log[i].lba # k) => tgt[k] = img[k]
  BY <1>1 DEF IInvParts, Stages, Undoing
<1>3. CASE FailedBarrier /\ FailAndFence /\ UNCHANGED history
  BY <1>3, MediaFrame, FencedStages DEF FailedBarrier, FailAndFence, Idle, IInvParts
<1>4. CASE /\ Barrier /\ closing' = TRUE /\ Goto("closeW")
           /\ base' = Resolved(ActiveHeader(log)) /\ want' = base' /\ point' = FALSE
           /\ UNCHANGED <<log, active, fenced>>
  <2>1. ASSUME hdr.kind # "torn" PROVE Resolved(hdr)' = Resolved(hdr)
    <3>1. Resolved(hdr)' = img BY <1>4 DEF Resolved
    <3>2. Resolved(hdr) = img BY <1>2 DEF Resolved
    <3>3. QED BY <3>1, <3>2
  <2>2. Media' BY <1>2, <1>4, <2>1, MediaBarrier DEF IInvParts
  <2>3. ASSUME NEW k \in Targets PROVE tgt[k] = img[k]
    <3>1. log \in Seq(Records) /\ DOMAIN log = 1 .. Len(log) BY DEF TypeInv, RamOK
    <3>2. \A i \in DOMAIN log : ~(i <= idx) BY <1>2, <3>1
    <3>3. QED BY <1>2, <3>2
  <2>4. \A k \in Targets : tposs'[k] = {want'[k]} BY <1>4, <2>3 DEF Barrier
  <2>5. pc' = "closeW" /\ op' # "commit" BY <1>2, <1>4 DEF Goto
  <2>6. Closing' BY <1>2, <1>4, <2>4, <2>5 DEF Closing
  <2>7. QED BY <1>1, <1>4, <2>2, <2>5, <2>6 DEF IInvParts, Stages, OpenTx, HealthyTx, AppendTx, WriteTx, CommitTx,
    Undoing, Opening, Published, FencedIdle, InTx, Appending
<1>5. QED BY <1>3, <1>4 DEF UndoBarrier

\* A close that failed leaves the log closing, or fences the volume.
LEMMA CloseFailedStages ==
    ASSUME TypeInv, IInvParts, pc \in {"closeW", "closeS"}, CloseFailed
    PROVE  Stages'
<1>1. CASE op = "commit"
  <2>1. active' /\ closing' /\ failed' /\ pc' = "idle" /\ fenced' = FALSE
    BY <1>1 DEF IInvParts, Stages, Closing, CloseFailed, Idle, FencedIdle, TypeInv, RamOK
  <2>2. QED BY <2>1 DEF Stages, OpenTx, HealthyTx, AppendTx, WriteTx, CommitTx, Undoing, Closing, Opening, Published,
    FencedIdle, InTx, Appending
<1>2. CASE op # "commit" BY <1>2, FencedStages DEF CloseFailed, FailAndFence, Idle
<1>3. QED BY <1>1, <1>2

\* The clean header.
LEMMA CloseWriteStep ==
    ASSUME TypeInv, Durable, IInvParts, CloseWrite
    PROVE  IInvParts'
<1>1. pc = "closeW" /\ fenced = FALSE /\ UNCHANGED history
  BY DEF CloseWrite, CloseFailed, IInvParts, Stages, FencedIdle, TypeInv, RamOK
<1>2. /\ \A l \in Targets : tposs[l] = {want[l]}
      /\ op # "commit" => ~point /\ base = want
      /\ op = "commit" => point
      /\ op # "format" => active /\ closing BY <1>1 DEF IInvParts, Stages, Closing
<1>3. /\ CleanHeader.kind = "clean" /\ CleanHeader.log = <<>> /\ Lbas(<<>>) = {}
      /\ Distinct(<<>>) /\ DOMAIN <<>> = {} BY DEF CleanHeader, Lbas, Distinct
<1>4. Resolved(CleanHeader) = want BY <1>2, <1>3 DEF Resolved
<1>5. MediaHeader(CleanHeader) /\ CleanHeader.kind # "zero" BY <1>2, <1>3, <1>4 DEF MediaHeader, RecoversTo
<1>6. CASE FailedHeader(CleanHeader) /\ CloseFailed
  BY <1>1, <1>3, <1>5, <1>6, MediaFailedHeader, CloseFailedStages DEF IInvParts
<1>7. CASE WriteHeader(CleanHeader) /\ Goto("closeS") /\ UNCHANGED <<log, flags, fenced, history>>
  <2>1. Media' BY <1>3, <1>5, <1>7, MediaWriteHeader DEF IInvParts
  <2>2. /\ hdr' = CleanHeader /\ pc' = "closeS" /\ op' = op
        /\ UNCHANGED <<tposs, active, closing, fenced, base, want, point>>
    BY <1>7 DEF WriteHeader, Goto, flags, history
  <2>3. Closing' BY <1>2, <2>2 DEF Closing, CleanHeader
  <2>4. QED BY <1>1, <2>1, <2>2, <2>3 DEF IInvParts, Stages, OpenTx, HealthyTx, AppendTx, WriteTx, CommitTx, Undoing,
    Opening, Published, FencedIdle, InTx, Appending
<1>8. QED BY <1>6, <1>7 DEF CloseWrite

\* The barrier after it: the outcome is decided.
LEMMA CloseBarrierStep ==
    ASSUME TypeInv, Durable, IInvParts, CloseBarrier
    PROVE  IInvParts'
<1>1. pc = "closeS" /\ fenced = FALSE BY DEF CloseBarrier, IInvParts, Stages, FencedIdle, TypeInv, RamOK
<1>2. /\ \A l \in Targets : tposs[l] = {want[l]}
      /\ op # "commit" => ~point /\ base = want
      /\ op = "commit" => point
      /\ hdr = CleanHeader /\ hdr.kind = "clean" /\ hdr.log = <<>> BY <1>1 DEF IInvParts, Stages, Closing, CleanHeader
<1>3. CASE FailedBarrier /\ CloseFailed
  BY <1>1, <1>3, MediaFrame, CloseFailedStages DEF IInvParts, FailedBarrier, CloseFailed
<1>4. CASE /\ Barrier /\ log' = <<>>
           /\ IF op = "begin" THEN active' = TRUE /\ Goto("openW") ELSE active' = FALSE /\ Idle
           /\ base' = want /\ point' = FALSE /\ UNCHANGED <<want, failed, closing, fenced>>
  <2>1. Resolved(hdr)' = Resolved(hdr) BY <1>2, <1>4 DEF Resolved, Barrier
  <2>2. Media' BY <1>2, <1>4, <2>1, MediaBarrier DEF IInvParts
  <2>3. hdr' = hdr /\ \A l \in Targets : tposs'[l] = {want[l]}
    <3>1. \A l \in Targets : tgt[l] = want[l] BY <1>2 DEF IInvParts, Media
    <3>2. QED BY <1>4, <3>1 DEF Barrier
  <2>4. CASE op = "begin"
    <3>1. active' = TRUE /\ pc' = "openW" BY <1>4, <2>4 DEF Goto
    <3>2. Opening' BY <1>2, <1>4, <2>3, <3>1 DEF Opening, Resolved
    <3>3. QED BY <1>1, <1>4, <2>2, <3>1, <3>2 DEF IInvParts, Stages, OpenTx, HealthyTx, AppendTx, WriteTx, CommitTx,
      Undoing, Closing, Published, FencedIdle, InTx, Appending
  <2>5. CASE op # "begin"
    <3>1. active' = FALSE /\ pc' = "idle" BY <1>4, <2>5 DEF Idle
    <3>2. Published' BY <1>2, <2>3 DEF Published
    <3>3. QED BY <1>1, <1>4, <2>2, <3>1, <3>2 DEF IInvParts, Stages, OpenTx, HealthyTx, AppendTx, WriteTx, CommitTx,
      Undoing, Closing, Opening, FencedIdle, InTx, Appending
  <2>6. QED BY <2>4, <2>5
<1>5. QED BY <1>3, <1>4 DEF CloseBarrier

\* A power loss at any instant.
LEMMA CrashStep ==
    ASSUME TypeInv, Durable, IInvParts, Crash
    PROVE  IInvParts' BY MediaCrash, UnmountedStages DEF IInvParts, Crash

\* Before the journal is provisioned the media hold what is read.
LEMMA InitIInv == Init => IInv
<1> SUFFICES ASSUME Init PROVE Media /\ Stages BY DEF IInv
<1>1. Stages BY DEF Init, Stages, OpenTx, HealthyTx, AppendTx, WriteTx, CommitTx, Undoing, Closing, Opening,
  Published, FencedIdle, InTx, Appending
<1>2. /\ hposs = {ZeroHeader} /\ hdr = ZeroHeader /\ base = tgt /\ want = tgt /\ ~point
      /\ tposs = [l \in Targets |-> {tgt[l]}] /\ sposs = [i \in Slots |-> {slot[i]}] BY DEF Init
<1>3. ZeroHeader.kind = "zero" /\ ZeroHeader.log = <<>> /\ Distinct(<<>>) /\ DOMAIN <<>> = {}
  BY DEF ZeroHeader, Distinct
<1>4. RecoversTo(ZeroHeader) BY <1>2, <1>3 DEF RecoversTo, Resolved
<1>5. QED BY <1>1, <1>2, <1>3, <1>4 DEF Media

\* Every step of the durable log keeps the invariant.
LEMMA NextIInv == TypeInv /\ IInv /\ [Next]_vars => IInv'
<1> SUFFICES ASSUME TypeInv, IInv, [Next]_vars, Durable PROVE IInvParts' BY DEF IInv, IInvParts
<1>0. IInvParts BY DEF IInv, IInvParts
<1>1. CASE Call
  <2>1. ASSUME NEW l \in Targets, NEW v \in Data \ Torn, StxWriteAgain(l, v) \/ StxWriteNew(l, v)
        PROVE  IInvParts' BY <1>0, <2>1, WriteAgainStep, WriteNewStep
  <2>2. QED BY <1>0, <1>1, <2>1, FormatStep, RecoverStep, BeginStep, CommitStep, AbortStep, RemountStep,
    WriteRefusedStep DEF Call
<1>2. CASE Step BY <1>0, <1>2, OpenWriteStep, OpenBarrierStep, BackupWriteStep, BackupBarrierStep, IndexWriteStep,
  IndexBarrierStep, TargetWriteStep, CommitBarrierStep, UndoWriteStep, UndoBarrierStep, CloseWriteStep,
  CloseBarrierStep DEF Step
<1>3. CASE Crash BY <1>0, <1>3, CrashStep
<1>4. CASE UNCHANGED vars BY <1>0, <1>4 DEF vars, IInvParts, Media, RecoversTo, Resolved, Pending, Stages, OpenTx,
  HealthyTx, AppendTx, WriteTx, CommitTx, Undoing, Closing, Opening, Published, FencedIdle, InTx, SavesBase
<1>5. QED BY <1>1, <1>2, <1>3, <1>4 DEF Next

-----------------------------------------------------------------------------
(***************************************************************************)
(* The theorems.                                                           *)
(***************************************************************************)

\* The inductive invariant holds in every state of the log.
THEOREM Inductive == Spec => [](TypeInv /\ IInv)
<1>1. Init => TypeInv /\ IInv BY InitType, InitIInv
<1>2. TypeInv /\ IInv /\ [Next]_vars => (TypeInv /\ IInv)' BY NextType, NextIInv
<1>3. QED BY <1>1, <1>2, PTL DEF Spec

\* Writing the records of a possible header back gives the image it stands for.
LEMMA RecoveredImage ==
    ASSUME TypeInv, Media, NEW h \in hposs, h.kind # "torn", NEW t \in MediaImages
    PROVE  Recovered(h, t) = Resolved(h)
<1>1. RecoversTo(h) BY DEF Media
<1>2. t \in [Targets -> Data] /\ \A l \in Targets : t[l] \in tposs[l] BY DEF MediaImages, Images
<1>3. ASSUME NEW l \in Targets PROVE Recovered(h, t)[l] = Resolved(h)[l]
  <2>1. CASE l \in Lbas(h.log)
    <3> DEFINE i == CHOOSE i \in DOMAIN h.log : h.log[i].lba = l
    <3>1. i \in DOMAIN h.log /\ h.log[i].lba = l BY <2>1 DEF Lbas
    <3>2. Recovered(h, t)[l] = h.log[i].old BY <2>1 DEF Recovered
    <3>3. QED BY <1>1, <3>1, <3>2 DEF RecoversTo
  <2>2. CASE l \notin Lbas(h.log)
    <3>1. Recovered(h, t)[l] = t[l] BY <2>2 DEF Recovered
    <3>2. QED BY <1>1, <1>2, <2>2, <3>1 DEF RecoversTo
  <2>3. QED BY <2>1, <2>2
<1>4. Resolved(h) \in [Targets -> Data] BY DEF Resolved, TypeInv, RamOK, Images
<1>5. /\ Recovered(h, t) = [l \in Targets |-> Recovered(h, t)[l]]
      /\ Resolved(h) = [l \in Targets |-> Resolved(h)[l]] BY <1>4 DEF Recovered
<1>6. QED BY <1>3, <1>5

\* A power loss at any instant, with any order of writes, torn sectors and a
\* torn header, leaves the old image or, once the close has begun, the new one.
THEOREM CrashSafe == Spec => []CrashAtomic
<1>1. TypeInv /\ IInv => CrashAtomic
  <2> SUFFICES ASSUME TypeInv, IInv, Durable, NEW h \in hposs, NEW s \in MediaSlots,
                      NEW t \in MediaImages, Loadable(h, s)
               PROVE  Recovered(h, t) \in Allowed BY DEF CrashAtomic
  <2>1. h.kind # "torn" BY DEF Loadable
  <2>2. Recovered(h, t) = Resolved(h) BY <2>1, RecoveredImage DEF IInv
  <2>3. QED BY <2>2 DEF Resolved, Allowed
<1>2. QED BY <1>1, Inductive, PTL

\* Without torn headers stx_load accepts whatever a power loss leaves.
THEOREM AlwaysRecoverable == Spec => []NeverRefused
<1>1. TypeInv /\ IInv => NeverRefused
  <2> SUFFICES ASSUME TypeInv, IInv, Durable, ~HeaderTears, NEW h \in hposs, NEW s \in MediaSlots,
                      h.kind # "zero"
               PROVE  Loadable(h, s) BY DEF NeverRefused
  <2>1. /\ h.kind # "torn" /\ RecoversTo(h) /\ Distinct(h.log) BY DEF IInv, Media
  <2>2. h.kind \in {"clean", "active"} /\ h.log \in Seq(Records) BY <2>1 DEF TypeInv, DeviceOK, Headers, Kinds
  <2>3. ASSUME NEW i \in DOMAIN h.log PROVE h.log[i].lba \in Targets /\ s[i] = h.log[i].old
    <3>1. h.log[i] \in Records BY <2>2
    <3>2. i \in Slots /\ sposs[i] = {h.log[i].old} BY <2>1 DEF RecoversTo
    <3>3. s[i] \in sposs[i] BY <3>2 DEF MediaSlots
    <3>4. QED BY <3>1, <3>2, <3>3 DEF Records
  <2>4. Len(h.log) <= STX_MAX
    <3>1. CASE h.log = <<>> BY <3>1, StxMaxAssumption
    <3>2. CASE h.log # <<>>
      <4>1. Len(h.log) \in DOMAIN h.log BY <2>2, <3>2, LastRecord
      <4>2. Len(h.log) \in Slots BY <2>1, <4>1 DEF RecoversTo
      <4>3. QED BY <4>2, StxMaxAssumption DEF Slots
    <3>3. QED BY <3>1, <3>2
  <2>5. QED BY <2>1, <2>2, <2>3, <2>4 DEF Loadable
<1>2. QED BY <1>1, Inductive, PTL

\* A durable volume that is mounted, not fenced and outside a transaction
\* shows a whole image.
THEOREM PublishedImages == Spec => [](Durable => PublishedWhole)
<1>1. TypeInv /\ IInv => (Durable => PublishedWhole)
  <2> SUFFICES ASSUME TypeInv, IInv, Durable, pc = "idle", ~active, ~fenced
               PROVE  tgt \in Allowed BY DEF PublishedWhole
  <2>1. hdr \in hposs /\ hdr.kind = "clean" /\ hdr.log = <<>> /\ RecoversTo(hdr) BY DEF IInv, Stages, Published, Media
  <2>2. Lbas(hdr.log) = {} BY <2>1 DEF Lbas
  <2>3. \A l \in Targets : tgt[l] = Resolved(hdr)[l] BY <2>1, <2>2 DEF RecoversTo, IInv, Media
  <2>4. tgt \in [Targets -> Data] /\ Resolved(hdr) \in [Targets -> Data]
    BY DEF Resolved, TypeInv, RamOK, DeviceOK, Images
  <2>5. tgt = Resolved(hdr) BY <2>3, <2>4
  <2>6. QED BY <2>5 DEF Resolved, Allowed
<1>2. QED BY <1>1, Inductive, PTL

\* Once a clean header may be on the media nothing touches the targets.
THEOREM CloseFence == Durable => (Spec => CloseIsFence)
<1> SUFFICES ASSUME Durable PROVE Spec => CloseIsFence OBVIOUS
<1>1. TypeInv /\ IInv /\ [Next]_vars
        => [(\E h \in hposs : h.kind = "clean") => UNCHANGED <<tgt, tposs>>]_vars
  <2> SUFFICES ASSUME TypeInv, IInv, Next, NEW h \in hposs, h.kind = "clean"
               PROVE  UNCHANGED <<tgt, tposs>> OBVIOUS
  <2>1. h.log = <<>> /\ RecoversTo(h) /\ Media /\ Stages BY DEF IInv, Media
  <2>2. Lbas(h.log) = {} BY <2>1 DEF Lbas
  <2>3. \A l \in Targets : tposs[l] = {tgt[l]} BY <2>1, <2>2 DEF RecoversTo, Media
  <2>4. tgt \in [Targets -> Data] /\ tposs \in [Targets -> SUBSET Data] BY DEF TypeInv, DeviceOK, Images
  <2>5. ASSUME Barrier PROVE UNCHANGED <<tgt, tposs>> BY <2>3, <2>4, <2>5 DEF Barrier
  <2>6. ASSUME Crash PROVE UNCHANGED <<tgt, tposs>>
    <3>1. tgt' \in [Targets -> Data] /\ \A l \in Targets : tgt'[l] \in tposs[l] BY <2>6 DEF Crash, Images
    <3>2. tgt' = tgt BY <2>3, <2>4, <3>1
    <3>3. tposs' = [l \in Targets |-> {tgt'[l]}] BY <2>6 DEF Crash
    <3>4. QED BY <2>3, <2>4, <3>2, <3>3
  <2>7. ~TargetWrite
    <3> SUFFICES ASSUME TargetWrite PROVE FALSE OBVIOUS
    <3>1. pc = "tw" /\ ~fenced BY <2>1 DEF TargetWrite, Stages, FencedIdle
    <3>2. active /\ ~failed BY <2>1, <3>1 DEF Stages, WriteTx
    <3>3. hdr = ActiveHeader(log) /\ hposs = {hdr} BY <2>1, <3>1, <3>2 DEF Stages, HealthyTx, InTx, Appending
    <3>4. QED BY <3>3 DEF ActiveHeader
  <2>8. ~UndoWrite
    <3> SUFFICES ASSUME UndoWrite PROVE FALSE OBVIOUS
    <3>1. Pending(h) BY <2>1 DEF UndoWrite, Stages, Undoing
    <3>2. QED BY <3>1 DEF Pending
  <2>9. CASE Call BY <2>9 DEF Call, StxFormat, StxRecover, StxBegin, StxCommit, StxAbort, Remount, StxWriteRefused,
    StxWriteAgain, StxWriteNew, LoadClean, LoadActive, LoadRefused, device
  <2>10. CASE Step
    <3>1. CASE OpenWrite \/ IndexWrite \/ CloseWrite
      BY <3>1 DEF OpenWrite, IndexWrite, CloseWrite, WriteHeader, FailedHeader, device
    <3>2. CASE BackupWrite BY <3>2 DEF BackupWrite, WriteSlot, FailedSlot, device
    <3>3. CASE OpenBarrier \/ BackupBarrier \/ IndexBarrier \/ CommitBarrier \/ UndoBarrier \/ CloseBarrier
      BY <2>5, <3>3 DEF OpenBarrier, BackupBarrier, IndexBarrier, CommitBarrier, UndoBarrier, CloseBarrier,
        FailedBarrier, device
    <3>4. QED BY <2>7, <2>8, <2>10, <3>1, <3>2, <3>3 DEF Step
  <2>11. QED BY <2>6, <2>9, <2>10 DEF Next
<1>2. QED BY <1>1, Inductive, PTL DEF Spec, CloseIsFence

-----------------------------------------------------------------------------
(***************************************************************************)
(* The refinement of AtomicDisk, when no header sector tears.              *)
(***************************************************************************)

\* The images the headers that may be on the media stand for.
Outcomes == {Resolved(h) : h \in hposs}

\* What recovery can produce is what the possible headers stand for.
LEMMA OutcomesRecovered ==
    ASSUME Durable, ~HeaderTears, TypeInv, IInv
    PROVE  RecoverableImages = Outcomes
<1>1. Media BY DEF IInv
<1>2. \A h \in hposs : h.kind # "torn" BY <1>1 DEF Media
<1>3. \A h \in hposs, t \in MediaImages : Recovered(h, t) = Resolved(h) BY <1>1, <1>2, RecoveredImage
<1>4. tgt \in MediaImages BY <1>1 DEF Media, MediaImages, TypeInv, DeviceOK
<1>5. QED BY <1>2, <1>3, <1>4 DEF RecoverableImages, Outcomes

\* A step of AtomicDisk, or a stutter, told with Outcomes.
AtomicStep ==
    \/ /\ ~point /\ \E l \in Targets, v \in Data : want' = [want EXCEPT ![l] = v]
       /\ Outcomes' = Outcomes /\ point' = point
    \/ ~point /\ point' = TRUE /\ Outcomes' = Outcomes /\ want' = want
    \/ point /\ Outcomes' = Outcomes \cup {want} /\ want' = want /\ point' = point
    \/ Outcomes' \subseteq Outcomes /\ want' \in Outcomes' /\ point' = FALSE
    \/ Outcomes' = Outcomes /\ want' = want /\ point' = point

\* Before the commit point only the old image can come back.
LEMMA OldImage == ASSUME ~point, NEW h \in hposs PROVE Outcomes = {base} BY DEF Outcomes, Resolved

LEMMA OldImageNext == ASSUME ~point', NEW h \in hposs' PROVE Outcomes' = {base'} BY DEF Outcomes, Resolved

\* A barrier that decides: the one header left stands for the new contents.
LEMMA Decides ==
    ASSUME NEW h \in hposs, hposs' = {h}, point' = FALSE,
           base' = Resolved(h), want' = base'
    PROVE  AtomicStep
<1>1. Outcomes' = {base'} BY OldImageNext
<1>2. Resolved(h) \in Outcomes BY DEF Outcomes
<1>3. QED BY <1>1, <1>2 DEF AtomicStep

\* Nothing the promise is about changes.
LEMMA AtomicFrame ==
    ASSUME UNCHANGED <<hposs, base, want, point>>
    PROVE  AtomicStep
<1>1. Outcomes' = Outcomes BY DEF Outcomes, Resolved
<1>2. QED BY <1>1 DEF AtomicStep

\* Before the commit point the client may stage and the log may grow.
LEMMA AtomicStage ==
    ASSUME ~point, hdr \in hposs, hdr' \in hposs', UNCHANGED <<base, point>>,
           \/ want' = want
           \/ \E l \in Targets, v \in Data : want' = [want EXCEPT ![l] = v]
    PROVE  AtomicStep
<1>1. Outcomes = {base} BY OldImage
<1>2. Outcomes' = {base'} BY OldImageNext
<1>3. QED BY <1>1, <1>2 DEF AtomicStep

LEMMA CallRefines == ASSUME Durable, Call PROVE AtomicStep
<1>1. UNCHANGED <<hposs, base, want, point>>
  BY DEF Call, StxFormat, StxRecover, StxBegin, StxCommit, StxAbort, Remount, StxWriteRefused, StxWriteAgain,
    StxWriteNew, LoadClean, LoadActive, LoadRefused, device, history
<1>2. QED BY <1>1, AtomicFrame

\* The header of an empty log stands for what the header read stands for.
LEMMA OpenRefines ==
    ASSUME Durable, ~HeaderTears, TypeInv, IInvParts, IInvParts', OpenWrite \/ OpenBarrier
    PROVE  AtomicStep
<1>1. pc \in {"openW", "openS"} /\ hdr \in hposs BY DEF OpenWrite, OpenBarrier, IInvParts, Media
<1>2. log = <<>> /\ hdr.log = <<>> BY <1>1 DEF IInvParts, Stages, Opening
<1>3. Resolved(ActiveHeader(log)) = Resolved(hdr) BY <1>2 DEF Resolved, ActiveHeader
<1>4. CASE OpenWrite
  <2>1. UNCHANGED <<base, want, point>> BY <1>4 DEF OpenWrite, history
  <2>2. hposs' = hposs \/ hposs' = hposs \cup {ActiveHeader(log)}
    BY <1>4 DEF OpenWrite, WriteHeader, FailedHeader, TornHeaders, device
  <2>3. \A h : Resolved(h)' = Resolved(h) BY <2>1 DEF Resolved
  <2>4. Outcomes' = Outcomes BY <1>1, <1>3, <2>1, <2>2 DEF Outcomes, Resolved
  <2>5. QED BY <2>1, <2>4 DEF AtomicStep
<1>5. CASE OpenBarrier
  <2>1. CASE Barrier /\ base' = Resolved(hdr) /\ want' = Resolved(hdr) /\ point' = FALSE
    BY <1>1, <2>1, Decides DEF Barrier
  <2>2. CASE FailedBarrier /\ UNCHANGED history BY <2>2, AtomicFrame DEF FailedBarrier, device, history
  <2>3. QED BY <1>5, <2>1, <2>2 DEF OpenBarrier, Barrier, FailedBarrier, AtomicStep
<1>6. QED BY <1>4, <1>5

\* stx_write happens before the commit point.
LEMMA WriteRefines ==
    ASSUME Durable, TypeInv, IInvParts, IInvParts',
           BackupWrite \/ BackupBarrier \/ IndexWrite \/ IndexBarrier \/ TargetWrite
    PROVE  AtomicStep
<1>1. pc \in Appending \cup {"tw"} BY DEF BackupWrite, BackupBarrier, IndexWrite, IndexBarrier, TargetWrite, Appending
<1>2. ~fenced /\ active /\ ~failed BY <1>1 DEF IInvParts, Stages, FencedIdle, AppendTx, WriteTx, Appending
<1>3. ~point BY <1>1, <1>2 DEF IInvParts, Stages, HealthyTx, InTx
<1>4. hdr \in hposs /\ hdr' \in hposs' BY DEF IInvParts, Media
<1>5. UNCHANGED <<base, point>> BY DEF BackupWrite, BackupBarrier, IndexWrite, IndexBarrier, TargetWrite, history
<1>6. want' = want \/ \E l \in Targets, v \in Data : want' = [want EXCEPT ![l] = v]
  <2>1. CASE TargetWrite
    <3>1. arg.lba \in Targets /\ arg.data \in Data BY DEF TypeInv, RamOK
    <3>2. QED BY <2>1, <3>1 DEF TargetWrite
  <2>2. CASE BackupWrite \/ BackupBarrier \/ IndexWrite \/ IndexBarrier
    BY <2>2 DEF BackupWrite, BackupBarrier, IndexWrite, IndexBarrier, history
  <2>3. QED BY <2>1, <2>2
<1>7. QED BY <1>3, <1>4, <1>5, <1>6, AtomicStage

\* The commit point: nothing new can be recovered yet.
LEMMA CommitRefines ==
    ASSUME Durable, TypeInv, IInvParts, CommitBarrier
    PROVE  AtomicStep
<1>1. pc = "commitS" /\ hdr \in hposs BY DEF CommitBarrier, IInvParts, Media
<1>2. active /\ ~failed /\ ~fenced BY <1>1 DEF IInvParts, Stages, CommitTx, FencedIdle
<1>3. ~point /\ tgt = want /\ SavesBase /\ hdr = ActiveHeader(log) /\ hposs = {hdr}
  BY <1>1, <1>2 DEF IInvParts, Stages, HealthyTx, InTx, Appending
<1>4. CASE Barrier /\ point' = TRUE /\ UNCHANGED <<log, active, failed, base, want>>
  <2>1. hposs' = {hdr} BY <1>4 DEF Barrier
  <2>2. hdr.log = <<>> => base = want
    <3> SUFFICES ASSUME hdr.log = <<>> PROVE base = want OBVIOUS
    <3>1. Lbas(log) = {} BY <1>3 DEF ActiveHeader, Lbas
    <3>2. \A l \in Targets : base[l] = want[l] BY <1>3, <3>1 DEF SavesBase, IInvParts, Media
    <3>3. QED BY <3>2 DEF TypeInv, RamOK, Images
  <2>3. Outcomes = {base} /\ Outcomes' = {base} BY <1>3, <1>4, <2>1, <2>2 DEF Outcomes, Resolved
  <2>4. QED BY <1>3, <1>4, <2>3 DEF AtomicStep
<1>5. CASE FailedBarrier /\ UNCHANGED <<log, active, closing, history>>
  BY <1>5, AtomicFrame DEF FailedBarrier, device, history
<1>6. QED BY <1>4, <1>5 DEF CommitBarrier, Barrier, FailedBarrier, AtomicStep

\* An abort settles on the image of the log it has written back.
LEMMA UndoRefines ==
    ASSUME Durable, ~HeaderTears, TypeInv, IInvParts, UndoWrite \/ UndoBarrier
    PROVE  AtomicStep
<1>1. CASE UndoWrite BY <1>1, AtomicFrame DEF UndoWrite, WriteTarget, FailedTarget, device, history
<1>2. CASE UndoBarrier
  <2>1. pc = "undoS" /\ hdr \in hposs /\ hdr.kind # "torn" BY <1>2 DEF UndoBarrier, IInvParts, Media
  <2>2. hdr.kind \in {"torn", "active"} /\ (point => hdr = ActiveHeader(log)) BY <2>1 DEF IInvParts, Stages, Undoing
  <2>3. Resolved(ActiveHeader(log)) = Resolved(hdr) BY <2>2 DEF Resolved
  <2>4. CASE /\ Barrier /\ base' = Resolved(ActiveHeader(log)) /\ want' = base' /\ point' = FALSE
    BY <2>1, <2>3, <2>4, Decides DEF Barrier
  <2>5. CASE FailedBarrier /\ UNCHANGED history BY <2>5, AtomicFrame DEF FailedBarrier, device, history
  <2>6. QED BY <1>2, <2>4, <2>5 DEF UndoBarrier, Barrier, FailedBarrier, AtomicStep
<1>3. QED BY <1>1, <1>2

\* The close: the new image becomes possible, then it is decided.
LEMMA CloseRefines ==
    ASSUME Durable, ~HeaderTears, TypeInv, IInvParts, CloseWrite \/ CloseBarrier
    PROVE  AtomicStep
<1>1. pc \in {"closeW", "closeS"} /\ hdr \in hposs BY DEF CloseWrite, CloseBarrier, IInvParts, Media
<1>2. (~point /\ base = want) \/ point BY <1>1 DEF IInvParts, Stages, Closing
<1>3. Resolved(CleanHeader) = want BY <1>2 DEF Resolved, CleanHeader
<1>4. CASE CloseWrite
  <2>1. UNCHANGED <<base, want, point>> BY <1>4 DEF CloseWrite, CloseFailed, history
  <2>2. hposs' = hposs \/ hposs' = hposs \cup {CleanHeader}
    BY <1>4 DEF CloseWrite, WriteHeader, FailedHeader, TornHeaders, device
  <2>3. Outcomes' = Outcomes \/ Outcomes' = Outcomes \cup {want} BY <1>3, <2>1, <2>2 DEF Outcomes, Resolved
  <2>4. ~point => want \in Outcomes BY <1>1, <1>2, OldImage
  <2>5. QED
    <3>1. CASE point BY <2>1, <2>3, <3>1 DEF AtomicStep
    <3>2. CASE ~point
      <4>1. Outcomes' = Outcomes BY <2>3, <2>4, <3>2
      <4>2. QED BY <2>1, <4>1 DEF AtomicStep
    <3>3. QED BY <3>1, <3>2
<1>5. CASE CloseBarrier
  <2>1. CASE Barrier /\ base' = want /\ point' = FALSE /\ want' = want
    <3>1. hdr = CleanHeader BY <1>5 DEF CloseBarrier, IInvParts, Stages, Closing
    <3>2. QED BY <1>1, <1>3, <2>1, <3>1, Decides DEF Barrier
  <2>2. CASE FailedBarrier /\ CloseFailed BY <2>2, AtomicFrame DEF FailedBarrier, CloseFailed, device, history
  <2>3. QED BY <1>5, <2>1, <2>2 DEF CloseBarrier
<1>6. QED BY <1>4, <1>5

\* A power loss settles on the image of the header it leaves.
LEMMA CrashRefines == ASSUME Durable, Crash PROVE AtomicStep
<1>1. hdr' \in hposs /\ hposs' = {hdr'} /\ point' = FALSE /\ want' = base' BY DEF Crash
<1>2. base' = (IF point /\ hdr'.log = <<>> THEN want ELSE base) BY DEF Crash, Resolved
<1>3. PICK h \in hposs : h = hdr' BY <1>1
<1>4. base' = Resolved(h) BY <1>2, <1>3 DEF Resolved
<1>5. QED BY <1>1, <1>3, <1>4, Decides

LEMMA NextRefines ==
    ASSUME Durable, ~HeaderTears, TypeInv, IInv, IInv', [Next]_vars
    PROVE  AtomicStep
<1>0. IInvParts /\ IInvParts' BY DEF IInv, IInvParts
<1>1. CASE Call BY <1>1, CallRefines
<1>2. CASE Step BY <1>0, <1>2, OpenRefines, WriteRefines, CommitRefines, UndoRefines, CloseRefines DEF Step
<1>3. CASE Crash BY <1>3, CrashRefines
<1>4. CASE UNCHANGED vars BY <1>4, AtomicFrame DEF vars
<1>5. QED BY <1>1, <1>2, <1>3, <1>4 DEF Next

\* The durable log implements the all-or-nothing store: whatever the caller
\* does and whatever fails, the images a recovery may produce change only as
\* AtomicDisk allows.
THEOREM RefinesAtomicDisk == Durable /\ ~HeaderTears => (Spec => ImplementsAtomicDisk)
<1> SUFFICES ASSUME Durable, ~HeaderTears PROVE Spec => ImplementsAtomicDisk OBVIOUS
<1>1. TypeInv /\ IInv => RecoverableImages = Outcomes BY OutcomesRecovered
<1>2. TypeInv /\ IInv /\ Init => Abstract!Init
  <2> SUFFICES ASSUME TypeInv, IInv, Init PROVE Abstract!Init OBVIOUS
  <2>1. RecoverableImages = {want} /\ want \in Images /\ point = FALSE
    BY <1>1 DEF Init, Outcomes, Resolved, TypeInv, RamOK
  <2>2. QED BY <2>1 DEF Abstract!Init, Abstract!Images, Images
<1>3. /\ TypeInv /\ IInv /\ IInv' /\ [Next]_vars
      /\ RecoverableImages = Outcomes /\ (RecoverableImages = Outcomes)'
      => [Abstract!Next]_<<RecoverableImages, want, point>>
  <2> SUFFICES ASSUME TypeInv, IInv, IInv', [Next]_vars, RecoverableImages = Outcomes,
                      RecoverableImages' = Outcomes'
               PROVE  [Abstract!Next]_<<RecoverableImages, want, point>> OBVIOUS
  <2>1. AtomicStep BY NextRefines
  <2>2. QED BY <2>1 DEF AtomicStep, Abstract!Next, Abstract!Stage, Abstract!StartCommit, Abstract!Publish,
    Abstract!Settle
<1>4. QED BY <1>1, <1>2, <1>3, Inductive, PTL DEF Spec, ImplementsAtomicDisk, Abstract!Spec

-----------------------------------------------------------------------------
(***************************************************************************)
(* Partitions: every volume a scan mounts lies inside its partition and    *)
(* the disk, and a valid GPT is followed.                                  *)
(***************************************************************************)
\* What a scan may put into the table: a list of volumes.
Listed(vs) == \E S : vs \in Seq(S)

\* A volume as its driver will address it (the parts of MountsInside).
Inside(d, v) ==
    /\ v.lba \in Nat /\ v.count \in Nat
    /\ v.count > 0 /\ v.lba + v.count <= d.total
    /\ v.geo.total * v.geo.factor <= v.count
    /\ v.kind # "ntfs" =>
        /\ v.geo.reserved + v.geo.nfats * v.geo.fatsz <= v.geo.first
        /\ v.geo.first + v.geo.clusters * v.geo.spc <= v.geo.total
        /\ \A c \in 2 .. v.geo.clusters + 1 :
            (c + 1) * (IF v.kind = "fat32" THEN 4 ELSE 2) <= v.geo.fatsz * v.geo.bps
Mount(v, name, lba, count) ==
    /\ v.name = name /\ v.lba = lba /\ v.count = count /\ Inside(disk, v)
\* What try_mount may do to the table.
Tried(new, vs, name, lba, count) ==
    new = vs \/ \E v : new = Append(vs, v) /\ Mount(v, name, lba, count)

LEMMA Divided == ASSUME NEW n \in Int, NEW d \in Nat \ {0} PROVE d * (n \div d) <= n /\ (n \div d) \in Int /\ n < d * (n \div d) + d
BY Z3

LEMMA Product == ASSUME NEW n \in Nat, NEW d \in Nat PROVE n * d \in Nat OBVIOUS

LEMMA Quotient == ASSUME NEW n \in Nat, NEW d \in Nat \ {0} PROVE n \div d \in Nat BY Z3

LEMMA NoWrap == ASSUME NEW n \in Nat, NEW w \in Nat \ {0}, n < w PROVE n % w = n OBVIOUS

LEMMA Growing == ASSUME NEW a \in Int, NEW b \in Int, NEW d \in Nat, a <= b PROVE d * a <= d * b OBVIOUS

\* The geometry parse_bpb accepts: no sum of it wrapped, and the clusters,
\* with an entry of the FAT for each, end before the volume does.
LEMMA Geometry ==
  ASSUME DisksSound, NEW b, FatTyped(b), ParseBpb(b).ok
  PROVE  LET g == ParseBpb(b) IN
    /\ g.kind \in {"fat16", "fat32"} /\ g.factor \in Nat /\ g.total \in Nat /\ g.factor > 0
    /\ g.reserved + g.nfats * g.fatsz <= g.first
    /\ g.first + g.clusters * g.spc <= g.total
    /\ \A c \in 2 .. g.clusters + 1 :
        (c + 1) * (IF g.kind = "fat32" THEN 4 ELSE 2) <= g.fatsz * g.bps
<1> DEFINE root == (b.root * EntrySize + b.bps - 1) \div b.bps
           first == Wrap(b.reserved + b.nfats * b.fatsz + root)
           clusters == (b.total - first) \div b.spc
           fat32 == clusters >= Fat32Clusters
           g == ParseBpb(b)
<1>1. /\ b.bps \in {Unit, 2 * Unit, 4 * Unit, 8 * Unit}
      /\ b.spc > 0 /\ b.reserved > 0 /\ b.nfats \in 1 .. 4 /\ b.total > 0 /\ b.fatsz > 0
      /\ b.fatsz <= (Word - 1 - b.reserved - root) \div b.nfats
      /\ first < b.total /\ FatCovers(b, clusters, fat32)
      /\ g = [ok |-> TRUE, kind |-> IF fat32 THEN "fat32" ELSE "fat16", factor |-> b.bps \div Unit,
              total |-> b.total, reserved |-> b.reserved, fatsz |-> b.fatsz, nfats |-> b.nfats, bps |-> b.bps,
              first |-> first, clusters |-> clusters, spc |-> b.spc] BY DEF ParseBpb, NoFs
<1>2. /\ Word \in Nat \ {0} /\ Unit \in Nat \ {0} /\ EntrySize \in Nat
      /\ b.bps \in Nat /\ b.spc \in Nat /\ b.reserved \in Nat /\ b.nfats \in Nat /\ b.root \in Nat
      /\ b.total \in Nat /\ b.fatsz \in Nat BY DEF DisksSound, FatTyped
<1>3. b.bps > 0 /\ (b.bps \div Unit) \in Nat /\ b.bps \div Unit > 0 BY <1>1, <1>2
<1>4. root \in Nat
  <2>1. b.root * EntrySize \in Nat BY <1>2, Product
  <2>2. b.root * EntrySize + b.bps - 1 \in Nat /\ b.bps \in Nat \ {0} BY <2>1, <1>2, <1>3
  <2> QED BY <2>2, Quotient
<1> HIDE DEF root
<1>5. b.nfats * b.fatsz <= Word - 1 - b.reserved - root
  <2> DEFINE room == Word - 1 - b.reserved - root
  <2>1. room \in Int /\ b.nfats \in Nat \ {0} /\ b.fatsz <= room \div b.nfats BY <1>1, <1>2, <1>4
  <2> HIDE DEF room
  <2>2. b.nfats * (room \div b.nfats) <= room /\ room \div b.nfats \in Int BY <2>1, Divided
  <2>3. b.nfats * b.fatsz <= b.nfats * (room \div b.nfats) BY <1>2, <2>1, <2>2, Growing
  <2>4. b.nfats * b.fatsz \in Nat /\ b.nfats * (room \div b.nfats) \in Int BY <1>2, <2>2, Product
  <2> QED BY <2>1, <2>2, <2>3, <2>4 DEF room
<1>6. first = b.reserved + b.nfats * b.fatsz + root
  <2> DEFINE n == b.reserved + b.nfats * b.fatsz + root
  <2>1. b.nfats * b.fatsz \in Nat BY <1>2, Product
  <2>2. n \in Nat /\ n < Word BY <1>2, <1>4, <1>5, <2>1
  <2> HIDE DEF n
  <2>3. n % Word = n BY <1>2, <2>2, NoWrap
  <2> QED BY <2>3 DEF Wrap, n
<1>7. first \in Nat
  <2>1. b.nfats * b.fatsz \in Nat BY <1>2, Product
  <2> QED BY <1>2, <1>4, <1>6, <2>1
<1> HIDE DEF first
<1>8. clusters \in Int /\ b.spc * clusters <= b.total - first
  <2>1. b.total - first \in Int /\ b.spc \in Nat \ {0} BY <1>1, <1>2, <1>7
  <2> QED BY <2>1, Divided
<1> HIDE DEF clusters
<1>9. first + clusters * b.spc <= b.total BY <1>2, <1>7, <1>8
<1>10. ASSUME NEW c \in 2 .. clusters + 1
       PROVE  (c + 1) * (IF fat32 THEN 4 ELSE 2) <= b.fatsz * b.bps
  <2> DEFINE bytes == b.fatsz * b.bps
             k == IF fat32 THEN 4 ELSE 2
  <2>1. bytes \in Nat BY <1>2, Product
  <2>2. bytes \div k >= clusters + 2 BY <1>1 DEF FatCovers
  <2>3. k \in Nat \ {0} OBVIOUS
  <2> HIDE DEF bytes, k
  <2>4. k * (bytes \div k) <= bytes /\ bytes \div k \in Int BY <2>1, <2>3, Divided
  <2>5. c + 1 \in Int /\ c + 1 <= bytes \div k BY <1>8, <2>2, <2>4
  <2>6. k * (c + 1) <= k * (bytes \div k) BY <2>3, <2>4, <2>5, Growing
  <2>7. k * (c + 1) <= bytes BY <2>1, <2>3, <2>4, <2>5, <2>6
  <2> QED BY <2>3, <2>5, <2>7 DEF bytes, k
<1> HIDE DEF fat32
<1>11. g.reserved + g.nfats * g.fatsz <= g.first
  <2>1. b.nfats * b.fatsz \in Nat BY <1>2, Product
  <2>2. b.reserved + b.nfats * b.fatsz <= first BY <1>2, <1>4, <1>6, <2>1
  <2> QED BY <2>2, <1>1
<1> QED BY <1>1, <1>2, <1>3, <1>9, <1>10, <1>11

LEMMA Scaled ==
  ASSUME NEW total \in Nat, NEW factor \in Nat \ {0}, NEW count \in Nat, total <= count \div factor
  PROVE  total * factor <= count
<1>1. factor * (count \div factor) <= count /\ count \div factor \in Int BY Divided
<1>2. factor * total <= factor * (count \div factor) BY <1>1, Growing
<1>3. factor * total \in Nat /\ factor * (count \div factor) \in Int /\ factor * total = total * factor
  BY <1>1, Product
<1> QED BY <1>1, <1>2, <1>3

\* try_mount puts at most one volume into the table, the one it was given,
\* and its driver will stay inside it.
LEMMA TryMounts ==
  ASSUME DisksSound, disk \in Disks, NEW vs, NEW name, NEW lba \in Nat, NEW count \in Nat
  PROVE  Tried(TryMount(vs, name, lba, count), vs, name, lba, count)
<1> DEFINE b == Boot(lba)
           g == IF b.fs = "fat" THEN ParseBpb(b) ELSE IF b.fs = "ntfs" THEN ParseBoot(b) ELSE NoFs
           new == TryMount(vs, name, lba, count)
<1> SUFFICES ASSUME new # vs PROVE \E v : new = Append(vs, v) /\ Mount(v, name, lba, count) BY DEF Tried
<1>1. /\ count # 0 /\ ~(lba >= disk.total) /\ ~(count > disk.total - lba) /\ g.ok
      /\ g.kind = "ntfs" => PartitionFits(g, lba, count) /\ new = NtfsMount(vs, name, lba, count, b, g)
      /\ g.kind # "ntfs" => FatFits(g, lba, count) /\ new = FatMount(vs, name, lba, count, b, g) BY DEF TryMount
<1>2. DiskTyped(disk) BY DEF DisksSound
<1>3. disk.total \in Nat BY <1>2 DEF DiskTyped
<1>4. count > 0 /\ lba + count <= disk.total BY <1>1, <1>3
<1>5. /\ b.fs = "fat" => FatTyped(b)
      /\ b.fs = "ntfs" => b.bps \in Nat /\ b.spc \in Nat /\ b.total \in Nat
  <2>1. CASE lba \in DOMAIN disk.boot /\ lba \notin bad'
    <3>1. b = disk.boot[lba] BY <2>1 DEF Boot
    <3> QED BY <1>2, <2>1, <3>1 DEF DiskTyped
  <2>2. CASE ~(lba \in DOMAIN disk.boot /\ lba \notin bad')
    <3>1. b = [fs |-> "none"] BY <2>2 DEF Boot
    <3> QED BY <3>1
  <2> QED BY <2>1, <2>2
<1>6. g.ok => b.fs \in {"fat", "ntfs"} BY DEF NoFs
<1> HIDE DEF b, new
<1>7. CASE b.fs = "fat"
  <2>1. g = ParseBpb(b) BY <1>7
  <2>2. ParseBpb(b).ok /\ FatTyped(b) BY <1>1, <1>5, <1>7, <2>1
  <2>3. /\ g.kind \in {"fat16", "fat32"} /\ g.factor \in Nat /\ g.total \in Nat /\ g.factor > 0
        /\ g.reserved + g.nfats * g.fatsz <= g.first
        /\ g.first + g.clusters * g.spc <= g.total
        /\ \A c \in 2 .. g.clusters + 1 :
            (c + 1) * (IF g.kind = "fat32" THEN 4 ELSE 2) <= g.fatsz * g.bps BY <2>1, <2>2, Geometry
  <2> HIDE DEF g
  <2>4. g.kind # "ntfs" BY <2>3
  <2>5. FatFits(g, lba, count) /\ new = FatMount(vs, name, lba, count, b, g) BY <1>1, <2>4
  <2>6. g.total <= count \div g.factor BY <1>4, <2>5 DEF FatFits
  <2>7. g.factor \in Nat \ {0} BY <2>3
  <2>8. g.total * g.factor <= count BY <2>3, <2>6, <2>7, Scaled
  <2> DEFINE v == [name |-> name, lba |-> lba, count |-> count, kind |-> g.kind,
                   extent |-> Wrap(g.total * g.factor), rw |-> FALSE, geo |-> g]
  <2>9. new = Append(vs, v)
    <3>1. new = vs \/ new = VfsMount(vs, v) BY <2>5 DEF FatMount
    <3>2. VfsMount(vs, v) = vs \/ VfsMount(vs, v) = Append(vs, v) BY DEF VfsMount
    <3> QED BY <3>1, <3>2
  <2>10. v.name = name /\ v.lba = lba /\ v.count = count /\ v.kind = g.kind /\ v.geo = g OBVIOUS
  <2> HIDE DEF v
  <2>11. Mount(v, name, lba, count) BY <1>4, <2>3, <2>8, <2>10 DEF Mount, Inside
  <2> QED BY <2>9, <2>11
<1>8. CASE b.fs = "ntfs"
  <2>1. g = ParseBoot(b) BY <1>8
  <2>2. g = [ok |-> TRUE, kind |-> "ntfs", factor |-> b.bps \div Unit, total |-> b.total]
    BY <1>1, <2>1 DEF ParseBoot, NoFs
  <2> HIDE DEF g
  <2>3. PartitionFits(g, lba, count) /\ new = NtfsMount(vs, name, lba, count, b, g) BY <1>1, <2>2
  <2>4. g.total * g.factor <= count BY <1>4, <2>3 DEF PartitionFits
  <2> DEFINE v == [name |-> name, lba |-> lba, count |-> count, kind |-> "ntfs",
                   extent |-> g.total, rw |-> FALSE, geo |-> g]
  <2>5. new = Append(vs, v)
    <3>1. new = vs \/ new = VfsMount(vs, v) BY <2>3 DEF NtfsMount
    <3>2. VfsMount(vs, v) = vs \/ VfsMount(vs, v) = Append(vs, v) BY DEF VfsMount
    <3> QED BY <3>1, <3>2
  <2>6. v.name = name /\ v.lba = lba /\ v.count = count /\ v.kind = "ntfs" /\ v.geo = g OBVIOUS
  <2> HIDE DEF v
  <2>7. Mount(v, name, lba, count) BY <1>4, <2>4, <2>6 DEF Mount, Inside
  <2> QED BY <2>5, <2>7
<1> QED BY <1>1, <1>6, <1>7, <1>8

\* Induction over a count, by the least number that is missing from K.
LEMMA Rises ==
  ASSUME NEW N \in Nat, NEW K, 0 \in K, \A k \in 1 .. N : k - 1 \in K => k \in K
  PROVE  \A k \in 0 .. N : k \in K
<1> DEFINE R == {p \in Nat \X Nat : p[1] < p[2]}
           B == {n \in 0 .. N : n \notin K}
<1>1. IsWellFoundedOn(R, Nat) BY NatLessThanWellFounded DEF OpToRel
<1>2. \A x, y \in Nat : <<y, x>> \in R <=> y < x OBVIOUS
<1> HIDE DEF R
<1> SUFFICES ASSUME B # {} PROVE FALSE OBVIOUS
<1>5. B \subseteq Nat OBVIOUS
<1>6. PICK n \in B : \A y \in B : ~(<<y, n>> \in R) BY <1>1, <1>5, WFMin
<1>3. n # 0 /\ n \in 1 .. N /\ n - 1 \in 0 .. N BY <1>6
<1>4. n - 1 \notin B
  <2>1. <<n - 1, n>> \in R BY <1>2, <1>3
  <2> QED BY <1>6, <2>1
<1> QED BY <1>6, <1>3, <1>4

\* Reading on slot by slot is well defined.
SlotsRead(h, n, f) == f = [i \in 0 .. n |-> IF i = 0 THEN <<>> ELSE Slot(h, f[i - 1], i)]
LEMMA SlotsAreRead ==
  ASSUME NEW h, NEW n \in Nat
  PROVE  \E f : SlotsRead(h, n, f) /\ SlotVols(h, n) = f[n]
<1> DEFINE K == {m \in 0 .. n : \E f : SlotsRead(h, m, f)}
<1>1. 0 \in K
  <2> DEFINE f == [i \in 0 .. 0 |-> <<>>]
  <2>1. SlotsRead(h, 0, f) BY DEF SlotsRead
  <2> QED BY <2>1
<1>2. ASSUME NEW k \in 1 .. n, k - 1 \in K PROVE k \in K
  <2>1. PICK f : SlotsRead(h, k - 1, f) BY <1>2
  <2> DEFINE F == [i \in 0 .. k |-> IF i = k THEN Slot(h, f[k - 1], k) ELSE f[i]]
  <2>7. \A i \in 0 .. k - 1 : f[i] = IF i = 0 THEN <<>> ELSE Slot(h, f[i - 1], i)
    <3>1. f = [i \in 0 .. k - 1 |-> IF i = 0 THEN <<>> ELSE Slot(h, f[i - 1], i)] BY <2>1 DEF SlotsRead
    <3> QED BY <3>1, Zenon
  <2>8. \A i \in 0 .. k - 1 : F[i] = f[i] OBVIOUS
  <2>2. \A i \in 0 .. k - 1 : F[i] = f[i] /\ f[i] = IF i = 0 THEN <<>> ELSE Slot(h, f[i - 1], i) BY <2>7, <2>8
  <2>3. F[k] = Slot(h, F[k - 1], k) BY <2>2
  <2>4. \A i \in 0 .. k : F[i] = IF i = 0 THEN <<>> ELSE Slot(h, F[i - 1], i)
    <3> HIDE DEF F, K
    <3>1. ASSUME NEW i \in 0 .. k - 1, i # 0 PROVE i - 1 \in 0 .. k - 1 BY <3>1
    <3>2. ASSUME NEW i \in 0 .. k - 1 PROVE F[i] = IF i = 0 THEN <<>> ELSE Slot(h, F[i - 1], i) BY <2>2, <3>1
    <3> QED BY <2>3, <3>2
  <2>5. F = [i \in 0 .. k |-> F[i]] OBVIOUS
  <2> HIDE DEF F
  <2>6. SlotsRead(h, k, F) BY <2>4, <2>5 DEF SlotsRead
  <2> QED BY <2>6
<1> HIDE DEF K
<1>3. n \in K BY <1>1, <1>2, Rises
<1>4. \E f : SlotsRead(h, n, f) BY <1>3 DEF K
<1> QED BY <1>4 DEF SlotVols, SlotsRead

LEMMA TriedAdds ==
  ASSUME NEW vs, NEW new, NEW name, NEW lba, NEW count, Listed(vs), Tried(new, vs, name, lba, count)
  PROVE  /\ Listed(new)
         /\ \A i \in DOMAIN new : (i \in DOMAIN vs /\ new[i] = vs[i]) \/ Mount(new[i], name, lba, count)
<1>1. CASE new = vs BY <1>1
<1>2. CASE \E v : new = Append(vs, v) /\ Mount(v, name, lba, count)
  <2>1. PICK v : new = Append(vs, v) /\ Mount(v, name, lba, count) BY <1>2
  <2>2. PICK S : vs \in Seq(S) BY DEF Listed
  <2>3. vs \in Seq(S \cup {v}) /\ v \in S \cup {v} BY <2>2
  <2>4. new \in Seq(S \cup {v}) BY <2>1, <2>3
  <2>5. \A i \in DOMAIN new : (i \in DOMAIN vs /\ new[i] = vs[i]) \/ new[i] = v BY <2>1, <2>3
  <2> QED BY <2>1, <2>4, <2>5 DEF Listed
<1> QED BY <1>1, <1>2 DEF Tried

\* The volume is a slot of that header's array, within the header's bounds.
SlotOf(h, v) ==
    /\ v.name[1] = "slot" /\ disk.slots[h.entries][v.name[2]].start = v.lba
    /\ h.first <= v.lba /\ v.lba + v.count <= h.last + 1
Sound(vs) == Listed(vs) /\ \A i \in DOMAIN vs : Inside(disk, vs[i])

LEMMA EmptySound == Sound(<<>>) BY DEF Sound, Listed

LEMMA TriedSound ==
  ASSUME DisksSound, disk \in Disks, NEW vs, Sound(vs), NEW name, NEW lba \in Nat, NEW count \in Nat
  PROVE  Sound(TryMount(vs, name, lba, count))
<1> DEFINE new == TryMount(vs, name, lba, count)
<1>1. Tried(new, vs, name, lba, count) BY TryMounts
<1> HIDE DEF new
<1>2. Listed(vs) BY DEF Sound
<1>3. /\ Listed(new)
      /\ \A i \in DOMAIN new : (i \in DOMAIN vs /\ new[i] = vs[i]) \/ Mount(new[i], name, lba, count)
  BY <1>1, <1>2, TriedAdds
<1> QED BY <1>3 DEF Sound, Mount, new

HeaderTyped(h) ==
    /\ {h.first, h.last, h.entries, h.count, h.stride} \subseteq Nat
    /\ \A i \in 1 .. h.count : {disk.slots[h.entries][i].start, disk.slots[h.entries][i].end} \subseteq Nat

LEMMA SlotSound ==
  ASSUME DisksSound, disk \in Disks, NEW h, HeaderTyped(h), NEW i \in 1 .. h.count,
         NEW vs, Sound(vs), \A k \in DOMAIN vs : SlotOf(h, vs[k])
  PROVE  Sound(Slot(h, vs, i)) /\ \A k \in DOMAIN Slot(h, vs, i) : SlotOf(h, Slot(h, vs, i)[k])
<1> DEFINE p == disk.slots[h.entries][i]
           new == Slot(h, vs, i)
<1>1. CASE ~p.used \/ p.start < h.first \/ p.start > p.end \/ p.end > h.last BY <1>1 DEF Slot
<1>2. CASE ~(~p.used \/ p.start < h.first \/ p.start > p.end \/ p.end > h.last)
  <2> DEFINE count == p.end - p.start + 1
             name == <<"slot", i>>
  <2>1. new = TryMount(vs, name, p.start, count) BY <1>2 DEF Slot
  <2>2. p.start \in Nat /\ p.end \in Nat /\ h.first \in Nat /\ h.last \in Nat BY DEF HeaderTyped
  <2>3. count \in Nat /\ p.start + count <= h.last + 1 BY <1>2, <2>2
  <2>4. Tried(new, vs, name, p.start, count) BY <2>1, <2>2, <2>3, TryMounts
  <2>5. Sound(new) BY <2>1, <2>2, <2>3, TriedSound
  <2>6. name[1] = "slot" /\ name[2] = i OBVIOUS
  <2> HIDE DEF new, count, name
  <2>7. Listed(vs) BY DEF Sound
  <2>8. \A k \in DOMAIN new : (k \in DOMAIN vs /\ new[k] = vs[k]) \/ Mount(new[k], name, p.start, count)
    BY <2>4, <2>7, TriedAdds
  <2>9. ASSUME NEW k \in DOMAIN new PROVE SlotOf(h, new[k])
    <3>1. CASE k \in DOMAIN vs /\ new[k] = vs[k] BY <3>1
    <3>2. CASE Mount(new[k], name, p.start, count) BY <1>2, <2>2, <2>3, <2>6, <3>2 DEF Mount, SlotOf
    <3> QED BY <2>8, <3>1, <3>2
  <2> QED BY <2>5, <2>9 DEF new
<1> QED BY <1>1, <1>2

LEMMA SlotsSound ==
  ASSUME DisksSound, disk \in Disks, NEW h, HeaderTyped(h), NEW n \in 0 .. h.count
  PROVE  Sound(SlotVols(h, n)) /\ \A k \in DOMAIN SlotVols(h, n) : SlotOf(h, SlotVols(h, n)[k])
<1>1. h.count \in Nat /\ n \in Nat BY DEF HeaderTyped
<1>2. PICK f : SlotsRead(h, n, f) /\ SlotVols(h, n) = f[n] BY <1>1, SlotsAreRead
<1> DEFINE K == {m \in 0 .. n : Sound(f[m]) /\ \A k \in DOMAIN f[m] : SlotOf(h, f[m][k])}
<1>3. \A i \in 0 .. n : f[i] = IF i = 0 THEN <<>> ELSE Slot(h, f[i - 1], i)
  <2>1. f = [i \in 0 .. n |-> IF i = 0 THEN <<>> ELSE Slot(h, f[i - 1], i)] BY <1>2 DEF SlotsRead
  <2> QED BY <2>1, Zenon
<1>4. 0 \in K
  <2>1. f[0] = <<>> BY <1>1, <1>3
  <2> QED BY <1>1, <2>1, EmptySound
<1>5. ASSUME NEW m \in 1 .. n, m - 1 \in K PROVE m \in K
  <2>1. f[m] = Slot(h, f[m - 1], m) BY <1>1, <1>3
  <2>2. m \in 1 .. h.count BY <1>1
  <2>3. Sound(f[m - 1]) /\ \A k \in DOMAIN f[m - 1] : SlotOf(h, f[m - 1][k]) BY <1>5
  <2>4. Sound(f[m]) /\ \A k \in DOMAIN f[m] : SlotOf(h, f[m][k])
    <3> HIDE DEF K
    <3> QED BY <2>1, <2>2, <2>3, SlotSound
  <2> QED BY <1>1, <2>4
<1> HIDE DEF K
<1>6. n \in K BY <1>1, <1>4, <1>5, Rises
<1> QED BY <1>2, <1>6 DEF K

\* What GptHonoured says of one volume, for the header at a sector.
Honoured(at, v) ==
    LET h == disk.gpt[at] IN
    /\ h.crc /\ h.arrayCrc /\ at \notin bad'
    /\ v.name[1] = "slot" /\ disk.slots[h.entries][v.name[2]].start = v.lba
    /\ v.lba > 1 /\ v.lba + v.count < disk.total
    /\ v.lba + v.count <= h.entries \/ v.lba >= h.entries + GptSectors(h)

\* A header gpt_table accepts keeps its slots off the metadata.
LEMMA TableHonoured ==
  ASSUME DisksSound, disk \in Disks, NEW at \in {1, disk.total - 1}, GptTable(at),
         NEW v, SlotOf(disk.gpt[at], v), Inside(disk, v)
  PROVE  at \in DOMAIN disk.gpt /\ HeaderTyped(disk.gpt[at]) /\ Honoured(at, v)
<1> DEFINE h == disk.gpt[at]
<1>1. /\ at \in DOMAIN disk.gpt /\ at \notin bad'
      /\ h.crc /\ h.arrayCrc /\ h.first >= 2 /\ h.last < disk.total - 1
      /\ IF at = 1 THEN h.entries + GptSectors(h) <= h.first ELSE h.entries > h.last BY DEF GptTable
<1>2. DiskTyped(disk) BY DEF DisksSound
<1>3. HeaderTyped(h) BY <1>1, <1>2 DEF DiskTyped, HeaderTyped
<1>4. disk.total \in Nat BY <1>2 DEF DiskTyped
<1>5. h.first \in Nat /\ h.last \in Nat /\ h.entries \in Nat /\ h.count \in Nat /\ h.stride \in Nat
  BY <1>3 DEF HeaderTyped
<1>6. GptSectors(h) \in Nat
  <2>1. h.count * h.stride \in Nat BY <1>5, Product
  <2> QED BY <2>1, Quotient DEF GptSectors
<1>7. v.lba \in Nat /\ v.count \in Nat BY DEF Inside
<1>10. h.first <= v.lba /\ v.lba + v.count <= h.last + 1 BY DEF SlotOf
<1>8. v.lba > 1 /\ v.lba + v.count < disk.total BY <1>1, <1>4, <1>5, <1>7, <1>10
<1>9. v.lba + v.count <= h.entries \/ v.lba >= h.entries + GptSectors(h) BY <1>1, <1>5, <1>6, <1>7, <1>10
<1> QED BY <1>1, <1>3, <1>8, <1>9 DEF Honoured, SlotOf

LEMMA Whole ==
  ASSUME NEW n \in Nat, NEW c \in Nat, NEW d \in Nat \ {0}, n < c * d PROVE n \div d \in 0 .. c
<1>1. d * (n \div d) <= n /\ n \div d \in Nat BY Divided, Quotient
<1> DEFINE q == n \div d
<1> HIDE DEF q
<1>2. ASSUME q > c PROVE FALSE
  <2>1. q \in Nat /\ d * q <= n BY <1>1 DEF q
  <2>2. d * c <= d * q BY <1>2, <2>1, Growing
  <2>3. d * c = c * d /\ d * c \in Nat /\ d * q \in Nat BY <2>1, Product
  <2> QED BY <2>1, <2>2, <2>3
<1> QED BY <1>1, <1>2 DEF q

LEMMA ScanGptSound ==
  ASSUME DisksSound, disk \in Disks, NEW blocks \in Nat
  PROVE  /\ Sound(ScanGpt(blocks))
         /\ \A i \in DOMAIN ScanGpt(blocks) : \E at \in DOMAIN disk.gpt : Honoured(at, ScanGpt(blocks)[i])
<1> DEFINE at == IF GptTable(1) THEN 1 ELSE IF GptTable(disk.total - 1) THEN disk.total - 1 ELSE 0
           h == disk.gpt[at]
           n == IF 32 * blocks < h.count * h.stride THEN (32 * blocks) \div h.stride ELSE h.count
           vs == SlotVols(h, n)
<1>1. CASE at = 0
  <2>1. ScanGpt(blocks) = <<>> BY <1>1 DEF ScanGpt
  <2>2. DOMAIN <<>> = {} OBVIOUS
  <2> QED BY <2>1, <2>2, EmptySound
<1>2. CASE at # 0
  <2>1. ScanGpt(blocks) = vs BY <1>2 DEF ScanGpt
  <2>2. GptTable(at) /\ at \in {1, disk.total - 1} BY <1>2
  <2>3. at \in DOMAIN disk.gpt /\ h.stride > 0 BY <2>2 DEF GptTable
  <2>4. HeaderTyped(h) BY <2>3 DEF DisksSound, DiskTyped, HeaderTyped
  <2> HIDE DEF at
  <2>5. n \in 0 .. h.count
    <3>1. h.count \in Nat /\ h.stride \in Nat \ {0} BY <2>3, <2>4 DEF HeaderTyped
    <3>2. ASSUME 32 * blocks < h.count * h.stride PROVE (32 * blocks) \div h.stride \in 0 .. h.count
      <4>1. 32 * blocks \in Nat OBVIOUS
      <4> QED BY <3>1, <3>2, <4>1, Whole
    <3> QED BY <3>1, <3>2
  <2> HIDE DEF n
  <2>6. Sound(vs) /\ \A i \in DOMAIN vs : SlotOf(h, vs[i])
    <3> HIDE DEF h
    <3> QED BY <2>4, <2>5, SlotsSound
  <2>7. ASSUME NEW i \in DOMAIN vs PROVE Honoured(at, vs[i])
    <3>1. SlotOf(h, vs[i]) /\ Inside(disk, vs[i]) BY <2>6 DEF Sound
    <3> HIDE DEF vs
    <3> QED BY <2>2, <2>7, <3>1, TableHonoured
  <2> QED BY <2>1, <2>3, <2>6, <2>7
<1> QED BY <1>1, <1>2

LEMMA Remainder == ASSUME NEW n \in Nat, NEW w \in Nat \ {0} PROVE n % w \in Nat OBVIOUS

\* A place in an extended chain.
Place(c) == DOMAIN c = {"seq", "vols", "next"} /\ c.next \in Nat /\ Sound(c.vols)

LEMMA LinkSound ==
  ASSUME DisksSound, disk \in Disks, NEW ebrBase \in Nat, NEW c, Place(c)
  PROVE  Place(Link(ebrBase, c))
<1> DEFINE e == disk.ebr[c.next]
<1>1. CASE c.next = 0 \/ c.next \notin DOMAIN disk.ebr \/ c.next \in bad'
  <2>1. Link(ebrBase, c) = [c EXCEPT !.next = 0] BY <1>1 DEF Link
  <2> QED BY <2>1 DEF Place
<1>2. CASE ~(c.next = 0 \/ c.next \notin DOMAIN disk.ebr \/ c.next \in bad')
  <2> DEFINE next == IF e.more THEN Wrap(ebrBase + e.next) ELSE 0
             at == Wrap(c.next + e.start)
             list == IF e.count > 0 THEN TryMount(c.vols, <<"part", c.seq + 1>>, at, e.count) ELSE c.vols
  <2>1. Link(ebrBase, c) = [seq |-> c.seq + IF e.count > 0 THEN 1 ELSE 0, vols |-> list, next |-> next]
    BY <1>2 DEF Link
  <2>2. e.start \in Nat /\ e.count \in Nat /\ e.next \in Nat BY <1>2 DEF DisksSound, DiskTyped
  <2>3. c.next \in Nat /\ Sound(c.vols) BY DEF Place
  <2>4. Word \in Nat \ {0} BY DEF DisksSound
  <2>5. next \in Nat /\ at \in Nat
    <3>1. ebrBase + e.next \in Nat /\ c.next + e.start \in Nat BY <2>2, <2>3
    <3> QED BY <3>1, <2>4, Remainder DEF Wrap
  <2> HIDE DEF next, at, e
  <2>6. Sound(list) BY <2>2, <2>3, <2>5, TriedSound
  <2> HIDE DEF list
  <2> QED BY <2>1, <2>5, <2>6 DEF Place
<1> QED BY <1>1, <1>2

\* Following the links one by one is well defined.
Followed(s, ebrBase, n, f) ==
    f = [k \in 0 .. n |-> IF k = 0 THEN [seq |-> s.seq, vols |-> s.vols, next |-> ebrBase] ELSE Link(ebrBase, f[k - 1])]
LEMMA LinksAreFollowed ==
  ASSUME NEW s, NEW ebrBase, MaxLinks \in Nat
  PROVE  \E f : Followed(s, ebrBase, MaxLinks, f) /\ Links(s, ebrBase) = f[MaxLinks]
<1> DEFINE K == {m \in 0 .. MaxLinks : \E f : Followed(s, ebrBase, m, f)}
           start == [seq |-> s.seq, vols |-> s.vols, next |-> ebrBase]
<1>1. 0 \in K
  <2> DEFINE f == [i \in 0 .. 0 |-> start]
  <2>1. Followed(s, ebrBase, 0, f) BY DEF Followed
  <2> QED BY <2>1
<1>2. ASSUME NEW k \in 1 .. MaxLinks, k - 1 \in K PROVE k \in K
  <2>1. PICK f : Followed(s, ebrBase, k - 1, f) BY <1>2
  <2> HIDE DEF start
  <2> DEFINE F == [i \in 0 .. k |-> IF i = k THEN Link(ebrBase, f[k - 1]) ELSE f[i]]
  <2>2. \A i \in 0 .. k - 1 : f[i] = IF i = 0 THEN start ELSE Link(ebrBase, f[i - 1])
    <3>1. f = [i \in 0 .. k - 1 |-> IF i = 0 THEN start ELSE Link(ebrBase, f[i - 1])] BY <2>1 DEF Followed, start
    <3> QED BY <3>1, Zenon
  <2>3. \A i \in 0 .. k - 1 : F[i] = f[i] OBVIOUS
  <2>4. F[k] = Link(ebrBase, F[k - 1]) BY <2>3
  <2>5. F = [i \in 0 .. k |-> F[i]] OBVIOUS
  <2> HIDE DEF F, K
  <2>6. \A i \in 0 .. k : F[i] = IF i = 0 THEN start ELSE Link(ebrBase, F[i - 1])
    <3>1. ASSUME NEW i \in 0 .. k - 1, i # 0 PROVE i - 1 \in 0 .. k - 1 BY <3>1
    <3>2. ASSUME NEW i \in 0 .. k - 1 PROVE F[i] = IF i = 0 THEN start ELSE Link(ebrBase, F[i - 1])
      BY <2>2, <2>3, <3>1
    <3> QED BY <2>4, <3>2
  <2>7. Followed(s, ebrBase, k, F) BY <2>5, <2>6 DEF Followed, start
  <2> QED BY <2>7 DEF K
<1> HIDE DEF K
<1>3. MaxLinks \in K BY <1>1, <1>2, Rises
<1>4. \E f : Followed(s, ebrBase, MaxLinks, f) BY <1>3 DEF K
<1> QED BY <1>4 DEF Links, Followed

LEMMA LinksSound ==
  ASSUME DisksSound, disk \in Disks, NEW ebrBase \in Nat, NEW s, Sound(s.vols)
  PROVE  Sound(Links(s, ebrBase).vols)
<1>1. MaxLinks \in Nat BY DEF DisksSound
<1>2. PICK f : Followed(s, ebrBase, MaxLinks, f) /\ Links(s, ebrBase) = f[MaxLinks] BY <1>1, LinksAreFollowed
<1> DEFINE K == {m \in 0 .. MaxLinks : Place(f[m])}
           start == [seq |-> s.seq, vols |-> s.vols, next |-> ebrBase]
<1>3. \A i \in 0 .. MaxLinks : f[i] = IF i = 0 THEN start ELSE Link(ebrBase, f[i - 1])
  <2>1. f = [i \in 0 .. MaxLinks |-> IF i = 0 THEN start ELSE Link(ebrBase, f[i - 1])] BY <1>2 DEF Followed
  <2> HIDE DEF start
  <2> QED BY <2>1, Zenon
<1>4. Place(start) BY DEF Place
<1> HIDE DEF start
<1>5. 0 \in K BY <1>1, <1>3, <1>4
<1>6. ASSUME NEW m \in 1 .. MaxLinks, m - 1 \in K PROVE m \in K
  <2>1. f[m] = Link(ebrBase, f[m - 1]) BY <1>1, <1>3
  <2>2. Place(f[m]) BY <1>6, <2>1, LinkSound
  <2> QED BY <1>1, <2>2
<1> HIDE DEF K
<1>7. MaxLinks \in K BY <1>1, <1>5, <1>6, Rises
<1> QED BY <1>2, <1>7 DEF K, Place

LEMMA PrimarySound ==
  ASSUME DisksSound, disk \in Disks, NEW k \in DOMAIN disk.mbr, NEW s, Sound(s.vols)
  PROVE  Sound(Primary(s, disk.mbr[k]).vols)
<1> DEFINE p == disk.mbr[k]
<1>1. p.start \in Nat /\ p.count \in Nat BY DEF DisksSound, DiskTyped
<1>2. CASE p.count = 0 \/ p.type = "empty" BY <1>2 DEF Primary
<1>3. CASE ~(p.count = 0 \/ p.type = "empty") /\ p.type = "extended"
  <2>1. Primary(s, p).vols = Links(s, p.start).vols BY <1>3 DEF Primary
  <2> HIDE DEF p
  <2> QED BY <1>1, <2>1, LinksSound DEF p
<1>4. CASE ~(p.count = 0 \/ p.type = "empty") /\ p.type # "extended"
  <2>1. Primary(s, p).vols = TryMount(s.vols, <<"part", s.seq + 1>>, p.start, p.count) BY <1>4 DEF Primary
  <2> HIDE DEF p
  <2> QED BY <1>1, <2>1, TriedSound DEF p
<1> QED BY <1>2, <1>3, <1>4

\* Reading the primary entries one by one is well defined.
TableRead(n, f) ==
    f = [k \in 0 .. n |-> IF k = 0 THEN [seq |-> 0, vols |-> <<>>] ELSE Primary(f[k - 1], disk.mbr[k])]
LEMMA TableIsRead ==
  ASSUME NEW n \in Nat, n = Len(disk.mbr)
  PROVE  \E f : TableRead(n, f) /\ PrimaryVols = f[n].vols
<1> DEFINE K == {m \in 0 .. n : \E f : TableRead(m, f)}
           start == [seq |-> 0, vols |-> <<>>]
<1>1. 0 \in K
  <2> DEFINE f == [i \in 0 .. 0 |-> start]
  <2>1. TableRead(0, f) BY DEF TableRead
  <2> QED BY <2>1
<1>2. ASSUME NEW k \in 1 .. n, k - 1 \in K PROVE k \in K
  <2>1. PICK f : TableRead(k - 1, f) BY <1>2
  <2> HIDE DEF start
  <2> DEFINE F == [i \in 0 .. k |-> IF i = k THEN Primary(f[k - 1], disk.mbr[k]) ELSE f[i]]
  <2>2. \A i \in 0 .. k - 1 : f[i] = IF i = 0 THEN start ELSE Primary(f[i - 1], disk.mbr[i])
    <3>1. f = [i \in 0 .. k - 1 |-> IF i = 0 THEN start ELSE Primary(f[i - 1], disk.mbr[i])]
      BY <2>1 DEF TableRead, start
    <3> QED BY <3>1, Zenon
  <2>3. \A i \in 0 .. k - 1 : F[i] = f[i] OBVIOUS
  <2>4. F[k] = Primary(F[k - 1], disk.mbr[k]) BY <2>3
  <2>5. F = [i \in 0 .. k |-> F[i]] OBVIOUS
  <2> HIDE DEF F, K
  <2>6. \A i \in 0 .. k : F[i] = IF i = 0 THEN start ELSE Primary(F[i - 1], disk.mbr[i])
    <3>1. ASSUME NEW i \in 0 .. k - 1, i # 0 PROVE i - 1 \in 0 .. k - 1 BY <3>1
    <3>2. ASSUME NEW i \in 0 .. k - 1 PROVE F[i] = IF i = 0 THEN start ELSE Primary(F[i - 1], disk.mbr[i])
      BY <2>2, <2>3, <3>1
    <3> QED BY <2>4, <3>2
  <2>7. TableRead(k, F) BY <2>5, <2>6 DEF TableRead, start
  <2> QED BY <2>7 DEF K
<1> HIDE DEF K
<1>3. n \in K
  <2>1. \A k \in 1 .. n : k - 1 \in K => k \in K BY <1>2
  <2>2. \A k \in 0 .. n : k \in K BY <1>1, <2>1, Rises
  <2> QED BY <2>2
<1>4. \E f : TableRead(n, f) BY <1>3 DEF K
<1> QED BY <1>4 DEF PrimaryVols, TableRead

LEMMA TableSound ==
  ASSUME DisksSound, disk \in Disks PROVE Sound(PrimaryVols)
<1> DEFINE n == Len(disk.mbr)
<1>1. n \in Nat /\ DOMAIN disk.mbr = 1 .. n BY DEF DisksSound, DiskTyped
<1> HIDE DEF n
<1>2. PICK f : TableRead(n, f) /\ PrimaryVols = f[n].vols BY <1>1, TableIsRead DEF n
<1> DEFINE K == {m \in 0 .. n : Sound(f[m].vols)}
           start == [seq |-> 0, vols |-> <<>>]
<1>3. \A i \in 0 .. n : f[i] = IF i = 0 THEN start ELSE Primary(f[i - 1], disk.mbr[i])
  <2>1. f = [i \in 0 .. n |-> IF i = 0 THEN start ELSE Primary(f[i - 1], disk.mbr[i])] BY <1>2 DEF TableRead
  <2> HIDE DEF start
  <2> QED BY <2>1, Zenon
<1>4. Sound(start.vols) BY EmptySound
<1> HIDE DEF start
<1>5. 0 \in K BY <1>1, <1>3, <1>4
<1>6. ASSUME NEW m \in 1 .. n, m - 1 \in K PROVE m \in K
  <2>1. f[m] = Primary(f[m - 1], disk.mbr[m]) /\ m \in DOMAIN disk.mbr BY <1>1, <1>3
  <2>2. Sound(f[m - 1].vols) BY <1>6
  <2> HIDE DEF K
  <2>3. Sound(f[m].vols) BY <2>1, <2>2, PrimarySound
  <2> QED BY <1>1, <2>3 DEF K
<1> HIDE DEF K
<1>7. n \in K BY <1>1, <1>5, <1>6, Rises
<1> QED BY <1>2, <1>7 DEF K

LEMMA RawSound ==
  ASSUME DisksSound, disk \in Disks, NEW vs, Sound(vs) PROVE Sound(Raw(vs))
<1>1. disk.total \in Nat BY DEF DisksSound, DiskTyped
<1>2. Sound(TryMount(vs, <<"whole">>, 0, disk.total)) BY <1>1, TriedSound
<1> QED BY <1>2 DEF Raw

IsGpt == \E k \in DOMAIN disk.mbr : Protective(disk.mbr[k])
LEMMA ScanDiskSound ==
  ASSUME DisksSound, disk \in Disks, NEW blocks \in Nat
  PROVE  /\ Sound(ScanDisk(blocks))
         /\ IsGpt => \A i \in DOMAIN ScanDisk(blocks) : \E at \in DOMAIN disk.gpt : Honoured(at, ScanDisk(blocks)[i])
<1>1. CASE 0 \in bad'
  <2>1. ScanDisk(blocks) = <<>> BY <1>1 DEF ScanDisk
  <2>2. DOMAIN <<>> = {} OBVIOUS
  <2> QED BY <2>1, <2>2, EmptySound
<1>2. CASE 0 \notin bad' /\ IsGpt
  <2>1. ScanDisk(blocks) = ScanGpt(blocks) BY <1>2 DEF ScanDisk, IsGpt
  <2> QED BY <2>1, ScanGptSound
<1>3. CASE 0 \notin bad' /\ ~IsGpt
  <2>1. ScanDisk(blocks) = Raw(PrimaryVols) BY <1>3 DEF ScanDisk, IsGpt
  <2> QED BY <1>3, <2>1, TableSound, RawSound
<1> QED BY <1>1, <1>2, <1>3

\* The table is empty or that of the scan.
ScanInv == disk \in Disks /\ MountsInside /\ GptHonoured

LEMMA ScanInductive ==
  ASSUME DisksSound, ScanInv, [ScanNext]_scanVars PROVE ScanInv'
<1>1. CASE UNCHANGED scanVars BY <1>1 DEF ScanInv, scanVars, MountsInside, GptHonoured, Protective, GptSectors
<1>2. CASE VfsInit
  <2>1. vols' = <<>> /\ disk' = disk BY <1>2 DEF VfsInit
  <2>2. DOMAIN <<>> = {} OBVIOUS
  <2> QED BY <2>1, <2>2 DEF ScanInv, MountsInside, GptHonoured
<1>3. ASSUME NEW failing, NEW blocks \in 0 .. MaxBlocks, VfsAutoscan(failing, blocks) PROVE ScanInv'
  <2>1. disk' = disk /\ vols' = ScanDisk(blocks) BY <1>3 DEF VfsAutoscan
  <2>2. blocks \in Nat /\ disk \in Disks BY DEF DisksSound, ScanInv
  <2>3. /\ Sound(vols')
        /\ IsGpt => \A i \in DOMAIN vols' : \E at \in DOMAIN disk.gpt : Honoured(at, vols'[i])
    BY <2>1, <2>2, ScanDiskSound
  <2>4. MountsInside' BY <2>1, <2>3 DEF MountsInside, Sound, Inside
  <2>5. GptHonoured' BY <2>1, <2>3 DEF GptHonoured, IsGpt, Honoured, Protective, GptSectors
  <2> QED BY <2>1, <2>2, <2>4, <2>5 DEF ScanInv
<1> QED BY <1>1, <1>2, <1>3 DEF ScanNext

LEMMA ScanStarts == ASSUME ScanInit PROVE ScanInv
<1>1. DOMAIN <<>> = {} OBVIOUS
<1> QED BY <1>1 DEF ScanInit, ScanInv, MountsInside, GptHonoured

\* Whatever the sectors of a disk say, and whichever of them fails, a volume
\* the scan mounts lies inside its partition and the disk, with every table
\* and cluster its driver will address (try_mount, parse_bpb, parse_boot).
THEOREM VolumesStayInside == ASSUME DisksSound PROVE ScanSpec => []MountsInside
<1>1. ScanInit => ScanInv BY ScanStarts
<1>2. ScanInv /\ [ScanNext]_scanVars => ScanInv' BY ScanInductive
<1>3. ScanInv => MountsInside BY DEF ScanInv
<1> QED BY <1>1, <1>2, <1>3, PTL DEF ScanSpec

\* A disk declared GPT is read by a header that checks out or not at all, and
\* no volume of it takes a sector of the metadata (gpt_table, scan_gpt).
THEOREM GptIsHonoured == ASSUME DisksSound PROVE ScanSpec => []GptHonoured
<1>1. ScanInit => ScanInv BY ScanStarts
<1>2. ScanInv /\ [ScanNext]_scanVars => ScanInv' BY ScanInductive
<1>3. ScanInv => GptHonoured BY DEF ScanInv
<1> QED BY <1>1, <1>2, <1>3, PTL DEF ScanSpec

-----------------------------------------------------------------------------
(***************************************************************************)
(* The volume's own undo log is nobody else's, and what it restores is     *)
(* whole.                                                                  *)
(***************************************************************************)
\* The steps of a chain.
Reached(f, from, n, r) ==
    r = [m \in 0 .. n |-> IF m = 0 THEN from ELSE r[m - 1] \cup {f[c] : c \in r[m - 1] \cap Clusters}]
LEMMA ReachIsWalked ==
  ASSUME NEW f, NEW from, IsFiniteSet(Clusters)
  PROVE  LET N == Cardinality(Clusters) IN
         N \in Nat /\ \E r : Reached(f, from, N, r) /\ Reach(f, from) = r[N]
<1> DEFINE N == Cardinality(Clusters)
           K == {m \in 0 .. N : \E r : Reached(f, from, m, r)}
           More(S) == S \cup {f[c] : c \in S \cap Clusters}
<1>0. N \in Nat BY FS_CardinalityType
<1>1. 0 \in K
  <2> DEFINE r == [m \in 0 .. 0 |-> from]
  <2>1. Reached(f, from, 0, r) BY DEF Reached
  <2> QED BY <1>0, <2>1
<1> HIDE DEF N
<1>2. ASSUME NEW k \in 1 .. N, k - 1 \in K PROVE k \in K
  <2>1. PICK r : Reached(f, from, k - 1, r) BY <1>2
  <2> DEFINE R == [m \in 0 .. k |-> IF m = k THEN More(r[k - 1]) ELSE r[m]]
  <2>2. \A m \in 0 .. k - 1 : r[m] = IF m = 0 THEN from ELSE More(r[m - 1])
    <3>1. r = [m \in 0 .. k - 1 |-> IF m = 0 THEN from ELSE More(r[m - 1])] BY <2>1 DEF Reached
    <3> HIDE DEF More
    <3> QED BY <3>1, Zenon
  <2> HIDE DEF More
  <2>3. \A m \in 0 .. k - 1 : R[m] = r[m] BY <1>0
  <2>4. R[k] = More(R[k - 1]) BY <1>0, <2>3
  <2>5. R = [m \in 0 .. k |-> R[m]] OBVIOUS
  <2> HIDE DEF R, K
  <2>6. \A m \in 0 .. k : R[m] = IF m = 0 THEN from ELSE More(R[m - 1])
    <3>1. ASSUME NEW m \in 0 .. k - 1, m # 0 PROVE m - 1 \in 0 .. k - 1 BY <1>0, <3>1
    <3>2. ASSUME NEW m \in 0 .. k - 1 PROVE R[m] = IF m = 0 THEN from ELSE More(R[m - 1]) BY <2>2, <2>3, <3>1
    <3> QED BY <1>0, <2>4, <3>2
  <2>7. Reached(f, from, k, R) BY <2>5, <2>6 DEF Reached, More
  <2> QED BY <1>0, <2>7 DEF K
<1> HIDE DEF K
<1>3. N \in K BY <1>0, <1>1, <1>2, Rises
<1>4. \E r : Reached(f, from, N, r) BY <1>3 DEF K
<1> QED BY <1>0, <1>4 DEF Reach, Reached, N

\* What is closed under the links contains all that is reached.
LEMMA ReachStays ==
  ASSUME NEW f, NEW from, NEW S, IsFiniteSet(Clusters), from \subseteq S,
         \A c \in S \cap Clusters : f[c] \in S
  PROVE  Reach(f, from) \subseteq S
<1> DEFINE N == Cardinality(Clusters)
<1>1. PICK r : Reached(f, from, N, r) /\ Reach(f, from) = r[N] BY ReachIsWalked
<1>2. N \in Nat BY FS_CardinalityType
<1> HIDE DEF N
<1> DEFINE K == {m \in 0 .. N : r[m] \subseteq S}
           More(T) == T \cup {f[c] : c \in T \cap Clusters}
<1>3. \A m \in 0 .. N : r[m] = IF m = 0 THEN from ELSE More(r[m - 1])
  <2>1. r = [m \in 0 .. N |-> IF m = 0 THEN from ELSE More(r[m - 1])] BY <1>1 DEF Reached
  <2> HIDE DEF More
  <2> QED BY <2>1, Zenon
<1>4. 0 \in K
  <2> HIDE DEF More
  <2>1. r[0] = from BY <1>2, <1>3
  <2> QED BY <1>2, <2>1
<1>5. ASSUME NEW m \in 1 .. N, m - 1 \in K PROVE m \in K
  <2>1. r[m] = More(r[m - 1])
    <3> HIDE DEF More
    <3> QED BY <1>2, <1>3
  <2>2. r[m - 1] \subseteq S BY <1>5
  <2>3. More(r[m - 1]) \subseteq S BY <2>2
  <2> HIDE DEF More
  <2> QED BY <1>2, <2>1, <2>3
<1> HIDE DEF K
<1>6. \A k \in 1 .. N : k - 1 \in K => k \in K BY <1>5
<1>7. \A k \in 0 .. N : k \in K BY <1>2, <1>4, <1>6, Rises
<1>8. N \in K BY <1>2, <1>7
<1> QED BY <1>1, <1>8 DEF K

\* A mount writes nothing until its checks have passed.
LEMMA WritesArePrepared ==
  ASSUME WalNext, <<fats, entries>>' # <<fats, entries>>
  PROVE  Prepared
<1>1. ASSUME LogMount PROVE Prepared BY <1>1 DEF LogMount, Prepare, NothingWritten
<1>2. ASSUME NEW enable \in BOOLEAN, FatWriteMode(enable) PROVE Prepared
  BY <1>2 DEF FatWriteMode, Prepare, NothingWritten
<1>3. ASSUME Forget PROVE Prepared BY <1>3 DEF Forget
<1> QED BY <1>1, <1>2, <1>3 DEF WalNext

\* A chain that passed wal_fat_entry neither enters nor leaves the log.
LEMMA ChainsKeepOut ==
  ASSUME VolumesSound, NEW f, \A c \in Clusters : WalFatEntry(c, f[c])
  PROVE  /\ \A c \in {d \in Clusters : ~InLog(d)} : \A x \in Reach(f, {c}) : ~InLog(x)
         /\ \A i \in DOMAIN Log : Reach(f, {Log[i]}) \subseteq {Log[j] : j \in DOMAIN Log} \cup {EOC}
<1>0. /\ IsFiniteSet(Clusters) /\ EOC \notin Clusters
      /\ Len(Log) \in Nat /\ DOMAIN Log = 1 .. Len(Log)
      /\ \A i \in DOMAIN Log : Log[i] \in Clusters BY DEF VolumesSound
<1>1. ASSUME NEW c \in Clusters, ~InLog(c), NEW x \in Reach(f, {c}) PROVE ~InLog(x)
  <2> DEFINE S == {y \in {c} \cup {f[d] : d \in Clusters} : ~InLog(y)}
  <2>1. ASSUME NEW d \in S \cap Clusters PROVE f[d] \in S
    <3>1. WalFatEntry(d, f[d]) /\ ~InLog(d) OBVIOUS
    <3>2. ASSUME InLog(f[d]) PROVE FALSE
      <4>1. PICK i \in 2 .. Len(Log) : d = Log[i - 1] BY <3>1, <3>2 DEF WalFatEntry
      <4>2. i - 1 \in DOMAIN Log BY <1>0
      <4> QED BY <3>1, <4>1, <4>2 DEF InLog
    <3> QED BY <3>2
  <2>2. {c} \subseteq S BY <1>1
  <2>3. \A y \in S : ~InLog(y) OBVIOUS
  <2> HIDE DEF S
  <2>4. Reach(f, {c}) \subseteq S BY <1>0, <2>1, <2>2, ReachStays
  <2> QED BY <1>1, <2>3, <2>4
<1>2. ASSUME NEW i \in DOMAIN Log PROVE Reach(f, {Log[i]}) \subseteq {Log[j] : j \in DOMAIN Log} \cup {EOC}
  <2> DEFINE S == {Log[j] : j \in DOMAIN Log} \cup {EOC}
  <2>1. ASSUME NEW d \in S \cap Clusters PROVE f[d] \in S
    <3>1. PICK j \in DOMAIN Log : d = Log[j] BY <1>0
    <3>2. f[d] = IF j = Len(Log) THEN EOC ELSE Log[j + 1] BY <3>1 DEF WalFatEntry
    <3>3. j # Len(Log) => j + 1 \in DOMAIN Log BY <1>0
    <3> QED BY <3>2, <3>3
  <2>2. {Log[i]} \subseteq S OBVIOUS
  <2> HIDE DEF S
  <2>3. Reach(f, {Log[i]}) \subseteq S BY <1>0, <2>1, <2>2, ReachStays
  <2> QED BY <2>3 DEF S
<1> QED BY <1>1, <1>2

\* Whatever a mount or a change of mode writes, no file's chain had a cluster
\* of the log, in either copy of the FAT, before or after the undo
\* (wal_check_fats before stx_recover, fat_wal.h).
THEOREM LogStaysItsOwn ==
  ASSUME VolumesSound
  PROVE  WalSpec => [][KeepsToLog]_walVars
<1>1. WalNext => KeepsToLog
  <2> SUFFICES ASSUME WalNext, <<fats, entries>>' # <<fats, entries>> PROVE
        \A k \in {1, 2} : \A f \in {fats[k], Overlaid(k)} :
            /\ \A c \in {d \in Clusters : ~InLog(d)} : \A x \in Reach(f, {c}) : ~InLog(x)
            /\ \A i \in DOMAIN Log : Reach(f, {Log[i]}) \subseteq {Log[j] : j \in DOMAIN Log} \cup {EOC}
            /\ Overlaid(1) = Overlaid(2) BY DEF KeepsToLog
  <2>1. WalCheckFats BY WritesArePrepared DEF Prepared
  <2>2. \A k \in {1, 2} : \A c \in Clusters : WalFatEntry(c, fats[k][c]) /\ WalFatEntry(c, Overlaid(k)[c])
    BY <2>1 DEF WalCheckFats
  <2>3. Overlaid(1) = Overlaid(2) BY <2>1 DEF WalCheckFats
  <2>4. ASSUME NEW k \in {1, 2}, NEW f \in {fats[k], Overlaid(k)}
        PROVE  \A c \in Clusters : WalFatEntry(c, f[c]) BY <2>2, <2>4
  <2> QED BY <2>3, <2>4, ChainsKeepOut
<1> QED BY <1>1, PTL DEF WalSpec

-----------------------------------------------------------------------------
\* The state the walk of the directories carries, what it may only add, and
\* what it has seen of an entry it accepted.
Free == {c \in Clusters : ~InLog(c)}
Walks(w) == w \in [ok : BOOLEAN, seen : Nat, dirs : Seq(Free)] /\ (w.ok => Len(w.dirs) <= MaxDirs)
Extends(v, w) ==
    /\ w.ok => v.ok
    /\ Len(v.dirs) <= Len(w.dirs)
    /\ \A i \in 1 .. Len(v.dirs) : w.dirs[i] = v.dirs[i]
Clean(d, k, ds) ==
    IF d = RootDir /\ k = WalOff THEN OverlaidDir(d)[k] = WalEntry
    ELSE /\ ~InLog(OverlaidDir(d)[k].cluster)
         /\ d = RootDir => ~OverlaidDir(d)[k].owner
         /\ OverlaidDir(d)[k].dir => \E i \in 1 .. Len(ds) : ds[i] = OverlaidDir(d)[k].cluster

LEMMA CleanStays ==
  ASSUME NEW v, NEW w, Walks(v), Walks(w), Extends(v, w), NEW d, NEW k, Clean(d, k, v.dirs)
  PROVE  Clean(d, k, w.dirs)
<1>1. Len(v.dirs) \in Nat /\ Len(w.dirs) \in Nat BY DEF Walks
<1>2. \A i \in 1 .. Len(v.dirs) : i \in 1 .. Len(w.dirs) /\ w.dirs[i] = v.dirs[i] BY <1>1 DEF Extends
<1> QED BY <1>2 DEF Clean
LEMMA ExtendsOn ==
  ASSUME NEW u, NEW v, NEW w, Walks(u), Walks(v), Walks(w), Extends(u, v), Extends(v, w)
  PROVE  Extends(u, w)
<1>1. Len(u.dirs) \in Nat /\ Len(v.dirs) \in Nat /\ Len(w.dirs) \in Nat BY DEF Walks
<1> QED BY <1>1 DEF Extends

\* One entry.
LEMMA EntryIsWalked ==
  ASSUME NEW w, Walks(w), NEW d, NEW k, MaxDirs \in Nat
  PROVE  LET y == WalDirCb(w, d, k) IN
         /\ Walks(y) /\ Extends(w, y)
         /\ y.ok => Clean(d, k, y.dirs)
         /\ y.seen # w.seen => d = RootDir /\ k = WalOff
<1> DEFINE y == WalDirCb(w, d, k)
           e == OverlaidDir(d)[k]
           known == \E i \in DOMAIN w.dirs : w.dirs[i] = e.cluster
           Bad == [w EXCEPT !.ok = FALSE]
           Own == [w EXCEPT !.seen = @ + 1]
           Next1 == [w EXCEPT !.dirs = Append(@, e.cluster)]
<1>1. w \in [ok : BOOLEAN, seen : Nat, dirs : Seq(Free)] /\ (w.ok => Len(w.dirs) <= MaxDirs) BY DEF Walks
<1>2. Len(w.dirs) \in Nat BY <1>1
<1>3. Walks(Bad) /\ Extends(w, Bad) /\ ~Bad.ok /\ Bad.seen = w.seen
  <2>1. /\ Bad \in [ok : BOOLEAN, seen : Nat, dirs : Seq(Free)]
        /\ Bad.ok = FALSE /\ Bad.seen = w.seen /\ Bad.dirs = w.dirs BY <1>1
  <2> HIDE DEF Bad
  <2> QED BY <1>2, <2>1 DEF Walks, Extends
<1>4. Walks(w) /\ Extends(w, w) BY <1>2 DEF Extends
<1>5. CASE ~w.ok
  <2>1. y = w BY <1>5 DEF WalDirCb
  <2> QED BY <1>4, <1>5, <2>1
<1>6. CASE w.ok /\ d = RootDir /\ k = WalOff
  <2>1. y = IF e = WalEntry THEN Own ELSE Bad BY <1>6 DEF WalDirCb
  <2>2. Walks(Own) /\ Extends(w, Own) BY <1>1, <1>2 DEF Walks, Extends
  <2>3. CASE e = WalEntry
    <3>1. Clean(d, k, y.dirs) BY <1>6, <2>3 DEF Clean
    <3> QED BY <1>6, <2>1, <2>2, <2>3, <3>1
  <2> QED BY <1>3, <1>6, <2>1, <2>3
<1>7. CASE w.ok /\ ~(d = RootDir /\ k = WalOff)
  <2>1. y = IF InLog(e.cluster) \/ (d = RootDir /\ e.owner) THEN Bad
            ELSE IF ~e.dir THEN w
            ELSE IF e.cluster \notin Clusters \/ Len(w.dirs) >= MaxDirs \/ known THEN Bad
            ELSE Next1 BY <1>7 DEF WalDirCb
  <2>2. CASE y = Bad BY <1>3, <2>2
  <2>3. CASE y = w /\ ~(InLog(e.cluster) \/ (d = RootDir /\ e.owner)) /\ ~e.dir
    <3>1. Clean(d, k, y.dirs) BY <1>7, <2>3 DEF Clean
    <3> QED BY <1>4, <2>3, <3>1
  <2>4. CASE /\ y = Next1 /\ ~(InLog(e.cluster) \/ (d = RootDir /\ e.owner))
             /\ e.cluster \in Free /\ ~(Len(w.dirs) >= MaxDirs)
    <3> DEFINE c == e.cluster
    <3> HIDE DEF c
    <3>1. c \in Free /\ Next1 = [w EXCEPT !.dirs = Append(@, c)] BY <2>4 DEF c
    <3>2. /\ Next1.ok = w.ok /\ Next1.seen = w.seen /\ Next1.dirs = Append(w.dirs, c)
          /\ Next1 \in [ok : BOOLEAN, seen : Nat, dirs : Seq(Free)] BY <1>1, <3>1
    <3>3. /\ Len(Next1.dirs) = Len(w.dirs) + 1
          /\ \A i \in 1 .. Len(w.dirs) : Next1.dirs[i] = w.dirs[i]
          /\ Next1.dirs[Len(w.dirs) + 1] = c BY <1>1, <1>2, <3>1, <3>2
    <3> HIDE DEF Next1
    <3>4. Walks(Next1) BY <1>2, <2>4, <3>2, <3>3 DEF Walks
    <3>5. Extends(w, Next1) BY <1>2, <3>2, <3>3 DEF Extends
    <3>6. \E i \in 1 .. Len(y.dirs) : y.dirs[i] = e.cluster BY <1>2, <2>4, <3>3 DEF c
    <3>7. Clean(d, k, y.dirs) BY <1>7, <2>4, <3>6 DEF Clean
    <3> QED BY <2>4, <3>2, <3>4, <3>5, <3>7
  <2> QED BY <2>1, <2>2, <2>3, <2>4 DEF Free
<1> QED BY <1>5, <1>6, <1>7

\* A directory, entry by entry.
Reading(w, d, n, r) == r = [k \in 0 .. n |-> IF k = 0 THEN w ELSE WalDirCb(r[k - 1], d, k)]
LEMMA DirectoryIsRead ==
  ASSUME NEW w, NEW d, Len(OverlaidDir(d)) \in Nat
  PROVE  LET N == Len(OverlaidDir(d)) IN
         \E r : Reading(w, d, N, r) /\ WalkDir(w, d) = r[N]
<1> DEFINE N == Len(OverlaidDir(d))
           K == {m \in 0 .. N : \E r : Reading(w, d, m, r)}
<1>0. N \in Nat OBVIOUS
<1>1. 0 \in K
  <2> DEFINE r == [m \in 0 .. 0 |-> w]
  <2>1. Reading(w, d, 0, r) BY DEF Reading
  <2> QED BY <1>0, <2>1
<1> HIDE DEF N
<1>2. ASSUME NEW k \in 1 .. N, k - 1 \in K PROVE k \in K
  <2>1. PICK r : Reading(w, d, k - 1, r) BY <1>2
  <2> DEFINE R == [m \in 0 .. k |-> IF m = k THEN WalDirCb(r[k - 1], d, k) ELSE r[m]]
  <2>2. \A m \in 0 .. k - 1 : r[m] = IF m = 0 THEN w ELSE WalDirCb(r[m - 1], d, m)
    <3>1. r = [m \in 0 .. k - 1 |-> IF m = 0 THEN w ELSE WalDirCb(r[m - 1], d, m)] BY <2>1 DEF Reading
    <3> QED BY <3>1, Zenon
  <2>3. \A m \in 0 .. k - 1 : R[m] = r[m] BY <1>0
  <2>4. R[k] = WalDirCb(R[k - 1], d, k) BY <1>0, <2>3
  <2>5. R = [m \in 0 .. k |-> R[m]] OBVIOUS
  <2> HIDE DEF R, K
  <2>6. \A m \in 0 .. k : R[m] = IF m = 0 THEN w ELSE WalDirCb(R[m - 1], d, m)
    <3>1. ASSUME NEW m \in 0 .. k - 1, m # 0 PROVE m - 1 \in 0 .. k - 1 BY <1>0, <3>1
    <3>2. ASSUME NEW m \in 0 .. k - 1 PROVE R[m] = IF m = 0 THEN w ELSE WalDirCb(R[m - 1], d, m) BY <2>2, <2>3, <3>1
    <3> QED BY <1>0, <2>4, <3>2
  <2>7. Reading(w, d, k, R) BY <2>5, <2>6 DEF Reading
  <2> QED BY <1>0, <2>7 DEF K
<1> HIDE DEF K
<1>3. \A k \in 1 .. N : k - 1 \in K => k \in K BY <1>2
<1>4. \A k \in 0 .. N : k \in K BY <1>0, <1>1, <1>3, Rises
<1>5. \E r : Reading(w, d, N, r) BY <1>0, <1>4 DEF K
<1> QED BY <1>5 DEF WalkDir, Reading, N

LEMMA DirectoryIsWalked ==
  ASSUME NEW w, Walks(w), NEW d, Len(OverlaidDir(d)) \in Nat, MaxDirs \in Nat
  PROVE  LET y == WalkDir(w, d) IN
         /\ Walks(y) /\ Extends(w, y)
         /\ y.ok => \A k \in 1 .. Len(OverlaidDir(d)) : Clean(d, k, y.dirs)
         /\ y.seen # w.seen => d = RootDir /\ WalOff \in 1 .. Len(OverlaidDir(d))
<1> DEFINE N == Len(OverlaidDir(d))
<1>1. PICK r : Reading(w, d, N, r) /\ WalkDir(w, d) = r[N] BY DirectoryIsRead
<1>0. N \in Nat OBVIOUS
<1> HIDE DEF N
<1> DEFINE Sees(n) ==
             /\ Walks(r[n]) /\ Extends(w, r[n])
             /\ r[n].ok => \A k \in 1 .. n : Clean(d, k, r[n].dirs)
             /\ r[n].seen # w.seen => d = RootDir /\ WalOff \in 1 .. n
           K == {n \in 0 .. N : Sees(n)}
<1>2. \A m \in 0 .. N : r[m] = IF m = 0 THEN w ELSE WalDirCb(r[m - 1], d, m)
  <2>1. r = [m \in 0 .. N |-> IF m = 0 THEN w ELSE WalDirCb(r[m - 1], d, m)] BY <1>1 DEF Reading
  <2> QED BY <2>1, Zenon
<1>3. 0 \in K
  <2>1. r[0] = w BY <1>0, <1>2
  <2>2. Extends(w, w) BY DEF Extends
  <2> QED BY <1>0, <2>1, <2>2
<1>4. ASSUME NEW m \in 1 .. N, m - 1 \in K PROVE m \in K
  <2> DEFINE v == r[m - 1]
             y == r[m]
  <2>1. y = WalDirCb(v, d, m) BY <1>0, <1>2
  <2>2. Sees(m - 1) BY <1>4
  <2>3. Walks(y) /\ Extends(v, y) /\ (y.ok => Clean(d, m, y.dirs)) /\ (y.seen # v.seen => d = RootDir /\ m = WalOff)
    BY <2>1, <2>2, EntryIsWalked
  <2>4. Extends(w, y) BY <2>2, <2>3, ExtendsOn
  <2>5. ASSUME y.ok, NEW k \in 1 .. m PROVE Clean(d, k, y.dirs)
    <3>1. v.ok BY <2>3, <2>5 DEF Extends
    <3>2. CASE k = m BY <2>3, <2>5, <3>2
    <3>3. CASE k # m
      <4>1. k \in 1 .. m - 1 BY <3>3
      <4>2. Clean(d, k, v.dirs) BY <2>2, <3>1, <4>1
      <4> QED BY <2>2, <2>3, <4>2, CleanStays
    <3> QED BY <3>2, <3>3
  <2>6. ASSUME y.seen # w.seen PROVE d = RootDir /\ WalOff \in 1 .. m
    <3>1. CASE v.seen # w.seen
      <4>1. d = RootDir /\ WalOff \in 1 .. m - 1 BY <2>2, <3>1
      <4> QED BY <4>1
    <3>2. CASE v.seen = w.seen
      <4>1. d = RootDir /\ m = WalOff BY <2>3, <2>6, <3>2
      <4> QED BY <4>1
    <3> QED BY <3>1, <3>2
  <2>7. m \in 0 .. N BY <1>0
  <2> QED BY <2>3, <2>4, <2>5, <2>6, <2>7
<1> HIDE DEF K
<1>5. \A k \in 1 .. N : k - 1 \in K => k \in K BY <1>4
<1>6. \A k \in 0 .. N : k \in K BY <1>0, <1>3, <1>5, Rises
<1>7. N \in K BY <1>0, <1>6
<1> QED BY <1>1, <1>7 DEF K, N

\* The directories, in the order they are found.
Visiting(n, r) ==
    r = [i \in 0 .. n |-> IF i = 0 THEN [ok |-> TRUE, seen |-> 0, dirs |-> <<RootDir>>] ELSE Visit(r[i - 1], i)]
LEMMA AllAreVisited ==
  ASSUME MaxDirs \in Nat
  PROVE  \E r : Visiting(MaxDirs, r) /\ Visited = r[MaxDirs]
<1> DEFINE N == MaxDirs
           K == {m \in 0 .. N : \E r : Visiting(m, r)}
           Root == [ok |-> TRUE, seen |-> 0, dirs |-> <<RootDir>>]
<1>0. N \in Nat OBVIOUS
<1>1. 0 \in K
  <2> DEFINE r == [m \in 0 .. 0 |-> Root]
  <2>1. Visiting(0, r) BY DEF Visiting
  <2> QED BY <1>0, <2>1
<1> HIDE DEF N
<1>2. ASSUME NEW k \in 1 .. N, k - 1 \in K PROVE k \in K
  <2>1. PICK r : Visiting(k - 1, r) BY <1>2
  <2> DEFINE R == [m \in 0 .. k |-> IF m = k THEN Visit(r[k - 1], k) ELSE r[m]]
  <2>2. \A m \in 0 .. k - 1 : r[m] = IF m = 0 THEN Root ELSE Visit(r[m - 1], m)
    <3>1. r = [m \in 0 .. k - 1 |-> IF m = 0 THEN Root ELSE Visit(r[m - 1], m)] BY <2>1 DEF Visiting
    <3> HIDE DEF Root
    <3> QED BY <3>1, Zenon
  <2> HIDE DEF Root
  <2>3. \A m \in 0 .. k - 1 : R[m] = r[m] BY <1>0
  <2>4. R[k] = Visit(R[k - 1], k) BY <1>0, <2>3
  <2>5. R = [m \in 0 .. k |-> R[m]] OBVIOUS
  <2> HIDE DEF R, K
  <2>6. \A m \in 0 .. k : R[m] = IF m = 0 THEN Root ELSE Visit(R[m - 1], m)
    <3>1. ASSUME NEW m \in 0 .. k - 1, m # 0 PROVE m - 1 \in 0 .. k - 1 BY <1>0, <3>1
    <3>2. ASSUME NEW m \in 0 .. k - 1 PROVE R[m] = IF m = 0 THEN Root ELSE Visit(R[m - 1], m) BY <2>2, <2>3, <3>1
    <3> QED BY <1>0, <2>4, <3>2
  <2>7. Visiting(k, R) BY <2>5, <2>6 DEF Visiting, Root
  <2> QED BY <1>0, <2>7 DEF K
<1> HIDE DEF K
<1>3. \A k \in 1 .. N : k - 1 \in K => k \in K BY <1>2
<1>4. \A k \in 0 .. N : k \in K BY <1>0, <1>1, <1>3, Rises
<1>5. \E r : Visiting(N, r) BY <1>0, <1>4 DEF K
<1> QED BY <1>5 DEF Visited, Visiting, N
\* What the walk as a whole has shown when it ends well.
LEMMA AllAreClean ==
  ASSUME MaxDirs \in Nat \ {0}, RootDir \in Free, Visited.ok,
         \A d \in Free : Len(OverlaidDir(d)) \in Nat
  PROVE  LET ds == Visited.dirs IN
         /\ ds \in Seq(Free) /\ Len(ds) >= 1 /\ ds[1] = RootDir
         /\ \A i \in 1 .. Len(ds) : \A k \in 1 .. Len(OverlaidDir(ds[i])) : Clean(ds[i], k, ds)
         /\ Visited.seen # 0 => WalOff \in 1 .. Len(OverlaidDir(RootDir))
<1> DEFINE Root == [ok |-> TRUE, seen |-> 0, dirs |-> <<RootDir>>]
<1>0. MaxDirs \in Nat OBVIOUS
<1>1. PICK r : Visiting(MaxDirs, r) /\ Visited = r[MaxDirs] BY <1>0, AllAreVisited
<1> DEFINE Shows(n) ==
             /\ Walks(r[n]) /\ Extends(Root, r[n])
             /\ r[n].ok => \A i \in 1 .. n : i <= Len(r[n].dirs) =>
                   \A k \in 1 .. Len(OverlaidDir(r[n].dirs[i])) : Clean(r[n].dirs[i], k, r[n].dirs)
             /\ r[n].seen # 0 => WalOff \in 1 .. Len(OverlaidDir(RootDir))
           K == {n \in 0 .. MaxDirs : Shows(n)}
<1>2. \A m \in 0 .. MaxDirs : r[m] = IF m = 0 THEN Root ELSE Visit(r[m - 1], m)
  <2>1. r = [m \in 0 .. MaxDirs |-> IF m = 0 THEN Root ELSE Visit(r[m - 1], m)] BY <1>1 DEF Visiting
  <2> HIDE DEF Root
  <2> QED BY <2>1, Zenon
<1>3. /\ Walks(Root) /\ Extends(Root, Root) /\ Root.seen = 0 /\ Root.ok
      /\ Len(Root.dirs) = 1 /\ Root.dirs[1] = RootDir BY <1>0 DEF Walks, Extends
<1> HIDE DEF Root
<1>4. 0 \in K
  <2>1. r[0] = Root BY <1>0, <1>2
  <2> QED BY <1>0, <1>3, <2>1
<1>5. ASSUME NEW m \in 1 .. MaxDirs, m - 1 \in K PROVE m \in K
  <2> DEFINE v == r[m - 1]
             y == r[m]
  <2>1. y = Visit(v, m) BY <1>0, <1>2
  <2>2. Shows(m - 1) BY <1>5
  <2>3. Walks(v) /\ Len(v.dirs) \in Nat BY <2>2 DEF Walks
  <2>4. CASE m > Len(v.dirs)
    <3>1. y = v BY <2>1, <2>4 DEF Visit
    <3>2. \A i \in 1 .. m : i <= Len(v.dirs) => i \in 1 .. m - 1 BY <2>3, <2>4
    <3>3. m \in 0 .. MaxDirs BY <1>0
    <3> QED BY <2>2, <3>1, <3>2, <3>3
  <2>5. CASE m <= Len(v.dirs)
    <3> DEFINE d == v.dirs[m]
    <3>1. y = WalkDir(v, d) BY <2>1, <2>3, <2>5 DEF Visit
    <3>2. d \in Free BY <2>3, <2>5 DEF Walks
    <3>3. /\ Walks(y) /\ Extends(v, y)
          /\ y.ok => \A k \in 1 .. Len(OverlaidDir(d)) : Clean(d, k, y.dirs)
          /\ y.seen # v.seen => d = RootDir /\ WalOff \in 1 .. Len(OverlaidDir(d))
      BY <1>0, <2>3, <3>1, <3>2, DirectoryIsWalked
    <3>4. Extends(Root, y) BY <1>3, <2>2, <3>3, ExtendsOn
    <3>5. y.seen # 0 => WalOff \in 1 .. Len(OverlaidDir(RootDir)) BY <2>2, <3>3
    <3>6. Len(y.dirs) \in Nat BY <3>3 DEF Walks
    <3>7. ASSUME y.ok, NEW i \in 1 .. m, NEW k \in 1 .. Len(OverlaidDir(y.dirs[i]))
          PROVE  Clean(y.dirs[i], k, y.dirs)
      <4>1. v.ok BY <3>3, <3>7 DEF Extends
      <4>2. i \in 1 .. Len(v.dirs) BY <2>3, <2>5
      <4>3. y.dirs[i] = v.dirs[i] BY <3>3, <4>2 DEF Extends
      <4>4. CASE i = m
        <5>1. y.dirs[i] = d BY <4>3, <4>4
        <5> QED BY <3>3, <3>7, <5>1
      <4>5. CASE i # m
        <5>1. i \in 1 .. m - 1 /\ i <= Len(v.dirs) BY <2>3, <4>2, <4>5
        <5>2. Clean(v.dirs[i], k, v.dirs) BY <2>2, <3>7, <4>1, <4>3, <5>1
        <5> QED BY <2>3, <3>3, <4>3, <5>2, CleanStays, SMTT(40)
      <4> QED BY <4>4, <4>5
    <3>8. m \in 0 .. MaxDirs BY <1>0
    <3> QED BY <3>3, <3>4, <3>5, <3>7, <3>8
  <2> QED BY <2>3, <2>4, <2>5
<1> HIDE DEF K
<1>6. \A k \in 1 .. MaxDirs : k - 1 \in K => k \in K BY <1>5
<1>7. \A k \in 0 .. MaxDirs : k \in K BY <1>0, <1>4, <1>6, Rises
<1>8. Shows(MaxDirs) BY <1>0, <1>7 DEF K
<1> HIDE DEF Shows
<1> DEFINE ds == Visited.dirs
<1>9. /\ Walks(Visited) /\ Extends(Root, Visited)
      /\ \A i \in 1 .. MaxDirs : i <= Len(ds) => \A k \in 1 .. Len(OverlaidDir(ds[i])) : Clean(ds[i], k, ds)
      /\ Visited.seen # 0 => WalOff \in 1 .. Len(OverlaidDir(RootDir)) BY <1>1, <1>8 DEF Shows
<1>10. ds \in Seq(Free) /\ Len(ds) \in Nat /\ Len(ds) <= MaxDirs BY <1>9 DEF Walks
<1>11. Len(ds) >= 1 /\ ds[1] = RootDir BY <1>3, <1>9, <1>10 DEF Extends
<1>12. \A i \in 1 .. Len(ds) : i \in 1 .. MaxDirs /\ i <= Len(ds) BY <1>0, <1>10
<1> QED BY <1>9, <1>10, <1>11, <1>12
-----------------------------------------------------------------------------
Legible(es) == DOMAIN es = 1 .. Len(es) /\ Len(es) \in Nat
WalTyped ==
    /\ Free \cup {RootDir} \subseteq DOMAIN entries /\ DOMAIN undo.dirs \subseteq DOMAIN entries
    /\ \A d \in DOMAIN entries : Legible(entries[d])
    /\ \A d \in DOMAIN undo.dirs : Legible(undo.dirs[d])
WholeIn(es) ==
    /\ Owners(es[RootDir]) = {First(es[RootDir])}
    /\ \E tree \in SUBSET DOMAIN es :
        /\ RootDir \in tree
        /\ \A d \in tree : \A i \in DOMAIN es[d] : <<d, i>> # <<RootDir, First(es[RootDir])>> =>
            ~InLog(es[d][i].cluster) /\ (es[d][i].dir => es[d][i].cluster \in tree)

LEMMA FirstIsOwner ==
  ASSUME NEW es, Legible(es), Owners(es) # {}
  PROVE  First(es) \in Owners(es)
<1> DEFINE R == {p \in Nat \X Nat : p[1] < p[2]}
           B == Owners(es)
<1>1. IsWellFoundedOn(R, Nat) BY NatLessThanWellFounded DEF OpToRel
<1>2. \A x, y \in Nat : <<y, x>> \in R <=> y < x OBVIOUS
<1> HIDE DEF R
<1>3. B \subseteq Nat BY DEF Owners, Legible
<1>4. PICK n \in B : \A y \in B : ~(<<y, n>> \in R) BY <1>1, <1>3, WFMin
<1> HIDE DEF B
<1>5. ASSUME NEW y \in B PROVE n <= y
  <2>1. y \in Nat /\ n \in Nat /\ ~(<<y, n>> \in R) BY <1>3, <1>4
  <2>2. ~(y < n) BY <1>2, <2>1
  <2> QED BY <2>1, <2>2
<1> QED BY <1>4, <1>5 DEF First, B
LEMMA OnlyIsFirst ==
  ASSUME NEW es, NEW k \in Nat, Owners(es) = {k}
  PROVE  First(es) = k BY DEF First

\* What the checks have shown of the volume as the log would restore it.
LEMMA PreparedIsWhole ==
  ASSUME VolumesSound, WalTyped, Prepared,
         NEW es, DOMAIN es = DOMAIN entries, \A d \in DOMAIN entries : es[d] = OverlaidDir(d)
  PROVE  WholeIn(es)
<1>1. WalFind = "found" /\ Visited.ok /\ Visited.seen = 1 BY DEF Prepared, WalCheckNamespace
<1>2. Owners(entries[RootDir]) # {} /\ RootDir \in Free BY <1>1 DEF WalFind, VolumesSound, Free
<1>3. RootDir \in DOMAIN entries /\ \A d \in Free : d \in DOMAIN entries BY DEF WalTyped
<1>4. \A d \in DOMAIN entries : Legible(OverlaidDir(d)) BY DEF WalTyped, OverlaidDir
<1>5. \A d \in Free : Len(OverlaidDir(d)) \in Nat BY <1>3, <1>4 DEF Legible
<1>6. WalOff \in Owners(entries[RootDir])
  <2>1. Legible(entries[RootDir]) BY <1>3 DEF WalTyped
  <2> QED BY <1>2, <2>1, FirstIsOwner DEF WalOff
<1>7. WalEntry.owner BY <1>6 DEF WalEntry, Owners
<1>8. MaxDirs \in Nat \ {0} BY DEF VolumesSound
<1> DEFINE ds == Visited.dirs
           tree == {ds[i] : i \in 1 .. Len(ds)}
<1>9. /\ ds \in Seq(Free) /\ Len(ds) >= 1 /\ ds[1] = RootDir
      /\ \A i \in 1 .. Len(ds) : \A k \in 1 .. Len(OverlaidDir(ds[i])) : Clean(ds[i], k, ds)
      /\ Visited.seen # 0 => WalOff \in 1 .. Len(OverlaidDir(RootDir)) BY <1>1, <1>2, <1>5, <1>8, AllAreClean
<1> HIDE DEF ds
<1>10. RootDir \in tree /\ \A d \in tree : d \in Free /\ \A k \in DOMAIN es[d] : Clean(d, k, ds)
  <2>1. Len(ds) \in Nat BY <1>9
  <2>2. RootDir \in tree BY <1>9, <2>1
  <2>3. ASSUME NEW d \in tree PROVE d \in Free /\ \A k \in DOMAIN es[d] : Clean(d, k, ds)
    <3>1. PICK i \in 1 .. Len(ds) : d = ds[i] OBVIOUS
    <3>2. d \in Free BY <1>9, <3>1
    <3>3. DOMAIN es[d] = 1 .. Len(OverlaidDir(d)) BY <1>3, <1>4, <3>2 DEF Legible
    <3> QED BY <1>9, <3>1, <3>2, <3>3
  <2> QED BY <2>2, <2>3
<1>11. \A c : (\E i \in 1 .. Len(ds) : ds[i] = c) => c \in tree OBVIOUS
<1> HIDE DEF tree
<1>12. DOMAIN es[RootDir] = 1 .. Len(OverlaidDir(RootDir)) /\ es[RootDir] = OverlaidDir(RootDir)
  BY <1>3, <1>4 DEF Legible
<1>13. WalOff \in DOMAIN es[RootDir] BY <1>1, <1>9, <1>12
<1>14. Owners(es[RootDir]) = {WalOff}
  <2>1. WalOff \in Owners(es[RootDir])
    <3>1. Clean(RootDir, WalOff, ds) BY <1>10, <1>13
    <3>2. es[RootDir][WalOff] = WalEntry BY <1>12, <3>1 DEF Clean
    <3> QED BY <1>7, <1>13, <3>2 DEF Owners
  <2>2. ASSUME NEW k \in Owners(es[RootDir]) PROVE k = WalOff
    <3>1. k \in DOMAIN es[RootDir] /\ es[RootDir][k].owner BY DEF Owners
    <3>2. Clean(RootDir, k, ds) BY <1>10, <3>1
    <3> QED BY <1>12, <3>1, <3>2 DEF Clean
  <2> QED BY <2>1, <2>2
<1>15. First(es[RootDir]) = WalOff
  <2>1. WalOff \in Nat BY <1>12, <1>13
  <2> QED BY <1>14, <2>1, OnlyIsFirst
<1>16. tree \in SUBSET DOMAIN es BY <1>3, <1>10
<1>17. ASSUME NEW d \in tree, NEW i \in DOMAIN es[d], <<d, i>> # <<RootDir, WalOff>>
       PROVE  ~InLog(es[d][i].cluster) /\ (es[d][i].dir => es[d][i].cluster \in tree)
  <2>1. Clean(d, i, ds) BY <1>10
  <2>2. es[d] = OverlaidDir(d) BY <1>16
  <2>3. ~(d = RootDir /\ i = WalOff) BY <1>17
  <2> QED BY <1>11, <2>1, <2>2, <2>3 DEF Clean
<1> QED BY <1>10, <1>14, <1>15, <1>16, <1>17 DEF WholeIn

WalInv == WalTyped /\ ShownIsWhole
\* A preparation that succeeds leaves the volume whole; one that does not
\* leaves it typed.
LEMMA PrepareKeeps ==
  ASSUME VolumesSound, WalTyped, NEW yes, NEW no, no \notin {"shown", "writable"},
         Prepare(yes, no), UNCHANGED <<header, dirty>>
  PROVE  WalInv'
<1> DEFINE after == [d \in DOMAIN entries |-> OverlaidDir(d)]
<1>1. CASE Prepared /\ Active /\ Undone
  <2>1. DOMAIN undo'.dirs = {} /\ DOMAIN undo'.fats = {} /\ undo'.fats = <<>> /\ undo'.dirs = <<>> BY <1>1 DEF Undone
  <2>2. DOMAIN entries' = DOMAIN entries /\ \A d \in DOMAIN entries : entries'[d] = OverlaidDir(d) BY <1>1 DEF Undone
  <2>3. WalTyped'
    <3>1. \A d \in DOMAIN entries' : Legible(entries'[d]) BY <2>2 DEF WalTyped, OverlaidDir
    <3> QED BY <2>1, <2>2, <3>1 DEF WalTyped, Free, InLog
  <2>4. WholeIn(entries') BY <1>1, <2>2, PreparedIsWhole
  <2>5. fats'[1] = fats'[2] BY <1>1 DEF Undone, Prepared, WalCheckFats
  <2>6. ~Active' BY <2>1 DEF Active
  <2>7. ~dirty' /\ header' BY <1>1 DEF Prepared, WalCheckFats
  <2> QED BY <2>3, <2>4, <2>5, <2>6, <2>7 DEF WalInv, ShownIsWhole, WholeIn, WalOff, InLog, Owners
<1>2. CASE Prepared /\ ~Active /\ NothingWritten
  <2>1. undo.fats = <<>> /\ undo.dirs = <<>> BY <1>2 DEF Active
  <2>2. DOMAIN undo.fats = {} /\ DOMAIN undo.dirs = {} BY <2>1
  <2>3. (\A d \in DOMAIN entries : entries[d] = OverlaidDir(d)) /\ Overlaid(1) = fats[1] /\ Overlaid(2) = fats[2]
    BY <2>2 DEF OverlaidDir, Overlaid
  <2>4. WholeIn(entries) BY <1>2, <2>3, PreparedIsWhole
  <2>5. fats = fats' /\ entries' = entries /\ undo' = undo BY <1>2 DEF NothingWritten
  <2>6. fats'[1] = fats'[2] BY <1>2, <2>3, <2>5 DEF Prepared, WalCheckFats
  <2>7. ~Active' BY <1>2, <2>5 DEF Active
  <2>8. ~dirty' /\ header' BY <1>2 DEF Prepared, WalCheckFats
  <2>9. WalTyped' BY <2>5 DEF WalTyped, Free, InLog
  <2> QED BY <2>4, <2>5, <2>6, <2>7, <2>8, <2>9 DEF WalInv, ShownIsWhole, WholeIn, WalOff, InLog, Owners
<1>3. CASE state' = no /\ (NothingWritten \/ HalfUndone)
  <2>1. entries' = entries /\ undo' = undo BY <1>3 DEF NothingWritten, HalfUndone
  <2>2. WalTyped' BY <2>1 DEF WalTyped, Free, InLog
  <2> QED BY <1>3, <2>2 DEF WalInv, ShownIsWhole
<1> QED BY <1>1, <1>2, <1>3 DEF Prepare

\* What is shown with a log is a whole volume: after every mount and change
\* of mode, whatever the drive held and whichever step failed (wal_prepare).
THEOREM ShownVolumesAreWhole ==
  ASSUME VolumesSound
  PROVE  WalSpec => []ShownIsWhole
<1>1. WalInit => WalInv
  <2> SUFFICES ASSUME WalInit PROVE WalInv OBVIOUS
  <2>1. PICK v \in Volumes : entries = v.entries /\ undo = v.undo BY DEF WalInit
  <2>2. WalTyped BY <2>1 DEF WalTyped, VolumesSound, Free, InLog, Legible
  <2> QED BY <2>2 DEF WalInv, ShownIsWhole, WalInit
<1>2. ASSUME WalInv, WalNext \/ UNCHANGED walVars PROVE WalInv'
  <2>0. WalTyped /\ ShownIsWhole BY <1>2 DEF WalInv
  <2>1. CASE LogMount
    <3>1. CASE state' = "plain" /\ NothingWritten
      <4>1. WalTyped' BY <2>0, <3>1 DEF WalTyped, NothingWritten, Free, InLog
      <4> QED BY <3>1, <4>1 DEF WalInv, ShownIsWhole
    <3>2. CASE Prepare("shown", "withheld") BY <2>0, <2>1, <3>2, PrepareKeeps DEF LogMount
    <3> QED BY <2>1, <3>1, <3>2 DEF LogMount
  <2>2. ASSUME NEW enable \in BOOLEAN, FatWriteMode(enable) PROVE WalInv'
    <3>1. CASE Prepare("writable", "fenced") BY <2>0, <2>2, <3>1, PrepareKeeps DEF FatWriteMode
    <3>2. CASE state' = "shown" /\ NothingWritten
      <4>1. state \in {"shown", "writable"} /\ UNCHANGED <<header, dirty, fats, entries, undo>>
        BY <2>2, <3>2 DEF FatWriteMode, NothingWritten
      <4>2. WalTyped' BY <2>0, <4>1 DEF WalTyped, Free, InLog
      <4>3. ShownIsWhole' BY <2>0, <4>1 DEF ShownIsWhole, Active, WalOff, Owners, First, InLog
      <4> QED BY <4>2, <4>3 DEF WalInv
    <3> QED BY <2>2, <3>1, <3>2 DEF FatWriteMode
  <2>3. CASE Forget
    <3>1. WalTyped' BY <2>0, <2>3 DEF Forget, WalTyped, Free, InLog
    <3> QED BY <2>3, <3>1 DEF Forget, WalInv, ShownIsWhole
  <2>4. CASE UNCHANGED walVars
    <3>1. WalTyped' BY <2>0, <2>4 DEF walVars, WalTyped, Free, InLog
    <3>2. ShownIsWhole' BY <2>0, <2>4 DEF walVars, ShownIsWhole, Active, WalOff, Owners, First, InLog
    <3> QED BY <3>1, <3>2 DEF WalInv
  <2> QED BY <1>2, <2>1, <2>2, <2>3, <2>4 DEF WalNext
<1>3. WalInv => ShownIsWhole BY DEF WalInv
<1> QED BY <1>1, <1>2, <1>3, PTL DEF WalSpec
=============================================================================
