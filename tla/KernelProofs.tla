----------------------------- MODULE KernelProofs -----------------------------
(***************************************************************************)
(* The scheduler, and what the desktop builds on it: its modes, its loader *)
(* of programs and its keyboard, for every number of tasks, every table of *)
(* modes, every set of programs and every script of keys.                  *)
(*                                                                         *)
(* Tasks.  For any scan limits and any sleeps, the scheduler never follows *)
(* a pointer to freed memory, never frees a stack in use and never         *)
(* switches to a dead task, and no sleep ends before its time.             *)
(*                                                                         *)
(* Modes.  Both properties are of the moments between two switches, and a  *)
(* switch passes through states in which neither holds: the invariant says *)
(* at each stage of it which mode is drawn, how large the new buffer is,   *)
(* and where the fallback and the mode asked for stand to the last mode    *)
(* the user accepted.                                                      *)
(*                                                                         *)
(* Programs.  A program that crashed stays loaded and marked until it is   *)
(* unloaded, and the mark is only cleared with nothing loaded.  A question *)
(* that is still current was asked of the KvFS there is.                   *)
(*                                                                         *)
(* Keys.  What the desktop took and what waits in the ring is one queue,   *)
(* in the order of typing, and the byte in the controller's buffer is      *)
(* younger than all of it.                                                 *)
(***************************************************************************)
EXTENDS Sched, Modes, Programs, Input, Heap, FiniteSetTheorems, WellFoundedInduction, TLAPS

-----------------------------------------------------------------------------
(*****************************************************************************)
(* The tasks.                                                                *)
(*****************************************************************************)
\* A ready task has no wake time ahead of it.
ReadyIsDue == \A t \in Slots : state[t] = "READY" => left[t] = 0

\* The inductive invariant.
SchedInv == TypeOK /\ NoDangling /\ OneRing /\ ReadyIsDue

\* The conversion of task_sleep yields a number of ticks.
LEMMA DelayType == ASSUME NEW ms \in Durations PROVE Delay(ms) \in Nat
<1>1. ms \in Nat /\ Hz \in Nat BY TimeAssumption
<1>2. ms \div 1000 \in Nat /\ ms % 1000 \in Nat BY <1>1
<1>3. (ms \div 1000) * Hz \in Nat /\ (ms % 1000) * Hz \in Nat BY <1>1, <1>2
<1>4. ((ms % 1000) * Hz + 999) \div 1000 \in Nat BY <1>3
<1> QED BY <1>3, <1>4 DEF Delay

\* What reap_one leaves: a closed, injective list without the freed task.
Linked(al, links, cur, head) ==
    /\ al \subseteq Slots /\ links \in [Slots -> Slots]
    /\ cur \in al /\ head \in al
    /\ \A t \in al : links[t] \in al
    /\ \A t, u \in al : links[t] = links[u] => t = u
    /\ \A part \in SUBSET al :
        part # {} /\ (\A t \in part : links[t] \in part) => part = al

\* Taking a task other than the running one out of the circle leaves a circle.
LEMMA UnlinkKeeps ==
    ASSUME NEW al, NEW links, NEW head, NEW cur, Linked(al, links, cur, head),
           NEW p \in al, links[p] # cur
    PROVE  Linked(al \ {links[p]},
                  [links EXCEPT ![p] = links[links[p]], ![links[p]] = links[p]],
                  cur, IF head = links[p] THEN links[links[p]] ELSE head)
<1> DEFINE n == links[p]
           after == [links EXCEPT ![p] = links[n], ![n] = n]
<1> USE DEF Linked
<1>1. n \in al OBVIOUS
<1>2. links[n] # n
  <2>1. SUFFICES ASSUME links[n] = n PROVE FALSE OBVIOUS
  <2>2. {n} \in SUBSET al /\ {n} # {} /\ \A t \in {n} : links[t] \in {n} BY <1>1, <2>1
  <2>3. {n} = al BY <2>2
  <2> QED BY <2>3
<1>3. p # n BY <1>2
<1>4. after \in [Slots -> Slots] BY <1>1
<1>5. after[p] = links[n] /\ \A t \in al \ {n, p} : after[t] = links[t] BY <1>3
<1>6. \A t \in al \ {n} : after[t] \in al \ {n} BY <1>1, <1>2, <1>5
<1>7. \A t, u \in al \ {n} : after[t] = after[u] => t = u BY <1>1, <1>5
<1>8. ASSUME NEW part \in SUBSET (al \ {n}), part # {},
             \A t \in part : after[t] \in part
      PROVE  part = al \ {n}
  <2>1. p \in part
    <3>1. SUFFICES ASSUME p \notin part PROVE FALSE OBVIOUS
    <3>2. \A t \in part : links[t] \in part BY <1>5, <1>8, <3>1
    <3>3. part = al BY <1>8, <3>2
    <3> QED BY <1>1, <1>8, <3>3
  <2>2. \A t \in part \cup {n} : links[t] \in part \cup {n} BY <1>5, <1>8, <2>1
  <2>3. part \cup {n} \in SUBSET al /\ part \cup {n} # {} BY <1>1
  <2>4. part \cup {n} = al BY <2>2, <2>3
  <2> QED BY <1>8, <2>4
<1> QED BY <1>1, <1>2, <1>4, <1>6, <1>7, <1>8

\* Putting a new task behind the running one leaves a circle.
LEMMA InsertKeeps ==
    ASSUME NEW al, NEW links, NEW head, NEW cur, Linked(al, links, cur, head),
           NEW new \in Slots \ al
    PROVE  Linked(al \cup {new},
                  [links EXCEPT ![new] = links[cur], ![cur] = new], cur, head)
<1> DEFINE after == [links EXCEPT ![new] = links[cur], ![cur] = new]
<1> USE DEF Linked
<1>1. /\ after \in [Slots -> Slots]
      /\ after[new] = links[cur] /\ after[cur] = new
      /\ \A t \in al \ {cur} : after[t] = links[t] OBVIOUS
<1>2. \A t \in al \cup {new} : after[t] \in al \cup {new} BY <1>1
<1>3. \A t, u \in al \cup {new} : after[t] = after[u] => t = u BY <1>1
<1>4. ASSUME NEW part \in SUBSET (al \cup {new}), part # {},
             \A t \in part : after[t] \in part
      PROVE  part = al \cup {new}
  <2>1. \A t \in part \ {new} : links[t] \in part \ {new} BY <1>1, <1>4
  <2>2. part \ {new} # {} BY <1>1, <1>4
  <2>3. part \ {new} = al BY <2>1, <2>2
  <2> QED BY <1>1, <1>4, <2>3
<1> QED BY <1>1, <1>2, <1>3, <1>4

\* The inductive invariant, in terms of the list.
LEMMA InvLinked == SchedInv <=> TypeOK /\ ReadyIsDue /\ Linked(alloc, nxt, current, tasks)
BY DEF SchedInv, TypeOK, NoDangling, OneRing, Linked

\* reap_one frees at most one dead task, never the running one.
LEMMA ReapOneKeeps ==
    ASSUME SchedInv, ReapOne(state)
    PROVE  /\ Linked(alloc', nxt', current, tasks')
           /\ \A t \in alloc \ alloc' : t # current
           /\ alloc' \subseteq alloc
<1>1. Linked(alloc, nxt, current, tasks) BY InvLinked
<1>2. CASE UNCHANGED <<alloc, nxt, tasks>> BY <1>1, <1>2
<1>3. ASSUME NEW p \in DeadBehind(state),
             alloc' = alloc \ {nxt[p]}, Unlink(p),
             tasks' = IF tasks = nxt[p] THEN nxt[nxt[p]] ELSE tasks
      PROVE  /\ Linked(alloc', nxt', current, tasks')
             /\ \A t \in alloc \ alloc' : t # current
             /\ alloc' \subseteq alloc
  <2>1. p \in alloc /\ nxt[p] # current BY DEF DeadBehind
  <2>2. nxt' = [nxt EXCEPT ![p] = nxt[nxt[p]], ![nxt[p]] = nxt[p]] BY <1>3 DEF Unlink
  <2>3. Linked(alloc', nxt', current, tasks') BY <1>1, <1>3, <2>1, <2>2, UnlinkKeeps
  <2> QED BY <1>3, <2>1, <2>3
<1> QED BY <1>2, <1>3 DEF ReapOne

\* schedule(): what every caller relies on.
LEMMA ScheduleKeeps ==
    ASSUME SchedInv, NEW here \in Labels, NEW away \in Labels, NEW lf \in [Slots -> Nat],
           \A t \in Slots : lf[t] <= left[t],
           Schedule(state, lf, here, away)
    PROVE  /\ Linked(alloc', nxt', current', tasks')
           /\ state' \in [Slots -> States] /\ left' \in [Slots -> Nat]
           /\ pc' \in [Slots -> Labels] /\ current' \in Slots
           /\ ReadyIsDue'
           /\ \A t \in alloc \ alloc' : t # current /\ t # current'
           /\ current' # current =>
                current' \in alloc' /\ state[current'] # "DEAD" /\ left'[current'] = 0
<1> USE DEF SchedInv, TypeOK
<1>1. ReapOne(state) /\ left' = lf BY DEF Schedule
<1>2. /\ Linked(alloc', nxt', current, tasks')
      /\ \A t \in alloc \ alloc' : t # current
      /\ alloc' \subseteq alloc BY <1>1, ReapOneKeeps
<1>3. \A t \in Slots : state[t] = "READY" => lf[t] = 0 BY DEF ReadyIsDue
<1>4. \A t \in alloc : Due(state, lf, t) => state[t] # "DEAD" /\ lf[t] = 0 BY <1>3 DEF Due, States
<1> DEFINE next == PickNext(nxt', state, lf)
<1>5. CASE /\ next \subseteq {current}
           /\ state' = [t \in Slots |-> IF t \in next THEN "READY" ELSE state[t]]
           /\ pc' = [pc EXCEPT ![current] = here]
           /\ UNCHANGED current
  <2>1. current \in next => lf[current] = 0
    <3>1. SUFFICES ASSUME current \in next PROVE lf[current] = 0 OBVIOUS
    <3>2. state[current] = "READY" \/ Due(state, lf, current) BY <3>1 DEF PickNext, First
    <3> QED BY <1>3, <3>2 DEF Due
  <2>2. \A t \in Slots : state'[t] = "READY" => lf[t] = 0 BY <1>3, <1>5, <2>1
  <2>3. state' \in [Slots -> States] BY <1>5 DEF States
  <2> QED BY <1>1, <1>2, <1>5, <2>2, <2>3 DEF ReadyIsDue
<1>6. ASSUME NEW t \in alloc' \cap next, ~(next \subseteq {current}),
             current' = t, state' = [state EXCEPT ![t] = "READY"],
             pc' = Resume([pc EXCEPT ![current] = away], t)
      PROVE  /\ Linked(alloc', nxt', current', tasks')
             /\ state' \in [Slots -> States] /\ left' \in [Slots -> Nat]
             /\ pc' \in [Slots -> Labels] /\ current' \in Slots
             /\ ReadyIsDue'
             /\ \A u \in alloc \ alloc' : u # current /\ u # current'
             /\ current' # current =>
                current' \in alloc' /\ state[current'] # "DEAD" /\ left'[current'] = 0
  <2>1. t \in alloc /\ t \in Slots BY <1>2
  <2>2. Due(state, lf, t) BY <1>6 DEF PickNext, First
  <2>3. state[t] # "DEAD" /\ lf[t] = 0 BY <1>4, <2>1, <2>2
  <2>4. Linked(alloc', nxt', current', tasks') BY <1>2, <1>6 DEF Linked
  <2>5. state' \in [Slots -> States] BY <1>6, <2>1 DEF States
  <2>6. pc' \in [Slots -> Labels] BY <1>6, <2>1 DEF Resume, Labels
  <2>7. \A u \in Slots : state'[u] = "READY" => lf[u] = 0 BY <1>3, <1>6, <2>1, <2>3
  <2> QED BY <1>1, <1>2, <1>6, <2>1, <2>3, <2>4, <2>5, <2>6, <2>7 DEF ReadyIsDue
<1>7. ASSUME ~(next \subseteq {current})
      PROVE  \E t \in alloc' \cap next :
                /\ current' = t
                /\ state' = [state EXCEPT ![t] = "READY"]
                /\ pc' = Resume([pc EXCEPT ![current] = away], t) BY <1>7 DEF Schedule
<1>8. CASE next \subseteq {current} BY <1>5, <1>8 DEF Schedule
<1>9. CASE ~(next \subseteq {current}) BY <1>6, <1>7, <1>9
<1> QED BY <1>8, <1>9

\* The initial list of the kernel and the idle task is a circle of two.
LEMMA InitSchedInv == Init => SchedInv
<1> SUFFICES ASSUME Init PROVE SchedInv OBVIOUS
<1> USE SlotsAssumption DEF Init
<1>1. TypeOK BY DEF TypeOK, States, Labels
<1>2. nxt[Kernel] = Idle /\ nxt[Idle] = Kernel OBVIOUS
<1>3. NoDangling BY <1>2 DEF NoDangling
<1>4. OneRing
  <2>1. SUFFICES ASSUME NEW part \in SUBSET alloc, part # {},
                        \A t \in part : nxt[t] \in part
                 PROVE  part = alloc BY DEF OneRing
  <2>2. Kernel \in part /\ Idle \in part BY <1>2, <2>1
  <2> QED BY <2>1, <2>2
<1>5. ReadyIsDue BY DEF ReadyIsDue
<1> QED BY <1>1, <1>3, <1>4, <1>5 DEF SchedInv

\* What a step may free, and whom it may switch to.
SafeStep ==
    /\ \A t \in alloc \ alloc' : t # current /\ t # current'
    /\ current' # current =>
        current' \in alloc' /\ state[current'] # "DEAD" /\ left'[current'] = 0

\* The callers of schedule() that pass the states as they are.
LEMMA ScheduleStep ==
    ASSUME SchedInv, NEW here \in Labels, NEW away \in Labels, NEW lf \in [Slots -> Nat],
           \A t \in Slots : lf[t] <= left[t], Schedule(state, lf, here, away),
           ring3' \in BOOLEAN, owed' \in [Slots -> Nat]
    PROVE  SchedInv' /\ SafeStep
<1>1. /\ Linked(alloc', nxt', current', tasks')
      /\ state' \in [Slots -> States] /\ left' \in [Slots -> Nat]
      /\ pc' \in [Slots -> Labels] /\ current' \in Slots
      /\ ReadyIsDue' /\ SafeStep BY ScheduleKeeps DEF SafeStep
<1>2. TypeOK' BY <1>1 DEF TypeOK, Linked
<1>3. NoDangling' /\ OneRing' BY <1>1 DEF NoDangling, OneRing, Linked
<1> QED BY <1>1, <1>2, <1>3 DEF SchedInv

\* The steps that leave the list and the running task as they are.
LEMMA QuietStep ==
    ASSUME SchedInv, UNCHANGED <<alloc, nxt, current, tasks>>, TypeOK', ReadyIsDue'
    PROVE  SchedInv' /\ SafeStep BY DEF SchedInv, NoDangling, OneRing, SafeStep

\* Every step keeps the invariant and is safe.
LEMMA NextSchedInv == SchedInv /\ [Next]_vars => SchedInv' /\ SafeStep
<1> SUFFICES ASSUME SchedInv, [Next]_vars PROVE SchedInv' /\ SafeStep OBVIOUS
<1>0. /\ TypeOK /\ ReadyIsDue
      /\ state \in [Slots -> States] /\ left \in [Slots -> Nat] /\ current \in Slots
      /\ pc \in [Slots -> Labels] /\ ring3 \in BOOLEAN /\ owed \in [Slots -> Nat] BY DEF SchedInv, TypeOK
<1>1. ASSUME NEW t \in Slots, TaskCreate(t) PROVE SchedInv' /\ SafeStep
  <2>1. Linked(alloc, nxt, current, tasks) BY InvLinked
  <2>2. Linked(alloc \cup {t}, [nxt EXCEPT ![t] = nxt[current], ![current] = t], current, tasks)
    BY <1>1, <2>1, InsertKeeps DEF TaskCreate
  <2>3. Linked(alloc', nxt', current', tasks') BY <1>1, <2>2 DEF TaskCreate
  <2>4. TypeOK' BY <1>0, <1>1, <2>3 DEF TaskCreate, TypeOK, Linked, States, Labels
  <2>5. ReadyIsDue' BY <1>0, <1>1 DEF TaskCreate, ReadyIsDue
  <2>6. NoDangling' /\ OneRing' BY <2>3 DEF NoDangling, OneRing, Linked
  <2>7. SafeStep BY <1>1 DEF TaskCreate, SafeStep
  <2> QED BY <2>4, <2>5, <2>6, <2>7 DEF SchedInv
<1>2. ASSUME NEW t \in Slots, TaskKill(t) PROVE SchedInv' /\ SafeStep
  <2>1. TypeOK' BY <1>0, <1>2 DEF TaskKill, TypeOK, States
  <2>2. ReadyIsDue' BY <1>0, <1>2 DEF TaskKill, ReadyIsDue, States
  <2> QED BY <1>2, <2>1, <2>2, QuietStep DEF TaskKill
<1>3. ASSUME NEW ms \in Durations, TaskSleep(ms) PROVE SchedInv' /\ SafeStep
  <2>1. Delay(ms) \in Nat BY DelayType
  <2>2. ms * Hz \in Nat BY TimeAssumption
  <2>3. TypeOK' BY <1>0, <1>3, <2>1, <2>2 DEF TaskSleep, TypeOK, States, Labels
  <2>4. ReadyIsDue' BY <1>0, <1>3 DEF TaskSleep, ReadyIsDue, States
  <2> QED BY <1>3, <2>3, <2>4, QuietStep DEF TaskSleep
<1>4. ASSUME TaskYield PROVE SchedInv' /\ SafeStep
  <2>1. Schedule(state, left, "run", "run") /\ UNCHANGED <<ring3, owed>> BY <1>4 DEF TaskYield
  <2> QED BY <1>0, <2>1, ScheduleStep DEF Labels
<1>5. ASSUME SleepSchedule PROVE SchedInv' /\ SafeStep
  <2>1. Schedule(state, left, "run", "inSleep") /\ UNCHANGED <<ring3, owed>> BY <1>5 DEF SleepSchedule
  <2> QED BY <1>0, <2>1, ScheduleStep DEF Labels
<1>6. ASSUME TaskExit PROVE SchedInv' /\ SafeStep
  <2>1. TypeOK' BY <1>0, <1>6 DEF TaskExit, TypeOK, States, Labels
  <2>2. ReadyIsDue' BY <1>0, <1>6 DEF TaskExit, ReadyIsDue, States
  <2> QED BY <1>6, <2>1, <2>2, QuietStep DEF TaskExit
<1>7. ASSUME ExitLoop PROVE SchedInv' /\ SafeStep
  <2>1. Schedule(state, left, "exit", "exit") /\ UNCHANGED <<ring3, owed>> BY <1>7 DEF ExitLoop
  <2> QED BY <1>0, <2>1, ScheduleStep DEF Labels
<1>8. ASSUME EnterRing3 \/ LeaveRing3 \/ UNCHANGED vars PROVE SchedInv' /\ SafeStep
  <2>1. TypeOK' BY <1>0, <1>8 DEF EnterRing3, LeaveRing3, vars, TypeOK
  <2>2. ReadyIsDue' BY <1>0, <1>8 DEF EnterRing3, LeaveRing3, vars, ReadyIsDue
  <2> QED BY <1>8, <2>1, <2>2, QuietStep DEF EnterRing3, LeaveRing3, vars
<1>9. ASSUME Tick PROVE SchedInv' /\ SafeStep
  <2> DEFINE lf == [t \in Slots |-> Monus(left[t], 1)]
  <2>1. lf \in [Slots -> Nat] /\ \A t \in Slots : lf[t] <= left[t] BY <1>0 DEF Monus
  <2>2. owed' \in [Slots -> Nat]
    <3>1. owed' = [t \in Slots |-> Monus(owed[t], 1000)] BY <1>9 DEF Tick
    <3> QED BY <1>0, <3>1 DEF Monus
  <2>3. CASE ring3
    <3>1. left' = lf /\ UNCHANGED <<alloc, nxt, state, current, tasks, pc, ring3>> BY <1>9, <2>3 DEF Tick
    <3>2. TypeOK' BY <1>0, <2>1, <2>2, <3>1 DEF TypeOK
    <3>3. \A t \in Slots : lf[t] = Monus(left[t], 1) OBVIOUS
    <3>4. ReadyIsDue' BY <1>0, <3>1, <3>3 DEF ReadyIsDue, Monus
    <3> QED BY <3>1, <3>2, <3>4, QuietStep
  <2>4. CASE ~ring3
    <3>1. Schedule(state, lf, pc[current], pc[current]) /\ UNCHANGED ring3 BY <1>9, <2>4 DEF Tick
    <3>2. pc[current] \in Labels BY <1>0
    <3> QED BY <1>0, <2>1, <2>2, <3>1, <3>2, ScheduleStep
  <2> QED BY <2>3, <2>4
<1> QED BY <1>1, <1>2, <1>3, <1>4, <1>5, <1>6, <1>7, <1>8, <1>9 DEF Next

\* The invariant holds in every reachable state.
THEOREM SchedInvariant == Spec => []SchedInv
<1>1. SchedInv /\ [Next]_vars => SchedInv' BY NextSchedInv
<1> QED BY InitSchedInv, <1>1, PTL DEF Spec

\* No pointer of the scheduler leads to freed memory, for any number of tasks.
THEOREM ListSafe == Spec => []NoDangling
<1>1. SchedInv => NoDangling BY DEF SchedInv
<1> QED BY SchedInvariant, <1>1, PTL

\* The task list is one circle, so no task is lost to its scans.
THEOREM ListWhole == Spec => []OneRing
<1>1. SchedInv => OneRing BY DEF SchedInv
<1> QED BY SchedInvariant, <1>1, PTL

\* reap_one never frees the stack the processor runs on or switches to.
THEOREM StackSafe == Spec => FreedNotInUse
<1>1. SchedInv /\ [Next]_vars => [\A t \in alloc \ alloc' : t # current /\ t # current']_vars
  BY NextSchedInv DEF SafeStep
<1> QED BY SchedInvariant, <1>1, PTL DEF Spec, FreedNotInUse

\* A dead task is never switched to, nor a sleeper before its time.
THEOREM SwitchSafe == Spec => SwitchesToLive
<1>1. SchedInv /\ [Next]_vars =>
        [current' # current =>
            current' \in alloc' /\ state[current'] # "DEAD" /\ left'[current'] = 0]_vars BY NextSchedInv DEF SafeStep
<1> QED BY SchedInvariant, <1>1, PTL DEF Spec, SwitchesToLive

-----------------------------------------------------------------------------
(***************************************************************************)
(* The tasks behind the running one, in the order of the ring.             *)
(***************************************************************************)

\* A set of numbers has a least one.
LEMMA NatLeast ==
  ASSUME NEW T, T \subseteq Nat, T # {}
  PROVE  \E x \in T : \A y \in T : x <= y
<1> DEFINE R == {p \in Nat \X Nat : p[1] < p[2]}
<1>1. IsWellFoundedOn(R, Nat) BY NatLessThanWellFounded DEF OpToRel
<1>0. \A x, y \in Nat : <<y, x>> \in R <=> y < x OBVIOUS
<1> HIDE DEF R
<1>2. PICK x \in T : \A y \in T : ~ (<<y, x>> \in R) BY <1>1, WFMin
<1>3. \A y \in T : x \in Nat /\ y \in Nat /\ ~(y < x) BY <1>0, <1>2
<1>4. \A y \in T : x <= y BY <1>3
<1> QED BY <1>4

\* f follows the links from the running task, k times.
Follows(links, k, f) ==
    /\ f \in [0 .. k -> Slots] /\ f[0] = current
    /\ \A i \in 1 .. k : f[i] = links[f[i - 1]]

\* The links can be followed any number of times.
LEMMA FollowsExists ==
  ASSUME current \in Slots, NEW links \in [Slots -> Slots], NEW k \in Nat
  PROVE  \E f : Follows(links, k, f)
<1> DEFINE T == {n \in Nat : ~\E f : Follows(links, n, f)}
<1>1. SUFFICES ASSUME T # {} PROVE FALSE OBVIOUS
<1>2. PICK n \in T : \A m \in T : n <= m BY <1>1, NatLeast
<1>3. CASE n = 0
  <2>1. Follows(links, 0, [i \in 0 .. 0 |-> current]) BY DEF Follows
  <2> QED BY <1>2, <1>3, <2>1
<1>4. CASE n # 0
  <2>1. n - 1 \in Nat /\ n - 1 \notin T BY <1>2, <1>4
  <2>2. PICK f : Follows(links, n - 1, f) BY <2>1
  <2> DEFINE g == [i \in 0 .. n |-> IF i = n THEN links[f[n - 1]] ELSE f[i]]
  <2>3. f[n - 1] \in Slots /\ \A i \in 0 .. n : i # n => i \in 0 .. n - 1 /\ f[i] \in Slots BY <1>4, <2>2 DEF Follows
  <2>4. g \in [0 .. n -> Slots] BY <2>3
  <2>5. g[0] = current BY <1>4, <2>2, <2>1 DEF Follows
  <2>6. \A i \in 1 .. n : g[i] = links[g[i - 1]] BY <2>2, <2>3 DEF Follows
  <2>7. Follows(links, n, g) BY <2>4, <2>5, <2>6 DEF Follows
  <2> QED BY <2>7, <1>2
<1> QED BY <1>3, <1>4

\* So Nth is the running task, followed k times.
LEMMA NthIs ==
  ASSUME NEW links \in [Slots -> Slots], NEW k \in Nat, NEW f, Follows(links, k, f)
  PROVE  Nth(links, k) = f[k]
<1> DEFINE Walk(w) == w = [i \in 0 .. k |-> IF i = 0 THEN current ELSE links[w[i - 1]]]
           walk == CHOOSE w : Walk(w)
<1>1. Walk(f) BY DEF Follows
<1>2. Walk(walk) BY <1>1
<1>3. Nth(links, k) = walk[k] BY DEF Nth
<1> HIDE DEF walk
<1>4. DOMAIN walk = 0 .. k /\ walk[0] = current /\ \A i \in 1 .. k : walk[i] = links[walk[i - 1]] BY <1>2
<1> DEFINE T == {i \in 0 .. k : walk[i] # f[i]}
<1>5. SUFFICES ASSUME T # {} PROVE FALSE BY <1>3
<1>a. T \subseteq Nat OBVIOUS
<1> HIDE DEF T
<1>6. PICK n \in T : \A j \in T : n <= j BY <1>a, <1>5, NatLeast
<1> USE DEF T
<1>7. n # 0 BY <1>4, <1>6 DEF Follows
<1>8. n - 1 \in 0 .. k /\ n - 1 \notin T /\ n \in 1 .. k BY <1>6, <1>7
<1>9. f[n] = links[f[n - 1]] /\ walk[n] = links[walk[n - 1]] /\ walk[n - 1] = f[n - 1] BY <1>4, <1>8 DEF Follows
<1> QED BY <1>6, <1>9

\* The links from the running task lead to every task before they lead back.
LEMMA RingReaches ==
  ASSUME NEW al, NEW links, NEW head, Linked(al, links, current, head), IsFiniteSet(al),
         NEW t \in al, t # current
  PROVE  \E k \in 1 .. Cardinality(al) - 1 :
            Nth(links, k) = t /\ \A j \in 1 .. k : Nth(links, j) # current
<1> DEFINE N(j) == Nth(links, j)
<1>1. links \in [Slots -> Slots] /\ al \subseteq Slots /\ current \in al BY DEF Linked
<1>2. N(0) = current /\ \A j \in Nat : j # 0 => N(j) = links[N(j - 1)]
  <2>1. ASSUME NEW j \in Nat PROVE j = 0 => N(j) = current
    <3>1. PICK f : Follows(links, j, f) BY <1>1, FollowsExists
    <3>2. N(j) = f[j] BY <1>1, <3>1, NthIs
    <3> QED BY <3>1, <3>2 DEF Follows
  <2>2. ASSUME NEW j \in Nat, j # 0 PROVE N(j) = links[N(j - 1)]
    <3>1. PICK f : Follows(links, j, f) BY <1>1, FollowsExists
    <3>2. j - 1 \in Nat /\ j \in 1 .. j /\ \A i \in 0 .. j - 1 : i \in 0 .. j BY <2>2
    <3> DEFINE g == [i \in 0 .. j - 1 |-> f[i]]
    <3>3. Follows(links, j - 1, g)
      <4>1. g \in [0 .. j - 1 -> Slots] BY <3>1, <3>2 DEF Follows
      <4>2. g[0] = current BY <3>1, <3>2 DEF Follows
      <4>3. ASSUME NEW i \in 1 .. j - 1 PROVE g[i] = links[g[i - 1]]
        <5>1. i \in 1 .. j /\ i \in 0 .. j - 1 /\ i - 1 \in 0 .. j - 1 BY <3>2
        <5> QED BY <3>1, <5>1 DEF Follows
      <4> QED BY <4>1, <4>2, <4>3 DEF Follows
    <3>4. N(j - 1) = g[j - 1] BY <1>1, <3>2, <3>3, NthIs
    <3>5. N(j) = f[j] BY <1>1, <3>1, NthIs
    <3>6. f[j] = links[f[j - 1]] BY <3>1, <3>2 DEF Follows
    <3> QED BY <3>2, <3>4, <3>5, <3>6
  <2> QED BY <2>1, <2>2
<1> HIDE DEF N
<1>3. \A j \in Nat : N(j) \in al
  <2> DEFINE T == {j \in Nat : N(j) \notin al}
  <2>1. SUFFICES ASSUME T # {} PROVE FALSE OBVIOUS
  <2>2. T \subseteq Nat OBVIOUS
  <2> HIDE DEF T
  <2>3. PICK n \in T : \A j \in T : n <= j BY <2>1, <2>2, NatLeast
  <2> USE DEF T
  <2>4. n # 0 BY <1>1, <1>2, <2>3
  <2>5. n - 1 \in Nat /\ n - 1 \notin T BY <2>3, <2>4
  <2>6. N(n - 1) \in al /\ N(n) = links[N(n - 1)] BY <1>2, <2>3, <2>4, <2>5
  <2> QED BY <2>3, <2>6 DEF Linked
\* A stretch that runs back into itself is the whole ring.
<1>4. ASSUME NEW a \in Nat, NEW b \in Nat, a < b, N(a) = N(b)
      PROVE  \E j \in 0 .. b - 1 : N(j) = t
  <2> DEFINE part == {N(j) : j \in 0 .. b - 1}
  <2>1. part \in SUBSET al BY <1>3
  <2>2. N(0) \in part BY <1>4
  <2>3. ASSUME NEW j \in 0 .. b - 1 PROVE links[N(j)] \in part
    <3>1. N(j + 1) = links[N(j)] /\ j + 1 \in Nat BY <1>2
    <3>2. CASE j + 1 = b BY <1>4, <3>1, <3>2
    <3>3. CASE j + 1 # b BY <3>1, <3>3
    <3> QED BY <3>2, <3>3
  <2>4. \A u \in part : links[u] \in part BY <2>3
  <2> HIDE DEF part
  <2>5. part = al BY <2>1, <2>2, <2>4 DEF Linked
  <2> QED BY <2>5 DEF part
<1>5. \E j \in Nat : N(j) = t
  <2> DEFINE part == {N(j) : j \in Nat}
  <2>1. part \in SUBSET al /\ N(0) \in part BY <1>3
  <2>2. ASSUME NEW j \in Nat PROVE links[N(j)] \in part
    <3>1. N(j + 1) = links[N(j)] /\ j + 1 \in Nat BY <1>2
    <3> QED BY <3>1
  <2>3. \A u \in part : links[u] \in part BY <2>2
  <2> HIDE DEF part
  <2>4. part = al BY <2>1, <2>3 DEF Linked
  <2> QED BY <2>4 DEF part
<1> DEFINE Hits == {j \in Nat : N(j) = t}
<1>6. Hits \subseteq Nat /\ Hits # {} BY <1>5
<1> HIDE DEF Hits
<1>7. PICK k \in Hits : \A j \in Hits : k <= j BY <1>6, NatLeast
<1> USE DEF Hits
<1>8. k \in Nat /\ k # 0 /\ N(k) = t /\ \A j \in 0 .. k - 1 : N(j) # t BY <1>2, <1>7
<1>9. \A a, b \in 0 .. k : N(a) = N(b) => a = b
  <2>1. ASSUME NEW a \in 0 .. k, NEW b \in 0 .. k, a < b PROVE N(a) # N(b) BY <1>4, <1>8, <2>1
  <2> QED BY <2>1
<1>10. k + 1 <= Cardinality(al)
  <2>1. IsFiniteSet(0 .. k) /\ Cardinality(0 .. k) = k + 1 BY <1>8, FS_Interval
  <2> DEFINE F == [j \in 0 .. k |-> N(j)]
  <2>2. F \in Injection(0 .. k, al) BY <1>3, <1>8, <1>9 DEF Injection, IsInjective
  <2>3. Cardinality(0 .. k) <= Cardinality(al) BY <2>1, <2>2, FS_Injection
  <2> QED BY <2>1, <2>3
<1>11. \A j \in 1 .. k : N(j) # current BY <1>2, <1>8, <1>9
<1>12. k \in 1 .. Cardinality(al) - 1
  <2>1. Cardinality(al) \in Nat BY FS_CardinalityType
  <2> QED BY <1>8, <1>10, <2>1
<1> QED BY <1>8, <1>11, <1>12 DEF N

-----------------------------------------------------------------------------
(***************************************************************************)
(* A sleep lasts.                                                          *)
(***************************************************************************)
Asleep == {"sleep", "inSleep"}

\* What is left to sleep is never more than what is left to the wake tick.
SleepDebt == \A t \in Slots : pc[t] \in Asleep => owed[t] <= 1000 * left[t]

\* The idle task never sleeps.
IdleAwake == state[Idle] # "SLEEPING" /\ pc[Idle] \notin Asleep

SleepInv == SchedInv /\ IsFiniteSet(alloc) /\ IdleAwake /\ SleepDebt

\* The search ends at the first task behind the running one that is due.
LEMMA PickNextFinds ==
  ASSUME NEW links, NEW st, NEW lf, NEW k \in 1 .. TURN_LIMIT, Due(st, lf, Nth(links, k)),
         \A j \in 1 .. k : Nth(links, j) # current
  PROVE  \E n : PickNext(links, st, lf) = {n} /\ n # current /\ Due(st, lf, n)
<1> DEFINE due == {j \in Scanned(links, TURN_LIMIT) : Due(st, lf, Nth(links, j))}
<1>1. due \subseteq 1 .. TURN_LIMIT /\ k \in due
  <2>1. Scanned(links, TURN_LIMIT) \subseteq 1 .. TURN_LIMIT BY DEF Scanned
  <2>2. TURN_LIMIT \in Nat /\ \A j \in 1 .. k - 1 : j \in 1 .. k BY LimitAssumption
  <2>3. k \in Scanned(links, TURN_LIMIT) BY <2>2 DEF Scanned
  <2> QED BY <2>1, <2>3
<1>2. \A j \in due : Due(st, lf, Nth(links, j)) OBVIOUS
<1>3. PickNext(links, st, lf) = {Nth(links, j) : j \in First(due)} BY <1>1 DEF PickNext
<1> HIDE DEF due
<1>4. due \subseteq Nat /\ due # {} BY <1>1, LimitAssumption
<1>5. PICK m \in due : \A j \in due : m <= j BY <1>4, NatLeast
<1>6. First(due) = {m}
  <2>1. \A j \in due : j <= m => j = m BY <1>4, <1>5
  <2> QED BY <1>5, <2>1 DEF First
<1>7. m \in 1 .. k BY <1>1, <1>5, LimitAssumption
<1>8. PickNext(links, st, lf) = {Nth(links, m)} BY <1>3, <1>6
<1> QED BY <1>2, <1>5, <1>7, <1>8

\* While the idle task lives and the scan goes round the ring, a task that
\* gives the processor away loses it to one that is ready or due.
LEMMA IdleIsThere ==
  ASSUME SleepInv, NEW lf, ReapOne(state),
         Idle \in alloc, state[Idle] # "DEAD", Cardinality(alloc) <= TURN_LIMIT + 1,
         current # Idle
  PROVE  \E n : PickNext(nxt', state, lf) = {n} /\ n # current /\ Due(state, lf, n)
<1>1. ReapOne(state) /\ SchedInv /\ IsFiniteSet(alloc) /\ state[Idle] = "READY"
  BY SlotsAssumption DEF SleepInv, IdleAwake, SchedInv, TypeOK, States
<1>2. Linked(alloc', nxt', current, tasks') /\ alloc' \subseteq alloc BY <1>1, ReapOneKeeps
<1>3. Idle \in alloc'
  <2>1. CASE UNCHANGED alloc BY <2>1
  <2>2. ASSUME NEW p \in DeadBehind(state), alloc' = alloc \ {nxt[p]} PROVE Idle \in alloc'
    BY <1>1, <2>2 DEF DeadBehind
  <2> QED BY <1>1, <2>1, <2>2 DEF ReapOne
<1>4. IsFiniteSet(alloc') /\ Cardinality(alloc') <= Cardinality(alloc) BY <1>1, <1>2, FS_Subset
<1>5. PICK k \in 1 .. Cardinality(alloc') - 1 :
        Nth(nxt', k) = Idle /\ \A j \in 1 .. k : Nth(nxt', j) # current BY <1>2, <1>3, <1>4, RingReaches
<1>6. Cardinality(alloc') \in Nat /\ Cardinality(alloc) \in Nat /\ TURN_LIMIT \in Nat
  BY <1>1, <1>4, FS_CardinalityType, LimitAssumption
<1>7. k \in 1 .. TURN_LIMIT BY <1>4, <1>6
<1>8. Due(state, lf, Nth(nxt', k)) BY <1>1, <1>5 DEF Due
<1> QED BY <1>5, <1>7, <1>8, PickNextFinds

\* What schedule() does to a sleep: it is left as it is, or ends for the task
\* that runs next, whose wake time has come.
LEMMA ScheduleSleeps ==
  ASSUME SleepInv, NEW lf \in [Slots -> Nat], NEW here \in Labels, NEW away \in Labels,
         \A t \in Slots : lf[t] <= left[t], Schedule(state, lf, here, away),
         here \in Asleep => pc[current] \in Asleep,
         away \in Asleep => pc[current] \in Asleep,
         away = "run" => pc[current] \notin Asleep
  PROVE  /\ IsFiniteSet(alloc') /\ state'[Idle] # "SLEEPING" /\ left' = lf
         /\ \A t \in Slots : pc'[t] \in Asleep => pc[t] \in Asleep
         /\ \A t \in Slots : pc[t] \in Asleep /\ pc'[t] = "run" =>
                lf[t] = 0 \/ (t = current /\ PickNext(nxt', state, lf) \subseteq {current})
<1> USE DEF Asleep
<1>1. /\ SchedInv /\ IsFiniteSet(alloc) /\ state[Idle] # "SLEEPING" /\ Idle \in Slots
      /\ current \in Slots /\ state \in [Slots -> States] /\ pc \in [Slots -> Labels]
  BY SlotsAssumption DEF SleepInv, IdleAwake, SchedInv, TypeOK
<1>2. ReapOne(state) /\ left' = lf BY DEF Schedule
<1>3. IsFiniteSet(alloc') BY <1>1, <1>2, ReapOneKeeps, FS_Subset
<1> DEFINE next == PickNext(nxt', state, lf)
<1>4. CASE /\ next \subseteq {current}
           /\ state' = [t \in Slots |-> IF t \in next THEN "READY" ELSE state[t]]
           /\ pc' = [pc EXCEPT ![current] = here]
  <2>1. state'[Idle] # "SLEEPING" BY <1>1, <1>4
  <2> QED BY <1>1, <1>2, <1>3, <1>4, <2>1
<1>5. ASSUME NEW t \in next, t \in Slots,
             state' = [state EXCEPT ![t] = "READY"],
             pc' = Resume([pc EXCEPT ![current] = away], t)
      PROVE  /\ state'[Idle] # "SLEEPING"
             /\ \A u \in Slots : pc'[u] \in Asleep => pc[u] \in Asleep
             /\ \A u \in Slots : pc[u] \in Asleep /\ pc'[u] = "run" => lf[u] = 0
  <2>1. Due(state, lf, t)
    <3> DEFINE due == {k \in Scanned(nxt', TURN_LIMIT) : Due(state, lf, Nth(nxt', k))}
    <3>1. next = IF due # {} THEN {Nth(nxt', k) : k \in First(due)}
                 ELSE IF state[current] = "READY" THEN {current} ELSE {} BY Zenon DEF PickNext
    <3>2. First(due) \subseteq due BY DEF First
    <3>3. \A k \in due : Due(state, lf, Nth(nxt', k)) OBVIOUS
    <3> HIDE DEF due
    <3>4. (t = current /\ state[current] = "READY") \/ \E k \in due : t = Nth(nxt', k) BY <1>5, <3>1, <3>2
    <3> QED BY <3>3, <3>4 DEF Due
  <2>2. lf[t] = 0
    <3>1. state[t] = "READY" => left[t] = 0 /\ lf[t] <= left[t] /\ lf[t] \in Nat
      BY <1>1, <1>5 DEF SchedInv, ReadyIsDue
    <3> QED BY <2>1, <3>1 DEF Due
  <2>3. state'[Idle] # "SLEEPING" BY <1>1, <1>5
  <2>4. \A u \in Slots : u \notin {t, current} => pc'[u] = pc[u] BY <1>1, <1>5 DEF Resume
  <2>5. t # current => pc'[current] = away /\ pc'[t] \in {pc[t], "run"} BY <1>1, <1>5 DEF Resume
  <2>6. t = current => pc'[t] \in {away, "run"} BY <1>1, <1>5 DEF Resume
  <2> QED BY <1>1, <1>5, <2>2, <2>3, <2>4, <2>5, <2>6
<1>6. CASE next \subseteq {current} BY <1>4, <1>6 DEF Schedule
<1>7. CASE ~(next \subseteq {current})
  <2>1. PICK t \in alloc' \cap next :
          /\ state' = [state EXCEPT ![t] = "READY"]
          /\ pc' = Resume([pc EXCEPT ![current] = away], t) BY <1>7 DEF Schedule
  <2>2. t \in Slots BY <1>1, <1>2, <2>1, ReapOneKeeps DEF Linked
  <2> QED BY <1>2, <1>3, <1>5, <2>1, <2>2
<1> QED BY <1>6, <1>7

\* The ticks task_sleep computes are no shorter than the milliseconds asked for.
LEMMA DelayIsEnough ==
  ASSUME NEW ms \in Durations
  PROVE  Delay(ms) \in Nat /\ ms * Hz \in Nat /\ ms * Hz <= 1000 * Delay(ms)
<1>1. ms \in Nat /\ Hz \in Nat BY TimeAssumption
<1> DEFINE q == ms \div 1000
           r == ms % 1000
<1>2. q \in Nat /\ r \in Nat /\ ms = 1000 * q + r BY <1>1
<1> HIDE DEF q, r
<1>3. q * Hz \in Nat /\ r * Hz \in Nat BY <1>1, <1>2
<1>4. ms * Hz = 1000 * (q * Hz) + r * Hz BY <1>1, <1>2
<1>5. \A a \in Nat : (a + 999) \div 1000 \in Nat /\ a <= 1000 * ((a + 999) \div 1000) OBVIOUS
<1>6. Delay(ms) = q * Hz + (r * Hz + 999) \div 1000 BY DEF Delay, q, r
<1>7. r * Hz <= 1000 * ((r * Hz + 999) \div 1000) /\ (r * Hz + 999) \div 1000 \in Nat BY <1>3, <1>5
<1> DEFINE a == q * Hz
           b == r * Hz
           c == (b + 999) \div 1000
<1>8. a \in Nat /\ b \in Nat /\ c \in Nat /\ b <= 1000 * c BY <1>3, <1>7
<1>9. ms * Hz = 1000 * a + b /\ Delay(ms) = a + c BY <1>4, <1>6
<1> HIDE DEF a, b, c
<1> QED BY <1>8, <1>9

\* Nobody sleeps at first.
LEMMA InitSleepInv == Init => SleepInv
<1> SUFFICES ASSUME Init PROVE SleepInv OBVIOUS
<1>1. SchedInv BY InitSchedInv
<1>2. IsFiniteSet(alloc)
  <2>1. IsFiniteSet({Idle}) BY FS_Singleton
  <2>2. alloc = {Idle} \cup {Kernel} BY DEF Init
  <2> QED BY <2>1, <2>2, FS_AddElement
<1>3. IdleAwake /\ SleepDebt BY SlotsAssumption DEF Init, IdleAwake, SleepDebt, Asleep
<1> QED BY <1>1, <1>2, <1>3 DEF SleepInv

\* What a step may do to a sleep.
SleepsOut ==
    \A t \in Slots :
        ReturnsFromSleep(t) /\ Idle \in alloc /\ state[Idle] # "DEAD"
        /\ Cardinality(alloc) <= TURN_LIMIT + 1 => owed'[t] = 0

\* The callers of schedule() that pass time on by `ticks'.
LEMMA ScheduleSleepStep ==
  ASSUME SleepInv, SchedInv', NEW lf \in [Slots -> Nat], NEW here \in Labels, NEW away \in Labels,
         \A t \in Slots : lf[t] <= left[t], Schedule(state, lf, here, away),
         here \in Asleep => pc[current] \in Asleep,
         away \in Asleep => pc[current] \in Asleep,
         away = "run" => pc[current] \notin Asleep,
         \A t \in Slots : pc[t] \in Asleep => owed'[t] <= 1000 * lf[t],
         owed' \in [Slots -> Nat]
  PROVE  SleepInv' /\ SleepsOut
<1>1. /\ IsFiniteSet(alloc') /\ state'[Idle] # "SLEEPING" /\ left' = lf
      /\ \A t \in Slots : pc'[t] \in Asleep => pc[t] \in Asleep
      /\ \A t \in Slots : pc[t] \in Asleep /\ pc'[t] = "run" =>
                lf[t] = 0 \/ (t = current /\ PickNext(nxt', state, lf) \subseteq {current}) BY ScheduleSleeps
<1>2. IdleAwake' /\ SleepDebt' BY <1>1, SlotsAssumption DEF SleepInv, IdleAwake, SleepDebt
<1>3. SleepInv' BY <1>1, <1>2 DEF SleepInv
<1>4. ASSUME NEW t \in Slots, ReturnsFromSleep(t), Idle \in alloc, state[Idle] # "DEAD",
             Cardinality(alloc) <= TURN_LIMIT + 1
      PROVE  owed'[t] = 0
  <2>1. pc[t] \in Asleep /\ pc'[t] = "run" BY <1>4 DEF ReturnsFromSleep, Asleep
  <2>2. CASE lf[t] = 0 BY <2>1, <2>2
  <2>3. CASE t = current /\ PickNext(nxt', state, lf) \subseteq {current}
    <3>1. current # Idle BY <2>1, <2>3 DEF SleepInv, IdleAwake
    <3>2. ReapOne(state) BY DEF Schedule
    <3>3. \E n : PickNext(nxt', state, lf) = {n} /\ n # current /\ Due(state, lf, n) BY <1>4, <3>1, <3>2, IdleIsThere
    <3> QED BY <2>3, <3>3
  <2> QED BY <1>1, <2>1, <2>2, <2>3
<1> QED BY <1>3, <1>4 DEF SleepsOut

\* Every step keeps the debts of time and ends no sleep early.
LEMMA NextSleepInv == SleepInv /\ [Next]_vars => SleepInv' /\ SleepsOut
<1> SUFFICES ASSUME SleepInv, [Next]_vars PROVE SleepInv' /\ SleepsOut OBVIOUS
<1>0. /\ SchedInv /\ SchedInv' /\ IsFiniteSet(alloc) /\ IdleAwake /\ SleepDebt
      /\ state \in [Slots -> States] /\ left \in [Slots -> Nat] /\ current \in Slots
      /\ pc \in [Slots -> Labels] /\ owed \in [Slots -> Nat] /\ Idle \in Slots
      /\ owed' \in [Slots -> Nat] /\ pc[current] \in Labels
  BY NextSchedInv, SlotsAssumption DEF SleepInv, SchedInv, TypeOK
<1>1. ASSUME NEW t \in Slots, TaskCreate(t) PROVE SleepInv' /\ SleepsOut
  <2>1. IsFiniteSet(alloc') BY <1>0, <1>1, FS_AddElement DEF TaskCreate
  <2>2. IdleAwake' BY <1>0, <1>1 DEF TaskCreate, IdleAwake, Asleep
  <2>3. SleepDebt' BY <1>0, <1>1 DEF TaskCreate, SleepDebt, Asleep
  <2>4. SleepsOut BY <1>0, <1>1 DEF TaskCreate, SleepsOut, ReturnsFromSleep
  <2> QED BY <1>0, <2>1, <2>2, <2>3, <2>4 DEF SleepInv
<1>2. ASSUME UNCHANGED <<alloc, left, pc, owed>>, state'[Idle] # "SLEEPING"
      PROVE  SleepInv' /\ SleepsOut
  <2>1. IdleAwake' /\ SleepDebt' /\ SleepsOut BY <1>0, <1>2 DEF IdleAwake, SleepDebt, SleepsOut, ReturnsFromSleep
  <2> QED BY <1>0, <1>2, <2>1 DEF SleepInv
<1>3. ASSUME NEW t \in Slots, TaskKill(t) PROVE SleepInv' /\ SleepsOut BY <1>0, <1>2, <1>3 DEF TaskKill, IdleAwake
<1>4. ASSUME EnterRing3 \/ LeaveRing3 \/ UNCHANGED vars PROVE SleepInv' /\ SleepsOut
  BY <1>0, <1>2, <1>4 DEF EnterRing3, LeaveRing3, vars, IdleAwake
<1>5. ASSUME NEW ms \in Durations, TaskSleep(ms) PROVE SleepInv' /\ SleepsOut
  <2>1. Delay(ms) \in Nat /\ ms * Hz \in Nat /\ ms * Hz <= 1000 * Delay(ms) BY DelayIsEnough
  <2>2. IdleAwake' BY <1>0, <1>5 DEF TaskSleep, IdleAwake
  <2>3. owed'[current] <= 1000 * left'[current] BY <1>0, <1>5, <2>1 DEF TaskSleep
  <2>4. \A t \in Slots : t # current =>
          pc'[t] = pc[t] /\ owed'[t] = owed[t] /\ left'[t] = left[t] BY <1>0, <1>5 DEF TaskSleep
  <2>5. SleepDebt' BY <1>0, <2>3, <2>4 DEF SleepDebt
  <2>6. pc'[current] # "run" BY <1>0, <1>5 DEF TaskSleep
  <2>7. SleepsOut BY <1>0, <2>4, <2>6 DEF SleepsOut, ReturnsFromSleep
  <2> QED BY <1>0, <1>5, <2>2, <2>5, <2>7 DEF SleepInv, TaskSleep
<1>6. ASSUME TaskExit PROVE SleepInv' /\ SleepsOut
  <2>1. /\ UNCHANGED <<alloc, left, owed>> /\ pc'[current] = "exit" /\ state'[Idle] # "SLEEPING"
        /\ \A t \in Slots : t # current => pc'[t] = pc[t] BY <1>0, <1>6 DEF TaskExit, IdleAwake
  <2>2. IdleAwake' /\ SleepDebt' /\ SleepsOut
    BY <1>0, <2>1 DEF IdleAwake, SleepDebt, SleepsOut, ReturnsFromSleep, Asleep
  <2> QED BY <1>0, <2>1, <2>2 DEF SleepInv
<1>7. ASSUME NEW here \in Labels, NEW away \in Labels, Schedule(state, left, here, away),
             UNCHANGED owed,
             here \in Asleep => pc[current] \in Asleep,
             away \in Asleep => pc[current] \in Asleep,
             away = "run" => pc[current] \notin Asleep
      PROVE  SleepInv' /\ SleepsOut
  <2>1. \A t \in Slots : left[t] <= left[t] BY <1>0
  <2>2. \A t \in Slots : pc[t] \in Asleep => owed'[t] <= 1000 * left[t] BY <1>0, <1>7 DEF SleepDebt
  <2> QED BY <1>0, <1>7, <2>1, <2>2, ScheduleSleepStep
<1>8. ASSUME TaskYield PROVE SleepInv' /\ SleepsOut
  <2>1. Schedule(state, left, "run", "run") /\ UNCHANGED owed /\ pc[current] \notin Asleep
    BY <1>8 DEF TaskYield, Running, Asleep
  <2> QED BY <1>7, <2>1 DEF Labels, Asleep
<1>9. ASSUME SleepSchedule PROVE SleepInv' /\ SleepsOut
  <2>1. Schedule(state, left, "run", "inSleep") /\ UNCHANGED owed /\ pc[current] \in Asleep
    BY <1>9 DEF SleepSchedule, Asleep
  <2> QED BY <1>7, <2>1 DEF Labels, Asleep
<1>10. ASSUME ExitLoop PROVE SleepInv' /\ SleepsOut
  <2>1. Schedule(state, left, "exit", "exit") /\ UNCHANGED owed BY <1>10 DEF ExitLoop
  <2> QED BY <1>7, <2>1 DEF Labels, Asleep
<1>11. ASSUME Tick PROVE SleepInv' /\ SleepsOut
  <2> DEFINE lf == [t \in Slots |-> Monus(left[t], 1)]
  <2>1. lf \in [Slots -> Nat] /\ \A t \in Slots : lf[t] <= left[t] BY <1>0 DEF Monus
  <2>2. \A t \in Slots : pc[t] \in Asleep => owed'[t] <= 1000 * lf[t]
    <3>1. \A t \in Slots : owed'[t] = Monus(owed[t], 1000) BY <1>11 DEF Tick
    <3>2. \A o, l \in Nat : o <= 1000 * l => Monus(o, 1000) <= 1000 * Monus(l, 1) BY DEF Monus
    <3>3. \A t \in Slots : lf[t] = Monus(left[t], 1) OBVIOUS
    <3> HIDE DEF lf
    <3> QED BY <1>0, <3>1, <3>2, <3>3 DEF SleepDebt
  <2>3. CASE ring3
    <3>1. left' = lf /\ UNCHANGED <<alloc, state, pc>> BY <1>11, <2>3 DEF Tick
    <3>2. IdleAwake' /\ SleepDebt' /\ SleepsOut
      BY <1>0, <2>2, <3>1 DEF IdleAwake, SleepDebt, SleepsOut, ReturnsFromSleep
    <3> QED BY <1>0, <3>1, <3>2 DEF SleepInv
  <2>4. CASE ~ring3
    <3>1. Schedule(state, lf, pc[current], pc[current]) BY <1>11, <2>4 DEF Tick
    <3> HIDE DEF lf
    <3>2. pc[current] = "run" => pc[current] \notin Asleep BY DEF Asleep
    <3> QED BY <1>0, <2>1, <2>2, <3>1, <3>2, ScheduleSleepStep
  <2> QED BY <2>3, <2>4
<1> QED BY <1>1, <1>3, <1>4, <1>5, <1>6, <1>8, <1>9, <1>10, <1>11 DEF Next

\* Debts of time are honoured in every reachable state.
THEOREM SleepInvariant == Spec => []SleepInv
<1>1. SleepInv /\ [Next]_vars => SleepInv' BY NextSleepInv
<1> QED BY InitSleepInv, <1>1, PTL DEF Spec

\* task_sleep never returns early, for any number of tasks the scan goes round
\* and whatever the duration and the frequency of the timer.
THEOREM SleepsLast == Spec => SleepLasts
<1>1. SleepInv /\ [Next]_vars =>
        [\A t \in Slots :
            ReturnsFromSleep(t) /\ Idle \in alloc /\ state[Idle] # "DEAD"
            /\ Cardinality(alloc) <= TURN_LIMIT + 1 => owed'[t] = 0]_vars BY NextSleepInv DEF SleepsOut
<1> QED BY SleepInvariant, <1>1, PTL DEF Spec, SleepLasts

-----------------------------------------------------------------------------
(*****************************************************************************)
(* The modes.                                                                *)
(*****************************************************************************)
Stages == {"idle", "released", "reserved", "wider", "taken", "failed", "back"}

Typed ==
    /\ others \in Nat /\ backbuf \in Nat /\ cache \in Nat
    /\ fb \in [mode : Modes, size : Nat]
    /\ undo \in [armed : BOOLEAN, mode : Modes \cup {None}]
    /\ sw \in [at : Stages, want : Modes \cup {None}, fallback : Modes \cup {None},
               nb : Nat, undoing : BOOLEAN]
    /\ lost \in BOOLEAN

\* Memory is never promised twice.
WithinMemory == Free >= 0

\* The buffers of the mode drawn; none while a switch is under way.
Fitting ==
    /\ sw.at = "idle" =>
        /\ backbuf # 0 => backbuf >= fb.size
        /\ cache # 0 => cache >= fb.size
    /\ sw.at # "idle" => backbuf = 0 /\ cache = 0 /\ sw.want \in Modes
    /\ sw.at = "taken" => sw.nb >= fb.size
    /\ sw.at \notin {"reserved", "taken"} => sw.nb = 0

\* The desktop is laid out for the mode drawn until the adapter took another.
LaidOut == sw.at \in {"idle", "released", "reserved", "failed"} => scr = fb.mode

\* The way back: which mode is drawn at each stage of a switch forward and of
\* one back, and what is armed when it ends.
WayBack ==
    /\ undo.armed => sw.at = "idle" /\ undo.mode \in Modes
    /\ sw.at # "idle" => (sw.undoing <=> sw.fallback = None)
    /\ ~lost =>
        /\ sw.at = "idle" =>
            IF undo.armed THEN undo.mode = accepted /\ fb.mode # accepted ELSE fb.mode = accepted
        /\ sw.at # "idle" /\ sw.undoing => sw.want = accepted
        /\ sw.at # "idle" /\ ~sw.undoing => sw.fallback = accepted /\ sw.want # accepted
        /\ sw.at \in {"released", "reserved", "failed"} /\ ~sw.undoing => fb.mode = accepted
        /\ sw.at \in {"wider", "taken"} => fb.mode = sw.want
        /\ sw.at = "back" /\ ~sw.undoing => fb.mode = accepted

ModesInv == Typed /\ WithinMemory /\ Fitting /\ LaidOut /\ WayBack

-----------------------------------------------------------------------------
\* kmalloc gives what was asked for or nothing, and never more than there is.
LEMMA GotFacts ==
    ASSUME NEW size \in Nat, NEW free \in Int, free >= 0
    PROVE  Got(size, free) \in Nat /\ Got(size, free) \in {0, size} /\ Got(size, free) <= free BY DEF Got

\* What vbe_set_mode may answer: a mode it did not take leaves the driver's.
LEMMA SetModeFacts ==
    ASSUME WellSized, Typed, NEW m \in Modes, NEW r \in SetMode(m)
    PROVE  /\ r.fb \in [mode : Modes, size : Nat]
           /\ r.ok \in BOOLEAN
           /\ r.ok => r.fb.mode = m
           /\ ~r.ok => r.fb = fb
<1>1. CASE \E h \in {hw, m, None} : r = [ok |-> FALSE, hw |-> h, fb |-> fb] BY <1>1 DEF Typed
<1>2. CASE \E s \in Sizes[m] : r = [ok |-> TRUE, hw |-> m, fb |-> [mode |-> m, size |-> s]]
  <2>1. PICK s \in Sizes[m] : r = [ok |-> TRUE, hw |-> m, fb |-> [mode |-> m, size |-> s]] BY <1>2
  <2>2. s \in Nat BY DEF WellSized
  <2> QED BY <2>1, <2>2
<1>3. \/ \E h \in {hw, m, None} : r = [ok |-> FALSE, hw |-> h, fb |-> fb]
      \/ \E s \in Sizes[m] : r = [ok |-> TRUE, hw |-> m, fb |-> [mode |-> m, size |-> s]] BY DEF SetMode
<1> QED BY <1>1, <1>2, <1>3

LEMMA InitModes == ASSUME WellSized, ModesInit PROVE ModesInv
<1>1. PICK s \in Sizes[BootMode] : fb = [mode |-> BootMode, size |-> s] /\ backbuf = s BY DEF ModesInit
<1>2. s \in Nat /\ others \in Nat /\ others + s <= Memory /\ Memory \in Nat BY <1>1 DEF ModesInit, WellSized
<1>3. Typed BY <1>1, <1>2 DEF ModesInit, WellSized, Typed, Quiet, Stages, None
<1>4. Free = Memory - others - s BY <1>1, <1>2 DEF ModesInit, Free, Quiet
<1>5. WithinMemory BY <1>2, <1>4 DEF WithinMemory
<1>6. Fitting /\ LaidOut /\ WayBack BY <1>1, <1>2 DEF ModesInit, Fitting, LaidOut, WayBack, Quiet
<1> QED BY <1>3, <1>5, <1>6 DEF ModesInv

-----------------------------------------------------------------------------
LEMMA OthersModes == ASSUME WellSized, ModesInv, OthersTake PROVE ModesInv'
<1>1. others' \in Nat /\ UNCHANGED <<backbuf, cache, fb, hw, scr, undo, sw, accepted, lost>>
  BY DEF OthersTake, WellSized
<1>2. others' <= others + Free BY DEF OthersTake
<1>3. WithinMemory' BY <1>1, <1>2 DEF WellSized, ModesInv, Typed, WithinMemory, Free
<1> QED BY <1>1, <1>3 DEF ModesInv, Typed, Fitting, LaidOut, WayBack

LEMMA CacheModes == ASSUME WellSized, ModesInv, BuildCache PROVE ModesInv'
<1>1. sw.at = "idle" /\ cache = 0 /\ cache' = Got(fb.size, Free)
      /\ UNCHANGED <<others, backbuf, fb, hw, scr, undo, sw, accepted, lost>> BY DEF BuildCache
<1>2. Free \in Int /\ Free >= 0 /\ fb.size \in Nat BY DEF WellSized, ModesInv, Typed, WithinMemory, Free
<1>3. cache' \in Nat /\ cache' \in {0, fb.size} /\ cache' <= Free BY <1>1, <1>2, GotFacts
<1>4. WithinMemory' BY <1>1, <1>3 DEF WellSized, ModesInv, Typed, WithinMemory, Free
<1> QED BY <1>1, <1>3, <1>4 DEF ModesInv, Typed, Fitting, LaidOut, WayBack

LEMMA ConfirmModes == ASSUME WellSized, ModesInv, Confirm PROVE ModesInv'
<1>1. /\ sw.at = "idle" /\ undo.armed /\ undo' = [undo EXCEPT !.armed = FALSE] /\ accepted' = fb.mode
      /\ UNCHANGED <<others, backbuf, cache, fb, hw, scr, sw, lost>> BY DEF Confirm
<1>2. undo' \in [armed : BOOLEAN, mode : Modes \cup {None}] /\ ~undo'.armed BY <1>1 DEF ModesInv, Typed
<1> QED BY <1>1, <1>2 DEF ModesInv, Typed, WithinMemory, Free, Fitting, LaidOut, WayBack

\* Both buffers are given back before anything is asked of the adapter.
LEMMA ReleaseModes ==
    ASSUME WellSized, ModesInv, NEW m \in Modes, NEW fallback \in Modes \cup {None}, NEW undoing \in BOOLEAN,
           sw.at = "idle", Release(m, fallback, undoing),
           undo' \in [armed : BOOLEAN, mode : Modes \cup {None}], ~undo'.armed,
           undoing <=> fallback = None,
           ~lost => IF undoing THEN m = accepted ELSE fallback = accepted /\ m # accepted /\ fb.mode = accepted
    PROVE  ModesInv'
<1>1. /\ backbuf' = 0 /\ cache' = 0
      /\ sw' = [at |-> "released", want |-> m, fallback |-> fallback, nb |-> 0, undoing |-> undoing]
      /\ UNCHANGED <<others, fb, hw, scr, accepted, lost>> BY DEF Release
<1>2. /\ sw'.at = "released" /\ sw'.want = m /\ sw'.fallback = fallback /\ sw'.nb = 0 /\ sw'.undoing = undoing
      /\ Typed' BY <1>1 DEF ModesInv, Typed, Stages
<1>3. WithinMemory' BY <1>1, <1>2 DEF WellSized, ModesInv, Typed, WithinMemory, Free
<1>4. Fitting' /\ LaidOut' BY <1>1, <1>2 DEF ModesInv, Fitting, LaidOut
<1>5. WayBack' BY <1>1, <1>2 DEF ModesInv, WayBack
<1> QED BY <1>2, <1>3, <1>4, <1>5 DEF ModesInv

LEMMA ApplyModes == ASSUME WellSized, ModesInv, NEW m \in Modes, SettingsApply(m) PROVE ModesInv'
<1>1. sw.at = "idle" /\ ~undo.armed /\ m # fb.mode /\ Release(m, fb.mode, FALSE) /\ undo' = undo BY DEF SettingsApply
<1>2. fb.mode \in Modes /\ fb.mode # None BY DEF WellSized, ModesInv, Typed
<1>3. ~lost => fb.mode = accepted BY <1>1 DEF ModesInv, WayBack
<1> QED BY <1>1, <1>2, <1>3, ReleaseModes DEF ModesInv, Typed

LEMMA RevertModes == ASSUME WellSized, ModesInv, ModeRevertNow PROVE ModesInv'
<1>1. sw.at = "idle" /\ undo.armed /\ undo' = [undo EXCEPT !.armed = FALSE] /\ Release(undo.mode, None, TRUE)
  BY DEF ModeRevertNow
<1>2. undo' \in [armed : BOOLEAN, mode : Modes \cup {None}] /\ ~undo'.armed BY <1>1 DEF ModesInv, Typed
<1>3. undo.mode \in Modes /\ (~lost => undo.mode = accepted) BY <1>1 DEF ModesInv, WayBack
<1> QED BY <1>1, <1>2, <1>3, ReleaseModes

-----------------------------------------------------------------------------
LEMMA ReserveModes == ASSUME WellSized, ModesInv, Reserve PROVE ModesInv'
<1> DEFINE nb == Got(Estimate[sw.want], Free)
<1>1. /\ sw.at = "released"
      /\ sw' = [sw EXCEPT !.at = IF nb = 0 THEN "failed" ELSE "reserved", !.nb = nb]
      /\ UNCHANGED <<others, backbuf, cache, fb, hw, scr, undo, accepted, lost>> BY DEF Reserve
<1>2. sw.want \in Modes /\ sw.nb = 0 /\ backbuf = 0 /\ cache = 0 BY <1>1 DEF ModesInv, Fitting
<1>3. Free \in Int /\ Free >= 0 /\ Estimate[sw.want] \in Nat
  BY <1>2 DEF WellSized, ModesInv, Typed, WithinMemory, Free
<1>4. nb \in Nat /\ nb <= Free BY <1>3, GotFacts
<1> HIDE DEF nb
<1>5. /\ sw'.at = (IF nb = 0 THEN "failed" ELSE "reserved") /\ sw'.nb = nb /\ sw'.want = sw.want
      /\ sw'.fallback = sw.fallback /\ sw'.undoing = sw.undoing /\ Typed' BY <1>1, <1>4 DEF ModesInv, Typed, Stages
<1>6. WithinMemory' BY <1>1, <1>2, <1>4, <1>5 DEF WellSized, ModesInv, Typed, WithinMemory, Free
<1>7. Fitting' /\ LaidOut' BY <1>1, <1>2, <1>5 DEF ModesInv, Fitting, LaidOut
<1>8. WayBack' BY <1>1, <1>2, <1>5 DEF ModesInv, WayBack
<1> QED BY <1>5, <1>6, <1>7, <1>8 DEF ModesInv

LEMMA AskModes == ASSUME WellSized, ModesInv, Ask PROVE ModesInv'
<1>1. PICK r \in SetMode(sw.want) :
        /\ hw' = r.hw /\ fb' = r.fb
        /\ sw' = IF ~r.ok THEN [sw EXCEPT !.at = "failed", !.nb = 0]
                 ELSE IF r.fb.size > sw.nb THEN [sw EXCEPT !.at = "wider", !.nb = 0]
                 ELSE [sw EXCEPT !.at = "taken"] BY DEF Ask
<1>2. sw.at = "reserved" /\ UNCHANGED <<others, backbuf, cache, scr, undo, accepted, lost>> BY DEF Ask
<1>3. sw.want \in Modes /\ backbuf = 0 /\ cache = 0 BY <1>2 DEF ModesInv, Fitting
<1>4. /\ fb' \in [mode : Modes, size : Nat] /\ r.ok \in BOOLEAN
      /\ r.ok => fb'.mode = sw.want
      /\ ~r.ok => fb' = fb BY <1>1, <1>3, SetModeFacts DEF ModesInv
<1>5. /\ sw'.at = (IF ~r.ok THEN "failed" ELSE IF fb'.size > sw.nb THEN "wider" ELSE "taken")
      /\ sw'.nb = (IF sw'.at = "taken" THEN sw.nb ELSE 0)
      /\ sw'.want = sw.want /\ sw'.fallback = sw.fallback /\ sw'.undoing = sw.undoing /\ Typed'
  BY <1>1, <1>2, <1>4 DEF ModesInv, Typed, Stages
<1>6. WithinMemory' BY <1>2, <1>5 DEF WellSized, ModesInv, Typed, WithinMemory, Free
<1>7. Fitting' BY <1>2, <1>3, <1>4, <1>5 DEF ModesInv, Typed, Fitting
<1>8. LaidOut' /\ WayBack' BY <1>2, <1>3, <1>4, <1>5 DEF ModesInv, LaidOut, WayBack
<1> QED BY <1>5, <1>6, <1>7, <1>8 DEF ModesInv

LEMMA WidenModes == ASSUME WellSized, ModesInv, Widen PROVE ModesInv'
<1> DEFINE nb == Got(fb.size, Free)
<1>1. /\ sw.at = "wider" /\ nb # 0 /\ sw' = [sw EXCEPT !.at = "taken", !.nb = nb]
      /\ UNCHANGED <<others, backbuf, cache, fb, hw, scr, undo, accepted, lost>> BY DEF Widen
<1>2. Free \in Int /\ Free >= 0 /\ fb.size \in Nat BY DEF WellSized, ModesInv, Typed, WithinMemory, Free
<1>3. nb \in Nat /\ nb \in {0, fb.size} /\ nb <= Free BY <1>2, GotFacts
<1> HIDE DEF nb
<1>4. /\ sw'.at = "taken" /\ sw'.nb = nb /\ sw'.want = sw.want
      /\ sw'.fallback = sw.fallback /\ sw'.undoing = sw.undoing /\ Typed' BY <1>1, <1>3 DEF ModesInv, Typed, Stages
<1>5. sw.nb = 0 /\ backbuf = 0 /\ cache = 0 /\ sw.want \in Modes BY <1>1 DEF ModesInv, Fitting
<1>6. WithinMemory' BY <1>1, <1>3, <1>4, <1>5 DEF WellSized, ModesInv, Typed, WithinMemory, Free
<1>7. Fitting' /\ LaidOut' BY <1>1, <1>2, <1>3, <1>4, <1>5 DEF ModesInv, Fitting, LaidOut
<1>8. WayBack' BY <1>1, <1>4 DEF ModesInv, WayBack
<1> QED BY <1>4, <1>6, <1>7, <1>8 DEF ModesInv

LEMMA TooWideModes == ASSUME WellSized, ModesInv, TooWide PROVE ModesInv'
<1>1. PICK r \in IF sw.fallback = None THEN {[ok |-> TRUE, hw |-> hw, fb |-> fb]} ELSE SetMode(sw.fallback) :
        hw' = r.hw /\ fb' = r.fb /\ lost' = (lost \/ ~r.ok) BY DEF TooWide
<1>2. /\ sw.at = "wider" /\ sw' = [sw EXCEPT !.at = "back"]
      /\ UNCHANGED <<others, backbuf, cache, scr, undo, accepted>> BY DEF TooWide
<1>3. sw.nb = 0 /\ backbuf = 0 /\ cache = 0 /\ sw.want \in Modes /\ (sw.undoing <=> sw.fallback = None)
  BY <1>2 DEF ModesInv, Fitting, WayBack
<1>4. /\ fb' \in [mode : Modes, size : Nat] /\ r.ok \in BOOLEAN
      /\ sw.fallback # None /\ r.ok => fb'.mode = sw.fallback
  <2>1. CASE sw.fallback = None
    <3>1. r = [ok |-> TRUE, hw |-> hw, fb |-> fb] BY <2>1
    <3> QED BY <1>1, <2>1, <3>1 DEF ModesInv, Typed
  <2>2. CASE sw.fallback # None
    <3>1. sw.fallback \in Modes BY <2>2 DEF ModesInv, Typed
    <3> QED BY <1>1, <2>2, <3>1, SetModeFacts DEF ModesInv
  <2> QED BY <2>1, <2>2
<1>5. /\ sw'.at = "back" /\ sw'.nb = 0 /\ sw'.want = sw.want
      /\ sw'.fallback = sw.fallback /\ sw'.undoing = sw.undoing /\ Typed'
  BY <1>1, <1>2, <1>3, <1>4 DEF ModesInv, Typed, Stages
<1>6. WithinMemory' BY <1>2, <1>3, <1>5 DEF WellSized, ModesInv, Typed, WithinMemory, Free
<1>7. Fitting' /\ LaidOut' BY <1>2, <1>3, <1>5 DEF ModesInv, Fitting, LaidOut
<1>8. WayBack' BY <1>1, <1>2, <1>3, <1>4, <1>5 DEF ModesInv, Typed, WayBack
<1> QED BY <1>5, <1>6, <1>7, <1>8 DEF ModesInv

LEMMA AdoptModes == ASSUME WellSized, ModesInv, Adopt PROVE ModesInv'
<1>1. /\ sw.at = "taken" /\ scr' = fb.mode /\ backbuf' = sw.nb /\ sw' = Quiet
      /\ undo' = IF sw.undoing THEN undo ELSE [armed |-> TRUE, mode |-> sw.fallback]
      /\ UNCHANGED <<others, cache, fb, hw, accepted, lost>> BY DEF Adopt
<1>2. /\ cache = 0 /\ backbuf = 0 /\ sw.nb >= fb.size /\ sw.nb \in Nat /\ ~undo.armed
      /\ (sw.undoing <=> sw.fallback = None) BY <1>1 DEF ModesInv, Typed, Fitting, WayBack
<1>3. Typed' /\ sw'.at = "idle" /\ sw'.nb = 0 BY <1>1, <1>2 DEF ModesInv, Typed, Stages, Quiet, None
<1>4. WithinMemory' BY <1>1, <1>2, <1>3 DEF WellSized, ModesInv, Typed, WithinMemory, Free
<1>5. Fitting' /\ LaidOut' BY <1>1, <1>2, <1>3 DEF ModesInv, Fitting, LaidOut
<1>6. WayBack' BY <1>1, <1>2, <1>3 DEF ModesInv, Typed, WayBack
<1> QED BY <1>3, <1>4, <1>5, <1>6 DEF ModesInv

LEMMA RestoreModes == ASSUME WellSized, ModesInv, Restore PROVE ModesInv'
<1>1. /\ sw.at \in {"failed", "back"} /\ backbuf' = Got(fb.size, Free)
      /\ scr' = (IF sw.at = "back" THEN fb.mode ELSE scr)
      /\ sw' = Quiet /\ lost' = (lost \/ sw.undoing)
      /\ UNCHANGED <<others, cache, fb, hw, undo, accepted>> BY DEF Restore
<1>2. /\ cache = 0 /\ backbuf = 0 /\ sw.nb = 0 /\ ~undo.armed
      /\ (sw.undoing <=> sw.fallback = None) BY <1>1 DEF ModesInv, Fitting, WayBack
<1>3. Free \in Int /\ Free >= 0 /\ fb.size \in Nat BY DEF WellSized, ModesInv, Typed, WithinMemory, Free
<1>4. backbuf' \in Nat /\ backbuf' \in {0, fb.size} /\ backbuf' <= Free BY <1>1, <1>3, GotFacts
<1>5. Typed' /\ sw'.at = "idle" /\ sw'.nb = 0 BY <1>1, <1>4 DEF ModesInv, Typed, Stages, Quiet, None
<1>6. WithinMemory' BY <1>1, <1>2, <1>4, <1>5 DEF WellSized, ModesInv, Typed, WithinMemory, Free
<1>7. Fitting' /\ LaidOut' BY <1>1, <1>2, <1>3, <1>4, <1>5 DEF ModesInv, Fitting, LaidOut
<1>8. WayBack' BY <1>1, <1>2, <1>5 DEF ModesInv, Typed, WayBack
<1> QED BY <1>5, <1>6, <1>7, <1>8 DEF ModesInv

LEMMA NextModes == ASSUME WellSized, ModesInv, [ModesNext]_modeVars PROVE ModesInv'
<1>1. CASE UNCHANGED modeVars BY <1>1 DEF modeVars, ModesInv, Typed, WithinMemory, Free, Fitting, LaidOut, WayBack
<1> QED BY <1>1, OthersModes, CacheModes, ConfirmModes, ApplyModes, RevertModes, ReserveModes, AskModes, WidenModes,
  TooWideModes, AdoptModes, RestoreModes DEF ModesNext, Step

LEMMA Inductive == ASSUME WellSized PROVE ModesSpec => []ModesInv BY InitModes, NextModes, PTL DEF ModesSpec

\* The back buffer and the cache hold a whole screen of the mode drawn,
\* whatever line the adapter took and whichever allocation failed
\* (mode_switch_buffered).
THEOREM BufferAlwaysFits == ASSUME WellSized PROVE ModesSpec => []BufferFits
<1>1. ModesInv => BufferFits BY DEF ModesInv, WithinMemory, Fitting, LaidOut, BufferFits
<1> QED BY <1>1, Inductive, PTL

\* The undo of a mode on trial leads to the last mode the user accepted, until
\* a way back has failed (settings_apply, mode_revert_now).
THEOREM UndoAlwaysLeadsBack == ASSUME WellSized PROVE ModesSpec => []UndoLeadsBack
<1>1. ModesInv => UndoLeadsBack BY DEF ModesInv, WayBack, UndoLeadsBack
<1> QED BY <1>1, Inductive, PTL

-----------------------------------------------------------------------------
(*****************************************************************************)
(* The programs.                                                             *)
(*****************************************************************************)
Rows == [loaded : BOOLEAN, file : Files \cup {""}, iso : BOOLEAN, faulted : BOOLEAN, broken : BOOLEAN, misuse : BOOLEAN]

\* A program that crashed is still loaded, and marked.
Sane(P) == P \in Rows /\ ~P.misuse /\ (P.broken => P.loaded /\ P.faulted)

\* A loaded program has its window, and a current question is about the KvFS
\* there is.
StoreInv ==
    /\ Sane(prog) /\ user \in {0, 1} /\ (prog.loaded => user = 1)
    /\ kv \in [mounted : BOOLEAN, files : SUBSET Files] /\ dialog \in [open : BOOLEAN, current : BOOLEAN, mounted : BOOLEAN]
    /\ dialog.open /\ dialog.current => kv.mounted = dialog.mounted

\* kapp_unload without a call: nothing is loaded, nothing is left of a crash.
LEMMA SaneGone == ASSUME NEW P, Sane(P), NEW c \in BOOLEAN PROVE Sane(Gone(P, c)) /\ ~Gone(P, c).loaded /\ ~Gone(P, c).broken
BY DEF Sane, Gone, Rows, NoProgram

\* One call of a program that has not crashed.
LEMMA SaneCalls == ASSUME NEW P, Sane(P), ~P.broken, P.loaded, NEW C \in Calls(P) PROVE Sane(C) /\ C.loaded
BY DEF Sane, Calls, Rows

\* kapp_unload calls on_close only of a program that did not crash.
LEMMA SaneUnload == ASSUME NEW P, Sane(P), NEW Q \in Unload(P) PROVE Sane(Q) /\ ~Q.loaded
<1>1. CASE ~P.loaded BY <1>1 DEF Unload
<1>2. CASE P.loaded /\ (P.iso \/ P.faulted) BY <1>2, SaneGone DEF Unload
<1>3. CASE P.loaded /\ ~P.iso /\ ~P.faulted
  <2>1. PICK C \in Calls(P) : Q = Gone(C, FALSE) BY <1>3 DEF Unload
  <2>2. Sane(C) BY <1>3, SaneCalls DEF Sane
  <2> QED BY <2>1, <2>2, SaneGone
<1> QED BY <1>1, <1>2, <1>3

\* kapp_load clears the mark, which is safe with nothing loaded.
LEMMA SaneLoad ==
  ASSUME NEW P, Sane(P), ~P.loaded, NEW f \in Files, NEW Q \in KappLoad(P, f) PROVE Sane(Q)
<1> DEFINE P0 == [P EXCEPT !.faulted = FALSE]
<1>1. Sane(P0) /\ ~P0.loaded BY DEF Sane, Rows
<1> HIDE DEF P0
<1>2. Unload(P0) = {P0} BY <1>1 DEF Unload
<1>3. Q = P0 \/ Q = Loaded(P0, f) \/ Q = [P0 EXCEPT !.faulted = TRUE]
  <2>1. \E R \in Unload(P0) : Q = R \/ Q = Loaded(R, f) \/ Q = [R EXCEPT !.faulted = TRUE] BY DEF KappLoad, P0
  <2> QED BY <1>2, <2>1
<1>4. Sane(Loaded(P0, f)) BY <1>1 DEF Loaded, Sane, Rows, NoProgram
<1>5. Sane([P0 EXCEPT !.faulted = TRUE]) BY <1>1 DEF Sane, Rows
<1> QED BY <1>1, <1>3, <1>4, <1>5

\* A handler leaves a sane loader, and loads nothing.
LEMMA SaneHandler == ASSUME NEW P, Sane(P), NEW Q \in Handler(P) PROVE Sane(Q) /\ (Q.loaded => P.loaded)
<1>1. CASE ~P.loaded BY <1>1 DEF Handler
<1>2. CASE P.loaded /\ P.iso BY <1>2, SaneGone DEF Handler
<1>3. CASE P.loaded /\ ~P.iso /\ P.faulted BY <1>3, SaneUnload DEF Handler
<1>4. CASE P.loaded /\ ~P.iso /\ ~P.faulted BY <1>4, SaneCalls DEF Handler, Sane
<1> QED BY <1>1, <1>2, <1>3, <1>4

\* win_close of the window of the program, if there is one.
LEMMA SaneClose == ASSUME StoreInv, NEW P \in CloseUser(prog) PROVE Sane(P) /\ ~P.loaded
BY SaneUnload DEF StoreInv, CloseUser

LEMMA Nobody == Sane(NoProgram) /\ ~NoProgram.loaded BY DEF Sane, Rows, NoProgram

LEMMA NoQuestion == NoDialog \in [open : BOOLEAN, current : BOOLEAN, mounted : BOOLEAN] /\ ~NoDialog.open
BY DEF NoDialog

\* At boot nothing is loaded and nothing asked.
LEMMA StoreInitHolds == StoreInit => StoreInv BY Nobody, NoQuestion DEF StoreInit, StoreInv

\* Every step of the windows, the loader and the store keeps it.
LEMMA StoreStepKeeps == StoreInv /\ [StoreNext]_storeVars => StoreInv'
<1> SUFFICES ASSUME StoreInv, [StoreNext]_storeVars PROVE StoreInv' OBVIOUS
<1>1. ASSUME NEW f \in Files, LaunchUserApp(f) PROVE StoreInv'
  <2>1. PICK P \in CloseUser(prog) : \E Q \in KappLoad(P, f) :
           IF ~Q.loaded THEN prog' = Q /\ user' = 0
           ELSE IF other = MaxWin THEN prog' \in Unload(Q) /\ user' = 0
           ELSE prog' \in Handler(Q) /\ user' = 1 BY <1>1 DEF LaunchUserApp
  <2>2. PICK Q \in KappLoad(P, f) :
           IF ~Q.loaded THEN prog' = Q /\ user' = 0
           ELSE IF other = MaxWin THEN prog' \in Unload(Q) /\ user' = 0
           ELSE prog' \in Handler(Q) /\ user' = 1 BY <2>1
  <2>4. Sane(Q) BY SaneClose, SaneLoad
  <2>3. Sane(prog') /\ user' \in {0, 1} /\ (prog'.loaded => user' = 1) BY <2>2, <2>4, SaneUnload, SaneHandler
  <2> QED BY <1>1, <2>3 DEF LaunchUserApp, StoreInv
<1>2. CASE Frame
  <2>1. PICK P \in Handler(prog) : prog' \in Handler(P) BY <1>2 DEF Frame
  <2>2. Sane(prog') /\ (prog'.loaded => prog.loaded) BY <2>1, SaneHandler DEF StoreInv
  <2> QED BY <1>2, <2>2 DEF Frame, StoreInv
<1>3. CASE Input
  <2>1. Sane(prog') /\ (prog'.loaded => prog.loaded) BY <1>3, SaneHandler DEF Input, StoreInv
  <2> QED BY <1>3, <2>1 DEF Input, StoreInv
<1>4. CASE CloseWindow
  <2>1. Sane(prog') /\ ~prog'.loaded BY <1>4, SaneUnload DEF CloseWindow, StoreInv
  <2> QED BY <1>4, <2>1 DEF CloseWindow, StoreInv
<1>5. ASSUME NEW f \in Files, DeleteProgram(f) PROVE StoreInv'
  <2>1. (Sane(prog') /\ ~prog'.loaded /\ user' = 0) \/ UNCHANGED <<prog, user>>
    BY <1>5, SaneUnload DEF DeleteProgram, StoreInv
  <2>2. kv' \in [mounted : BOOLEAN, files : SUBSET Files] BY <1>5 DEF DeleteProgram, StoreInv
  <2> QED BY <1>5, <2>1, <2>2 DEF DeleteProgram, StoreInv
<1>6. CASE OtherWindow \/ Draw BY <1>6 DEF OtherWindow, Draw, StoreInv
<1>7. CASE StoreMountCheck \/ KvfsMount \/ KvfsFence
  BY <1>7 DEF StoreMountCheck, KvfsMount, KvfsFence, Mount, Changed, StoreInv
<1>8. CASE AskFormat \/ CancelFormat \/ Erase \/ EraseRefused
  <2>1. CASE AskFormat BY <2>1 DEF AskFormat, StoreInv
  <2>2. CASE CancelFormat \/ Erase \/ EraseRefused
    <3>1. kv' \in [mounted : BOOLEAN, files : SUBSET Files]
      <4>1. CASE CancelFormat \/ EraseRefused BY <4>1 DEF CancelFormat, EraseRefused, StoreInv
      <4>2. CASE Erase
        <5>1. \E m \in BOOLEAN, F \in {{}, kv.files} : kv' = [mounted |-> m, files |-> F] BY <4>2 DEF Erase
        <5>2. {} \in SUBSET Files /\ kv.files \in SUBSET Files BY DEF StoreInv
        <5> QED BY <5>1, <5>2
      <4> QED BY <2>2, <4>1, <4>2
    <3>2. dialog' = NoDialog /\ UNCHANGED <<prog, user>> BY <2>2 DEF CancelFormat, Erase, EraseRefused
    <3> QED BY <3>1, <3>2, NoQuestion DEF StoreInv
  <2> QED BY <1>8, <2>1, <2>2
<1>9. ASSUME NEW f \in Files, KvfsWrite(f) PROVE StoreInv' BY <1>9 DEF KvfsWrite, StoreInv
<1>10. CASE UNCHANGED storeVars BY <1>10 DEF storeVars, StoreInv
<1> QED BY <1>1, <1>2, <1>3, <1>4, <1>5, <1>6, <1>7, <1>8, <1>9, <1>10 DEF StoreNext

LEMMA StoreInvariant == StoreSpec => []StoreInv
<1> QED BY StoreInitHolds, StoreStepKeeps, PTL DEF StoreSpec

\* No handler of a program that crashed is called again, and a loaded program
\* has its one window, whatever launches, deletions and failing handlers come
\* between (kapp.c kapp_load and kapp_unload, gui.c launch_user_app).
THEOREM CrashStaysFinal == StoreSpec => []CrashIsFinal
<1>1. StoreInv => CrashIsFinal BY DEF StoreInv, CrashIsFinal, Sane
<1> QED BY <1>1, StoreInvariant, PTL

\* An erase happens only to the KvFS the question was about: what is mounted
\* or fenced in between makes the question stale (gui.c store_format_apply).
THEOREM EraseAsAsked == StoreSpec => [][ErasesAsAsked]_storeVars
<1>1. StoreInv /\ [StoreNext]_storeVars => [ErasesAsAsked]_storeVars
  <2> SUFFICES ASSUME StoreInv, StoreNext, dialog.open, kv'.files # kv.files, dialog' = NoDialog
               PROVE  kv.mounted = dialog.mounted BY DEF ErasesAsAsked
  <2>1. Erase
    BY DEF StoreNext, Frame, Input, CloseWindow, OtherWindow, Draw, StoreMountCheck, KvfsMount, KvfsFence, Mount,
      Changed, AskFormat, CancelFormat, EraseRefused, LaunchUserApp, DeleteProgram, KvfsWrite, NoDialog, StoreInv
  <2> QED BY <2>1 DEF Erase, Valid, StoreInv
<1> QED BY <1>1, StoreInvariant, PTL DEF StoreSpec

-----------------------------------------------------------------------------
(*****************************************************************************)
(* The keys.                                                                 *)
(*****************************************************************************)
\* The bytes the devices can send.
Whats == {"ack"} \cup {s.keys[k] : s \in Scripts, k \in Nat} \cup {s.mouse[k] : s \in Scripts, k \in Nat}
Bytes == [of : {"kbd", "mouse"}, what : Whats, id : Nat]

\* What the desktop took and what waits for it.
Queue == got \o ring

\* An event copied is the first of the ring; the events in the queue are in
\* the order of typing, and the byte the controller offers comes after them.
InputInv ==
    /\ script \in Scripts /\ sent \in Nat /\ moved \in Nat
    /\ out \in Bytes \cup {Empty} /\ ring \in Seq(Bytes) /\ got \in Seq(Bytes)
    /\ taking # <<>> => ring # <<>> /\ taking = <<Head(ring)>>
    /\ Full /\ out.of = "kbd" => out.id <= sent
    /\ \A i \in 1 .. Len(Queue) :
        Queue[i].of = "kbd" =>
            /\ Queue[i].id <= sent
            /\ Full /\ out.of = "kbd" => Queue[i].id < out.id
            /\ \A j \in i + 1 .. Len(Queue) : Queue[j].of = "kbd" => Queue[i].id < Queue[j].id

\* A byte that was read is thrown away or put behind the others.
LEMMA FeedReads == ASSUME NEW b, Feed(b) PROVE out' = Empty /\ (NoEvent \/ Push(b))
BY DEF Feed, Read, MousekeysSet, SetLeds

LEMMA KbdCbReads ==
  ASSUME KbdCb
  PROVE  \/ UNCHANGED <<out, ringVars>>
         \/ out' = Empty /\ UNCHANGED ringVars
         \/ Full /\ out' = Empty /\ ring' = Append(ring, out) /\ UNCHANGED <<got, taking>>
BY FeedReads DEF KbdCb, NoEvent, Push, ringVars

\* Steps of the keyboard's side that take no event.
LEMMA ReadKeeps ==
  ASSUME InputInv, UNCHANGED <<got, taking, script, sent>>, moved' \in Nat,
         \/ UNCHANGED <<out, ring>>
         \/ out' = Empty /\ UNCHANGED ring
         \/ Full /\ out' = Empty /\ ring' = Append(ring, out)
  PROVE  InputInv'
<1>1. CASE UNCHANGED <<out, ring>> BY <1>1 DEF InputInv, Queue, Full
<1>2. CASE out' = Empty /\ UNCHANGED ring BY <1>2 DEF InputInv, Queue, Full
<1>3. CASE Full /\ out' = Empty /\ ring' = Append(ring, out)
  <2>1. out \in Bytes /\ ring' \in Seq(Bytes) /\ got' \in Seq(Bytes) BY <1>3 DEF InputInv, Full
  <2>2. Len(Queue') = Len(Queue) + 1 /\ Queue'[Len(Queue) + 1] = out /\ \A i \in 1 .. Len(Queue) : Queue'[i] = Queue[i]
    BY <1>3, <2>1 DEF InputInv, Queue
  <2>3. Len(Queue) \in Nat /\ \A i \in 1 .. Len(Queue) : Queue[i] \in Bytes BY DEF InputInv, Queue
  <2>4. taking' # <<>> => ring' # <<>> /\ taking' = <<Head(ring')>> BY <1>3, <2>1 DEF InputInv
  <2>5. ASSUME NEW i \in 1 .. Len(Queue'), Queue'[i].of = "kbd"
        PROVE  Queue'[i].id <= sent' /\ \A j \in i + 1 .. Len(Queue') : Queue'[j].of = "kbd" => Queue'[i].id < Queue'[j].id
    <3>1. CASE i = Len(Queue) + 1 BY <1>3, <2>1, <2>2, <2>3, <2>5, <3>1 DEF InputInv
    <3>2. CASE i \in 1 .. Len(Queue)
      <4>1. Queue'[i] = Queue[i] /\ Queue[i].id <= sent /\ (out.of = "kbd" => Queue[i].id < out.id)
        BY <1>3, <2>2, <2>5, <3>2 DEF InputInv
      <4>2. ASSUME NEW j \in i + 1 .. Len(Queue'), Queue'[j].of = "kbd" PROVE Queue'[i].id < Queue'[j].id
        <5>1. CASE j = Len(Queue) + 1 BY <2>2, <4>1, <4>2, <5>1
        <5>2. CASE j \in i + 1 .. Len(Queue)
          <6>1. Queue'[j] = Queue[j] BY <2>2, <2>3, <3>2, <5>2
          <6> QED BY <2>5, <3>2, <4>1, <4>2, <5>2, <6>1 DEF InputInv
        <5> QED BY <2>2, <2>3, <5>1, <5>2
      <4> QED BY <4>1, <4>2
    <3> QED BY <2>2, <2>3, <3>1, <3>2
  <2> QED BY <1>3, <2>1, <2>4, <2>5 DEF InputInv, Full
<1> QED BY <1>1, <1>2, <1>3

\* Steps after which the queue is what it was.
LEMMA SameQueue ==
  ASSUME InputInv, UNCHANGED <<out, script, sent, moved>>, Queue' = Queue, ring' \in Seq(Bytes), got' \in Seq(Bytes),
         taking' # <<>> => ring' # <<>> /\ taking' = <<Head(ring')>>
  PROVE  InputInv' BY DEF InputInv, Full

LEMMA InputInitHolds == InputInit => InputInv BY DEF InputInit, InputInv, Queue, Full

LEMMA InputStepKeeps == InputInv /\ [InputNext]_inputVars => InputInv'
<1> SUFFICES ASSUME InputInv, [InputNext]_inputVars PROVE InputInv' OBVIOUS
<1> USE DEF ringVars
<1>1. CASE KeyArrives
  <2>1. sent' = sent + 1 /\ sent' \in Nat /\ ~Full /\ out' = [of |-> "kbd", what |-> script.keys[sent'], id |-> sent']
        /\ UNCHANGED <<ring, got, taking, script, moved>> BY <1>1 DEF KeyArrives, Offer, InputInv
  <2>2. out' \in Bytes /\ out'.of = "kbd" /\ out'.id = sent' BY <2>1 DEF Bytes, Whats, InputInv
  <2>3. Len(Queue) \in Nat /\ Queue' = Queue /\ \A i \in 1 .. Len(Queue) : Queue[i] \in Bytes /\ Queue[i].id \in Nat
    <3>1. Queue' = Queue /\ Queue \in Seq(Bytes) BY <2>1 DEF InputInv, Queue
    <3>2. \A b \in Bytes : b.id \in Nat BY DEF Bytes
    <3> QED BY <3>1, <3>2
  <2>4. ASSUME NEW i \in 1 .. Len(Queue), Queue[i].of = "kbd"
        PROVE  /\ Queue[i].id <= sent' /\ Queue[i].id < out'.id
               /\ \A j \in i + 1 .. Len(Queue) : Queue[j].of = "kbd" => Queue[i].id < Queue[j].id
    <3>1. /\ Queue[i].id <= sent
          /\ \A j \in i + 1 .. Len(Queue) : Queue[j].of = "kbd" => Queue[i].id < Queue[j].id BY <2>4 DEF InputInv
    <3>2. sent \in Nat /\ Queue[i].id \in Nat BY <2>3 DEF InputInv
    <3> QED BY <2>1, <2>2, <3>1, <3>2
  <2>5. Len(Queue') = Len(Queue) /\ \A i \in 1 .. Len(Queue) : Queue'[i] = Queue[i] BY <2>3
  <2>6. sent' <= sent' BY <2>1
  <2> QED BY <2>1, <2>2, <2>4, <2>5, <2>6 DEF InputInv
<1>2. CASE MouseArrives
  <2>1. moved' = moved + 1 /\ moved' \in Nat /\ ~Full /\ out' = [of |-> "mouse", what |-> script.mouse[moved'], id |-> 0]
        /\ UNCHANGED <<ring, got, taking, script, sent>> BY <1>2 DEF MouseArrives, Offer, InputInv
  <2>2. out' \in Bytes /\ out'.of = "mouse" BY <2>1 DEF Bytes, Whats, InputInv
  <2> QED BY <2>1, <2>2 DEF InputInv, Queue
<1>3. CASE Irq1 \/ PollByte BY <1>3, KbdCbReads, ReadKeeps DEF Irq1, PollByte, bounds, InputInv
<1>4. CASE Irq12 BY <1>4, ReadKeeps DEF Irq12, MouseCb, Read, bounds, InputInv
<1>5. CASE PollBegin \/ PollEnd \/ ClickEnds
  BY <1>5, ReadKeeps DEF PollBegin, PollEnd, ClickEnds, devVars, bounds, InputInv
<1>6. CASE TakeEvent BY <1>6, SameQueue DEF TakeEvent, devVars, bounds, InputInv, Queue
<1>7. CASE MoveTail
  <2>1. ring # <<>> /\ taking[1] = Head(ring) /\ ring' = Tail(ring) /\ got' = Append(got, Head(ring)) /\ taking' = <<>>
    BY <1>7 DEF MoveTail, InputInv
  <2>2. ring \in Seq(Bytes) /\ got \in Seq(Bytes) /\ Head(ring) \in Bytes /\ Tail(ring) \in Seq(Bytes)
    BY <2>1 DEF InputInv
  <2>3. Append(got, Head(ring)) \o Tail(ring) = got \o ring BY <2>1, <2>2
  <2> QED BY <1>7, <2>1, <2>2, <2>3, SameQueue DEF MoveTail, devVars, bounds, Queue
<1>8. CASE LedsCommand BY <1>8, ReadKeeps DEF LedsCommand, SetLeds, MousekeysSet, InputInv
<1>9. CASE UNCHANGED inputVars BY <1>9, ReadKeeps DEF inputVars, devVars, bounds, InputInv
<1> QED BY <1>1, <1>2, <1>3, <1>4, <1>5, <1>6, <1>7, <1>8, <1>9 DEF InputNext

\* Of the bytes the keyboard sent, the desktop takes each at most once and in
\* the order typed, whichever of the interrupt, the poll and the exchange that
\* sets the LEDs was first (keyboard.c kbd_cb, kbd_poll, kbd_getevent_nb).
THEOREM KeysTakenOnce == InputSpec => []KeysOnce
<1>1. InputInv => KeysOnce
  <2> SUFFICES ASSUME InputInv PROVE KeysOnce OBVIOUS
  <2>1. got \o taking \o (IF taking = <<>> THEN ring ELSE Tail(ring)) = Queue
    <3>1. CASE taking = <<>>
      <4>1. got \o <<>> = got BY DEF InputInv
      <4> QED BY <3>1, <4>1 DEF Queue
    <3>2. CASE taking # <<>>
      <4>1. ring \in Seq(Bytes) /\ got \in Seq(Bytes) /\ ring # <<>> /\ taking = <<Head(ring)>> BY <3>2 DEF InputInv
      <4>2. got \o <<Head(ring)>> \o Tail(ring) = got \o ring BY <4>1
      <4> QED BY <3>2, <4>1, <4>2 DEF Queue
    <3> QED BY <3>1, <3>2
  <2>2. DOMAIN Queue = 1 .. Len(Queue) /\ Len(Queue) \in Nat BY DEF InputInv, Queue
  <2>3. \A i, j \in DOMAIN Queue :
           i < j /\ Queue[i].of = "kbd" /\ Queue[j].of = "kbd" => Queue[i].id < Queue[j].id BY <2>2 DEF InputInv
  <2> QED BY <2>1, <2>3 DEF KeysOnce
<1> QED BY <1>1, InputInitHolds, InputStepKeeps, PTL DEF InputSpec
-----------------------------------------------------------------------------
(***************************************************************************)
(* The kernel heap.                                                        *)
(***************************************************************************)
LEMMA Rises ==
  ASSUME NEW N \in Nat, NEW K, 0 \in K, \A k \in 1 .. N : k - 1 \in K => k \in K
  PROVE  \A k \in 0 .. N : k \in K
<1> DEFINE R == {p \in Nat \X Nat : p[1] < p[2]}
           B == {n \in 0 .. N : n \notin K}
<1>1. IsWellFoundedOn(R, Nat) BY NatLessThanWellFounded DEF OpToRel
<1>2. \A x, y \in Nat : <<y, x>> \in R <=> y < x OBVIOUS
<1> HIDE DEF R
<1> SUFFICES ASSUME B # {} PROVE FALSE OBVIOUS
<1>5. B \subseteq Nat OBVIOUS
<1>6. PICK n \in B : \A y \in B : ~(<<y, n>> \in R) BY <1>1, <1>5, WFMin
<1>3. n # 0 /\ n \in 1 .. N /\ n - 1 \in 0 .. N BY <1>6
<1>4. n - 1 \notin B
  <2>1. <<n - 1, n>> \in R BY <1>2, <1>3
  <2> QED BY <1>6, <2>1
<1> QED BY <1>6, <1>3, <1>4

\* The least and the greatest number of a set.
LEMMA LeastIsIn ==
  ASSUME NEW S, S \subseteq Nat, S # {}
  PROVE  Min(S) \in S /\ \A y \in S : Min(S) <= y
<1> DEFINE R == {p \in Nat \X Nat : p[1] < p[2]}
<1>1. IsWellFoundedOn(R, Nat) BY NatLessThanWellFounded DEF OpToRel
<1>2. \A x, y \in Nat : <<y, x>> \in R <=> y < x OBVIOUS
<1> HIDE DEF R
<1>4. PICK n \in S : \A y \in S : ~(<<y, n>> \in R) BY <1>1, WFMin
<1>5. ASSUME NEW y \in S PROVE n <= y
  <2>1. y \in Nat /\ n \in Nat /\ ~(<<y, n>> \in R) BY <1>4
  <2>2. ~(y < n) BY <1>2, <2>1
  <2> QED BY <2>1, <2>2
<1> QED BY <1>4, <1>5 DEF Min
Blocks == [size : Nat, next : Int, prev : Int, free : BOOLEAN]
\* A heap that is whole, whatever lies next to what.
Whole(h) ==
    LET D == DOMAIN h.blocks IN
    /\ h = [blocks |-> h.blocks, used |-> h.used]
    /\ h.blocks \in [D -> Blocks] /\ D \subseteq Nat /\ IsFiniteSet(D)
    /\ 0 \in D /\ h.blocks[0].prev = NULL
    /\ \A a \in D : /\ Ends(h, a) <= Total
                    /\ \A b \in D : a < b => Ends(h, a) <= b
                    /\ IF Ends(h, a) = Total THEN h.blocks[a].next = NULL
                       ELSE h.blocks[a].next = Ends(h, a) /\ Ends(h, a) \in D /\ h.blocks[Ends(h, a)].prev = a
    /\ \A a \in D \ {0} : h.blocks[a].prev \in D /\ Ends(h, h.blocks[a].prev) = a
    /\ h.used = Cardinality(InUse(h))
\* Only next to block a may two free blocks lie side by side.
ApartBut(h, S) == \A b \in DOMAIN h.blocks \ S : h.blocks[b].free => ~Followed(h, b)

\* Bytes lo up to hi come to a set, or leave it.
LEMMA BytesCounted ==
  ASSUME NEW lo \in Nat, NEW hi \in Nat, lo <= hi, NEW S, IsFiniteSet(S), \A x \in lo .. hi - 1 : x \notin S
  PROVE  IsFiniteSet(S \cup (lo .. hi - 1)) /\ Cardinality(S \cup (lo .. hi - 1)) = Cardinality(S) + (hi - lo)
<1> DEFINE I == lo .. hi - 1
<1>1. IsFiniteSet(I) /\ Cardinality(I) = hi - lo
  <2>1. IsFiniteSet(I) /\ Cardinality(I) = IF lo > hi - 1 THEN 0 ELSE hi - 1 - lo + 1
    <3>1. lo \in Int /\ hi - 1 \in Int OBVIOUS
    <3> QED BY <3>1, FS_Interval, Zenon
  <2> HIDE DEF I
  <2> QED BY <2>1
<1>2. S \cap I = {} OBVIOUS
<1> HIDE DEF I
<1>3. IsFiniteSet(S \cup I) /\ Cardinality(S \cup I) = Cardinality(S) + Cardinality(I) - Cardinality(S \cap I)
  BY <1>1, FS_Union
<1>4. Cardinality(S \cap I) = 0 BY <1>2, FS_EmptySet
<1>5. Cardinality(S) \in Nat BY FS_CardinalityType
<1> QED BY <1>1, <1>3, <1>4, <1>5 DEF I

LEMMA BytesFrom ==
  ASSUME NEW lo \in Nat, NEW k \in Nat, NEW S, IsFiniteSet(S), \A x \in lo .. lo + k - 1 : x \notin S
  PROVE  IsFiniteSet(S \cup (lo .. lo + k - 1)) /\ Cardinality(S \cup (lo .. lo + k - 1)) = Cardinality(S) + k
<1>1. PICK hi \in Nat : hi = lo + k OBVIOUS
<1>2. lo <= hi /\ hi - lo = k /\ \A x \in lo .. hi - 1 : x \notin S BY <1>1
<1>3. IsFiniteSet(S \cup (lo .. hi - 1)) /\ Cardinality(S \cup (lo .. hi - 1)) = Cardinality(S) + (hi - lo)
  BY <1>2, BytesCounted, Zenon
<1> QED BY <1>1, <1>2, <1>3

LEMMA InUseFinite ==
  ASSUME HeapSound, NEW h
  PROVE  IsFiniteSet(InUse(h)) /\ InUse(h) \subseteq 0 .. Total - 1
<1>1. InUse(h) \subseteq 0 .. Total - 1 BY DEF InUse
<1>2. IsFiniteSet(0 .. Total - 1)
  <2>1. 0 \in Int /\ Total - 1 \in Int BY DEF HeapSound
  <2> QED BY <2>1, FS_Interval, Zenon
<1> QED BY <1>1, <1>2, FS_Subset

\* What the list says of a block and its neighbours.
LEMMA WholeFacts ==
  ASSUME HeapSound, NEW h, Whole(h), NEW a \in DOMAIN h.blocks
  PROVE  /\ a \in Nat /\ h.blocks[a] \in Blocks /\ Ends(h, a) \in Nat /\ a + Header <= Ends(h, a) /\ Ends(h, a) <= Total
         /\ \A b \in DOMAIN h.blocks : a < b => Ends(h, a) <= b
         /\ h.blocks[a].next # NULL =>
              /\ h.blocks[a].next \in DOMAIN h.blocks /\ h.blocks[a].next = Ends(h, a)
              /\ h.blocks[h.blocks[a].next].prev = a
         /\ h.blocks[a].next = NULL => Ends(h, a) = Total
<1>1. a \in Nat /\ h.blocks[a] \in Blocks BY DEF Whole
<1>2. Header \in Nat /\ Ends(h, a) \in Nat /\ a + Header <= Ends(h, a) BY <1>1 DEF Ends, Blocks, HeapSound
<1>3. IF Ends(h, a) = Total THEN h.blocks[a].next = NULL
      ELSE h.blocks[a].next = Ends(h, a) /\ Ends(h, a) \in DOMAIN h.blocks /\ h.blocks[Ends(h, a)].prev = a
  BY DEF Whole
<1>4. Ends(h, a) <= Total /\ \A b \in DOMAIN h.blocks : a < b => Ends(h, a) <= b BY DEF Whole
<1> QED BY <1>1, <1>2, <1>3, <1>4 DEF NULL

\* Every block but the first follows another.
LEMMA PrevIs ==
  ASSUME HeapSound, NEW h, Whole(h), NEW a \in DOMAIN h.blocks, NEW b \in DOMAIN h.blocks, Ends(h, b) = a
  PROVE  h.blocks[a].prev = b /\ h.blocks[b].next = a
<1>1. Ends(h, b) # Total
  <2>1. a \in Nat /\ Header \in Nat \ {0} /\ Ends(h, a) <= Total /\ a + Header <= Ends(h, a) /\ Ends(h, a) \in Nat
    BY WholeFacts DEF HeapSound
  <2>2. Total \in Nat BY DEF HeapSound
  <2> QED BY <2>1, <2>2
<1> QED BY <1>1 DEF Whole

\* A heap with the same list and another free bit or two.
LEMMA FlagKeeps ==
  ASSUME HeapSound, NEW h, Whole(h), NEW g, g = [blocks |-> g.blocks, used |-> g.used],
         g.blocks \in [DOMAIN h.blocks -> Blocks],
         \A b \in DOMAIN h.blocks :
            /\ g.blocks[b].size = h.blocks[b].size
            /\ g.blocks[b].next = h.blocks[b].next /\ g.blocks[b].prev = h.blocks[b].prev,
         g.used = Cardinality(InUse(g))
  PROVE  Whole(g)
<1> DEFINE D == DOMAIN h.blocks
<1>1. DOMAIN g.blocks = D OBVIOUS
<1>2. \A b \in D : Ends(g, b) = Ends(h, b) BY DEF Ends
<1>3. /\ D \subseteq Nat /\ IsFiniteSet(D) /\ 0 \in D /\ h.blocks[0].prev = NULL
      /\ \A b \in D : /\ Ends(h, b) <= Total
                      /\ \A c \in D : b < c => Ends(h, b) <= c
                      /\ IF Ends(h, b) = Total THEN h.blocks[b].next = NULL
                         ELSE h.blocks[b].next = Ends(h, b) /\ Ends(h, b) \in D /\ h.blocks[Ends(h, b)].prev = b
      /\ \A b \in D \ {0} : h.blocks[b].prev \in D /\ Ends(h, h.blocks[b].prev) = b BY DEF Whole
<1> HIDE DEF D
<1>4. /\ g.blocks[0].prev = NULL
      /\ \A b \in D : /\ Ends(g, b) <= Total
                      /\ \A c \in D : b < c => Ends(g, b) <= c
                      /\ IF Ends(g, b) = Total THEN g.blocks[b].next = NULL
                         ELSE g.blocks[b].next = Ends(g, b) /\ Ends(g, b) \in D /\ g.blocks[Ends(g, b)].prev = b
      /\ \A b \in D \ {0} : g.blocks[b].prev \in D /\ Ends(g, g.blocks[b].prev) = b BY <1>2, <1>3 DEF D
<1> QED BY <1>1, <1>3, <1>4 DEF Whole, D

\* The area of a block, and that no byte of it is another's.
LEMMA AreasApart ==
  ASSUME HeapSound, NEW h, Whole(h), NEW a \in DOMAIN h.blocks, NEW b \in DOMAIN h.blocks, a # b
  PROVE  \A x \in a .. Ends(h, a) - 1 : x \notin b .. Ends(h, b) - 1
<1>1. /\ a \in Nat /\ b \in Nat /\ Ends(h, a) \in Nat /\ Ends(h, b) \in Nat
      /\ a < b => Ends(h, a) <= b
      /\ b < a => Ends(h, b) <= a BY WholeFacts
<1> QED BY <1>1

LEMMA TakeKeeps ==
  ASSUME HeapSound, NEW h, Whole(h), NEW a \in DOMAIN h.blocks, h.blocks[a].free, ApartBut(h, {a})
  PROVE  LET g == Taken(h, a) IN
         /\ Whole(g) /\ ApartBut(g, {}) /\ DOMAIN g.blocks = DOMAIN h.blocks
         /\ \A b \in DOMAIN h.blocks :
               g.blocks[b].size = h.blocks[b].size /\ g.blocks[b].free = (b # a /\ h.blocks[b].free)
<1> DEFINE u == h.used + h.blocks[a].size
           g == [blocks |-> [h.blocks EXCEPT ![a].free = FALSE], used |-> u]
           I == a + Header .. Ends(h, a) - 1
<1>1. Taken(h, a) = g BY DEF Taken
<1>2. /\ a \in Nat /\ Ends(h, a) \in Nat /\ a + Header <= Ends(h, a) /\ Ends(h, a) <= Total
      /\ h.blocks[a].size = Ends(h, a) - (a + Header) /\ Header \in Nat /\ Total \in Nat
  BY WholeFacts DEF Ends, HeapSound, Whole, Blocks
<1> DEFINE v == [h.blocks[a] EXCEPT !.free = FALSE]
           w == [h.blocks EXCEPT ![a] = v]
<1>10. h.blocks[a] \in Blocks /\ h.blocks \in [DOMAIN h.blocks -> Blocks] BY DEF Whole
<1>11. /\ v \in Blocks /\ v.size = h.blocks[a].size /\ v.next = h.blocks[a].next /\ v.prev = h.blocks[a].prev
       /\ v.free = FALSE BY <1>10 DEF Blocks
<1>12. g = [blocks |-> w, used |-> u] OBVIOUS
<1> HIDE DEF g, v, u
<1>13. g.blocks = w /\ g.used = u /\ g = [blocks |-> g.blocks, used |-> g.used] BY <1>12
<1>14. w \in [DOMAIN h.blocks -> Blocks] /\ \A b \in DOMAIN h.blocks : w[b] = IF b = a THEN v ELSE h.blocks[b]
  BY <1>10, <1>11
<1> HIDE DEF w
<1>15. \A b \in DOMAIN h.blocks :
          /\ g.blocks[b].size = h.blocks[b].size
          /\ g.blocks[b].next = h.blocks[b].next /\ g.blocks[b].prev = h.blocks[b].prev
          /\ g.blocks[b].free = IF b = a THEN FALSE ELSE h.blocks[b].free BY <1>11, <1>13, <1>14
<1>3. \A b \in DOMAIN h.blocks :
         Ends(g, b) = Ends(h, b) /\ (g.blocks[b].free <=> b # a /\ h.blocks[b].free) BY <1>15 DEF Ends
<1>4. DOMAIN g.blocks = DOMAIN h.blocks BY <1>13, <1>14
<1>5. InUse(g) = InUse(h) \cup I
  <2>1. ASSUME NEW x \in 0 .. Total - 1
        PROVE (\E b \in DOMAIN h.blocks : h.blocks[b].free /\ x \in b + Header .. Ends(h, b) - 1)
              <=> x \in I \/ \E b \in DOMAIN g.blocks : g.blocks[b].free /\ x \in b + Header .. Ends(g, b) - 1
    BY <1>3, <1>4
  <2>2. ASSUME NEW x \in I, NEW b \in DOMAIN g.blocks, g.blocks[b].free PROVE x \notin b + Header .. Ends(g, b) - 1
    <3>1. b # a /\ b \in DOMAIN h.blocks /\ Ends(g, b) = Ends(h, b) BY <1>3, <1>4, <2>2
    <3>2. x \in a .. Ends(h, a) - 1 BY <1>2
    <3>3. x \notin b .. Ends(h, b) - 1 BY <3>1, <3>2, AreasApart
    <3>4. b \in Nat BY <3>1, WholeFacts
    <3> QED BY <1>2, <3>1, <3>3, <3>4
  <2>3. I \subseteq 0 .. Total - 1 BY <1>2
  <2>4. InUse(h) \subseteq 0 .. Total - 1 /\ InUse(g) \subseteq 0 .. Total - 1 BY InUseFinite
  <2>5. ASSUME NEW x \in 0 .. Total - 1 PROVE x \in InUse(g) <=> x \in InUse(h) \/ x \in I
    <3> HIDE DEF I
    <3>1. ~(x \in I /\ \E b \in DOMAIN g.blocks : g.blocks[b].free /\ x \in b + Header .. Ends(g, b) - 1) BY <2>2
    <3> QED BY <2>1, <3>1 DEF InUse
  <2> HIDE DEF I
  <2>6. \A x \in 0 .. Total - 1 : x \in InUse(g) <=> x \in InUse(h) \cup I BY <2>5
  <2>7. InUse(h) \cup I \subseteq 0 .. Total - 1 BY <2>3, <2>4
  <2> QED BY <2>4, <2>6, <2>7, Zenon
<1>6. u = Cardinality(InUse(g))
  <2>1. \A x \in I : x \notin InUse(h)
    <3> SUFFICES ASSUME NEW x \in I, x \in InUse(h) PROVE FALSE OBVIOUS
    <3> QED BY DEF InUse
  <2>2. IsFiniteSet(InUse(h)) BY InUseFinite
  <2>3. Cardinality(InUse(h) \cup I) = Cardinality(InUse(h)) + (Ends(h, a) - (a + Header))
    <3>1. a + Header \in Nat BY <1>2
    <3> QED BY <1>2, <2>1, <2>2, <3>1, BytesCounted
  <2>4. h.used = Cardinality(InUse(h)) BY DEF Whole
  <2> QED BY <1>2, <1>5, <2>3, <2>4 DEF u
<1>7. /\ Whole(g)
      /\ \A b \in DOMAIN h.blocks :
               /\ g.blocks[b].size = h.blocks[b].size /\ g.blocks[b].next = h.blocks[b].next
               /\ g.blocks[b].free = IF b = a THEN FALSE ELSE h.blocks[b].free
  BY <1>6, <1>13, <1>14, <1>15, FlagKeeps, ZenonT(60)
<1>8. ApartBut(g, {})
  <2> SUFFICES ASSUME NEW b \in DOMAIN g.blocks, g.blocks[b].free, Followed(g, b) PROVE FALSE BY DEF ApartBut
  <2>1. b \in DOMAIN h.blocks /\ b # a /\ h.blocks[b].free BY <1>4, <1>7
  <2>2. g.blocks[b].next = h.blocks[b].next /\ h.blocks[b].next # NULL BY <1>7, <2>1 DEF Followed
  <2>3. h.blocks[b].next \in DOMAIN h.blocks BY <2>1, <2>2, WholeFacts
  <2>4. h.blocks[h.blocks[b].next].free BY <1>7, <2>2, <2>3 DEF Followed
  <2> QED BY <2>1, <2>2, <2>4 DEF ApartBut, Followed
<1>9. \A b \in DOMAIN h.blocks : h.blocks[b].free \in BOOLEAN BY WholeFacts DEF Blocks
<1> QED BY <1>1, <1>4, <1>7, <1>8, <1>9

\* What kfree leaves before it merges.
FreedTo(g, h, a) ==
    /\ Whole(g) /\ ApartBut(g, {a, h.blocks[a].prev}) /\ DOMAIN g.blocks = DOMAIN h.blocks
    /\ \A b \in DOMAIN h.blocks :
          /\ g.blocks[b].size = h.blocks[b].size /\ g.blocks[b].free = (b = a \/ h.blocks[b].free)
          /\ g.blocks[b].next = h.blocks[b].next /\ g.blocks[b].prev = h.blocks[b].prev
LEMMA FreeKeeps ==
  ASSUME HeapSound, NEW h, Whole(h), NEW a \in DOMAIN h.blocks, ~h.blocks[a].free, ApartBut(h, {})
  PROVE  FreedTo(Freed(h, a), h, a)
<1> DEFINE u == h.used - h.blocks[a].size
           g == [blocks |-> [h.blocks EXCEPT ![a].free = TRUE], used |-> u]
           I == a + Header .. Ends(h, a) - 1
<1>1. Freed(h, a) = g BY DEF Freed
<1>2. /\ a \in Nat /\ Ends(h, a) \in Nat /\ a + Header <= Ends(h, a) /\ Ends(h, a) <= Total
      /\ h.blocks[a].size = Ends(h, a) - (a + Header) /\ Header \in Nat /\ Total \in Nat
  BY WholeFacts DEF Ends, HeapSound, Whole, Blocks
<1> DEFINE v == [h.blocks[a] EXCEPT !.free = TRUE]
           w == [h.blocks EXCEPT ![a] = v]
<1>10. h.blocks[a] \in Blocks /\ h.blocks \in [DOMAIN h.blocks -> Blocks] BY DEF Whole
<1>11. /\ v \in Blocks /\ v.size = h.blocks[a].size /\ v.next = h.blocks[a].next /\ v.prev = h.blocks[a].prev
       /\ v.free = TRUE BY <1>10 DEF Blocks
<1>12. g = [blocks |-> w, used |-> u] OBVIOUS
<1> HIDE DEF g, v, u
<1>13. g.blocks = w /\ g.used = u /\ g = [blocks |-> g.blocks, used |-> g.used] BY <1>12
<1>14. w \in [DOMAIN h.blocks -> Blocks] /\ \A b \in DOMAIN h.blocks : w[b] = IF b = a THEN v ELSE h.blocks[b]
  BY <1>10, <1>11
<1> HIDE DEF w
<1>15. \A b \in DOMAIN h.blocks :
          /\ g.blocks[b].size = h.blocks[b].size
          /\ g.blocks[b].next = h.blocks[b].next /\ g.blocks[b].prev = h.blocks[b].prev
          /\ g.blocks[b].free = IF b = a THEN TRUE ELSE h.blocks[b].free BY <1>11, <1>13, <1>14
<1>3. \A b \in DOMAIN h.blocks :
         Ends(g, b) = Ends(h, b) /\ (g.blocks[b].free <=> b = a \/ h.blocks[b].free) BY <1>15 DEF Ends
<1>4. DOMAIN g.blocks = DOMAIN h.blocks BY <1>13, <1>14
<1>5. InUse(h) = InUse(g) \cup I
  <2>1. ASSUME NEW x \in 0 .. Total - 1
        PROVE (\E b \in DOMAIN g.blocks : g.blocks[b].free /\ x \in b + Header .. Ends(g, b) - 1)
              <=> x \in I \/ \E b \in DOMAIN h.blocks : h.blocks[b].free /\ x \in b + Header .. Ends(h, b) - 1
    BY <1>3, <1>4
  <2>2. ASSUME NEW x \in I, NEW b \in DOMAIN h.blocks, h.blocks[b].free PROVE x \notin b + Header .. Ends(h, b) - 1
    <3>1. b # a BY <2>2
    <3>2. x \in a .. Ends(h, a) - 1 BY <1>2
    <3>3. x \notin b .. Ends(h, b) - 1 BY <3>1, <3>2, AreasApart
    <3>4. b \in Nat BY WholeFacts
    <3> QED BY <1>2, <3>3, <3>4
  <2>3. I \subseteq 0 .. Total - 1 BY <1>2
  <2>4. InUse(h) \subseteq 0 .. Total - 1 /\ InUse(g) \subseteq 0 .. Total - 1 BY InUseFinite
  <2>5. ASSUME NEW x \in 0 .. Total - 1 PROVE x \in InUse(h) <=> x \in InUse(g) \/ x \in I
    <3> HIDE DEF I
    <3>1. ~(x \in I /\ \E b \in DOMAIN h.blocks : h.blocks[b].free /\ x \in b + Header .. Ends(h, b) - 1) BY <2>2
    <3> QED BY <2>1, <3>1 DEF InUse
  <2> HIDE DEF I
  <2>6. \A x \in 0 .. Total - 1 : x \in InUse(h) <=> x \in InUse(g) \cup I BY <2>5
  <2>7. InUse(g) \cup I \subseteq 0 .. Total - 1 BY <2>3, <2>4
  <2> QED BY <2>4, <2>6, <2>7, Zenon
<1>6. u = Cardinality(InUse(g))
  <2>1. \A x \in I : x \notin InUse(g)
    <3> SUFFICES ASSUME NEW x \in I, x \in InUse(g) PROVE FALSE OBVIOUS
    <3>1. a \in DOMAIN g.blocks /\ g.blocks[a].free /\ x \in a + Header .. Ends(g, a) - 1 BY <1>3, <1>4
    <3> HIDE DEF I
    <3> QED BY <3>1 DEF InUse
  <2>2. IsFiniteSet(InUse(g)) BY InUseFinite
  <2>3. Cardinality(InUse(g) \cup I) = Cardinality(InUse(g)) + (Ends(h, a) - (a + Header))
    <3>1. a + Header \in Nat BY <1>2
    <3> QED BY <1>2, <2>1, <2>2, <3>1, BytesCounted
  <2>4. h.used = Cardinality(InUse(h)) BY DEF Whole
  <2>5. Cardinality(InUse(g)) \in Nat BY <2>2, FS_CardinalityType
  <2> QED BY <1>2, <1>5, <2>3, <2>4, <2>5 DEF u
<1>7. /\ Whole(g)
      /\ \A b \in DOMAIN h.blocks :
               /\ g.blocks[b].size = h.blocks[b].size /\ g.blocks[b].next = h.blocks[b].next
               /\ g.blocks[b].prev = h.blocks[b].prev
               /\ g.blocks[b].free = IF b = a THEN TRUE ELSE h.blocks[b].free
  BY <1>6, <1>13, <1>14, <1>15, FlagKeeps, ZenonT(60)
<1>8. ApartBut(g, {a, h.blocks[a].prev})
  <2> SUFFICES ASSUME NEW b \in DOMAIN g.blocks, b # a, b # h.blocks[a].prev, g.blocks[b].free, Followed(g, b)
               PROVE FALSE BY DEF ApartBut
  <2>1. b \in DOMAIN h.blocks /\ b # a /\ h.blocks[b].free BY <1>4, <1>7
  <2>2. g.blocks[b].next = h.blocks[b].next /\ h.blocks[b].next # NULL BY <1>7, <2>1 DEF Followed
  <2>3. h.blocks[b].next \in DOMAIN h.blocks /\ h.blocks[h.blocks[b].next].prev = b BY <2>1, <2>2, WholeFacts
  <2>5. h.blocks[b].next # a BY <2>3
  <2>4. h.blocks[h.blocks[b].next].free BY <1>7, <2>2, <2>3, <2>5 DEF Followed
  <2> QED BY <2>1, <2>2, <2>4 DEF ApartBut, Followed
<1>9. \A b \in DOMAIN h.blocks : h.blocks[b].free \in BOOLEAN BY WholeFacts DEF Blocks
<1>16. FreedTo(g, h, a) BY <1>4, <1>7, <1>8, <1>9 DEF FreedTo
<1> QED BY <1>1, <1>16

\* What split leaves: the new block at n, between a and what followed it.
LEMMA SplitFacts ==
  ASSUME HeapSound, NEW h, Whole(h), NEW a \in DOMAIN h.blocks, h.blocks[a].free, NEW size \in Nat,
         h.blocks[a].size >= size + Header + 16, NEW g, g = Split(h, a, size), NEW n, n = a + Header + size
  PROVE  /\ n \in Nat /\ n \notin DOMAIN h.blocks /\ a < n /\ n + Header + 16 <= Ends(h, a)
         /\ g = [blocks |-> g.blocks, used |-> g.used] /\ g.used = h.used + Header
         /\ DOMAIN g.blocks = DOMAIN h.blocks \cup {n} /\ g.blocks \in [DOMAIN g.blocks -> Blocks]
         /\ Ends(g, a) = n /\ g.blocks[a].next = n /\ g.blocks[a].prev = h.blocks[a].prev
         /\ Ends(g, n) = Ends(h, a) /\ g.blocks[n].next = h.blocks[a].next /\ g.blocks[n].prev = a
         /\ g.blocks[a].size = size /\ g.blocks[n].free /\ g.blocks[a].free
         /\ \A c \in DOMAIN h.blocks \ {a} :
               /\ g.blocks[c].size = h.blocks[c].size /\ Ends(g, c) = Ends(h, c)
               /\ g.blocks[c].next = h.blocks[c].next /\ g.blocks[c].free = h.blocks[c].free
               /\ g.blocks[c].prev = IF c = h.blocks[a].next THEN n ELSE h.blocks[c].prev
<1> DEFINE D == DOMAIN h.blocks
           b == h.blocks[a]
           x == [size |-> b.size - size - Header, next |-> b.next, prev |-> a, free |-> TRUE]
           y == [b EXCEPT !.next = n, !.size = size]
           z(c) == [h.blocks[c] EXCEPT !.prev = n]
           w == [c \in D \cup {n} |-> IF c = n THEN x ELSE IF c = a THEN y
                                      ELSE IF c = b.next THEN z(c) ELSE h.blocks[c]]
<1>1. g = [blocks |-> w, used |-> h.used + Header]
  <2>1. b.size \in Nat /\ Header \in Nat BY DEF Whole, Blocks, HeapSound
  <2>2. ~(b.size < size + Header + 16) BY <2>1
  <2> QED BY <2>2 DEF Split
<1>2. /\ a \in Nat /\ Header \in Nat \ {0} /\ b \in Blocks /\ b.size \in Nat
      /\ Ends(h, a) = a + Header + b.size
      /\ \A c \in D : c \in Nat /\ h.blocks[c] \in Blocks
      /\ \A c \in D : a < c => Ends(h, a) <= c BY WholeFacts DEF HeapSound, Blocks, Ends
<1>3. n \in Nat /\ a < n /\ n + Header + 16 <= Ends(h, a) BY <1>2
<1>4. n \notin D
  <2> SUFFICES ASSUME n \in D PROVE FALSE OBVIOUS
  <2>1. Ends(h, a) <= n BY <1>2, <1>3
  <2> QED BY <1>2, <1>3, <2>1
<1>5. /\ x \in Blocks /\ x.size = b.size - size - Header /\ x.next = b.next /\ x.prev = a /\ x.free BY <1>2 DEF Blocks
<1>6. /\ y \in Blocks /\ y.size = size /\ y.next = n /\ y.prev = b.prev /\ y.free = b.free
  <2> DEFINE v == [b EXCEPT !.next = n]
  <2> HIDE DEF b
  <2>1. b \in Blocks /\ n \in Int /\ size \in Nat BY <1>2, <1>3 DEF b
  <2>2. /\ v \in Blocks /\ v.size = b.size /\ v.next = n /\ v.prev = b.prev /\ v.free = b.free BY <2>1 DEF Blocks
  <2>3. y = [v EXCEPT !.size = size] OBVIOUS
  <2> HIDE DEF v, y
  <2> QED BY <2>1, <2>2, <2>3 DEF Blocks
<1>7. ASSUME NEW c \in D
      PROVE  /\ z(c) \in Blocks /\ z(c).size = h.blocks[c].size /\ z(c).next = h.blocks[c].next /\ z(c).prev = n
             /\ z(c).free = h.blocks[c].free
  <2>1. h.blocks[c] \in Blocks /\ n \in Int BY <1>2, <1>3
  <2> QED BY <2>1 DEF Blocks
<1> HIDE DEF x, y, z
<1>8. /\ DOMAIN w = D \cup {n} /\ w[n] = x /\ w[a] = y
      /\ \A c \in D \ {a} : w[c] = IF c = b.next THEN z(c) ELSE h.blocks[c] BY <1>3, <1>4
<1>9. w \in [D \cup {n} -> Blocks] BY <1>2, <1>5, <1>6, <1>7
<1> HIDE DEF w
<1>10. g.blocks = w /\ g.used = h.used + Header /\ g = [blocks |-> g.blocks, used |-> g.used] BY <1>1
<1>11. Ends(g, a) = n /\ Ends(g, n) = Ends(h, a) BY <1>2, <1>3, <1>5, <1>6, <1>8, <1>10 DEF Ends
<1>12. ASSUME NEW c \in D \ {a}
       PROVE  /\ g.blocks[c].size = h.blocks[c].size /\ Ends(g, c) = Ends(h, c)
              /\ g.blocks[c].next = h.blocks[c].next /\ g.blocks[c].free = h.blocks[c].free
              /\ g.blocks[c].prev = IF c = b.next THEN n ELSE h.blocks[c].prev
  <2>1. /\ g.blocks[c].size = h.blocks[c].size
        /\ g.blocks[c].next = h.blocks[c].next /\ g.blocks[c].free = h.blocks[c].free
        /\ g.blocks[c].prev = IF c = b.next THEN n ELSE h.blocks[c].prev BY <1>7, <1>8, <1>10
  <2> QED BY <2>1 DEF Ends
<1>13. DOMAIN g.blocks = D \cup {n} /\ g.blocks \in [DOMAIN g.blocks -> Blocks] BY <1>8, <1>9, <1>10
<1>14. /\ g.blocks[a].next = n /\ g.blocks[a].prev = b.prev /\ g.blocks[a].size = size /\ g.blocks[a].free
       /\ g.blocks[n].next = b.next /\ g.blocks[n].prev = a /\ g.blocks[n].free BY <1>5, <1>6, <1>8, <1>10
<1> QED BY <1>3, <1>4, <1>10, <1>11, <1>12, <1>13, <1>14

\* What split keeps: every other block is as it was, and what is new is free.
SplitInto(g, h, a, size) ==
    /\ Whole(g) /\ ApartBut(g, {a}) /\ DOMAIN h.blocks \subseteq DOMAIN g.blocks
    /\ g.blocks[a].free /\ size <= g.blocks[a].size
    /\ \A c \in DOMAIN h.blocks \ {a} :
          g.blocks[c].size = h.blocks[c].size /\ g.blocks[c].free = h.blocks[c].free
    /\ \A c \in DOMAIN g.blocks \ DOMAIN h.blocks : g.blocks[c].free
LEMMA SplitKeeps ==
  ASSUME HeapSound, NEW h, Whole(h), ApartBut(h, {}), NEW a \in DOMAIN h.blocks, h.blocks[a].free,
         NEW size \in Nat, size <= h.blocks[a].size, NEW g, g = Split(h, a, size)
  PROVE  SplitInto(g, h, a, size)
<1> DEFINE D == DOMAIN h.blocks
           b == h.blocks[a]
           n == a + Header + size
           E == DOMAIN g.blocks
<1>0. b.size \in Nat /\ Header \in Nat \ {0} /\ Total \in Nat BY WholeFacts DEF Blocks, HeapSound
<1>1. CASE b.size < size + Header + 16
  <2>1. g = h BY <1>1 DEF Split
  <2> QED BY <2>1 DEF ApartBut, SplitInto
<1>2. CASE ~(b.size < size + Header + 16)
  <2>1. b.size >= size + Header + 16 BY <1>0, <1>2
  <2>2. /\ n \in Nat /\ n \notin D /\ a < n /\ n + Header + 16 <= Ends(h, a)
        /\ g = [blocks |-> g.blocks, used |-> g.used] /\ g.used = h.used + Header
        /\ E = D \cup {n} /\ g.blocks \in [E -> Blocks]
        /\ Ends(g, a) = n /\ g.blocks[a].next = n /\ g.blocks[a].prev = b.prev
        /\ Ends(g, n) = Ends(h, a) /\ g.blocks[n].next = b.next /\ g.blocks[n].prev = a
        /\ g.blocks[a].size = size /\ g.blocks[n].free /\ g.blocks[a].free
        /\ \A c \in D \ {a} :
              /\ g.blocks[c].size = h.blocks[c].size /\ Ends(g, c) = Ends(h, c)
              /\ g.blocks[c].next = h.blocks[c].next /\ g.blocks[c].free = h.blocks[c].free
              /\ g.blocks[c].prev = IF c = b.next THEN n ELSE h.blocks[c].prev BY <2>1, SplitFacts
  <2>3. \A c \in D : /\ c \in Nat /\ Ends(h, c) \in Nat /\ c + Header <= Ends(h, c) /\ Ends(h, c) <= Total
                     /\ \A d \in D : c < d => Ends(h, c) <= d BY WholeFacts
  <2>4. \A c \in D : IF Ends(h, c) = Total THEN h.blocks[c].next = NULL
           ELSE h.blocks[c].next = Ends(h, c) /\ Ends(h, c) \in D /\ h.blocks[Ends(h, c)].prev = c BY DEF Whole
  <2>5. \A c \in D \ {0} : h.blocks[c].prev \in D /\ Ends(h, h.blocks[c].prev) = c BY DEF Whole
  <2>6. 0 \in D /\ h.blocks[0].prev = NULL /\ IsFiniteSet(D) /\ D \subseteq Nat BY DEF Whole
  <2>7. IsFiniteSet(E) /\ E \subseteq Nat /\ 0 \in E
    <3>1. IsFiniteSet({n}) BY FS_Singleton
    <3>2. IsFiniteSet(D \cup {n}) BY <2>6, <3>1, FS_Union
    <3> QED BY <2>2, <2>6, <3>2
  <2>20. b.next # 0 BY <1>0, <2>3, <2>4 DEF NULL
  <2> HIDE DEF n, E, b
  <2>8. ASSUME NEW c \in E
        PROVE  /\ Ends(g, c) <= Total
               /\ \A d \in E : c < d => Ends(g, c) <= d
               /\ IF Ends(g, c) = Total THEN g.blocks[c].next = NULL
                  ELSE g.blocks[c].next = Ends(g, c) /\ Ends(g, c) \in E /\ g.blocks[Ends(g, c)].prev = c
    <3>1. CASE c = n
      <4>1. Ends(g, c) = Ends(h, a) /\ g.blocks[c].next = b.next BY <2>2, <3>1
      <4>2. ASSUME NEW d \in E, c < d PROVE Ends(g, c) <= d
        <5>1. d \in D BY <1>0, <2>2, <2>3, <3>1, <4>2
        <5>2. a < d BY <2>2, <2>3, <3>1, <4>2, <5>1
        <5> QED BY <2>3, <4>1, <5>1, <5>2
      <4>3. Ends(h, a) # Total => /\ b.next = Ends(h, a) /\ Ends(h, a) \in D /\ Ends(h, a) # a
        BY <1>0, <2>3, <2>4 DEF b
      <4>4. Ends(h, a) # Total => g.blocks[Ends(h, a)].prev = n BY <2>2, <4>3
      <4>5. Ends(h, a) = Total => b.next = NULL BY <2>4 DEF b
      <4> QED BY <2>2, <2>3, <3>1, <4>1, <4>2, <4>3, <4>4, <4>5
    <3>2. CASE c = a
      <4>1. Ends(g, c) = n /\ g.blocks[c].next = n /\ n \in E /\ g.blocks[n].prev = c BY <2>2, <3>2
      <4>2. n < Total BY <1>0, <2>2, <2>3
      <4>3. ASSUME NEW d \in E, c < d PROVE n <= d
        <5>1. CASE d = n BY <2>2, <5>1
        <5>2. CASE d # n
          <6>1. d \in D BY <2>2, <5>2
          <6>2. Ends(h, a) <= d BY <2>3, <3>2, <4>3, <6>1
          <6> QED BY <1>0, <2>2, <2>3, <6>1, <6>2
        <5> QED BY <5>1, <5>2
      <4> QED BY <1>0, <2>2, <4>1, <4>2, <4>3
    <3>3. CASE c # a /\ c # n
      <4>1. c \in D \ {a} BY <2>2, <3>3
      <4>2. Ends(g, c) = Ends(h, c) /\ g.blocks[c].next = h.blocks[c].next BY <2>2, <4>1
      <4>3. ASSUME NEW d \in E, c < d PROVE Ends(h, c) <= d
        <5>1. CASE d = n
          <6>1. c < a BY <1>0, <2>2, <2>3, <4>1, <4>3, <5>1
          <6> QED BY <2>2, <2>3, <4>1, <5>1, <6>1
        <5>2. CASE d # n BY <2>2, <2>3, <4>1, <4>3, <5>2
        <5> QED BY <5>1, <5>2
      <4>4. Ends(h, c) # Total => g.blocks[Ends(h, c)].prev = c
        <5> SUFFICES ASSUME Ends(h, c) # Total PROVE g.blocks[Ends(h, c)].prev = c OBVIOUS
        <5>1. Ends(h, c) \in D /\ h.blocks[Ends(h, c)].prev = c BY <2>4, <4>1
        <5>2. Ends(h, c) # b.next
          <6> SUFFICES ASSUME Ends(h, c) = b.next PROVE FALSE OBVIOUS
          <6>1. b.next # NULL BY <2>3, <4>1 DEF NULL
          <6>2. b.next = Ends(h, a) /\ h.blocks[Ends(h, a)].prev = a BY <2>4, <6>1 DEF b
          <6> QED BY <4>1, <5>1, <6>2
        <5>3. CASE Ends(h, c) = a BY <2>2, <5>1, <5>3 DEF b
        <5>4. CASE Ends(h, c) # a BY <2>2, <5>1, <5>2, <5>4
        <5> QED BY <5>3, <5>4
      <4>5. Ends(h, c) # Total => h.blocks[c].next = Ends(h, c) /\ Ends(h, c) \in E BY <2>2, <2>4, <4>1
      <4>6. Ends(h, c) = Total => h.blocks[c].next = NULL BY <2>4, <4>1
      <4>7. Ends(h, c) <= Total BY <2>3, <4>1
      <4> QED BY <4>2, <4>3, <4>4, <4>5, <4>6, <4>7
    <3> QED BY <3>1, <3>2, <3>3
  <2>9. ASSUME NEW c \in E \ {0} PROVE g.blocks[c].prev \in E /\ Ends(g, g.blocks[c].prev) = c
    <3>1. CASE c = n BY <2>2, <3>1
    <3>2. CASE c # n /\ c = b.next /\ c # a
      <4>1. c \in D \ {a} BY <2>2, <3>2
      <4>2. g.blocks[c].prev = n BY <2>2, <3>2, <4>1
      <4>3. b.next # NULL BY <2>3, <3>2, <4>1 DEF NULL
      <4>4. c = Ends(h, a) BY <2>4, <3>2, <4>3 DEF b
      <4> QED BY <2>2, <4>2, <4>4
    <3>3. CASE c # n /\ (c # b.next \/ c = a)
      <4>1. c \in D BY <2>2, <3>3
      <4>2. g.blocks[c].prev = h.blocks[c].prev
        <5>1. CASE c = a BY <2>2, <5>1 DEF b
        <5>2. CASE c # a BY <2>2, <3>3, <4>1, <5>2
        <5> QED BY <5>1, <5>2
      <4>3. h.blocks[c].prev \in D /\ Ends(h, h.blocks[c].prev) = c BY <2>5, <4>1
      <4>4. h.blocks[c].prev # a
        <5> SUFFICES ASSUME h.blocks[c].prev = a PROVE FALSE OBVIOUS
        <5>1. b.next = c /\ a # c BY <1>0, <2>3, <4>1, <4>3, PrevIs DEF b
        <5> QED BY <3>3, <5>1
      <4> QED BY <2>2, <4>2, <4>3, <4>4
    <3> QED BY <3>1, <3>2, <3>3
  <2>10. g.blocks[0].prev = NULL
    <3>1. 0 # n BY <1>0, <2>2, <2>3
    <3>2. 0 # b.next BY <2>20
    <3>3. CASE a = 0 BY <2>2, <2>6, <3>3 DEF b
    <3>4. CASE a # 0 BY <2>2, <2>6, <3>2, <3>4
    <3> QED BY <3>3, <3>4
  <2>11. InUse(g) = InUse(h) \cup (n .. n + Header - 1)
    <3> DEFINE I == n .. n + Header - 1
               A(c) == c + Header .. Ends(h, c) - 1
               B(c) == c + Header .. Ends(g, c) - 1
    <3>1. ASSUME NEW x \in 0 .. Total - 1
          PROVE  /\ x \in A(a) <=> x \in B(a) \/ x \in B(n) \/ x \in I
                 /\ ~(x \in I /\ x \in B(a)) /\ ~(x \in I /\ x \in B(n))
                 /\ x \in I => x \in A(a)
      <4>1. /\ a \in Nat /\ n \in Nat /\ Header \in Nat /\ Ends(h, a) \in Nat /\ Ends(g, a) = n
            /\ Ends(g, n) = Ends(h, a) /\ n + Header <= Ends(h, a) /\ a + Header <= n
        <5>1. a + Header <= n BY <1>0, <2>3 DEF n
        <5> QED BY <1>0, <2>2, <2>3, <5>1
      <4> QED BY <4>1
    <3>2. \A c \in D \ {a} : B(c) = A(c) BY <2>2
    <3>3. ASSUME NEW x \in 0 .. Total - 1, NEW c \in D \ {a}, x \in I PROVE x \notin A(c)
      <4>1. x \in a .. Ends(h, a) - 1 BY <1>0, <2>2, <2>3, <3>3
      <4>2. x \notin c .. Ends(h, c) - 1 BY <4>1, AreasApart
      <4> QED BY <1>0, <2>3, <4>2
    <3>4. I \subseteq 0 .. Total - 1 BY <1>0, <2>2, <2>3
    <3>5. InUse(h) \subseteq 0 .. Total - 1 /\ InUse(g) \subseteq 0 .. Total - 1 BY InUseFinite
    <3>6. \A x \in 0 .. Total - 1 : /\ x \in InUse(h) <=> ~\E c \in D : h.blocks[c].free /\ x \in A(c)
                                    /\ x \in InUse(g) <=> ~\E c \in E : g.blocks[c].free /\ x \in B(c) BY DEF InUse, E
    <3>7. \A c \in D \ {a} : g.blocks[c].free = h.blocks[c].free BY <2>2
    <3>8. E = D \cup {n} /\ a \in D /\ n \notin D /\ b.free /\ g.blocks[a].free /\ g.blocks[n].free BY <2>2 DEF b
    <3> HIDE DEF I, A, B, D
    <3>9. ASSUME NEW x \in 0 .. Total - 1 PROVE x \in InUse(g) <=> x \in InUse(h) \/ x \in I
      <4>1. (\E c \in E : g.blocks[c].free /\ x \in B(c))
              <=> x \in B(a) \/ x \in B(n) \/ \E c \in D \ {a} : h.blocks[c].free /\ x \in A(c) BY <3>2, <3>7, <3>8
      <4>2. (\E c \in D : h.blocks[c].free /\ x \in A(c))
              <=> x \in A(a) \/ \E c \in D \ {a} : h.blocks[c].free /\ x \in A(c) BY <3>8 DEF b
      <4> QED BY <3>1, <3>3, <3>6, <4>1, <4>2
    <3>10. \A x \in 0 .. Total - 1 : x \in InUse(g) <=> x \in InUse(h) \cup I BY <3>9
    <3>11. InUse(h) \cup I \subseteq 0 .. Total - 1 BY <3>4, <3>5
    <3>12. InUse(g) = InUse(h) \cup I BY <3>5, <3>10, <3>11, Zenon
    <3> QED BY <3>12 DEF I
  <2>12. g.used = Cardinality(InUse(g))
    <3>1. \A x \in n .. n + Header - 1 : x \notin InUse(h)
      <4> SUFFICES ASSUME NEW x \in n .. n + Header - 1, x \in InUse(h) PROVE FALSE OBVIOUS
      <4>1. x \in a + Header .. Ends(h, a) - 1 BY <1>0, <2>2, <2>3 DEF n
      <4> QED BY <4>1 DEF InUse
    <3>2. Cardinality(InUse(h) \cup (n .. n + Header - 1)) = Cardinality(InUse(h)) + Header
      <4>1. n \in Nat /\ Header \in Nat /\ IsFiniteSet(InUse(h)) BY <1>0, <2>2, InUseFinite
      <4> QED BY <3>1, <4>1, BytesFrom
    <3>3. h.used = Cardinality(InUse(h)) BY DEF Whole
    <3>4. Cardinality(InUse(h)) \in Nat BY InUseFinite, FS_CardinalityType
    <3>5. g.used = h.used + Header BY <2>2
    <3> QED BY <2>11, <3>2, <3>3, <3>5
  <2>13. Whole(g) BY <2>2, <2>7, <2>8, <2>9, <2>10, <2>12 DEF Whole, E
  <2>14. ApartBut(g, {a})
    <3> SUFFICES ASSUME NEW c \in E \ {a}, g.blocks[c].free, Followed(g, c) PROVE FALSE BY DEF ApartBut, E
    <3>1. \A d \in D : g.blocks[d].free = h.blocks[d].free
      <4>1. h.blocks[a].free = TRUE BY WholeFacts DEF Blocks
      <4>2. g.blocks[a].free = TRUE BY <2>2 DEF Blocks, E
      <4> QED BY <2>2, <4>1, <4>2
    <3> DEFINE d == IF c = n THEN a ELSE c
    <3>2. d \in D /\ h.blocks[d].free /\ g.blocks[c].next = h.blocks[d].next BY <2>2, <3>1 DEF b
    <3>3. h.blocks[d].next # NULL /\ g.blocks[h.blocks[d].next].free BY <3>2 DEF Followed
    <3> HIDE DEF d
    <3>4. h.blocks[d].next \in D BY <3>2, <3>3, WholeFacts
    <3> QED BY <3>1, <3>2, <3>3, <3>4 DEF ApartBut, Followed
  <2>15. \A c \in E \ D : g.blocks[c].free BY <2>2
  <2> QED BY <1>0, <2>2, <2>13, <2>14, <2>15 DEF E, SplitInto
<1> QED BY <1>1, <1>2

\* What merge's one step leaves of block a and the block n after it.
AbsorbedTo(g, h, a, n) ==
    /\ n \in DOMAIN h.blocks /\ n = Ends(h, a) /\ a < n /\ h.blocks[n].free /\ h.blocks[n].prev = a
    /\ g = [blocks |-> g.blocks, used |-> g.used] /\ g.used = h.used - Header
    /\ DOMAIN g.blocks = DOMAIN h.blocks \ {n} /\ g.blocks \in [DOMAIN g.blocks -> Blocks]
    /\ Ends(g, a) = Ends(h, n) /\ g.blocks[a].next = h.blocks[n].next /\ g.blocks[a].prev = h.blocks[a].prev
    /\ g.blocks[a].free = h.blocks[a].free
    /\ \A c \in DOMAIN h.blocks \ {a, n} :
          /\ g.blocks[c].size = h.blocks[c].size /\ Ends(g, c) = Ends(h, c)
          /\ g.blocks[c].next = h.blocks[c].next /\ g.blocks[c].free = h.blocks[c].free
          /\ g.blocks[c].prev = IF c = h.blocks[n].next THEN a ELSE h.blocks[c].prev
LEMMA AbsorbFacts ==
  ASSUME HeapSound, NEW h, Whole(h), NEW a \in DOMAIN h.blocks, Followed(h, a), NEW g, g = Absorb(h, a),
         NEW n, n = h.blocks[a].next
  PROVE  AbsorbedTo(g, h, a, n)
<1> DEFINE D == DOMAIN h.blocks
           b == h.blocks[a]
           x == h.blocks[n]
           y == [b EXCEPT !.size = b.size + x.size + Header, !.next = x.next]
           v == [b EXCEPT !.size = b.size + x.size + Header]
           z(c) == [h.blocks[c] EXCEPT !.prev = a]
           w == [c \in D \ {n} |-> IF c = a THEN y ELSE IF c = x.next THEN z(c) ELSE h.blocks[c]]
<1>1. g = [blocks |-> w, used |-> h.used - Header] BY DEF Absorb
<1>2. /\ n \in D /\ n = Ends(h, a) /\ x.prev = a /\ x.free BY WholeFacts DEF Followed
<1>3. /\ a \in Nat /\ n \in Nat /\ Header \in Nat \ {0} /\ b \in Blocks /\ x \in Blocks
      /\ \A c \in D : c \in Nat /\ h.blocks[c] \in Blocks BY <1>2, WholeFacts DEF HeapSound
<1>4. b.size \in Nat /\ x.size \in Nat /\ Ends(h, a) = a + Header + b.size /\ Ends(h, n) = n + Header + x.size
  BY <1>3 DEF Blocks, Ends
<1>5. a < n BY <1>2, <1>3, <1>4
<1>6. /\ y \in Blocks /\ y.size = b.size + x.size + Header /\ y.next = x.next /\ y.prev = b.prev /\ y.free = b.free
  <2> HIDE DEF b, x
  <2>1. /\ v \in Blocks /\ v.size = b.size + x.size + Header /\ v.next = b.next /\ v.prev = b.prev
        /\ v.free = b.free
    <3>1. b.size + x.size + Header \in Nat BY <1>3, <1>4
    <3> QED BY <1>3, <3>1 DEF Blocks
  <2>2. y = [v EXCEPT !.next = x.next] /\ x.next \in Int BY <1>3 DEF Blocks
  <2> HIDE DEF v, y
  <2> QED BY <2>1, <2>2 DEF Blocks
<1>7. ASSUME NEW c \in D
      PROVE  /\ z(c) \in Blocks /\ z(c).size = h.blocks[c].size /\ z(c).next = h.blocks[c].next /\ z(c).prev = a
             /\ z(c).free = h.blocks[c].free
  <2>1. h.blocks[c] \in Blocks /\ a \in Int BY <1>3
  <2> QED BY <2>1 DEF Blocks
<1> HIDE DEF y, z
<1>8. /\ DOMAIN w = D \ {n} /\ w[a] = y
      /\ \A c \in D \ {a, n} : w[c] = IF c = x.next THEN z(c) ELSE h.blocks[c] BY <1>3, <1>5
<1>9. w \in [D \ {n} -> Blocks] BY <1>3, <1>6, <1>7
<1> HIDE DEF w
<1>10. g.blocks = w /\ g.used = h.used - Header /\ g = [blocks |-> g.blocks, used |-> g.used] BY <1>1
<1>11. Ends(g, a) = Ends(h, n) BY <1>2, <1>3, <1>4, <1>6, <1>8, <1>10 DEF Ends
<1>12. ASSUME NEW c \in D \ {a, n}
       PROVE  /\ g.blocks[c].size = h.blocks[c].size /\ Ends(g, c) = Ends(h, c)
              /\ g.blocks[c].next = h.blocks[c].next /\ g.blocks[c].free = h.blocks[c].free
              /\ g.blocks[c].prev = IF c = x.next THEN a ELSE h.blocks[c].prev
  <2>1. /\ g.blocks[c].size = h.blocks[c].size
        /\ g.blocks[c].next = h.blocks[c].next /\ g.blocks[c].free = h.blocks[c].free
        /\ g.blocks[c].prev = IF c = x.next THEN a ELSE h.blocks[c].prev BY <1>7, <1>8, <1>10
  <2> QED BY <2>1 DEF Ends
<1>13. DOMAIN g.blocks = D \ {n} /\ g.blocks \in [DOMAIN g.blocks -> Blocks] BY <1>8, <1>9, <1>10
<1>14. g.blocks[a].next = x.next /\ g.blocks[a].prev = b.prev /\ g.blocks[a].free = b.free BY <1>6, <1>8, <1>10
<1> QED BY <1>2, <1>5, <1>10, <1>11, <1>12, <1>13, <1>14 DEF AbsorbedTo

\* What a step of merge keeps, when only a and q may stand before a free block.
AbsorbKept(g, h, a, n, q) ==
    /\ Whole(g) /\ ApartBut(g, {q}) /\ ~Followed(g, a)
    /\ DOMAIN g.blocks = DOMAIN h.blocks \ {n} /\ n \in DOMAIN h.blocks /\ h.blocks[n].free /\ n # a
    /\ g.blocks[a].prev = h.blocks[a].prev /\ g.blocks[a].free
    /\ \A c \in DOMAIN h.blocks \ {a, n} :
          g.blocks[c].size = h.blocks[c].size /\ g.blocks[c].free = h.blocks[c].free
LEMMA AbsorbKeeps ==
  ASSUME HeapSound, NEW h, Whole(h), NEW a \in DOMAIN h.blocks, h.blocks[a].free, Followed(h, a),
         NEW g, g = Absorb(h, a), NEW n, n = h.blocks[a].next, NEW q, n # q, ApartBut(h, {a, q})
  PROVE  AbsorbKept(g, h, a, n, q)
<1> DEFINE D == DOMAIN h.blocks
           E == DOMAIN g.blocks
<1>1. /\ n \in D /\ n = Ends(h, a) /\ a < n /\ h.blocks[n].free /\ h.blocks[n].prev = a
      /\ g = [blocks |-> g.blocks, used |-> g.used] /\ g.used = h.used - Header
      /\ E = D \ {n} /\ g.blocks \in [E -> Blocks]
      /\ Ends(g, a) = Ends(h, n) /\ g.blocks[a].next = h.blocks[n].next /\ g.blocks[a].prev = h.blocks[a].prev
      /\ g.blocks[a].free = h.blocks[a].free
      /\ \A c \in D \ {a, n} :
            /\ g.blocks[c].size = h.blocks[c].size /\ Ends(g, c) = Ends(h, c)
            /\ g.blocks[c].next = h.blocks[c].next /\ g.blocks[c].free = h.blocks[c].free
            /\ g.blocks[c].prev = IF c = h.blocks[n].next THEN a ELSE h.blocks[c].prev
  <2>1. AbsorbedTo(g, h, a, n) BY AbsorbFacts, Zenon
  <2> QED BY <2>1 DEF AbsorbedTo
<1>2. \A c \in D : /\ c \in Nat /\ Ends(h, c) \in Nat /\ c + Header <= Ends(h, c) /\ Ends(h, c) <= Total
                   /\ \A d \in D : c < d => Ends(h, c) <= d BY WholeFacts
<1>3. \A c \in D : IF Ends(h, c) = Total THEN h.blocks[c].next = NULL
         ELSE h.blocks[c].next = Ends(h, c) /\ Ends(h, c) \in D /\ h.blocks[Ends(h, c)].prev = c BY DEF Whole
<1>4. \A c \in D \ {0} : h.blocks[c].prev \in D /\ Ends(h, h.blocks[c].prev) = c BY DEF Whole
<1>5. 0 \in D /\ h.blocks[0].prev = NULL /\ IsFiniteSet(D) /\ D \subseteq Nat BY DEF Whole
<1>6. Header \in Nat \ {0} /\ Total \in Nat BY DEF HeapSound
<1>7. a \in E /\ a \in D /\ n # 0 BY <1>1, <1>2
<1> HIDE DEF E
<1>8. IsFiniteSet(E) /\ E \subseteq Nat /\ 0 \in E
  <2>1. E \subseteq D BY <1>1
  <2>2. IsFiniteSet(E) BY <1>5, <2>1, FS_Subset
  <2> QED BY <1>1, <1>5, <1>7, <2>2
\* The block after n is neither a nor n.
<1>9. h.blocks[n].next # NULL =>
        /\ h.blocks[n].next \in D /\ h.blocks[n].next = Ends(h, n) /\ h.blocks[h.blocks[n].next].prev = n
        /\ h.blocks[n].next \notin {a, n} /\ h.blocks[n].next # 0
  <2> SUFFICES ASSUME h.blocks[n].next # NULL
               PROVE /\ h.blocks[n].next \in D /\ h.blocks[n].next = Ends(h, n)
                     /\ h.blocks[h.blocks[n].next].prev = n
                     /\ h.blocks[n].next \notin {a, n} /\ h.blocks[n].next # 0 OBVIOUS
  <2>1. h.blocks[n].next = Ends(h, n) /\ Ends(h, n) \in D /\ h.blocks[Ends(h, n)].prev = n BY <1>1, <1>3
  <2>2. n < Ends(h, n) BY <1>1, <1>2, <1>6
  <2> QED BY <1>1, <1>2, <2>1, <2>2
<1>10. ASSUME NEW c \in E
       PROVE  /\ Ends(g, c) <= Total
              /\ \A d \in E : c < d => Ends(g, c) <= d
              /\ IF Ends(g, c) = Total THEN g.blocks[c].next = NULL
                 ELSE g.blocks[c].next = Ends(g, c) /\ Ends(g, c) \in E /\ g.blocks[Ends(g, c)].prev = c
  <2>1. CASE c = a
    <3>1. Ends(g, c) = Ends(h, n) /\ g.blocks[c].next = h.blocks[n].next BY <1>1, <2>1
    <3>2. ASSUME NEW d \in E, c < d PROVE Ends(h, n) <= d
      <4>1. d \in D /\ d # n BY <1>1
      <4>2. n <= d BY <1>1, <1>2, <2>1, <3>2, <4>1
      <4> QED BY <1>1, <1>2, <4>1, <4>2
    <3>3. Ends(h, n) # Total => h.blocks[n].next = Ends(h, n) /\ h.blocks[n].next # NULL BY <1>1, <1>2, <1>3 DEF NULL
    <3>4. Ends(h, n) # Total => Ends(h, n) \in E /\ g.blocks[Ends(h, n)].prev = a BY <1>1, <1>9, <3>3
    <3>5. Ends(h, n) = Total => h.blocks[n].next = NULL BY <1>1, <1>3
    <3>6. Ends(h, n) <= Total BY <1>1, <1>2
    <3> QED BY <2>1, <3>1, <3>2, <3>3, <3>4, <3>5, <3>6
  <2>2. CASE c # a
    <3>1. c \in D \ {a, n} BY <1>1, <2>2
    <3>2. Ends(g, c) = Ends(h, c) /\ g.blocks[c].next = h.blocks[c].next BY <1>1, <3>1
    <3>3. \A d \in E : c < d => Ends(h, c) <= d BY <1>1, <1>2, <3>1
    <3>4. Ends(h, c) # Total => Ends(h, c) \in E /\ g.blocks[Ends(h, c)].prev = c
      <4> SUFFICES ASSUME Ends(h, c) # Total PROVE Ends(h, c) \in E /\ g.blocks[Ends(h, c)].prev = c OBVIOUS
      <4>1. Ends(h, c) \in D /\ h.blocks[Ends(h, c)].prev = c BY <1>3, <3>1
      <4>2. Ends(h, c) # n BY <1>1, <3>1, <4>1
      <4>3. Ends(h, c) # h.blocks[n].next
        <5>1. h.blocks[n].next # NULL => h.blocks[h.blocks[n].next].prev = n BY <1>9
        <5>2. Ends(h, c) # NULL BY <1>2, <3>1 DEF NULL
        <5> QED BY <3>1, <4>1, <5>1, <5>2
      <4>4. CASE Ends(h, c) = a BY <1>1, <1>7, <4>1, <4>4
      <4>5. CASE Ends(h, c) # a BY <1>1, <4>1, <4>2, <4>3, <4>5
      <4> QED BY <4>4, <4>5
    <3>5. Ends(h, c) # Total => h.blocks[c].next = Ends(h, c) BY <1>3, <3>1
    <3>6. Ends(h, c) = Total => h.blocks[c].next = NULL BY <1>3, <3>1
    <3>7. Ends(h, c) <= Total BY <1>2, <3>1
    <3> QED BY <3>2, <3>3, <3>4, <3>5, <3>6, <3>7
  <2> QED BY <2>1, <2>2
<1>11. ASSUME NEW c \in E \ {0} PROVE g.blocks[c].prev \in E /\ Ends(g, g.blocks[c].prev) = c
  <2>1. CASE c = h.blocks[n].next
    <3>1. h.blocks[n].next # NULL BY <1>8, <2>1 DEF NULL
    <3>2. c \in D \ {a, n} /\ c = Ends(h, n) BY <1>9, <2>1, <3>1
    <3>3. g.blocks[c].prev = a BY <1>1, <2>1, <3>2
    <3> QED BY <1>1, <1>7, <3>2, <3>3
  <2>2. CASE c # h.blocks[n].next
    <3>1. c \in D /\ c # n BY <1>1
    <3>2. g.blocks[c].prev = h.blocks[c].prev
      <4>1. CASE c = a BY <1>1, <4>1
      <4>2. CASE c # a BY <1>1, <2>2, <3>1, <4>2
      <4> QED BY <4>1, <4>2
    <3>3. h.blocks[c].prev \in D /\ Ends(h, h.blocks[c].prev) = c BY <1>4, <3>1
    <3>4. h.blocks[c].prev # a BY <1>1, <3>1, <3>3
    <3>5. h.blocks[c].prev # n
      <4> SUFFICES ASSUME h.blocks[c].prev = n PROVE FALSE OBVIOUS
      <4>1. h.blocks[n].next = c BY <1>1, <3>1, <3>3, PrevIs
      <4> QED BY <2>2, <4>1
    <3> QED BY <1>1, <3>2, <3>3, <3>4, <3>5
  <2> QED BY <2>1, <2>2
<1>12. g.blocks[0].prev = NULL
  <2>1. 0 # h.blocks[n].next BY <1>9 DEF NULL
  <2>2. CASE a = 0 BY <1>1, <1>5, <2>2
  <2>3. CASE a # 0 BY <1>1, <1>5, <1>7, <2>1, <2>3
  <2> QED BY <2>2, <2>3
<1>13. InUse(h) = InUse(g) \cup (n .. n + Header - 1)
  <2> DEFINE I == n .. n + Header - 1
             A(c) == c + Header .. Ends(h, c) - 1
             B(c) == c + Header .. Ends(g, c) - 1
  <2>1. ASSUME NEW x \in 0 .. Total - 1
        PROVE  /\ x \in B(a) <=> x \in A(a) \/ x \in A(n) \/ x \in I
               /\ ~(x \in I /\ x \in A(a)) /\ ~(x \in I /\ x \in A(n))
    <3>1. /\ a \in Nat /\ n \in Nat /\ Header \in Nat /\ Ends(h, a) = n /\ Ends(h, n) \in Nat
          /\ Ends(g, a) = Ends(h, n) /\ n + Header <= Ends(h, n) /\ a + Header <= n BY <1>1, <1>2, <1>6
    <3> QED BY <3>1
  <2>2. \A c \in D \ {a, n} : B(c) = A(c) BY <1>1
  <2>3. ASSUME NEW x \in 0 .. Total - 1, NEW c \in D \ {a, n}, x \in I PROVE x \notin A(c)
    <3>1. x \in n .. Ends(h, n) - 1 BY <1>1, <1>2, <1>6, <2>3
    <3>2. x \notin c .. Ends(h, c) - 1 BY <1>1, <3>1, AreasApart
    <3> QED BY <1>2, <1>6, <3>2
  <2>4. I \subseteq 0 .. Total - 1 BY <1>1, <1>2, <1>6
  <2>5. InUse(h) \subseteq 0 .. Total - 1 /\ InUse(g) \subseteq 0 .. Total - 1 BY InUseFinite
  <2>6. \A x \in 0 .. Total - 1 : /\ x \in InUse(h) <=> ~\E c \in D : h.blocks[c].free /\ x \in A(c)
                                  /\ x \in InUse(g) <=> ~\E c \in E : g.blocks[c].free /\ x \in B(c) BY DEF InUse, E
  <2>7. \A c \in D \ {a, n} : g.blocks[c].free = h.blocks[c].free BY <1>1
  <2>8. /\ E = D \ {n} /\ a \in D /\ n \in D /\ a # n
        /\ h.blocks[a].free /\ g.blocks[a].free /\ h.blocks[n].free BY <1>1, <1>2
  <2> HIDE DEF I, A, B, D
  <2>9. ASSUME NEW x \in 0 .. Total - 1 PROVE x \in InUse(h) <=> x \in InUse(g) \/ x \in I
    <3>1. (\E c \in E : g.blocks[c].free /\ x \in B(c))
            <=> x \in B(a) \/ \E c \in D \ {a, n} : h.blocks[c].free /\ x \in A(c) BY <2>2, <2>7, <2>8
    <3>2. (\E c \in D : h.blocks[c].free /\ x \in A(c))
            <=> x \in A(a) \/ x \in A(n) \/ \E c \in D \ {a, n} : h.blocks[c].free /\ x \in A(c) BY <2>8
    <3> QED BY <2>1, <2>3, <2>6, <3>1, <3>2
  <2>10. \A x \in 0 .. Total - 1 : x \in InUse(h) <=> x \in InUse(g) \cup I BY <2>9
  <2>11. InUse(g) \cup I \subseteq 0 .. Total - 1 BY <2>4, <2>5
  <2>12. InUse(h) = InUse(g) \cup I BY <2>5, <2>10, <2>11, Zenon
  <2> QED BY <2>12 DEF I
<1>14. g.used = Cardinality(InUse(g))
  <2>1. \A x \in n .. n + Header - 1 : x \notin InUse(g)
    <3> SUFFICES ASSUME NEW x \in n .. n + Header - 1, x \in InUse(g) PROVE FALSE OBVIOUS
    <3>1. /\ a \in Nat /\ n \in Nat /\ Header \in Nat /\ Ends(h, n) \in Nat
          /\ Ends(g, a) = Ends(h, n) /\ n + Header <= Ends(h, n) /\ a + Header <= n BY <1>1, <1>2, <1>6
    <3>2. x \in a + Header .. Ends(g, a) - 1 BY <3>1
    <3>3. a \in DOMAIN g.blocks /\ g.blocks[a].free BY <1>1, <1>7 DEF E
    <3> QED BY <3>2, <3>3 DEF InUse
  <2>2. Cardinality(InUse(g) \cup (n .. n + Header - 1)) = Cardinality(InUse(g)) + Header
    <3>1. n \in Nat /\ Header \in Nat /\ IsFiniteSet(InUse(g)) BY <1>1, <1>2, <1>6, InUseFinite
    <3> QED BY <2>1, <3>1, BytesFrom
  <2>3. h.used = Cardinality(InUse(h)) BY DEF Whole
  <2>4. Cardinality(InUse(g)) \in Nat BY InUseFinite, FS_CardinalityType
  <2>5. g.used = h.used - Header BY <1>1
  <2> QED BY <1>6, <1>13, <2>2, <2>3, <2>4, <2>5
<1>15. Whole(g) BY <1>1, <1>8, <1>10, <1>11, <1>12, <1>14 DEF Whole, E
<1>16. ~Followed(g, a)
  <2> SUFFICES ASSUME Followed(g, a) PROVE FALSE OBVIOUS
  <2>1. h.blocks[n].next # NULL /\ g.blocks[h.blocks[n].next].free BY <1>1 DEF Followed
  <2>2. h.blocks[n].next \in D \ {a, n} BY <1>9, <2>1
  <2>3. h.blocks[h.blocks[n].next].free BY <1>1, <2>1, <2>2
  <2>4. n \notin {a, q} BY <1>1, <1>2
  <2> QED BY <1>1, <2>1, <2>3, <2>4 DEF ApartBut, Followed
<1>17. ApartBut(g, {q})
  <2> SUFFICES ASSUME NEW c \in E \ {q}, g.blocks[c].free, Followed(g, c) PROVE FALSE BY DEF ApartBut, E
  <2>1. c # a BY <1>16
  <2>2. c \in D \ {a, n} BY <1>1, <2>1
  <2>3. g.blocks[c].next = h.blocks[c].next /\ h.blocks[c].free BY <1>1, <2>2
  <2>4. h.blocks[c].next # NULL /\ g.blocks[h.blocks[c].next].free BY <2>3 DEF Followed
  <2>5. h.blocks[c].next \in D /\ h.blocks[h.blocks[c].next].prev = c BY <2>2, <2>4, WholeFacts
  <2>6. h.blocks[c].next # n BY <1>1, <2>2, <2>5
  <2>7. h.blocks[h.blocks[c].next].free
    <3>1. CASE h.blocks[c].next = a BY <3>1
    <3>2. CASE h.blocks[c].next # a BY <1>1, <2>4, <2>5, <2>6, <3>2
    <3> QED BY <3>1, <3>2
  <2>8. c \in DOMAIN h.blocks \ {a, q} BY <2>2
  <2> QED BY <2>3, <2>4, <2>7, <2>8 DEF ApartBut, Followed
<1> QED BY <1>1, <1>2, <1>15, <1>16, <1>17 DEF E, AbsorbKept

\* merge, unfolded: as two free blocks never stay apart, it takes in one.
Mergings(h, a, m) ==
    m = [k \in 0 .. Cardinality(DOMAIN h.blocks) |->
            IF k = 0 THEN h ELSE IF Followed(m[k - 1], a) THEN Absorb(m[k - 1], a) ELSE m[k - 1]]
LEMMA MergeIs ==
  ASSUME NEW h, NEW a \in DOMAIN h.blocks, IsFiniteSet(DOMAIN h.blocks), NEW r,
         r = IF Followed(h, a) THEN Absorb(h, a) ELSE h, ~Followed(r, a)
  PROVE  Merge(h, a) = r
<1> DEFINE N == Cardinality(DOMAIN h.blocks)
           F == [k \in 0 .. N |-> IF k = 0 THEN h ELSE r]
           Once(x) == IF Followed(x, a) THEN Absorb(x, a) ELSE x
<1>1. N \in Nat /\ N # 0
  <2>1. N \in Nat BY FS_CardinalityType
  <2>2. N = 0 => DOMAIN h.blocks = {} BY FS_EmptySet
  <2> QED BY <2>1, <2>2
<1> HIDE DEF N
<1>2. Once(h) = r /\ Once(r) = r OBVIOUS
<1>3. Mergings(h, a, F)
  <2>1. \A k \in 0 .. N : F[k] = IF k = 0 THEN h ELSE r OBVIOUS
  <2>2. ASSUME NEW k \in 0 .. N, k # 0 PROVE k - 1 \in 0 .. N BY <1>1, <2>2
  <2>3. F = [k \in 0 .. N |-> F[k]] OBVIOUS
  <2> HIDE DEF F, Once
  <2>4. ASSUME NEW k \in 0 .. N PROVE F[k] = IF k = 0 THEN h ELSE Once(F[k - 1])
    <3>1. CASE k = 0 BY <2>1, <3>1
    <3>2. CASE k # 0
      <4>1. k - 1 \in 0 .. N BY <2>2, <3>2
      <4>2. F[k - 1] = h \/ F[k - 1] = r BY <2>1, <4>1
      <4> QED BY <1>2, <2>1, <3>2, <4>2
    <3> QED BY <3>1, <3>2
  <2>5. F = [k \in 0 .. N |-> IF k = 0 THEN h ELSE Once(F[k - 1])] BY <2>3, <2>4
  <2> QED BY <2>5 DEF Mergings, Once, N
<1>4. PICK m : Mergings(h, a, m) /\ Merge(h, a) = m[N] BY <1>3, Zenon DEF Merge, Mergings, N
<1>5. \A k \in 0 .. N : m[k] = IF k = 0 THEN h ELSE Once(m[k - 1])
  <2>1. m = [k \in 0 .. N |-> IF k = 0 THEN h ELSE Once(m[k - 1])] BY <1>4 DEF Mergings, N
  <2> HIDE DEF Once
  <2> QED BY <2>1, Zenon
<1> HIDE DEF Once
<1> DEFINE K == {k \in 0 .. N : k = 0 \/ m[k] = r}
<1>6. ASSUME NEW k \in 1 .. N, k - 1 \in K PROVE k \in K
  <2>1. k \in 0 .. N /\ k - 1 \in 0 .. N /\ k # 0 BY <1>1
  <2>2. m[k] = Once(m[k - 1]) BY <1>5, <2>1
  <2>3. 0 \in 0 .. N BY <1>1
  <2>4. k - 1 = 0 => m[k - 1] = h BY <1>5, <2>3
  <2>5. m[k - 1] = h \/ m[k - 1] = r BY <1>6, <2>4
  <2> QED BY <1>2, <2>1, <2>2, <2>5
<1>7. 0 \in K BY <1>1
<1> HIDE DEF K
<1>8. \A k \in 1 .. N : k - 1 \in K => k \in K BY <1>6
<1>9. \A k \in 0 .. N : k \in K BY <1>1, <1>7, <1>8, Rises
<1>10. N \in K BY <1>1, <1>9
<1> QED BY <1>1, <1>4, <1>10 DEF K

\* The blocks handed out are the same ones, and no area of them has changed.
SameUsed(h, g) ==
    /\ DOMAIN g.blocks \subseteq DOMAIN h.blocks
    /\ \A c \in DOMAIN g.blocks : g.blocks[c].free = h.blocks[c].free
    /\ \A c \in DOMAIN h.blocks : ~h.blocks[c].free =>
          c \in DOMAIN g.blocks /\ g.blocks[c].size = h.blocks[c].size

LEMMA MergeKeeps ==
  ASSUME HeapSound, NEW h, Whole(h), NEW a \in DOMAIN h.blocks, h.blocks[a].free,
         NEW q, Followed(h, a) => h.blocks[a].next # q, ApartBut(h, {a, q}), NEW g, g = Merge(h, a)
  PROVE  /\ Whole(g) /\ ApartBut(g, {q}) /\ ~Followed(g, a) /\ SameUsed(h, g)
         /\ a \in DOMAIN g.blocks /\ g.blocks[a].prev = h.blocks[a].prev
<1>1. IsFiniteSet(DOMAIN h.blocks) BY DEF Whole
<1>2. CASE ~Followed(h, a)
  <2>1. g = h BY <1>1, <1>2, MergeIs
  <2>2. ApartBut(h, {q}) BY <1>2 DEF ApartBut
  <2> QED BY <1>2, <2>1, <2>2 DEF SameUsed
<1>3. CASE Followed(h, a)
  <2> DEFINE r == Absorb(h, a)
             n == h.blocks[a].next
  <2>0. r = Absorb(h, a) OBVIOUS
  <2>1. n # q /\ n = h.blocks[a].next BY <1>3
  <2> HIDE DEF r, n
  <2>2. /\ Whole(r) /\ ApartBut(r, {q}) /\ ~Followed(r, a)
        /\ DOMAIN r.blocks = DOMAIN h.blocks \ {n} /\ n \in DOMAIN h.blocks /\ h.blocks[n].free /\ n # a
        /\ r.blocks[a].prev = h.blocks[a].prev /\ r.blocks[a].free
        /\ \A c \in DOMAIN h.blocks \ {a, n} :
              r.blocks[c].size = h.blocks[c].size /\ r.blocks[c].free = h.blocks[c].free
    <3>1. AbsorbKept(r, h, a, n, q) BY <1>3, <2>0, <2>1, AbsorbKeeps, Zenon
    <3> QED BY <3>1 DEF AbsorbKept
  <2>3. g = r BY <1>1, <1>3, <2>2, MergeIs DEF r
  <2>4. h.blocks[a].free = TRUE /\ r.blocks[a].free = TRUE
    <3>1. a \in DOMAIN r.blocks BY <2>2
    <3> QED BY <2>2, <3>1, WholeFacts DEF Blocks
  <2>5. SameUsed(h, r) BY <2>2, <2>4 DEF SameUsed
  <2> QED BY <2>2, <2>3, <2>5
<1> QED BY <1>2, <1>3

-----------------------------------------------------------------------------
HeapInv ==
    /\ Whole(Heap) /\ ApartBut(Heap, {})
    /\ DOMAIN asked = {a \in DOMAIN blocks : ~blocks[a].free}
    /\ \A a \in DOMAIN asked : asked[a] <= blocks[a].size

LEMMA AlignedUp ==
  ASSUME HeapSound, NEW n \in Requests, n <= Word - 16
  PROVE  Align8(n) \in Nat /\ n <= Align8(n)
<1>1. n \in Nat /\ Word \in Nat /\ n + 7 < Word BY DEF HeapSound
<1>2. (n + 7) % Word = n + 7
  <2> DEFINE x == n + 7
  <2>1. x \in 0 .. Word - 1 BY <1>1
  <2> HIDE DEF x
  <2>2. x % Word = x BY <1>1, <2>1
  <2> QED BY <2>2 DEF x
<1> QED BY <1>1, <1>2 DEF Align8

LEMMA KmallocKeeps ==
  ASSUME HeapSound, HeapInv, NEW n \in Requests, Kmalloc(n)
  PROVE  HeapInv'
<1> DEFINE size == Align8(n)
           F == Fits(size)
           a == Min(F)
           s == Split(Heap, a, size)
           g == Taken(s, a)
           D == DOMAIN blocks
<1>1. Heap.blocks = blocks /\ Heap.used = heap_used BY DEF Heap
<1>2. size \in Nat /\ n <= size /\ F # {} /\ n \in Nat BY AlignedUp DEF Kmalloc, HeapSound
<1>3. a \in F
  <2>1. F \subseteq Nat
    <3>1. D \subseteq Nat BY <1>1 DEF HeapInv, Whole
    <3> QED BY <3>1 DEF Fits
  <2> HIDE DEF F
  <2> QED BY <1>2, <2>1, LeastIsIn
<1>4. /\ blocks' = g.blocks /\ heap_used' = g.used
      /\ asked' = [b \in DOMAIN asked \cup {a} |-> IF b = a THEN n ELSE asked[b]] BY DEF Kmalloc
<1> HIDE DEF a
<1>5. a \in D /\ blocks[a].free /\ size <= blocks[a].size
  <2>1. a \in D /\ blocks[a].free /\ blocks[a].size >= size BY <1>3 DEF Fits
  <2>2. blocks[a].size \in Nat BY <1>1, <2>1 DEF HeapInv, Whole, Blocks
  <2> QED BY <1>2, <2>1, <2>2
<1> HIDE DEF size, F
<1>6. /\ Whole(s) /\ ApartBut(s, {a}) /\ D \subseteq DOMAIN s.blocks
      /\ s.blocks[a].free /\ size <= s.blocks[a].size
      /\ \A c \in D \ {a} : s.blocks[c].size = blocks[c].size /\ s.blocks[c].free = blocks[c].free
      /\ \A c \in DOMAIN s.blocks \ D : s.blocks[c].free
  <2> HIDE DEF s
  <2>1. s = Split(Heap, a, size) BY DEF s
  <2>2. a \in DOMAIN Heap.blocks /\ Heap.blocks[a].free /\ size <= Heap.blocks[a].size BY <1>1, <1>5
  <2>3. DOMAIN Heap.blocks = D BY <1>1
  <2> DEFINE h == Heap
  <2>4. Whole(h) /\ ApartBut(h, {}) /\ h.blocks = blocks BY <1>1 DEF HeapInv
  <2>5. s = Split(h, a, size) /\ a \in DOMAIN h.blocks /\ h.blocks[a].free /\ size <= h.blocks[a].size BY <2>1, <2>2
  <2> HIDE DEF h, D
  <2>6. /\ Whole(s) /\ ApartBut(s, {a}) /\ DOMAIN h.blocks \subseteq DOMAIN s.blocks
        /\ s.blocks[a].free /\ size <= s.blocks[a].size
        /\ \A c \in DOMAIN h.blocks \ {a} :
              s.blocks[c].size = h.blocks[c].size /\ s.blocks[c].free = h.blocks[c].free
        /\ \A c \in DOMAIN s.blocks \ DOMAIN h.blocks : s.blocks[c].free
    <3>1. SplitInto(s, h, a, size) BY <1>2, <2>4, <2>5, SplitKeeps, Zenon
    <3> QED BY <3>1 DEF SplitInto
  <2> QED BY <2>4, <2>6 DEF D
<1> HIDE DEF s
<1>7. a \in DOMAIN s.blocks BY <1>5, <1>6
<1>8. /\ Whole(g) /\ ApartBut(g, {}) /\ DOMAIN g.blocks = DOMAIN s.blocks
      /\ \A b \in DOMAIN s.blocks :
            g.blocks[b].size = s.blocks[b].size /\ g.blocks[b].free = (b # a /\ s.blocks[b].free)
  BY <1>6, <1>7, TakeKeeps
<1> HIDE DEF g
<1>9. Heap' = g
  <2>1. g = [blocks |-> g.blocks, used |-> g.used] BY <1>8 DEF Whole
  <2> QED BY <1>4, <2>1 DEF Heap
<1>10. DOMAIN asked' = DOMAIN asked \cup {a} BY <1>4
<1>11. \A c \in D : ~blocks[c].free <=> c \in DOMAIN asked BY DEF HeapInv
<1>12. DOMAIN asked' = {c \in DOMAIN g.blocks : ~g.blocks[c].free}
  <2>1. ASSUME NEW c \in DOMAIN g.blocks PROVE ~g.blocks[c].free <=> c \in DOMAIN asked \cup {a}
    <3>1. CASE c = a BY <1>8, <3>1
    <3>2. CASE c # a /\ c \in D BY <1>6, <1>8, <1>11, <3>2
    <3>3. CASE c # a /\ c \notin D BY <1>6, <1>8, <3>3 DEF HeapInv
    <3> QED BY <3>1, <3>2, <3>3
  <2>2. DOMAIN asked \cup {a} \subseteq DOMAIN g.blocks BY <1>5, <1>6, <1>8 DEF HeapInv
  <2> QED BY <1>10, <2>1, <2>2
<1>13. ASSUME NEW c \in DOMAIN asked' PROVE asked'[c] <= g.blocks[c].size
  <2>1. CASE c = a
    <3>1. asked'[c] = n /\ g.blocks[c].size = s.blocks[a].size BY <1>4, <1>7, <1>8, <2>1
    <3>2. s.blocks[a].size \in Nat BY <1>6, <1>7, WholeFacts DEF Blocks
    <3> QED BY <1>2, <1>6, <3>1, <3>2
  <2>2. CASE c # a
    <3>1. c \in DOMAIN asked /\ asked'[c] = asked[c] BY <1>4, <1>10, <2>2
    <3>2. c \in D \ {a} BY <2>2, <3>1 DEF HeapInv
    <3>3. g.blocks[c].size = blocks[c].size BY <1>6, <1>8, <3>2
    <3> QED BY <3>1, <3>3 DEF HeapInv
  <2> QED BY <2>1, <2>2
<1> QED BY <1>4, <1>8, <1>9, <1>12, <1>13 DEF HeapInv

LEMMA KfreeKeeps ==
  ASSUME HeapSound, HeapInv, NEW a \in DOMAIN blocks, Kfree(a)
  PROVE  HeapInv'
<1> DEFINE f == Freed(Heap, a)
           m == Merge(f, a)
           p == m.blocks[a].prev
           g == IF p # NULL /\ m.blocks[p].free THEN Merge(m, p) ELSE m
           D == DOMAIN blocks
<1>1. Heap.blocks = blocks /\ Heap.used = heap_used BY DEF Heap
<1>2. /\ ~blocks[a].free /\ blocks' = g.blocks /\ heap_used' = g.used
      /\ asked' = [b \in DOMAIN asked \ {a} |-> asked[b]] BY DEF Kfree
<1>3. /\ Whole(f) /\ ApartBut(f, {a, blocks[a].prev}) /\ DOMAIN f.blocks = D
      /\ \A b \in D :
            /\ f.blocks[b].size = blocks[b].size /\ f.blocks[b].free = (b = a \/ blocks[b].free)
            /\ f.blocks[b].next = blocks[b].next /\ f.blocks[b].prev = blocks[b].prev
  <2>1. a \in DOMAIN Heap.blocks /\ ~Heap.blocks[a].free BY <1>1, <1>2
  <2>2. FreedTo(f, Heap, a) BY <2>1, FreeKeeps DEF HeapInv
  <2> HIDE DEF f
  <2> QED BY <1>1, <2>2 DEF FreedTo
<1> HIDE DEF f
<1> DEFINE q == f.blocks[a].prev
<1>4. a \in DOMAIN f.blocks /\ f.blocks[a].free /\ q = blocks[a].prev BY <1>3
<1>5. Followed(f, a) => f.blocks[a].next # q
  <2> SUFFICES ASSUME Followed(f, a), f.blocks[a].next = q PROVE FALSE OBVIOUS
  <2>1. q \in DOMAIN f.blocks /\ q = Ends(f, a) /\ a + Header <= q /\ a \in Nat /\ Header \in Nat \ {0}
    BY <1>3, <1>4, WholeFacts DEF Followed, HeapSound
  <2>2. q + Header <= Ends(f, q) /\ Ends(f, q) \in Nat /\ q \in Nat BY <1>3, <2>1, WholeFacts
  <2>3. a # 0 => Ends(f, q) = a BY <1>3, <1>4 DEF Whole
  <2>4. a = 0 => q = NULL BY <1>3 DEF Whole
  <2> QED BY <2>1, <2>2, <2>3, <2>4 DEF NULL
<1>6. /\ Whole(m) /\ ApartBut(m, {q}) /\ ~Followed(m, a) /\ SameUsed(f, m)
      /\ a \in DOMAIN m.blocks /\ p = q BY <1>3, <1>4, <1>5, MergeKeeps, ZenonT(60)
<1> HIDE DEF m, q
<1>7. Whole(g) /\ ApartBut(g, {}) /\ SameUsed(m, g)
  <2>1. CASE p # NULL /\ m.blocks[p].free
    <3>1. p \in DOMAIN m.blocks /\ Ends(m, p) = a BY <1>6, <2>1 DEF Whole
    <3>2. m.blocks[p].next = a BY <1>6, <3>1, PrevIs
    <3>3. a # NULL BY <1>6, WholeFacts DEF NULL
    <3>4. ApartBut(m, {p, NULL}) BY <1>6 DEF ApartBut
    <3>5. g = Merge(m, p) BY <2>1
    <3> HIDE DEF g, p
    <3>6. Whole(g) /\ ApartBut(g, {NULL}) /\ SameUsed(m, g) BY <1>6, <2>1, <3>1, <3>2, <3>3, <3>4, <3>5, MergeKeeps
    <3>7. NULL \notin DOMAIN g.blocks BY <3>6, WholeFacts DEF NULL
    <3> QED BY <3>6, <3>7 DEF ApartBut
  <2>2. CASE ~(p # NULL /\ m.blocks[p].free)
    <3>1. g = m BY <2>2
    <3> HIDE DEF g, p
    <3>2. NULL \notin DOMAIN m.blocks BY <1>6, WholeFacts DEF NULL
    <3>3. ApartBut(m, {}) BY <1>6, <2>2, <3>2 DEF ApartBut
    <3> QED BY <1>6, <3>1, <3>3 DEF SameUsed
  <2> QED BY <2>1, <2>2
<1> HIDE DEF g
<1>8. Heap' = g
  <2>1. g = [blocks |-> g.blocks, used |-> g.used] BY <1>7 DEF Whole
  <2> QED BY <1>2, <2>1 DEF Heap
<1>9. SameUsed(f, g) BY <1>6, <1>7 DEF SameUsed
<1>10. \A c \in D : ~blocks[c].free <=> c \in DOMAIN asked BY DEF HeapInv
<1>11. DOMAIN asked' = {c \in DOMAIN g.blocks : ~g.blocks[c].free}
  <2>1. DOMAIN asked' = DOMAIN asked \ {a} BY <1>2
  <2>2. ASSUME NEW c \in DOMAIN g.blocks PROVE ~g.blocks[c].free <=> c \in DOMAIN asked \ {a}
    <3>1. c \in D /\ g.blocks[c].free = f.blocks[c].free BY <1>3, <1>9 DEF SameUsed
    <3>2. f.blocks[c].free = (c = a \/ blocks[c].free) BY <1>3, <3>1
    <3> QED BY <1>10, <3>1, <3>2
  <2>3. ASSUME NEW c \in DOMAIN asked \ {a} PROVE c \in DOMAIN g.blocks
    <3>1. c \in D /\ ~blocks[c].free BY DEF HeapInv
    <3>2. ~f.blocks[c].free BY <1>3, <3>1
    <3> QED BY <1>3, <1>9, <3>1, <3>2 DEF SameUsed
  <2> QED BY <2>1, <2>2, <2>3
<1>12. ASSUME NEW c \in DOMAIN asked' PROVE asked'[c] <= g.blocks[c].size
  <2>1. c \in DOMAIN asked /\ c # a /\ asked'[c] = asked[c] BY <1>2
  <2>2. c \in D /\ ~blocks[c].free BY <2>1 DEF HeapInv
  <2>3. f.blocks[c].size = blocks[c].size /\ ~f.blocks[c].free BY <1>3, <2>1, <2>2
  <2>4. g.blocks[c].size = blocks[c].size BY <1>3, <1>9, <2>2, <2>3 DEF SameUsed
  <2> QED BY <2>1, <2>4 DEF HeapInv
<1> QED BY <1>2, <1>7, <1>8, <1>11, <1>12 DEF HeapInv

LEMMA HeapBegins ==
  ASSUME HeapSound, HeapInit
  PROVE  HeapInv
<1> DEFINE b == [size |-> Total - Header, next |-> NULL, prev |-> NULL, free |-> TRUE]
           h == Heap
<1>1. /\ h = [blocks |-> h.blocks, used |-> h.used] /\ h.blocks = blocks /\ h.used = Header
      /\ DOMAIN blocks = {0} /\ blocks[0] = b /\ asked = [a \in {} |-> 0] BY DEF Heap, HeapInit
<1>2. Header \in Nat \ {0} /\ Total \in Nat /\ Header < Total BY DEF HeapSound
<1>3. b \in Blocks BY <1>2 DEF Blocks, NULL
<1>4. blocks \in [{0} -> Blocks]
  <2>1. blocks = [a \in {0} |-> b] BY DEF HeapInit
  <2> HIDE DEF b
  <2> QED BY <1>3, <2>1
<1>5. Ends(h, 0) = Total BY <1>1, <1>2 DEF Ends
<1>6. IsFiniteSet({0}) BY FS_Singleton
<1>7. InUse(h) = 0 .. Header - 1
  <2>1. ASSUME NEW x \in 0 .. Total - 1 PROVE x \in InUse(h) <=> x \notin Header .. Total - 1
    <3>1. b.free OBVIOUS
    <3>2. 0 + Header = Header BY <1>2
    <3> HIDE DEF b, h
    <3>3. DOMAIN h.blocks = {0} /\ h.blocks[0].free BY <1>1, <3>1
    <3>4. x \in InUse(h) <=> ~(x \in 0 + Header .. Ends(h, 0) - 1) BY <3>3 DEF InUse
    <3>5. 0 + Header .. Ends(h, 0) - 1 = Header .. Total - 1 BY <1>5, <3>2
    <3> QED BY <3>4, <3>5
  <2>2. InUse(h) \subseteq 0 .. Total - 1 BY DEF InUse
  <2> HIDE DEF h
  <2>3. \A x \in 0 .. Total - 1 : x \in InUse(h) <=> x \in 0 .. Header - 1
    <3> SUFFICES ASSUME NEW x \in 0 .. Total - 1 PROVE x \in InUse(h) <=> x \in 0 .. Header - 1 OBVIOUS
    <3>1. x \notin Header .. Total - 1 <=> x \in 0 .. Header - 1 BY <1>2
    <3> QED BY <2>1, <3>1
  <2>4. 0 .. Header - 1 \subseteq 0 .. Total - 1 BY <1>2
  <2> QED BY <2>2, <2>3, <2>4
<1>8. Cardinality(InUse(h)) = Header
  <2>1. IsFiniteSet({}) /\ Cardinality({}) = 0 BY FS_EmptySet
  <2>2. Cardinality({} \cup (0 .. Header - 1)) = 0 + (Header - 0)
    <3>1. Cardinality({} \cup (0 .. Header - 1)) = Cardinality({}) + (Header - 0) BY <1>2, <2>1, BytesCounted
    <3> QED BY <2>1, <3>1
  <2>3. {} \cup (0 .. Header - 1) = 0 .. Header - 1 OBVIOUS
  <2> HIDE DEF h
  <2> QED BY <1>2, <1>7, <2>2, <2>3
<1> HIDE DEF h
<1>9. Whole(h)
  <2>1. blocks[0].next = NULL /\ blocks[0].prev = NULL BY <1>1
  <2> HIDE DEF b
  <2> QED BY <1>1, <1>2, <1>4, <1>5, <1>6, <1>8, <2>1 DEF Whole
<1>10. ApartBut(h, {})
  <2>1. h.blocks[0].next = NULL BY <1>1
  <2> QED BY <1>1, <2>1 DEF ApartBut, Followed
<1>11. DOMAIN asked = {} /\ \A a \in DOMAIN blocks : blocks[a].free BY <1>1
<1> QED BY <1>9, <1>10, <1>11 DEF HeapInv, h

\* The heap stays whole for every heap size, header size and sequence of
\* requests (kmalloc, kfree, split, merge): the list leads from end to end
\* and back, heap_used counts what the blocks say, no two free blocks stay
\* apart, and who holds a block has the bytes asked for.
THEOREM HeapStaysWhole ==
  ASSUME HeapSound
  PROVE  HeapSpec => []HeapWhole
<1>1. HeapInit => HeapInv BY HeapBegins
<1>2. HeapInv /\ [HeapNext]_heapVars => HeapInv'
  <2> SUFFICES ASSUME HeapInv, [HeapNext]_heapVars PROVE HeapInv' OBVIOUS
  <2>1. ASSUME NEW n \in Requests, Kmalloc(n) PROVE HeapInv' BY <2>1, KmallocKeeps
  <2>2. ASSUME NEW a \in DOMAIN blocks, Kfree(a) PROVE HeapInv' BY <2>2, KfreeKeeps
  <2>3. CASE UNCHANGED heapVars BY <2>3 DEF heapVars, HeapInv, Heap, Whole, ApartBut, Followed, Ends, InUse
  <2> QED BY <2>1, <2>2, <2>3 DEF HeapNext
<1>3. HeapInv => HeapWhole
  <2> SUFFICES ASSUME HeapInv PROVE HeapWhole OBVIOUS
  <2>1. Heap.blocks = blocks /\ Heap.used = heap_used BY DEF Heap
  <2>2. /\ 0 \in DOMAIN blocks /\ blocks[0].prev = NULL /\ heap_used = Cardinality(InUse(Heap))
        /\ \A a \in DOMAIN blocks :
              /\ Ends(Heap, a) <= Total
              /\ \A b \in DOMAIN blocks : a < b => Ends(Heap, a) <= b
              /\ IF Ends(Heap, a) = Total THEN blocks[a].next = NULL
                 ELSE /\ blocks[a].next = Ends(Heap, a) /\ Ends(Heap, a) \in DOMAIN blocks
                      /\ blocks[Ends(Heap, a)].prev = a BY <2>1 DEF HeapInv, Whole
  <2>3. \A a \in DOMAIN blocks : blocks[a].free => ~Followed(Heap, a) BY <2>1 DEF HeapInv, ApartBut
  <2> QED BY <2>2, <2>3 DEF HeapWhole, HeapInv
<1> QED BY <1>1, <1>2, <1>3, PTL DEF HeapSpec
=============================================================================
