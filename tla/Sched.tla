------------------------------- MODULE Sched --------------------------------
(***************************************************************************)
(* The round-robin scheduler of kernel/sched.c and the timer interrupt of  *)
(* kernel/timer.c that drives it.                                          *)
(*                                                                         *)
(* Tasks are heap blocks in a circular list.  One action is one section    *)
(* with interrupts off; between two of them, in whatever the running task  *)
(* is doing, the timer interrupt may call schedule().  Time is kept as the *)
(* ticks left to every wake_tick, so `now >= wake_tick' is left = 0.       *)
(*                                                                         *)
(* The callers are the ones the kernel has: only the kernel task (the      *)
(* shell and the desktop) creates and kills tasks and runs ring-3 code,    *)
(* "idle" only halts, the kernel task never exits, `kill' refuses it.      *)
(***************************************************************************)
EXTENDS Integers, FiniteSets

CONSTANTS
    Slots,      \* heap blocks a task_t can live in
    Kernel,     \* the task of sched_init
    Idle,       \* the task of main.c
    Hz,         \* timer_hz()
    Durations,  \* milliseconds task_sleep is called with
    REAP_LIMIT, \* 64: how far reap_one looks
    TURN_LIMIT  \* 256: how far pick_next looks

ASSUME SlotsAssumption == Kernel \in Slots /\ Idle \in Slots /\ Kernel # Idle
ASSUME TimeAssumption == Hz \in Nat \ {0} /\ Durations \subseteq Nat
ASSUME LimitAssumption == REAP_LIMIT \in Nat /\ TURN_LIMIT \in Nat

VARIABLES
    alloc,    \* blocks that are allocated
    nxt,      \* task_t.next
    state,    \* task_t.state
    left,     \* task_t.wake_tick, as ticks from now
    current,  \* the running task
    tasks,    \* the head task_list() returns
    pc,       \* where a task's code is: see Labels
    ring3,    \* the kernel task executes an isolated application
    owed      \* history: what is left of the time a task asked to sleep,
              \* in thousandths of a tick

vars == <<alloc, nxt, state, left, current, tasks, pc, ring3, owed>>

States == {"READY", "SLEEPING", "DEAD"}
\* "sleep": in task_sleep, before its schedule(); "inSleep": switched out by
\* that schedule(); "exit": in the loop of task_exit; "run": anywhere else.
Labels == {"run", "sleep", "inSleep", "exit"}

\* Mutant: rounds down.
DelayRoundsDown(ms) == (ms \div 1000) * Hz + ((ms % 1000) * Hz) \div 1000

\* task_sleep's conversion, in ticks, rounded up.
Delay(ms) == (ms \div 1000) * Hz + ((ms % 1000) * Hz + 999) \div 1000

\* The task k links behind the running one.
Nth(links, k) ==
    LET walk[i \in 0 .. k] == IF i = 0 THEN current ELSE links[walk[i - 1]]
    IN  walk[k]

\* A scan that starts behind the running task and ends on reaching it.
Scanned(links, limit) ==
    {k \in 1 .. limit : \A j \in 1 .. k - 1 : Nth(links, j) # current}
First(ks) == {k \in ks : \A j \in ks : k <= j}

Pos(t) == CHOOSE k \in 0 .. Cardinality(alloc) - 1 : Nth(nxt, k) = t

\* Mutant: reap_one does not stop at the running task.
DeadBehindOrCurrent(st) ==
    {p \in alloc : st[nxt[p]] = "DEAD" /\ Pos(p) < REAP_LIMIT}

\* The predecessors of the dead tasks reap_one may find.
DeadBehind(st) ==
    {p \in alloc : nxt[p] # current /\ st[nxt[p]] = "DEAD" /\ Pos(p) < REAP_LIMIT}

Unlink(p) == nxt' = [nxt EXCEPT ![p] = nxt[nxt[p]], ![nxt[p]] = nxt[p]]

\* Frees at most one dead task, never the running one.
ReapOne(st) ==
    IF DeadBehind(st) = {}
    THEN UNCHANGED <<alloc, nxt, tasks>>
    ELSE \E p \in DeadBehind(st) :
            /\ \A q \in DeadBehind(st) : Pos(p) <= Pos(q)
            /\ alloc' = alloc \ {nxt[p]}
            /\ Unlink(p)
            /\ tasks' = IF tasks = nxt[p] THEN nxt[nxt[p]] ELSE tasks

Due(st, lf, t) == st[t] = "READY" \/ (st[t] = "SLEEPING" /\ lf[t] = 0)

\* Mutant: the search begins with the running task.
PickNextFromCurrent(links, st, lf) ==
    IF st[current] = "READY" THEN {current}
    ELSE LET due == {k \in Scanned(links, TURN_LIMIT) : Due(st, lf, Nth(links, k))}
         IN  {Nth(links, k) : k \in First(due)}

\* The first task behind the running one that is ready or due; the running
\* one is looked at last.  Empty: NULL.
PickNext(links, st, lf) ==
    LET due == {k \in Scanned(links, TURN_LIMIT) : Due(st, lf, Nth(links, k))}
    IN  IF due # {} THEN {Nth(links, k) : k \in First(due)}
        ELSE IF st[current] = "READY" THEN {current} ELSE {}

(***************************************************************************)
(* schedule(), called with the states st and wake times lf the caller has  *)
(* just set.  `here' is where the caller's code is if schedule returns to  *)
(* it at once, `away' where it is when it is switched out.                 *)
(***************************************************************************)
Resume(p, t) == IF p[t] = "inSleep" THEN [p EXCEPT ![t] = "run"] ELSE p

Schedule(st, lf, here, away) ==
    /\ ReapOne(st)
    /\ left' = lf
    /\ LET next == PickNext(nxt', st, lf)
       IN  IF next \subseteq {current}
           THEN /\ state' = [t \in Slots |-> IF t \in next THEN "READY" ELSE st[t]]
                /\ pc' = [pc EXCEPT ![current] = here]
                /\ UNCHANGED current
           ELSE \E t \in alloc' \cap next :
                /\ current' = t
                /\ state' = [st EXCEPT ![t] = "READY"]
                /\ pc' = Resume([pc EXCEPT ![current] = away], t)

-----------------------------------------------------------------------------
Running == pc[current] = "run" /\ ~ring3

\* Mutant: the two links of the insertion are set in the wrong order.
TaskCreateSwapped(t) ==
    /\ Running /\ current = Kernel
    /\ t \notin alloc
    /\ alloc' = alloc \cup {t}
    /\ nxt' = [nxt EXCEPT ![t] = t, ![current] = t]
    /\ state' = [state EXCEPT ![t] = "READY"]
    /\ pc' = [pc EXCEPT ![t] = "run"]
    /\ left' = [left EXCEPT ![t] = 0]
    /\ owed' = [owed EXCEPT ![t] = 0]
    /\ UNCHANGED <<current, tasks, ring3>>

\* task_create; a failed kmalloc changes nothing.
TaskCreate(t) ==
    /\ Running /\ current = Kernel
    /\ t \notin alloc
    /\ alloc' = alloc \cup {t}
    /\ nxt' = [nxt EXCEPT ![t] = nxt[current], ![current] = t]
    /\ state' = [state EXCEPT ![t] = "READY"]
    /\ pc' = [pc EXCEPT ![t] = "run"]
    /\ left' = [left EXCEPT ![t] = 0]
    /\ owed' = [owed EXCEPT ![t] = 0]
    /\ UNCHANGED <<current, tasks, ring3>>

TaskYield ==
    /\ Running /\ current # Idle
    /\ Schedule(state, left, "run", "run")
    /\ UNCHANGED <<ring3, owed>>

\* The section of task_sleep with interrupts off.
TaskSleep(ms) ==
    /\ Running /\ current # Idle
    /\ state' = [state EXCEPT ![current] = "SLEEPING"]
    /\ left' = [left EXCEPT ![current] = Delay(ms)]
    /\ pc' = [pc EXCEPT ![current] = "sleep"]
    /\ owed' = [owed EXCEPT ![current] = ms * Hz]
    /\ UNCHANGED <<alloc, nxt, current, tasks, ring3>>

\* And its call of schedule().
SleepSchedule ==
    /\ pc[current] = "sleep"
    /\ Schedule(state, left, "run", "inSleep")
    /\ UNCHANGED <<ring3, owed>>

\* The entry function returned.
TaskExit ==
    /\ Running /\ current \notin {Kernel, Idle}
    /\ state' = [state EXCEPT ![current] = "DEAD"]
    /\ pc' = [pc EXCEPT ![current] = "exit"]
    /\ UNCHANGED <<alloc, nxt, left, current, tasks, ring3, owed>>

ExitLoop ==
    /\ pc[current] = "exit"
    /\ Schedule(state, left, "exit", "exit")
    /\ UNCHANGED <<ring3, owed>>

\* cmd_kill finds the task, refuses the kernel, and calls task_kill.
TaskKill(t) ==
    /\ Running /\ current = Kernel
    /\ t \in alloc \ {Kernel} /\ state[t] # "DEAD"
    /\ state' = [state EXCEPT ![t] = "DEAD"]
    /\ UNCHANGED <<alloc, nxt, left, current, tasks, pc, ring3, owed>>

\* ku_mode_enter and ku_mode_leave: the ticks in between do not schedule.
EnterRing3 ==
    /\ Running /\ current = Kernel
    /\ ring3' = TRUE
    /\ UNCHANGED <<alloc, nxt, state, left, current, tasks, pc, owed>>

LeaveRing3 ==
    /\ ring3 /\ ring3' = FALSE
    /\ UNCHANGED <<alloc, nxt, state, left, current, tasks, pc, owed>>

Monus(a, b) == IF a > b THEN a - b ELSE 0

\* timer_cb.
Tick ==
    /\ LET lf == [t \in Slots |-> Monus(left[t], 1)]
       IN  IF ring3
           THEN left' = lf /\ UNCHANGED <<alloc, nxt, state, current, tasks, pc>>
           ELSE Schedule(state, lf, pc[current], pc[current])
    /\ owed' = [t \in Slots |-> Monus(owed[t], 1000)]
    /\ UNCHANGED ring3

-----------------------------------------------------------------------------
\* sched_init, then the task_create("idle") of kmain.
Init ==
    /\ alloc = {Kernel, Idle}
    /\ nxt = [t \in Slots |-> IF t = Kernel THEN Idle
                              ELSE IF t = Idle THEN Kernel ELSE t]
    /\ state = [t \in Slots |-> "READY"]
    /\ left = [t \in Slots |-> 0]
    /\ current = Kernel /\ tasks = Kernel
    /\ pc = [t \in Slots |-> "run"]
    /\ ring3 = FALSE
    /\ owed = [t \in Slots |-> 0]

Next ==
    \/ \E t \in Slots : TaskCreate(t) \/ TaskKill(t)
    \/ \E ms \in Durations : TaskSleep(ms)
    \/ TaskYield \/ SleepSchedule \/ TaskExit \/ ExitLoop
    \/ EnterRing3 \/ LeaveRing3 \/ Tick

Spec == Init /\ [][Next]_vars

\* The desktop's loop yields or sleeps after every frame (gui.c).
KernelYields == current = Kernel /\ (TaskYield \/ SleepSchedule)

\* The timer keeps ticking, task_sleep and task_exit get to their schedule(),
\* an isolated application is stopped by its slice deadline, and the kernel
\* task, whatever it does between frames, ends its frames.
FairSpec ==
    Spec /\ WF_vars(Tick) /\ WF_vars(LeaveRing3)
         /\ WF_vars(SleepSchedule) /\ WF_vars(ExitLoop)
         /\ SF_vars(KernelYields)

-----------------------------------------------------------------------------
TypeOK ==
    /\ alloc \subseteq Slots
    /\ nxt \in [Slots -> Slots]
    /\ state \in [Slots -> States]
    /\ left \in [Slots -> Nat]
    /\ current \in Slots /\ tasks \in Slots
    /\ pc \in [Slots -> Labels]
    /\ ring3 \in BOOLEAN
    /\ owed \in [Slots -> Nat]

\* No pointer of the scheduler leads to freed memory: the running task, the
\* head of the list and every next pointer of a live task are live tasks, and
\* no two live tasks have the same successor.
NoDangling ==
    /\ current \in alloc /\ tasks \in alloc
    /\ \A t \in alloc : nxt[t] \in alloc
    /\ \A t, u \in alloc : nxt[t] = nxt[u] => t = u

\* The list is one circle (no part of it closes on itself), so nothing that is
\* allocated is lost to the scans of reap_one, pick_next, task_kill and task_count.
OneRing ==
    \A part \in SUBSET alloc :
        part # {} /\ (\A t \in part : nxt[t] \in part) => part = alloc

\* reap_one never frees the stack the processor is on, or is about to be on.
FreedNotInUse == [][\A t \in alloc \ alloc' : t # current /\ t # current']_vars

\* A switch goes to a live task that was ready, or asleep with its time up; a
\* task that was killed or has exited is never switched to again.
SwitchesToLive ==
    [][current' # current =>
        current' \in alloc' /\ state[current'] # "DEAD" /\ left'[current'] = 0]_vars

ReturnsFromSleep(t) == pc[t] \in {"sleep", "inSleep"} /\ t \in alloc /\ pc'[t] = "run"

\* With the idle task in place, and no more tasks than pick_next looks at,
\* task_sleep(ms) does not return before ms milliseconds' worth of timer
\* interrupts, however the ticks fall between its steps.
SleepLasts ==
    [][\A t \in Slots :
        ReturnsFromSleep(t) /\ Idle \in alloc /\ state[Idle] # "DEAD"
        /\ Cardinality(alloc) <= TURN_LIMIT + 1 => owed'[t] = 0]_vars

\* The shell does not create tasks for ever: each new one goes in front of all
\* that wait, and each schedule() frees one dead task.
CreationEnds == <>[][alloc' \subseteq alloc]_vars

Waiting(t, s) == t \in alloc /\ state[t] = s
RunsOrDies(t) == current = t \/ t \notin alloc \/ state[t] = "DEAD"

\* Round robin: a ready task runs, unless it is killed.
NoStarvation ==
    CreationEnds => \A t \in Slots : Waiting(t, "READY") ~> RunsOrDies(t)

\* A task that sleeps runs again.
SleepersWake ==
    CreationEnds => \A t \in Slots : Waiting(t, "SLEEPING") ~> RunsOrDies(t)

\* The memory of every dead task is given back.
DeadReaped ==
    CreationEnds => \A t \in Slots : Waiting(t, "DEAD") ~> (t \notin alloc)

\* Every ready task runs again, every sleeper wakes up and every exited task is
\* reaped, whatever the others do (sched.c pick_next, reap_one).
EverybodyServed == NoStarvation /\ SleepersWake /\ DeadReaped
=============================================================================
