------------------------------- MODULE UserApp -------------------------------
(***************************************************************************)
(* An isolated application and its window: the dispatcher of               *)
(* kernel/user_mode.c (ku_app_load, ku_app_event, ku_app_unload, traps and *)
(* timer ticks in ring 3) over the services of UserService, and its client *)
(* kernel/kapp.c (kapp_load, isolated_pump, the draw sinks, kapp_unload).  *)
(*                                                                         *)
(* The kernel side runs with interrupts off: it is atomic except while     *)
(* the application runs (pc = "user"), which ends at a tick, a trap or the *)
(* completion of its event.  Inputs are numbered to tell them apart.       *)
(* Canvas sizes are legal, as the GUI's windows are.  Pixels, page tables  *)
(* and trusted ring 0 applications are left out.                           *)
(***************************************************************************)
EXTENDS UserService, Sequences

CONSTANTS
    QUEUE,          \* 8: events waiting behind the pending one
    SLICE,          \* 2 ticks
    SLICE_LIMIT,    \* 25: slices that may end in a yield, in a row
    MaxInputs       \* bound on key presses and clicks in one run

ASSUME DispatchAssumption == {QUEUE, SLICE, SLICE_LIMIT, MaxInputs} \subseteq Nat \ {0}
ASSUME InputsAssumption == 1 .. MaxInputs \subseteq Keys

VARIABLES
    resident,       \* app_resident
    generation,     \* service_generation
    space,          \* the address space: its frames are held, its pins
    events,         \* app_events
    slices,         \* app_slices
    pc,             \* "gui", or "user" while the application runs
    ticks,          \* timer ticks in the last slice
    closing,        \* the slice belongs to kapp_unload
    loaded,         \* kapp.c: an isolated application is loaded
    shown,          \* kapp.c: cl_w > 0 and cl_h > 0
    cache,          \* kapp.c: the recorded draw commands, and whose they are
    typed           \* history: inputs accepted in this run

rest == <<resident, generation, space, events, slices, pc, ticks, closing, loaded, shown, cache, typed>>
vars == <<svc, rest>>

NoSpace == [live |-> FALSE, pins |-> 0]
EmptyCache == [id |-> 0, count |-> 0, owner |-> 0]
Coalesced == {"draw", "tick"}
Inputs == {"key", "click"}

Unpinned(s) == [s EXCEPT !.pins = @ - 1]
SpaceDestroyed(s) == IF s.pins > 0 THEN s ELSE NoSpace

-----------------------------------------------------------------------------
Released == space' = SpaceDestroyed(Unpinned(space))

ClearCache == cache' = EmptyCache

\* ku_app_unload, then the rest of kapp_unload.
Gone ==
    /\ svc' = Dead /\ Released
    /\ events' = <<>> /\ resident' = FALSE
    /\ loaded' = FALSE /\ ClearCache
    /\ pc' = "gui" /\ ticks' = 0 /\ closing' = FALSE /\ typed' = 0
    /\ UNCHANGED <<generation, slices>>

\* Mutant: busy is still set, so ku_app_unload does nothing.
OverflowWhileBusy ==
    /\ loaded' = FALSE /\ ClearCache
    /\ pc' = "gui" /\ ticks' = 0 /\ closing' = FALSE
    /\ UNCHANGED <<svc, space, events, resident, generation, slices, typed>>

\* The queue or the event ids are exhausted: the application is removed.
Overflow == Gone

\* ki_load, ku_load or ks_init failed; what was built is destroyed.
LoadFailed ==
    /\ pc = "gui" /\ ~loaded /\ ~resident /\ generation < GENERATION_MAX
    /\ generation' = generation + 1
    /\ svc' = Dead /\ space' = NoSpace
    /\ UNCHANGED <<resident, events, slices, pc, ticks, closing, loaded, shown, cache, typed>>

Load ==
    /\ pc = "gui" /\ ~loaded /\ ~resident /\ generation < GENERATION_MAX
    /\ generation' = generation + 1
    /\ KsInit(generation + 1)
    /\ space' = [live |-> TRUE, pins |-> 1]
    /\ resident' = TRUE /\ events' = <<>> /\ slices' = 0
    /\ loaded' = TRUE /\ ClearCache
    /\ UNCHANGED <<pc, ticks, closing, shown, typed>>

-----------------------------------------------------------------------------
Waiting(type) == {i \in DOMAIN events : events[i].type = type}

\* Mutant: an input of the same type is overwritten too.
PlaceAnyType(type) ==
    IF Waiting(type) # {} THEN CHOOSE i \in Waiting(type) : TRUE ELSE Len(events) + 1

\* Where an event goes: DRAW and TICK replace one that waits.
Place(type) ==
    IF type \in Coalesced /\ Waiting(type) # {}
    THEN CHOOSE i \in Waiting(type) : \A j \in Waiting(type) : i <= j ELSE Len(events) + 1

\* Mutant: a tick replaces the waiting one with the time of its own alone.
QueuedForgetful(type, delta, key) ==
    LET at == Place(type)
        entry == [type |-> type, delta |-> AtMost(MAX_DELTA, delta), key |-> key]
    IN  IF at <= Len(events) THEN [events EXCEPT ![at] = entry] ELSE Append(events, entry)

Queued(type, delta, key) ==
    LET at == Place(type)
        before == IF type = "tick" /\ at <= Len(events) THEN events[at].delta ELSE 0
        entry == [type |-> type, delta |-> AtMost(MAX_DELTA, AtMost(MAX_DELTA, delta) + before), key |-> key]
    IN  IF at <= Len(events) THEN [events EXCEPT ![at] = entry] ELSE Append(events, entry)

\* The posted event leaves the queue.
Taken(queue) == Tail(queue)

\* ku_app_event up to the return to ring 3.  An address space or a frame that
\* ku_refresh or resume_valid refuses is a fault before the first instruction.
Pump(type, delta, key) ==
    IF Place(type) = QUEUE + 1 \/ (~svc.pending /\ svc.next_event = TOKEN_MAX)
    THEN Overflow
    ELSE LET queue == Queued(type, delta, key)
         IN  /\ IF svc.pending
                THEN events' = queue /\ UNCHANGED svc
                ELSE /\ KsPost(Head(queue).type, Head(queue).delta, Head(queue).key)
                     /\ events' = Taken(queue)
             /\ pc' = "user" /\ ticks' = 0
             /\ typed' = IF type \in Inputs THEN key ELSE typed
             /\ UNCHANGED <<resident, generation, space, slices, loaded, cache>>

\* isolated_pump; the GUI ticks and paints the window, or passes an input.
Refresh(type, delta) ==
    /\ pc = "gui" /\ loaded /\ shown' = TRUE
    /\ Pump(type, delta, 0) /\ closing' = FALSE

Input(type) ==
    /\ pc = "gui" /\ loaded /\ shown' = TRUE /\ typed < MaxInputs
    /\ Pump(type, 0, typed + 1) /\ closing' = FALSE

\* kapp_unload: one last slice for CLOSE, if a window was ever shown.
KappUnload ==
    /\ pc = "gui" /\ loaded
    /\ IF shown THEN Pump("close", 0, 0) /\ closing' = (pc' = "user") ELSE Gone
    /\ UNCHANGED shown

-----------------------------------------------------------------------------
\* Back in the kernel, and kapp_unload after its last slice.
Stay(n) ==
    /\ slices' = n /\ pc' = "gui"
    /\ UNCHANGED <<resident, generation, space, events, closing, loaded, cache, typed>>

\* Mutant: the count of yields starts again with every event.
FinishYieldedAlone ==
    /\ IF closing THEN Gone ELSE Stay(0) /\ ticks' = ticks + 1 /\ UNCHANGED svc
    /\ UNCHANGED shown

FinishYielded ==
    /\ IF slices + 1 >= SLICE_LIMIT \/ closing THEN Gone
       ELSE Stay(slices + 1) /\ ticks' = ticks + 1 /\ UNCHANGED svc
    /\ UNCHANGED shown

\* A timer interrupt in ring 3; the deadline (hz/10 + 2) lies behind the slice.
Tick ==
    /\ pc = "user"
    /\ IF ticks + 1 >= SLICE THEN FinishYielded
       ELSE /\ ticks' = ticks + 1
            /\ UNCHANGED <<svc, resident, generation, space, events, slices, pc,
                           closing, loaded, shown, cache, typed>>

\* KS_COMPLETE of the event ends the slice.
Complete ==
    /\ pc = "user"
    /\ IF closing THEN Current(svc.event.id) /\ Gone
       ELSE KsComplete(svc.event.id) /\ Stay(0) /\ UNCHANGED ticks
    /\ UNCHANGED shown

\* So does an answer KS_AGAIN: KS_WAIT without an event, or KS_CLOCK while
\* the clock is not known.
Again ==
    /\ pc = "user"
    /\ IF closing THEN Gone ELSE Stay(0) /\ UNCHANGED <<svc, ticks>>
    /\ UNCHANGED shown

\* Exit, or a fault.
Stop == pc = "user" /\ Gone /\ UNCHANGED shown

Wait == pc = "user" /\ KsWait /\ UNCHANGED rest

\* isolated_sink: the first command of a draw event drops the old picture.
Sink(n) ==
    LET base == IF cache.id = svc.event.id THEN cache.count ELSE 0
    IN  cache' = [id |-> svc.event.id, owner |-> generation,
                  count |-> IF n > DRAW_BUDGET - base THEN base ELSE base + n]

UserOnly == UNCHANGED <<resident, generation, space, events, slices, pc, ticks, closing, loaded, shown, typed>>

Draw ==
    /\ pc = "user"
    /\ \E n \in 1 .. DRAW_BUDGET : \E visible \in 0 .. n :
        KsDraw(svc.event.id, n) /\ Sink(visible)
    /\ UserOnly

Text ==
    /\ pc = "user"
    /\ \E n \in 1 .. TEXT_BUDGET : KsText(svc.event.id, n)
    /\ Sink(1) \/ UNCHANGED cache
    /\ UserOnly

UseFiles == pc = "user" /\ FileCall /\ UNCHANGED rest

-----------------------------------------------------------------------------
AppInit ==
    /\ Init
    /\ resident = FALSE /\ generation = 0 /\ space = NoSpace
    /\ events = <<>> /\ slices = 0 /\ pc = "gui" /\ ticks = 0 /\ closing = FALSE
    /\ loaded = FALSE /\ shown = FALSE /\ cache = EmptyCache /\ typed = 0

AppNext ==
    \/ Load \/ LoadFailed \/ KappUnload
    \/ Refresh("draw", 0)
    \/ \E delta \in 0 .. MAX_DELTA : Refresh("tick", delta)
    \/ \E type \in Inputs : Input(type)
    \/ Tick \/ Complete \/ Again \/ Stop
    \/ Wait \/ Draw \/ Text \/ UseFiles

AppSpec == AppInit /\ [][AppNext]_vars

\* The timer interrupts ring 3, and the GUI refreshes a window on the screen.
FairSpec ==
    /\ AppSpec
    /\ WF_vars(Tick)
    /\ WF_vars(Refresh("tick", 0))

-----------------------------------------------------------------------------
AppTypeOK ==
    /\ TypeOK
    /\ resident \in BOOLEAN /\ loaded \in BOOLEAN /\ shown \in BOOLEAN /\ closing \in BOOLEAN
    /\ generation \in 0 .. GENERATION_MAX
    /\ space \in [live : BOOLEAN, pins : {0, 1}]
    /\ events \in Seq([type : Types, delta : 0 .. MAX_DELTA, key : Keys \cup {0}])
    /\ slices \in 0 .. SLICE_LIMIT - 1 /\ ticks \in 0 .. SLICE
    /\ pc \in {"gui", "user"} /\ typed \in 0 .. MaxInputs
    /\ cache \in [id : 0 .. TOKEN_MAX, count : 0 .. DRAW_BUDGET, owner : 0 .. GENERATION_MAX]

\* kapp.c and user_mode.c agree on whether an application is there, and its
\* services and pinned address space exist exactly as long: no refused unload
\* leaves half an application behind, which would block every later load.
LayersAgree ==
    /\ loaded = resident /\ svc.live = resident
    /\ space = IF resident THEN [live |-> TRUE, pins |-> 1] ELSE NoSpace
    /\ resident => svc.generation = generation
    /\ ~resident => events = <<>> /\ pc = "gui"

\* The inputs that wait, in the order in which the application gets them: the
\* pending event at 0, before the queue.
At(i) == IF i = 0 THEN svc.event ELSE events[i]
InLine == {i \in 0 .. Len(events) : (i = 0 => svc.pending) /\ At(i).type \in Inputs}

\* No key press or click is lost, repeated or overtaken by another, whatever
\* is coalesced around them.
InputInOrder ==
    \E done \in 0 .. typed :
        /\ {At(i).key : i \in InLine} = done + 1 .. typed
        /\ \A i, j \in InLine : i < j => At(i).key < At(j).key

\* What a paint pass replays was drawn by the application in the window, for
\* one draw event: no command of an earlier application or event is left.
ReplayOwn ==
    cache.id # 0 => loaded /\ cache.owner = generation /\ cache.id <= svc.next_event

\* The recorder of kapp.c never has to drop a command the service accepted.
NothingDropped ==
    svc.pending /\ cache.id = svc.event.id => cache.count + svc.draw_left <= DRAW_BUDGET

\* What a window shows was drawn by the application in it, for one event, and
\* all of it; key presses and clicks reach it in order (kapp.c, user_mode.c).
InputAndDrawingOwn == InputInOrder /\ ReplayOwn /\ NothingDropped

\* An application that stays for ever completes events or waits for ever: one
\* that only computes is stopped, however its events are spread.
RunawayStopped == []<>(~resident) \/ []<><<Complete \/ Again>>_vars

\* The window's events as the application is promised them: the queue as the
\* set of what waits in it, and of an event what its type gives a meaning to.
Seen(e) ==
    [type |-> e.type, delta |-> IF e.type = "tick" THEN e.delta ELSE 0,
     key |-> IF e.type \in Inputs THEN e.key ELSE 0]
SeenIn(queue) == {Seen(queue[i]) : i \in DOMAIN queue}
Served == IF svc.pending THEN Seen(svc.event) ELSE Seen(NoEvent)
Box ==
    IF resident THEN [on |-> TRUE, waiting |-> SeenIn(events), given |-> typed, now |-> Served]
    ELSE [on |-> FALSE, waiting |-> {}, given |-> 0, now |-> Seen(NoEvent)]

Mail == INSTANCE Mailbox WITH MaxTime <- MAX_DELTA, box <- Box

\* Whatever is merged, postponed or refused in the queue of ku_app_event, no
\* repaint and no time of the clock (up to 250 ms) is lost to the application,
\* no input is overtaken, and an event is served only once it was answered for
\* the one before.
ImplementsMailbox == Mail!Spec
=============================================================================
