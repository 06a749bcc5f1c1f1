------------------------------- MODULE Mailbox -------------------------------
(***************************************************************************)
(* What an isolated application is promised of the events of its window    *)
(* (ku_app_event and KS_COMPLETE): it serves one request at a time, and    *)
(* what is asked for meanwhile waits.  One repaint and one tick wait at    *)
(* most; the waiting tick stands for all the time that passed, up to       *)
(* MaxTime.  Every key press and click waits, and they are served in the   *)
(* order in which they came.  Between the kinds no order is promised.      *)
(***************************************************************************)
EXTENDS Integers

CONSTANT MaxTime        \* the most time one tick can stand for

VARIABLE box    \* the application is there; requests; the last input; what is served

Idle == [type |-> "none", delta |-> 0, key |-> 0]
Off == [on |-> FALSE, waiting |-> {}, given |-> 0, now |-> Idle]
Full(waiting, given, now) == [on |-> TRUE, waiting |-> waiting, given |-> given, now |-> now]

Typed == {"key", "click"}
Merged == {"draw", "tick"}

Least(a, b) == IF a < b THEN a ELSE b

\* The requests that r is merged with, and what then waits in their place.
Same(waiting, r) == {w \in waiting : w.type = r.type /\ r.type \in Merged}
Whole(waiting, r) ==
    LET same == Same(waiting, r)
        passed == IF same = {} THEN 0 ELSE (CHOOSE w \in same : TRUE).delta
    IN  [r EXCEPT !.delta = Least(MaxTime, @ + passed)]
With(waiting, r) == (waiting \ Same(waiting, r)) \cup {Whole(waiting, r)}

\* What may be served next: anything but an input that another one precedes.
Ready(waiting) ==
    {r \in waiting : r.type \in Typed => \A w \in waiting : w.type \in Typed => r.key <= w.key}

Start == ~box.on /\ box' = Full({}, 0, Idle)

End == box' = Off

\* A request comes in; an application that is idle is given one of those that
\* wait, in the same step.
Ask(r) ==
    /\ box.on
    /\ r.type \in Typed => r.key = box.given + 1
    /\ LET waiting == With(box.waiting, r)
           given == IF r.type \in Typed THEN r.key ELSE box.given
       IN  IF box.now # Idle
           THEN box' = Full(waiting, given, box.now)
           ELSE \E next \in Ready(waiting) :
                    box' = Full(waiting \ {next}, given, next)

Answer == box.now # Idle /\ box' = Full(box.waiting, box.given, Idle)

Init == box = Off

Next ==
    \/ Start \/ End \/ Answer
    \/ \E delta \in 0 .. MaxTime : Ask([type |-> "tick", delta |-> delta, key |-> 0])
    \/ \E type \in {"draw", "close"} : Ask([type |-> type, delta |-> 0, key |-> 0])
    \/ \E type \in Typed : Ask([type |-> type, delta |-> 0, key |-> box.given + 1])

Spec == Init /\ [][Next]_box
=============================================================================
