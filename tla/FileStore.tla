----------------------------- MODULE FileStore ------------------------------
(***************************************************************************)
(* What kernel/kvfs.c promises its callers: a table from names to whole    *)
(* contents.  A call that succeeds took effect, once; a call that reports  *)
(* an error had no effect, or its whole effect and then the volume is      *)
(* withdrawn; a power loss decides a pending call one way or the other.    *)
(* Only formatting may lose files, and only whole ones.                    *)
(***************************************************************************)
CONSTANTS Names, Contents, Missing

VARIABLES
    store,    \* name -> contents or Missing
    pending,  \* the call in progress
    reply,    \* the result of the last call: "ok", "error", "none"
    mounted   \* calls are accepted

NoCall == [op |-> "none"]

\* The store after the pending call.
Apply ==
    CASE pending.op = "write" -> [store EXCEPT ![pending.name] = pending.data]
      [] pending.op = "delete" -> [store EXCEPT ![pending.name] = Missing]
      [] pending.op = "rename" ->
            [store EXCEPT ![pending.to] = store[pending.name], ![pending.name] = Missing]
      [] OTHER -> store

Init ==
    /\ store = [n \in Names |-> Missing]
    /\ pending = NoCall /\ reply = "none" /\ mounted = FALSE

Begin ==
    /\ mounted /\ pending = NoCall
    /\ \/ \E n \in Names, c \in Contents : pending' = [op |-> "write", name |-> n, data |-> c]
       \/ \E n \in Names : pending' = [op |-> "delete", name |-> n]
       \/ \E n, m \in Names :
            n # m /\ store[m] = Missing /\ pending' = [op |-> "rename", name |-> n, to |-> m]
    /\ reply' = "none"
    /\ UNCHANGED <<store, mounted>>

Succeed ==
    /\ pending # NoCall /\ pending.op # "format"
    /\ store' = Apply /\ reply' = "ok"
    /\ pending' = NoCall /\ UNCHANGED mounted

Fail ==
    /\ pending # NoCall /\ pending.op # "format"
    /\ \/ UNCHANGED <<store, mounted>>
       \/ store' \in {store, Apply} /\ mounted' = FALSE
    /\ pending' = NoCall /\ reply' = "error"

\* A call refused for its arguments, for space or by a fault changes nothing.
Refuse ==
    /\ pending = NoCall /\ reply' = "error"
    /\ UNCHANGED <<store, pending, mounted>>

Format ==
    \/ /\ pending = NoCall /\ pending' = [op |-> "format"]
       /\ mounted' = FALSE /\ reply' = "none" /\ UNCHANGED store
    \/ /\ pending = [op |-> "format"]
       /\ \A n \in Names : store'[n] \in {store[n], Missing}
       /\ \/ UNCHANGED <<pending, reply, mounted>>
          \/ pending' = NoCall /\ reply' = "error" /\ UNCHANGED mounted
          \/ /\ store' = [n \in Names |-> Missing]
             /\ pending' = NoCall /\ reply' = "ok" /\ mounted' = TRUE

Mount ==
    /\ pending = NoCall /\ reply' \in {"ok", "error"} /\ mounted' = (reply' = "ok")
    /\ UNCHANGED <<store, pending>>

PowerLoss ==
    /\ pending' = NoCall /\ reply' = "none" /\ mounted' = FALSE
    /\ UNCHANGED store

Next == Begin \/ Succeed \/ Fail \/ Refuse \/ Format \/ Mount \/ PowerLoss

Spec == Init /\ [][Next]_<<store, pending, reply, mounted>>
=============================================================================
