------------------------------ MODULE TaskService ------------------------------
(***************************************************************************)
(* What a collector promises to those who submit query tasks, without     *)
(* queues, workers or timers: a task is answered at most once, only after  *)
(* it was submitted, and it is lost only when its client withdrew it or    *)
(* the collector was told to stop.  Collector.tla implements this module.  *)
(***************************************************************************)
CONSTANT Task               \* the tasks clients may submit

VARIABLES
    state,                  \* the life of every task
    withdrawn,              \* tasks whose client no longer waits for them
    stopped                 \* the service was told to stop

serviceVars == <<state, withdrawn, stopped>>

TaskState == {"new", "pending", "answered", "dropped"}

Init ==
    /\ state = [t \in Task |-> "new"]
    /\ withdrawn = {}
    /\ stopped = FALSE

(* The client hands the task over. *)
Submit(t) ==
    /\ state[t] = "new"
    /\ state' = [state EXCEPT ![t] = "pending"]
    /\ UNCHANGED <<withdrawn, stopped>>

(* A service that is not running yet answers on the spot. *)
Refuse(t) ==
    /\ state[t] = "new"
    /\ state' = [state EXCEPT ![t] = "answered"]
    /\ UNCHANGED <<withdrawn, stopped>>

Answer(t) ==
    /\ state[t] = "pending"
    /\ state' = [state EXCEPT ![t] = "answered"]
    /\ UNCHANGED <<withdrawn, stopped>>

(* A task is lost only with a reason. *)
Drop(t) ==
    /\ state[t] = "pending"
    /\ t \in withdrawn \/ stopped
    /\ state' = [state EXCEPT ![t] = "dropped"]
    /\ UNCHANGED <<withdrawn, stopped>>

(* Clients may lose interest, several at once when their source stops. *)
Withdraw ==
    /\ \E ts \in SUBSET Task : withdrawn' = withdrawn \cup ts
    /\ UNCHANGED <<state, stopped>>

Stop ==
    /\ stopped' = TRUE
    /\ UNCHANGED <<state, withdrawn>>

Next ==
    \/ Withdraw
    \/ Stop
    \/ \E t \in Task : Submit(t) \/ Refuse(t) \/ Answer(t) \/ Drop(t)

Spec == Init /\ [][Next]_serviceVars
================================================================================
