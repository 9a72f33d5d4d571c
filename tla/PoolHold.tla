------------------------------ MODULE PoolHold ------------------------------
(***************************************************************************)
(* What the task pool promises about its machines (the comments of         *)
(* findFreePoolWorker and releaseTaskWorker, services/tasks.ts): a machine *)
(* is taken only while no task holds it, and held until its task is over.  *)
(* A person who answers the live session of a task that is over re-opens   *)
(* it on the machine it had, whoever holds that by then.                   *)
(***************************************************************************)
CONSTANTS Tasks, Workers

VARIABLES
    hold,      \* per machine, the live tasks that hold it
    reopened   \* the tasks a person re-opened

vars == <<hold, reopened>>

Init ==
    /\ hold = [w \in Workers |-> {}]
    /\ reopened = {}

Take(t, w) ==
    /\ hold[w] = {}
    /\ \A v \in Workers : t \notin hold[v]
    /\ hold' = [hold EXCEPT ![w] = {t}]
    /\ UNCHANGED reopened

GiveBack(over) ==
    /\ hold' = [w \in Workers |-> hold[w] \ over]
    /\ UNCHANGED reopened

Reopen(t, w) ==
    /\ \A v \in Workers : t \notin hold[v]
    /\ hold' = [hold EXCEPT ![w] = @ \cup {t}]
    /\ reopened' = reopened \cup {t}

(* Its machine deleted meanwhile, a re-opened task holds none. *)
ReopenNowhere(t) ==
    /\ reopened' = reopened \cup {t}
    /\ UNCHANGED hold

Next ==
    \/ \E t \in Tasks, w \in Workers : Take(t, w) \/ Reopen(t, w)
    \/ \E over \in SUBSET Tasks : GiveBack(over)
    \/ \E t \in Tasks : ReopenNowhere(t)

Spec == Init /\ [][Next]_vars

-----------------------------------------------------------------------------
TypeOK ==
    /\ hold \in [Workers -> SUBSET Tasks]
    /\ reopened \in SUBSET Tasks

(* No two tasks hold a machine together, unless one of them was re-opened. *)
Exclusive ==
    \A w \in Workers : \A t, u \in hold[w] : t = u \/ t \in reopened \/ u \in reopened
=============================================================================
