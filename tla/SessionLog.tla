----------------------------- MODULE SessionLog -----------------------------
(***************************************************************************)
(* What the ingestion of agent sessions promises (the head comment of      *)
(* services/task-events.ts): one log per task, dense and only ever added   *)
(* to at its end, that takes each line of a session's stream once, in the  *)
(* order it was written, and never goes back to an earlier session.        *)
(***************************************************************************)
EXTENDS StreamLines

CONSTANT Commands

VARIABLES
    stream, \* per session, what its harness wrote
    taken,  \* per session, how far its stream is in the log
    log     \* the task's events, in order

vars == <<stream, taken, log>>

Init ==
    /\ stream = [c \in Commands |-> <<>>]
    /\ taken = [c \in Commands |-> 0]
    /\ log \in Seq([cmd : Commands, at : {0}, type : {"user"}])

Write(c, u) ==
    /\ stream' = [stream EXCEPT ![c] = Append(@, u)]
    /\ UNCHANGED <<taken, log>>

Take(c, to) ==
    /\ taken[c] < to
    /\ \A d \in Commands : d > c => taken[d] = 0
    /\ taken' = [taken EXCEPT ![c] = to]
    /\ log' = log \o parseLines(c, stream[c], taken[c], to)
    /\ UNCHANGED stream

Say(event) ==
    /\ event.type \in {"user", "title"}
    /\ log' = Append(log, event)
    /\ UNCHANGED <<stream, taken>>

Next ==
    \/ \E c \in Commands : \/ \E u \in Units : Write(c, u)
                           \/ \E to \in 1..Len(stream[c]) : Take(c, to)
    \/ \E c \in Commands, type \in {"user", "title"} :
           Say([cmd |-> c, at |-> 0, type |-> type])

Spec == Init /\ [][Next]_vars
=============================================================================
