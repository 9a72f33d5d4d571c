------------------------------ MODULE Resources ------------------------------
(***************************************************************************)
(* What the machine spends: the overview of everything Lite has on the     *)
(* Docker daemon (services/resources.ts), put together from rows read      *)
(* first and from what the daemon says later, while both move.             *)
(***************************************************************************)
EXTENDS Naturals

CONSTANTS
    Machines,  \* workers
    Daemons,   \* shared services
    Owning,    \* projects with a shared volume
    Views      \* overviews being put together

VARIABLES
    entry,     \* per worker and service, its row: none, its state, has it a container
    live,      \* workers and services whose container runs
    owned,     \* projects there are
    declared,  \* projects that declare their shared volume
    disk,      \* volumes and images on the daemon
    view       \* per overview, what it has read and what it says

vars == <<entry, live, owned, declared, disk, view>>

Parts == Machines \cup Daemons
States == {"none", "provisioning", "starting", "ready", "stopped", "error"}
Entry == [state : States, container : BOOLEAN]
NoEntry == [state |-> "none", container |-> FALSE]

(* A volume's name says whose it is and what for; an image's, whose. *)
Things == [kind : {"workspace"}, of : Machines] \cup [kind : {"service"}, of : Daemons]
          \cup [kind : {"shared", "image"}, of : Owning] \cup [kind : {"other"}, of : {"somebody"}]
Shown == [state : States, running : BOOLEAN, stats : BOOLEAN]
NotShown == [state |-> "none", running |-> FALSE, stats |-> FALSE]
NoView == [pc |-> "idle", entry |-> [o \in Parts |-> NoEntry], owned |-> {}, declared |-> {},
           left |-> {}, df |-> "todo", disk |-> {}, shown |-> [o \in Parts |-> NotShown],
           kept |-> {}]

ResourceTypes ==
    /\ entry \in [Parts -> Entry] /\ live \subseteq Parts
    /\ owned \subseteq Owning /\ declared \subseteq Owning /\ disk \subseteq Things
    /\ \A q \in Views :
          /\ view[q].pc \in {"idle", "asking", "answered"} /\ view[q].entry \in [Parts -> Entry]
          /\ view[q].owned \subseteq Owning /\ view[q].left \subseteq Parts
          /\ view[q].df \in {"todo", "done", "failed"} /\ view[q].disk \subseteq Things
          /\ view[q].shown \in [Parts -> Shown] /\ view[q].kept \subseteq Things

-----------------------------------------------------------------------------
(* The overview. *)

getResourcesOverview(q) ==
    /\ view[q].pc = "idle"
    /\ view' = [view EXCEPT ![q] =
           [NoView EXCEPT !.pc = "asking", !.entry = entry, !.owned = owned, !.declared = declared,
                          !.left = {o \in Parts : entry[o].container}, !.kept = disk,
                          !.shown = [o \in Parts |-> [NotShown EXCEPT !.state = entry[o].state]]]]
    /\ UNCHANGED <<entry, live, owned, declared, disk>>

(* A container that is gone reads as stopped, one that lives as no longer so; what a *)
(* refused inspect says nothing about stays as the row has it.                        *)
correctedWorker(state, runs) ==
    IF ~runs THEN "stopped" ELSE IF state = "stopped" THEN "ready" ELSE state
correctedService(state, runs) ==
    IF ~runs THEN IF state = "error" THEN "error" ELSE "stopped" ELSE "ready"

Inspect(q, o) ==
    LET state == view[q].entry[o].state
        runs == o \in live
        corrected == IF o \in Machines THEN correctedWorker(state, runs)
                     ELSE correctedService(state, runs) IN
    /\ view[q].pc = "asking" /\ o \in view[q].left
    /\ \E said \in {[state |-> state, running |-> FALSE, stats |-> FALSE]}
                   \cup [state : {corrected}, running : {runs}, stats : {FALSE, runs}] :
           view' = [view EXCEPT ![q].left = @ \ {o}, ![q].shown[o] = said]
    /\ UNCHANGED <<entry, live, owned, declared, disk>>

getSystemDf(q, says) ==
    /\ view[q].pc = "asking" /\ view[q].df = "todo"
    /\ view' = [view EXCEPT ![q].df = says, ![q].disk = IF says = "done" THEN disk ELSE {}]
    /\ UNCHANGED <<entry, live, owned, declared, disk>>

(* What is ours is listed, of a project even when it no longer declares the volume, or *)
(* is gone.                                                                            *)
ours(thing) == thing.kind # "other"
declaredOnly(q, thing) ==  \* mutant: a volume nobody declares any more is left out
    /\ ours(thing) /\ thing.kind = "shared" => thing.of \in view[q].declared
listed(q, thing) == ours(thing)

Answer(q) ==
    /\ view[q].pc = "asking" /\ view[q].left = {} /\ view[q].df # "todo"
    /\ view' = [view EXCEPT ![q].pc = "answered", ![q].disk = {t \in @ : listed(q, t)}]
    /\ UNCHANGED <<entry, live, owned, declared, disk>>
Read(q) ==
    /\ view[q].pc = "answered" /\ view' = [view EXCEPT ![q] = NoView]
    /\ UNCHANGED <<entry, live, owned, declared, disk>>

-----------------------------------------------------------------------------
(* What workers, services and projects do meanwhile. *)

Settled == UNCHANGED <<owned, declared>>
own(o) == {t \in Things : t.of = o /\ t.kind \in {"workspace", "service"}}
stillKept(removed) == [q \in Views |-> [view[q] EXCEPT !.kept = @ \ removed]]

RowInserted(o) ==
    /\ entry[o] = NoEntry /\ entry' = [entry EXCEPT ![o].state = "provisioning"]
    /\ UNCHANGED <<live, disk, view>> /\ Settled
Created(o) ==
    /\ entry[o].state = "provisioning"
    /\ entry' = [entry EXCEPT ![o] = [state |-> "starting", container |-> TRUE]]
    /\ live' = live \cup {o} /\ disk' = disk \cup own(o) /\ UNCHANGED view /\ Settled
Reconciled(o, state) ==
    /\ entry[o].container /\ state \in {"ready", "error"} /\ entry[o].state # "stopped"
    /\ entry' = [entry EXCEPT ![o].state = state]
    /\ UNCHANGED <<live, disk, view>> /\ Settled
StopWritten(o) ==
    /\ entry[o].container /\ entry' = [entry EXCEPT ![o].state = "stopped"]
    /\ UNCHANGED <<live, disk, view>> /\ Settled
GoesDown(o) ==
    /\ o \in live /\ live' = live \ {o}
    /\ UNCHANGED <<entry, disk, view>> /\ Settled
Started(o) ==
    /\ entry[o].container /\ o \notin live /\ live' = live \cup {o}
    /\ entry' = [entry EXCEPT ![o].state = "starting"]
    /\ UNCHANGED <<disk, view>> /\ Settled
Removed(o) ==
    /\ entry[o].container /\ own(o) \subseteq disk
    /\ live' = live \ {o} /\ disk' = disk \ own(o) /\ view' = stillKept(own(o))
    /\ UNCHANGED entry /\ Settled
RowDeleted(o) ==
    /\ entry[o].container /\ own(o) \cap disk = {} /\ entry' = [entry EXCEPT ![o] = NoEntry]
    /\ UNCHANGED <<live, disk, view>> /\ Settled

Declared(p) ==
    /\ p \in owned /\ declared' = declared \cup {p}
    /\ disk' = disk \cup {t \in Things : t.of = p}
    /\ UNCHANGED <<entry, live, owned, view>>
Undeclared(p) ==
    /\ p \in declared /\ declared' = declared \ {p}
    /\ owned' \in {owned, owned \ {p}}
    /\ UNCHANGED <<entry, live, disk, view>>

Init ==
    /\ entry = [o \in Parts |-> [state |-> "ready", container |-> TRUE]] /\ live = Parts
    /\ owned = Owning /\ declared = {} /\ disk = [kind : {"other"}, of : {"somebody"}]
                                                 \cup UNION {own(o) : o \in Parts}
    /\ view = [q \in Views |-> NoView]

Steps ==
    \/ \E q \in Views : \/ \E o \in Parts : Inspect(q, o)
                        \/ \E says \in {"done", "failed"} : getSystemDf(q, says)
                        \/ Answer(q) \/ Read(q)
    \/ \E o \in Parts : Created(o) \/ RowDeleted(o)
Events ==
    \/ \E q \in Views : getResourcesOverview(q)
    \/ \E o \in Parts : \/ RowInserted(o) \/ StopWritten(o) \/ GoesDown(o) \/ Started(o) \/ Removed(o)
                        \/ \E state \in {"ready", "error"} : Reconciled(o, state)
    \/ \E p \in Owning : Declared(p) \/ Undeclared(p)

Next == Events \/ Steps
Spec == Init /\ [][Next]_vars

-----------------------------------------------------------------------------
(* services/resources.ts:155: what takes disk never becomes invisible.  A volume or an  *)
(* image of ours that is there for the whole of a request is in its answer, though its    *)
(* worker, its service or its project came or went while the answer was put together;      *)
(* unless the daemon would not say.                                                         *)
NothingHidden ==
    \A q \in Views : view[q].pc = "answered" /\ view[q].df = "done" =>
        {t \in view[q].kept : ours(t)} \subseteq view[q].disk
=============================================================================
