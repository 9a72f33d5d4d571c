--------------------------- MODULE SharedServices ---------------------------
(***************************************************************************)
(* Shared services (services/services.ts): one container per row, reached  *)
(* by every worker under the service's slug on the shared network.  What a *)
(* service is (image, environment, ports, slug) is baked in its container; *)
(* the slug stands for all of it.                                          *)
(***************************************************************************)
EXTENDS Naturals, FiniteSets

CONSTANTS
    Services, \* ids services may get
    Slugs,    \* what services may be
    Starts,   \* start pipelines in flight at once
    Asks,     \* updates, deletes, stops and restarts in flight at once
    Glances,  \* polls (refreshService) in flight at once
    MaxUnits  \* bound: containers created

VARIABLES
    service, \* rows of `services`
    unit,    \* per service, the container of its name
    data,    \* services with volumes on the daemon
    start,   \* pipelines in flight
    ask,     \* requests in flight
    glance,  \* polls in flight
    units,   \* containers created so far
    outrun,  \* history: services changed under a start that had read them, or whose
             \* new container a poll of the old one made Lite forget
    stuck    \* history: services whose container, as it is, the daemon refused to remove

vars == <<service, unit, data, start, ask, glance, units, outrun, stuck>>

Missing == [missing |-> TRUE]
Gone == [gone |-> TRUE] \* a row that was deleted
States == {"starting", "ready", "stopped", "error"} \* `provisioning` is over before it is seen
ServiceRow == [slug : Slugs, container : 0..MaxUnits, state : States]
Unit == [id : 1..MaxUnits, up : BOOLEAN, end : {"", "stop", "clean", "failed"}, slug : Slugs]
StartJob == [pc : {"idle", "inspect", "create", "record"}, s : Services, slug : Slugs,
             unit : 0..MaxUnits]
Ask == [pc : {"idle", "update", "delete", "stop", "restart"}, s : Services,
        container : 0..MaxUnits, before : States]
Glance == [pc : {"idle", "inspect"}, s : Services, container : 0..MaxUnits, state : States]

ServiceTypes ==
    /\ service \in [Services -> ServiceRow \cup {Missing, Gone}]
    /\ unit \in [Services -> Unit \cup {Missing}] /\ data \subseteq Services
    /\ start \in [Starts -> StartJob] /\ ask \in [Asks -> Ask] /\ glance \in [Glances -> Glance]
    /\ units \in 0..MaxUnits /\ outrun \subseteq Services /\ stuck \subseteq Services

exists(s) == service[s] \notin {Missing, Gone}
is(s, container) == unit[s] # Missing /\ unit[s].id = container
Update(s, row) == service' = IF exists(s) THEN [service EXCEPT ![s] = row] ELSE service

anyService == CHOOSE s \in Services : TRUE
NoStart == [pc |-> "idle", s |-> anyService, slug |-> CHOOSE g \in Slugs : TRUE, unit |-> 0]
NoAsk == [pc |-> "idle", s |-> anyService, container |-> 0, before |-> "ready"]
NoGlance == [pc |-> "idle", s |-> anyService, container |-> 0, state |-> "ready"]

starting(s) == \E p \in Starts : start[p].pc # "idle" /\ start[p].s = s
updating(s) == \E q \in Asks : ask[q].pc = "update" /\ ask[q].s = s

(* getServiceBySlug: a slug is a host name. *)
clash(s, slug) == \E other \in Services \ {s} : exists(other) /\ service[other].slug = slug

-----------------------------------------------------------------------------
(* The start pipeline. *)

Begun(p, s, slug) ==
    /\ start[p].pc = "idle"
    /\ start' = [start EXCEPT ![p] = [NoStart EXCEPT !.pc = "inspect", !.s = s, !.slug = slug]]

silent(p) == start' = [start EXCEPT ![p] = NoStart] /\ UNCHANGED service  \* mutant: it is only logged
Failed(p) ==
    LET s == start[p].s IN
    /\ Update(s, [service[s] EXCEPT !.state = "error"])
    /\ start' = [start EXCEPT ![p] = NoStart]

(* spawnServiceContainer: a container of this name is taken as it is, if it is *)
(* up or can be started (its ports may be taken); else it passes for absent.   *)
Existing(p) ==
    LET s == start[p].s IN
    /\ start[p].pc = "inspect"
    /\ \/ /\ unit[s] # Missing
          /\ unit' = [unit EXCEPT ![s] = [@ EXCEPT !.up = TRUE, !.end = ""]]
          /\ start' = [start EXCEPT ![p].pc = "record", ![p].unit = unit[s].id]
          /\ UNCHANGED <<service, data>>
       \/ /\ data' = data \cup {s}
          /\ start' = [start EXCEPT ![p].pc = "create"]
          /\ UNCHANGED <<service, unit>>
    /\ UNCHANGED <<ask, glance, units, outrun, stuck>>

(* The image may not be there, the name be taken; what was created may not start. *)
spawnServiceContainer(p) ==
    LET s == start[p].s IN
    /\ start[p].pc = "create"
    /\ \/ \E up \in BOOLEAN :
          /\ unit[s] = Missing /\ units < MaxUnits
          /\ units' = units + 1
          /\ unit' = [unit EXCEPT ![s] = [id |-> units + 1, up |-> up, end |-> "",
                                          slug |-> start[p].slug]]
          /\ stuck' = stuck \ {s}
          /\ \/ /\ up /\ start' = [start EXCEPT ![p].pc = "record", ![p].unit = units + 1]
                /\ UNCHANGED service
             \/ Failed(p)
       \/ Failed(p) /\ UNCHANGED <<unit, units, stuck>>
    /\ UNCHANGED <<data, ask, glance, outrun>>

Recorded(p) ==
    LET s == start[p].s IN
    /\ start[p].pc = "record"
    /\ Update(s, [service[s] EXCEPT !.container = start[p].unit, !.state = "ready"])
    /\ start' = [start EXCEPT ![p] = NoStart]
    /\ UNCHANGED <<unit, data, ask, glance, units, outrun, stuck>>

-----------------------------------------------------------------------------
(* Requests. *)

createService(s, slug, p, up) ==
    /\ service[s] = Missing /\ ~clash(s, slug)
    /\ service' = [service EXCEPT ![s] =
           [slug |-> slug, container |-> 0, state |-> IF up THEN "starting" ELSE "stopped"]]
    /\ IF up THEN Begun(p, s, slug) ELSE UNCHANGED start
    /\ UNCHANGED <<unit, data, ask, glance, units, outrun, stuck>>

startService(s, p) ==
    /\ exists(s)
    /\ Update(s, [service[s] EXCEPT !.state = "starting"])
    /\ Begun(p, s, service[s].slug)
    /\ UNCHANGED <<unit, data, ask, glance, units, outrun, stuck>>

Asked(q, s, pc) ==
    /\ ask[q].pc = "idle" /\ exists(s)
    /\ ask' = [ask EXCEPT ![q] = [pc |-> pc, s |-> s, container |-> service[s].container,
                                  before |-> service[s].state]]
Answered(q) == ask' = [ask EXCEPT ![q] = NoAsk]

(* The row first; the container is recreated to be what it says, if it was up. *)
updateService(q, s, slug) ==
    /\ Asked(q, s, "update") /\ ~clash(s, slug)
    /\ Update(s, [service[s] EXCEPT !.slug = slug])
    /\ outrun' = IF starting(s) THEN outrun \cup {s} ELSE outrun
    /\ UNCHANGED <<unit, data, start, glance, units, stuck>>

Down(s, end) == [unit EXCEPT ![s] = [@ EXCEPT !.up = FALSE, !.end = end]]
leaveIt(s) == UNCHANGED <<unit, stuck>>  \* mutant: the container is only restarted
(* By its id, or by its name when the row had none or another.  A refusal is   *)
(* caught by who asked, and the container stands, stopped or not.              *)
removeServiceContainer(s) ==
    \/ unit' = [unit EXCEPT ![s] = Missing] /\ stuck' = stuck \ {s}
    \/ /\ unit[s] # Missing /\ stuck' = stuck \cup {s}
       /\ \/ unit[s].up /\ unit' = Down(s, "stop")
          \/ UNCHANGED unit

Recreated(q, p) ==
    LET s == ask[q].s wasUp == ask[q].before \in {"ready", "starting"} IN
    /\ ask[q].pc = "update"
    /\ removeServiceContainer(s)
    /\ Update(s, [service[s] EXCEPT !.container = 0,
                                    !.state = IF wasUp THEN "starting" ELSE "stopped"])
    /\ IF wasUp /\ exists(s) THEN Begun(p, s, service[s].slug) ELSE UNCHANGED start
    /\ Answered(q)
    /\ UNCHANGED <<data, glance, units, outrun>>

deleteService(q, s) ==
    /\ Asked(q, s, "delete")
    /\ UNCHANGED <<service, unit, data, start, glance, units, outrun, stuck>>

(* Its volumes go with it, those the daemon lets go of. *)
removeService(q) ==
    LET s == ask[q].s IN
    /\ ask[q].pc = "delete"
    /\ removeServiceContainer(s)
    /\ \/ UNCHANGED data
       \/ unit'[s] = Missing /\ data' = data \ {s}
    /\ service' = [service EXCEPT ![s] = Gone]
    /\ Answered(q)
    /\ UNCHANGED <<start, glance, units, outrun>>

(* A stop is written first, too; with no container there is nothing to wait for. *)
stopService(q, s) ==
    /\ ask[q].pc = "idle" /\ exists(s)
    /\ Update(s, [service[s] EXCEPT !.state = "stopped"])
    /\ IF service[s].container = 0 THEN UNCHANGED ask ELSE Asked(q, s, "stop")
    /\ UNCHANGED <<unit, data, start, glance, units, outrun, stuck>>

restartService(q, s) ==
    /\ Asked(q, s, "restart") /\ service[s].container # 0
    /\ Update(s, [service[s] EXCEPT !.state = "stopped"])
    /\ UNCHANGED <<unit, data, start, glance, units, outrun, stuck>>

(* The container goes down, or the row is put back as it was read; a restart  *)
(* goes on to a start either way.                                              *)
Stopped(q, p) ==
    LET s == ask[q].s again == ask[q].pc = "restart" /\ exists(s) IN
    /\ ask[q].pc \in {"stop", "restart"}
    /\ \E failed \in BOOLEAN, end \in {"stop", "clean"} :
          /\ unit' = IF ~failed /\ is(s, ask[q].container) /\ unit[s].up
                       THEN Down(s, end) ELSE unit
          /\ Update(s, [service[s] EXCEPT !.state = IF again THEN "starting"
                                                    ELSE IF failed THEN ask[q].before ELSE @])
    /\ IF again THEN Begun(p, s, service[s].slug) ELSE UNCHANGED start
    /\ Answered(q)
    /\ UNCHANGED <<data, glance, units, outrun, stuck>>

-----------------------------------------------------------------------------
(* refreshService, the row as read against the container as it is; an inspect *)
(* that fails changes nothing and is left out.                                  *)

refreshService(g, s) ==
    /\ glance[g].pc = "idle" /\ exists(s) /\ service[s].container # 0
    /\ glance' = [glance EXCEPT ![g] = [pc |-> "inspect", s |-> s,
           container |-> service[s].container, state |-> service[s].state]]
    /\ UNCHANGED <<service, unit, data, start, ask, units, outrun, stuck>>

(* What the poll writes, of a row read in `state`. *)
reconciled(state, row, u) ==
    CASE state = "stopped" -> row
      [] state # "stopped" /\ u.up -> IF state = "ready" THEN row ELSE [row EXCEPT !.state = "ready"]
      [] state # "stopped" /\ ~u.up /\ u.end = "stop" -> [row EXCEPT !.state = "stopped"]
      [] state # "stopped" /\ ~u.up /\ u.end # "stop" /\ state = "error" -> row
      [] OTHER -> [row EXCEPT !.state = IF u.end = "failed" THEN "error" ELSE "stopped"]

Inspected(g) ==
    LET s == glance[g].s state == glance[g].state IN
    /\ glance[g].pc = "inspect"
    /\ glance' = [glance EXCEPT ![g] = NoGlance]
    /\ Update(s, IF is(s, glance[g].container) THEN reconciled(state, service[s], unit[s])
                 ELSE IF state = "error" THEN service[s]
                 ELSE [service[s] EXCEPT !.state = "stopped", !.container = 0])
    /\ outrun' = IF exists(s) /\ service[s].container # glance[g].container /\ service'[s].container = 0
                   THEN outrun \cup {s} ELSE outrun
    /\ UNCHANGED <<unit, data, start, ask, units, stuck>>

(* Its own end, or its host's, which counts as a stop. *)
Dies(s, end) ==
    /\ unit[s] # Missing /\ unit[s].up
    /\ unit' = Down(s, end)
    /\ UNCHANGED <<service, data, start, ask, glance, units, outrun, stuck>>

-----------------------------------------------------------------------------
Init ==
    /\ service = [s \in Services |-> Missing] /\ unit = [s \in Services |-> Missing]
    /\ data = {} /\ units = 0 /\ outrun = {} /\ stuck = {}
    /\ start = [p \in Starts |-> NoStart] /\ ask = [q \in Asks |-> NoAsk]
    /\ glance = [g \in Glances |-> NoGlance]

Events ==
    \E s \in Services :
        \/ \E slug \in Slugs, p \in Starts, up \in BOOLEAN : createService(s, slug, p, up)
        \/ \E p \in Starts : startService(s, p)
        \/ \E q \in Asks : \/ deleteService(q, s) \/ stopService(q, s) \/ restartService(q, s)
                           \/ \E slug \in Slugs : updateService(q, s, slug)
        \/ \E end \in {"stop", "clean", "failed"} : Dies(s, end)

Pipeline(p) == Existing(p) \/ spawnServiceContainer(p) \/ Recorded(p)
Serve(q) == removeService(q) \/ \E p \in Starts : Recreated(q, p) \/ Stopped(q, p)
Poll(g) == Inspected(g) \/ \E s \in Services : refreshService(g, s)
Steps ==
    \/ \E p \in Starts : Pipeline(p)
    \/ \E q \in Asks : Serve(q)
    \/ \E g \in Glances : Poll(g)

Next == Events \/ Steps
Spec == Init /\ [][Next]_vars

-----------------------------------------------------------------------------
(* Between updates, what runs is what the row says, under a name no other      *)
(* service's row has; unless the service was changed under a start that had    *)
(* read it, which then starts what it was, or the daemon refused to remove the *)
(* container it still has.                                                     *)
RunsItsSpec ==
    \A s \in Services \ (outrun \cup stuck) :
        exists(s) /\ is(s, service[s].container) /\ unit[s].up /\ ~updating(s)
        => unit[s].slug = service[s].slug /\ ~clash(s, unit[s].slug)

(* No service is starting forever: it comes to be up, stopped or broken, if *)
(* somebody looks and the daemon answers; but for one whose container a poll *)
(* made Lite forget, as a stop that fails may put `starting' back over it.   *)
StartSettles ==
    \A s \in Services :
        []<>(exists(s) /\ service[s].state = "starting" => s \in outrun)
=============================================================================
