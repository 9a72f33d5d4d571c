-------------------------- MODULE WorkerLifecycle ---------------------------
(***************************************************************************)
(* A worker row (services/workers.ts) and what stands behind it on the     *)
(* Docker daemon (lib/docker.ts): its container, network and volumes, the  *)
(* project's image, and the agent that dials back (lib/agent.ts).          *)
(* TaskPool has of it what the jobs of tasks see; here the spawn, the      *)
(* requests, the polls and the agent's messages interleave await by await. *)
(*                                                                         *)
(* Containers and agent tokens are numbered in order of creation.          *)
(***************************************************************************)
EXTENDS Naturals, FiniteSets

CONSTANTS
    Workers,  \* ids workers may get
    Spawns,   \* spawn pipelines in flight at once
    Requests, \* stops, starts, deletes and rebuilds in flight at once
    Looks,    \* polls (refreshWorker) in flight at once
    Planes,   \* values of WORKER_DATA_PLANE
    HasDinD,  \* the project's workers run Docker
    MaxBoxes, \* bound: containers created
    MaxBuilds \* bound: image builds

VARIABLES
    worker,  \* rows of `workers`
    box,     \* per worker, the container of its name
    left,    \* per worker, the rest of it on the daemon
    image,   \* the image of the project's version is there
    builds,  \* rows of `project_image_builds`
    spawn,   \* pipelines in flight
    request, \* requests in flight
    look,    \* polls in flight
    agent,   \* per worker, the container whose agent is connected, or 0
    made,    \* containers and agent tokens made so far
    astray,  \* history: workers rebuilt or deleted under a spawn or another request, or
             \* whose new container a poll of the old one made the row forget
    stranded \* history: workers whose spawn failed after it had its container, or of
             \* whom the daemon refused to remove something

vars == <<worker, box, left, image, builds, spawn, request, look, agent, made, astray,
          stranded>>

Absent == [absent |-> TRUE]
Gone == [gone |-> TRUE] \* a row that was deleted
SettingUp == {"building", "starting"} \* `provisioning` is over before it is seen
States == SettingUp \cup {"ready", "stopped", "error"}
Phases == {"pending", "ready", "error"}
WorkerRow == [state : States, setup : Phases, container : 0..MaxBoxes, failed : BOOLEAN,
              plane : Planes, token : Nat]
(* `end`: how it went down.  Stopped, or lost with its host, a container has  *)
(* exited 143, 137 or 255, or had ended before the host booted.               *)
Box == [id : 1..MaxBoxes, up : BOOLEAN, end : {"", "stop", "host", "clean", "failed", "oom"},
        script : Phases, plane : Planes, token : Nat]
SpawnJob == [pc : {"idle", "image", "bake", "prepare", "inspect", "create", "record"},
             w : Workers, plane : Planes, build : 0..MaxBuilds, token : Nat, box : 0..MaxBoxes]
Request == [pc : {"idle", "stop", "start", "started", "delete", "rebuild"}, w : Workers,
            container : 0..MaxBoxes, before : States, failed : BOOLEAN]
Look == [pc : {"idle", "inspect", "status"}, w : Workers, container : 0..MaxBoxes,
         state : States, setup : Phases, plane : Planes]
Volumes == {"workspace"} \cup IF HasDinD THEN {"docker", "containerd"} ELSE {}

WorkerTypes ==
    /\ worker \in [Workers -> WorkerRow \cup {Absent, Gone}]
    /\ box \in [Workers -> Box \cup {Absent}]
    /\ left \in [Workers -> SUBSET ({"network"} \cup Volumes)]
    /\ image \in BOOLEAN
    /\ builds \in [1..MaxBuilds -> {"none", "building", "ready", "error"}]
    /\ spawn \in [Spawns -> SpawnJob] /\ request \in [Requests -> Request]
    /\ look \in [Looks -> Look] /\ agent \in [Workers -> 0..MaxBoxes]
    /\ made \in [box : 0..MaxBoxes, token : Nat]
    /\ astray \subseteq Workers /\ stranded \subseteq Workers

there(w) == worker[w] \notin {Absent, Gone}
has(w, container) == box[w] # Absent /\ box[w].id = container
(* An update by id: nothing when the row is gone. *)
Update(w, row) == worker' = IF there(w) THEN [worker EXCEPT ![w] = row] ELSE worker

anyWorker == CHOOSE w \in Workers : TRUE
anyPlane == CHOOSE p \in Planes : TRUE
NoSpawn == [pc |-> "idle", w |-> anyWorker, plane |-> anyPlane, build |-> 0, token |-> 0, box |-> 0]
NoRequest == [pc |-> "idle", w |-> anyWorker, container |-> 0, before |-> "ready", failed |-> FALSE]
NoLook == [pc |-> "idle", w |-> anyWorker, container |-> 0, state |-> "ready",
           setup |-> "pending", plane |-> anyPlane]

-----------------------------------------------------------------------------
(* Images. *)

nextBuild == Cardinality({n \in DOMAIN builds : builds[n] # "none"}) + 1
buildProjectImage ==
    nextBuild <= MaxBuilds /\ builds' = [builds EXCEPT ![nextBuild] = "building"]

(* A forced build is of an image that may well be there. *)
triggerBuild(force) ==
    /\ ~image \/ force
    /\ buildProjectImage
    /\ UNCHANGED <<worker, box, left, image, spawn, request, look, agent, made, astray, stranded>>

BuildEnds(n) ==
    /\ builds[n] = "building"
    /\ \/ builds' = [builds EXCEPT ![n] = "ready"] /\ image' = TRUE
       \/ builds' = [builds EXCEPT ![n] = "error"] /\ UNCHANGED image
    /\ UNCHANGED <<worker, box, left, spawn, request, look, agent, made, astray, stranded>>

-----------------------------------------------------------------------------
(* The spawn pipeline. *)

Fresh(plane) == [state |-> "building", setup |-> "pending", container |-> 0, failed |-> FALSE,
                 plane |-> plane, token |-> 0]
Begun(i, w, plane) ==
    /\ spawn[i].pc = "idle"
    /\ spawn' = [spawn EXCEPT ![i] = [NoSpawn EXCEPT !.pc = "image", !.w = w, !.plane = plane]]

spawnWorker(w, i, plane) ==
    /\ worker[w] = Absent
    /\ Begun(i, w, plane)
    /\ worker' = [worker EXCEPT ![w] = Fresh(plane)]
    /\ UNCHANGED <<box, left, image, builds, request, look, agent, made, astray, stranded>>

Goes(i, pc) == spawn' = [spawn EXCEPT ![i].pc = pc]
State(w, state) == Update(w, [worker[w] EXCEPT !.state = state])

silent(i) == spawn' = [spawn EXCEPT ![i] = NoSpawn] /\ UNCHANGED worker  \* mutant: it is only logged
(* Whatever throws ends the pipeline on an error, by id. *)
Failed(i) ==
    LET w == spawn[i].w IN
    /\ Update(w, [worker[w] EXCEPT !.state = "error", !.setup = "error"])
    /\ spawn' = [spawn EXCEPT ![i] = NoSpawn]

(* Two pipelines that both miss the image both build it. *)
ensureProjectImage(i) ==
    /\ spawn[i].pc = "image"
    /\ \/ image /\ Goes(i, "prepare") /\ State(spawn[i].w, "starting") /\ UNCHANGED builds
       \/ /\ ~image /\ buildProjectImage /\ UNCHANGED worker
          /\ spawn' = [spawn EXCEPT ![i].pc = "bake", ![i].build = nextBuild]
       \/ ~image /\ Failed(i) /\ UNCHANGED builds
    /\ UNCHANGED <<box, left, image, request, look, agent, made, astray, stranded>>

Baked(i) ==
    /\ spawn[i].pc = "bake"
    /\ \/ builds[spawn[i].build] = "ready" /\ Goes(i, "prepare") /\ State(spawn[i].w, "starting")
       \/ builds[spawn[i].build] = "error" /\ Failed(i)
    /\ UNCHANGED <<box, left, image, builds, request, look, agent, made, astray, stranded>>

firstToken(row, token) == IF row.token = 0 THEN token ELSE row.token  \* mutant: the hash is kept
newHash(row, token) == token

(* The agent's token goes on the row before there is a container to use it. *)
Prepared(i) ==
    LET w == spawn[i].w plane == spawn[i].plane
        token == IF plane = "agent" THEN made.token + 1 ELSE 0 IN
    /\ spawn[i].pc = "prepare"
    /\ \/ /\ Update(w, [worker[w] EXCEPT !.plane = plane, !.token = newHash(worker[w], token)])
          /\ spawn' = [spawn EXCEPT ![i].pc = "inspect", ![i].token = token]
          /\ made' = IF plane = "agent" THEN [made EXCEPT !.token = token] ELSE made
       \/ Failed(i) /\ UNCHANGED made
    /\ UNCHANGED <<box, left, image, builds, request, look, agent, astray, stranded>>

Up(b) == IF b.up THEN b ELSE [b EXCEPT !.up = TRUE, !.end = "", !.script = "pending"]

(* spawnContainer: a container of the worker's name is taken as it is, if it  *)
(* can be inspected and is up or can be started; else it is taken for absent.  *)
Existing(i) ==
    LET w == spawn[i].w IN
    /\ spawn[i].pc = "inspect"
    /\ \/ /\ box[w] # Absent
          /\ box' = [box EXCEPT ![w] = Up(@)]
          /\ spawn' = [spawn EXCEPT ![i].pc = "record", ![i].box = box[w].id]
          /\ UNCHANGED <<worker, left>>
       \/ /\ left' = [left EXCEPT ![w] = {"network"} \cup Volumes]
          /\ Goes(i, "create")
          /\ UNCHANGED <<worker, box>>
       \/ Failed(i) /\ UNCHANGED <<box, left>>
    /\ UNCHANGED <<image, builds, request, look, agent, made, astray, stranded>>

(* The name may be taken; what was created may not start, or may start and not *)
(* be inspected: then the row knows nothing of it.                             *)
spawnContainer(i) ==
    LET w == spawn[i].w id == made.box + 1 IN
    /\ spawn[i].pc = "create"
    /\ \/ \E up \in BOOLEAN :
          /\ box[w] = Absent /\ id <= MaxBoxes
          /\ box' = [box EXCEPT ![w] = [id |-> id, up |-> up, end |-> "", script |-> "pending",
                                        plane |-> spawn[i].plane, token |-> spawn[i].token]]
          /\ made' = [made EXCEPT !.box = id]
          /\ \/ /\ up /\ spawn' = [spawn EXCEPT ![i].pc = "record", ![i].box = id]
                /\ UNCHANGED <<worker, stranded>>
             \/ Failed(i) /\ stranded' = stranded \cup {w}
       \/ Failed(i) /\ UNCHANGED <<box, made, stranded>>
    /\ UNCHANGED <<left, image, builds, request, look, agent, astray>>

Recorded(i) ==
    LET w == spawn[i].w IN
    /\ spawn[i].pc = "record"
    /\ Update(w, [worker[w] EXCEPT !.container = spawn[i].box, !.state = "starting"])
    /\ spawn' = [spawn EXCEPT ![i] = NoSpawn]
    /\ UNCHANGED <<box, left, image, builds, request, look, agent, made, astray, stranded>>

-----------------------------------------------------------------------------
(* Requests. *)

Asked(r, w, pc) ==
    /\ request[r].pc = "idle" /\ there(w)
    /\ request' = [request EXCEPT ![r] =
           [pc |-> pc, w |-> w, container |-> worker[w].container, before |-> worker[w].state,
            failed |-> worker[w].failed]]
Answered(r) == request' = [request EXCEPT ![r] = NoRequest]
HangUp(w) == agent' = [agent EXCEPT ![w] = 0]
Down(w, end) == box' = [box EXCEPT ![w] = [@ EXCEPT !.up = FALSE, !.end = end]]

(* Written first: a poll has to read the exit as ours. *)
stopWorker(r, w) ==
    /\ Asked(r, w, "stop") /\ worker[w].container # 0
    /\ Update(w, [worker[w] EXCEPT !.state = "stopped", !.failed = FALSE])
    /\ UNCHANGED <<box, left, image, builds, spawn, look, agent, made, astray, stranded>>

(* A stop that fails puts back the row it read. *)
stopContainer(r) ==
    LET w == request[r].w IN
    /\ request[r].pc = "stop"
    /\ \/ /\ has(w, request[r].container) /\ box[w].up
          /\ \E end \in {"stop", "clean"} : Down(w, end)
          /\ HangUp(w) /\ UNCHANGED worker
       \/ ~(has(w, request[r].container) /\ box[w].up) /\ UNCHANGED <<box, agent, worker>>
       \/ /\ Update(w, [worker[w] EXCEPT !.state = request[r].before, !.failed = request[r].failed])
          /\ UNCHANGED <<box, agent>>
    /\ Answered(r)
    /\ UNCHANGED <<left, image, builds, spawn, look, made, astray, stranded>>

startWorker(r, w) ==
    /\ Asked(r, w, "start") /\ worker[w].container # 0
    /\ UNCHANGED <<worker, box, left, image, builds, spawn, look, agent, made, astray, stranded>>

startContainer(r) ==
    LET w == request[r].w IN
    /\ request[r].pc = "start"
    /\ \/ /\ has(w, request[r].container)
          /\ box' = [box EXCEPT ![w] = Up(@)]
          /\ request' = [request EXCEPT ![r].pc = "started"]
       \/ Answered(r) /\ UNCHANGED box
    /\ UNCHANGED <<worker, left, image, builds, spawn, look, agent, made, astray, stranded>>

(* The shared network is joined in between. *)
Started(r) ==
    LET w == request[r].w IN
    /\ request[r].pc = "started"
    /\ Update(w, [worker[w] EXCEPT !.state = "starting", !.failed = FALSE])
    /\ Answered(r)
    /\ UNCHANGED <<box, left, image, builds, spawn, look, agent, made, astray, stranded>>

GoesAstray(w, so) == astray' = IF so THEN astray \cup {w} ELSE astray
spawning(w) == \E i \in Spawns : spawn[i].pc # "idle" /\ spawn[i].w = w

deleteWorker(r, w) ==
    /\ Asked(r, w, "delete")
    /\ HangUp(w) /\ GoesAstray(w, spawning(w))
    /\ UNCHANGED <<worker, box, left, image, builds, spawn, look, made, stranded>>

rebuildWorker(r, w) ==
    /\ Asked(r, w, "rebuild")
    /\ HangUp(w) /\ GoesAstray(w, spawning(w))
    /\ UNCHANGED <<worker, box, left, image, builds, spawn, look, made, stranded>>

(* The container of the row as it was read, if it had one; then its network;   *)
(* a delete takes the worker's own volumes too, the project's shared ones      *)
(* never.  A container the daemon refuses to remove, stopped or not, ends it   *)
(* there; a network or a volume that stays is passed over, as is one in use.   *)
alwaysKept(r) == TRUE  \* mutant: a delete takes what a rebuild does
keptVolumes(r) == request[r].pc = "rebuild"
inUse(b) == IF b = Absent THEN {} ELSE Volumes \cup IF b.up THEN {"network"} ELSE {}
removed(r, b) == ({"network"} \cup IF keptVolumes(r) THEN {} ELSE Volumes) \ inUse(b)

removeContainerOnly(r) ==
    LET w == request[r].w mine == has(w, request[r].container) IN
    \/ /\ mine /\ stranded' = stranded \cup {w}
       /\ \/ box[w].up /\ Down(w, "stop") /\ HangUp(w)
          \/ UNCHANGED <<box, agent>>
       /\ UNCHANGED left
    \/ \E refused \in SUBSET left[w] :
          /\ IF mine THEN box' = [box EXCEPT ![w] = Absent] /\ HangUp(w)
             ELSE UNCHANGED <<box, agent>>
          /\ left' = [left EXCEPT ![w] = @ \ (removed(r, box'[w]) \ refused)]
          /\ stranded' = IF refused = {} THEN stranded ELSE stranded \cup {w}

Crossed(r) ==
    \E q \in Requests \ {r} : request[q].pc # "idle" /\ request[q].w = request[r].w

Deleted(r) ==
    /\ request[r].pc = "delete"
    /\ removeContainerOnly(r) /\ GoesAstray(request[r].w, Crossed(r))
    /\ worker' = [worker EXCEPT ![request[r].w] = Gone]
    /\ Answered(r)
    /\ UNCHANGED <<image, builds, spawn, look, made>>

(* Bound: rebuilds move workers to the agent's plane, none back from it. *)
Rebuilt(r, i, plane) ==
    LET w == request[r].w IN
    /\ request[r].pc = "rebuild"
    /\ there(w) => plane \in {"agent", worker[w].plane}
    /\ removeContainerOnly(r) /\ GoesAstray(w, Crossed(r))
    /\ Update(w, [Fresh(worker[w].plane) EXCEPT !.token = worker[w].token])
    /\ Begun(i, w, plane)
    /\ Answered(r)
    /\ UNCHANGED <<image, builds, look, made>>

-----------------------------------------------------------------------------
(* refreshWorker: the row as read, the container asked, the row written. *)

refreshWorker(l, w) ==
    /\ look[l].pc = "idle" /\ there(w) /\ worker[w].container # 0
    /\ look' = [look EXCEPT ![l] =
           [pc |-> "inspect", w |-> w, container |-> worker[w].container,
            state |-> worker[w].state, setup |-> worker[w].setup, plane |-> worker[w].plane]]
    /\ UNCHANGED <<worker, box, left, image, builds, spawn, request, agent, made, astray, stranded>>

wentDownWithTheHost(b) == b.end \in {"stop", "host"}
crashed(b) == b.end \in {"failed", "oom"}

(* What a container that is down makes of the row that was read. *)
Fell(l, b) ==
    LET w == look[l].w
        row == worker[w] IN
    CASE look[l].state = "stopped" \/ (look[l].state = "error" /\ look[l].setup = "error") ->
             UNCHANGED worker
      [] OTHER ->
    CASE wentDownWithTheHost(b) -> Update(w, [row EXCEPT !.state = "stopped", !.failed = FALSE])
      [] ~wentDownWithTheHost(b) /\ look[l].state = "error" -> UNCHANGED worker
      [] ~wentDownWithTheHost(b) /\ look[l].state \in SettingUp ->
             Update(w, [row EXCEPT !.state = "error", !.setup = "error"])
      [] ~wentDownWithTheHost(b) /\ look[l].state = "ready" ->
             Update(w, [row EXCEPT !.state = IF crashed(b) THEN "error" ELSE "stopped",
                                   !.failed = crashed(b)])

(* An inspect that fails changes nothing, and is left out.  A container not  *)
(* found is not looked for under the worker's name: there may be a newer one. *)
inspectContainer(l) ==
    LET w == look[l].w b == box[w] IN
    /\ look[l].pc = "inspect"
    /\ IF has(w, look[l].container) /\ b.up
         THEN /\ UNCHANGED worker
              /\ look' = IF look[l].state # "stopped" /\ look[l].plane = "exec"
                           THEN [look EXCEPT ![l].pc = "status"] ELSE [look EXCEPT ![l] = NoLook]
         ELSE /\ look' = [look EXCEPT ![l] = NoLook]
              /\ IF has(w, look[l].container) THEN Fell(l, b)
                 ELSE IF look[l].state = "error" THEN UNCHANGED worker
                 ELSE Update(w, [worker[w] EXCEPT !.state = "stopped", !.container = 0,
                                                  !.failed = FALSE])
    /\ astray' = IF there(w) /\ worker'[w].container = 0 /\ b # Absent
                    THEN astray \cup {w} ELSE astray
    /\ UNCHANGED <<box, left, image, builds, spawn, request, agent, made, stranded>>

samePhase(phase) == phase  \* mutant: a state and a phase are one
stateOf(phase) == CASE phase = "pending" -> "starting" [] OTHER -> phase
anyRow(l) == there(look[l].w)  \* mutant: by id alone
sameState(l) == there(look[l].w) /\ worker[look[l].w].state = look[l].state

(* The status file, or what the row had when it cannot be read. *)
getSetupStatus(l, read) ==
    LET w == look[l].w
        setup == IF read THEN box[w].script ELSE look[l].setup IN
    /\ look[l].pc = "status"
    /\ read => has(w, look[l].container) /\ box[w].up
    /\ IF sameState(l)
         THEN Update(w, [worker[w] EXCEPT !.state = stateOf(setup), !.setup = setup,
                                          !.failed = FALSE])
         ELSE UNCHANGED worker
    /\ look' = [look EXCEPT ![l] = NoLook]
    /\ UNCHANGED <<box, left, image, builds, spawn, request, agent, made, astray, stranded>>

-----------------------------------------------------------------------------
(* The agent. *)

(* A hello: the newest connection of a worker replaces the one it had. *)
handleAgentUpgrade(w) ==
    LET b == box[w] IN
    /\ b # Absent /\ b.up /\ b.plane = "agent" /\ agent[w] # b.id
    /\ there(w) /\ worker[w].token = b.token
    /\ agent' = [agent EXCEPT ![w] = b.id]
    /\ UNCHANGED <<worker, box, left, image, builds, spawn, request, look, made, astray, stranded>>

(* A stop in flight is left alone. *)
applyProjectState(w) ==
    LET b == box[w] row == worker[w] IN
    /\ b # Absent /\ agent[w] = b.id /\ there(w) /\ row.state # "stopped"
    /\ <<row.state, row.setup>> # <<stateOf(b.script), b.script>>
    /\ Update(w, [row EXCEPT !.state = stateOf(b.script), !.setup = b.script,
                             !.failed = @ /\ b.script = "error"])
    /\ UNCHANGED <<box, left, image, builds, spawn, request, look, agent, made, astray, stranded>>

-----------------------------------------------------------------------------
(* What happens in a container, and to it. *)

ScriptEnds(w) ==
    /\ box[w] # Absent /\ box[w].up /\ box[w].script = "pending"
    /\ \E phase \in {"ready", "error"} : box' = [box EXCEPT ![w].script = phase]
    /\ UNCHANGED <<worker, left, image, builds, spawn, request, look, agent, made, astray, stranded>>

Dies(w, end) ==
    /\ box[w] # Absent /\ box[w].up
    /\ Down(w, end) /\ HangUp(w)
    /\ UNCHANGED <<worker, left, image, builds, spawn, request, look, made, astray, stranded>>

-----------------------------------------------------------------------------
Init ==
    /\ worker = [w \in Workers |-> Absent] /\ box = [w \in Workers |-> Absent]
    /\ left = [w \in Workers |-> {}]
    /\ image = FALSE /\ builds = [n \in 1..MaxBuilds |-> "none"]
    /\ spawn = [i \in Spawns |-> NoSpawn] /\ request = [r \in Requests |-> NoRequest]
    /\ look = [l \in Looks |-> NoLook] /\ agent = [w \in Workers |-> 0]
    /\ made = [box |-> 0, token |-> 0] /\ astray = {} /\ stranded = {}

Events ==
    \/ \E force \in BOOLEAN : triggerBuild(force)
    \/ \E w \in Workers, i \in Spawns, plane \in Planes : spawnWorker(w, i, plane)
    \/ \E r \in Requests, w \in Workers :
           stopWorker(r, w) \/ startWorker(r, w) \/ deleteWorker(r, w) \/ rebuildWorker(r, w)
    \/ \E w \in Workers, end \in {"host", "clean", "failed", "oom"} : Dies(w, end)

Pipeline(i) ==
    \/ ensureProjectImage(i) \/ Baked(i) \/ Prepared(i) \/ Existing(i) \/ spawnContainer(i)
    \/ Recorded(i)
Serve(r) ==
    \/ stopContainer(r) \/ startContainer(r) \/ Started(r) \/ Deleted(r)
    \/ \E i \in Spawns, plane \in Planes : Rebuilt(r, i, plane)
Poll(l) ==
    \/ inspectContainer(l) \/ \E w \in Workers : refreshWorker(l, w)
    \/ \E read \in BOOLEAN : getSetupStatus(l, read)
Steps ==
    \/ \E n \in 1..MaxBuilds : BuildEnds(n)
    \/ \E i \in Spawns : Pipeline(i)
    \/ \E r \in Requests : Serve(r)
    \/ \E l \in Looks : Poll(l)
    \/ \E w \in Workers : handleAgentUpgrade(w) \/ applyProjectState(w) \/ ScriptEnds(w)

Next == Events \/ Steps
Spec == Init /\ [][Next]_vars

-----------------------------------------------------------------------------
(* A stop stays: no poll that began before it, and nothing the agent still   *)
(* says, brings the row back up; a start does, or a pipeline, or the stop    *)
(* itself when it failed.                                                     *)
StoppedUntilStarted ==
    [][\A w \in Workers :
          /\ there(w) /\ worker[w].state = "stopped"
          /\ worker'[w] # Gone /\ worker'[w].state \in {"starting", "ready"}
          => \/ \E r \in Requests : request[r].w = w /\ request[r].pc \in {"stop", "started"}
             \/ \E i \in Spawns : spawn[i].w = w /\ spawn[i].pc # "idle"]_vars

(* The agent of a worker's container is let in: the token it was created with *)
(* is the one the row knows, rebuild after rebuild.  But for a worker that went *)
(* astray; and for one whose rebuild may have found its old container standing, *)
(* as the daemon refused to remove it or as no row ever named it.               *)
AgentIsKnown ==
    \A w \in Workers \ (astray \cup stranded) :
        there(w) /\ box[w] # Absent /\ worker[w].container = box[w].id
        => worker[w].token = box[w].token

busy(w) ==
    \/ spawning(w)
    \/ \E r \in Requests : request[r].w = w /\ request[r].pc # "idle"

(* A deleted worker leaves nothing on the daemon, whatever was asked of it     *)
(* before; but for one that went astray, whose spawn failed after it had its   *)
(* container, or of whom the daemon refused to remove something.               *)
NothingLeft ==
    \A w \in Workers \ (astray \cup stranded) :
        worker[w] = Gone /\ ~busy(w) => box[w] = Absent /\ left[w] = {}

(* No worker is setting up forever: it comes to be up, stopped or broken, if  *)
(* somebody looks and the daemon answers.  But for one that went astray, as a *)
(* stop that fails may put `starting' back over a container a poll made the   *)
(* row forget; and for one whose spawn may have found a container standing:   *)
(* its agent, with an old token, never says that it is up, or says so of a    *)
(* container the row does not know.                                            *)
SpawnSettles ==
    \A w \in Workers :
        []<>(there(w) /\ worker[w].state \in SettingUp => w \in astray \cup stranded)
=============================================================================
