---------------------------- MODULE Workers_proof ----------------------------
(***************************************************************************)
(* Proofs about what the control plane makes on the daemon: the containers *)
(* of workers (services/workers.ts), and the images, the volumes and the   *)
(* settings of the projects they are of (services/projects.ts).  Of each   *)
(* component, an inductive invariant over its own variables, kept by every *)
(* one of its actions, and so by every step of MCServer.                   *)
(***************************************************************************)
EXTENDS MCServer, FiniteSetTheorems, SequenceTheorems, TLAPS

-----------------------------------------------------------------------------
(* The workers: their rows, their containers, and the spawns, requests and *)
(* looks that work on both at once.                                        *)

(* The rows of workers, under a name: the set is long. *)
WRow == Worker!WorkerRow

(* The workers of whom nothing is said: two pipelines worked on one at once, a *)
(* poll made its row forget its container, or something the daemon refused, or *)
(* a spawn that failed, left more of it than its row knows.                    *)
Excused == astray \cup stranded

(* A worker nobody has asked for has no container, and nothing works on it. *)
Unborn ==
    \A w \in Workers : worker[w] = Worker!Absent => box[w] = Worker!Absent /\ ~Worker!busy(w)
(* At most one spawn works on a worker. *)
Alone ==
    \A i, j \in Spawns :
        /\ spawn[i].pc # "idle" /\ spawn[j].pc # "idle" /\ spawn[i].w = spawn[j].w
        /\ spawn[i].w \notin Excused
        => i = j
(* What a spawn knows while it works on worker w: the row names no container,  *)
(* and either there is none yet or it is the one this spawn made, by the id it *)
(* is about to write and with the token it was given.                          *)
Spawning(i) ==
    LET w == spawn[i].w IN
    spawn[i].pc # "idle" /\ w \notin Excused =>
        /\ Worker!there(w) /\ worker[w].container = 0
        /\ IF spawn[i].pc = "record"
             THEN box[w] # Worker!Absent =>
                      box[w].token = spawn[i].token /\ box[w].id = spawn[i].box
             ELSE box[w] = Worker!Absent
        /\ spawn[i].pc \in {"inspect", "create", "record"} => worker[w].token = spawn[i].token
(* It holds of every spawn under way. *)
AllSpawning == \A i \in Spawns : Spawning(i)
(* With no spawn under way, a row names the container there is. *)
Named ==
    \A w \in Workers \ Excused :
        Worker!there(w) /\ ~Worker!spawning(w) /\ box[w] # Worker!Absent
        => worker[w].container = box[w].id
(* What a delete or a rebuild is about to remove is the container there is, and *)
(* nobody makes another under it.                                               *)
Held(r) ==
    LET w == request[r].w IN
    request[r].pc \in {"delete", "rebuild"} /\ w \notin Excused =>
        /\ Worker!there(w) /\ ~Worker!spawning(w)
        /\ box[w] # Worker!Absent => box[w].id = request[r].container
(* It holds of every request under way. *)
AllHeld == \A r \in Requests : Held(r)
(* A worker that was deleted has no container, no volume and no network left. *)
Erased ==
    \A w \in Workers \ Excused :
        worker[w] = Worker!Gone => box[w] = Worker!Absent /\ left[w] = {}
(* A look that went on to read the setup status had not found a stopped row: *)
(* so the ready it may write brings nobody back up.                          *)
Watched == \A l \in Looks : look[l].pc = "status" => look[l].state # "stopped"
(* The parts about the rows and the containers. *)
Rows == Unborn /\ Alone /\ AllSpawning /\ Named /\ AllHeld /\ Erased /\ Worker!AgentIsKnown
(* The inductive invariant of the workers. *)
WorkerInv == Worker!WorkerTypes /\ Rows /\ Watched

(* A row is neither of the two marks of a worker with no row, and a container *)
(* is not the mark of none.                                                   *)
LEMMA RowsDiffer ==
    /\ Worker!Absent # Worker!Gone
    /\ \A rec \in WRow : rec # Worker!Absent /\ rec # Worker!Gone
    /\ \A b \in Worker!Box : b # Worker!Absent
<1>1. "gone" \in DOMAIN Worker!Gone /\ "gone" \notin DOMAIN Worker!Absent
    BY DEF Worker!Gone, Worker!Absent
<1>2. ASSUME NEW rec \in WRow PROVE "gone" \notin DOMAIN rec /\ "absent" \notin DOMAIN rec
    BY <1>2 DEF WRow, Worker!WorkerRow
<1>3. ASSUME NEW b \in Worker!Box PROVE "absent" \notin DOMAIN b
    BY <1>3 DEF Worker!Box
<1>4. "absent" \in DOMAIN Worker!Absent
    BY DEF Worker!Absent
<1> QED
    BY <1>1, <1>2, <1>3, <1>4

(* The records that stand for no spawn, no request and no look are of their *)
(* types, and idle.                                                         *)
LEMMA Nothing ==
    /\ Worker!NoSpawn \in Worker!SpawnJob /\ Worker!NoSpawn.pc = "idle"
    /\ Worker!NoRequest \in Worker!Request /\ Worker!NoRequest.pc = "idle"
    /\ Worker!NoLook \in Worker!Look /\ Worker!NoLook.pc = "idle"
<1>1. Worker!anyWorker \in Workers /\ Worker!anyPlane \in Planes
    BY WorkerAssumption DEF Worker!anyWorker, Worker!anyPlane
<1>2. 0 \in 0..MaxBoxes /\ 0 \in 0..MaxBuilds
    BY WorkerAssumption
<1> QED
    BY <1>1, <1>2 DEF Worker!NoSpawn, Worker!NoRequest, Worker!NoLook, Worker!SpawnJob,
       Worker!Request, Worker!Look, Worker!States, Worker!SettingUp, Worker!Phases

(* A row is written only where it is still there: nobody is born or buried by *)
(* it.                                                                        *)
LEMMA Updated ==
    ASSUME worker \in [Workers -> WRow \cup {Worker!Absent, Worker!Gone}],
           NEW w \in Workers, NEW rec, Worker!there(w) => rec \in WRow,
           Worker!Update(w, rec)
    PROVE  /\ worker' \in [Workers -> WRow \cup {Worker!Absent, Worker!Gone}]
           /\ \A v \in Workers \ {w} : worker'[v] = worker[v]
           /\ Worker!there(w) => worker'[w] = rec
           /\ ~Worker!there(w) => worker'[w] = worker[w]
           /\ \A v \in Workers : /\ Worker!there(v)' <=> Worker!there(v)
                                 /\ worker'[v] = Worker!Absent <=> worker[v] = Worker!Absent
                                 /\ worker'[v] = Worker!Gone <=> worker[v] = Worker!Gone
<1>1. CASE Worker!there(w)
    <2>1. worker' = [worker EXCEPT ![w] = rec] /\ rec \in WRow
        BY <1>1 DEF Worker!Update
    <2> QED
        BY <1>1, <2>1, RowsDiffer DEF Worker!there
<1>2. CASE ~Worker!there(w)
    BY <1>2 DEF Worker!Update, Worker!there
<1> QED
    BY <1>1, <1>2

(* The states a row is put in are states of a row. *)
LEMMA States ==
    /\ {"building", "starting", "ready", "stopped", "error"} \subseteq Worker!States
    /\ {"pending", "ready", "error"} \subseteq Worker!Phases
BY DEF Worker!States, Worker!SettingUp, Worker!Phases

(* A row whose state, phase or container is written is a row, with the token *)
(* it had.                                                                   *)
LEMMA Restated ==
    ASSUME NEW rec \in WRow, NEW state \in Worker!States, NEW setup \in Worker!Phases,
           NEW failed \in BOOLEAN
    PROVE  /\ LET new == [rec EXCEPT !.state = state] IN
              new \in WRow /\ new.token = rec.token /\ new.container = rec.container
           /\ LET new == [rec EXCEPT !.state = state, !.failed = failed] IN
              new \in WRow /\ new.token = rec.token /\ new.container = rec.container
           /\ LET new == [rec EXCEPT !.state = state, !.setup = setup] IN
              new \in WRow /\ new.token = rec.token /\ new.container = rec.container
           /\ LET new == [rec EXCEPT !.state = state, !.container = 0, !.failed = failed] IN
              new \in WRow /\ new.token = rec.token /\ new.container = 0
<1>1. 0 \in 0..MaxBoxes
    BY WorkerAssumption
<1> QED
    BY <1>1 DEF WRow, Worker!WorkerRow

(* At first there is no worker. *)
LEMMA WorkerInit == Worker!Init => WorkerInv
<1> SUFFICES ASSUME Worker!Init PROVE WorkerInv
    OBVIOUS
<1>1. 0 \in 0..MaxBoxes /\ 0 \in 0..MaxBuilds
    BY WorkerAssumption
<1>2. /\ \A i \in Spawns : spawn[i] = Worker!NoSpawn
      /\ \A r \in Requests : request[r] = Worker!NoRequest
      /\ \A l \in Looks : look[l] = Worker!NoLook
    BY DEF Worker!Init
<1>3. Worker!WorkerTypes
    BY <1>1, Nothing DEF Worker!Init, Worker!WorkerTypes
<1>4. Alone /\ AllSpawning /\ AllHeld /\ Watched
    BY <1>2, Nothing DEF Alone, AllSpawning, Spawning, AllHeld, Held, Watched
<1>5. Unborn /\ Named /\ Erased /\ Worker!AgentIsKnown
    BY <1>2, Nothing, RowsDiffer DEF Worker!Init, Unborn, Worker!busy, Worker!spawning, Named,
       Erased, Worker!AgentIsKnown, Worker!there
<1> QED
    BY <1>3, <1>4, <1>5 DEF WorkerInv, Rows

(* A step that leaves every row with its token, and with its container unless *)
(* that one is gone.                                                          *)
RowsCalm ==
    \A w \in Workers :
        /\ worker'[w] = Worker!Absent <=> worker[w] = Worker!Absent
        /\ worker'[w] = Worker!Gone <=> worker[w] = Worker!Gone
        /\ Worker!there(w) =>
               /\ worker'[w].token = worker[w].token
               /\ \/ worker'[w].container = worker[w].container
                  \/ worker'[w].container = 0 /\ (box[w] = Worker!Absent \/ w \in astray')
(* A step that leaves every container the one it was. *)
BoxesCalm ==
    \A w \in Workers :
        /\ box'[w] = Worker!Absent <=> box[w] = Worker!Absent
        /\ box[w] # Worker!Absent => box'[w].id = box[w].id /\ box'[w].token = box[w].token
(* A step after which a removal that is new is of the container of its row, which *)
(* no spawn works on.                                                             *)
RequestsCalm ==
    \A r \in Requests :
        request'[r].pc \in {"delete", "rebuild"} /\ request'[r] # request[r] =>
            LET w == request'[r].w IN
            /\ w \in Workers /\ Worker!there(w) /\ request'[r].container = worker[w].container
            /\ Worker!spawning(w) => w \in astray'
(* A step between the spawns and the removals. *)
Calm == RowsCalm /\ BoxesCalm /\ RequestsCalm /\ UNCHANGED <<spawn, left>>
        /\ astray \subseteq astray' /\ stranded \subseteq stranded'
        /\ \A w \in Workers : Worker!busy(w)' => Worker!busy(w) \/ worker[w] # Worker!Absent

(* Such a step keeps what is said of rows and containers. *)
LEMMA CalmKeeps == ASSUME Worker!WorkerTypes, Rows, Calm PROVE Rows'
<1> USE DEF Rows
<1>1. /\ worker \in [Workers -> WRow \cup {Worker!Absent, Worker!Gone}]
      /\ box \in [Workers -> Worker!Box \cup {Worker!Absent}]
      /\ spawn \in [Spawns -> Worker!SpawnJob]
      /\ \A r \in Requests : request[r].w \in Workers
    BY DEF Worker!WorkerTypes, WRow, Worker!Request
<1>2. \A w \in Workers : /\ Worker!there(w)' <=> Worker!there(w)
                         /\ Worker!spawning(w)' <=> Worker!spawning(w)
    BY <1>1 DEF Worker!there, Worker!spawning, Calm, RowsCalm
<1>3. Excused \subseteq Excused' /\ astray' \subseteq Excused'
    BY DEF Excused, Calm
<1>4. Unborn' /\ Alone'
    BY <1>3 DEF Unborn, Alone, Calm, RowsCalm, BoxesCalm
<1>5. ASSUME NEW i \in Spawns PROVE Spawning(i)'
    <2>1. spawn[i].w \in Workers /\ Spawning(i)
        BY <1>1 DEF Worker!SpawnJob, AllSpawning
    <2> QED
        BY <1>2, <1>3, <2>1 DEF Spawning, Calm, RowsCalm, BoxesCalm
<1>6. ASSUME NEW w \in Workers, w \notin Excused', Worker!there(w), box[w] # Worker!Absent
      PROVE  worker'[w].container = worker[w].container /\ box'[w].id = box[w].id
    BY <1>3, <1>6 DEF Calm, RowsCalm, BoxesCalm
<1>7. Named'
    <2> SUFFICES ASSUME NEW w \in Workers, w \notin Excused', Worker!there(w)', ~Worker!spawning(w)',
                        box'[w] # Worker!Absent
                 PROVE  worker'[w].container = box'[w].id
        BY DEF Named
    <2>1. Worker!there(w) /\ ~Worker!spawning(w) /\ box[w] # Worker!Absent /\ w \notin Excused
        BY <1>2, <1>3 DEF Calm, BoxesCalm
    <2> QED
        BY <1>6, <2>1 DEF Named
<1>8. ASSUME NEW r \in Requests PROVE Held(r)'
    <2>1. CASE request'[r] = request[r]
        <3>1. request[r].w \in Workers /\ Held(r)
            BY <1>1 DEF AllHeld
        <3> QED
            BY <1>2, <1>3, <2>1, <3>1 DEF Held, Calm, BoxesCalm
    <2>2. CASE request'[r] # request[r]
        <3> SUFFICES ASSUME request'[r].pc \in {"delete", "rebuild"},
                            NEW v, v = request'[r].w, v \notin Excused'
                     PROVE  /\ Worker!there(v)' /\ ~Worker!spawning(v)'
                            /\ box'[v] # Worker!Absent => box'[v].id = request'[r].container
            BY DEF Held
        <3>1. /\ v \in Workers /\ Worker!there(v) /\ request'[r].container = worker[v].container
              /\ Worker!spawning(v) => v \in astray'
            BY <2>2 DEF Calm, RequestsCalm
        <3>2. ~Worker!spawning(v) /\ v \notin Excused
            BY <1>3, <3>1
        <3>3. box[v] # Worker!Absent => worker[v].container = box[v].id
            BY <3>1, <3>2 DEF Named
        <3> QED
            BY <1>2, <3>1, <3>2, <3>3 DEF Calm, BoxesCalm
    <2> QED
        BY <2>1, <2>2
<1>9. Erased'
    BY <1>3 DEF Erased, Calm, RowsCalm, BoxesCalm
<1>10. Worker!AgentIsKnown'
    <2> SUFFICES ASSUME NEW w \in Workers, w \notin Excused', Worker!there(w)',
                        box'[w] # Worker!Absent, worker'[w].container = box'[w].id
                 PROVE  worker'[w].token = box'[w].token
        BY DEF Worker!AgentIsKnown, Excused
    <2>1. Worker!there(w) /\ box[w] # Worker!Absent /\ w \notin Excused
        BY <1>2, <1>3 DEF Calm, BoxesCalm
    <2>2. worker[w].container = box[w].id
        BY <1>6, <2>1
    <2>3. worker[w].token = box[w].token
        BY <2>1, <2>2 DEF Worker!AgentIsKnown, Excused
    <2> QED
        BY <2>1, <2>3 DEF Calm, RowsCalm, BoxesCalm
<1> QED
    BY <1>4, <1>5, <1>7, <1>8, <1>9, <1>10 DEF AllSpawning, AllHeld

(* A container keeps its id and its token when its process starts or ends. *)
LEMMA Boxed ==
    ASSUME box \in [Workers -> Worker!Box \cup {Worker!Absent}], NEW w \in Workers,
           NEW b, box' = [box EXCEPT ![w] = b],
           box[w] # Worker!Absent, b \in Worker!Box, b.id = box[w].id, b.token = box[w].token
    PROVE  box' \in [Workers -> Worker!Box \cup {Worker!Absent}] /\ BoxesCalm
BY RowsDiffer DEF BoxesCalm

(* The container stays the container: an exit, a start, a script that ends. *)
LEMMA Turned ==
    ASSUME NEW b \in Worker!Box
    PROVE  /\ Worker!Up(b) \in Worker!Box /\ Worker!Up(b).id = b.id /\ Worker!Up(b).token = b.token
           /\ \A end \in {"stop", "host", "clean", "failed", "oom"} :
                  LET d == [b EXCEPT !.up = FALSE, !.end = end] IN
                  d \in Worker!Box /\ d.id = b.id /\ d.token = b.token
           /\ \A phase \in {"ready", "error"} :
                  LET d == [b EXCEPT !.script = phase] IN
                  d \in Worker!Box /\ d.id = b.id /\ d.token = b.token
BY DEF Worker!Up, Worker!Box, Worker!Phases

(* No row written is a calm step for the rows. *)
LEMMA SameRows == ASSUME UNCHANGED worker PROVE RowsCalm
BY DEF RowsCalm
(* No container touched is a calm step for the containers. *)
LEMMA SameBoxes == ASSUME UNCHANGED box PROVE BoxesCalm
BY DEF BoxesCalm
(* No request made is a calm step for the requests. *)
LEMMA SameRequests == ASSUME UNCHANGED request PROVE RequestsCalm
BY DEF RequestsCalm

(* A row that changes its state is a calm step for the rows. *)
LEMMA RowMoved ==
    ASSUME worker \in [Workers -> WRow \cup {Worker!Absent, Worker!Gone}],
           NEW w \in Workers, NEW rec, Worker!Update(w, rec),
           Worker!there(w) =>
               /\ rec \in WRow /\ rec.token = worker[w].token
               /\ \/ rec.container = worker[w].container
                  \/ rec.container = 0 /\ (box[w] = Worker!Absent \/ w \in astray')
    PROVE  /\ worker' \in [Workers -> WRow \cup {Worker!Absent, Worker!Gone}] /\ RowsCalm
BY Updated DEF RowsCalm, Worker!there

(* What the type invariant says of each row, container, spawn, request and *)
(* look.                                                                   *)
LEMMA WorkerTyped ==
    Worker!WorkerTypes =>
        /\ worker \in [Workers -> WRow \cup {Worker!Absent, Worker!Gone}]
        /\ box \in [Workers -> Worker!Box \cup {Worker!Absent}]
        /\ left \in [Workers -> SUBSET ({"network"} \cup Worker!Volumes)]
        /\ spawn \in [Spawns -> Worker!SpawnJob] /\ request \in [Requests -> Worker!Request]
        /\ look \in [Looks -> Worker!Look] /\ agent \in [Workers -> 0..MaxBoxes]
        /\ \A w \in Workers : /\ Worker!there(w) => worker[w] \in WRow
                              /\ worker[w] # Worker!Absent /\ worker[w] # Worker!Gone
                                 => Worker!there(w)
                              /\ box[w] # Worker!Absent => box[w] \in Worker!Box
        /\ \A i \in Spawns : spawn[i] \in Worker!SpawnJob
        /\ \A r \in Requests : request[r] \in Worker!Request
        /\ \A l \in Looks : look[l] \in Worker!Look
BY DEF Worker!WorkerTypes, WRow, Worker!there

(* Builds: they are counted in order. *)
LEMMA Building ==
    ASSUME Worker!WorkerTypes, Worker!buildProjectImage
    PROVE  /\ builds' \in [1..MaxBuilds -> {"none", "building", "ready", "error"}]
           /\ Worker!nextBuild \in 0..MaxBuilds
<1>1. IsFiniteSet({n \in DOMAIN builds : builds[n] # "none"})
    <2>1. IsFiniteSet(1..MaxBuilds) /\ DOMAIN builds = 1..MaxBuilds
        BY FS_Interval, WorkerAssumption DEF Worker!WorkerTypes
    <2> QED
        BY <2>1, FS_Subset
<1>2. Cardinality({n \in DOMAIN builds : builds[n] # "none"}) \in Nat
    BY <1>1, FS_CardinalityType
<1>3. Worker!nextBuild = Cardinality({n \in DOMAIN builds : builds[n] # "none"}) + 1
    BY Zenon DEF Worker!nextBuild, Worker!Cardinality, Cardinality
<1>4. Worker!nextBuild \in Nat /\ Worker!nextBuild <= MaxBuilds
    BY <1>2, <1>3 DEF Worker!buildProjectImage
<1>5. builds' = [builds EXCEPT ![Worker!nextBuild] = "building"]
    BY DEF Worker!buildProjectImage
<1>6. builds \in [1..MaxBuilds -> {"none", "building", "ready", "error"}]
    BY DEF Worker!WorkerTypes
<1>7. Worker!nextBuild \in 0..MaxBuilds
    BY <1>4, WorkerAssumption
<1> QED
    BY <1>5, <1>6, <1>7

(* Builds start and end (triggerBuild, runBuild): no worker is touched. *)
LEMMA BuildsKept ==
    ASSUME WorkerInv,
           \/ \E force \in BOOLEAN : Worker!triggerBuild(force)
           \/ \E n \in 1..MaxBuilds : Worker!BuildEnds(n)
    PROVE  WorkerInv'
<1>1. UNCHANGED <<worker, box, left, spawn, request, look, agent, made, astray, stranded>>
    BY DEF Worker!triggerBuild, Worker!BuildEnds
<1>2. /\ builds' \in [1..MaxBuilds -> {"none", "building", "ready", "error"}] /\ image' \in BOOLEAN
    <2>1. CASE \E force \in BOOLEAN : Worker!triggerBuild(force)
        BY <2>1, Building DEF Worker!triggerBuild, WorkerInv, Worker!WorkerTypes
    <2>2. CASE \E n \in 1..MaxBuilds : Worker!BuildEnds(n)
        BY <2>2 DEF Worker!BuildEnds, WorkerInv, Worker!WorkerTypes
    <2> QED
        BY <2>1, <2>2
<1>3. Worker!WorkerTypes'
    BY <1>1, <1>2 DEF Worker!WorkerTypes, WorkerInv
<1>4. Calm
    BY <1>1, SameRows, SameBoxes, SameRequests DEF Calm, Worker!busy, Worker!spawning
<1>5. Rows' /\ Watched'
    BY <1>1, <1>4, CalmKeeps DEF WorkerInv, Watched
<1> QED
    BY <1>3, <1>5 DEF WorkerInv

(* A request is made of a row that is there. *)
LEMMA AskedKept ==
    ASSUME Worker!WorkerTypes, NEW r \in Requests, NEW w \in Workers,
           NEW pc \in {"stop", "start", "delete", "rebuild"}, Worker!Asked(r, w, pc),
           UNCHANGED spawn, pc \in {"delete", "rebuild"} /\ Worker!spawning(w) => w \in astray'
    PROVE  /\ request' \in [Requests -> Worker!Request] /\ RequestsCalm
           /\ \A v \in Workers : Worker!busy(v)' => Worker!busy(v) \/ worker[v] # Worker!Absent
<1> DEFINE new == [pc |-> pc, w |-> w, container |-> worker[w].container,
                   before |-> worker[w].state,
                   failed |-> worker[w].failed]
<1>1. worker[w] \in WRow /\ Worker!there(w)
    BY WorkerTyped DEF Worker!Asked
<1>2. /\ new \in Worker!Request /\ new.w = w /\ new.container = worker[w].container
      /\ new.pc = pc
    BY <1>1 DEF WRow, Worker!WorkerRow, Worker!Request
<1>3. request' = [request EXCEPT ![r] = new]
    BY DEF Worker!Asked
<1> HIDE DEF new
<1>5. RequestsCalm
    BY <1>1, <1>2, <1>3, WorkerTyped DEF RequestsCalm
<1>4. \A v \in Workers : Worker!busy(v)' => Worker!busy(v) \/ v = w
    BY <1>2, <1>3, WorkerTyped DEF Worker!busy, Worker!spawning
<1> QED
    BY <1>1, <1>2, <1>3, <1>4, <1>5, WorkerTyped DEF Worker!there

(* A request that is answered makes nobody busy. *)
LEMMA AnsweredKept ==
    ASSUME Worker!WorkerTypes, NEW r \in Requests, UNCHANGED spawn,
           \/ Worker!Answered(r)
           \/ request' = [request EXCEPT ![r].pc = "started"] /\ request[r].pc = "start"
    PROVE  /\ request' \in [Requests -> Worker!Request] /\ RequestsCalm
           /\ \A v \in Workers : Worker!busy(v)' => Worker!busy(v)
<1>1. CASE Worker!Answered(r)
    BY <1>1, Nothing, WorkerTyped
       DEF Worker!Answered, Worker!busy, Worker!spawning, RequestsCalm
<1>2. CASE request' = [request EXCEPT ![r].pc = "started"] /\ request[r].pc = "start"
    <2>1. LET new == [request[r] EXCEPT !.pc = "started"] IN
          new \in Worker!Request /\ new.pc = "started" /\ new.w = request[r].w
        BY WorkerTyped DEF Worker!Request
    <2> QED
        BY <1>2, <2>1, WorkerTyped DEF Worker!busy, Worker!spawning, RequestsCalm
<1> QED
    BY <1>1, <1>2

(* The agent of a container that goes is nobody's. *)
LEMMA HungUp ==
    ASSUME Worker!WorkerTypes, NEW w \in Workers, Worker!HangUp(w)
    PROVE  agent' \in [Workers -> 0..MaxBoxes]
BY WorkerAssumption, WorkerTyped DEF Worker!HangUp

(* A stop, a start, a deletion or a rebuild is asked for. *)
LEMMA RequestsKept ==
    ASSUME WorkerInv, NEW r \in Requests, NEW w \in Workers,
           \/ Worker!stopWorker(r, w) \/ Worker!startWorker(r, w)
           \/ Worker!deleteWorker(r, w) \/ Worker!rebuildWorker(r, w)
    PROVE  WorkerInv'
<1> USE DEF WorkerInv
<1>1. /\ UNCHANGED <<box, left, image, builds, spawn, look, made, stranded>>
      /\ astray' \in SUBSET Workers /\ astray \subseteq astray'
    BY DEF Worker!stopWorker, Worker!startWorker, Worker!deleteWorker, Worker!rebuildWorker,
       Worker!GoesAstray, Worker!WorkerTypes
<1>2. PICK pc \in {"stop", "start", "delete", "rebuild"} :
          /\ Worker!Asked(r, w, pc)
          /\ pc \in {"delete", "rebuild"} /\ Worker!spawning(w) => w \in astray'
    BY DEF Worker!stopWorker, Worker!startWorker, Worker!deleteWorker, Worker!rebuildWorker,
       Worker!GoesAstray
<1>3. agent' \in [Workers -> 0..MaxBoxes]
    BY HungUp, WorkerTyped
       DEF Worker!stopWorker, Worker!startWorker, Worker!deleteWorker, Worker!rebuildWorker
<1>4. /\ worker' \in [Workers -> WRow \cup {Worker!Absent, Worker!Gone}] /\ RowsCalm
    <2>1. CASE UNCHANGED worker
        BY <2>1, SameRows, WorkerTyped
    <2>2. CASE Worker!stopWorker(r, w)
        <3> DEFINE rec == [worker[w] EXCEPT !.state = "stopped", !.failed = FALSE]
        <3>1. worker[w] \in WRow
            BY <1>2, WorkerTyped DEF Worker!Asked
        <3>2. rec \in WRow /\ rec.token = worker[w].token /\ rec.container = worker[w].container
            BY <3>1 DEF WRow, Worker!WorkerRow, Worker!States
        <3>3. Worker!Update(w, rec)
            BY <2>2 DEF Worker!stopWorker
        <3> HIDE DEF rec
        <3> QED
            BY <3>2, <3>3, RowMoved, WorkerTyped
    <2> QED
        BY <2>1, <2>2 DEF Worker!startWorker, Worker!deleteWorker, Worker!rebuildWorker
<1>5. /\ request' \in [Requests -> Worker!Request] /\ RequestsCalm
      /\ \A v \in Workers : Worker!busy(v)' => Worker!busy(v) \/ worker[v] # Worker!Absent
    BY <1>1, <1>2, AskedKept
<1>6. Worker!WorkerTypes'
    BY <1>1, <1>3, <1>4, <1>5 DEF Worker!WorkerTypes, WRow
<1>7. Calm
    BY <1>1, <1>4, <1>5, SameBoxes DEF Calm
<1> QED
    BY <1>1, <1>6, <1>7, CalmKeeps DEF Watched

(* The container is stopped (stopContainer): the row keeps what it says. *)
LEMMA StopKept == ASSUME WorkerInv, NEW r \in Requests, Worker!stopContainer(r) PROVE WorkerInv'
<1> USE DEF WorkerInv
<1> DEFINE w == request[r].w
<1>1. /\ w \in Workers /\ request[r].before \in Worker!States /\ request[r].failed \in BOOLEAN
    BY WorkerTyped DEF Worker!Request
<1>2. UNCHANGED <<left, image, builds, spawn, look, made, astray, stranded>> /\ Worker!Answered(r)
    BY DEF Worker!stopContainer
<1>3. /\ request' \in [Requests -> Worker!Request] /\ RequestsCalm
      /\ \A v \in Workers : Worker!busy(v)' => Worker!busy(v)
    BY <1>2, AnsweredKept
<1> DEFINE rec == [worker[w] EXCEPT !.state = request[r].before, !.failed = request[r].failed]
<1>4. \/ /\ Worker!has(w, request[r].container) /\ UNCHANGED worker /\ Worker!HangUp(w)
         /\ \E end \in {"stop", "clean"} : Worker!Down(w, end)
      \/ UNCHANGED <<box, agent, worker>>
      \/ UNCHANGED <<box, agent>> /\ Worker!Update(w, rec)
    BY DEF Worker!stopContainer
<1>5. Worker!there(w) => /\ rec \in WRow /\ rec.token = worker[w].token
                         /\ rec.container = worker[w].container
    BY <1>1, WorkerTyped DEF WRow, Worker!WorkerRow
<1> HIDE DEF rec
<1>6. worker' \in [Workers -> WRow \cup {Worker!Absent, Worker!Gone}] /\ RowsCalm
    BY <1>1, <1>4, <1>5, SameRows, RowMoved, WorkerTyped
<1>7. /\ box' \in [Workers -> Worker!Box \cup {Worker!Absent}] /\ BoxesCalm
      /\ agent' \in [Workers -> 0..MaxBoxes]
    <2>1. ASSUME NEW end \in {"stop", "clean"}, Worker!Down(w, end),
                 Worker!has(w, request[r].container)
          PROVE  box' \in [Workers -> Worker!Box \cup {Worker!Absent}] /\ BoxesCalm
        <3> DEFINE b == [box[w] EXCEPT !.up = FALSE, !.end = end]
        <3>1. box[w] # Worker!Absent /\ box[w] \in Worker!Box
            BY <1>1, <2>1, WorkerTyped DEF Worker!has
        <3>2. b \in Worker!Box /\ b.id = box[w].id /\ b.token = box[w].token
            BY <3>1 DEF Worker!Box
        <3>3. box' = [box EXCEPT ![w] = b]
            BY <2>1 DEF Worker!Down
        <3> HIDE DEF b, w
        <3> QED
            BY <1>1, <3>1, <3>2, <3>3, Boxed, WorkerTyped
    <2> QED
        BY <1>1, <1>4, <2>1, SameBoxes, HungUp, WorkerTyped
<1>8. Worker!WorkerTypes'
    BY <1>2, <1>3, <1>6, <1>7 DEF Worker!WorkerTypes, WRow
<1>9. Calm
    BY <1>2, <1>3, <1>6, <1>7 DEF Calm
<1> QED
    BY <1>2, <1>8, <1>9, CalmKeeps DEF Watched

(* The container is started again (startContainer). *)
LEMMA StartKept == ASSUME WorkerInv, NEW r \in Requests, Worker!startContainer(r) PROVE WorkerInv'
<1> USE DEF WorkerInv
<1> DEFINE w == request[r].w
<1>1. w \in Workers
    BY WorkerTyped DEF Worker!Request
<1>2. UNCHANGED <<worker, left, image, builds, spawn, look, agent, made, astray, stranded>>
    BY DEF Worker!startContainer
<1>3. /\ request' \in [Requests -> Worker!Request] /\ RequestsCalm
      /\ \A v \in Workers : Worker!busy(v)' => Worker!busy(v)
    BY <1>2, AnsweredKept DEF Worker!startContainer
<1>4. /\ box' \in [Workers -> Worker!Box \cup {Worker!Absent}] /\ BoxesCalm
    <2>1. CASE Worker!has(w, request[r].container) /\ box' = [box EXCEPT ![w] = Worker!Up(@)]
        <3>1. box[w] # Worker!Absent /\ box[w] \in Worker!Box
            BY <1>1, <2>1, WorkerTyped DEF Worker!has
        <3>2. LET b == Worker!Up(box[w]) IN
              b \in Worker!Box /\ b.id = box[w].id /\ b.token = box[w].token
            BY <3>1, Turned
        <3>3. box' = [box EXCEPT ![w] = Worker!Up(box[w])]
            BY <2>1
        <3> HIDE DEF w
        <3> QED
            BY <1>1, <3>1, <3>2, <3>3, Boxed, WorkerTyped
    <2>2. CASE UNCHANGED box
        BY <2>2, SameBoxes, WorkerTyped
    <2> QED
        BY <2>1, <2>2 DEF Worker!startContainer
<1>5. Worker!WorkerTypes'
    BY <1>2, <1>3, <1>4 DEF Worker!WorkerTypes
<1>6. Calm
    BY <1>2, <1>3, <1>4, SameRows DEF Calm
<1> QED
    BY <1>2, <1>5, <1>6, CalmKeeps DEF Watched

(* The row of a worker that was started is written when its container is up. *)
LEMMA StartedKept == ASSUME WorkerInv, NEW r \in Requests, Worker!Started(r) PROVE WorkerInv'
<1> USE DEF WorkerInv
<1> DEFINE w == request[r].w
           rec == [worker[w] EXCEPT !.state = "starting", !.failed = FALSE]
<1>1. w \in Workers
    BY WorkerTyped DEF Worker!Request
<1>2. UNCHANGED <<box, left, image, builds, spawn, look, agent, made, astray, stranded>>
    BY DEF Worker!Started
<1>3. /\ request' \in [Requests -> Worker!Request] /\ RequestsCalm
      /\ \A v \in Workers : Worker!busy(v)' => Worker!busy(v)
    BY <1>2, AnsweredKept DEF Worker!Started
<1>4. Worker!there(w) => /\ rec \in WRow /\ rec.token = worker[w].token
                         /\ rec.container = worker[w].container
    BY <1>1, Restated, States, WorkerTyped
<1>5. Worker!Update(w, rec)
    BY DEF Worker!Started
<1> HIDE DEF w, rec
<1>6. worker' \in [Workers -> WRow \cup {Worker!Absent, Worker!Gone}] /\ RowsCalm
    BY <1>1, <1>4, <1>5, RowMoved, WorkerTyped
<1>7. Worker!WorkerTypes'
    BY <1>2, <1>3, <1>6 DEF Worker!WorkerTypes, WRow
<1>8. Calm
    BY <1>2, <1>3, <1>6, SameBoxes DEF Calm
<1> QED
    BY <1>2, <1>7, <1>8, CalmKeeps DEF Watched

(* The polls. *)
LEMMA RefreshKept ==
    ASSUME WorkerInv, NEW l \in Looks, NEW w \in Workers, Worker!refreshWorker(l, w)
    PROVE  WorkerInv'
<1> USE DEF WorkerInv
<1> DEFINE new == [pc |-> "inspect", w |-> w, container |-> worker[w].container,
                   state |-> worker[w].state, setup |-> worker[w].setup, plane |-> worker[w].plane]
<1>1. worker[w] \in WRow
    BY WorkerTyped DEF Worker!refreshWorker
<1>2. new \in Worker!Look /\ new.pc = "inspect"
    BY <1>1 DEF WRow, Worker!WorkerRow, Worker!Look
<1>3. /\ look' = [look EXCEPT ![l] = new]
      /\ UNCHANGED <<worker, box, left, image, builds, spawn, request, agent, made, astray, stranded>>
    BY DEF Worker!refreshWorker
<1> HIDE DEF new
<1>4. look' \in [Looks -> Worker!Look] /\ Watched'
    BY <1>2, <1>3, WorkerTyped DEF Watched
<1>5. Worker!WorkerTypes'
    BY <1>3, <1>4 DEF Worker!WorkerTypes
<1>6. Calm
    BY <1>3, SameRows, SameBoxes, SameRequests DEF Calm, Worker!busy, Worker!spawning
<1> QED
    BY <1>4, <1>5, <1>6, CalmKeeps

(* The look inspects the container and writes what it found: whoever stopped *)
(* the worker meanwhile is not overruled.                                    *)
LEMMA InspectKept == ASSUME WorkerInv, NEW l \in Looks, Worker!inspectContainer(l) PROVE WorkerInv'
<1> USE DEF WorkerInv
<1> DEFINE w == look[l].w
<1>1. w \in Workers /\ look[l] \in Worker!Look
    BY WorkerTyped DEF Worker!Look
<1>2. /\ UNCHANGED <<box, left, image, builds, spawn, request, agent, made, stranded>>
      /\ astray \subseteq astray' /\ astray' \subseteq astray \cup {w}
    BY DEF Worker!inspectContainer
<1>3. \/ UNCHANGED worker
      \/ \E rec : /\ Worker!Update(w, rec)
                  /\ Worker!there(w) =>
                         /\ rec \in WRow /\ rec.token = worker[w].token
                         /\ \/ rec.container = worker[w].container
                            \/ rec.container = 0 /\ (box[w] = Worker!Absent \/ w \in astray')
    <2>1. Worker!there(w) => worker[w] \in WRow
        BY <1>1, WorkerTyped
    <2>3. Worker!there(w) =>
              LET rec == [worker[w] EXCEPT !.state = "stopped", !.container = 0,
                                           !.failed = FALSE] IN
              rec \in WRow /\ rec.token = worker[w].token /\ rec.container = 0
        BY <2>1, Restated, States
    <2>4. Worker!there(w) =>
              LET rec == [worker[w] EXCEPT !.state = "stopped", !.failed = FALSE] IN
              rec \in WRow /\ rec.token = worker[w].token /\ rec.container = worker[w].container
        BY <2>1, Restated, States
    <2>5. Worker!there(w) =>
              LET rec == [worker[w] EXCEPT !.state = "error", !.setup = "error"] IN
              rec \in WRow /\ rec.token = worker[w].token /\ rec.container = worker[w].container
        <3>1. "error" \in Worker!States /\ "error" \in Worker!Phases
            BY States
        <3> QED
            BY <2>1, <3>1, Restated
    <2>6. Worker!there(w) => \A b :
              LET rec == [worker[w] EXCEPT
                              !.state = IF Worker!crashed(b) THEN "error" ELSE "stopped",
                                           !.failed = Worker!crashed(b)] IN
              rec \in WRow /\ rec.token = worker[w].token /\ rec.container = worker[w].container
        <3>1. \A b : Worker!crashed(b) \in BOOLEAN
            BY DEF Worker!crashed
        <3>2. \A b : (IF Worker!crashed(b) THEN "error" ELSE "stopped") \in Worker!States
            BY States
        <3> SUFFICES ASSUME Worker!there(w), NEW b
                     PROVE  LET rec == [worker[w] EXCEPT !.state = IF Worker!crashed(b) THEN "error"
                                                                   ELSE "stopped",
                                                         !.failed = Worker!crashed(b)] IN
                            /\ rec \in WRow /\ rec.token = worker[w].token
                            /\ rec.container = worker[w].container
            OBVIOUS
        <3> DEFINE state == IF Worker!crashed(b) THEN "error" ELSE "stopped"
                   failed == Worker!crashed(b)
        <3>3. state \in Worker!States /\ failed \in BOOLEAN /\ worker[w] \in WRow
            BY <2>1, <3>1, <3>2
        <3> HIDE DEF state, failed
        <3>4. LET rec == [worker[w] EXCEPT !.state = state, !.failed = failed] IN
              rec \in WRow /\ rec.token = worker[w].token /\ rec.container = worker[w].container
            BY <3>3 DEF WRow, Worker!WorkerRow
        <3> QED
            BY <3>4 DEF state, failed
    <2>7. \/ UNCHANGED worker
          \/ Worker!Fell(l, box[w])
          \/ Worker!Update(w, [worker[w] EXCEPT !.state = "stopped", !.container = 0,
                                                !.failed = FALSE])
        BY DEF Worker!inspectContainer
    <2>8. Worker!Fell(l, box[w]) =>
          \/ UNCHANGED worker
          \/ Worker!Update(w, [worker[w] EXCEPT !.state = "stopped", !.failed = FALSE])
          \/ Worker!Update(w, [worker[w] EXCEPT !.state = "error", !.setup = "error"])
          \/ Worker!Update(w, [worker[w] EXCEPT
                                   !.state = IF Worker!crashed(box[w]) THEN "error" ELSE "stopped",
                                   !.failed = Worker!crashed(box[w])])
        BY <1>1 DEF Worker!Fell, Worker!Look, Worker!States, Worker!SettingUp
    <2>9. ASSUME NEW rec, Worker!Update(w, rec), Worker!there(w), rec \in WRow, rec.container = 0
          PROVE  box[w] = Worker!Absent \/ w \in astray'
        <3>1. worker'[w] = rec
            BY <1>1, <2>9, Updated, WorkerTyped
        <3> QED
            BY <2>9, <3>1 DEF Worker!inspectContainer
    <2> QED
        BY <2>3, <2>4, <2>5, <2>6, <2>7, <2>8, <2>9
<1>4. worker' \in [Workers -> WRow \cup {Worker!Absent, Worker!Gone}] /\ RowsCalm
    BY <1>1, <1>3, SameRows, RowMoved, WorkerTyped
<1>5. look' \in [Looks -> Worker!Look] /\ Watched'
    <2>1. CASE look' = [look EXCEPT ![l] = Worker!NoLook]
        BY <2>1, Nothing, WorkerTyped DEF Watched
    <2>2. CASE look' = [look EXCEPT ![l].pc = "status"] /\ look[l].state # "stopped"
        <3>1. LET d == [look[l] EXCEPT !.pc = "status"] IN
              d \in Worker!Look /\ d.state = look[l].state
            BY <1>1 DEF Worker!Look
        <3> QED
            BY <2>2, <3>1, WorkerTyped DEF Watched
    <2> QED
        BY <2>1, <2>2 DEF Worker!inspectContainer
<1>6. Worker!WorkerTypes'
    BY <1>1, <1>2, <1>4, <1>5 DEF Worker!WorkerTypes, WRow
<1>7. Calm
    BY <1>2, <1>4, SameBoxes, SameRequests DEF Calm, Worker!busy, Worker!spawning
<1> QED
    BY <1>5, <1>6, <1>7, CalmKeeps

(* The look reads the status of the setup (getSetupStatus). *)
LEMMA StatusKept ==
    ASSUME WorkerInv, NEW l \in Looks, NEW read \in BOOLEAN, Worker!getSetupStatus(l, read)
    PROVE  WorkerInv'
<1> USE DEF WorkerInv
<1> DEFINE w == look[l].w
           setup == IF read THEN box[w].script ELSE look[l].setup
           rec == [worker[w] EXCEPT !.state = Worker!stateOf(setup), !.setup = setup,
                                    !.failed = FALSE]
<1>1. w \in Workers /\ look[l] \in Worker!Look
    BY WorkerTyped DEF Worker!Look
<1>2. /\ UNCHANGED <<box, left, image, builds, spawn, request, agent, made, astray, stranded>>
      /\ look' = [look EXCEPT ![l] = Worker!NoLook]
      /\ UNCHANGED worker \/ Worker!Update(w, rec)
      /\ read => Worker!has(w, look[l].container)
    BY DEF Worker!getSetupStatus
<1>3. setup \in Worker!Phases
    BY <1>1, <1>2, WorkerTyped DEF Worker!has, Worker!Box, Worker!Look
<1>4. Worker!stateOf(setup) \in Worker!States
    BY <1>3 DEF Worker!stateOf, Worker!Phases, Worker!States, Worker!SettingUp
<1>5. Worker!there(w) => /\ rec \in WRow /\ rec.token = worker[w].token
                         /\ rec.container = worker[w].container
    <2> HIDE DEF setup
    <2> QED
        BY <1>1, <1>3, <1>4, WorkerTyped DEF WRow, Worker!WorkerRow
<1> HIDE DEF rec
<1>6. worker' \in [Workers -> WRow \cup {Worker!Absent, Worker!Gone}] /\ RowsCalm
    BY <1>1, <1>2, <1>5, SameRows, RowMoved, WorkerTyped
<1>7. look' \in [Looks -> Worker!Look] /\ Watched'
    BY <1>2, Nothing, WorkerTyped DEF Watched
<1>8. Worker!WorkerTypes'
    BY <1>2, <1>6, <1>7 DEF Worker!WorkerTypes, WRow
<1>9. Calm
    BY <1>2, <1>6, SameBoxes, SameRequests DEF Calm, Worker!busy, Worker!spawning
<1> QED
    BY <1>7, <1>8, <1>9, CalmKeeps

(* The agent, and the container itself. *)
LEMMA AgentKept ==
    ASSUME WorkerInv, NEW w \in Workers,
           Worker!handleAgentUpgrade(w) \/ Worker!applyProjectState(w)
    PROVE  WorkerInv'
<1> USE DEF WorkerInv
<1> DEFINE b == box[w]
           rec == [worker[w] EXCEPT !.state = Worker!stateOf(b.script), !.setup = b.script,
                                    !.failed = @ /\ b.script = "error"]
<1>1. b \in Worker!Box
    BY WorkerTyped DEF Worker!handleAgentUpgrade, Worker!applyProjectState
<1>2. UNCHANGED <<box, left, image, builds, spawn, request, look, made, astray, stranded>>
    BY DEF Worker!handleAgentUpgrade, Worker!applyProjectState
<1>3. agent' \in [Workers -> 0..MaxBoxes]
    <2>1. b.id \in 0..MaxBoxes
        <3>1. b.id \in 1..MaxBoxes
            BY <1>1 DEF Worker!Box
        <3> QED
            BY <3>1, WorkerAssumption
    <2> QED
        BY <2>1, WorkerTyped DEF Worker!handleAgentUpgrade, Worker!applyProjectState
<1>4. UNCHANGED worker \/ Worker!Update(w, rec)
    BY DEF Worker!handleAgentUpgrade, Worker!applyProjectState
<1>5. b.script \in Worker!Phases /\ Worker!stateOf(b.script) \in Worker!States
    BY <1>1 DEF Worker!stateOf, Worker!Box, Worker!Phases, Worker!States, Worker!SettingUp
<1>6. Worker!there(w) => /\ rec \in WRow /\ rec.token = worker[w].token
                         /\ rec.container = worker[w].container
    BY <1>5, WorkerTyped DEF WRow, Worker!WorkerRow
<1> HIDE DEF rec
<1>7. worker' \in [Workers -> WRow \cup {Worker!Absent, Worker!Gone}] /\ RowsCalm
    BY <1>4, <1>6, SameRows, RowMoved, WorkerTyped
<1>8. Worker!WorkerTypes'
    BY <1>2, <1>3, <1>7 DEF Worker!WorkerTypes, WRow
<1>9. Calm
    BY <1>2, <1>7, SameBoxes, SameRequests DEF Calm, Worker!busy, Worker!spawning
<1> QED
    BY <1>2, <1>8, <1>9, CalmKeeps DEF Watched

(* A container's setup script ends, or the container dies. *)
LEMMA BoxKept ==
    ASSUME WorkerInv, NEW w \in Workers,
           \/ Worker!ScriptEnds(w)
           \/ \E end \in {"host", "clean", "failed", "oom"} : Worker!Dies(w, end)
    PROVE  WorkerInv'
<1> USE DEF WorkerInv
<1>1. box[w] # Worker!Absent /\ box[w] \in Worker!Box
    BY WorkerTyped DEF Worker!ScriptEnds, Worker!Dies
<1>2. UNCHANGED <<worker, left, image, builds, spawn, request, look, made, astray, stranded>>
    BY DEF Worker!ScriptEnds, Worker!Dies
<1>3. agent' \in [Workers -> 0..MaxBoxes]
    BY HungUp, WorkerTyped DEF Worker!ScriptEnds, Worker!Dies
<1>4. PICK b \in Worker!Box : /\ box' = [box EXCEPT ![w] = b]
                              /\ b.id = box[w].id /\ b.token = box[w].token
    <2>1. ASSUME NEW end \in {"host", "clean", "failed", "oom"}, Worker!Dies(w, end)
          PROVE  box' = [box EXCEPT ![w] = [box[w] EXCEPT !.up = FALSE, !.end = end]]
        BY <2>1 DEF Worker!Dies, Worker!Down
    <2>2. ASSUME Worker!ScriptEnds(w)
          PROVE  \E phase \in {"ready", "error"} :
                     box' = [box EXCEPT ![w] = [box[w] EXCEPT !.script = phase]]
        BY <2>2 DEF Worker!ScriptEnds
    <2> QED
        BY <1>1, <2>1, <2>2, Turned
<1>5. box' \in [Workers -> Worker!Box \cup {Worker!Absent}] /\ BoxesCalm
    BY <1>1, <1>4, Boxed, WorkerTyped
<1>6. Worker!WorkerTypes'
    BY <1>2, <1>3, <1>5 DEF Worker!WorkerTypes
<1>7. Calm
    BY <1>2, <1>5, SameRows, SameRequests DEF Calm, Worker!busy, Worker!spawning
<1> QED
    BY <1>2, <1>6, <1>7, CalmKeeps DEF Watched

(* Nobody who was excused is blamed again. *)
LEMMA ExcusedGrows ==
    ASSUME astray \subseteq astray', stranded \subseteq stranded' PROVE Excused \subseteq Excused'
BY DEF Excused

(* The pipeline: no removal is under way on its worker. *)
LEMMA PipelineKeeps ==
    ASSUME Worker!WorkerTypes, Rows, NEW i \in Spawns, NEW w \in Workers, w = spawn[i].w,
           NEW new \in Worker!SpawnJob, spawn' = [spawn EXCEPT ![i] = new],
           spawn[i].pc # "idle", new.pc = "idle" \/ new.w = w,
           \A v \in Workers \ {w} : /\ worker'[v] = worker[v] /\ box'[v] = box[v]
                                    /\ left'[v] = left[v],
           worker'[w] = Worker!Absent <=> worker[w] = Worker!Absent,
           worker'[w] = Worker!Gone <=> worker[w] = Worker!Gone,
           UNCHANGED request, astray \subseteq astray', stranded \subseteq stranded',
           w \notin Excused' =>
               /\ Spawning(i)'
               /\ box'[w] # Worker!Absent /\ worker'[w].container = box'[w].id
                  => worker'[w].token = box'[w].token
               /\ new.pc = "idle" /\ box'[w] # Worker!Absent => worker'[w].container = box'[w].id
    PROVE  Rows'
<1> USE DEF Rows
<1>1. /\ spawn \in [Spawns -> Worker!SpawnJob] /\ spawn'[i] = new
      /\ \A j \in Spawns \ {i} : spawn'[j] = spawn[j]
      /\ \A j \in Spawns : spawn[j].w \in Workers
      /\ \A r \in Requests : request[r].w \in Workers
    BY WorkerTyped DEF Worker!SpawnJob, Worker!Request
<1>2. \A v \in Workers : Worker!there(v)' <=> Worker!there(v)
    BY WorkerTyped DEF Worker!there
<1>3. Worker!busy(w) /\ Worker!spawning(w) /\ worker[w] # Worker!Absent
    BY DEF Worker!busy, Worker!spawning, Unborn
<1>4. \A v \in Workers : /\ Worker!busy(v)' => Worker!busy(v)
                         /\ Worker!spawning(v)' => Worker!spawning(v)
                         /\ v # w /\ Worker!spawning(v) => Worker!spawning(v)'
    BY <1>1, <1>3 DEF Worker!busy, Worker!spawning
<1>5. Excused \subseteq Excused'
    BY ExcusedGrows
<1>6. Unborn' /\ Alone'
    BY <1>1, <1>3, <1>4, <1>5 DEF Unborn, Alone
<1>7. ASSUME NEW j \in Spawns PROVE Spawning(j)'
    <2>1. CASE j # i /\ spawn[j].w # w
        <3>1. Spawning(j)
            BY DEF AllSpawning
        <3> QED
            BY <1>1, <1>2, <1>5, <2>1, <3>1 DEF Spawning
    <2>2. CASE j # i /\ spawn[j].w = w
        BY <1>1, <1>5, <2>2 DEF Spawning, Alone
    <2>3. CASE j = i
        BY <1>1, <2>3 DEF Spawning
    <2> QED
        BY <2>1, <2>2, <2>3
<1>8. w \notin Excused' => Worker!there(w)
    <2>1. Spawning(i)
        BY DEF AllSpawning
    <2> QED
        BY <1>5, <2>1 DEF Spawning
<1>9. Named'
    <2> SUFFICES ASSUME NEW v \in Workers, v \notin Excused', Worker!there(v)', ~Worker!spawning(v)',
                        box'[v] # Worker!Absent
                 PROVE  worker'[v].container = box'[v].id
        BY DEF Named
    <2>1. CASE v = w
        <3>1. new.pc = "idle"
            BY <1>1, <2>1 DEF Worker!spawning
        <3> QED
            BY <2>1, <3>1
    <2>2. CASE v # w
        BY <1>2, <1>4, <1>5, <2>2 DEF Named
    <2> QED
        BY <2>1, <2>2
<1>10. ASSUME NEW r \in Requests PROVE Held(r)'
    <2>1. Held(r) /\ request[r].w \in Workers
        BY <1>1 DEF AllHeld
    <2>2. CASE request[r].w = w
        BY <1>3, <1>5, <2>1, <2>2 DEF Held
    <2>3. CASE request[r].w # w
        BY <1>2, <1>4, <1>5, <2>1, <2>3 DEF Held
    <2> QED
        BY <2>2, <2>3
<1>11. Erased'
    BY <1>2, <1>5, <1>8 DEF Erased, Worker!there
<1>12. Worker!AgentIsKnown'
    <2> SUFFICES ASSUME NEW v \in Workers, v \notin Excused', Worker!there(v)',
                        box'[v] # Worker!Absent, worker'[v].container = box'[v].id
                 PROVE  worker'[v].token = box'[v].token
        BY DEF Worker!AgentIsKnown, Excused
    <2>1. v # w => v \notin astray \cup stranded /\ Worker!there(v)
        BY <1>2, <1>5 DEF Excused
    <2> QED
        BY <2>1 DEF Worker!AgentIsKnown
<1> QED
    BY <1>6, <1>7, <1>9, <1>10, <1>11, <1>12 DEF AllSpawning, AllHeld

(* What a pipeline under way knows of its worker. *)
LEMMA Piped ==
    ASSUME Worker!WorkerTypes, NEW i \in Spawns
    PROVE  /\ spawn[i].w \in Workers /\ spawn[i] \in Worker!SpawnJob
           /\ spawn[i].plane \in Planes /\ spawn[i].token \in Nat /\ spawn[i].box \in 0..MaxBoxes
           /\ \A pc \in {"bake", "prepare", "inspect", "create", "record"} :
                LET new == [spawn[i] EXCEPT !.pc = pc] IN
                /\ new \in Worker!SpawnJob /\ new.pc = pc /\ new.w = spawn[i].w
                /\ new.token = spawn[i].token
BY WorkerTyped DEF Worker!SpawnJob

(* A spawn that failed says so in the row and goes no further. *)
LEMMA FailedRow ==
    ASSUME WorkerInv, NEW i \in Spawns, Worker!Failed(i)
    PROVE  LET w == spawn[i].w IN
           /\ spawn' = [spawn EXCEPT ![i] = Worker!NoSpawn]
           /\ worker' \in [Workers -> WRow \cup {Worker!Absent, Worker!Gone}]
           /\ \A v \in Workers \ {w} : worker'[v] = worker[v]
           /\ worker'[w] = Worker!Absent <=> worker[w] = Worker!Absent
           /\ worker'[w] = Worker!Gone <=> worker[w] = Worker!Gone
           /\ Worker!there(w) => /\ worker'[w].container = worker[w].container
                                 /\ worker'[w].token = worker[w].token
<1> DEFINE w == spawn[i].w
           rec == [worker[w] EXCEPT !.state = "error", !.setup = "error"]
<1>1. w \in Workers
    BY Piped DEF WorkerInv
<1>2. Worker!there(w) => /\ rec \in WRow /\ rec.token = worker[w].token
                         /\ rec.container = worker[w].container
    <2>1. "error" \in Worker!States /\ "error" \in Worker!Phases
        BY States
    <2> QED
        BY <1>1, <2>1, WorkerTyped DEF WorkerInv, WRow, Worker!WorkerRow
<1>3. Worker!Update(w, rec) /\ spawn' = [spawn EXCEPT ![i] = Worker!NoSpawn]
    BY DEF Worker!Failed
<1> HIDE DEF w, rec
<1> QED
    BY <1>1, <1>2, <1>3, Updated, WorkerTyped DEF WorkerInv, w

(* A spawn that failed leaves its worker as it was: with no container, unless *)
(* it had made one.                                                            *)
LEMMA FailedKept ==
    ASSUME WorkerInv, NEW i \in Spawns, spawn[i].pc \notin {"idle", "record"}, Worker!Failed(i),
           UNCHANGED <<box, left, request, astray, stranded>>
    PROVE  /\ worker' \in [Workers -> WRow \cup {Worker!Absent, Worker!Gone}]
           /\ spawn' \in [Spawns -> Worker!SpawnJob] /\ Rows'
<1> USE DEF WorkerInv
<1> DEFINE w == spawn[i].w
<1>1. w \in Workers /\ Worker!WorkerTypes
    BY Piped
<1>2. /\ spawn' = [spawn EXCEPT ![i] = Worker!NoSpawn]
      /\ worker' \in [Workers -> WRow \cup {Worker!Absent, Worker!Gone}]
      /\ \A v \in Workers \ {w} : worker'[v] = worker[v]
      /\ worker'[w] = Worker!Absent <=> worker[w] = Worker!Absent
      /\ worker'[w] = Worker!Gone <=> worker[w] = Worker!Gone
    BY FailedRow
<1>3. spawn' \in [Spawns -> Worker!SpawnJob] /\ spawn'[i].pc = "idle"
    BY <1>2, Nothing, WorkerTyped
<1>4. Spawning(i)'
    BY <1>3 DEF Spawning
<1>5. w \notin Excused' => box'[w] = Worker!Absent
    <2>1. Spawning(i)
        BY DEF Rows, AllSpawning
    <2> QED
        BY <2>1, ExcusedGrows DEF Spawning
<1> QED
    BY <1>1, <1>2, <1>3, <1>4, <1>5, Nothing, PipelineKeeps

(* A state that is written while the container is still to come. *)
LEMMA GoesKept ==
    ASSUME WorkerInv, NEW i \in Spawns, NEW pc \in {"bake", "prepare"},
           NEW new \in Worker!SpawnJob, spawn' = [spawn EXCEPT ![i] = new],
           new.pc = pc, new.w = spawn[i].w,
           spawn[i].pc \in {"image", "bake"},
           UNCHANGED worker \/ Worker!State(spawn[i].w, "starting"),
           UNCHANGED <<box, left, request, astray, stranded>>
    PROVE  /\ worker' \in [Workers -> WRow \cup {Worker!Absent, Worker!Gone}]
           /\ spawn' \in [Spawns -> Worker!SpawnJob] /\ Rows'
<1> USE DEF WorkerInv, Rows
<1> DEFINE w == spawn[i].w
           rec == [worker[w] EXCEPT !.state = "starting"]
<1>1. w \in Workers /\ Worker!WorkerTypes
    BY Piped
<1>2. Worker!there(w) => /\ rec \in WRow /\ rec.token = worker[w].token
                         /\ rec.container = worker[w].container
    <2>1. "starting" \in Worker!States
        BY States
    <2> QED
        BY <1>1, <2>1, WorkerTyped DEF WRow, Worker!WorkerRow
<1>3. UNCHANGED worker \/ Worker!Update(w, rec)
    BY DEF Worker!State
<1> HIDE DEF rec
<1>4. /\ worker' \in [Workers -> WRow \cup {Worker!Absent, Worker!Gone}]
      /\ \A v \in Workers \ {w} : worker'[v] = worker[v]
      /\ worker'[w] = Worker!Absent <=> worker[w] = Worker!Absent
      /\ worker'[w] = Worker!Gone <=> worker[w] = Worker!Gone
      /\ Worker!there(w) => worker'[w].container = worker[w].container
    <2> HIDE DEF w
    <2>1. CASE UNCHANGED worker
        BY <2>1, WorkerTyped DEF Worker!there
    <2>2. CASE Worker!Update(w, rec)
        BY <1>1, <1>2, <2>2, Updated, WorkerTyped
    <2> QED
        BY <1>3, <2>1, <2>2
<1>5. spawn' \in [Spawns -> Worker!SpawnJob] /\ spawn'[i] = new
    BY WorkerTyped
<1>6. w \notin Excused' => /\ worker'[w] # Worker!Absent /\ worker'[w] # Worker!Gone
                           /\ worker'[w].container = 0 /\ box[w] = Worker!Absent
    <2>1. Spawning(i)
        BY DEF AllSpawning
    <2> QED
        BY <1>4, <2>1, ExcusedGrows DEF Spawning, Worker!there
<1>7. w \notin Excused' => Spawning(i)'
    BY <1>4, <1>5, <1>6 DEF Spawning, Worker!there
<1> QED
    BY <1>1, <1>4, <1>5, <1>6, <1>7, PipelineKeeps

(* The spawn looks for its image, builds it and comes back *)
(* (ensureProjectImage).                                   *)
LEMMA ImageKept ==
    ASSUME WorkerInv, NEW i \in Spawns, Worker!ensureProjectImage(i) \/ Worker!Baked(i)
    PROVE  WorkerInv'
<1>1. /\ UNCHANGED <<box, left, image, request, look, agent, made, astray, stranded>>
      /\ spawn[i].pc \in {"image", "bake"} /\ Worker!WorkerTypes /\ Watched
    BY DEF Worker!ensureProjectImage, Worker!Baked, WorkerInv
<1>2. /\ builds' \in [1..MaxBuilds -> {"none", "building", "ready", "error"}]
      /\ \/ Worker!Failed(i)
         \/ Worker!Goes(i, "prepare") /\ Worker!State(spawn[i].w, "starting")
         \/ /\ UNCHANGED worker /\ Worker!nextBuild \in 0..MaxBuilds
            /\ spawn' = [spawn EXCEPT ![i].pc = "bake", ![i].build = Worker!nextBuild]
    <2>1. builds \in [1..MaxBuilds -> {"none", "building", "ready", "error"}]
        BY <1>1 DEF Worker!WorkerTypes
    <2>2. CASE UNCHANGED builds
        BY <1>1, <2>1, <2>2, Building DEF Worker!ensureProjectImage, Worker!Baked
    <2>3. CASE Worker!buildProjectImage
        BY <1>1, <2>1, <2>3, Building DEF Worker!ensureProjectImage, Worker!Baked
    <2> QED
        BY <2>2, <2>3 DEF Worker!ensureProjectImage, Worker!Baked
<1>3. /\ worker' \in [Workers -> WRow \cup {Worker!Absent, Worker!Gone}]
      /\ spawn' \in [Spawns -> Worker!SpawnJob] /\ Rows'
    <2>1. CASE Worker!Failed(i)
        BY <1>1, <2>1, FailedKept
    <2>2. CASE Worker!Goes(i, "prepare") /\ Worker!State(spawn[i].w, "starting")
        <3>1. PICK new \in Worker!SpawnJob : /\ spawn' = [spawn EXCEPT ![i] = new]
                                             /\ new.pc = "prepare" /\ new.w = spawn[i].w
            BY <1>1, <2>2, Piped DEF Worker!Goes
        <3> QED
            BY <1>1, <2>2, <3>1, GoesKept
    <2>3. CASE /\ UNCHANGED worker /\ Worker!nextBuild \in 0..MaxBuilds
               /\ spawn' = [spawn EXCEPT ![i].pc = "bake", ![i].build = Worker!nextBuild]
        <3> DEFINE n == Worker!nextBuild
        <3>1. /\ n \in 0..MaxBuilds
              /\ spawn' = [spawn EXCEPT ![i] = [spawn[i] EXCEPT !.pc = "bake", !.build = n]]
            BY <2>3
        <3> HIDE DEF n
        <3>2. PICK new \in Worker!SpawnJob : /\ spawn' = [spawn EXCEPT ![i] = new]
                                             /\ new.pc = "bake" /\ new.w = spawn[i].w
            <4>1. LET new == [spawn[i] EXCEPT !.pc = "bake", !.build = n] IN
                  new \in Worker!SpawnJob /\ new.pc = "bake" /\ new.w = spawn[i].w
                BY <1>1, <3>1, Piped DEF Worker!SpawnJob
            <4> QED
                BY <3>1, <4>1
        <3> QED
            BY <1>1, <2>3, <3>2, GoesKept
    <2> QED
        BY <1>2, <2>1, <2>2, <2>3
<1>4. Worker!WorkerTypes'
    BY <1>1, <1>2, <1>3 DEF Worker!WorkerTypes, WRow
<1> QED
    BY <1>1, <1>3, <1>4 DEF WorkerInv, Watched

(* The spawn writes the token it will give, makes the volumes and the *)
(* network, and goes on or fails.                                     *)
LEMMA PreparedKept == ASSUME WorkerInv, NEW i \in Spawns, Worker!Prepared(i) PROVE WorkerInv'
<1> USE DEF WorkerInv
<1>1. /\ UNCHANGED <<box, left, image, builds, request, look, agent, astray, stranded>>
      /\ spawn[i].pc = "prepare" /\ Worker!WorkerTypes /\ Rows
    BY DEF Worker!Prepared
<1>2. CASE Worker!Failed(i) /\ UNCHANGED made
    <2>1. /\ worker' \in [Workers -> WRow \cup {Worker!Absent, Worker!Gone}]
          /\ spawn' \in [Spawns -> Worker!SpawnJob] /\ Rows'
        BY <1>1, <1>2, FailedKept
    <2>2. Worker!WorkerTypes'
        BY <1>1, <1>2, <2>1 DEF Worker!WorkerTypes, WRow
    <2> QED
        BY <1>1, <2>1, <2>2 DEF Watched
<1>3. CASE ~(Worker!Failed(i) /\ UNCHANGED made)
    <2> DEFINE w == spawn[i].w
               token == IF spawn[i].plane = "agent" THEN made.token + 1 ELSE 0
               rec == [worker[w] EXCEPT !.plane = spawn[i].plane, !.token = token]
               new == [spawn[i] EXCEPT !.pc = "inspect", !.token = token]
    <2>1. /\ Worker!Update(w, rec)
          /\ spawn' = [spawn EXCEPT ![i] = new]
          /\ made' = IF spawn[i].plane = "agent" THEN [made EXCEPT !.token = token] ELSE made
        BY <1>3 DEF Worker!Prepared, Worker!newHash
    <2>2. made \in [box : 0..MaxBoxes, token : Nat]
        BY <1>1 DEF Worker!WorkerTypes
    <2>3. token \in Nat
        BY <2>2
    <2>4. w \in Workers
        BY <1>1, Piped
    <2> HIDE DEF token
    <2>5. made' \in [box : 0..MaxBoxes, token : Nat]
        BY <2>1, <2>2, <2>3
    <2>6. new \in Worker!SpawnJob /\ new.pc = "inspect" /\ new.w = w /\ new.token = token
        BY <1>1, <2>3, Piped DEF Worker!SpawnJob
    <2>7. Worker!there(w) => /\ rec \in WRow /\ rec.token = token
                             /\ rec.container = worker[w].container
        BY <1>1, <2>3, <2>4, Piped, WorkerTyped DEF WRow, Worker!WorkerRow
    <2> HIDE DEF rec, new
    <2>8. /\ worker' \in [Workers -> WRow \cup {Worker!Absent, Worker!Gone}]
          /\ \A v \in Workers \ {w} : worker'[v] = worker[v]
          /\ worker'[w] = Worker!Absent <=> worker[w] = Worker!Absent
          /\ worker'[w] = Worker!Gone <=> worker[w] = Worker!Gone
          /\ Worker!there(w) => /\ worker'[w].container = worker[w].container
                                /\ worker'[w].token = token
        <3> HIDE DEF w
        <3> QED
            BY <1>1, <2>1, <2>4, <2>7, Updated, WorkerTyped
    <2>9. spawn' \in [Spawns -> Worker!SpawnJob] /\ spawn'[i] = new
        BY <1>1, <2>1, <2>6, WorkerTyped
    <2>10. w \notin Excused' => /\ worker'[w] # Worker!Absent /\ worker'[w] # Worker!Gone
                                /\ worker'[w].container = 0 /\ worker'[w].token = token
                                /\ box[w] = Worker!Absent
        <3>1. Spawning(i)
            BY <1>1 DEF Rows, AllSpawning
        <3> QED
            BY <1>1, <2>8, <3>1, ExcusedGrows DEF Spawning, Worker!there
    <2>11. w \notin Excused' => Spawning(i)'
        BY <1>1, <2>6, <2>9, <2>10 DEF Spawning, Worker!there
    <2>12. Rows'
        BY <1>1, <2>1, <2>4, <2>6, <2>8, <2>10, <2>11, PipelineKeeps
    <2>13. Worker!WorkerTypes'
        BY <1>1, <2>5, <2>8, <2>9 DEF Worker!WorkerTypes, WRow
    <2> QED
        BY <1>1, <2>12, <2>13 DEF Watched
<1> QED
    BY <1>2, <1>3

(* A container that is there is one its row knows nothing of, or that the daemon *)
(* refused to remove: only an excused worker has one here.                       *)
LEMMA ExistingKept == ASSUME WorkerInv, NEW i \in Spawns, Worker!Existing(i) PROVE WorkerInv'
<1> USE DEF WorkerInv
<1> DEFINE w == spawn[i].w
<1>1. /\ UNCHANGED <<image, builds, request, look, agent, made, astray, stranded>>
      /\ spawn[i].pc = "inspect" /\ Worker!WorkerTypes /\ Rows /\ w \in Workers
    BY Piped DEF Worker!Existing
<1>2. Spawning(i)
    BY <1>1 DEF Rows, AllSpawning
<1>3. CASE Worker!Failed(i) /\ UNCHANGED <<box, left>>
    <2>1. /\ worker' \in [Workers -> WRow \cup {Worker!Absent, Worker!Gone}]
          /\ spawn' \in [Spawns -> Worker!SpawnJob] /\ Rows'
        BY <1>1, <1>3, FailedKept
    <2>2. Worker!WorkerTypes'
        BY <1>1, <1>3, <2>1 DEF Worker!WorkerTypes, WRow
    <2> QED
        BY <1>1, <2>1, <2>2 DEF Watched
<1>4. CASE /\ UNCHANGED <<worker, box>>
           /\ left' = [left EXCEPT ![w] = {"network"} \cup Worker!Volumes]
           /\ Worker!Goes(i, "create")
    <2>1. PICK new \in Worker!SpawnJob : /\ spawn' = [spawn EXCEPT ![i] = new]
                                         /\ new.pc = "create" /\ new.w = w
                                         /\ new.token = spawn[i].token
        BY <1>1, <1>4, Piped DEF Worker!Goes
    <2>2. spawn' \in [Spawns -> Worker!SpawnJob] /\ spawn'[i] = new
        BY <1>1, <2>1, WorkerTyped
    <2>3. w \notin Excused' => /\ Worker!there(w) /\ worker[w].container = 0
                               /\ worker[w].token = spawn[i].token /\ box[w] = Worker!Absent
        BY <1>1, <1>2, ExcusedGrows DEF Spawning
    <2>4. w \notin Excused' => Spawning(i)'
        BY <1>1, <1>4, <2>1, <2>2, <2>3 DEF Spawning, Worker!there
    <2>5. left' \in [Workers -> SUBSET ({"network"} \cup Worker!Volumes)]
          /\ \A v \in Workers \ {w} : left'[v] = left[v]
        BY <1>1, <1>4, WorkerTyped
    <2>6. Rows'
        BY <1>1, <1>4, <2>1, <2>3, <2>4, <2>5, PipelineKeeps
    <2>7. Worker!WorkerTypes'
        BY <1>1, <1>4, <2>2, <2>5 DEF Worker!WorkerTypes
    <2> QED
        BY <1>1, <2>6, <2>7 DEF Watched
<1>5. CASE /\ box[w] # Worker!Absent /\ UNCHANGED <<worker, left>>
           /\ box' = [box EXCEPT ![w] = Worker!Up(@)]
           /\ spawn' = [spawn EXCEPT ![i].pc = "record", ![i].box = box[w].id]
    <2>1. w \in Excused'
        BY <1>1, <1>2, <1>5, ExcusedGrows DEF Spawning
    <2>2. box[w] \in Worker!Box
        BY <1>1, <1>5, WorkerTyped
    <2>3. Worker!Up(box[w]) \in Worker!Box
        BY <2>2, Turned
    <2>4. box' \in [Workers -> Worker!Box \cup {Worker!Absent}]
          /\ \A v \in Workers \ {w} : box'[v] = box[v]
        BY <1>1, <1>5, <2>3, WorkerTyped
    <2>5. box[w].id \in 0..MaxBoxes
        <3>1. box[w].id \in 1..MaxBoxes
            BY <2>2 DEF Worker!Box
        <3> QED
            BY <3>1, WorkerAssumption
    <2>6. PICK new \in Worker!SpawnJob : /\ spawn' = [spawn EXCEPT ![i] = new] /\ new.w = w
        <3> DEFINE new == [spawn[i] EXCEPT !.pc = "record", !.box = box[w].id]
        <3>1. new \in Worker!SpawnJob /\ new.w = w
            BY <1>1, <2>5, Piped DEF Worker!SpawnJob
        <3> QED
            BY <1>5, <3>1
    <2>7. spawn' \in [Spawns -> Worker!SpawnJob]
        BY <1>1, <2>6, WorkerTyped
    <2>8. Rows'
        <3>1. \A v \in Workers \ {w} : /\ worker'[v] = worker[v] /\ box'[v] = box[v]
                                       /\ left'[v] = left[v]
            BY <1>5, <2>4
        <3>2. /\ worker'[w] = Worker!Absent <=> worker[w] = Worker!Absent
              /\ worker'[w] = Worker!Gone <=> worker[w] = Worker!Gone
              /\ UNCHANGED <<request, astray, stranded>> /\ spawn[i].pc # "idle"
            BY <1>1, <1>5
        <3> QED
            BY <1>1, <2>1, <2>6, <3>1, <3>2, PipelineKeeps
    <2>9. Worker!WorkerTypes'
        BY <1>1, <1>5, <2>4, <2>7 DEF Worker!WorkerTypes
    <2> QED
        BY <1>1, <2>8, <2>9 DEF Watched
<1> QED
    BY <1>3, <1>4, <1>5 DEF Worker!Existing

(* The spawn makes the container and starts it. *)
LEMMA CreateKept == ASSUME WorkerInv, NEW i \in Spawns, Worker!spawnContainer(i) PROVE WorkerInv'
<1> USE DEF WorkerInv
<1> DEFINE w == spawn[i].w
           id == made.box + 1
<1>1. /\ UNCHANGED <<left, image, builds, request, look, agent, astray>>
      /\ spawn[i].pc = "create" /\ Worker!WorkerTypes /\ Rows /\ w \in Workers
    BY Piped DEF Worker!spawnContainer
<1>2. Spawning(i)
    BY <1>1 DEF Rows, AllSpawning
<1>3. CASE Worker!Failed(i) /\ UNCHANGED <<box, made, stranded>>
    <2>1. /\ worker' \in [Workers -> WRow \cup {Worker!Absent, Worker!Gone}]
          /\ spawn' \in [Spawns -> Worker!SpawnJob] /\ Rows'
        BY <1>1, <1>3, FailedKept
    <2>2. Worker!WorkerTypes'
        BY <1>1, <1>3, <2>1 DEF Worker!WorkerTypes, WRow
    <2> QED
        BY <1>1, <2>1, <2>2 DEF Watched
<1>4. ASSUME NEW on \in BOOLEAN, box[w] = Worker!Absent, id <= MaxBoxes,
             box' = [box EXCEPT ![w] = [id |-> id, up |-> on, end |-> "", script |-> "pending",
                                        plane |-> spawn[i].plane, token |-> spawn[i].token]],
             made' = [made EXCEPT !.box = id],
             \/ /\ spawn' = [spawn EXCEPT ![i].pc = "record", ![i].box = id]
                /\ UNCHANGED <<worker, stranded>>
             \/ Worker!Failed(i) /\ stranded' = stranded \cup {w}
      PROVE  WorkerInv'
    <2> DEFINE b == [id |-> id, up |-> on, end |-> "", script |-> "pending",
                     plane |-> spawn[i].plane, token |-> spawn[i].token]
    <2>1. made \in [box : 0..MaxBoxes, token : Nat]
        BY <1>1 DEF Worker!WorkerTypes
    <2>2. id \in 1..MaxBoxes /\ id \in 0..MaxBoxes
        <3> DEFINE m == made.box
        <3>1. m \in 0..MaxBoxes /\ m + 1 <= MaxBoxes
            BY <1>4, <2>1
        <3> HIDE DEF m
        <3>2. m + 1 \in 1..MaxBoxes /\ m + 1 \in 0..MaxBoxes
            BY <3>1, WorkerAssumption
        <3> QED
            BY <3>2 DEF m
    <2> HIDE DEF id
    <2>3. made' \in [box : 0..MaxBoxes, token : Nat]
        BY <1>4, <2>1, <2>2
    <2>4. b \in Worker!Box /\ b.id = id /\ b.token = spawn[i].token
        BY <1>1, <2>2, Piped, States DEF Worker!Box
    <2>5. box' = [box EXCEPT ![w] = b]
        BY <1>4
    <2> HIDE DEF b
    <2>6. /\ box' \in [Workers -> Worker!Box \cup {Worker!Absent}] /\ box'[w] = b
          /\ \A v \in Workers \ {w} : box'[v] = box[v]
        BY <1>1, <2>4, <2>5, WorkerTyped
    <2>7. PICK new \in Worker!SpawnJob :
              /\ spawn' = [spawn EXCEPT ![i] = new]
              /\ \/ new.pc = "idle" /\ Worker!Failed(i) /\ stranded' = stranded \cup {w}
                 \/ /\ new.pc = "record" /\ new.w = w /\ new.token = spawn[i].token
                    /\ new.box = id /\ UNCHANGED <<worker, stranded>>
        <3>1. LET new == [spawn[i] EXCEPT !.pc = "record", !.box = id] IN
              /\ new \in Worker!SpawnJob /\ new.pc = "record" /\ new.w = w
              /\ new.token = spawn[i].token /\ new.box = id
            BY <1>1, <2>2, Piped DEF Worker!SpawnJob
        <3>2. CASE /\ spawn' = [spawn EXCEPT ![i].pc = "record", ![i].box = id]
                   /\ UNCHANGED <<worker, stranded>>
            BY <3>1, <3>2
        <3>3. CASE Worker!Failed(i) /\ stranded' = stranded \cup {w}
            BY <3>3, Nothing DEF Worker!Failed
        <3> QED
            BY <1>4, <3>2, <3>3
    <2>8. /\ worker' \in [Workers -> WRow \cup {Worker!Absent, Worker!Gone}]
          /\ \A v \in Workers \ {w} : worker'[v] = worker[v]
          /\ worker'[w] = Worker!Absent <=> worker[w] = Worker!Absent
          /\ worker'[w] = Worker!Gone <=> worker[w] = Worker!Gone
          /\ Worker!there(w) => /\ worker'[w].container = worker[w].container
                                /\ worker'[w].token = worker[w].token
        <3>1. CASE UNCHANGED worker
            BY <1>1, <3>1, WorkerTyped
        <3>2. CASE Worker!Failed(i)
            BY <3>2, FailedRow
        <3> QED
            BY <2>7, <3>1, <3>2
    <2>9. spawn' \in [Spawns -> Worker!SpawnJob] /\ spawn'[i] = new
        BY <1>1, <2>7, WorkerTyped
    <2>10. stranded \subseteq stranded' /\ stranded' \in SUBSET Workers
        BY <1>1, <2>7 DEF Worker!WorkerTypes
    <2>11. w \notin Excused' => /\ worker'[w] # Worker!Absent /\ worker'[w] # Worker!Gone
                                /\ worker'[w].container = 0 /\ worker'[w].token = spawn[i].token
                                /\ new.pc = "record" /\ new.w = w /\ new.token = spawn[i].token
                                /\ new.box = id
        <3>1. w \notin Excused' => w \notin Excused /\ new.pc # "idle"
            BY <1>1, <2>7, <2>10, ExcusedGrows DEF Excused
        <3> QED
            BY <1>1, <1>2, <2>7, <2>8, <3>1 DEF Spawning, Worker!there
    <2>12. w \notin Excused' => Spawning(i)'
        BY <1>1, <2>4, <2>6, <2>9, <2>11 DEF Spawning, Worker!there
    <2>13. Rows'
        <3>1. b.id # 0
            BY <2>2, <2>4
        <3>2. UNCHANGED request /\ astray \subseteq astray' /\ spawn[i].pc # "idle"
            BY <1>1
        <3>3. new.pc = "idle" \/ new.w = w
            BY <2>7
        <3>4. \A v \in Workers \ {w} : /\ worker'[v] = worker[v] /\ box'[v] = box[v]
                                       /\ left'[v] = left[v]
            BY <1>1, <2>6, <2>8
        <3>5. w \notin Excused' => new.pc # "idle" /\ worker'[w].container # box'[w].id
            BY <2>6, <2>11, <3>1
        <3> QED
            BY <1>1, <2>7, <2>8, <2>10, <2>12, <3>2, <3>3, <3>4, <3>5, PipelineKeeps
    <2>14. Worker!WorkerTypes'
        BY <1>1, <2>3, <2>6, <2>8, <2>9, <2>10 DEF Worker!WorkerTypes, WRow
    <2> QED
        BY <1>1, <2>13, <2>14 DEF Watched
<1> QED
    BY <1>3, <1>4 DEF Worker!spawnContainer

(* The spawn writes the container into the row: they have the same token, *)
(* which is the heart of AgentIsKnown.                                    *)
LEMMA RecordedKept == ASSUME WorkerInv, NEW i \in Spawns, Worker!Recorded(i) PROVE WorkerInv'
<1> USE DEF WorkerInv
<1> DEFINE w == spawn[i].w
           rec == [worker[w] EXCEPT !.container = spawn[i].box, !.state = "starting"]
<1>1. /\ UNCHANGED <<box, left, image, builds, request, look, agent, made, astray, stranded>>
      /\ spawn[i].pc = "record" /\ Worker!WorkerTypes /\ Rows /\ w \in Workers
      /\ Worker!Update(w, rec) /\ spawn' = [spawn EXCEPT ![i] = Worker!NoSpawn]
    BY Piped DEF Worker!Recorded
<1>2. Worker!there(w) => /\ rec \in WRow /\ rec.token = worker[w].token
                         /\ rec.container = spawn[i].box
    <2> DEFINE b == spawn[i].box
    <2>1. "starting" \in Worker!States
        BY States
    <2>2. b \in 0..MaxBoxes /\ (Worker!there(w) => worker[w] \in WRow)
        BY <1>1, Piped, WorkerTyped
    <2> HIDE DEF b
    <2>3. Worker!there(w) =>
              LET new == [worker[w] EXCEPT !.container = b, !.state = "starting"] IN
              new \in WRow /\ new.token = worker[w].token /\ new.container = b
        BY <2>1, <2>2 DEF WRow, Worker!WorkerRow
    <2> QED
        BY <2>3 DEF b
<1> HIDE DEF rec
<1>3. /\ worker' \in [Workers -> WRow \cup {Worker!Absent, Worker!Gone}]
      /\ \A v \in Workers \ {w} : worker'[v] = worker[v]
      /\ worker'[w] = Worker!Absent <=> worker[w] = Worker!Absent
      /\ worker'[w] = Worker!Gone <=> worker[w] = Worker!Gone
      /\ Worker!there(w) => /\ worker'[w].token = worker[w].token
                            /\ worker'[w].container = spawn[i].box
    <2> HIDE DEF w
    <2> QED
        BY <1>1, <1>2, Updated, WorkerTyped
<1>4. spawn' \in [Spawns -> Worker!SpawnJob] /\ spawn'[i].pc = "idle"
    BY <1>1, Nothing, WorkerTyped
<1>5. Spawning(i)'
    BY <1>4 DEF Spawning
<1>6. w \notin Excused' /\ box[w] # Worker!Absent =>
          worker'[w].token = box[w].token /\ worker'[w].container = box[w].id
    <2>1. Spawning(i)
        BY <1>1 DEF Rows, AllSpawning
    <2>2. w \notin Excused' => w \notin Excused
        BY <1>1, ExcusedGrows
    <2> QED
        BY <1>1, <1>3, <2>1, <2>2 DEF Spawning
<1>7. Rows'
    BY <1>1, <1>3, <1>5, <1>6, Nothing, PipelineKeeps
<1>8. Worker!WorkerTypes'
    BY <1>1, <1>3, <1>4 DEF Worker!WorkerTypes, WRow
<1> QED
    BY <1>1, <1>7, <1>8 DEF Watched

(* A row is new, or made anew: its pipeline begins. *)
LEMMA BegunKept ==
    ASSUME Worker!WorkerTypes, NEW i \in Spawns, NEW w \in Workers, NEW plane \in Planes,
           Worker!Begun(i, w, plane)
    PROVE  /\ spawn' \in [Spawns -> Worker!SpawnJob]
           /\ spawn[i].pc = "idle" /\ spawn'[i].pc = "image" /\ spawn'[i].w = w
           /\ \A j \in Spawns \ {i} : spawn'[j] = spawn[j]
<1> DEFINE new == [Worker!NoSpawn EXCEPT !.pc = "image", !.w = w, !.plane = plane]
<1>1. new \in Worker!SpawnJob /\ new.pc = "image" /\ new.w = w
    BY Nothing DEF Worker!SpawnJob
<1>2. spawn' = [spawn EXCEPT ![i] = new] /\ spawn[i].pc = "idle"
    BY DEF Worker!Begun
<1> HIDE DEF new
<1> QED
    BY <1>1, <1>2, WorkerTyped

(* The row of a new worker names no container. *)
LEMMA FreshRow ==
    ASSUME NEW plane \in Planes, NEW token \in Nat
    PROVE  LET rec == [Worker!Fresh(plane) EXCEPT !.token = token] IN
           /\ Worker!Fresh(plane) \in WRow /\ Worker!Fresh(plane).container = 0
           /\ rec \in WRow /\ rec.container = 0
<1>1. 0 \in 0..MaxBoxes
    BY WorkerAssumption
<1> QED
    BY <1>1, States DEF Worker!Fresh, WRow, Worker!WorkerRow

(* A worker is asked for (spawnWorker). *)
LEMMA SpawnedKept ==
    ASSUME WorkerInv, NEW w \in Workers, NEW i \in Spawns, NEW plane \in Planes,
           Worker!spawnWorker(w, i, plane)
    PROVE  WorkerInv'
<1> USE DEF WorkerInv
<1> DEFINE rec == Worker!Fresh(plane)
<1>1. /\ UNCHANGED <<box, left, image, builds, request, look, agent, made, astray, stranded>>
      /\ worker[w] = Worker!Absent /\ worker' = [worker EXCEPT ![w] = rec]
      /\ Worker!Begun(i, w, plane) /\ Worker!WorkerTypes
      /\ Unborn /\ Alone /\ AllSpawning /\ Named /\ AllHeld /\ Erased
      /\ Worker!AgentIsKnown /\ Excused' = Excused
    BY DEF Worker!spawnWorker, Rows, Excused
<1>2. rec \in WRow /\ rec.container = 0 /\ rec # Worker!Absent /\ rec # Worker!Gone
    BY FreshRow, RowsDiffer
<1> HIDE DEF rec
<1>3. /\ worker' \in [Workers -> WRow \cup {Worker!Absent, Worker!Gone}] /\ worker'[w] = rec
      /\ \A v \in Workers \ {w} : worker'[v] = worker[v]
    BY <1>1, <1>2, WorkerTyped
<1>4. /\ spawn' \in [Spawns -> Worker!SpawnJob]
      /\ spawn[i].pc = "idle" /\ spawn'[i].pc = "image" /\ spawn'[i].w = w
      /\ \A j \in Spawns \ {i} : spawn'[j] = spawn[j]
    BY <1>1, BegunKept
<1>5. box[w] = Worker!Absent /\ ~Worker!busy(w)
    BY <1>1 DEF Unborn
<1>6. /\ \A j \in Spawns : spawn[j].pc # "idle" => spawn[j].w # w
      /\ \A r \in Requests : request[r].pc # "idle" => request[r].w # w
    BY <1>5 DEF Worker!busy, Worker!spawning
<1>7. /\ \A v \in Workers \ {w} : /\ Worker!busy(v)' => Worker!busy(v)
                                  /\ Worker!spawning(v)' <=> Worker!spawning(v)
      /\ Worker!spawning(w)'
    BY <1>1, <1>4 DEF Worker!busy, Worker!spawning
<1>8. Unborn'
    BY <1>1, <1>2, <1>3, <1>7 DEF Unborn
<1>9. Alone'
    BY <1>1, <1>4, <1>6 DEF Alone
<1>10. AllSpawning'
    <2>1. Spawning(i)'
        BY <1>1, <1>2, <1>3, <1>4, <1>5 DEF Spawning, Worker!there
    <2>2. ASSUME NEW j \in Spawns \ {i} PROVE Spawning(j)'
        <3>1. Spawning(j) /\ spawn[j].w \in Workers
            BY <1>1, WorkerTyped DEF AllSpawning, Worker!SpawnJob
        <3> QED
            BY <1>1, <1>3, <1>4, <1>6, <3>1 DEF Spawning, Worker!there
    <2> QED
        BY <2>1, <2>2 DEF AllSpawning
<1>11. Erased'
    BY <1>1, <1>2, <1>3 DEF Erased
<1>12. Worker!AgentIsKnown'
    BY <1>1, <1>3, <1>5 DEF Worker!AgentIsKnown, Worker!there
<1>14. Named'
    BY <1>1, <1>3, <1>7 DEF Named, Worker!there
<1>15. AllHeld'
    <2> SUFFICES ASSUME NEW r \in Requests, request[r].pc \in {"delete", "rebuild"} PROVE Held(r)'
        BY <1>1 DEF AllHeld, Held
    <2>1. request[r].w \in Workers \ {w} /\ Held(r)
        BY <1>1, <1>6, WorkerTyped DEF AllHeld, Worker!Request
    <2> QED
        BY <1>1, <1>3, <1>7, <2>1 DEF Held, Worker!there
<1>13. Worker!WorkerTypes'
    BY <1>1, <1>3, <1>4 DEF Worker!WorkerTypes, WRow
<1> QED
    BY <1>1, <1>8, <1>9, <1>10, <1>11, <1>12, <1>13, <1>14, <1>15 DEF Rows, Watched

(* A delete and a rebuild take the container away.  One that was neither     *)
(* disturbed nor refused found the row there, and the container it names: of *)
(* what it did not name, its worker would be excused.                        *)
LEMMA Removed ==
    ASSUME Worker!WorkerTypes, NEW r \in Requests, NEW w \in Workers, w = request[r].w,
           Held(r), request[r].pc \in {"delete", "rebuild"},
           Worker!removeContainerOnly(r), Worker!GoesAstray(w, Worker!Crossed(r))
    PROVE  /\ box' \in [Workers -> Worker!Box \cup {Worker!Absent}]
           /\ left' \in [Workers -> SUBSET ({"network"} \cup Worker!Volumes)]
           /\ agent' \in [Workers -> 0..MaxBoxes]
           /\ \A v \in Workers \ {w} : box'[v] = box[v] /\ left'[v] = left[v]
           /\ astray' \in SUBSET Workers /\ stranded' \in SUBSET Workers
           /\ Excused \subseteq Excused'
           /\ w \notin Excused' =>
                  /\ box'[w] = Worker!Absent /\ Worker!there(w) /\ ~Worker!spawning(w)
                  /\ \A q \in Requests \ {r} : request[q].pc # "idle" => request[q].w # w
                  /\ request[r].pc = "delete" => left'[w] = {}
<1>1. /\ box \in [Workers -> Worker!Box \cup {Worker!Absent}]
      /\ left \in [Workers -> SUBSET ({"network"} \cup Worker!Volumes)]
      /\ agent \in [Workers -> 0..MaxBoxes] /\ astray \subseteq Workers /\ stranded \subseteq Workers
      /\ 0 \in 0..MaxBoxes
    BY WorkerAssumption DEF Worker!WorkerTypes
<1>2. /\ astray \subseteq astray' /\ astray' \in SUBSET Workers
      /\ w \notin astray' => ~Worker!Crossed(r)
    BY <1>1 DEF Worker!GoesAstray
<1>3. \A q \in Requests \ {r} : w \notin astray' /\ request[q].pc # "idle" => request[q].w # w
    BY <1>2 DEF Worker!Crossed
<1>4. stranded \subseteq stranded' /\ stranded' \in SUBSET Workers
    BY <1>1 DEF Worker!removeContainerOnly
<1>5. Excused \subseteq Excused'
    BY <1>2, <1>4, ExcusedGrows
<1>6. w \notin Excused' =>
          /\ w \notin astray' /\ w \notin stranded' /\ Worker!there(w) /\ ~Worker!spawning(w)
          /\ box[w] # Worker!Absent => Worker!has(w, request[r].container)
    BY <1>5 DEF Held, Worker!has, Excused
<1>7. CASE /\ Worker!has(w, request[r].container) /\ stranded' = stranded \cup {w} /\ UNCHANGED left
           /\ \/ box[w].up /\ Worker!Down(w, "stop") /\ Worker!HangUp(w)
              \/ UNCHANGED <<box, agent>>
    <2>1. box[w] # Worker!Absent /\ box[w] \in Worker!Box
        BY <1>7, WorkerTyped DEF Worker!has
    <2>2. LET down == [box[w] EXCEPT !.up = FALSE, !.end = "stop"] IN down \in Worker!Box
        BY <2>1, Turned
    <2>3. /\ box' \in [Workers -> Worker!Box \cup {Worker!Absent}]
          /\ agent' \in [Workers -> 0..MaxBoxes] /\ \A v \in Workers \ {w} : box'[v] = box[v]
        BY <1>1, <1>7, <2>2 DEF Worker!Down, Worker!HangUp
    <2>4. w \in Excused'
        BY <1>7 DEF Excused
    <2> QED
        BY <1>1, <1>2, <1>4, <1>5, <1>7, <2>3, <2>4
<1>8. ASSUME NEW refused \in SUBSET left[w],
             IF Worker!has(w, request[r].container)
               THEN box' = [box EXCEPT ![w] = Worker!Absent] /\ Worker!HangUp(w)
               ELSE UNCHANGED <<box, agent>>,
             left' = [left EXCEPT ![w] = @ \ (Worker!removed(r, box'[w]) \ refused)],
             stranded' = IF refused = {} THEN stranded ELSE stranded \cup {w}
      PROVE  /\ box' \in [Workers -> Worker!Box \cup {Worker!Absent}]
             /\ left' \in [Workers -> SUBSET ({"network"} \cup Worker!Volumes)]
             /\ agent' \in [Workers -> 0..MaxBoxes]
             /\ \A v \in Workers \ {w} : box'[v] = box[v] /\ left'[v] = left[v]
             /\ w \notin Excused' =>
                    box'[w] = Worker!Absent /\ (request[r].pc = "delete" => left'[w] = {})
    <2>1. /\ box' \in [Workers -> Worker!Box \cup {Worker!Absent}]
          /\ agent' \in [Workers -> 0..MaxBoxes] /\ \A v \in Workers \ {w} : box'[v] = box[v]
        BY <1>1, <1>8 DEF Worker!HangUp
    <2>2. \/ Worker!has(w, request[r].container) /\ box'[w] = Worker!Absent
          \/ ~Worker!has(w, request[r].container) /\ box'[w] = box[w]
        BY <1>1, <1>8
    <2>3. w \notin Excused' => box'[w] = Worker!Absent /\ refused = {}
        BY <1>6, <1>8, <2>2
    <2> DEFINE rest == left[w] \ (Worker!removed(r, box'[w]) \ refused)
    <2>4. left[w] \subseteq {"network"} \cup Worker!Volumes /\ rest \subseteq left[w]
        BY <1>1
    <2>5. w \notin Excused' /\ request[r].pc = "delete" => rest = {}
        <3>1. request[r].pc = "delete" /\ box'[w] = Worker!Absent =>
                  Worker!removed(r, box'[w]) = {"network"} \cup Worker!Volumes
            <4> SUFFICES ASSUME request[r].pc = "delete", NEW c, c = Worker!Absent
                         PROVE  Worker!removed(r, c) = {"network"} \cup Worker!Volumes
                BY Zenon
            <4> QED
                BY DEF Worker!removed, Worker!keptVolumes, Worker!inUse
        <3> QED
            BY <2>3, <2>4, <3>1
    <2>6. left' = [left EXCEPT ![w] = rest]
        BY <1>8
    <2> HIDE DEF rest
    <2>7. /\ left' \in [Workers -> SUBSET ({"network"} \cup Worker!Volumes)]
          /\ left'[w] = rest /\ \A v \in Workers \ {w} : left'[v] = left[v]
        BY <1>1, <2>4, <2>6
    <2> QED
        BY <2>1, <2>3, <2>5, <2>7
<1>9. CASE \E refused \in SUBSET left[w] :
               /\ IF Worker!has(w, request[r].container)
                    THEN box' = [box EXCEPT ![w] = Worker!Absent] /\ Worker!HangUp(w)
                    ELSE UNCHANGED <<box, agent>>
               /\ left' = [left EXCEPT ![w] = @ \ (Worker!removed(r, box'[w]) \ refused)]
               /\ stranded' = IF refused = {} THEN stranded ELSE stranded \cup {w}
    BY <1>2, <1>3, <1>4, <1>5, <1>6, <1>8, <1>9
<1> QED
    BY <1>7, <1>9 DEF Worker!removeContainerOnly

(* A deletion ends (deleteWorker): the row goes last. *)
LEMMA DeletedKept == ASSUME WorkerInv, NEW r \in Requests, Worker!Deleted(r) PROVE WorkerInv'
<1> USE DEF WorkerInv
<1> DEFINE w == request[r].w
<1>1. /\ UNCHANGED <<image, builds, spawn, look, made>> /\ request[r].pc = "delete"
      /\ worker' = [worker EXCEPT ![w] = Worker!Gone] /\ Worker!Answered(r)
      /\ Worker!removeContainerOnly(r) /\ Worker!GoesAstray(w, Worker!Crossed(r))
      /\ Worker!WorkerTypes /\ Unborn /\ Alone /\ AllSpawning /\ Named /\ AllHeld /\ Erased
      /\ Worker!AgentIsKnown
    BY DEF Worker!Deleted, Rows
<1>2. w \in Workers /\ Held(r)
    BY <1>1, WorkerTyped DEF Worker!Request, AllHeld
<1>3. /\ box' \in [Workers -> Worker!Box \cup {Worker!Absent}]
      /\ left' \in [Workers -> SUBSET ({"network"} \cup Worker!Volumes)]
      /\ agent' \in [Workers -> 0..MaxBoxes]
      /\ \A v \in Workers \ {w} : box'[v] = box[v] /\ left'[v] = left[v]
      /\ astray' \in SUBSET Workers /\ stranded' \in SUBSET Workers
      /\ Excused \subseteq Excused'
      /\ w \notin Excused' =>
             /\ box'[w] = Worker!Absent /\ left'[w] = {} /\ ~Worker!spawning(w)
             /\ \A q \in Requests \ {r} : request[q].pc # "idle" => request[q].w # w
    BY <1>1, <1>2, Removed
<1>4. /\ request' \in [Requests -> Worker!Request]
      /\ \A v \in Workers : Worker!busy(v)' => Worker!busy(v)
      /\ \A v \in Workers : Worker!spawning(v)' <=> Worker!spawning(v)
      /\ \A q \in Requests : request'[q].pc # "idle" => q # r /\ request'[q] = request[q]
    BY <1>1, AnsweredKept, Nothing, WorkerTyped DEF Worker!Answered, Worker!spawning
<1>5. /\ worker' \in [Workers -> WRow \cup {Worker!Absent, Worker!Gone}]
      /\ worker'[w] = Worker!Gone /\ worker'[w] # Worker!Absent
      /\ \A v \in Workers \ {w} : worker'[v] = worker[v]
    BY <1>1, <1>2, RowsDiffer, WorkerTyped
<1> HIDE DEF w
<1>6. Unborn'
    BY <1>1, <1>3, <1>4, <1>5 DEF Unborn
<1>7. Alone'
    BY <1>1, <1>3 DEF Alone
<1>8. AllSpawning'
    <2> SUFFICES ASSUME NEW j \in Spawns PROVE Spawning(j)'
        BY DEF AllSpawning
    <2>1. Spawning(j) /\ spawn[j].w \in Workers
        BY <1>1, WorkerTyped DEF AllSpawning, Worker!SpawnJob
    <2>2. CASE spawn[j].w = w
        BY <1>1, <1>3, <2>2 DEF Spawning, Worker!spawning
    <2>3. CASE spawn[j].w # w
        BY <1>1, <1>3, <1>5, <2>1, <2>3 DEF Spawning, Worker!there
    <2> QED
        BY <2>2, <2>3
<1>9. Erased'
    BY <1>1, <1>3, <1>5 DEF Erased
<1>10. Worker!AgentIsKnown'
    BY <1>1, <1>3, <1>5 DEF Worker!AgentIsKnown, Worker!there, Excused
<1>12. Named'
    BY <1>1, <1>3, <1>4, <1>5 DEF Named, Worker!there
<1>13. AllHeld'
    <2> SUFFICES ASSUME NEW q \in Requests, request'[q].pc # "idle", request'[q].w \notin Excused'
                 PROVE  Held(q)'
        BY DEF AllHeld, Held
    <2>1. /\ q # r /\ request'[q] = request[q] /\ request[q].pc # "idle" /\ Held(q)
          /\ request[q].w \in Workers
        BY <1>1, <1>4, WorkerTyped DEF AllHeld, Worker!Request
    <2>2. request[q].w # w
        BY <1>3, <2>1
    <2> QED
        BY <1>3, <1>4, <1>5, <2>1, <2>2 DEF Held, Worker!there
<1>11. Worker!WorkerTypes'
    BY <1>1, <1>3, <1>4, <1>5 DEF Worker!WorkerTypes, WRow
<1> QED
    BY <1>1, <1>6, <1>7, <1>8, <1>9, <1>10, <1>11, <1>12, <1>13 DEF Rows, Watched

(* A rebuild ends: the container is gone and a spawn begins again. *)
LEMMA RebuiltKept ==
    ASSUME WorkerInv, NEW r \in Requests, NEW i \in Spawns, NEW plane \in Planes,
           Worker!Rebuilt(r, i, plane)
    PROVE  WorkerInv'
<1> USE DEF WorkerInv
<1> DEFINE w == request[r].w
           rec == [Worker!Fresh(worker[w].plane) EXCEPT !.token = worker[w].token]
<1>1. /\ UNCHANGED <<image, builds, look, made>> /\ request[r].pc = "rebuild"
      /\ Worker!Update(w, rec) /\ Worker!Answered(r) /\ Worker!Begun(i, w, plane)
      /\ Worker!removeContainerOnly(r) /\ Worker!GoesAstray(w, Worker!Crossed(r))
      /\ Worker!WorkerTypes /\ Unborn /\ Alone /\ AllSpawning /\ Named /\ AllHeld /\ Erased
      /\ Worker!AgentIsKnown
    BY DEF Worker!Rebuilt, Rows
<1>2. w \in Workers /\ Held(r)
    BY <1>1, WorkerTyped DEF Worker!Request, AllHeld
<1>3. /\ box' \in [Workers -> Worker!Box \cup {Worker!Absent}]
      /\ left' \in [Workers -> SUBSET ({"network"} \cup Worker!Volumes)]
      /\ agent' \in [Workers -> 0..MaxBoxes]
      /\ \A v \in Workers \ {w} : box'[v] = box[v] /\ left'[v] = left[v]
      /\ astray' \in SUBSET Workers /\ stranded' \in SUBSET Workers
      /\ Excused \subseteq Excused'
      /\ w \notin Excused' =>
             /\ box'[w] = Worker!Absent /\ Worker!there(w) /\ ~Worker!spawning(w)
             /\ \A q \in Requests \ {r} : request[q].pc # "idle" => request[q].w # w
    BY <1>1, <1>2, Removed
<1>4. Worker!there(w) => rec \in WRow /\ rec.container = 0
    <2>1. Worker!there(w) => worker[w].plane \in Planes /\ worker[w].token \in Nat
        BY <1>1, <1>2, WorkerTyped DEF WRow, Worker!WorkerRow
    <2> QED
        BY <2>1, FreshRow
<1> HIDE DEF w, rec
<1>5. /\ worker' \in [Workers -> WRow \cup {Worker!Absent, Worker!Gone}]
      /\ \A v \in Workers \ {w} : worker'[v] = worker[v]
      /\ Worker!there(w) => worker'[w].container = 0
      /\ \A v \in Workers : /\ Worker!there(v)' <=> Worker!there(v)
                            /\ worker'[v] = Worker!Absent <=> worker[v] = Worker!Absent
                            /\ worker'[v] = Worker!Gone <=> worker[v] = Worker!Gone
    BY <1>1, <1>2, <1>4, Updated, WorkerTyped
<1>6. /\ spawn' \in [Spawns -> Worker!SpawnJob]
      /\ spawn[i].pc = "idle" /\ spawn'[i].pc = "image" /\ spawn'[i].w = w
      /\ \A j \in Spawns \ {i} : spawn'[j] = spawn[j]
    BY <1>1, <1>2, BegunKept
<1>7. /\ request' \in [Requests -> Worker!Request]
      /\ \A q \in Requests : request'[q].pc # "idle" => q # r /\ request'[q] = request[q]
    BY <1>1, Nothing, WorkerTyped DEF Worker!Answered
<1>8. Worker!busy(w)
    BY <1>1 DEF Worker!busy, Worker!spawning, w
<1>9. worker[w] # Worker!Absent
    BY <1>1, <1>2, <1>8 DEF Unborn
<1>10. /\ \A v \in Workers \ {w} : /\ Worker!busy(v)' => Worker!busy(v)
                                   /\ Worker!spawning(v)' <=> Worker!spawning(v)
       /\ \E j \in Spawns : spawn'[j].pc # "idle" /\ spawn'[j].w = w
    <2>1. \E j \in Spawns : spawn'[j].pc # "idle" /\ spawn'[j].w = w
        BY <1>6
    <2>2. ASSUME NEW v \in Workers \ {w} PROVE Worker!spawning(v)' <=> Worker!spawning(v)
        <3>1. \A j \in Spawns : /\ spawn'[j].pc # "idle" /\ spawn'[j].w = v =>
                                     spawn[j].pc # "idle" /\ spawn[j].w = v
                                /\ spawn[j].pc # "idle" /\ spawn[j].w = v =>
                                     spawn'[j].pc # "idle" /\ spawn'[j].w = v
            BY <1>6
        <3> QED
            BY <3>1 DEF Worker!spawning
    <2> QED
        BY <1>7, <2>1, <2>2 DEF Worker!busy
<1>11. Unborn'
    BY <1>1, <1>3, <1>5, <1>9, <1>10 DEF Unborn
<1>12. Alone'
    BY <1>1, <1>3, <1>6 DEF Alone, Worker!spawning
<1>13. AllSpawning'
    <2>1. Spawning(i)'
        <3>1. w \notin Excused' => /\ worker'[w] # Worker!Absent /\ worker'[w] # Worker!Gone
                                   /\ worker'[w].container = 0
            BY <1>2, <1>3, <1>5 DEF Worker!there
        <3> QED
            BY <1>3, <1>5, <1>6, <3>1 DEF Spawning, Worker!there
    <2>2. ASSUME NEW j \in Spawns \ {i} PROVE Spawning(j)'
        <3>1. Spawning(j) /\ spawn[j].w \in Workers
            BY <1>1, WorkerTyped DEF AllSpawning, Worker!SpawnJob
        <3>2. CASE spawn[j].w = w
            BY <1>3, <1>6, <3>2 DEF Spawning, Worker!spawning
        <3>3. CASE spawn[j].w # w
            BY <1>3, <1>5, <1>6, <3>1, <3>3 DEF Spawning, Worker!there
        <3> QED
            BY <3>2, <3>3
    <2> QED
        BY <2>1, <2>2 DEF AllSpawning
<1>14. Erased'
    BY <1>1, <1>2, <1>3, <1>5 DEF Erased, Worker!there
<1>15. Worker!AgentIsKnown'
    BY <1>1, <1>3, <1>5 DEF Worker!AgentIsKnown, Excused
<1>17. Named'
    BY <1>1, <1>3, <1>5, <1>10 DEF Named
<1>18. AllHeld'
    <2> SUFFICES ASSUME NEW q \in Requests, request'[q].pc # "idle", request'[q].w \notin Excused'
                 PROVE  Held(q)'
        BY DEF AllHeld, Held
    <2>1. /\ q # r /\ request'[q] = request[q] /\ request[q].pc # "idle" /\ Held(q)
          /\ request[q].w \in Workers
        BY <1>1, <1>7, WorkerTyped DEF AllHeld, Worker!Request
    <2>2. request[q].w # w
        BY <1>3, <2>1
    <2> QED
        BY <1>3, <1>5, <1>10, <2>1, <2>2 DEF Held
<1>16. Worker!WorkerTypes'
    BY <1>1, <1>3, <1>5, <1>6, <1>7 DEF Worker!WorkerTypes, WRow
<1> QED
    BY <1>1, <1>11, <1>12, <1>13, <1>14, <1>15, <1>16, <1>17, <1>18 DEF Rows, Watched

(* Every step keeps the invariant. *)
LEMMA WorkerStep == WorkerInv /\ [Worker!Next]_(Worker!vars) => WorkerInv'
<1> SUFFICES ASSUME WorkerInv, [Worker!Next]_(Worker!vars) PROVE WorkerInv'
    OBVIOUS
<1>1. CASE UNCHANGED Worker!vars
    <2>1. UNCHANGED <<worker, box, left, image, builds, spawn, request, look, agent, made, astray,
                      stranded>>
        BY <1>1 DEF Worker!vars
    <2>2. Worker!WorkerTypes'
        BY <2>1 DEF WorkerInv, Worker!WorkerTypes
    <2>3. Calm
        BY <2>1, SameRows, SameBoxes, SameRequests DEF Calm, Worker!busy, Worker!spawning
    <2> QED
        BY <2>1, <2>2, <2>3, CalmKeeps DEF WorkerInv, Watched
<1>2. CASE Worker!Events
    BY <1>2, BuildsKept, SpawnedKept, RequestsKept, BoxKept DEF Worker!Events
<1>3. ASSUME NEW i \in Spawns, Worker!Pipeline(i) PROVE WorkerInv'
    BY <1>3, ImageKept, PreparedKept, ExistingKept, CreateKept, RecordedKept DEF Worker!Pipeline
<1>4. ASSUME NEW r \in Requests, Worker!Serve(r) PROVE WorkerInv'
    BY <1>4, StopKept, StartKept, StartedKept, DeletedKept, RebuiltKept DEF Worker!Serve
<1>5. CASE Worker!Steps
    BY <1>3, <1>4, <1>5, BuildsKept, InspectKept, RefreshKept, StatusKept, AgentKept, BoxKept
       DEF Worker!Steps, Worker!Poll
<1> QED
    BY <1>1, <1>2, <1>5 DEF Worker!Next

(* A step of the whole is a step of the workers, or leaves them as they are. *)
LEMMA WorkerScene ==
    ASSUME [Next]_vars
    PROVE  [Worker!Next]_(Worker!vars)
<1>1. UNCHANGED vars => UNCHANGED Worker!vars
    BY DEF vars, workers, Worker!vars
<1>2. ASSUME Next, scene = "workers"
      PROVE  Worker!Next
    BY <1>2 DEF Next, Worker!Next
<1>3. ASSUME Next
      PROVE  Others
    BY <1>3, Zenon DEF Next, Goes, Comes
<1>4. ASSUME Next, scene # "workers"
      PROVE  UNCHANGED Worker!vars
    BY <1>3, <1>4 DEF Others, workers, Worker!vars
<1> QED
    BY <1>1, <1>2, <1>4

(* Which steps bring a row back up. *)
Rising(w) ==
    \/ \E r \in Requests : request[r].w = w /\ request[r].pc \in {"stop", "started"}
    \/ \E i \in Spawns : spawn[i].w = w /\ spawn[i].pc # "idle"
(* A step brings a stopped worker back up. *)
ComesUp(w) ==
    /\ Worker!there(w) /\ worker[w].state = "stopped"
    /\ worker'[w] # Worker!Gone /\ worker'[w].state \in {"starting", "ready"}

(* Only a start brings a worker back up: no look, no agent and no dying *)
(* container does.                                                      *)
LEMMA Stays == ASSUME WorkerInv, [Worker!Next]_(Worker!vars), NEW w \in Workers, ComesUp(w)
               PROVE  Rising(w)
<1> SUFFICES ASSUME ~Rising(w) PROVE FALSE
    OBVIOUS
<1>1. /\ worker[w] \in WRow /\ worker[w].state = "stopped"
      /\ worker'[w].state \in {"starting", "ready"} /\ worker'[w] # worker[w]
    BY WorkerTyped DEF ComesUp, WorkerInv
<1>2. /\ \A r \in Requests : request[r].pc \in {"stop", "started"} => request[r].w # w
      /\ \A i \in Spawns : spawn[i].pc # "idle" => spawn[i].w # w
    BY DEF Rising
<1>3. \A v, rec : Worker!Update(v, rec) =>
          worker'[w] = worker[w] \/ (v = w /\ worker'[w] = rec)
    BY WorkerTyped DEF Worker!Update, WorkerInv
<1>4. CASE Worker!Events \/ UNCHANGED Worker!vars
    <2>1. ASSUME NEW v \in Workers, NEW i \in Spawns, NEW plane \in Planes,
                 Worker!spawnWorker(v, i, plane)
          PROVE  FALSE
        BY <1>1, <2>1, RowsDiffer, WorkerTyped DEF Worker!spawnWorker, WorkerInv
    <2>2. ASSUME NEW r \in Requests, NEW v \in Workers, Worker!stopWorker(r, v)
          PROVE  FALSE
        <3>1. Worker!Update(v, [worker[v] EXCEPT !.state = "stopped", !.failed = FALSE])
            BY <2>2 DEF Worker!stopWorker
        <3>2. [worker[w] EXCEPT !.state = "stopped", !.failed = FALSE].state = "stopped"
            BY <1>1 DEF WRow, Worker!WorkerRow
        <3> QED
            BY <1>1, <1>3, <3>1, <3>2
    <2>3. UNCHANGED worker => FALSE
        BY <1>1
    <2> QED
        BY <1>4, <2>1, <2>2, <2>3
           DEF Worker!Events, Worker!vars, Worker!triggerBuild, Worker!startWorker,
               Worker!deleteWorker, Worker!rebuildWorker, Worker!Dies
<1>5. ASSUME NEW i \in Spawns, Worker!Pipeline(i)
      PROVE  FALSE
    <2>1. spawn[i].pc # "idle"
        BY <1>5 DEF Worker!Pipeline, Worker!ensureProjectImage, Worker!Baked, Worker!Prepared,
           Worker!Existing, Worker!spawnContainer, Worker!Recorded
    <2>2. spawn[i].w # w
        BY <1>2, <2>1
    <2>3. UNCHANGED worker \/ \E rec : Worker!Update(spawn[i].w, rec)
        BY <1>5 DEF Worker!Pipeline, Worker!ensureProjectImage, Worker!Baked, Worker!Prepared,
           Worker!Existing, Worker!spawnContainer, Worker!Recorded, Worker!Failed, Worker!State
    <2> QED
        BY <1>1, <1>3, <2>2, <2>3
<1>6. ASSUME NEW r \in Requests, Worker!Serve(r)
      PROVE  FALSE
    <2>1. CASE Worker!stopContainer(r) \/ Worker!Started(r)
        <3>1. request[r].w # w
            BY <1>2, <2>1 DEF Worker!stopContainer, Worker!Started
        <3>2. UNCHANGED worker \/ \E rec : Worker!Update(request[r].w, rec)
            BY <2>1 DEF Worker!stopContainer, Worker!Started
        <3> QED
            BY <1>1, <1>3, <3>1, <3>2
    <2>2. CASE Worker!startContainer(r)
        BY <1>1, <2>2 DEF Worker!startContainer
    <2>3. CASE Worker!Deleted(r)
        BY <1>1, <2>3, WorkerTyped DEF Worker!Deleted, ComesUp, WorkerInv
    <2>4. CASE \E i \in Spawns, plane \in Planes : Worker!Rebuilt(r, i, plane)
        <3> DEFINE v == request[r].w
                   rec == [Worker!Fresh(worker[v].plane) EXCEPT !.token = worker[v].token]
        <3>1. Worker!Update(v, rec)
            BY <2>4 DEF Worker!Rebuilt
        <3>2. rec.state = "building"
            BY DEF Worker!Fresh
        <3> HIDE DEF v, rec
        <3> QED
            BY <1>1, <1>3, <3>1, <3>2
    <2> QED
        BY <1>6, <2>1, <2>2, <2>3, <2>4 DEF Worker!Serve
<1>7. ASSUME NEW l \in Looks, Worker!inspectContainer(l)
      PROVE  FALSE
    <2> DEFINE v == look[l].w
    <2>1. \/ UNCHANGED worker
          \/ \E rec : Worker!Update(v, rec) /\ (v = w => rec.state \in {"stopped", "error"})
        <3>1. v = w =>
              /\ [worker[v] EXCEPT !.state = "stopped", !.container = 0,
                                      !.failed = FALSE].state = "stopped"
              /\ [worker[v] EXCEPT !.state = "stopped", !.failed = FALSE].state = "stopped"
              /\ [worker[v] EXCEPT !.state = "error", !.setup = "error"].state = "error"
              /\ [worker[v] EXCEPT
                      !.state = IF Worker!crashed(box[v]) THEN "error" ELSE "stopped",
                      !.failed = Worker!crashed(box[v])].state \in {"stopped", "error"}
            BY <1>1 DEF WRow, Worker!WorkerRow
        <3>2. \/ UNCHANGED worker
              \/ Worker!Fell(l, box[v])
              \/ Worker!Update(v, [worker[v] EXCEPT !.state = "stopped", !.container = 0,
                                                    !.failed = FALSE])
            BY <1>7 DEF Worker!inspectContainer
        <3>3. look[l] \in Worker!Look
            BY WorkerTyped DEF WorkerInv
        <3>4. Worker!Fell(l, box[v]) =>
              \/ UNCHANGED worker
              \/ Worker!Update(v, [worker[v] EXCEPT !.state = "stopped", !.failed = FALSE])
              \/ Worker!Update(v, [worker[v] EXCEPT !.state = "error", !.setup = "error"])
              \/ Worker!Update(v, [worker[v] EXCEPT
                               !.state = IF Worker!crashed(box[v]) THEN "error" ELSE "stopped",
                                       !.failed = Worker!crashed(box[v])])
            BY <3>3 DEF Worker!Fell, Worker!Look, Worker!States, Worker!SettingUp
        <3> QED
            BY <3>1, <3>2, <3>4
    <2> HIDE DEF v
    <2> QED
        BY <1>1, <1>3, <2>1
<1>8. ASSUME NEW l \in Looks, NEW read \in BOOLEAN, Worker!getSetupStatus(l, read)
      PROVE  FALSE
    <2>1. look[l].state # "stopped"
        BY <1>8 DEF Worker!getSetupStatus, WorkerInv, Watched
    <2>2. \/ UNCHANGED worker
          \/ \E rec : Worker!Update(look[l].w, rec) /\ worker[look[l].w].state = look[l].state
        BY <1>8 DEF Worker!getSetupStatus, Worker!sameState
    <2> QED
        BY <1>1, <1>3, <2>1, <2>2
<1>9. ASSUME NEW v \in Workers,
             Worker!handleAgentUpgrade(v) \/ Worker!applyProjectState(v) \/ Worker!ScriptEnds(v)
      PROVE  FALSE
    <2>1. UNCHANGED worker \/ \E rec : Worker!Update(v, rec) /\ worker[v].state # "stopped"
        BY <1>9 DEF Worker!handleAgentUpgrade, Worker!applyProjectState, Worker!ScriptEnds
    <2> QED
        BY <1>1, <1>3, <2>1
<1>10. CASE Worker!Steps
    <2>1. \A n : Worker!BuildEnds(n) => UNCHANGED worker
        BY DEF Worker!BuildEnds
    <2>2. \A l, v : Worker!refreshWorker(l, v) => UNCHANGED worker
        BY DEF Worker!refreshWorker
    <2> QED
        BY <1>1, <1>5, <1>6, <1>7, <1>8, <1>9, <1>10, <2>1, <2>2 DEF Worker!Steps, Worker!Poll
<1> QED
    BY <1>4, <1>10 DEF Worker!Next

(* A worker somebody stopped stays stopped: the looks that refresh a row          *)
(* (refreshWorker), the agent that calls back (applyProjectState) and the container *)
(* that dies never write a stopped row ready or starting; only a start or a spawn   *)
(* somebody asked for does, or a stop that failed and puts the row back             *)
(* (startWorker, stopWorker of services/workers.ts).                                *)
THEOREM StaysStopped ==
    /\ Worker!Spec => Worker!StoppedUntilStarted
    /\ Spec => StoppedUntilStarted
<1> DEFINE Stop ==
        \A w \in Workers :
            /\ Worker!there(w) /\ worker[w].state = "stopped"
            /\ worker'[w] # Worker!Gone /\ worker'[w].state \in {"starting", "ready"}
            => \/ \E r \in Requests : request[r].w = w /\ request[r].pc \in {"stop", "started"}
               \/ \E i \in Spawns : spawn[i].w = w /\ spawn[i].pc # "idle"
<1>1. WorkerInv /\ [Worker!Next]_(Worker!vars) => [Stop]_(Worker!vars)
    BY Stays DEF ComesUp, Rising
<1>2. Init => Worker!Init
    BY DEF Init
<1>3. Worker!Spec => [][Stop]_(Worker!vars)
    BY <1>1, WorkerInit, WorkerStep, PTL DEF Worker!Spec
<1>4. Spec => [][Stop]_(Worker!vars)
    BY <1>1, <1>2, WorkerInit, WorkerStep, WorkerScene, PTL DEF Spec
<1> QED
    BY <1>3, <1>4 DEF StoppedUntilStarted, Worker!StoppedUntilStarted

(* The agent in the container a row names is the one whose hello is accepted: the   *)
(* row has the token its container was made with, through spawns that fail, stops,  *)
(* deaths, looks and rebuilds (runSpawnPipeline and rebuildWorker of                *)
(* services/workers.ts, spawnContainer of lib/docker.ts).  It is not said of a      *)
(* worker two requests or pipelines worked on at once, or whose row a poll made     *)
(* forget its container (`astray'); nor of one whose spawn failed after it had its  *)
(* container, or of whom the daemon refused to remove something (`stranded'): a     *)
(* later rebuild finds that container and takes it, with the token it had.          *)
THEOREM AgentStaysKnown ==
    /\ Worker!Spec => []Worker!AgentIsKnown
    /\ Spec => []AgentIsKnown
<1>1. WorkerInv => Worker!AgentIsKnown /\ AgentIsKnown
    BY DEF WorkerInv, Rows, AgentIsKnown
<1>2. Init => Worker!Init
    BY DEF Init
<1>3. Worker!Spec => []Worker!AgentIsKnown
    BY <1>1, WorkerInit, WorkerStep, PTL DEF Worker!Spec
<1>4. Spec => []AgentIsKnown
    BY <1>1, <1>2, WorkerInit, WorkerStep, WorkerScene, PTL DEF Spec
<1> QED
    BY <1>3, <1>4

-----------------------------------------------------------------------------
(* The projects: what their images are of, and what a deletion leaves. *)

(* The fields of the row of a project. *)
RowFields ==
    {"command", "features", "apps", "ports", "volumes", "models", "labels", "version"}
(* How far a worker of the project can be. *)
BoxSteps == {"image", "bake", "volumes", "create", "up", "orphan", "failed"}
(* What an image has of a configuration is what the version has. *)
Agrees(x, v) == x.features = versions[v].features /\ x.apps = versions[v].apps
(* The versions are a sequence. *)
IsSequence == versions \in Seq({versions[v] : v \in DOMAIN versions})
(* The row is at its last version, and says what it says. *)
RowAgrees ==
    project # Project!None =>
        /\ DOMAIN project = RowFields /\ Len(versions) \in DOMAIN versions
        /\ project.version = Len(versions) /\ Agrees(project, Len(versions))
(* A worker was made from a version there is, of which it took the *)
(* configuration.                                                  *)
BoxesAgree ==
    /\ DOMAIN boxes = Boxes
    /\ \A w \in Boxes : boxes[w] # Project!NoBox =>
           /\ DOMAIN boxes[w] = {"pc", "config", "version"} /\ boxes[w].pc \in BoxSteps
           /\ boxes[w].version \in DOMAIN versions /\ Agrees(boxes[w].config, boxes[w].version)
(* A build bakes what the version it was started for says. *)
BuildsAgree ==
    \A b \in baking : /\ b.version \in DOMAIN versions
                      /\ b.recipe = Project!Recipe(versions[b.version])
(* An image is of a version there is, and is what it says: ImageIsItsVersion. *)
ImagesAgree ==
    /\ DOMAIN baked = 1..MaxVersion
    /\ \A v \in 1..MaxVersion : baked[v] # Project!None =>
           v \in DOMAIN versions /\ baked[v] = Project!Recipe(versions[v])
(* The parts about versions. *)
Agreed == IsSequence /\ RowAgrees /\ BoxesAgree /\ BuildsAgree /\ ImagesAgree

(* What there is of volumes and of images is held by a container. *)
HeldVolumes == volumes \subseteq Project!attached
HeldImages == \A v \in 1..MaxVersion : baked[v] # Project!None => v \in Project!used
(* Nothing is on its way: no worker is being made and nothing is being built. *)
Quiet == Project!starting = {} /\ baking = {}
(* How far a deletion is, and what is gone by then: the containers it has yet *)
(* to remove are rows it read at its start.                                   *)
Phase ==
    /\ DOMAIN deletion = {"pc", "rows"} /\ deletion.pc \in {"workers", "volumes", "images", "row"}
    /\ Project!exists /\ Quiet
    /\ deletion.pc = "workers" => Project!up \subseteq deletion.rows
    /\ deletion.pc # "workers" => Project!up = {}
    /\ deletion.pc \in {"images", "row"} => HeldVolumes
    /\ deletion.pc = "row" => HeldImages
(* A deletion nothing has crossed is in one of these phases. *)
Leaving == deletion # Project!None /\ ~escaped => Phase
(* A project that is gone has left nothing on its way, and on the daemon  *)
(* what is held by containers its rows did not know: no deletion is taken *)
(* for done before it is.                                                 *)
Left ==
    ~Project!exists /\ ~escaped =>
        Quiet /\ (versions # <<>> => Project!up = {} /\ HeldVolumes /\ HeldImages)
(* The inductive invariant of the projects. *)
ProjectInv == Agreed /\ Leaving /\ Left /\ escaped \in BOOLEAN

(* The order of a deletion. *)
LEMMA After ==
    /\ Project!after("workers") = "volumes" /\ Project!after("volumes") = "images"
    /\ Project!after("images") = "row" /\ Project!removalOrder[1] = "workers"
<1> DEFINE stage == <<"workers", "volumes", "images", "row">>
           Place(pc) == CHOOSE i \in 1..3 : stage[i] = pc
<1>1. /\ stage[1] = "workers" /\ stage[2] = "volumes"
      /\ stage[3] = "images" /\ stage[4] = "row"
    OBVIOUS
<1> HIDE DEF stage
<1>2. \A i \in 1..3 : i = 1 \/ i = 2 \/ i = 3
    OBVIOUS
<1>3. Place("workers") = 1 /\ Place("volumes") = 2 /\ Place("images") = 3
    BY <1>1, <1>2
<1>4. \A pc : Project!after(pc) = stage[1 + Place(pc)]
    BY DEF Project!after, Project!removalOrder, stage
<1> HIDE DEF Place
<1>5. 1 + 1 = 2 /\ 1 + 2 = 3 /\ 1 + 3 = 4
    OBVIOUS
<1>6. Project!removalOrder[1] = stage[1]
    BY DEF Project!removalOrder, stage
<1> QED
    BY <1>1, <1>3, <1>4, <1>5, <1>6

(* A version appended is the last one, and leaves the others. *)
LEMMA Appended ==
    ASSUME IsSequence, NEW e, versions' = Append(versions, e)
    PROVE  /\ IsSequence' /\ Len(versions) \in Nat /\ Len(versions') = Len(versions) + 1
           /\ Len(versions') \in DOMAIN versions' /\ versions'[Len(versions')] = e
           /\ DOMAIN versions \subseteq DOMAIN versions'
           /\ \A v \in DOMAIN versions : versions'[v] = versions[v]
<1> DEFINE S == {versions[v] : v \in DOMAIN versions} \cup {e}
           n == Len(versions)
<1>1. versions \in Seq(S)
    <2>1. versions \in Seq({versions[v] : v \in DOMAIN versions})
        BY DEF IsSequence
    <2> QED
        BY <2>1
<1> HIDE DEF S
<1>2. /\ versions' \in Seq(S) /\ n \in Nat /\ Len(versions') = n + 1 /\ versions'[n + 1] = e
      /\ DOMAIN versions = 1..n /\ DOMAIN versions' = 1..(n + 1)
      /\ \A v \in 1..n : versions'[v] = versions[v]
    <2>1. e \in S
        BY DEF S
    <2> QED
        BY <1>1, <2>1, AppendProperties
<1>3. IsSequence'
    <2> DEFINE T == {versions'[v] : v \in DOMAIN versions'}
               m == n + 1
    <2>1. versions' \in [1..m -> S] /\ DOMAIN versions' = 1..m /\ m \in Nat
        BY <1>2, LenProperties
    <2>2. \A v \in 1..m : versions'[v] \in T
        BY <2>1
    <2> HIDE DEF T, m
    <2>3. versions' \in [1..m -> T]
        BY <2>1, <2>2
    <2>4. versions' \in Seq(T)
        BY <2>1, <2>3, SeqDef
    <2> QED
        BY <2>4 DEF IsSequence, T
<1> QED
    BY <1>2, <1>3

(* A record with the fields of a row, a deletion or a worker is not the mark *)
(* of none.                                                                  *)
LEMMA NullsDiffer ==
    /\ \A x : DOMAIN x = RowFields => x # Project!None
    /\ \A x : DOMAIN x = {"pc", "rows"} => x # Project!None
    /\ \A x : DOMAIN x = {"pc", "config", "version"} => x # Project!NoBox
    /\ Project!NoBox.pc = "none"
<1>1. DOMAIN Project!None = {"none"} /\ DOMAIN Project!NoBox = {"pc"} /\ Project!NoBox.pc = "none"
    BY DEF Project!None, Project!NoBox
<1>2. "none" \notin RowFields /\ "none" \notin {"pc", "rows"} /\ "config" \notin {"pc"}
    BY DEF RowFields
<1> QED
    BY <1>1, <1>2 DEF RowFields

(* What the workers hold depends on the workers alone. *)
LEMMA SameEach ==
    ASSUME \A w \in Boxes : boxes'[w] = boxes[w]
    PROVE  /\ Project!up' = Project!up /\ Project!starting' = Project!starting
           /\ Project!attached' = Project!attached /\ Project!used' = Project!used
<1>1. Project!up' = Project!up /\ Project!orphans' = Project!orphans
    BY DEF Project!up, Project!orphans
<1>2. Project!starting' = Project!starting
    BY DEF Project!starting
<1>3. Project!up \subseteq Boxes /\ Project!orphans \subseteq Boxes
    BY DEF Project!up, Project!orphans
<1>4. Project!attached' = Project!attached
    BY <1>1, <1>3 DEF Project!attached
<1>5. Project!used' = Project!used
    BY <1>1, <1>3 DEF Project!used
<1> QED
    BY <1>1, <1>2, <1>4, <1>5
LEMMA SameContainers ==
    UNCHANGED boxes => /\ Project!up' = Project!up /\ Project!starting' = Project!starting
                       /\ Project!attached' = Project!attached /\ Project!used' = Project!used
<1>1. UNCHANGED boxes => \A w \in Boxes : boxes'[w] = boxes[w]
    OBVIOUS
<1> QED
    BY <1>1, SameEach

(* New versions leave the ones there are. *)
Longer ==
    /\ IsSequence' /\ DOMAIN versions \subseteq DOMAIN versions'
    /\ \A v \in DOMAIN versions : versions'[v] = versions[v]

(* A step that only writes the row and appends a version keeps the invariant, *)
(* if the row is at the new version.                                          *)
LEMMA LongerKeeps ==
    ASSUME ProjectInv, Longer, RowAgrees', project' # Project!None,
           UNCHANGED <<baked, baking, boxes, volumes, deletion, escaped>>
    PROVE  ProjectInv'
<1> USE DEF ProjectInv, Agreed
<1>1. BoxesAgree'
    BY DEF BoxesAgree, Longer, Agrees
<1>2. BuildsAgree' /\ ImagesAgree'
    BY DEF BuildsAgree, ImagesAgree, Longer
<1>3. Leaving'
    BY SameContainers DEF Leaving, Phase, Quiet, HeldVolumes, HeldImages, Project!exists
<1>4. Left'
    BY DEF Left, Project!exists
<1> QED
    BY <1>1, <1>2, <1>3, <1>4 DEF Longer

(* A patch leaves the row at its last version. *)
LEMMA UpdateKept ==
    ASSUME ProjectInv, NEW delta, Project!updateProject(delta)
    PROVE  ProjectInv'
<1> USE DEF ProjectInv, Agreed
<1> DEFINE next == Project!Merged(delta)
<1>1. /\ UNCHANGED <<baked, baking, boxes, volumes, deletion, escaped>>
      /\ project # Project!None /\ project' = next
      /\ IF next.version # project.version
           THEN versions' = Append(versions, Project!buildVersionConfig(next))
           ELSE UNCHANGED versions
    BY DEF Project!updateProject, Project!exists, Project!createVersion
<1>2. /\ DOMAIN project = RowFields /\ project.version = Len(versions)
      /\ Len(versions) \in DOMAIN versions /\ Agrees(project, Len(versions))
    BY <1>1 DEF RowAgrees
<1>3. /\ DOMAIN next = RowFields
      /\ next.features = IF "features" \in DOMAIN delta THEN delta["features"]
                         ELSE project.features
      /\ next.apps = IF "apps" \in DOMAIN delta THEN delta["apps"] ELSE project.apps
      /\ next.version = IF DOMAIN delta \ {"models", "labels"} # {} THEN project.version + 1
                        ELSE project.version
    BY <1>2 DEF Project!Merged, Project!Given, Project!unversioned, RowFields
<1> HIDE DEF next
<1>4. Len(versions) \in Nat
    BY DEF IsSequence
<1>5. CASE next.version # project.version
    <2> DEFINE config == Project!buildVersionConfig(next)
    <2>1. next.version = Len(versions) + 1
        BY <1>2, <1>3, <1>5
    <2>2. config.features = next.features /\ config.apps = next.apps
        BY DEF Project!buildVersionConfig, Project!ConfigFields
    <2> HIDE DEF config
    <2>3. /\ Longer /\ Len(versions') = Len(versions) + 1 /\ Len(versions') \in DOMAIN versions'
          /\ versions'[Len(versions')] = config
        BY <1>1, <1>5, Appended DEF Longer, config
    <2>4. RowAgrees'
        BY <1>1, <1>3, <2>1, <2>2, <2>3 DEF RowAgrees, Agrees
    <2> QED
        BY <1>1, <1>3, <2>3, <2>4, LongerKeeps, NullsDiffer
<1>6. CASE next.version = project.version
    <2>1. "features" \notin DOMAIN delta /\ "apps" \notin DOMAIN delta
        BY <1>2, <1>3, <1>4, <1>6
    <2>2. UNCHANGED versions
        BY <1>1, <1>6
    <2>3. RowAgrees' /\ Longer
        BY <1>1, <1>2, <1>3, <1>6, <2>1, <2>2 DEF RowAgrees, Agrees, Longer, IsSequence
    <2> QED
        BY <1>1, <1>3, <2>3, LongerKeeps, NullsDiffer
<1> QED
    BY <1>5, <1>6

(* The first row, whatever its form says. *)
LEMMA FirstRow ==
    ASSUME NEW payload, NEW empty, NEW rec,
           rec = [f \in RowFields |->
               CASE f = "version" -> 1
                 [] f = "labels" ->
                         Project!cleanPortsAttributes(payload["ports"], payload["labels"])
                 [] OTHER -> Project!Given(payload, f, empty)]
    PROVE  DOMAIN rec = RowFields /\ rec.version = 1
BY DEF RowFields

(* The fields of the form and the version are the fields of the row. *)
LEMMA FormFields == DOMAIN Project!newProjectFormValue \cup {"version"} = RowFields
<1>1. ASSUME NEW empty, NEW apps, NEW models, NEW labels, NEW input,
             input = [command |-> empty, features |-> {}, apps |-> apps, ports |-> {},
                      volumes |-> {}, models |-> models, labels |-> labels]
      PROVE  DOMAIN input \cup {"version"} = RowFields
    BY <1>1 DEF RowFields
<1> QED
    BY <1>1, Zenon DEF Project!newProjectFormValue

(* The first version of a project is what its row says (createProject). *)
LEMMA FirstKept ==
    ASSUME ProjectInv, NEW payload, Project!createProject(payload)
    PROVE  ProjectInv'
<1> USE DEF ProjectInv, Agreed
<1>1. /\ UNCHANGED <<baked, baking, boxes, volumes, deletion, escaped>>
      /\ versions = <<>> /\ versions' = <<Project!buildVersionConfig(project')>>
    BY Zenon DEF Project!createProject
<1>2. DOMAIN project' = RowFields /\ project'.version = 1
    <2>1. project' = [f \in RowFields |->
               CASE f = "version" -> 1
                 [] f = "labels" ->
                         Project!cleanPortsAttributes(payload["ports"], payload["labels"])
                 [] OTHER -> Project!Given(payload, f, "")]
        BY FormFields, Zenon DEF Project!createProject
    <2> QED
        BY <2>1, FirstRow, Zenon
<1> DEFINE config == Project!buildVersionConfig(project')
<1>3. config.features = project'.features /\ config.apps = project'.apps
    BY DEF Project!buildVersionConfig, Project!ConfigFields
<1> HIDE DEF config
<1>4. versions' = Append(versions, config)
    BY <1>1 DEF config
<1>5. Len(versions) = 0
    BY <1>1
<1>6. /\ Longer /\ Len(versions') = 1 /\ Len(versions') \in DOMAIN versions'
      /\ versions'[Len(versions')] = config
    BY <1>4, <1>5, Appended DEF Longer
<1>7. RowAgrees'
    BY <1>2, <1>3, <1>6 DEF RowAgrees, Agrees
<1> QED
    BY <1>1, <1>2, <1>6, <1>7, LongerKeeps, NullsDiffer

(* A restore appends what the version it restores says (restoreVersion). *)
LEMMA RestoreKept ==
    ASSUME ProjectInv, NEW v \in 1..MaxVersion, Project!restoreVersion(v)
    PROVE  ProjectInv'
<1> USE DEF ProjectInv, Agreed
<1>1. /\ UNCHANGED <<baked, baking, boxes, volumes, deletion, escaped>>
      /\ project # Project!None /\ v \in DOMAIN versions
      /\ project' = [f \in DOMAIN project |->
                        IF f \in Project!ConfigFields THEN versions[v][f]
                        ELSE IF f = "version" THEN project.version + 1 ELSE project[f]]
      /\ versions' = Append(versions, versions[v])
    BY DEF Project!restoreVersion, Project!exists
<1>2. DOMAIN project = RowFields /\ project.version = Len(versions)
    BY <1>1 DEF RowAgrees
<1>3. /\ DOMAIN project' = RowFields /\ project'.version = Len(versions) + 1
      /\ project'.features = versions[v].features /\ project'.apps = versions[v].apps
    BY <1>1, <1>2 DEF RowFields, Project!ConfigFields
<1>4. /\ Longer /\ Len(versions') = Len(versions) + 1 /\ Len(versions') \in DOMAIN versions'
      /\ versions'[Len(versions')] = versions[v]
    BY <1>1, Appended DEF Longer
<1>5. RowAgrees'
    BY <1>3, <1>4 DEF RowAgrees, Agrees
<1> QED
    BY <1>1, <1>3, <1>4, <1>5, LongerKeeps, NullsDiffer

(* Once a step has crossed a deletion, or there is no project, nothing more is promised. *)
LEMMA CrossKeeps ==
    ASSUME ProjectInv, Project!Crosses, UNCHANGED <<project, deletion>>
    PROVE  Leaving' /\ Left' /\ escaped' \in BOOLEAN
BY DEF ProjectInv, Project!Crosses, Leaving, Left, Project!exists

(* A worker that takes a step is of the version it was of. *)
LEMMA Going ==
    ASSUME BoxesAgree, UNCHANGED versions, NEW w \in Boxes, boxes[w].pc # "none",
           NEW pc \in BoxSteps,
           boxes' = [boxes EXCEPT ![w].pc = pc]
    PROVE  BoxesAgree'
<1> DEFINE x == [boxes[w] EXCEPT !.pc = pc]
<1>1. /\ boxes[w] # Project!NoBox /\ DOMAIN boxes[w] = {"pc", "config", "version"}
      /\ boxes[w].version \in DOMAIN versions /\ Agrees(boxes[w].config, boxes[w].version)
    BY NullsDiffer DEF BoxesAgree
<1>2. /\ DOMAIN x = {"pc", "config", "version"} /\ x.pc = pc
      /\ x.version = boxes[w].version /\ x.config = boxes[w].config
    BY <1>1
<1> HIDE DEF x
<1>3. boxes' = [boxes EXCEPT ![w] = x]
    BY DEF x
<1> QED
    BY <1>1, <1>2, <1>3 DEF BoxesAgree, Agrees

(* A build that begins with what a version says keeps what is said of builds. *)
LEMMA BuildKept ==
    ASSUME ProjectInv, UNCHANGED versions, NEW config, NEW v \in DOMAIN versions, NEW for,
           Agrees(config, v), Project!Build(config, v, for)
    PROVE  BuildsAgree'
<1> DEFINE b == [recipe |-> Project!Recipe(config), version |-> v, for |-> for]
<1>1. b.recipe = Project!Recipe(versions[v]) /\ b.version = v
    BY DEF Agrees, Project!Recipe
<1>2. baking' = baking \cup {b}
    BY DEF Project!Build
<1> HIDE DEF b
<1> QED
    BY <1>1, <1>2 DEF ProjectInv, Agreed, BuildsAgree

(* A build is asked for (triggerBuild): of the row as it is, for the version *)
(* it is at.                                                                 *)
LEMMA TriggerKept ==
    ASSUME ProjectInv, NEW force, Project!triggerBuild(force)
    PROVE  ProjectInv'
<1> USE DEF ProjectInv, Agreed
<1>1. /\ UNCHANGED <<project, versions, baked, boxes, volumes, deletion>>
      /\ project # Project!None /\ Project!Crosses
      /\ \E for : Project!Build(project, project.version, for)
    BY Zenon DEF Project!triggerBuild, Project!exists
<1>2. /\ Agrees(project, project.version) /\ project.version \in DOMAIN versions
    BY <1>1 DEF RowAgrees
<1>3. BuildsAgree'
    BY <1>1, <1>2, BuildKept
<1>4. IsSequence' /\ RowAgrees' /\ BoxesAgree' /\ ImagesAgree'
    BY <1>1 DEF IsSequence, RowAgrees, BoxesAgree, ImagesAgree, Agrees
<1> QED
    BY <1>1, <1>3, <1>4, CrossKeeps

(* A worker is made from the row as it is. *)
LEMMA SpawnKept == ASSUME ProjectInv, NEW w \in Boxes, Project!spawnWorker(w) PROVE ProjectInv'
<1> USE DEF ProjectInv, Agreed
<1> DEFINE x == [pc |-> "image", config |-> Project!buildVersionConfig(project),
                 version |-> project.version]
<1>1. /\ UNCHANGED <<project, versions, baked, baking, volumes, deletion>>
      /\ project # Project!None /\ Project!Crosses /\ boxes' = [boxes EXCEPT ![w] = x]
    BY DEF Project!spawnWorker, Project!exists
<1>2. /\ DOMAIN x = {"pc", "config", "version"} /\ x.pc = "image" /\ x.version \in DOMAIN versions
      /\ x.config.features = project.features /\ x.config.apps = project.apps
      /\ Agrees(project, x.version)
    BY <1>1 DEF RowAgrees, Project!buildVersionConfig, Project!ConfigFields
<1> HIDE DEF x
<1>3. BoxesAgree'
    BY <1>1, <1>2 DEF BoxesAgree, Agrees, BoxSteps
<1>4. IsSequence' /\ RowAgrees' /\ BuildsAgree' /\ ImagesAgree'
    BY <1>1 DEF IsSequence, RowAgrees, BuildsAgree, ImagesAgree, Agrees
<1> QED
    BY <1>1, <1>3, <1>4, CrossKeeps

(* The spawn of a worker goes on: its image, which it builds from what it *)
(* took, its volumes, its container.                                      *)
LEMMA PreparingKept ==
    ASSUME ProjectInv, NEW w \in Boxes,
           Project!ensureProjectImage(w) \/ Project!ensureVolumes(w) \/ Project!spawnContainer(w)
    PROVE  ProjectInv'
<1> USE DEF ProjectInv, Agreed
<1>1. /\ UNCHANGED <<project, versions, baked, deletion>> /\ Project!Crosses /\ boxes[w].pc # "none"
      /\ \E pc \in BoxSteps : boxes' = [boxes EXCEPT ![w].pc = pc]
      /\ UNCHANGED baking \/ Project!Build(boxes[w].config, boxes[w].version, w)
    <2>1. CASE Project!ensureProjectImage(w)
        BY <2>1 DEF Project!ensureProjectImage, Project!Goes, BoxSteps
    <2>2. CASE Project!ensureVolumes(w)
        BY <2>2 DEF Project!ensureVolumes, Project!Goes, BoxSteps
    <2>3. CASE Project!spawnContainer(w)
        <3>1. /\ UNCHANGED <<project, versions, baked, baking, deletion>> /\ Project!Crosses
              /\ boxes[w].pc = "create" /\ \E pc \in BoxSteps : Project!Goes(w, pc)
            BY <2>3 DEF Project!spawnContainer, BoxSteps
        <3> QED
            BY <3>1 DEF Project!Goes
    <2> QED
        BY <2>1, <2>2, <2>3
<1>2. BoxesAgree'
    BY <1>1, Going
<1>3. BuildsAgree'
    <2>1. boxes[w].version \in DOMAIN versions /\ Agrees(boxes[w].config, boxes[w].version)
        BY <1>1, NullsDiffer DEF BoxesAgree
    <2>2. UNCHANGED baking => BuildsAgree'
        BY <1>1 DEF BuildsAgree
    <2> QED
        BY <1>1, <2>1, <2>2, BuildKept
<1>4. IsSequence' /\ RowAgrees' /\ ImagesAgree'
    BY <1>1 DEF IsSequence, RowAgrees, ImagesAgree, Agrees
<1> QED
    BY <1>1, <1>2, <1>3, <1>4, CrossKeeps

(* A build ends, and tags the version it was started for, however many came *)
(* since.                                                                   *)
LEMMA BakedKept == ASSUME ProjectInv, NEW b \in baking, Project!BuildEnds(b) PROVE ProjectInv'
<1> USE DEF ProjectInv, Agreed
<1>1. /\ UNCHANGED <<project, versions, volumes, deletion>> /\ Project!Crosses
      /\ baking' = baking \ {b}
      /\ baked' = baked \/ baked' = [baked EXCEPT ![b.version] = b.recipe]
    BY DEF Project!BuildEnds
<1>2. \/ UNCHANGED boxes
      \/ /\ boxes[b.for].pc = "bake"
         /\ \E pc \in BoxSteps : boxes' = [boxes EXCEPT ![b.for].pc = pc]
    <2>1. \/ UNCHANGED boxes
          \/ /\ boxes[b.for].pc = "bake"
             /\ Project!Goes(b.for, "volumes") \/ Project!Goes(b.for, "failed")
        BY Zenon DEF Project!BuildEnds
    <2> QED
        BY <2>1 DEF Project!Goes, BoxSteps
<1>3. BoxesAgree'
    <2>1. CASE UNCHANGED boxes
        BY <1>1, <2>1 DEF BoxesAgree, Agrees
    <2>2. CASE b.for \in Boxes
        BY <1>1, <1>2, <2>1, <2>2, Going
    <2>3. CASE b.for \notin Boxes
        <3>1. ASSUME NEW pc \in BoxSteps, boxes' = [boxes EXCEPT ![b.for].pc = pc] PROVE BoxesAgree'
            <4>1. DOMAIN boxes' = Boxes /\ \A w \in Boxes : boxes'[w] = boxes[w]
                BY <2>3, <3>1 DEF BoxesAgree
            <4> QED
                BY <1>1, <4>1 DEF BoxesAgree, Agrees
        <3> QED
            BY <1>2, <2>1, <3>1
    <2> QED
        BY <2>2, <2>3
<1>4. BuildsAgree' /\ ImagesAgree'
    BY <1>1 DEF BuildsAgree, ImagesAgree
<1>5. IsSequence' /\ RowAgrees'
    BY <1>1 DEF IsSequence, RowAgrees, Agrees
<1> QED
    BY <1>1, <1>3, <1>4, <1>5, CrossKeeps

(* Lite restarts: builds and deletions are forgotten, spawns have failed. *)
LEMMA RestartingKept == ASSUME ProjectInv, Project!Restart PROVE ProjectInv'
<1> USE DEF ProjectInv, Agreed
<1>1. /\ UNCHANGED <<project, versions, baked, volumes, escaped>>
      /\ baking' = {} /\ deletion' = Project!None
      /\ \E cut \in SUBSET Project!starting :
            boxes' = [w \in Boxes |->
                        IF w \in cut THEN [boxes[w] EXCEPT !.pc = "orphan"]
                        ELSE IF w \in Project!starting THEN [boxes[w] EXCEPT !.pc = "failed"]
                        ELSE boxes[w]]
    BY DEF Project!Restart, Project!created, Project!starting
<1>2. /\ DOMAIN boxes' = Boxes
      /\ \A w \in Boxes :
          \/ w \notin Project!starting /\ boxes'[w] = boxes[w]
          \/ /\ w \in Project!starting
             /\ \E pc \in {"orphan", "failed"} : boxes'[w] = [boxes[w] EXCEPT !.pc = pc]
    BY <1>1
<1>3. ASSUME NEW w \in Project!starting, NEW pc \in {"orphan", "failed"},
             boxes'[w] = [boxes[w] EXCEPT !.pc = pc]
      PROVE  /\ DOMAIN boxes'[w] = {"pc", "config", "version"} /\ boxes'[w].pc = pc
             /\ boxes'[w].version = boxes[w].version /\ boxes'[w].config = boxes[w].config
             /\ boxes[w] # Project!NoBox
    BY <1>3, NullsDiffer DEF BoxesAgree, Project!starting
<1>4. BoxesAgree'
    <2> SUFFICES ASSUME NEW w \in Boxes, boxes'[w] # Project!NoBox
                 PROVE  /\ DOMAIN boxes'[w] = {"pc", "config", "version"}
                        /\ boxes'[w].pc \in BoxSteps
                        /\ boxes'[w].version \in DOMAIN versions
                        /\ Agrees(boxes[w].config, boxes[w].version)'
        BY <1>1, <1>2 DEF BoxesAgree
    <2>1. CASE w \notin Project!starting /\ boxes'[w] = boxes[w]
        BY <1>1, <2>1 DEF BoxesAgree, Agrees
    <2>2. ASSUME w \in Project!starting, NEW pc \in {"orphan", "failed"},
                 boxes'[w] = [boxes[w] EXCEPT !.pc = pc]
          PROVE  /\ DOMAIN boxes'[w] = {"pc", "config", "version"}
                 /\ boxes'[w].pc \in BoxSteps
                 /\ boxes'[w].version \in DOMAIN versions
                 /\ Agrees(boxes[w].config, boxes[w].version)'
        <3>1. /\ DOMAIN boxes'[w] = {"pc", "config", "version"} /\ boxes'[w].pc = pc
              /\ boxes'[w].version = boxes[w].version /\ boxes'[w].config = boxes[w].config
              /\ boxes[w] # Project!NoBox
            BY <1>3, <2>2
        <3>2. boxes[w].version \in DOMAIN versions /\ Agrees(boxes[w].config, boxes[w].version)
            BY <3>1 DEF BoxesAgree
        <3> QED
            BY <1>1, <3>1, <3>2 DEF Agrees, BoxSteps
    <2> QED
        BY <1>2, <2>1, <2>2
<1>5. BuildsAgree' /\ ImagesAgree' /\ IsSequence' /\ RowAgrees'
    BY <1>1 DEF BuildsAgree, ImagesAgree, IsSequence, RowAgrees, Agrees
<1>6. Quiet'
    BY <1>1, <1>2, <1>3 DEF Quiet, Project!starting
<1>7. Leaving' /\ Left'
    <2>1. Project!starting = {} => \A w \in Boxes : boxes'[w] = boxes[w]
        BY <1>2
    <2> QED
        BY <1>1, <1>6, <2>1, SameEach
           DEF Leaving, Left, Quiet, Project!exists, HeldVolumes, HeldImages
<1> QED
    BY <1>1, <1>4, <1>5, <1>7

(* The deletion: containers, volumes, images, the row. *)
LEMMA DeletionKept ==
    ASSUME ProjectInv,
           \/ Project!deleteProject \/ Project!removeWorkerContainer
           \/ Project!removeProjectVolumes \/ Project!removeProjectImages \/ Project!deleteRow
    PROVE  ProjectInv'
<1> USE DEF ProjectInv, Agreed
<1>1. CASE Project!deleteProject
    <2>1. /\ UNCHANGED <<project, versions, baked, baking, boxes, volumes>>
          /\ project # Project!None
          /\ deletion' = [pc |-> Project!removalOrder[1],
                          rows |-> {w \in Boxes : boxes[w] # Project!NoBox}]
          /\ escaped' = (escaped \/ Project!starting # {} \/ baking # {})
        BY <1>1 DEF Project!deleteProject, Project!exists
    <2>2. IsSequence' /\ RowAgrees' /\ BoxesAgree' /\ BuildsAgree' /\ ImagesAgree'
        BY <2>1 DEF IsSequence, RowAgrees, BoxesAgree, BuildsAgree, ImagesAgree, Agrees
    <2>3. ~escaped' => Quiet'
        BY <2>1, SameContainers DEF Quiet
    <2>4. /\ DOMAIN deletion' = {"pc", "rows"} /\ deletion'.pc = "workers"
          /\ Project!up' \subseteq deletion'.rows
        BY <2>1, After, NullsDiffer DEF Project!up
    <2>5. Leaving' /\ Left'
        BY <2>1, <2>3, <2>4 DEF Leaving, Left, Phase, Project!exists
    <2> QED
        BY <2>1, <2>2, <2>5
<1>2. CASE Project!removeWorkerContainer
    <2>1. /\ UNCHANGED <<project, versions, baked, baking, volumes>>
          /\ deletion # Project!None /\ deletion.pc = "workers"
          /\ IF deletion.rows = {} THEN Project!Done /\ UNCHANGED <<boxes, escaped>>
             ELSE \E w \in deletion.rows :
                    /\ deletion' = [deletion EXCEPT !.rows = @ \ {w}]
                    /\ \/ /\ boxes' = [boxes EXCEPT ![w].pc = IF @ = "up" THEN "failed" ELSE @]
                          /\ UNCHANGED escaped
                       \/ w \in Project!up /\ escaped' = TRUE /\ UNCHANGED boxes
        BY <1>2 DEF Project!removeWorkerContainer
    <2>2. IsSequence' /\ RowAgrees' /\ BuildsAgree' /\ ImagesAgree'
        BY <2>1 DEF IsSequence, RowAgrees, BuildsAgree, ImagesAgree, Agrees
    <2>3. CASE deletion.rows = {} /\ Project!Done /\ UNCHANGED <<boxes, escaped>>
        <3>1. deletion' = [deletion EXCEPT !.pc = "volumes"]
            BY <2>1, <2>3, After DEF Project!Done
        <3>2. BoxesAgree'
            BY <2>1, <2>3 DEF BoxesAgree, Agrees
        <3>3. ~escaped => Phase'
            <4>1. ASSUME ~escaped PROVE Phase'
                <5>1. Phase
                    BY <2>1, <4>1 DEF Leaving
                <5>2. DOMAIN deletion' = {"pc", "rows"} /\ deletion'.pc = "volumes"
                    BY <3>1, <5>1 DEF Phase
                <5>3. Project!up' = {} /\ Quiet'
                    BY <2>1, <2>3, <5>1, SameContainers DEF Phase, Quiet
                <5> QED
                    BY <2>1, <5>1, <5>2, <5>3 DEF Phase, Project!exists
            <4> QED
                BY <4>1
        <3>4. Left'
            BY <2>1, <2>3 DEF Left, Project!exists, Leaving, Phase
        <3> QED
            BY <2>2, <2>3, <3>2, <3>3, <3>4 DEF Leaving
    <2>4. ASSUME NEW w \in deletion.rows, deletion' = [deletion EXCEPT !.rows = @ \ {w}],
                 boxes' = [boxes EXCEPT ![w].pc = IF @ = "up" THEN "failed" ELSE @],
                 UNCHANGED escaped
          PROVE  ProjectInv'
        <3> DEFINE pc == IF boxes[w].pc = "up" THEN "failed" ELSE boxes[w].pc
        <3>1. boxes' = [boxes EXCEPT ![w].pc = pc]
            BY <2>4
        <3>2. DOMAIN boxes' = Boxes /\ \A v \in Boxes \ {w} : boxes'[v] = boxes[v]
            BY <3>1 DEF BoxesAgree
        <3>3. w \in Boxes => boxes'[w].pc = pc
            <4>1. w \in Boxes => "pc" \in DOMAIN boxes[w]
                BY NullsDiffer DEF BoxesAgree, Project!NoBox
            <4> QED
                BY <3>1, <4>1 DEF BoxesAgree
        <3>4. BoxesAgree'
            <4>1. CASE w \notin Boxes
                BY <2>1, <3>2, <4>1 DEF BoxesAgree, Agrees
            <4>2. CASE w \in Boxes /\ boxes[w] # Project!NoBox
                <5>1. pc \in BoxSteps /\ boxes[w].pc # "none"
                    BY <4>2 DEF BoxesAgree, BoxSteps
                <5> HIDE DEF pc
                <5> QED
                    BY <2>1, <3>1, <4>2, <5>1, Going
            <4>3. CASE w \in Boxes /\ boxes[w] = Project!NoBox
                <5>1. pc = "none" /\ [boxes[w] EXCEPT !.pc = pc] = Project!NoBox
                    BY <4>3 DEF Project!NoBox
                <5>2. boxes'[w] = Project!NoBox
                    BY <3>1, <4>3, <5>1 DEF BoxesAgree
                <5> QED
                    BY <2>1, <3>2, <4>3, <5>2 DEF BoxesAgree, Agrees
            <4> QED
                BY <4>1, <4>2, <4>3
        <3>5. Project!up' = Project!up \ {w} /\ Project!starting' = Project!starting
            BY <3>2, <3>3 DEF Project!up, Project!starting
        <3>6. ASSUME ~escaped PROVE Phase' /\ Project!exists
            <4>1. Phase
                BY <2>1, <3>6 DEF Leaving
            <4>2. /\ DOMAIN deletion' = {"pc", "rows"} /\ deletion'.pc = "workers"
                  /\ deletion'.rows = deletion.rows \ {w}
                BY <2>1, <2>4, <4>1 DEF Phase
            <4> QED
                BY <2>1, <3>5, <4>1, <4>2 DEF Phase, Quiet, Project!exists
        <3> QED
            BY <2>1, <2>2, <2>4, <3>4, <3>6 DEF Leaving, Left, Project!exists
    <2>5. ASSUME escaped' = TRUE, UNCHANGED boxes PROVE ProjectInv'
        <3>1. BoxesAgree'
            BY <2>1, <2>5 DEF BoxesAgree, Agrees
        <3>2. Leaving' /\ Left'
            BY <2>5 DEF Leaving, Left
        <3> QED
            BY <2>2, <2>5, <3>1, <3>2
    <2> QED
        BY <2>1, <2>3, <2>4, <2>5
<1>3. CASE Project!removeProjectVolumes
    <2>1. /\ UNCHANGED <<project, versions, baked, baking, boxes, escaped>>
          /\ deletion # Project!None /\ deletion.pc = "volumes"
          /\ volumes' = volumes \cap Project!attached
          /\ deletion' = [deletion EXCEPT !.pc = "images"]
        BY <1>3, After DEF Project!removeProjectVolumes, Project!Done
    <2>2. IsSequence' /\ RowAgrees' /\ BoxesAgree' /\ BuildsAgree' /\ ImagesAgree'
        BY <2>1 DEF IsSequence, RowAgrees, BoxesAgree, BuildsAgree, ImagesAgree, Agrees
    <2>3. ASSUME ~escaped PROVE Phase' /\ Project!exists
        <3>1. Phase
            BY <2>1, <2>3 DEF Leaving
        <3>2. DOMAIN deletion' = {"pc", "rows"} /\ deletion'.pc = "images"
            BY <2>1, <3>1 DEF Phase
        <3>3. Project!up' = {} /\ Quiet' /\ HeldVolumes'
            BY <2>1, <3>1, SameContainers DEF Phase, Quiet, HeldVolumes
        <3> QED
            BY <2>1, <3>1, <3>2, <3>3 DEF Phase, Project!exists
    <2> QED
        BY <2>1, <2>2, <2>3 DEF Leaving, Left, Project!exists
<1>4. CASE Project!removeProjectImages
    <2>1. /\ UNCHANGED <<project, versions, volumes, baking, boxes, escaped>>
          /\ deletion # Project!None /\ deletion.pc = "images"
          /\ baked' = [v \in 1..MaxVersion |->
                          IF v \in Project!used THEN baked[v] ELSE Project!None]
          /\ deletion' = [deletion EXCEPT !.pc = "row"]
        BY <1>4, After DEF Project!removeProjectImages, Project!Done
    <2>2. IsSequence' /\ RowAgrees' /\ BoxesAgree' /\ BuildsAgree' /\ ImagesAgree'
        BY <2>1 DEF IsSequence, RowAgrees, BoxesAgree, BuildsAgree, ImagesAgree, Agrees
    <2>3. ASSUME ~escaped PROVE Phase' /\ Project!exists
        <3>1. Phase
            BY <2>1, <2>3 DEF Leaving
        <3>2. DOMAIN deletion' = {"pc", "rows"} /\ deletion'.pc = "row"
            BY <2>1, <3>1 DEF Phase
        <3>3. Project!up' = {} /\ Quiet' /\ HeldVolumes' /\ HeldImages'
            BY <2>1, <3>1, SameContainers DEF Phase, Quiet, HeldVolumes, HeldImages
        <3> QED
            BY <2>1, <3>1, <3>2, <3>3 DEF Phase, Project!exists
    <2> QED
        BY <2>1, <2>2, <2>3 DEF Leaving, Left, Project!exists
<1>5. CASE Project!deleteRow
    <2>1. /\ UNCHANGED <<versions, baked, baking, boxes, volumes, escaped>>
          /\ deletion # Project!None /\ deletion.pc = "row"
          /\ project' = Project!None /\ deletion' = Project!None
        BY <1>5 DEF Project!deleteRow
    <2>2. IsSequence' /\ RowAgrees' /\ BoxesAgree' /\ BuildsAgree' /\ ImagesAgree'
        BY <2>1 DEF IsSequence, RowAgrees, BoxesAgree, BuildsAgree, ImagesAgree, Agrees
    <2>3. ~escaped => Phase
        BY <2>1 DEF Leaving
    <2>4. Leaving' /\ Left'
        BY <2>1, <2>3, SameContainers DEF Leaving, Left, Phase, Quiet, HeldVolumes, HeldImages
    <2> QED
        BY <2>1, <2>2, <2>4
<1> QED
    BY <1>1, <1>2, <1>3, <1>4, <1>5

(* At first there is no project. *)
LEMMA ProjectInit == Project!Init => ProjectInv
<1> SUFFICES ASSUME Project!Init PROVE ProjectInv
    OBVIOUS
<1>1. /\ project = Project!None /\ versions = <<>> /\ baked = [v \in 1..MaxVersion |-> Project!None]
      /\ baking = {} /\ boxes = [w \in Boxes |-> Project!NoBox] /\ deletion = Project!None
      /\ escaped = FALSE
    BY DEF Project!Init
<1>2. IsSequence
    BY <1>1, EmptySeq DEF IsSequence
<1>3. RowAgrees /\ BoxesAgree /\ BuildsAgree /\ ImagesAgree
    BY <1>1 DEF RowAgrees, BoxesAgree, BuildsAgree, ImagesAgree
<1>4. Leaving /\ Left
    BY <1>1, NullsDiffer DEF Leaving, Left, Quiet, Project!starting
<1> QED
    BY <1>1, <1>2, <1>3, <1>4 DEF ProjectInv, Agreed

(* Every step keeps the invariant. *)
LEMMA ProjectStep == ProjectInv /\ [Project!Next]_(Project!vars) => ProjectInv'
<1> SUFFICES ASSUME ProjectInv, [Project!Next]_(Project!vars) PROVE ProjectInv'
    OBVIOUS
<1>1. ASSUME UNCHANGED <<project, versions, baked, baking, boxes, volumes, deletion, escaped>>
      PROVE  ProjectInv'
    BY <1>1, SameContainers
       DEF ProjectInv, Agreed, IsSequence, RowAgrees, BoxesAgree, BuildsAgree, ImagesAgree, Agrees,
           Leaving, Left, Phase, Quiet, HeldVolumes, HeldImages, Project!exists
<1>2. CASE UNCHANGED Project!vars
    BY <1>1, <1>2 DEF Project!vars
<1>3. ASSUME NEW t \in Forms, Project!openForm(t) PROVE ProjectInv'
    BY <1>1, <1>3, Zenon DEF Project!openForm, Project!Opened
<1>4. ASSUME NEW t \in Forms, Project!submit(t) PROVE ProjectInv'
    <2>1. \E aForm : \/ Project!updateProject(Project!toProjectPayload(aForm))
                     \/ Project!createProject(Project!toProjectPayload(aForm))
        BY <1>4, Zenon DEF Project!submit
    <2> QED
        BY <2>1, UpdateKept, FirstKept
<1>5. ASSUME Project!Patch PROVE ProjectInv'
    <2>1. \E delta : Project!updateProject(delta)
        BY <1>5, Zenon DEF Project!Patch
    <2> QED
        BY <2>1, UpdateKept
<1>6. CASE Project!Events
    BY <1>4, <1>5, <1>6, RestoreKept, SpawnKept, TriggerKept, DeletionKept, Zenon DEF Project!Events
<1>7. CASE Project!Steps
    BY <1>3, <1>7, PreparingKept, BakedKept, DeletionKept, RestartingKept, Zenon DEF Project!Steps
<1> QED
    BY <1>2, <1>6, <1>7 DEF Project!Next

(* A step of the whole is a step of the project, or leaves it as it is. *)
LEMMA ProjectScene ==
    ASSUME [Next]_vars
    PROVE  [Project!Next]_(Project!vars)
<1>1. UNCHANGED vars => UNCHANGED Project!vars
    BY DEF vars, projects, Project!vars
<1>2. ASSUME Next, scene = "projects"
      PROVE  Project!Next
    BY <1>2 DEF Next, Project!Next
<1>3. ASSUME Next
      PROVE  Others
    BY <1>3, Zenon DEF Next, Goes, Comes
<1>4. ASSUME Next, scene # "projects"
      PROVE  UNCHANGED Project!vars
    BY <1>3, <1>4 DEF Others, projects, Project!vars
<1> QED
    BY <1>1, <1>2, <1>4

(* An image is what its version says: a build that ends long after the project was *)
(* edited bakes what the version it was started for had (ensureProjectImage of      *)
(* services/workers.ts), and a restore appends a version rather than move one       *)
(* (createVersion, restoreVersion of services/projects.ts).                         *)
THEOREM ImagesMatch ==
    /\ Project!Spec => []Project!ImageIsItsVersion
    /\ Spec => []ImageIsItsVersion
<1>1. ProjectInv => Project!ImageIsItsVersion /\ ImageIsItsVersion
    BY DEF ProjectInv, Agreed, ImagesAgree, Project!ImageIsItsVersion, ImageIsItsVersion
<1>2. Init => Project!Init
    BY DEF Init
<1>3. Project!Spec => []Project!ImageIsItsVersion
    BY <1>1, ProjectInit, ProjectStep, PTL DEF Project!Spec
<1>4. Spec => []ImageIsItsVersion
    BY <1>1, <1>2, ProjectInit, ProjectStep, ProjectScene, PTL DEF Spec
<1> QED
    BY <1>3, <1>4

(* What is deleted leaves nothing on the daemon (deleteWorker and deleteProject of         *)
(* services/workers.ts and services/projects.ts, removeWorker of lib/docker.ts): the row   *)
(* goes last, after the containers, the volumes and the images.  A worker does not if it   *)
(* was deleted under a spawn or another request or had been made to forget its container   *)
(* (`astray'), if a spawn of it failed after it had its container, or if the daemon        *)
(* refused to remove something (`stranded').  A project leaves the volumes and the image   *)
(* of a container that was created and did not start, whose row has no id to remove it by; *)
(* and whatever a spawn or a build had on its way, or the daemon refused (`escaped').      *)
THEOREM DeletedLeaves ==
    /\ Worker!Spec => []Worker!NothingLeft
    /\ Project!Spec => []Project!DeletedLeavesNothing
    /\ Spec => []DeletedIsGone
<1>1. WorkerInv => Worker!NothingLeft
    BY DEF WorkerInv, Rows, Erased, Excused, Worker!NothingLeft
<1>2. ProjectInv => Project!DeletedLeavesNothing
    BY DEF ProjectInv, Left, HeldVolumes, HeldImages, Project!DeletedLeavesNothing, Project!deleted
<1>3. WorkerInv /\ ProjectInv => DeletedIsGone
    BY <1>1, <1>2 DEF DeletedIsGone
<1>4. Init => Worker!Init /\ Project!Init
    BY DEF Init
<1>5. Worker!Spec => []Worker!NothingLeft
    BY <1>1, WorkerInit, WorkerStep, PTL DEF Worker!Spec
<1>6. Project!Spec => []Project!DeletedLeavesNothing
    BY <1>2, ProjectInit, ProjectStep, PTL DEF Project!Spec
<1>7. Spec => []WorkerInv
    BY <1>4, WorkerInit, WorkerStep, WorkerScene, PTL DEF Spec
<1>8. Spec => []ProjectInv
    BY <1>4, ProjectInit, ProjectStep, ProjectScene, PTL DEF Spec
<1>9. Spec => []DeletedIsGone
    BY <1>3, <1>7, <1>8, PTL
<1> QED
    BY <1>5, <1>6, <1>9

-----------------------------------------------------------------------------
(* The settings of a project: models only of the apps it has. *)

(* What the settings of a project promise: a form opened on no project has the apps *)
(* and the models it sends, and the models of the row are of its apps.               *)
Drafted ==
    \A t \in Forms : form[t] # Project!None /\ ~form[t].editing =>
        {"apps", "models"} \subseteq DOMAIN form[t].value
ModelsInv == ProjectInv /\ Drafted /\ Project!ModelsAreAllowed

(* An accepted patch was checked, unless it changes neither the apps nor the models. *)
LEMMA UpdateAllowed ==
    ASSUME ProjectInv, Project!ModelsAreAllowed, NEW delta, Project!updateProject(delta)
    PROVE  Project!ModelsAreAllowed'
<1> DEFINE next == Project!Merged(delta)
           checked == {"apps", "models"} \cap DOMAIN delta # {}
<1>1. /\ project # Project!None /\ project' = next /\ restored' = (restored /\ ~checked)
      /\ checked => Project!checkAgentApps(next.apps, Project!ModelsAfter(delta, next.apps))
    BY DEF Project!updateProject, Project!exists
<1>2. "apps" \in DOMAIN project /\ "models" \in DOMAIN project
    BY <1>1 DEF ProjectInv, Agreed, RowAgrees, RowFields
<1>3. /\ next.apps = IF "apps" \in DOMAIN delta THEN delta["apps"] ELSE project.apps
      /\ next.models = Project!NewModels(delta, next.apps)
    BY <1>2 DEF Project!Merged, Project!Given
<1>4. next.models = IF checked THEN Project!ModelsAfter(delta, next.apps) ELSE project.models
    BY <1>3 DEF Project!NewModels
<1>5. ~checked => next.apps = project.apps
    BY <1>3
<1> HIDE DEF next, checked
<1>6. CASE checked
    <2>1. Project!checkAgentApps(next.apps, next.models)
        BY <1>1, <1>4, <1>6
    <2> QED
        BY <1>1, <2>1 DEF Project!ModelsAreAllowed
<1>7. CASE ~checked
    <2>1. next.models = project.models /\ next.apps = project.apps
        BY <1>4, <1>5, <1>7
    <2>2. ~restored' => ~restored
        BY <1>1, <1>7
    <2> QED
        BY <1>1, <2>1, <2>2 DEF Project!ModelsAreAllowed, Project!exists
<1> QED
    BY <1>6, <1>7

(* The first row has the models of its form, which were checked. *)
LEMMA FirstAllowed ==
    ASSUME NEW payload, {"apps", "models"} \subseteq DOMAIN payload, Project!createProject(payload)
    PROVE  Project!ModelsAreAllowed'
<1>1. Project!checkAgentApps(payload["apps"], payload["models"])
    BY Zenon DEF Project!createProject
<1>2. ASSUME NEW empty, NEW rec,
             rec = [f \in RowFields |->
               CASE f = "version" -> 1
                 [] f = "labels" ->
                         Project!cleanPortsAttributes(payload["ports"], payload["labels"])
                 [] OTHER -> Project!Given(payload, f, empty)]
      PROVE  rec.apps = payload["apps"] /\ rec.models = payload["models"]
    BY <1>2 DEF RowFields, Project!Given
<1>3. project'.apps = payload["apps"] /\ project'.models = payload["models"]
    <2>1. project' = [f \in RowFields |->
               CASE f = "version" -> 1
                 [] f = "labels" ->
                         Project!cleanPortsAttributes(payload["ports"], payload["labels"])
                 [] OTHER -> Project!Given(payload, f, "")]
        BY FormFields, Zenon DEF Project!createProject
    <2> QED
        BY <1>2, <2>1, Zenon
<1> QED
    BY <1>1, <1>3 DEF Project!ModelsAreAllowed

(* What is sent has the apps and the models the form has. *)
LEMMA Sent ==
    ASSUME NEW aForm, {"apps", "models"} \subseteq DOMAIN aForm
    PROVE  {"apps", "models"} \subseteq DOMAIN Project!toProjectPayload(aForm)
<1>2. ASSUME NEW empty, NEW sent, NEW sentForm,
             sentForm = [f \in {g \in DOMAIN aForm : g # "command" \/ aForm.command # empty} |-> sent[f]]
      PROVE  {"apps", "models"} \subseteq DOMAIN sentForm
    BY <1>2
<1> DEFINE sent == [aForm EXCEPT !.ports = Project!valid(aForm.ports),
                                 !.labels = Project!cleanPortsAttributes(aForm.ports, aForm.labels),
                                 !.models = Project!Allowed(aForm.models, aForm.apps)]
<1>3. Project!toProjectPayload(aForm) =
          [f \in {g \in DOMAIN aForm : g # "command" \/ aForm.command # ""} |-> sent[f]]
    BY Zenon DEF Project!toProjectPayload
<1> HIDE DEF sent
<1> QED
    BY <1>2, <1>3, Zenon

(* A form on no project has the fields of a new one: blank, or filled from an export. *)
LEMMA BlankForm ==
    /\ {"apps", "models"} \subseteq DOMAIN Project!newProjectFormValue
    /\ \A spec : {"apps", "models"} \subseteq DOMAIN Project!fromExport(spec)
<1>1. {"apps", "models"} \subseteq DOMAIN Project!newProjectFormValue
    BY FormFields DEF RowFields
<1>2. ASSUME NEW spec PROVE DOMAIN Project!fromExport(spec) = DOMAIN Project!newProjectFormValue
    <2>1. ASSUME NEW old, NEW a, NEW b, NEW c, NEW d, NEW e, NEW f, NEW new,
                 new = [old EXCEPT !.command = a, !.ports = b, !.volumes = c, !.labels = d,
                                   !.features = e, !.models = f]
          PROVE  DOMAIN new = DOMAIN old
        BY <2>1
    <2>2. \E a, b, c, d, e, f : Project!fromExport(spec) =
              [Project!newProjectFormValue EXCEPT
                  !.command = a, !.ports = b, !.volumes = c, !.labels = d, !.features = e,
                  !.models = f]
        BY Zenon DEF Project!fromExport
    <2> QED
        BY <2>1, <2>2, Zenon
<1> QED
    BY <1>1, <1>2, Zenon

(* A form is opened, on the project, or on none as a new one or from an export. *)
LEMMA OpenAllowed ==
    ASSUME ModelsInv, NEW t \in Forms, Project!openForm(t)
    PROVE  Drafted' /\ Project!ModelsAreAllowed'
<1>1. \E draft : /\ Project!Opened(t, draft)
                 /\ Project!exists \/ {"apps", "models"} \subseteq DOMAIN draft
    BY BlankForm, Zenon DEF Project!openForm
<1>2. PICK draft : /\ form' = [form EXCEPT ![t] = [value |-> draft, editing |-> Project!exists]]
                   /\ UNCHANGED <<project, restored>>
                   /\ Project!exists \/ {"apps", "models"} \subseteq DOMAIN draft
    BY <1>1 DEF Project!Opened
<1>3. ASSUME NEW u \in Forms, form'[u] # Project!None, ~form'[u].editing
      PROVE  {"apps", "models"} \subseteq DOMAIN form'[u].value
    <2>1. CASE form'[u] = form[u]
        BY <1>3, <2>1 DEF ModelsInv, Drafted
    <2>2. CASE form'[u] = [value |-> draft, editing |-> Project!exists]
        BY <1>2, <1>3, <2>2
    <2> QED
        BY <1>2, <2>1, <2>2
<1> QED
    BY <1>2, <1>3 DEF ModelsInv, Drafted, Project!ModelsAreAllowed, Project!exists

(* A form is saved: an edit of a project, or a new project. *)
LEMMA SubmitAllowed ==
    ASSUME ModelsInv, NEW t \in Forms, Project!submit(t)
    PROVE  Drafted' /\ Project!ModelsAreAllowed'
<1>1. /\ form[t] # Project!None /\ form' = [form EXCEPT ![t] = Project!None]
      /\ \/ \E aForm : Project!updateProject(Project!toProjectPayload(aForm))
         \/ ~form[t].editing /\ Project!createProject(Project!toProjectPayload(form[t].value))
    BY Zenon DEF Project!submit
<1>2. Drafted'
    BY <1>1 DEF ModelsInv, Drafted
<1>3. ASSUME NEW aForm, Project!updateProject(Project!toProjectPayload(aForm))
      PROVE  Project!ModelsAreAllowed'
    <2>1. PICK delta : delta = Project!toProjectPayload(aForm)
        OBVIOUS
    <2>2. Project!updateProject(delta)
        BY <1>3, <2>1, Zenon
    <2> QED
        BY <2>2, UpdateAllowed DEF ModelsInv
<1>4. ASSUME ~form[t].editing, Project!createProject(Project!toProjectPayload(form[t].value))
      PROVE  Project!ModelsAreAllowed'
    <2>1. {"apps", "models"} \subseteq DOMAIN form[t].value
        BY <1>1, <1>4 DEF ModelsInv, Drafted
    <2>2. PICK payload : payload = Project!toProjectPayload(form[t].value)
        OBVIOUS
    <2>3. {"apps", "models"} \subseteq DOMAIN payload
        BY <2>1, <2>2, Sent
    <2>4. Project!createProject(payload)
        BY <1>4, <2>2, Zenon
    <2> QED
        BY <2>3, <2>4, FirstAllowed
<1> QED
    BY <1>1, <1>2, <1>3, <1>4

(* Every step of a project keeps the promise of its settings. *)
LEMMA ModelsStep == ModelsInv /\ [Project!Next]_(Project!vars) => ModelsInv'
<1> SUFFICES ASSUME ModelsInv, [Project!Next]_(Project!vars) PROVE ModelsInv'
    OBVIOUS
<1>0. ProjectInv'
    BY ProjectStep DEF ModelsInv
<1>1. ASSUME UNCHANGED <<project, form, restored>>
      PROVE  Drafted' /\ Project!ModelsAreAllowed'
    BY <1>1 DEF ModelsInv, Drafted, Project!ModelsAreAllowed, Project!exists
<1>2. ASSUME UNCHANGED form PROVE Drafted'
    BY <1>2 DEF ModelsInv, Drafted
<1>3. ASSUME UNCHANGED Project!vars PROVE Drafted' /\ Project!ModelsAreAllowed'
    BY <1>1, <1>3 DEF Project!vars
<1>4. ASSUME Project!Patch PROVE Drafted' /\ Project!ModelsAreAllowed'
    <2>1. \E delta : Project!updateProject(delta)
        BY <1>4, Zenon DEF Project!Patch
    <2>2. UNCHANGED form
        BY <1>4, Zenon DEF Project!Patch
    <2> QED
        BY <1>2, <2>1, <2>2, UpdateAllowed DEF ModelsInv
<1>5. ASSUME NEW v \in 1..MaxVersion, Project!restoreVersion(v)
      PROVE  Drafted' /\ Project!ModelsAreAllowed'
    BY <1>2, <1>5 DEF Project!restoreVersion, Project!ModelsAreAllowed
<1>6. ASSUME Project!deleteRow PROVE Drafted' /\ Project!ModelsAreAllowed'
    BY <1>2, <1>6 DEF Project!deleteRow, Project!ModelsAreAllowed, Project!exists
<1>7. ASSUME NEW w \in Boxes,
             \/ Project!spawnWorker(w) \/ Project!ensureProjectImage(w)
             \/ Project!ensureVolumes(w) \/ Project!spawnContainer(w)
      PROVE  UNCHANGED <<project, form, restored>>
    BY <1>7, Zenon DEF Project!spawnWorker, Project!ensureProjectImage, Project!ensureVolumes,
                       Project!spawnContainer
<1>8. ASSUME \/ \E force \in BOOLEAN : Project!triggerBuild(force)
             \/ \E b \in baking : Project!BuildEnds(b)
             \/ Project!deleteProject \/ Project!removeWorkerContainer
             \/ Project!removeProjectVolumes \/ Project!removeProjectImages \/ Project!Restart
      PROVE  UNCHANGED <<project, form, restored>>
    BY <1>8, Zenon DEF Project!triggerBuild, Project!BuildEnds, Project!deleteProject,
                       Project!removeWorkerContainer, Project!removeProjectVolumes,
                       Project!removeProjectImages, Project!Restart
<1>9. ASSUME Project!Events PROVE Drafted' /\ Project!ModelsAreAllowed'
    BY <1>1, <1>4, <1>5, <1>7, <1>8, <1>9, SubmitAllowed, Zenon DEF Project!Events
<1>10. ASSUME Project!Steps PROVE Drafted' /\ Project!ModelsAreAllowed'
    BY <1>1, <1>6, <1>7, <1>8, <1>10, OpenAllowed, Zenon DEF Project!Steps
<1>11. Drafted' /\ Project!ModelsAreAllowed'
    BY <1>1, <1>3, <1>9, <1>10 DEF Project!Next, Project!vars
<1> QED
    BY <1>0, <1>11 DEF ModelsInv
=============================================================================
