---------------------------- MODULE TaskPool_proof ----------------------------
(***************************************************************************)
(* What one step of TaskPool can do, action by action: every one is calm,  *)
(* but for the four of services/tasks.ts that decide something about a     *)
(* machine (the claim, the spawn, the live reply, a stop).  Then its       *)
(* invariant, for any number of tasks and machines and any bounds: types,  *)
(* exclusive holding, releases that spare the next task, and the           *)
(* implementation of PoolHold.                                             *)
(***************************************************************************)
EXTENDS TaskPool, SequenceTheorems, TLAPS

-----------------------------------------------------------------------------
(* The types of the rows, one name each. *)
Refs == Workers \cup {NoWorker}
TaskRow == [state : TaskStates \cup {"none"}, pending : Pendings,
            worker : Refs, session : 0..MaxSessions]
TaskRows == [Tasks -> TaskRow]
MachineRow == [state : MachineStates, box : Boxes, outdated : BOOLEAN]
MachineRows == [Workers -> MachineRow]
LockRows == [Workers -> Seq(Jobs)]

(* Steps a job may be at without a machine; steps of a run's allocation; *)
(* steps that hold the pool lock across an await; the others.            *)
Nowhere == {"idle", "failed", "resume", "pick", "choose", "kill"}
Allocating == {"pick", "choose", "claim"}
Locked == {"waking", "stopping"}
FreeSteps == Steps \ (Locked \cup Allocating \cup {"started"})
(* The states of a machine that is not there, or is there no more. *)
Rowless == {"absent", "deleted"}
(* A job in flight names its machine, and what it stopped or launched. *)
JobRow == {r \in [pc : Steps, at : Refs, seen : 0..MaxSessions,
                  was : MachineStates \cup {"", "recycled"}] :
             /\ r.pc \notin Nowhere => r.at \in Workers
             /\ r.pc = "stopping" => r.was \in MachineStates \ Rowless
             /\ r.pc = "started" => r.seen # 0}
FreeRow == {r \in JobRow : r.pc \notin Locked \cup Allocating}
JobRows == [Jobs -> JobRow]

(* The type of the notes kept beside the rows, and of the agents. *)
Noted == /\ handed \subseteq Tasks /\ parkAt \subseteq Tasks /\ revived \subseteq Tasks
         /\ older \in [Tasks -> SUBSET Workers] /\ cands \in [Tasks -> SUBSET Workers]
         /\ faults \in 0..MaxFaults
Agents == /\ trace \in [Workers -> Tasks \cup {NoTask}]
          /\ launched \in [Tasks -> 0..MaxSessions]
          /\ rows \subseteq Sessions /\ alive \subseteq Sessions /\ turn \subseteq Sessions
          /\ waiting \subseteq Sessions /\ unread \subseteq Sessions

(* withPoolLock: whoever is waking or stopping a machine heads its chain. *)
LockHeld == \A j \in Jobs : job[j].pc \in Locked => Holder(job[j].at, j)

(* A row that does not exist yet, or no more, has no container. *)
Bare == \A w \in Workers : machine[w].state \in Rowless => machine[w].box = "none"

(* A run still allocating has no machine, and its task exists. *)
Unplaced ==
    \A t \in Tasks :
        /\ task[t].state = "none" =>
             task[t].worker = NoWorker /\ job[<<t, "run">>].pc \notin Allocating
        /\ job[<<t, "run">>].pc \in Allocating => task[t].worker = NoWorker

(* A machine a task names has a row (live, gone or deleted). *)
HeldExists ==
    \A t \in Tasks, w \in Workers : task[t].worker = w => machine[w].state # "absent"

(* ... and so has one a release is stopping. *)
StopExists ==
    \A t \in Tasks : job[<<t, "release">>].pc = "stopping" =>
                       machine[job[<<t, "release">>].at].state # "absent"

(* The inductive core: the types, and who holds which lock. *)
Base == /\ task \in TaskRows /\ machine \in MachineRows /\ job \in JobRows
        /\ poolLock \in LockRows /\ Noted /\ Agents
        /\ LockHeld /\ Bare /\ Unplaced

-----------------------------------------------------------------------------
(* What a calm step may do to a row: it never gives a task a machine, never *)
(* un-creates one, and brings back to life only a task that has none.       *)
NextRow(t) == {r \in TaskRow :
                 /\ r.worker \in {task[t].worker, NoWorker}
                 /\ r.state = "none" => task[t].state = "none"
                 /\ r.state \in LiveStates => isLive(t) \/ task[t].worker = NoWorker}
NextRows == {r \in TaskRows : \A t \in Tasks : r[t] \in NextRow(t)}

(* ... to the machines: no row or container appears but by a spawn, and a *)
(* deleted machine stays so, its container gone.                          *)
NextMachines == {m \in MachineRows : \A w \in Workers :
                   /\ m[w].state = "absent" => machine[w].state = "absent"
                   /\ machine[w].state = "deleted" => m[w].state = "deleted"
                   /\ m[w].state \in Rowless => m[w].box = "none"}

(* ... to the jobs: no run starts allocating with a machine already, no *)
(* release starts stopping one.                                         *)
JobsTyped == job \in JobRows /\ poolLock \in LockRows /\ LockHeld

NextJobs ==
    /\ JobsTyped'
    /\ \A t \in Tasks :
         /\ job'[<<t, "run">>].pc \in Allocating =>
              \/ job[<<t, "run">>].pc \in Allocating
              \/ task[t].worker = NoWorker /\ task'[t].state # "none"
         /\ job'[<<t, "release">>].pc = "stopping" =>
              /\ job[<<t, "release">>].pc = "stopping"
              /\ job'[<<t, "release">>].at = job[<<t, "release">>].at

NextNotes == Noted' /\ UNCHANGED revived

(* A calm step takes no machine, re-opens no task and starts no stop. *)
Calm == /\ task' \in NextRows /\ machine' \in NextMachines
        /\ NextJobs /\ NextNotes /\ Agents'

-----------------------------------------------------------------------------
(* A job is a task and a kind of job. *)
LEMMA JobNames ==
    /\ \A t \in Tasks, k \in Kinds : <<t, k>> \in Jobs
    /\ \A j \in Jobs : j[1] \in Tasks /\ j[2] \in Kinds /\ j = <<j[1], j[2]>>
BY DEF Jobs

(* The jobs of a task, by name. *)
LEMMA JobsOf == ASSUME NEW t \in Tasks
  PROVE /\ <<t, "run">> \in Jobs /\ <<t, "accept">> \in Jobs /\ <<t, "drop">> \in Jobs
        /\ <<t, "reply">> \in Jobs /\ <<t, "live">> \in Jobs /\ <<t, "release">> \in Jobs
        /\ <<t, "settle">> \in Jobs /\ <<t, "due">> \in Jobs /\ <<t, "hand">> \in Jobs
        /\ <<t, "wake">> \in Jobs /\ <<t, "refresh">> \in Jobs
BY JobNames DEF Kinds

(* The rows of a job the actions write are rows of a job. *)
LEMMA StepTyped ==
   /\ \A pc \in FreeSteps, w \in Workers, n \in 0..MaxSessions, s \in MachineStates \cup {"", "recycled"} :
         Step(pc, w, n, s) \in FreeRow
   /\ \A pc \in Nowhere, n \in 0..MaxSessions : Step(pc, NoWorker, n, "") \in JobRow
   /\ \A pc \in Nowhere \ Allocating, n \in 0..MaxSessions : Step(pc, NoWorker, n, "") \in FreeRow
   /\ \A w \in Workers, n \in 0..MaxSessions \ {0}, s \in MachineStates \cup {"", "recycled"} :
         Step("started", w, n, s) \in FreeRow
<1>1. ASSUME NEW pc \in FreeSteps, NEW w \in Workers, NEW n \in 0..MaxSessions,
             NEW s \in MachineStates \cup {"", "recycled"}
      PROVE Step(pc, w, n, s) \in FreeRow
  BY DEF Step, JobRow, FreeRow, FreeSteps, Locked, Refs
<1>2. ASSUME NEW pc \in Nowhere, NEW n \in 0..MaxSessions
      PROVE /\ Step(pc, NoWorker, n, "") \in JobRow
            /\ pc \notin Allocating => Step(pc, NoWorker, n, "") \in FreeRow
  <2>1. pc \in Steps /\ pc \notin Locked BY DEF Nowhere, Steps, Locked
  <2>2. Step(pc, NoWorker, n, "") \in JobRow BY <2>1 DEF Step, JobRow, Refs, Locked, Nowhere
  <2>3. Step(pc, NoWorker, n, "").pc = pc BY DEF Step
  <2> QED BY <2>1, <2>2, <2>3 DEF FreeRow
<1>3. ASSUME NEW w \in Workers, NEW n \in 0..MaxSessions \ {0},
             NEW s \in MachineStates \cup {"", "recycled"}
      PROVE Step("started", w, n, s) \in FreeRow
  BY DEF Step, JobRow, FreeRow, Refs, Locked, Allocating, Steps
<1> QED BY <1>1, <1>2, <1>3

(* The same for a job that has just reached a step. *)
LEMMA AtTyped ==
   /\ \A pc \in FreeSteps, w \in Workers : At(pc, w) \in FreeRow
   /\ \A pc \in Nowhere \ Allocating : At(pc, NoWorker) \in FreeRow
   /\ Idle \in FreeRow
<1>1. 0 \in 0..MaxSessions BY BoundsAssumption
<1> QED BY <1>1, StepTyped DEF At, Idle, Nowhere, Allocating

(* The same for a job that goes on where it was. *)
LEMMA NowTyped ==
   ASSUME Base, NEW j \in Jobs
   PROVE /\ \A pc \in Nowhere \ Allocating : Now(j, pc) \in FreeRow
         /\ job[j].pc \notin Nowhere => \A pc \in FreeSteps : Now(j, pc) \in FreeRow
<1>1. job[j] \in JobRow BY DEF Base, JobRows
<1>2. ASSUME NEW pc \in Nowhere \ Allocating PROVE Now(j, pc) \in FreeRow
  <2>1. pc \in Steps /\ pc \notin Locked BY DEF Nowhere, Steps, Locked
  <2> QED BY <1>1, <2>1 DEF Now, Step, JobRow, FreeRow, Locked, Nowhere
<1>3. ASSUME job[j].pc \notin Nowhere, NEW pc \in FreeSteps PROVE Now(j, pc) \in FreeRow
  BY <1>1, <1>3 DEF Now, Step, JobRow, FreeRow, FreeSteps, Locked
<1> QED BY <1>2, <1>3

(* The fields of a job in flight, read from the invariant. *)
LEMMA JobFields ==
   ASSUME Base, NEW j \in Jobs
   PROVE /\ job[j].pc \in Steps /\ job[j].at \in Refs /\ job[j].seen \in 0..MaxSessions
         /\ job[j].was \in MachineStates \cup {"", "recycled"}
         /\ job[j].pc \notin Nowhere => job[j].at \in Workers
BY DEF Base, JobRows, JobRow

(* The fields of a task's row, read from the invariant. *)
LEMMA TaskFields ==
   ASSUME Base, NEW t \in Tasks
   PROVE /\ task[t].state \in TaskStates \cup {"none"} /\ task[t].pending \in Pendings
         /\ task[t].worker \in Refs /\ task[t].session \in 0..MaxSessions
BY DEF Base, TaskRow, TaskRows

(* The states a calm step may put a task in. *)
May(t, s) == /\ s \in TaskStates \cup {"none"}
             /\ s = "none" => task[t].state = "none"
             /\ s \in LiveStates => isLive(t) \/ task[t].worker = NoWorker

(* Ending a task is always calm; any state is, from a live one. *)
LEMMA MayStates ==
  ASSUME NEW t \in Tasks, Base
  PROVE  /\ May(t, task[t].state) /\ May(t, "failed") /\ May(t, "done")
         /\ isLive(t) => \A s \in TaskStates : May(t, s)
BY TaskFields DEF May, isLive, LiveStates, TaskStates

(* A task's row updated by id is a calm row (the updates of services/tasks.ts *)
(* set the state, the action in flight and the session).                      *)
LEMMA RowTyped ==
  ASSUME Base, NEW t \in Tasks
  PROVE /\ task \in NextRows
        /\ \A s \in TaskStates \cup {"none"}, p \in Pendings, n \in 0..MaxSessions :
              May(t, s) => [task EXCEPT ![t] = Row(t, s, p, n)] \in NextRows
        /\ \A s : May(t, s) => [task EXCEPT ![t].state = s] \in NextRows
        /\ \A p \in Pendings : [task EXCEPT ![t].pending = p] \in NextRows
        /\ \A s \in TaskStates : [task EXCEPT ![t].state = s] \in TaskRows
        /\ \A w \in Workers : [task EXCEPT ![t].worker = w] \in TaskRows
<1>1. task \in TaskRows BY DEF Base
<1>2. ASSUME NEW u \in Tasks PROVE task[u] \in NextRow(u)
  BY <1>1 DEF NextRow, TaskRows, TaskRow, isLive
<1>3. ASSUME NEW r \in NextRow(t) PROVE [task EXCEPT ![t] = r] \in NextRows
  BY <1>1, <1>2 DEF NextRow, NextRows, TaskRows
<1>4. ASSUME NEW s \in TaskStates \cup {"none"}, NEW p \in Pendings, NEW n \in 0..MaxSessions, May(t, s)
      PROVE  [task EXCEPT ![t] = Row(t, s, p, n)] \in NextRows
  <2>1. Row(t, s, p, n) \in NextRow(t)
    BY <1>4, TaskFields DEF Row, NextRow, May, TaskRow
  <2> QED BY <1>3, <2>1
<1>5. ASSUME NEW s, May(t, s) PROVE [task EXCEPT ![t].state = s] \in NextRows
  <2>1. [task EXCEPT ![t].state = s] \in TaskRows BY <1>1, <1>5 DEF TaskRows, TaskRow, May
  <2>2. ASSUME NEW u \in Tasks PROVE [task EXCEPT ![t].state = s][u] \in NextRow(u)
    BY <1>1, <1>2, <1>5, <2>1 DEF TaskRows, TaskRow, May, NextRow
  <2> QED BY <2>1, <2>2 DEF NextRows
<1>6. ASSUME NEW p \in Pendings PROVE [task EXCEPT ![t].pending = p] \in NextRows
  <2>1. [task EXCEPT ![t].pending = p] \in TaskRows BY <1>1 DEF TaskRows, TaskRow
  <2>2. ASSUME NEW u \in Tasks PROVE [task EXCEPT ![t].pending = p][u] \in NextRow(u)
    BY <1>1, <1>2, <2>1 DEF TaskRows, TaskRow, NextRow, isLive
  <2> QED BY <2>1, <2>2 DEF NextRows
<1>7. \A w \in Workers : [task EXCEPT ![t].worker = w] \in TaskRows
  BY <1>1 DEF TaskRows, TaskRow, Refs
<1>8. \A s \in TaskStates : [task EXCEPT ![t].state = s] \in TaskRows
  BY <1>1 DEF TaskRows, TaskRow
<1> QED BY <1>1, <1>2, <1>4, <1>5, <1>6, <1>7, <1>8 DEF NextRows

(* A live task may be moved to a session (runTask, followUpTask). *)
LEMMA RowRuns ==
  ASSUME Base, NEW t \in Tasks, isLive(t), NEW p \in Pendings, NEW n \in 0..MaxSessions
  PROVE  [task EXCEPT ![t] = Row(t, "running", p, n)] \in NextRows
<1>1. May(t, "running") BY MayStates DEF TaskStates
<1> QED BY <1>1, RowTyped DEF TaskStates

(* A machine's row updated by id is a calm machine, if it exists. *)
LEMMA MachineTyped ==
  ASSUME Base, NEW w \in Workers
  PROVE /\ machine[w].state \in MachineStates /\ machine[w].box \in Boxes
        /\ machine[w].box # "none" => machine[w].state \notin Rowless
        /\ [machine EXCEPT ![w] = Box(w, "deleted", "none")] \in NextMachines
        /\ machine[w].state # "deleted" =>
              /\ \A s \in MachineStates \ Rowless, b \in Boxes :
                    [machine EXCEPT ![w] = Box(w, s, b)] \in NextMachines
              /\ \A s \in MachineStates \ Rowless : [machine EXCEPT ![w].state = s] \in NextMachines
              /\ Rebuilt(w) \in NextMachines
        /\ \A b \in Boxes : machine[w].box # "none" \/ b = "none" =>
              [machine EXCEPT ![w].box = b] \in NextMachines
<1>1. machine \in MachineRows /\ Bare BY DEF Base
<1>2. ASSUME machine[w].state # "deleted", NEW s \in MachineStates \ Rowless, NEW b \in Boxes
      PROVE  [machine EXCEPT ![w] = Box(w, s, b)] \in NextMachines
  BY <1>1, <1>2 DEF Box, MachineRow, MachineRows, NextMachines, Bare, Rowless
<1>3. ASSUME machine[w].state # "deleted", NEW s \in MachineStates \ Rowless
      PROVE  [machine EXCEPT ![w].state = s] \in NextMachines
  <2>1. [machine EXCEPT ![w].state = s] \in MachineRows BY <1>1 DEF MachineRow, MachineRows
  <2> QED BY <1>1, <1>3, <2>1 DEF MachineRow, MachineRows, NextMachines, Bare, Rowless
<1>4. ASSUME NEW b \in Boxes, machine[w].box # "none" \/ b = "none"
      PROVE  [machine EXCEPT ![w].box = b] \in NextMachines
  <2>1. [machine EXCEPT ![w].box = b] \in MachineRows BY <1>1 DEF MachineRow, MachineRows
  <2> QED BY <1>1, <1>4, <2>1 DEF MachineRow, MachineRows, NextMachines, Bare
<1>5. ASSUME machine[w].state # "deleted" PROVE Rebuilt(w) \in NextMachines
  BY <1>1, <1>5 DEF Rebuilt, MachineRow, MachineRows, MachineStates, Boxes, NextMachines, Bare, Rowless
<1>6. [machine EXCEPT ![w] = Box(w, "deleted", "none")] \in NextMachines
  BY <1>1 DEF Box, MachineRow, MachineRows, MachineStates, Boxes, NextMachines, Bare, Rowless
<1> QED BY <1>1, <1>2, <1>3, <1>4, <1>5, <1>6 DEF MachineRow, MachineRows, Bare

-----------------------------------------------------------------------------
(* What an action does to the chains: nothing, queue a job, or let the head i *)
(* go on (withPoolLock).                                                      *)
LockMove(i) ==
    \/ poolLock' = poolLock
    \/ \E w \in Workers, k \in Jobs : poolLock' = Enter(w, k)
    \/ \E w \in Workers : Holder(w, i) /\ poolLock' \in {Leave(w), LeaveAndEnter(w, i)}

(* Such a move keeps every other holder of a lock in place. *)
LEMMA LockMoves ==
    ASSUME Base, NEW i \in Jobs, LockMove(i)
    PROVE  /\ poolLock' \in LockRows
           /\ \A w \in Workers, j \in Jobs \ {i} : Holder(w, j) => Holder(w, j)'
<1>0. poolLock \in [Workers -> Seq(Jobs)] BY DEF Base, LockRows
<1>1. CASE poolLock' = poolLock
  BY <1>0, <1>1 DEF Holder, LockRows
<1>2. CASE \E w \in Workers, k \in Jobs : poolLock' = Enter(w, k)
  <2>1. PICK w \in Workers, k \in Jobs : poolLock' = Enter(w, k) BY <1>2
  <2>2. poolLock' \in LockRows BY <1>0, <2>1 DEF Enter, LockRows
  <2>3. ASSUME NEW v \in Workers, NEW j \in Jobs, Holder(v, j) PROVE Holder(v, j)'
    <3>1. CASE v = w
      <4>1. poolLock'[v] = Append(poolLock[v], k) BY <1>0, <2>1, <3>1 DEF Enter
      <4>2. poolLock[v] \in Seq(Jobs) /\ poolLock[v] # <<>> /\ Head(poolLock[v]) = j
        BY <1>0, <2>3 DEF Holder
      <4> QED BY <4>1, <4>2 DEF Holder
    <3>2. CASE v # w
      BY <1>0, <2>1, <2>3, <3>2 DEF Enter, Holder
    <3> QED BY <3>1, <3>2
  <2> QED BY <2>2, <2>3
<1>3. CASE \E w \in Workers : Holder(w, i) /\ poolLock' \in {Leave(w), LeaveAndEnter(w, i)}
  <2>1. PICK w \in Workers : Holder(w, i) /\ poolLock' \in {Leave(w), LeaveAndEnter(w, i)}
    BY <1>3
  <2>2. poolLock[w] \in Seq(Jobs) /\ poolLock[w] # <<>> /\ Head(poolLock[w]) = i
    BY <1>0, <2>1 DEF Holder
  <2>3. Tail(poolLock[w]) \in Seq(Jobs) BY <2>2
  <2>4. Append(Tail(poolLock[w]), i) \in Seq(Jobs) BY <2>3
  <2>5. poolLock' \in LockRows BY <1>0, <2>1, <2>3, <2>4 DEF Leave, LeaveAndEnter, LockRows
  <2>6. ASSUME NEW v \in Workers, NEW j \in Jobs \ {i}, Holder(v, j) PROVE Holder(v, j)'
    <3>1. v # w BY <2>2, <2>6 DEF Holder
    <3>2. poolLock'[v] = poolLock[v] BY <1>0, <2>1, <3>1 DEF Leave, LeaveAndEnter
    <3> QED BY <2>6, <3>2 DEF Holder
  <2> QED BY <2>5, <2>6
<1> QED BY <1>1, <1>2, <1>3 DEF LockMove

(* An action that moves two jobs, neither to a locked step nor to an *)
(* allocation, leaves the others as they were.                       *)
LEMMA TwoMove ==
    ASSUME Base, NEW i \in Jobs, NEW r \in FreeRow, NEW k \in Jobs, NEW s \in FreeRow,
           job' = [job EXCEPT ![i] = r, ![k] = s], LockMove(i)
    PROVE  NextJobs
<1>1. job \in JobRows /\ LockHeld /\ r \in JobRow /\ s \in JobRow BY DEF Base, FreeRow
<1>2. job' \in JobRows BY <1>1 DEF JobRows
<1>3. job'[i] \in {r, s} /\ job'[k] \in {r, s} /\ \A j \in Jobs \ {i, k} : job'[j] = job[j]
  BY <1>1 DEF JobRows
<1>4. ASSUME NEW j \in Jobs, job'[j].pc \in Locked \cup Allocating PROVE job'[j] = job[j] /\ j # i
  BY <1>3, <1>4 DEF FreeRow
<1>5. ASSUME NEW j \in Jobs, job'[j].pc \in Locked PROVE Holder(job[j].at, j)'
  <2>1. j # i /\ job'[j] = job[j] BY <1>4, <1>5
  <2>2. Holder(job[j].at, j) BY <1>1, <1>5, <2>1 DEF LockHeld
  <2>3. job[j].at \in Workers BY <1>5, <2>1, JobFields DEF Locked, Nowhere
  <2> QED BY <2>1, <2>2, <2>3, LockMoves DEF Holder
<1>6. JobsTyped' BY <1>2, <1>5, LockMoves DEF JobsTyped, LockHeld
<1> QED BY <1>4, <1>6, JobsOf DEF NextJobs, Locked

(* The same for an action that moves one job. *)
LEMMA OneMoves ==
    ASSUME Base, NEW i \in Jobs, NEW r \in FreeRow, job' = [job EXCEPT ![i] = r], LockMove(i)
    PROVE  NextJobs
<1>1. job' = [job EXCEPT ![i] = r, ![i] = r] BY DEF Base, JobRows
<1> QED BY <1>1, TwoMove

(* The same for a run that goes from one step of its allocation to the next *)
(* (allocateWorker, findFreePoolWorker).                                    *)
LEMMA AllocationMoves ==
    ASSUME Base, NEW t \in Tasks, NEW r \in JobRow, r.pc \in Allocating,
           job' = [job EXCEPT ![<<t, "run">>] = r], LockMove(<<t, "run">>),
           \/ job[<<t, "run">>].pc \in Allocating
           \/ task[t].worker = NoWorker /\ task'[t].state # "none"
    PROVE  NextJobs
<1> DEFINE i == <<t, "run">>
<1>1. job \in JobRows /\ LockHeld /\ i \in Jobs /\ r.pc \notin Locked
  BY JobsOf DEF Base, Locked, Allocating
<1>2. job' \in JobRows BY <1>1 DEF JobRows
<1>3. job'[i] = r /\ \A j \in Jobs \ {i} : job'[j] = job[j] BY <1>1 DEF JobRows
<1>4. ASSUME NEW j \in Jobs, job'[j].pc \in Locked PROVE job'[j] = job[j] /\ j # i
  BY <1>1, <1>3, <1>4
<1>5. ASSUME NEW j \in Jobs, job'[j].pc \in Locked PROVE Holder(job[j].at, j)'
  <2>1. j # i /\ job'[j] = job[j] BY <1>4, <1>5
  <2>2. Holder(job[j].at, j) BY <1>1, <1>5, <2>1 DEF LockHeld
  <2>3. job[j].at \in Workers BY <1>5, <2>1, JobFields DEF Locked, Nowhere
  <2> QED BY <1>1, <2>1, <2>2, <2>3, LockMoves DEF Holder
<1>6. JobsTyped' BY <1>1, <1>2, <1>5, LockMoves DEF JobsTyped, LockHeld
<1>7. ASSUME NEW u \in Tasks, u # t PROVE job'[<<u, "run">>] = job[<<u, "run">>]
  <2>1. <<u, "run">> \in Jobs /\ <<u, "run">> # i BY <1>7, JobsOf
  <2> QED BY <1>3, <2>1
<1>8. \A u \in Tasks : job'[<<u, "run">>].pc \in Allocating =>
              \/ job[<<u, "run">>].pc \in Allocating
              \/ task[u].worker = NoWorker /\ task'[u].state # "none"
  BY <1>7
<1>9. \A u \in Tasks : job'[<<u, "release">>].pc = "stopping" =>
              /\ job[<<u, "release">>].pc = "stopping"
              /\ job'[<<u, "release">>].at = job[<<u, "release">>].at
  BY <1>4, JobsOf DEF Locked
<1> QED BY <1>6, <1>8, <1>9 DEF NextJobs

(* The head of a chain may wake or stop its machine (startParkedWorker, *)
(* stopWorker under withPoolLock).                                      *)
LEMMA HolderMoves ==
    ASSUME Base, NEW i \in Jobs, NEW r \in JobRow, r.pc \in Locked, Holder(r.at, i),
           job' = [job EXCEPT ![i] = r], UNCHANGED poolLock
    PROVE  /\ JobsTyped'
           /\ r.pc = "waking" => NextJobs
           /\ \A t \in Tasks : job'[<<t, "run">>].pc \in Allocating => job[<<t, "run">>].pc \in Allocating
           /\ \A j \in Jobs \ {i} : job'[j] = job[j]
<1>1. job \in JobRows /\ LockHeld /\ poolLock \in LockRows BY DEF Base
<1>2. job' \in JobRows BY <1>1 DEF JobRows
<1>3. job'[i] = r /\ \A j \in Jobs \ {i} : job'[j] = job[j] BY <1>1 DEF JobRows
<1>4. ASSUME NEW j \in Jobs, job'[j].pc \in Locked PROVE Holder(job[j].at, j)'
  <2>1. CASE j = i BY <1>3, <2>1 DEF Holder
  <2>2. CASE j # i
    <3>1. job'[j] = job[j] BY <1>3, <2>2
    <3> QED BY <1>1, <1>4, <3>1 DEF Holder, LockHeld
  <2> QED BY <2>1, <2>2
<1>5. JobsTyped' BY <1>1, <1>2, <1>4 DEF JobsTyped, LockHeld
<1>6. ASSUME NEW j \in Jobs, job'[j].pc \in Allocating PROVE job'[j] = job[j]
  BY <1>3, <1>6 DEF Locked, Allocating
<1>7. ASSUME r.pc = "waking", NEW j \in Jobs, job'[j].pc = "stopping" PROVE job'[j] = job[j]
  BY <1>3, <1>7
<1> QED BY <1>3, <1>5, <1>6, <1>7, JobsOf DEF NextJobs

-----------------------------------------------------------------------------
(* A run takes a machine nobody holds and no release is stopping. *)
Taking(t, w) ==
    /\ task[t].worker = NoWorker /\ task[t].state # "none"
    /\ job'[<<t, "run">>].pc \notin Allocating
    /\ task' = [task EXCEPT ![t].worker = w]
    /\ \A u \in Tasks : isLive(u) => task[u].worker # w
    /\ machine'[w].state # "absent"
    /\ \A u \in Tasks : job[<<u, "release">>].pc = "stopping" => job[<<u, "release">>].at # w
    /\ machine' \in NextMachines /\ NextJobs /\ NextNotes /\ Agents'

(* A live reply puts its task back at work (followUpTask, the live branch). *)
Answering(t) ==
    /\ task' = [task EXCEPT ![t].state = "running"]
    /\ revived' = IF isLive(t) THEN revived ELSE revived \cup {t}
    /\ machine' \in NextMachines /\ NextJobs /\ Noted' /\ Agents'

(* A job starts stopping its machine; a release, only one nobody holds. *)
Stopping(j) ==
    /\ job'[j].pc = "stopping" /\ job'[j].at \in Workers
    /\ machine[job'[j].at].state # "absent"
    /\ j[2] = "release" => \A u \in Tasks : isLive(u) => task[u].worker # job'[j].at
    /\ \A k \in Jobs \ {j} : job'[k] = job[k]
    /\ \A t \in Tasks : job'[<<t, "run">>].pc \in Allocating => job[<<t, "run">>].pc \in Allocating
    /\ UNCHANGED task
    /\ machine' \in NextMachines /\ JobsTyped' /\ NextNotes /\ Agents'

(* The rows of a run that allocates. *)
LEMMA AllocationRows ==
    ASSUME Base, NEW t \in Tasks
    PROVE  /\ At("pick", NoWorker) \in JobRow /\ At("pick", NoWorker).pc = "pick"
           /\ Now(<<t, "run">>, "choose") \in JobRow /\ Now(<<t, "run">>, "choose").pc = "choose"
           /\ \A w \in Workers : At("claim", w) \in JobRow /\ At("claim", w).pc = "claim"
<1>1. 0 \in 0..MaxSessions BY BoundsAssumption
<1>2. job[<<t, "run">>] \in JobRow BY JobsOf DEF Base, JobRows
<1>3. At("pick", NoWorker) \in JobRow BY <1>1, StepTyped DEF At, Nowhere
<1>4. Now(<<t, "run">>, "choose") \in JobRow BY <1>2 DEF Now, Step, JobRow, Steps, Nowhere
<1>5. \A w \in Workers : At("claim", w) \in JobRow BY <1>1 DEF At, Step, JobRow, Steps, Refs, Nowhere
<1> QED BY <1>3, <1>4, <1>5 DEF At, Now, Step

-----------------------------------------------------------------------------
(* What an action leaves alone stays of its type, and calm. *)
LEMMA Quiet ==
    ASSUME Base
    PROVE  /\ task \in TaskRows /\ machine \in MachineRows /\ Noted /\ Agents
           /\ UNCHANGED task => task' \in NextRows
           /\ UNCHANGED machine => machine' \in NextMachines
           /\ UNCHANGED <<notes, cands, faults>> => NextNotes
           /\ UNCHANGED agentVars => Agents'
           /\ UNCHANGED <<job, poolLock>> => NextJobs
<1>1. UNCHANGED task => task' \in NextRows
  BY DEF Base, NextRows, NextRow, TaskRows, TaskRow, isLive
<1>2. UNCHANGED machine => machine' \in NextMachines
  BY DEF Base, NextMachines, Bare
<1>3. UNCHANGED <<notes, cands, faults>> => NextNotes
  BY DEF Base, Noted, NextNotes, notes
<1>4. UNCHANGED agentVars => Agents'
  BY DEF Base, Agents, agentVars
<1>5. UNCHANGED <<job, poolLock>> => NextJobs
  BY DEF Base, JobsTyped, NextJobs, LockHeld, Holder
<1> QED BY <1>1, <1>2, <1>3, <1>4, <1>5 DEF Base

(* Agents that go down with a container leave agents. *)
LEMMA SurviveTyped ==
    ASSUME Base, NEW left \in SUBSET alive, Survive(left), UNCHANGED agentRows
    PROVE  Agents'
BY DEF Base, Agents, Survive, agentRows

(* A fault counts as one, within the bound. *)
LEMMA FaultTyped ==
    ASSUME Base, NEW f, Fault(f), UNCHANGED <<notes, cands>>
    PROVE  NextNotes
<1>1. faults' \in 0..MaxFaults
  <2>1. faults \in 0..MaxFaults /\ faults < MaxFaults /\ faults' = faults + 1
    BY DEF Base, Noted, Fault
  <2> QED BY <2>1, BoundsAssumption
<1> QED BY <1>1 DEF Base, Noted, NextNotes, notes

(* A step whose every part is calm is calm. *)
LEMMA Assembled ==
    ASSUME task' \in NextRows, machine' \in NextMachines, NextJobs, NextNotes, Agents'
    PROVE  Calm
BY DEF Calm

-----------------------------------------------------------------------------
(* createTask, runTask: every step is calm, but the claim and the spawn, *)
(* which take a machine that is free, or go on looking.                  *)
LEMMA RunSteps ==
    ASSUME Base, NEW t \in Tasks
    PROVE  /\ createTask(t) => Calm
           /\ RunPick(t) => Calm
           /\ \A w \in Workers : RunChoose(t, w) => Calm
           /\ RunClaim(t) => Calm \/ \E w \in Workers : Taking(t, w)
           /\ \A w \in Workers : RunSpawn(t, w) /\ HeldExists /\ StopExists => Taking(t, w)
           /\ RunRebuild(t) => Calm
           /\ RunResume(t) => Calm
           /\ RunReset(t) => Calm
           /\ RunRecord(t) => Calm
           /\ RunUnwind(t) => Calm
<1> DEFINE j == <<t, "run">>
<1>0. j \in Jobs BY JobsOf
<1>1. ASSUME createTask(t) PROVE Calm
  <2>1. task[t].worker = NoWorker /\ job[j].pc \notin Allocating
    BY <1>1 DEF createTask, Base, Unplaced
  <2>2. task' \in NextRows BY <1>1, <2>1, RowTyped DEF createTask, May, TaskStates
  <2>3. task'[t].state # "none" BY <1>1, Quiet DEF createTask, TaskRows
  <2>4. NextJobs
    BY <1>0, <1>1, <2>1, <2>3, AllocationRows, AllocationMoves DEF createTask, LockMove, Allocating
  <2>5. pool \subseteq Workers BY DEF pool
  <2>6. NextNotes BY <1>1, <2>5, Quiet DEF createTask, Noted, NextNotes
  <2> QED BY <1>1, <2>2, <2>4, <2>6, Quiet, Assembled DEF createTask
<1>2. ASSUME RunPick(t) PROVE Calm
  <2>1. NextJobs
    BY <1>0, <1>2, AllocationRows, AllocationMoves DEF RunPick, LockMove, Allocating
  <2>2. NextNotes BY <1>2, Quiet DEF RunPick, Noted, NextNotes, notes
  <2> QED BY <1>2, <2>1, <2>2, Quiet, Assembled DEF RunPick
<1>3. ASSUME NEW w \in Workers, RunChoose(t, w) PROVE Calm
  <2>1. NextJobs
    BY <1>0, <1>3, AllocationRows, AllocationMoves DEF RunChoose, LockMove, Allocating
  <2>2. NextNotes BY <1>3, Quiet DEF RunChoose, Noted, NextNotes, notes
  <2> QED BY <1>3, <2>1, <2>2, Quiet, Assembled DEF RunChoose
<1>4. ASSUME RunClaim(t) PROVE Calm \/ \E v \in Workers : Taking(t, v)
  <2> DEFINE w == job[j].at
             m == machine[w]
             next == CASE m.outdated -> "rebuild"
                       [] ~m.outdated /\ m.state = "stopped" -> "wakeQ"
                       [] OTHER -> "wait"
  <2>0. job[j].pc = "claim" /\ job[j].pc \in Allocating BY <1>4 DEF RunClaim, Allocating
  <2>1. w \in Workers BY <1>0, <2>0, JobFields DEF Nowhere
  <2>2. Holder(w, j) BY <1>4 DEF RunClaim
  <2>3. CASE m.state \in {"ready", "stopped"} /\ ~heldByLiveTask(w, t)
    <3>1. task' = [task EXCEPT ![t].worker = w] BY <1>4, <2>3 DEF RunClaim
    <3>2. cands' = [cands EXCEPT ![t] = {}] BY <1>4, <2>3 DEF RunClaim
    <3>3. job' = [job EXCEPT ![j] = Step(next, w, 0, "recycled")] BY <1>4, <2>3 DEF RunClaim
    <3>4. poolLock' = IF next = "wakeQ" THEN LeaveAndEnter(w, j) ELSE Leave(w)
      BY <1>4, <2>3 DEF RunClaim
    <3>5. next \in FreeSteps BY DEF FreeSteps, Steps, Locked, Allocating
    <3>6. 0 \in 0..MaxSessions BY BoundsAssumption
    <3>7. Step(next, w, 0, "recycled") \in FreeRow BY <2>1, <3>5, <3>6, StepTyped
    <3>8. LockMove(j) BY <2>1, <2>2, <3>4 DEF LockMove
    <3>9. NextJobs BY <1>0, <3>3, <3>7, <3>8, OneMoves
    <3>10. NextNotes BY <1>4, <3>2, Quiet DEF RunClaim, Noted, NextNotes, notes
    <3>11. job'[j].pc \notin Allocating
      <4>1. job'[j] = Step(next, w, 0, "recycled") BY <1>0, <3>3 DEF Base, JobRows
      <4> QED BY <3>7, <4>1 DEF FreeRow
    <3>12. task[t].worker = NoWorker /\ task[t].state # "none" BY <2>0 DEF Base, Unplaced
    <3>13. \A u \in Tasks : isLive(u) => task[u].worker # w
      BY <2>1, <2>3, <3>12, NullsAssumption DEF heldByLiveTask
    <3>14. ASSUME NEW u \in Tasks, job[<<u, "release">>].pc = "stopping"
           PROVE  job[<<u, "release">>].at # w
      <4>1. <<u, "release">> \in Jobs /\ <<u, "release">> # j BY JobsOf
      <4>2. Holder(job[<<u, "release">>].at, <<u, "release">>)
        BY <3>14, <4>1 DEF Base, LockHeld, Locked
      <4> QED BY <2>2, <4>1, <4>2 DEF Holder
    <3>15. machine' = machine BY <1>4 DEF RunClaim
    <3>16. machine' \in NextMachines /\ Agents' BY <1>4, Quiet DEF RunClaim
    <3>17. machine'[w].state # "absent" BY <2>3, <3>15
    <3>18. Taking(t, w)
      BY <3>1, <3>9, <3>10, <3>11, <3>12, <3>13, <3>14, <3>16, <3>17 DEF Taking
    <3> QED BY <2>1, <3>18
  <2>4. CASE ~(m.state \in {"ready", "stopped"} /\ ~heldByLiveTask(w, t))
    <3>1. job' = [job EXCEPT ![j] = Now(j, "choose")] /\ poolLock' = Leave(w)
      BY <1>4, <2>4 DEF RunClaim
    <3>2. UNCHANGED <<task, cands>> BY <1>4, <2>4 DEF RunClaim
    <3>3. LockMove(j) BY <2>1, <2>2, <3>1 DEF LockMove
    <3>4. NextJobs BY <2>0, <3>1, <3>3, AllocationRows, AllocationMoves DEF Allocating
    <3> QED BY <1>4, <3>2, <3>4, Quiet, Assembled DEF RunClaim
  <2> QED BY <2>3, <2>4
<1>5. ASSUME NEW w \in Workers, RunSpawn(t, w), HeldExists, StopExists PROVE Taking(t, w)
  <2>1. task' = [task EXCEPT ![t].worker = w] /\ machine[w].state = "absent"
    BY <1>5 DEF RunSpawn
  <2>2. machine' = [machine EXCEPT ![w] = Box(w, "starting", "building")] BY <1>5 DEF RunSpawn
  <2>3. machine' \in NextMachines BY <2>1, <2>2, MachineTyped DEF MachineStates, Boxes, Rowless
  <2>4. At("wait", w) \in FreeRow BY AtTyped DEF FreeSteps, Steps, Locked, Allocating
  <2>5. job' = [job EXCEPT ![j] = At("wait", w)] BY <1>5 DEF RunSpawn
  <2>6. NextJobs BY <1>0, <1>5, <2>4, <2>5, OneMoves DEF RunSpawn, LockMove
  <2>7. job'[j].pc \notin Allocating
    <3>1. job'[j] = At("wait", w) BY <1>0, <2>5 DEF Base, JobRows
    <3> QED BY <2>4, <3>1 DEF FreeRow
  <2>8. task[t].worker = NoWorker /\ task[t].state # "none"
    BY <1>5 DEF RunSpawn, Allocating, Base, Unplaced
  <2>9. \A u \in Tasks : task[u].worker # w BY <1>5, <2>1 DEF HeldExists
  <2>10. \A u \in Tasks : job[<<u, "release">>].pc = "stopping" => job[<<u, "release">>].at # w
    BY <1>5, <2>1 DEF StopExists
  <2>11. machine'[w].state # "absent" BY <2>2, Quiet DEF MachineRows, Box
  <2>12. NextNotes /\ Agents' BY <1>5, Quiet DEF RunSpawn
  <2> QED BY <2>1, <2>3, <2>6, <2>7, <2>8, <2>9, <2>10, <2>11, <2>12 DEF Taking
<1>6. ASSUME RunRebuild(t) PROVE Calm
  <2>1. job[j].pc \notin Nowhere /\ job[j].at \in Workers
    BY <1>0, <1>6, JobFields DEF RunRebuild, Nowhere
  <2>2. Now(j, "wait") \in FreeRow BY <1>0, <2>1, NowTyped DEF FreeSteps, Steps, Locked, Allocating
  <2>3. NextJobs BY <1>0, <1>6, <2>2, OneMoves DEF RunRebuild, LockMove
  <2>4. machine' \in NextMachines BY <1>6, <2>1, MachineTyped, Quiet DEF RunRebuild
  <2>5. LeftAfter(job[j].at) \in SUBSET alive BY DEF LeftAfter
  <2>6. Agents'
    <3>1. CASE machine[job[j].at].state = "deleted"
      BY <1>6, <3>1, Quiet DEF RunRebuild, AgentsUnchanged, agentVars, agentRows
    <3>2. CASE machine[job[j].at].state # "deleted"
      BY <1>6, <2>5, <3>2, SurviveTyped DEF RunRebuild
    <3> QED BY <3>1, <3>2
  <2> QED BY <1>6, <2>3, <2>4, <2>6, Quiet, Assembled DEF RunRebuild
<1>7. ASSUME RunResume(t) PROVE Calm
  <2> DEFINE w == task[t].worker
  <2>1. CASE task[t].state # "queued"
    <3>1. job' = [job EXCEPT ![j] = Idle] /\ UNCHANGED <<task, poolLock, cands>>
      BY <1>7, <2>1 DEF RunResume
    <3>2. NextJobs BY <1>0, <3>1, AtTyped, OneMoves DEF LockMove
    <3> QED BY <1>7, <3>1, <3>2, Quiet, Assembled DEF RunResume
  <2>4. CASE task[t].state = "queued" /\ w = NoWorker
    <3>1. /\ job' = [job EXCEPT ![j] = At("pick", NoWorker)]
          /\ cands' = [cands EXCEPT ![t] = pool] /\ UNCHANGED <<task, poolLock>>
      BY <1>7, <2>4 DEF RunResume
    <3>2. NextJobs
      BY <1>0, <2>4, <3>1, AllocationRows, AllocationMoves DEF LockMove, Allocating
    <3>3. pool \subseteq Workers BY DEF pool
    <3>4. NextNotes BY <1>7, <3>1, <3>3, Quiet DEF RunResume, Noted, NextNotes, notes
    <3> QED BY <1>7, <3>1, <3>2, <3>4, Quiet, Assembled DEF RunResume
  <2>2. CASE ~(task[t].state # "queued" \/ w = NoWorker) /\ \E n \in 1..MaxSessions : <<t, n>> \in rows
    <3>1. PICK n \in 1..MaxSessions : task' = [task EXCEPT ![t] = Row(t, "running", task[t].pending, n)]
      BY <1>7, <2>2 DEF RunResume
    <3>2. job' = [job EXCEPT ![j] = Idle] /\ UNCHANGED poolLock
      BY <1>7, <2>2 DEF RunResume
    <3>3. n \in 0..MaxSessions BY BoundsAssumption
    <3>4. isLive(t) BY <2>2 DEF isLive, LiveStates
    <3>6. task' \in NextRows BY <3>1, <3>3, <3>4, RowRuns, TaskFields
    <3>5. NextJobs BY <1>0, <3>2, AtTyped, OneMoves DEF LockMove
    <3>7. UNCHANGED cands BY <1>7, <2>2 DEF RunResume
    <3> QED BY <1>7, <3>5, <3>6, <3>7, Quiet, Assembled DEF RunResume
  <2>3. CASE ~(task[t].state # "queued" \/ w = NoWorker) /\ ~\E n \in 1..MaxSessions : <<t, n>> \in rows
    <3> DEFINE was == IF w \in older[t] THEN "recycled" ELSE ""
    <3>1. job' = [job EXCEPT ![j] = Step("wakeQ", w, 0, was)] /\ poolLock' = Enter(w, j) /\ UNCHANGED task
      BY <1>7, <2>3 DEF RunResume
    <3>2. w \in Workers BY <2>3, TaskFields DEF Refs
    <3>3. 0 \in 0..MaxSessions BY BoundsAssumption
    <3>4. Step("wakeQ", w, 0, was) \in FreeRow
      BY <3>2, <3>3, StepTyped DEF FreeSteps, Steps, Locked, Allocating
    <3>5. LockMove(j) BY <1>0, <3>1, <3>2 DEF LockMove
    <3>6. NextJobs BY <1>0, <3>1, <3>4, <3>5, OneMoves
    <3>7. UNCHANGED cands BY <1>7, <2>3 DEF RunResume
    <3> QED BY <1>7, <3>1, <3>6, <3>7, Quiet, Assembled DEF RunResume
  <2> QED BY <2>1, <2>2, <2>3, <2>4
<1>8. ASSUME RunReset(t) PROVE Calm
  <2>1. job[j].pc \notin Nowhere /\ job[j].at \in Workers
    BY <1>0, <1>8, JobFields DEF RunReset, Nowhere
  <2>2. Now(j, "launch") \in FreeRow /\ Now(j, "failed") \in FreeRow
    BY <1>0, <2>1, NowTyped DEF FreeSteps, Steps, Locked, Allocating, Nowhere
  <2>3. PICK r \in FreeRow : job' = [job EXCEPT ![j] = r] BY <1>8, <2>2 DEF RunReset
  <2>4. NextJobs BY <1>0, <1>8, <2>3, OneMoves DEF RunReset, LockMove
  <2>5. Agents' BY <1>8, Quiet DEF RunReset, Agents, AgentsUnchanged
  <2> QED BY <1>8, <2>4, <2>5, Quiet, Assembled DEF RunReset
<1>9. ASSUME RunRecord(t) PROVE Calm
  <2>1. Now(j, "unwind") \in FreeRow
    BY <1>0, <1>9, NowTyped DEF RunRecord, FreeSteps, Steps, Locked, Allocating, Nowhere
  <2>2. PICK r \in FreeRow : job' = [job EXCEPT ![j] = r]
    BY <1>9, <2>1, AtTyped DEF RunRecord
  <2>3. NextJobs BY <1>0, <1>9, <2>2, OneMoves DEF RunRecord, LockMove
  <2>4. task' \in NextRows
    <3>1. CASE stillQueued(t)
      <4>1. task' = [task EXCEPT ![t] = Row(t, "running", task[t].pending, job[j].seen)]
        BY <1>9, <3>1 DEF RunRecord
      <4>2. task[t].pending \in Pendings /\ job[j].seen \in 0..MaxSessions
        BY <1>0, TaskFields, JobFields
      <4>3. isLive(t) BY <3>1 DEF stillQueued, isLive, LiveStates
      <4> QED BY <4>1, <4>2, <4>3, RowRuns
    <3>2. CASE ~stillQueued(t)
      BY <1>9, <3>2, Quiet DEF RunRecord
    <3> QED BY <3>1, <3>2
  <2>5. Agents' BY <1>9, Quiet DEF RunRecord, Prompt, Agents, agentRows
  <2> QED BY <1>9, <2>3, <2>4, <2>5, Quiet, Assembled DEF RunRecord
<1>10. ASSUME RunUnwind(t) PROVE Calm
  <2>1. NextJobs BY <1>0, <1>10, AtTyped, OneMoves DEF RunUnwind, LockMove
  <2>2. Killed(t, job[j].seen) \in SUBSET alive BY DEF Killed
  <2>3. Agents' BY <1>10, <2>2, SurviveTyped DEF RunUnwind
  <2> QED BY <1>10, <2>1, <2>3, Quiet, Assembled DEF RunUnwind
<1> QED BY <1>1, <1>2, <1>3, <1>4, <1>5, <1>6, <1>7, <1>8, <1>9, <1>10

(* startAgentSession, for a first run or a follow-up, is calm. *)
LEMMA LaunchSteps ==
    ASSUME Base, NEW t \in Tasks, NEW kind \in {"run", "reply"}
    PROVE  /\ Launch(t, kind) => Calm
           /\ Started(t, kind) => Calm
           /\ StdinFails(t, kind) => Calm
<1> DEFINE j == <<t, kind>>
<1>0. j \in Jobs BY JobsOf
<1>1. ASSUME Launch(t, kind) PROVE Calm
  <2> DEFINE w == job[j].at
             n == launched[t] + 1
  <2>1. job[j].pc \notin Nowhere /\ w \in Workers
    BY <1>0, <1>1, JobFields DEF Launch, Nowhere
  <2>2. CASE machine[w].box = "up"
    <3>1. /\ n <= MaxSessions
          /\ launched' = [launched EXCEPT ![t] = n]
          /\ trace' = [trace EXCEPT ![w] = t]
          /\ alive' = alive \cup {<<t, n>>}
          /\ turn' = IF Interactive THEN turn ELSE turn \cup {<<t, n>>}
          /\ job' = [job EXCEPT ![j] = Step("started", w, n, job[j].was)]
      BY <1>1, <2>2 DEF Launch
    <3>2. launched[t] \in 0..MaxSessions BY DEF Base, Agents
    <3>3. n \in 0..MaxSessions /\ n \in 1..MaxSessions /\ n # 0 BY <3>1, <3>2, BoundsAssumption
    <3>4. Step("started", w, n, job[j].was) \in FreeRow
      BY <1>0, <2>1, <3>3, StepTyped, JobFields
    <3>5. NextJobs BY <1>0, <1>1, <3>1, <3>4, OneMoves DEF Launch, LockMove
    <3>6. <<t, n>> \in Sessions BY <3>3 DEF Sessions
    <3>7. Agents' BY <1>1, <2>1, <3>1, <3>3, <3>6, Quiet DEF Launch, Agents
    <3> QED BY <1>1, <3>5, <3>7, Quiet, Assembled DEF Launch
  <2>3. CASE machine[w].box # "up"
    <3>1. job' = [job EXCEPT ![j] = Now(j, "failed")] /\ UNCHANGED <<launched, trace, alive, turn>>
      BY <1>1, <2>3 DEF Launch
    <3>2. Now(j, "failed") \in FreeRow BY <1>0, NowTyped DEF Nowhere, Allocating
    <3>3. NextJobs BY <1>0, <1>1, <3>1, <3>2, OneMoves DEF Launch, LockMove
    <3>4. Agents' BY <1>1, <3>1, Quiet DEF Launch, agentVars
    <3> QED BY <1>1, <3>3, <3>4, Quiet, Assembled DEF Launch
  <2> QED BY <2>2, <2>3
<1>2. ASSUME Started(t, kind) PROVE Calm
  <2>1. job[j].pc = "started" /\ job[j].pc \notin Nowhere BY <1>2 DEF Started, Nowhere
  <2>2. Now(j, "record") \in FreeRow BY <1>0, <2>1, NowTyped DEF FreeSteps, Steps, Locked, Allocating
  <2>3. NextJobs BY <1>0, <1>2, <2>2, OneMoves DEF Started, LockMove
  <2>4. NextNotes BY <1>2, Quiet DEF Started, Noted, NextNotes
  <2>5. <<t, job[j].seen>> \in Sessions
    <3>1. job[j].seen \in 0..MaxSessions /\ job[j].seen # 0
      BY <1>0, <2>1 DEF Base, JobRows, JobRow
    <3>2. job[j].seen \in 1..MaxSessions BY <3>1, BoundsAssumption
    <3> QED BY <3>2 DEF Sessions
  <2>6. Agents' BY <1>2, <2>5, Quiet DEF Started, Agents
  <2> QED BY <1>2, <2>3, <2>4, <2>6, Quiet, Assembled DEF Started
<1>3. ASSUME StdinFails(t, kind) PROVE Calm
  <2>1. Now(j, "failed") \in FreeRow BY <1>0, NowTyped DEF Nowhere, Allocating
  <2>2. NextJobs BY <1>0, <1>3, <2>1, OneMoves DEF StdinFails, LockMove
  <2> QED BY <1>3, <2>2, Quiet, Assembled DEF StdinFails
<1> QED BY <1>1, <1>2, <1>3

(* wakeWorker, startParkedWorker and waitForWorkerReady are calm. *)
LEMMA WakeSteps ==
    ASSUME Base, NEW j \in Jobs
    PROVE  /\ WakeDecide(j) => Calm
           /\ WakeDone(j) => Calm
           /\ WaitReady(j) => Calm
           /\ WaitFails(j) => Calm
           /\ WaitTimesOut(j) => Calm
<1> DEFINE w == job[j].at
           next == IF j[2] = "wake" THEN Idle ELSE Now(j, "wait")
<1>1. Now(j, "failed") \in FreeRow BY NowTyped DEF Nowhere, Allocating
<1>2. job[j].pc \notin Nowhere => next \in FreeRow
  BY AtTyped, NowTyped DEF FreeSteps, Steps, Locked, Allocating
<1>3. ASSUME WakeDecide(j) PROVE Calm
  <2> DEFINE s == machine[w].state
  <2>1. job[j].pc \notin Nowhere /\ w \in Workers /\ Holder(w, j)
    BY <1>3, JobFields DEF WakeDecide, Nowhere
  <2>2. CASE s \in {"deleted", "broken"}
    <3>1. job' = [job EXCEPT ![j] = Now(j, "failed")] /\ poolLock' = Leave(w)
          /\ UNCHANGED machine /\ AgentsUnchanged
      BY <1>3, <2>2 DEF WakeDecide
    <3>2. NextJobs BY <1>1, <2>1, <3>1, OneMoves DEF LockMove
    <3>3. Agents' BY <1>3, <3>1, Quiet DEF WakeDecide, AgentsUnchanged, agentRows, agentVars
    <3> QED BY <1>3, <3>1, <3>2, <3>3, Quiet, Assembled DEF WakeDecide
  <2>3. CASE s \in {"stopped", "error"} /\ machine[w].box \in {"up", "down"}
    <3>1. job' = [job EXCEPT ![j] = Now(j, "waking")] /\ UNCHANGED <<machine, poolLock>>
          /\ AgentsUnchanged
      BY <1>3, <2>3 DEF WakeDecide
    <3>2. Now(j, "waking") \in JobRow /\ Now(j, "waking").pc = "waking" /\ Now(j, "waking").at = w
      <4>1. job[j] \in JobRow BY DEF Base, JobRows
      <4> QED BY <2>1, <4>1 DEF Now, Step, JobRow, Steps, Nowhere
    <3>3. NextJobs BY <2>1, <3>1, <3>2, HolderMoves DEF Locked
    <3>4. Agents' BY <1>3, <3>1, Quiet DEF WakeDecide, AgentsUnchanged, agentRows, agentVars
    <3> QED BY <1>3, <3>1, <3>3, <3>4, Quiet, Assembled DEF WakeDecide
  <2>4. CASE s \in {"stopped", "error"} /\ machine[w].box \in {"none", "building"}
    <3>1. machine' = Rebuilt(w) /\ Survive(LeftAfter(w))
          /\ job' = [job EXCEPT ![j] = next] /\ poolLock' = Leave(w)
      BY <1>3, <2>4 DEF WakeDecide
    <3>2. NextJobs BY <1>2, <2>1, <3>1, OneMoves DEF LockMove
    <3>3. LeftAfter(w) \in SUBSET alive BY DEF LeftAfter
    <3>4. Agents' BY <1>3, <3>1, <3>3, SurviveTyped DEF WakeDecide
    <3>5. machine' \in NextMachines BY <2>1, <2>4, <3>1, MachineTyped
    <3> QED BY <1>3, <3>2, <3>4, <3>5, Quiet, Assembled DEF WakeDecide
  <2>5. CASE s \notin {"deleted", "broken", "stopped", "error"}
    <3>1. job' = [job EXCEPT ![j] = next] /\ poolLock' = Leave(w)
          /\ UNCHANGED machine /\ AgentsUnchanged
      BY <1>3, <2>5 DEF WakeDecide
    <3>2. NextJobs BY <1>2, <2>1, <3>1, OneMoves DEF LockMove
    <3>3. Agents' BY <1>3, <3>1, Quiet DEF WakeDecide, AgentsUnchanged, agentRows, agentVars
    <3> QED BY <1>3, <3>1, <3>2, <3>3, Quiet, Assembled DEF WakeDecide
  <2>6. machine[w].box \in {"none", "building", "up", "down"} BY <2>1, MachineTyped DEF Boxes
  <2> QED BY <2>2, <2>3, <2>4, <2>5, <2>6
<1>4. ASSUME WakeDone(j) PROVE Calm
  <2>1. job[j].pc \in Locked /\ job[j].pc \notin Nowhere /\ w \in Workers
    BY <1>4, JobFields DEF WakeDone, Nowhere, Locked
  <2>2. Holder(w, j) BY <2>1 DEF Base, LockHeld
  <2>3. PICK r \in FreeRow : job' = [job EXCEPT ![j] = r]
    BY <1>1, <1>2, <1>4, <2>1 DEF WakeDone
  <2>4. NextJobs BY <1>4, <2>1, <2>2, <2>3, OneMoves DEF WakeDone, LockMove
  <2>5. machine' \in NextMachines
    <3>1. "starting" \in MachineStates \ Rowless /\ "up" \in Boxes BY DEF MachineStates, Boxes, Rowless
    <3>2. \/ machine' = machine
          \/ machine[w].box # "none" /\ machine' = [machine EXCEPT ![w] = Box(w, "starting", "up")]
      BY <1>4 DEF WakeDone
    <3>3. machine[w].box # "none" => machine[w].state # "deleted" BY <2>1, MachineTyped DEF Rowless
    <3>4. CASE machine' = machine BY <3>4, Quiet
    <3>5. CASE machine[w].box # "none" /\ machine' = [machine EXCEPT ![w] = Box(w, "starting", "up")]
      <4>1. machine[w].state # "deleted" BY <3>3, <3>5
      <4>2. [machine EXCEPT ![w] = Box(w, "starting", "up")] \in NextMachines
        BY <2>1, <3>1, <4>1, MachineTyped
      <4> QED BY <3>5, <4>2
    <3> QED BY <3>2, <3>4, <3>5
  <2> QED BY <1>4, <2>4, <2>5, Quiet, Assembled DEF WakeDone
<1>5. ASSUME WaitReady(j) PROVE Calm
  <2>1. job[j].pc \notin Nowhere /\ w \in Workers BY <1>5, JobFields DEF WaitReady, Nowhere
  <2>2. AfterWait(j) \in FreeSteps BY DEF AfterWait, FreeSteps, Steps, Locked, Allocating
  <2>3. Now(j, AfterWait(j)) \in FreeRow BY <2>1, <2>2, NowTyped
  <2>4. PICK r \in FreeRow : job' = [job EXCEPT ![j] = r]
    BY <1>5, <2>3, AtTyped DEF WaitReady
  <2>5. LockMove(j) BY <1>5, <2>1 DEF WaitReady, LockMove
  <2>6. NextJobs BY <2>4, <2>5, OneMoves
  <2> QED BY <1>5, <2>6, Quiet, Assembled DEF WaitReady
<1>6. ASSUME WaitFails(j) PROVE Calm
  <2>1. NextJobs BY <1>1, <1>6, OneMoves DEF WaitFails, LockMove
  <2> QED BY <1>6, <2>1, Quiet, Assembled DEF WaitFails
<1>7. ASSUME WaitTimesOut(j) PROVE Calm
  <2>1. NextJobs BY <1>1, <1>7, OneMoves DEF WaitTimesOut, LockMove
  <2>2. NextNotes BY <1>7, FaultTyped DEF WaitTimesOut
  <2> QED BY <1>7, <2>1, <2>2, Quiet, Assembled DEF WaitTimesOut
<1> QED BY <1>3, <1>4, <1>5, <1>6, <1>7

-----------------------------------------------------------------------------
(* Queueing the release of a task is calm (releaseWorker). *)
LEMMA ReleaseTyped ==
    ASSUME Base, NEW t \in Tasks, NEW j \in Jobs, Releasable(t),
           job' = [job EXCEPT ![j] = Idle, ![<<t, "release">>] = At("tidyQ", task[t].worker)],
           poolLock' = Enter(task[t].worker, <<t, "release">>)
    PROVE  NextJobs
<1>1. task[t].worker \in Workers BY TaskFields DEF Releasable, Refs
<1>2. At("tidyQ", task[t].worker) \in FreeRow
  BY <1>1, AtTyped DEF FreeSteps, Steps, Locked, Allocating
<1>3. <<t, "release">> \in Jobs BY JobsOf
<1>4. LockMove(j) BY <1>1, <1>3 DEF LockMove
<1> QED BY <1>2, <1>3, <1>4, AtTyped, TwoMove

(* failTask is calm: the task ends, its machine is released. *)
LEMMA FailTyped ==
    ASSUME Base, NEW t \in Tasks, NEW j \in Jobs, FailTask(t, j)
    PROVE  task' \in NextRows /\ NextJobs
<1>1. task' \in NextRows
  <2> DEFINE p == IF j[2] = "drop" THEN cleared(t, "dropping") ELSE task[t].pending
  <2>1. p \in Pendings BY TaskFields DEF cleared, Pendings
  <2>2. task' = [task EXCEPT ![t] = Row(t, "failed", p, task[t].session)] BY DEF FailTask
  <2> QED BY <2>1, <2>2, MayStates, RowTyped, TaskFields DEF TaskStates
<1>2. NextJobs
  <2>1. CASE Releasable(t) BY <2>1, ReleaseTyped DEF FailTask
  <2>2. CASE ~Releasable(t) BY <2>2, AtTyped, OneMoves DEF FailTask, LockMove
  <2> QED BY <2>1, <2>2
<1> QED BY <1>1, <1>2

(* The decision of validateTask is calm: it only ends a task. *)
LEMMA DecideTyped ==
    ASSUME Base, NEW t \in Tasks, NEW p \in Pendings, Decide(t, p)
    PROVE  task' \in NextRows /\ NextJobs
<1> DEFINE now == IF stillInReview(t) THEN "done" ELSE task[t].state
<1>1. now \in TaskStates \cup {"none"} BY TaskFields DEF TaskStates
<1>2. task' = [task EXCEPT ![t] = Row(t, now, p, task[t].session)] BY DEF Decide
<1>3. task' \in NextRows
  <2>1. May(t, now) BY MayStates
  <2> QED BY <1>1, <1>2, <2>1, RowTyped, TaskFields
<1>4. <<t, "accept">> \in Jobs BY JobsOf
<1>5. NextJobs
  <2>1. CASE Releasable(t) /\ now \notin LiveStates BY <1>4, <2>1, ReleaseTyped DEF Decide
  <2>2. CASE ~(Releasable(t) /\ now \notin LiveStates)
    BY <1>4, <2>2, AtTyped, OneMoves DEF Decide, LockMove
  <2> QED BY <2>1, <2>2
<1> QED BY <1>3, <1>5

(* Queueing a job on a machine is calm. *)
LEMMA QueueTyped ==
    ASSUME Base, NEW j \in Jobs, NEW w \in Workers, NEW pc \in FreeSteps,
           job' = [job EXCEPT ![j] = At(pc, w)], LockMove(j)
    PROVE  NextJobs
BY AtTyped, OneMoves

(* What cancelTask does once the session is killed is calm. *)
LEMMA DropNextTyped ==
    ASSUME Base, NEW t \in Tasks, DropNext(t, <<t, "drop">>)
    PROVE  task' \in NextRows /\ NextJobs
<1> DEFINE j == <<t, "drop">>
           w == task[t].worker
<1>0. j \in Jobs BY JobsOf
<1>1. CASE DropCommand /\ w # NoWorker
  <2>1. /\ job' = [job EXCEPT ![j] = At("wakeQ", w)] /\ poolLock' = Enter(w, j)
        /\ task' = [task EXCEPT ![t].pending = IF job[j].pc = "idle" THEN "dropping" ELSE @]
    BY <1>1 DEF DropNext
  <2>2. w \in Workers BY <1>1, TaskFields DEF Refs
  <2>3. LockMove(j) BY <1>0, <2>1, <2>2 DEF LockMove
  <2>4. NextJobs BY <1>0, <2>1, <2>2, <2>3, QueueTyped DEF FreeSteps, Steps, Locked, Allocating
  <2>5. task' = [task EXCEPT ![t].pending =
                    IF job[j].pc = "idle" THEN "dropping" ELSE task[t].pending]
    BY <2>1, Quiet DEF TaskRows
  <2>6. task' \in NextRows BY <2>5, RowTyped, TaskFields DEF Pendings
  <2> QED BY <2>4, <2>6
<1>2. CASE ~(DropCommand /\ w # NoWorker) BY <1>0, <1>2, FailTyped DEF DropNext
<1> QED BY <1>1, <1>2

(* validateTask and cancelTask are calm, whatever their commands return. *)
LEMMA DecisionSteps ==
    ASSUME Base, NEW t \in Tasks
    PROVE  /\ validateTask(t) => Calm
           /\ AcceptRan(t) => Calm
           /\ cancelTask(t) => Calm
           /\ DropKill(t) => Calm
           /\ DropRan(t) => Calm
           /\ ReleaseResume(t) => Calm
<1>1. ASSUME validateTask(t) PROVE Calm
  <2> DEFINE j == <<t, "accept">>
             w == task[t].worker
  <2>0. j \in Jobs BY JobsOf
  <2>1. CASE ~AcceptCommand
    BY <1>1, <2>1, DecideTyped, Quiet, Assembled DEF validateTask, Pendings
  <2>2. CASE AcceptCommand
    <3>1. task' = [task EXCEPT ![t].pending = "accepting"] BY <1>1, <2>2 DEF validateTask
    <3>2. task' \in NextRows BY <3>1, RowTyped DEF Pendings
    <3>3. CASE w = NoWorker
      <4>1. job' = [job EXCEPT ![j] = Now(j, "failed")] /\ UNCHANGED poolLock
        BY <1>1, <2>2, <3>3 DEF validateTask
      <4>2. NextJobs BY <2>0, <4>1, NowTyped, OneMoves DEF Nowhere, Allocating, LockMove
      <4> QED BY <1>1, <3>2, <4>2, Quiet, Assembled DEF validateTask
    <3>4. CASE w # NoWorker
      <4>1. job' = [job EXCEPT ![j] = At("wakeQ", w)] /\ poolLock' = Enter(w, j)
        BY <1>1, <2>2, <3>4 DEF validateTask
      <4>2. w \in Workers BY <3>4, TaskFields DEF Refs
      <4>3. LockMove(j) BY <2>0, <4>1, <4>2 DEF LockMove
      <4>4. NextJobs BY <2>0, <4>1, <4>2, <4>3, QueueTyped DEF FreeSteps, Steps, Locked, Allocating
      <4> QED BY <1>1, <3>2, <4>4, Quiet, Assembled DEF validateTask
    <3> QED BY <3>3, <3>4
  <2> QED BY <2>1, <2>2
<1>2. ASSUME AcceptRan(t) PROVE Calm
  <2> DEFINE j == <<t, "accept">>
             p == cleared(t, "accepting")
  <2>0. j \in Jobs BY JobsOf
  <2>1. p \in Pendings BY TaskFields DEF cleared, Pendings
  <2>2. CASE Decide(t, p)
    BY <1>2, <2>1, <2>2, DecideTyped, Quiet, Assembled DEF AcceptRan
  <2>3. CASE /\ task' = [task EXCEPT ![t].pending = p]
             /\ job' = [job EXCEPT ![j] = Idle]
             /\ UNCHANGED poolLock
    <3>1. task' \in NextRows BY <2>1, <2>3, RowTyped
    <3>2. NextJobs BY <2>0, <2>3, AtTyped, OneMoves DEF LockMove
    <3> QED BY <1>2, <3>1, <3>2, Quiet, Assembled DEF AcceptRan
  <2> QED BY <1>2, <2>2, <2>3 DEF AcceptRan
<1>3. ASSUME cancelTask(t) PROVE Calm
  <2> DEFINE j == <<t, "drop">>
  <2>0. j \in Jobs BY JobsOf
  <2>1. CASE task[t].session = 0
    BY <1>3, <2>1, DropNextTyped, Quiet, Assembled DEF cancelTask
  <2>2. CASE task[t].session # 0
    <3>1. /\ task' = [task EXCEPT ![t].pending = "dropping"]
          /\ job' = [job EXCEPT ![j] = Step("kill", NoWorker, task[t].session, "")]
          /\ UNCHANGED poolLock
      BY <1>3, <2>2 DEF cancelTask
    <3>2. task' \in NextRows BY <3>1, RowTyped DEF Pendings
    <3>3. Step("kill", NoWorker, task[t].session, "") \in FreeRow
      BY TaskFields, StepTyped DEF Nowhere, Allocating
    <3>4. NextJobs BY <2>0, <3>1, <3>3, OneMoves DEF LockMove
    <3> QED BY <1>3, <3>2, <3>4, Quiet, Assembled DEF cancelTask
  <2> QED BY <2>1, <2>2
<1>4. ASSUME DropKill(t) PROVE Calm
  <2>1. task' \in NextRows /\ NextJobs BY <1>4, DropNextTyped DEF DropKill
  <2>2. Killed(t, job[<<t, "drop">>].seen) \in SUBSET alive BY DEF Killed
  <2>3. Agents' BY <1>4, <2>2, SurviveTyped DEF DropKill
  <2> QED BY <1>4, <2>1, <2>3, Quiet, Assembled DEF DropKill
<1>5. ASSUME DropRan(t) PROVE Calm
  <2>1. <<t, "drop">> \in Jobs BY JobsOf
  <2>2. task' \in NextRows /\ NextJobs BY <1>5, <2>1, FailTyped DEF DropRan
  <2> QED BY <1>5, <2>2, Quiet, Assembled DEF DropRan
<1>6. ASSUME ReleaseResume(t) PROVE Calm
  <2> DEFINE j == <<t, "release">>
             w == task[t].worker
  <2>0. j \in Jobs BY JobsOf
  <2>1. CASE w # NoWorker /\ ~isLive(t) /\ ~heldByLiveTask(w, NoTask)
    <3>1. job' = [job EXCEPT ![j] = At("tidyQ", w)] /\ poolLock' = Enter(w, j)
      BY <1>6, <2>1 DEF ReleaseResume
    <3>2. w \in Workers BY <2>1, TaskFields DEF Refs
    <3>3. LockMove(j) BY <2>0, <3>1, <3>2 DEF LockMove
    <3>4. NextJobs BY <2>0, <3>1, <3>2, <3>3, QueueTyped DEF FreeSteps, Steps, Locked, Allocating
    <3> QED BY <1>6, <3>4, Quiet, Assembled DEF ReleaseResume
  <2>2. CASE ~(w # NoWorker /\ ~isLive(t) /\ ~heldByLiveTask(w, NoTask))
    <3>1. job' = [job EXCEPT ![j] = Idle] /\ UNCHANGED poolLock
      BY <1>6, <2>2 DEF ReleaseResume
    <3>2. NextJobs BY <2>0, <3>1, AtTyped, OneMoves DEF LockMove
    <3> QED BY <1>6, <3>2, Quiet, Assembled DEF ReleaseResume
  <2> QED BY <2>1, <2>2
<1> QED BY <1>1, <1>2, <1>3, <1>4, <1>5, <1>6

(* A job's own failure is calm (the catch of each async function). *)
LEMMA FailureSteps ==
    ASSUME Base, NEW j \in Jobs, JobFails(j)
    PROVE  Calm
<1> DEFINE t == j[1]
<1>0. t \in Tasks BY JobNames
<1>1. CASE j[2] \in {"run", "drop"}
  <2>1. task' \in NextRows /\ NextJobs BY <1>0, <1>1, FailTyped DEF JobFails
  <2> QED BY <2>1, Quiet, Assembled DEF JobFails
<1>2. CASE j[2] \in {"accept", "reply"}
  <2> DEFINE p == cleared(t, IF j[2] = "accept" THEN "accepting" ELSE "replying")
  <2>1. /\ task' = [task EXCEPT ![t].pending = p]
        /\ job' = [job EXCEPT ![j] = Idle]
        /\ UNCHANGED poolLock
    BY <1>2 DEF JobFails
  <2>2. p \in Pendings BY <1>0, TaskFields DEF cleared, Pendings
  <2>3. task' \in NextRows BY <1>0, <2>1, <2>2, RowTyped
  <2>4. NextJobs BY <2>1, AtTyped, OneMoves DEF LockMove
  <2> QED BY <2>3, <2>4, Quiet, Assembled DEF JobFails
<1>3. CASE j[2] \notin {"run", "drop", "accept", "reply"}
  <2>1. job' = [job EXCEPT ![j] = Idle] /\ UNCHANGED <<task, poolLock>> BY <1>3 DEF JobFails
  <2>2. NextJobs BY <2>1, AtTyped, OneMoves DEF LockMove
  <2> QED BY <2>1, <2>2, Quiet, Assembled DEF JobFails
<1> QED BY <1>1, <1>2, <1>3

(* followUpTask is calm, but for the live reply that lands. *)
LEMMA ReplySteps ==
    ASSUME Base, NEW t \in Tasks
    PROVE  /\ ReplyRecord(t) => Calm
           /\ followUpLive(t) => Calm
           /\ LiveSend(t) => Calm
           /\ LiveRecord(t) => Answering(t)
           /\ followUpTask(t) => Calm
<1>1. ASSUME ReplyRecord(t) PROVE Calm
  <2> DEFINE j == <<t, "reply">>
             p == cleared(t, "replying")
  <2>0. j \in Jobs BY JobsOf
  <2>1. p \in Pendings BY TaskFields DEF cleared, Pendings
  <2>2. task' = [task EXCEPT ![t] =
           IF stillInReview(t) THEN Row(t, "running", p, job[j].seen)
           ELSE Row(t, task[t].state, p, task[t].session)]
    BY <1>1 DEF ReplyRecord
  <2>3. task' \in NextRows
    <3>1. CASE stillInReview(t)
      <4>1. task' = [task EXCEPT ![t] = Row(t, "running", p, job[j].seen)] BY <2>2, <3>1
      <4>2. isLive(t) BY <3>1 DEF stillInReview, isLive, LiveStates
      <4> QED BY <2>0, <2>1, <4>1, <4>2, RowRuns, JobFields
    <3>2. CASE ~stillInReview(t)
      <4>1. task' = [task EXCEPT ![t] = Row(t, task[t].state, p, task[t].session)] BY <2>2, <3>2
      <4> QED BY <2>1, <4>1, RowTyped, TaskFields, MayStates
    <3> QED BY <3>1, <3>2
  <2>4. NextJobs BY <1>1, <2>0, AtTyped, OneMoves DEF ReplyRecord, LockMove
  <2>5. unread' \subseteq unread BY <1>1 DEF ReplyRecord
  <2>6. Agents' BY <1>1, <2>5, Quiet DEF ReplyRecord, Prompt, Agents
  <2> QED BY <1>1, <2>3, <2>4, <2>6, Quiet, Assembled DEF ReplyRecord
<1>2. ASSUME followUpLive(t) PROVE Calm
  <2> DEFINE j == <<t, "live">>
             pc == IF task[t].state = "running" THEN "interject" ELSE "answer"
  <2>0. j \in Jobs BY JobsOf
  <2>1. job' = [job EXCEPT ![j] = Step(pc, task[t].worker, task[t].session, "")] /\ UNCHANGED poolLock
    BY <1>2 DEF followUpLive
  <2>2. task[t].worker \in Workers /\ task[t].session \in 0..MaxSessions
    BY <1>2, TaskFields DEF followUpLive, isSessionAlive, Refs
  <2>3. Step(pc, task[t].worker, task[t].session, "") \in FreeRow
    BY <2>2, StepTyped DEF FreeSteps, Steps, Locked, Allocating
  <2>4. NextJobs BY <2>0, <2>1, <2>3, OneMoves DEF LockMove
  <2> QED BY <1>2, <2>4, Quiet, Assembled DEF followUpLive
<1>3. ASSUME LiveSend(t) PROVE Calm
  <2> DEFINE j == <<t, "live">>
  <2>0. j \in Jobs BY JobsOf
  <2>1. job[j].pc \notin Nowhere BY <1>3 DEF LiveSend, Nowhere
  <2>2. Now(j, "answered") \in FreeRow BY <2>0, <2>1, NowTyped DEF FreeSteps, Steps, Locked, Allocating
  <2>3. PICK r \in FreeRow : job' = [job EXCEPT ![j] = r] BY <1>3, <2>2, AtTyped DEF LiveSend
  <2>4. NextJobs BY <1>3, <2>0, <2>3, OneMoves DEF LiveSend, LockMove
  <2>5. NextNotes BY <1>3, Quiet DEF LiveSend, Noted, NextNotes
  <2>6. turn' \subseteq turn \cup alive /\ waiting' \subseteq waiting \cup alive
    BY <1>3 DEF LiveSend
  <2>7. Agents' BY <1>3, <2>6, Quiet DEF LiveSend, Agents, agentRows
  <2> QED BY <1>3, <2>4, <2>5, <2>7, Quiet, Assembled DEF LiveSend
<1>4. ASSUME LiveRecord(t) PROVE Answering(t)
  <2>1. NextJobs BY <1>4, JobsOf, AtTyped, OneMoves DEF LiveRecord, LockMove
  <2>2. Noted' BY <1>4, Quiet DEF LiveRecord, Noted
  <2> QED BY <1>4, <2>1, <2>2, Quiet DEF LiveRecord, Answering
<1>5. ASSUME followUpTask(t) PROVE Calm
  <2> DEFINE j == <<t, "reply">>
             w == task[t].worker
  <2>0. j \in Jobs BY JobsOf
  <2>1. task' \in NextRows BY <1>5, RowTyped DEF followUpTask, Pendings
  <2>2. job' = [job EXCEPT ![j] = At("wakeQ", w)] /\ poolLock' = Enter(w, j)
    BY <1>5 DEF followUpTask
  <2>3. w \in Workers BY <1>5, TaskFields DEF followUpTask, Refs
  <2>4. LockMove(j) BY <2>0, <2>2, <2>3 DEF LockMove
  <2>5. NextJobs BY <2>0, <2>2, <2>3, <2>4, QueueTyped DEF FreeSteps, Steps, Locked, Allocating
  <2>6. NextNotes BY <1>5, Quiet DEF followUpTask, Noted, NextNotes
  <2> QED BY <1>5, <2>1, <2>5, <2>6, Quiet, Assembled DEF followUpTask
<1> QED BY <1>1, <1>2, <1>3, <1>4, <1>5

(* parkTask, keepTaskAwake, wakeTask, parkDueTasks and the rebuild half of *)
(* releaseTaskWorker are calm.                                             *)
LEMMA ParkingSteps ==
    ASSUME Base, NEW t \in Tasks
    PROVE  /\ handPark(t) => Calm
           /\ HandCheck(t) => Calm
           /\ keepTaskAwake(t) => Calm
           /\ wakeTask(t) => Calm
           /\ parkDue(t) => Calm
           /\ ReleaseTidy(t) => Calm
<1>1. ASSUME handPark(t) PROVE Calm
  <2>1. task[t].worker \in Workers BY <1>1, TaskFields DEF handPark, Refs
  <2>2. NextJobs
    BY <1>1, <2>1, JobsOf, QueueTyped DEF handPark, LockMove, FreeSteps, Steps, Locked, Allocating
  <2> QED BY <1>1, <2>2, Quiet, Assembled DEF handPark
<1>2. ASSUME HandCheck(t) PROVE Calm
  <2> DEFINE j == <<t, "hand">>
             w == job[j].at
  <2>0. j \in Jobs BY JobsOf
  <2>1. job[j].pc \notin Nowhere /\ w \in Workers BY <1>2, <2>0, JobFields DEF HandCheck, Nowhere
  <2>2. Now(j, "parkQ") \in FreeRow BY <2>0, <2>1, NowTyped DEF FreeSteps, Steps, Locked, Allocating
  <2>3. PICK r \in FreeRow : job' = [job EXCEPT ![j] = r] BY <1>2, <2>2, AtTyped DEF HandCheck
  <2>4. LockMove(j) BY <1>2, <2>0, <2>1 DEF HandCheck, LockMove
  <2>5. NextJobs BY <2>0, <2>3, <2>4, OneMoves
  <2>6. NextNotes BY <1>2, Quiet DEF HandCheck, Noted, NextNotes
  <2> QED BY <1>2, <2>5, <2>6, Quiet, Assembled DEF HandCheck
<1>3. ASSUME keepTaskAwake(t) PROVE Calm
  <2>1. NextNotes BY <1>3, Quiet DEF keepTaskAwake, Noted, NextNotes
  <2> QED BY <1>3, <2>1, Quiet, Assembled DEF keepTaskAwake
<1>4. ASSUME wakeTask(t) PROVE Calm
  <2> DEFINE j == <<t, "wake">>
             w == task[t].worker
  <2>0. j \in Jobs BY JobsOf
  <2>1. job' = [job EXCEPT ![j] = At("wakeQ", w)] /\ poolLock' = Enter(w, j)
    BY <1>4 DEF wakeTask
  <2>2. w \in Workers BY <1>4, TaskFields DEF wakeTask, Refs
  <2>3. LockMove(j) BY <2>0, <2>1, <2>2 DEF LockMove
  <2>4. NextJobs BY <2>0, <2>1, <2>2, <2>3, QueueTyped DEF FreeSteps, Steps, Locked, Allocating
  <2> QED BY <1>4, <2>4, Quiet, Assembled DEF wakeTask
<1>5. ASSUME parkDue(t) PROVE Calm
  <2> DEFINE j == <<t, "due">>
             w == task[t].worker
  <2>0. j \in Jobs BY JobsOf
  <2>1. NextJobs
    <3>1. CASE w = NoWorker BY <1>5, <3>1, Quiet DEF parkDue
    <3>2. CASE w # NoWorker
      <4>1. job' = [job EXCEPT ![j] = At("parkQ", w)] /\ poolLock' = Enter(w, j)
        BY <1>5, <3>2 DEF parkDue
      <4>2. w \in Workers BY <3>2, TaskFields DEF Refs
      <4>3. LockMove(j) BY <2>0, <4>1, <4>2 DEF LockMove
      <4> QED BY <2>0, <4>1, <4>2, <4>3, QueueTyped DEF FreeSteps, Steps, Locked, Allocating
    <3> QED BY <3>1, <3>2
  <2>2. NextNotes BY <1>5, Quiet DEF parkDue, Noted, NextNotes
  <2> QED BY <1>5, <2>1, <2>2, Quiet, Assembled DEF parkDue
<1>6. ASSUME ReleaseTidy(t) PROVE Calm
  <2> DEFINE j == <<t, "release">>
             w == job[j].at
             tidy == /\ machine[w].outdated /\ machine[w].state \in {"ready", "stopped"}
                     /\ ~heldByLiveTask(w, NoTask)
  <2>0. j \in Jobs BY JobsOf
  <2>1. job[j].pc \notin Nowhere /\ w \in Workers BY <1>6, <2>0, JobFields DEF ReleaseTidy, Nowhere
  <2>2. Now(j, "wait") \in FreeRow /\ Now(j, "parkQ") \in FreeRow
    BY <2>0, <2>1, NowTyped DEF FreeSteps, Steps, Locked, Allocating
  <2>3. Holder(w, j) BY <1>6 DEF ReleaseTidy
  <2>4. CASE tidy
    <3>1. machine' = Rebuilt(w) /\ Survive(LeftAfter(w))
          /\ job' = [job EXCEPT ![j] = Now(j, "wait")] /\ poolLock' = Leave(w)
      BY <1>6, <2>4 DEF ReleaseTidy
    <3>2. LockMove(j) BY <2>1, <2>3, <3>1 DEF LockMove
    <3>3. NextJobs BY <2>0, <2>2, <3>1, <3>2, OneMoves
    <3>4. LeftAfter(w) \in SUBSET alive BY DEF LeftAfter
    <3>5. Agents' BY <1>6, <3>1, <3>4, SurviveTyped DEF ReleaseTidy
    <3>6. machine' \in NextMachines BY <2>1, <2>4, <3>1, MachineTyped
    <3> QED BY <1>6, <3>3, <3>5, <3>6, Quiet, Assembled DEF ReleaseTidy
  <2>5. CASE ~tidy
    <3>1. job' = [job EXCEPT ![j] = Now(j, "parkQ")] /\ poolLock' = LeaveAndEnter(w, j)
          /\ UNCHANGED machine /\ AgentsUnchanged
      BY <1>6, <2>5 DEF ReleaseTidy
    <3>2. LockMove(j) BY <2>1, <2>3, <3>1 DEF LockMove
    <3>3. NextJobs BY <2>0, <2>2, <3>1, <3>2, OneMoves
    <3>4. Agents' BY <1>6, <3>1, Quiet DEF ReleaseTidy, AgentsUnchanged, agentRows, agentVars
    <3> QED BY <1>6, <3>1, <3>3, <3>4, Quiet, Assembled DEF ReleaseTidy
  <2> QED BY <2>4, <2>5
<1> QED BY <1>1, <1>2, <1>3, <1>4, <1>5, <1>6

(* A park is calm until it stops its machine, and once it has. *)
LEMMA StoppingSteps ==
    ASSUME Base, NEW j \in Jobs
    PROVE  /\ ParkDecide(j) => Calm \/ Stopping(j)
           /\ StopDone(j) => Calm
           /\ StopFails(j) => Calm
<1> DEFINE w == job[j].at
<1>1. ASSUME ParkDecide(j) PROVE Calm \/ Stopping(j)
  <2>1. job[j].pc \notin Nowhere /\ w \in Workers /\ Holder(w, j)
    BY <1>1, JobFields DEF ParkDecide, Nowhere
  <2>2. CASE StillPark(j)
    <3> DEFINE r == Step("stopping", w, job[j].seen, machine[w].state)
    <3>1. /\ machine' = [machine EXCEPT ![w].state = "stopped"]
          /\ job' = [job EXCEPT ![j] = r]
          /\ UNCHANGED poolLock
      BY <1>1, <2>2 DEF ParkDecide
    <3>2. machine[w].state \in MachineStates \ Rowless
      <4>1. machine[w].state = "ready" \/ machine[w].box # "none" BY <2>2 DEF StillPark
      <4> QED BY <2>1, <4>1, MachineTyped DEF Rowless
    <3>3. r \in JobRow BY <2>1, <3>2, JobFields DEF Step, JobRow, Steps, Refs
    <3>4. r.pc \in Locked /\ r.at = w /\ r.pc = "stopping" BY DEF Step, Locked
    <3> HIDE DEF r
    <3>5. /\ JobsTyped'
          /\ \A t \in Tasks : job'[<<t, "run">>].pc \in Allocating => job[<<t, "run">>].pc \in Allocating
          /\ \A k \in Jobs \ {j} : job'[k] = job[k]
      BY <2>1, <3>1, <3>3, <3>4, HolderMoves
    <3>6. machine' \in NextMachines BY <2>1, <3>1, <3>2, MachineTyped DEF MachineStates, Rowless
    <3>7. job'[j] = r BY <3>1 DEF Base, JobRows
    <3>8. j[2] = "release" => ~heldByLiveTask(w, NoTask) BY <2>2 DEF StillPark
    <3>9. j[2] = "release" => \A u \in Tasks : isLive(u) => task[u].worker # w
      BY <3>8, NullsAssumption DEF heldByLiveTask
    <3>10. UNCHANGED task /\ NextNotes /\ Agents' BY <1>1, Quiet DEF ParkDecide
    <3> QED BY <2>1, <3>2, <3>4, <3>5, <3>6, <3>7, <3>9, <3>10 DEF Stopping, Rowless
  <2>3. CASE ~StillPark(j)
    <3>1. job' = [job EXCEPT ![j] = Idle] /\ poolLock' = Leave(w) /\ UNCHANGED machine
      BY <1>1, <2>3 DEF ParkDecide
    <3>2. NextJobs BY <2>1, <3>1, AtTyped, OneMoves DEF LockMove
    <3> QED BY <1>1, <3>1, <3>2, Quiet, Assembled DEF ParkDecide
  <2> QED BY <2>2, <2>3
<1>2. ASSUME job[j].pc = "stopping" PROVE w \in Workers /\ Holder(w, j)
  <2>1. w \in Workers BY <1>2, JobFields DEF Nowhere
  <2>2. Holder(w, j) BY <1>2 DEF Base, LockHeld, Locked
  <2> QED BY <2>1, <2>2
<1>3. ASSUME StopDone(j) PROVE Calm
  <2>1. w \in Workers /\ Holder(w, j) BY <1>2, <1>3 DEF StopDone
  <2>2. NextJobs BY <1>3, <2>1, AtTyped, OneMoves DEF StopDone, LockMove
  <2>3. machine' = [machine EXCEPT ![w].box =
                       IF machine[w].box = "up" THEN "down" ELSE machine[w].box]
    BY <1>3, <2>1, Quiet DEF StopDone, MachineRows
  <2>4. machine' \in NextMachines BY <2>1, <2>3, MachineTyped DEF Boxes
  <2>5. LeftAfter(w) \in SUBSET alive BY DEF LeftAfter
  <2>6. Agents' BY <1>3, <2>5, SurviveTyped DEF StopDone
  <2> QED BY <1>3, <2>2, <2>4, <2>6, Quiet, Assembled DEF StopDone
<1>4. ASSUME StopFails(j) PROVE Calm
  <2>1. w \in Workers /\ Holder(w, j) BY <1>2, <1>4 DEF StopFails
  <2>2. NextJobs BY <1>4, <2>1, AtTyped, OneMoves DEF StopFails, LockMove
  <2>3. machine' = [machine EXCEPT ![w].state =
                       IF machine[w].state = "deleted" THEN machine[w].state ELSE job[j].was]
    BY <1>4, <2>1, Quiet DEF StopFails, MachineRows
  <2>4. job[j].was \in MachineStates \ Rowless BY <1>4 DEF StopFails, Base, JobRows, JobRow
  <2>5. machine' \in NextMachines
    <3>1. CASE machine[w].state = "deleted"
      <4>1. machine' = machine BY <2>1, <2>3, <3>1, Quiet DEF MachineRow, MachineRows
      <4> QED BY <4>1, Quiet
    <3>2. CASE machine[w].state # "deleted" BY <2>1, <2>3, <2>4, <3>2, MachineTyped
    <3> QED BY <3>1, <3>2
  <2>6. Fault("stopfails") BY <1>4 DEF StopFails, Fault
  <2>7. NextNotes BY <1>4, <2>6, FaultTyped DEF StopFails
  <2> QED BY <1>4, <2>2, <2>5, <2>7, Quiet, Assembled DEF StopFails
<1> QED BY <1>1, <1>3, <1>4

-----------------------------------------------------------------------------
(* The guarded update of refreshTask moves a running task only. *)
LEMMA ConcludeTyped ==
    ASSUME Base, NEW t \in Tasks, NEW v \in TaskStates, Conclude(t, v)
    PROVE  task' \in NextRows /\ NextJobs /\ parkAt' \subseteq Tasks
<1> DEFINE j == <<t, "refresh">>
           w == task[t].worker
           moves == stillRunning(t) /\ v # "running"
           frees == moves /\ v = "failed" /\ Releasable(t)
           settles == moves /\ v = "in-review" /\ SettleFrom(job[j].at) /\ w # NoWorker
           parks == settles /\ ~DelayedPark /\ job[<<t, "settle">>].pc = "idle"
<1>0. j \in Jobs /\ <<t, "settle">> \in Jobs BY JobsOf
<1>1. task' \in NextRows
  <2>1. task' = [task EXCEPT ![t].state = IF moves THEN v ELSE task[t].state]
    BY Quiet DEF Conclude, TaskRows
  <2>2. May(t, IF moves THEN v ELSE task[t].state)
    BY MayStates DEF stillRunning, isLive, LiveStates
  <2> QED BY <2>1, <2>2, RowTyped
<1>2. parkAt' \subseteq Tasks BY DEF Conclude, Base, Noted, NextNotes
<1>3. NextJobs
  <2>1. CASE /\ frees
             /\ job' = [job EXCEPT ![j] = Idle, ![<<t, "release">>] = At("tidyQ", w)]
             /\ poolLock' = Enter(w, <<t, "release">>)
    BY <1>0, <2>1, ReleaseTyped
  <2>2. CASE /\ parks
             /\ job' = [job EXCEPT ![j] = Idle, ![<<t, "settle">>] = At("parkQ", w)]
             /\ poolLock' = Enter(w, <<t, "settle">>)
    <3>1. w \in Workers BY <2>2, TaskFields DEF Refs
    <3>2. At("parkQ", w) \in FreeRow BY <3>1, AtTyped DEF FreeSteps, Steps, Locked, Allocating
    <3>3. LockMove(j) BY <1>0, <2>2, <3>1 DEF LockMove
    <3> QED BY <1>0, <2>2, <3>2, <3>3, AtTyped, TwoMove
  <2>3. CASE job' = [job EXCEPT ![j] = Idle] /\ UNCHANGED poolLock
    BY <1>0, <2>3, AtTyped, OneMoves DEF LockMove
  <2> QED BY <2>1, <2>2, <2>3 DEF Conclude
<1> QED BY <1>1, <1>2, <1>3

(* refreshTask is calm, whatever it read before its awaits. *)
LEMMA RefreshSteps ==
    ASSUME Base, NEW t \in Tasks
    PROVE  /\ RefreshBegin(t) => Calm
           /\ \A reads \in BOOLEAN : refreshTask(t, reads) => Calm
<1> DEFINE j == <<t, "refresh">>
<1>0. j \in Jobs BY JobsOf
<1>1. ASSUME RefreshBegin(t) PROVE Calm
  <2>1. task[t].worker \in Workers /\ task[t].session \in 0..MaxSessions
    BY <1>1, TaskFields DEF RefreshBegin, Refs
  <2>2. Step("derive", task[t].worker, task[t].session, "") \in FreeRow
    BY <2>1, StepTyped DEF FreeSteps, Steps, Locked, Allocating
  <2>3. NextJobs BY <1>0, <1>1, <2>2, OneMoves DEF RefreshBegin, LockMove
  <2> QED BY <1>1, <2>3, Quiet, Assembled DEF RefreshBegin
<1>2. ASSUME NEW reads \in BOOLEAN, refreshTask(t, reads) PROVE Calm
  <2> DEFINE w == job[j].at
  <2>1. w \in Workers BY <1>0, <1>2, JobFields DEF refreshTask, Nowhere
  <2>2. PICK over \in BOOLEAN : \E v \in Verdicts(t, w, job[j].seen, over) : Conclude(t, v)
    BY <1>2 DEF refreshTask
  <2>3. PICK v \in Verdicts(t, w, job[j].seen, over) : Conclude(t, v) BY <2>2
  <2>8. v \in TaskStates BY <2>3 DEF Verdicts, TaskStates
  <2>4. task' \in NextRows /\ NextJobs /\ parkAt' \subseteq Tasks
    BY <2>3, <2>8, ConcludeTyped
  <2>5. handed' \subseteq Tasks /\ unread' \subseteq unread
    BY <1>2 DEF refreshTask, Base, Noted, NextNotes
  <2>6. NextNotes BY <1>2, <2>4, <2>5, Quiet DEF refreshTask, Noted, NextNotes
  <2>7. Agents' BY <1>2, <2>5, Quiet DEF refreshTask, AgentsUnchanged, Agents
  <2> QED BY <1>2, <2>4, <2>6, <2>7, Quiet, Assembled DEF refreshTask
<1> QED BY <1>1, <1>2

-----------------------------------------------------------------------------
(* Agents ending their turn, containers coming up and polls are calm. *)
LEMMA WorldSteps ==
    ASSUME Base, World
    PROVE  Calm
<1>1. ASSUME NEW s \in Sessions, TurnEnds(s) PROVE Calm
  <2>1. Agents' BY <1>1, Quiet DEF TurnEnds, Agents
  <2> QED BY <1>1, <2>1, Quiet, Assembled DEF TurnEnds
<1>2. ASSUME NEW s \in Sessions, SessionTimesOut(s) PROVE Calm
  <2>1. Agents' BY <1>2, SurviveTyped DEF SessionTimesOut
  <2> QED BY <1>2, <2>1, Quiet, Assembled DEF SessionTimesOut
<1>3. ASSUME NEW w \in Workers, Built(w) PROVE Calm
  <2>1. machine' \in NextMachines BY <1>3, MachineTyped DEF Built, Boxes
  <2> QED BY <1>3, <2>1, Quiet, Assembled DEF Built
<1>4. ASSUME NEW w \in Workers, BecomesReady(w) PROVE Calm
  <2>1. machine' \in NextMachines BY <1>4, MachineTyped DEF BecomesReady, MachineStates, Rowless
  <2> QED BY <1>4, <2>1, Quiet, Assembled DEF BecomesReady
<1>5. ASSUME NEW w \in Workers, Poll(w) PROVE Calm
  <2>1. PICK s \in DownAs(w) : machine[w].state # "deleted" /\ machine' = [machine EXCEPT ![w].state = s]
    BY <1>5 DEF Poll, Settled
  <2>2. s \in MachineStates \ Rowless BY DEF DownAs, MachineStates, Rowless
  <2>3. machine' \in NextMachines BY <2>1, <2>2, MachineTyped
  <2> QED BY <1>5, <2>3, Quiet, Assembled DEF Poll
<1> QED BY <1>1, <1>2, <1>3, <1>4, <1>5 DEF World

(* Every fault but a restart is calm; deleteWorker frees its holders. *)
LEMMA FaultSteps ==
    ASSUME Base
    PROVE  /\ \A s \in Sessions : SessionDies(s) => Calm
           /\ \A w \in Workers : SetupFails(w) => Calm
           /\ \A w \in Workers : MachineFalls(w) => Calm
           /\ \A w \in Workers : MachinePruned(w) => Calm
           /\ \A w \in Workers : deleteWorker(w) => Calm
           /\ projectEdited => Calm
<1>0. \A w \in Workers : LeftAfter(w) \in SUBSET alive BY DEF LeftAfter
<1>1. ASSUME NEW s \in Sessions, SessionDies(s) PROVE Calm
  <2>1. NextNotes BY <1>1, FaultTyped DEF SessionDies
  <2>2. Agents' BY <1>1, SurviveTyped DEF SessionDies
  <2> QED BY <1>1, <2>1, <2>2, Quiet, Assembled DEF SessionDies
<1>2. ASSUME NEW w \in Workers, SetupFails(w) PROVE Calm
  <2>1. NextNotes BY <1>2, FaultTyped DEF SetupFails
  <2>2. machine' \in NextMachines BY <1>2, MachineTyped DEF SetupFails, MachineStates, Boxes, Rowless
  <2> QED BY <1>2, <2>1, <2>2, Quiet, Assembled DEF SetupFails
<1>3. ASSUME NEW w \in Workers, MachineFalls(w) PROVE Calm
  <2>1. NextNotes BY <1>3, FaultTyped DEF MachineFalls
  <2>2. machine' \in NextMachines BY <1>3, MachineTyped DEF MachineFalls, Boxes
  <2>3. Agents' BY <1>0, <1>3, SurviveTyped DEF MachineFalls
  <2> QED BY <1>3, <2>1, <2>2, <2>3, Quiet, Assembled DEF MachineFalls
<1>4. ASSUME NEW w \in Workers, MachinePruned(w) PROVE Calm
  <2>1. NextNotes BY <1>4, FaultTyped DEF MachinePruned
  <2>2. machine' \in NextMachines BY <1>4, MachineTyped DEF MachinePruned, Boxes
  <2> QED BY <1>4, <2>1, <2>2, Quiet, Assembled DEF MachinePruned
<1>5. ASSUME NEW w \in Workers, deleteWorker(w) PROVE Calm
  <2>1. NextNotes BY <1>5, FaultTyped DEF deleteWorker
  <2>2. machine' \in NextMachines BY <1>5, MachineTyped DEF deleteWorker, MachineStates, Boxes
  <2>3. Agents' BY <1>0, <1>5, SurviveTyped DEF deleteWorker
  <2>4. ASSUME NEW t \in Tasks PROVE task'[t] \in NextRow(t)
    <3>1. task'[t] = [state |-> task[t].state, pending |-> task[t].pending, session |-> task[t].session,
                      worker |-> IF task[t].worker = w THEN NoWorker ELSE task[t].worker]
      BY <1>5 DEF deleteWorker
    <3> QED BY <3>1, TaskFields DEF NextRow, TaskRow, isLive, Refs
  <2>5. task' \in [Tasks -> TaskRow] BY <1>5, <2>4 DEF deleteWorker, NextRow
  <2>6. task' \in NextRows BY <2>4, <2>5 DEF NextRows, TaskRows
  <2> QED BY <1>5, <2>1, <2>2, <2>3, <2>6, Quiet, Assembled DEF deleteWorker
<1>6. ASSUME projectEdited PROVE Calm
  <2>1. NextNotes BY <1>6, FaultTyped DEF projectEdited
  <2>2. machine' \in NextMachines
    BY <1>6, Quiet DEF projectEdited, MachineRow, MachineRows, NextMachines, Base, Bare
  <2> QED BY <1>6, <2>1, <2>2, Quiet, Assembled DEF projectEdited
<1> QED BY <1>1, <1>2, <1>3, <1>4, <1>5, <1>6

(* A restart is calm: recoverInterruptedTasks puts a run back to allocating *)
(* only if it has no machine.                                               *)
LEMMA RestartStep ==
    ASSUME Base, Restart
    PROVE  Calm
<1> DEFINE dropped == {t \in Tasks : task[t].pending = "dropping" /\ isLive(t)}
           resumed == {t \in Tasks : interrupted(t)} \ dropped
           stopping == {job[j].at : j \in {i \in Jobs : job[i].pc = "stopping"}}
           waking == {job[j].at : j \in {i \in Jobs : job[i].pc = "waking"}}
<1>1. task' \in NextRows
  <2>1. task' = [t \in Tasks |-> Row(t, IF t \in dropped THEN "failed" ELSE task[t].state,
                                     recovered(t), task[t].session)]
    BY DEF Restart
  <2>2. ASSUME NEW t \in Tasks
        PROVE Row(t, IF t \in dropped THEN "failed" ELSE task[t].state, recovered(t), task[t].session)
                \in NextRow(t)
    BY TaskFields DEF Row, NextRow, TaskRow, isLive, LiveStates, TaskStates, Pendings, recovered
  <2>3. \A t \in Tasks : NextRow(t) \subseteq TaskRow BY DEF NextRow
  <2> HIDE DEF dropped
  <2> QED BY <2>1, <2>2, <2>3 DEF NextRows, TaskRows
<1>2. machine' \in NextMachines
  <2> DEFINE box(w, started) ==
        CASE machine[w].box = "up" /\ w \in stopping -> "down"
          [] machine[w].box = "down" /\ w \in started -> "up"
          [] machine[w].box = "building" -> "none"
          [] OTHER -> machine[w].box
  <2>1. PICK started \in SUBSET waking :
          machine' = [w \in Workers |-> Box(w, machine[w].state, box(w, started))]
    BY DEF Restart
  <2>2. ASSUME NEW w \in Workers
        PROVE /\ Box(w, machine[w].state, box(w, started)) \in MachineRow
              /\ Box(w, machine[w].state, box(w, started)).state = machine[w].state
              /\ machine[w].state \in Rowless => Box(w, machine[w].state, box(w, started)).box = "none"
    <3>1. box(w, started) \in Boxes BY MachineTyped DEF Boxes
    <3>2. machine[w].state \in MachineStates /\ machine[w].outdated \in BOOLEAN
      BY DEF Base, MachineRows, MachineRow
    <3>3. machine[w].state \in Rowless => box(w, started) = "none" BY DEF Base, Bare
    <3> HIDE DEF box
    <3> QED BY <3>1, <3>2, <3>3 DEF Box, MachineRow
  <2> HIDE DEF box
  <2> QED BY <2>1, <2>2 DEF MachineRows, NextMachines
<1>3. /\ job' \in JobRows /\ \A j \in Jobs : job'[j].pc \notin Locked
      /\ \A t \in Tasks : job'[<<t, "run">>].pc \in Allocating =>
                             task[t].state = "queued" /\ task[t].worker = NoWorker
  <2> DEFINE row(j) == CASE j[2] = "run" /\ j[1] \in resumed -> At(resumesAt(j[1]), NoWorker)
                         [] j[2] = "release" /\ j[1] \in dropped -> At("resume", NoWorker)
                         [] OTHER -> Idle
  <2>1. job' = [j \in Jobs |-> row(j)] BY DEF Restart
  <2>2. ASSUME NEW j \in Jobs
        PROVE /\ row(j) \in JobRow /\ row(j).pc \notin Locked
              /\ row(j).pc \in Allocating => j[1] \in resumed /\ resumesAt(j[1]) = "pick"
    <3>1. \A t \in Tasks : resumesAt(t) \in {"pick", "resume"} BY DEF resumesAt
    <3>2. /\ At("resume", NoWorker) \in JobRow /\ At("resume", NoWorker).pc = "resume"
          /\ At("pick", NoWorker) \in JobRow /\ At("pick", NoWorker).pc = "pick"
          /\ Idle \in JobRow /\ Idle.pc = "idle"
      <4>1. 0 \in 0..MaxSessions BY BoundsAssumption
      <4> QED BY <4>1, StepTyped DEF Nowhere, At, Idle, Step
    <3>3. "idle" \notin Allocating \cup Locked /\ "resume" \notin Allocating \cup Locked
          /\ "pick" \notin Locked
      BY DEF Allocating, Locked
    <3> HIDE DEF dropped, resumed
    <3> QED BY <3>1, <3>2, <3>3, JobNames
  <2>3. \A t \in Tasks : t \in resumed /\ resumesAt(t) = "pick" =>
                          task[t].state = "queued" /\ task[t].worker = NoWorker
    BY DEF resumesAt, interrupted
  <2> HIDE DEF row, resumed
  <2>4. \A j \in Jobs : job'[j] = row(j) BY <2>1
  <2>5. ASSUME NEW t \in Tasks, job'[<<t, "run">>].pc \in Allocating
        PROVE  task[t].state = "queued" /\ task[t].worker = NoWorker
    BY <2>2, <2>3, <2>4, <2>5, JobsOf
  <2> QED BY <2>1, <2>2, <2>4, <2>5 DEF JobRows
<1>4. poolLock' \in LockRows BY DEF Restart, LockRows
<1>5. NextJobs
  <2>1. JobsTyped' BY <1>3, <1>4 DEF JobsTyped, LockHeld
  <2>2. ASSUME NEW t \in Tasks PROVE job'[<<t, "release">>].pc # "stopping"
    BY <1>3, JobsOf DEF Locked
  <2>3. ASSUME NEW t \in Tasks, job'[<<t, "run">>].pc \in Allocating
        PROVE task[t].worker = NoWorker /\ task'[t].state # "none"
    <3>1. task[t].state = "queued" /\ task[t].worker = NoWorker BY <1>3, <2>3
    <3> QED BY <1>1, <3>1 DEF NextRows, NextRow
  <2> QED BY <2>1, <2>2, <2>3 DEF NextJobs
<1>6. NextNotes
  <2>1. Fault("restart") /\ UNCHANGED <<revived, handed, parkAt, older>> BY DEF Restart, notes
  <2>2. faults' \in 0..MaxFaults
    <3>1. faults \in 0..MaxFaults /\ faults < MaxFaults /\ faults' = faults + 1
      BY <2>1 DEF Fault, Base, Noted, NextNotes
    <3> QED BY <3>1, BoundsAssumption
  <2>3. cands' \in [Tasks -> SUBSET Workers] BY DEF Restart, pool
  <2> QED BY <2>1, <2>2, <2>3 DEF Base, Noted, NextNotes
<1>7. Agents'
  <2> DEFINE left == {s \in alive : task[s[1]].worker \notin stopping}
  <2>1. Survive(left) /\ UNCHANGED agentRows BY DEF Restart, agentRows
  <2>2. left \in SUBSET alive OBVIOUS
  <2> HIDE DEF left
  <2> QED BY <2>1, <2>2, SurviveTyped
<1> QED BY <1>1, <1>2, <1>5, <1>6, <1>7, Assembled

-----------------------------------------------------------------------------
(* The inductive invariant: the core, the machines named by a task or by a *)
(* stop exist, and the two properties themselves.                          *)
Inv == Base /\ HeldExists /\ StopExists /\ ExclusiveHold /\ ReleaseSparesNextTask

(* It holds before anything was created. *)
LEMMA Initially == Init => Inv
<1> SUFFICES ASSUME Init PROVE Inv OBVIOUS
<1>1. task \in TaskRows /\ \A t \in Tasks : task[t].state = "none" /\ task[t].worker = NoWorker
  BY BoundsAssumption DEF Init, TaskRows, TaskRow, Pendings, Refs
<1>2. machine \in MachineRows /\ Bare
  BY DEF Init, MachineRows, MachineRow, MachineStates, Boxes, Bare, Rowless
<1>3. job \in JobRows /\ \A j \in Jobs : job[j] = Idle
  <2>1. Idle \in JobRow BY AtTyped DEF FreeRow
  <2>2. job = [j \in Jobs |-> Idle] BY DEF Init
  <2> QED BY <2>1, <2>2 DEF JobRows
<1>4. \A j \in Jobs : job[j].pc = "idle"
  <2>1. Idle.pc = "idle" BY DEF Idle, At, Step
  <2> QED BY <1>3, <2>1
<1>5. poolLock \in LockRows BY DEF Init, LockRows
<1>6. Noted BY BoundsAssumption DEF Init, Noted
<1>7. Agents BY BoundsAssumption DEF Init, Agents
<1>8. LockHeld BY <1>4 DEF LockHeld, Locked
<1>9. Unplaced BY <1>1, <1>4, JobsOf DEF Unplaced, Allocating
<1>10. HeldExists BY <1>1, NullsAssumption DEF HeldExists
<1>11. StopExists /\ ReleaseSparesNextTask
  BY <1>4, JobsOf DEF StopExists, ReleaseSparesNextTask
<1>12. ExclusiveHold BY <1>1 DEF ExclusiveHold
<1> QED BY <1>1, <1>2, <1>3, <1>5, <1>6, <1>7, <1>8, <1>9, <1>10, <1>11, <1>12 DEF Inv, Base

(* Calm rows, task by task: a holder after the step was one before it. *)
LEMMA RowFacts ==
    ASSUME task' \in NextRows, NEW t \in Tasks
    PROVE  /\ task'[t].worker \in {task[t].worker, NoWorker}
           /\ task'[t].state = "none" => task[t].state = "none"
           /\ isLive(t)' => isLive(t) \/ task[t].worker = NoWorker
           /\ isLive(t)' /\ task'[t].worker # NoWorker => isLive(t) /\ task[t].worker = task'[t].worker
BY DEF NextRows, NextRow, isLive

(* A release that is stopping a machine after a calm step was stopping it *)
(* before.                                                                *)
LEMMA StoppersKept ==
    ASSUME Base, NextJobs, NEW t \in Tasks, job'[<<t, "release">>].pc = "stopping"
    PROVE  /\ job[<<t, "release">>].pc = "stopping"
           /\ job'[<<t, "release">>].at = job[<<t, "release">>].at
           /\ job[<<t, "release">>].at \in Workers
<1>1. /\ job[<<t, "release">>].pc = "stopping"
      /\ job'[<<t, "release">>].at = job[<<t, "release">>].at
  BY DEF NextJobs
<1> QED BY <1>1, JobsOf, JobFields DEF Nowhere

(* A calm step keeps the invariant: it adds no holder and no stop. *)
LEMMA CalmInv ==
    ASSUME Inv, Calm
    PROVE  Inv'
<1>1. /\ task' \in NextRows /\ machine' \in NextMachines /\ NextJobs /\ NextNotes /\ Agents'
      /\ revived' = revived
  BY DEF Calm, NextNotes
<1>2. /\ task' \in TaskRows /\ machine' \in MachineRows
      /\ \A w \in Workers : /\ machine'[w].state = "absent" => machine[w].state = "absent"
                            /\ machine'[w].state \in Rowless => machine'[w].box = "none"
  BY <1>1 DEF NextRows, NextMachines
<1>3. JobsTyped' /\ Noted' BY <1>1 DEF NextJobs, NextNotes
<1>4. Bare' BY <1>2 DEF Bare
<1>5. Unplaced'
  <2> SUFFICES ASSUME NEW t \in Tasks
               PROVE /\ task'[t].state = "none" =>
                          task'[t].worker = NoWorker /\ job'[<<t, "run">>].pc \notin Allocating
                     /\ job'[<<t, "run">>].pc \in Allocating => task'[t].worker = NoWorker
    BY DEF Unplaced
  <2>1. /\ task[t].state = "none" => task[t].worker = NoWorker /\ job[<<t, "run">>].pc \notin Allocating
        /\ job[<<t, "run">>].pc \in Allocating => task[t].worker = NoWorker
    BY DEF Inv, Base, Unplaced
  <2>2. job'[<<t, "run">>].pc \in Allocating =>
              \/ job[<<t, "run">>].pc \in Allocating
              \/ task[t].worker = NoWorker /\ task'[t].state # "none"
    BY <1>1 DEF NextJobs
  <2> QED BY <1>1, <2>1, <2>2, RowFacts
<1>6. Base' BY <1>1, <1>2, <1>3, <1>4, <1>5 DEF Base, JobsTyped
<1>7. HeldExists'
  <2> SUFFICES ASSUME NEW t \in Tasks, NEW w \in Workers, task'[t].worker = w
               PROVE machine'[w].state # "absent"
    BY DEF HeldExists
  <2>1. task[t].worker = w BY <1>1, RowFacts, NullsAssumption
  <2> QED BY <1>2, <2>1 DEF Inv, HeldExists
<1>8. \A u \in Tasks : job'[<<u, "release">>].pc = "stopping" =>
         /\ job[<<u, "release">>].pc = "stopping" /\ job'[<<u, "release">>].at = job[<<u, "release">>].at
         /\ job[<<u, "release">>].at \in Workers
  BY <1>1, StoppersKept DEF Inv
<1>9. StopExists' BY <1>2, <1>8 DEF Inv, StopExists
<1>10. ExclusiveHold'
  <2> SUFFICES ASSUME NEW t \in Tasks, NEW u \in Tasks, t # u, isLive(t)', isLive(u)',
                      task'[t].worker = task'[u].worker, task'[t].worker # NoWorker
               PROVE t \in revived \/ u \in revived
    BY <1>1 DEF ExclusiveHold
  <2>1. isLive(t) /\ isLive(u) /\ task[t].worker = task[u].worker /\ task[t].worker # NoWorker
    BY <1>1, RowFacts
  <2> QED BY <2>1 DEF Inv, ExclusiveHold
<1>11. ReleaseSparesNextTask'
  <2> SUFFICES ASSUME NEW t \in Tasks, NEW u \in Tasks, job'[<<t, "release">>].pc = "stopping",
                      isLive(u)', task'[u].worker = job'[<<t, "release">>].at
               PROVE u \in revived
    BY <1>1 DEF ReleaseSparesNextTask
  <2>1. /\ job[<<t, "release">>].pc = "stopping" /\ job'[<<t, "release">>].at = job[<<t, "release">>].at
        /\ job[<<t, "release">>].at \in Workers
    BY <1>8
  <2>2. task'[u].worker # NoWorker BY <2>1, NullsAssumption
  <2>3. isLive(u) /\ task[u].worker = job[<<t, "release">>].at BY <1>1, <2>1, <2>2, RowFacts
  <2> QED BY <2>1, <2>3 DEF Inv, ReleaseSparesNextTask
<1> QED BY <1>6, <1>7, <1>9, <1>10, <1>11 DEF Inv

(* The claim and the spawn keep it: the machine had no holder, and no release *)
(* held its lock (withPoolLock around the claim).                             *)
LEMMA TakingInv ==
    ASSUME Inv, NEW t \in Tasks, NEW w \in Workers, Taking(t, w)
    PROVE  Inv'
<1>1. /\ task[t].worker = NoWorker /\ task[t].state # "none"
      /\ job'[<<t, "run">>].pc \notin Allocating
      /\ \A u \in Tasks : isLive(u) => task[u].worker # w
      /\ machine'[w].state # "absent"
      /\ \A u \in Tasks : job[<<u, "release">>].pc = "stopping" => job[<<u, "release">>].at # w
      /\ machine' \in NextMachines /\ NextJobs /\ NextNotes /\ Agents' /\ revived' = revived
  BY DEF Taking, NextNotes
<1>2. task' = [task EXCEPT ![t].worker = w] BY DEF Taking
<1>3. task \in TaskRows /\ Base BY DEF Inv, Base
<1>4. /\ \A u \in Tasks : task'[u].state = task[u].state
      /\ \A u \in Tasks \ {t} : task'[u].worker = task[u].worker
      /\ task'[t].worker = w
  BY <1>2, <1>3 DEF TaskRows, TaskRow
<1>5. task' \in TaskRows BY <1>2, <1>3, RowTyped
<1>6. /\ machine' \in MachineRows
      /\ \A v \in Workers : /\ machine'[v].state = "absent" => machine[v].state = "absent"
                            /\ machine'[v].state \in Rowless => machine'[v].box = "none"
  BY <1>1 DEF NextMachines
<1>7. JobsTyped' /\ Noted' BY <1>1 DEF NextJobs, NextNotes
<1>8. Bare' BY <1>6 DEF Bare
<1>9. Unplaced'
  <2> SUFFICES ASSUME NEW u \in Tasks
               PROVE /\ task'[u].state = "none" =>
                          task'[u].worker = NoWorker /\ job'[<<u, "run">>].pc \notin Allocating
                     /\ job'[<<u, "run">>].pc \in Allocating => task'[u].worker = NoWorker
    BY DEF Unplaced
  <2>1. /\ task[u].state = "none" => task[u].worker = NoWorker /\ job[<<u, "run">>].pc \notin Allocating
        /\ job[<<u, "run">>].pc \in Allocating => task[u].worker = NoWorker
    BY DEF Inv, Base, Unplaced
  <2>2. job'[<<u, "run">>].pc \in Allocating =>
              \/ job[<<u, "run">>].pc \in Allocating
              \/ task[u].worker = NoWorker /\ task'[u].state # "none"
    BY <1>1 DEF NextJobs
  <2> QED BY <1>1, <1>4, <2>1, <2>2
<1>10. Base' BY <1>1, <1>5, <1>6, <1>7, <1>8, <1>9 DEF Base, JobsTyped
<1>11. HeldExists'
  <2> SUFFICES ASSUME NEW u \in Tasks, NEW v \in Workers, task'[u].worker = v
               PROVE machine'[v].state # "absent"
    BY DEF HeldExists
  <2>1. CASE u = t BY <1>1, <1>4, <2>1
  <2>2. CASE u # t BY <1>4, <1>6, <2>2 DEF Inv, HeldExists
  <2> QED BY <2>1, <2>2
<1>12. \A u \in Tasks : job'[<<u, "release">>].pc = "stopping" =>
         /\ job[<<u, "release">>].pc = "stopping" /\ job'[<<u, "release">>].at = job[<<u, "release">>].at
         /\ job[<<u, "release">>].at \in Workers
  BY <1>1, StoppersKept DEF Inv
<1>13. StopExists' BY <1>6, <1>12 DEF Inv, StopExists
<1>14. \A u \in Tasks : isLive(u)' <=> isLive(u) BY <1>4 DEF isLive
<1>15. ExclusiveHold'
  <2> SUFFICES ASSUME NEW u \in Tasks, NEW v \in Tasks, u # v, isLive(u)', isLive(v)',
                      task'[u].worker = task'[v].worker, task'[u].worker # NoWorker
               PROVE u \in revived \/ v \in revived
    BY <1>1 DEF ExclusiveHold
  <2>1. isLive(u) /\ isLive(v) BY <1>14
  <2>2. u # t /\ v # t BY <1>1, <1>4, <2>1
  <2>3. task[u].worker = task[v].worker /\ task[u].worker # NoWorker BY <1>4, <2>2
  <2> QED BY <2>1, <2>3 DEF Inv, ExclusiveHold
<1>16. ReleaseSparesNextTask'
  <2> SUFFICES ASSUME NEW v \in Tasks, NEW u \in Tasks, job'[<<v, "release">>].pc = "stopping",
                      isLive(u)', task'[u].worker = job'[<<v, "release">>].at
               PROVE u \in revived
    BY <1>1 DEF ReleaseSparesNextTask
  <2>1. /\ job[<<v, "release">>].pc = "stopping" /\ job'[<<v, "release">>].at = job[<<v, "release">>].at
    BY <1>12
  <2>2. u # t BY <1>1, <1>4, <2>1
  <2>3. isLive(u) /\ task[u].worker = job[<<v, "release">>].at BY <1>4, <1>14, <2>1, <2>2
  <2> QED BY <2>1, <2>3 DEF Inv, ReleaseSparesNextTask
<1> QED BY <1>10, <1>11, <1>13, <1>15, <1>16 DEF Inv

(* A live reply keeps it: a task it brings back is marked. *)
LEMMA AnsweringInv ==
    ASSUME Inv, NEW t \in Tasks, Answering(t)
    PROVE  Inv'
<1>1. /\ machine' \in NextMachines /\ NextJobs /\ Noted' /\ Agents'
      /\ revived' = IF isLive(t) THEN revived ELSE revived \cup {t}
      /\ task' = [task EXCEPT ![t].state = "running"]
  BY DEF Answering
<1>2. Base /\ task \in TaskRows BY DEF Inv, Base
<1>3. /\ \A u \in Tasks : task'[u].worker = task[u].worker
      /\ \A u \in Tasks \ {t} : task'[u].state = task[u].state
      /\ task'[t].state = "running"
  BY <1>1, <1>2 DEF TaskRows, TaskRow
<1>4. task' \in TaskRows BY <1>1, <1>2, RowTyped DEF TaskStates
<1>5. /\ machine' \in MachineRows
      /\ \A v \in Workers : /\ machine'[v].state = "absent" => machine[v].state = "absent"
                            /\ machine'[v].state \in Rowless => machine'[v].box = "none"
  BY <1>1 DEF NextMachines
<1>6. JobsTyped' BY <1>1 DEF NextJobs
<1>7. Bare' BY <1>5 DEF Bare
<1>8. Unplaced'
  <2> SUFFICES ASSUME NEW u \in Tasks
               PROVE /\ task'[u].state = "none" =>
                          task'[u].worker = NoWorker /\ job'[<<u, "run">>].pc \notin Allocating
                     /\ job'[<<u, "run">>].pc \in Allocating => task'[u].worker = NoWorker
    BY DEF Unplaced
  <2>1. /\ task[u].state = "none" => task[u].worker = NoWorker /\ job[<<u, "run">>].pc \notin Allocating
        /\ job[<<u, "run">>].pc \in Allocating => task[u].worker = NoWorker
    BY DEF Inv, Base, Unplaced
  <2>2. job'[<<u, "run">>].pc \in Allocating =>
              \/ job[<<u, "run">>].pc \in Allocating
              \/ task[u].worker = NoWorker /\ task'[u].state # "none"
    BY <1>1 DEF NextJobs
  <2> QED BY <1>3, <2>1, <2>2
<1>9. Base' BY <1>1, <1>4, <1>5, <1>6, <1>7, <1>8 DEF Base, JobsTyped
<1>10. HeldExists' BY <1>3, <1>5 DEF Inv, HeldExists
<1>11. \A u \in Tasks : job'[<<u, "release">>].pc = "stopping" =>
         /\ job[<<u, "release">>].pc = "stopping" /\ job'[<<u, "release">>].at = job[<<u, "release">>].at
         /\ job[<<u, "release">>].at \in Workers
  BY <1>1, StoppersKept DEF Inv
<1>12. StopExists' BY <1>5, <1>11 DEF Inv, StopExists
<1>13. \A u \in Tasks : /\ isLive(u)' => isLive(u) \/ u \in revived'
                        /\ u \in revived => u \in revived'
  <2> SUFFICES ASSUME NEW u \in Tasks
               PROVE /\ isLive(u)' => isLive(u) \/ u \in revived'
                     /\ u \in revived => u \in revived'
    OBVIOUS
  <2>1. CASE u = t BY <1>1, <2>1
  <2>2. CASE u # t BY <1>1, <1>3, <2>2 DEF isLive
  <2> QED BY <2>1, <2>2
<1>14. ExclusiveHold'
  <2> SUFFICES ASSUME NEW u \in Tasks, NEW v \in Tasks, u # v, isLive(u)', isLive(v)',
                      task'[u].worker = task'[v].worker, task'[u].worker # NoWorker
               PROVE u \in revived' \/ v \in revived'
    BY DEF ExclusiveHold
  <2>1. task[u].worker = task[v].worker /\ task[u].worker # NoWorker BY <1>3
  <2> QED BY <1>13, <2>1 DEF Inv, ExclusiveHold
<1>15. ReleaseSparesNextTask'
  <2> SUFFICES ASSUME NEW v \in Tasks, NEW u \in Tasks, job'[<<v, "release">>].pc = "stopping",
                      isLive(u)', task'[u].worker = job'[<<v, "release">>].at
               PROVE u \in revived'
    BY DEF ReleaseSparesNextTask
  <2>1. job[<<v, "release">>].pc = "stopping" /\ job'[<<v, "release">>].at = job[<<v, "release">>].at
    BY <1>11
  <2>2. task[u].worker = job[<<v, "release">>].at BY <1>3, <2>1
  <2> QED BY <1>13, <2>1, <2>2 DEF Inv, ReleaseSparesNextTask
<1> QED BY <1>9, <1>10, <1>12, <1>14, <1>15 DEF Inv

(* A stop keeps it: a release has just checked that nobody holds its machine. *)
LEMMA StoppingInv ==
    ASSUME Inv, NEW j \in Jobs, Stopping(j)
    PROVE  Inv'
<1>1. /\ job'[j].pc = "stopping" /\ job'[j].at \in Workers
      /\ machine[job'[j].at].state # "absent"
      /\ j[2] = "release" => \A u \in Tasks : isLive(u) => task[u].worker # job'[j].at
      /\ \A k \in Jobs \ {j} : job'[k] = job[k]
      /\ \A t \in Tasks : job'[<<t, "run">>].pc \in Allocating => job[<<t, "run">>].pc \in Allocating
      /\ task' = task
      /\ machine' \in NextMachines /\ JobsTyped' /\ Noted' /\ revived' = revived /\ Agents'
  BY DEF Stopping, NextNotes
<1>2. Base /\ task \in TaskRows BY DEF Inv, Base
<1>3. /\ machine' \in MachineRows
      /\ \A v \in Workers : /\ machine'[v].state = "absent" => machine[v].state = "absent"
                            /\ machine'[v].state \in Rowless => machine'[v].box = "none"
  BY <1>1 DEF NextMachines
<1>4. Bare' BY <1>3 DEF Bare
<1>5. Unplaced' BY <1>1 DEF Inv, Base, Unplaced
<1>6. Base' BY <1>1, <1>2, <1>3, <1>4, <1>5 DEF Base, JobsTyped
<1>7. HeldExists' BY <1>1, <1>3 DEF Inv, HeldExists
<1>8. \A u \in Tasks : isLive(u)' <=> isLive(u) BY <1>1 DEF isLive
<1>9. \A u \in Tasks : job'[<<u, "release">>].pc = "stopping" =>
         /\ job'[<<u, "release">>].at \in Workers
         /\ machine[job'[<<u, "release">>].at].state # "absent"
         /\ \A v \in Tasks : isLive(v) /\ task[v].worker = job'[<<u, "release">>].at => v \in revived
  <2> SUFFICES ASSUME NEW u \in Tasks, job'[<<u, "release">>].pc = "stopping"
               PROVE /\ job'[<<u, "release">>].at \in Workers
                     /\ machine[job'[<<u, "release">>].at].state # "absent"
                     /\ \A v \in Tasks : isLive(v) /\ task[v].worker = job'[<<u, "release">>].at
                                           => v \in revived
    OBVIOUS
  <2>1. CASE j = <<u, "release">> BY <1>1, <2>1
  <2>2. CASE j # <<u, "release">>
    <3>1. job'[<<u, "release">>] = job[<<u, "release">>] BY <1>1, <2>2, JobsOf
    <3>2. job[<<u, "release">>].at \in Workers BY <1>2, <3>1, JobsOf, JobFields DEF Nowhere
    <3> QED BY <3>1, <3>2 DEF Inv, StopExists, ReleaseSparesNextTask
  <2> QED BY <2>1, <2>2
<1>10. StopExists' BY <1>3, <1>9 DEF StopExists
<1>11. ExclusiveHold' BY <1>1, <1>8 DEF Inv, ExclusiveHold
<1>12. ReleaseSparesNextTask' BY <1>1, <1>8, <1>9 DEF ReleaseSparesNextTask
<1> QED BY <1>6, <1>7, <1>10, <1>11, <1>12 DEF Inv

-----------------------------------------------------------------------------
(* The four things a step can be. *)
Effects == Calm \/ (\E t \in Tasks, w \in Workers : Taking(t, w)) \/ (\E t \in Tasks : Answering(t))
         \/ (\E j \in Jobs : Stopping(j))

(* Every step of every job, click and fault is one of the four. *)
LEMMA EveryStep ==
    ASSUME Inv, Next
    PROVE  Effects
<1>0. Base /\ HeldExists /\ StopExists BY DEF Inv
<1>1. ASSUME NEW t \in Tasks, Click(t) PROVE Calm
  BY <1>0, <1>1, RunSteps, DecisionSteps, ReplySteps, ParkingSteps DEF Click
<1>2. ASSUME NEW t \in Tasks, RunStep(t) PROVE Calm \/ \E w \in Workers : Taking(t, w)
  BY <1>0, <1>2, RunSteps, LaunchSteps DEF RunStep
<1>3. ASSUME NEW t \in Tasks, TaskStep(t) PROVE Calm \/ Answering(t)
  BY <1>0, <1>3, ReplySteps, DecisionSteps, ParkingSteps DEF TaskStep
<1>4. ASSUME NEW t \in Tasks, Tick(t) PROVE Calm
  BY <1>0, <1>4, RefreshSteps, ParkingSteps DEF Tick
<1>5. ASSUME NEW t \in Tasks, NEW reads \in BOOLEAN, refreshTask(t, reads) PROVE Calm
  BY <1>0, <1>5, RefreshSteps
<1>6. ASSUME NEW j \in Jobs, MachineStep(j) PROVE Calm \/ Stopping(j)
  BY <1>0, <1>6, WakeSteps, FailureSteps, StoppingSteps DEF MachineStep
<1>7. ASSUME World PROVE Calm BY <1>0, <1>7, WorldSteps
<1>8. ASSUME Disturbance PROVE Calm
  <2>1. ASSUME NEW s \in Sessions, SessionDies(s) PROVE Calm BY <1>0, <2>1, FaultSteps
  <2>2. ASSUME NEW w \in Workers,
               SetupFails(w) \/ MachineFalls(w) \/ MachinePruned(w) \/ deleteWorker(w)
        PROVE Calm
    BY <1>0, <2>2, FaultSteps
  <2>3. ASSUME NEW j \in Jobs, StopFails(j) \/ WaitTimesOut(j) PROVE Calm
    BY <1>0, <2>3, WakeSteps, StoppingSteps
  <2>4. ASSUME projectEdited PROVE Calm BY <1>0, <2>4, FaultSteps
  <2>5. ASSUME Restart PROVE Calm BY <1>0, <2>5, RestartStep
  <2> QED BY <1>8, <2>1, <2>2, <2>3, <2>4, <2>5 DEF Disturbance
<1> QED BY <1>1, <1>2, <1>3, <1>4, <1>5, <1>6, <1>7, <1>8 DEF Next, Effects

(* Nothing happening is calm. *)
LEMMA Stutters ==
    ASSUME Base, UNCHANGED vars
    PROVE  Calm
BY Quiet, Assembled DEF vars, notes, agentVars

(* Every step keeps the invariant. *)
LEMMA Preserved == Inv /\ [Next]_vars => Inv'
<1> SUFFICES ASSUME Inv, [Next]_vars PROVE Inv' OBVIOUS
<1>1. CASE UNCHANGED vars BY <1>1, Stutters, CalmInv DEF Inv
<1>2. CASE Next BY <1>2, EveryStep, CalmInv, TakingInv, AnsweringInv, StoppingInv DEF Effects
<1> QED BY <1>1, <1>2

(* The invariant holds in every behaviour of the jobs of services/tasks.ts. *)
THEOREM Invariant == Spec => []Inv
BY Initially, Preserved, PTL DEF Spec

(* Every reachable state is of its type: no job is at work in a machine that *)
(* does not exist, no session is launched without a number.                  *)
THEOREM TypeCorrect == Spec => []TypeOK
<1>1. Inv => TypeOK 
  BY DEF Inv, Base, TypeOK, TaskRow, TaskRows, MachineRow, MachineRows, JobRow, JobRows,
         LockRows, Noted, Agents, Refs
<1> QED BY <1>1, Invariant, PTL

(* A task owns its machine until it is over (findFreePoolWorker): for any     *)
(* number of tasks, machines, jobs, faults and restarts, two live tasks never *)
(* share one unless a live reply re-opened one of them.                       *)
THEOREM Exclusive == Spec => []ExclusiveHold
<1>1. Inv => ExclusiveHold BY DEF Inv
<1> QED BY <1>1, Invariant, PTL

(* releaseTaskWorker never stops a machine under the task that has taken it *)
(* since, however the stop, the claim and the restarts interleave.          *)
THEOREM ReleaseSpares == Spec => []ReleaseSparesNextTask
<1>1. Inv => ReleaseSparesNextTask BY DEF Inv
<1> QED BY <1>1, Invariant, PTL

-----------------------------------------------------------------------------
(* The empty pool is a pool nobody holds. *)
LEMMA PoolStarts == Init => Pool!Init
<1> SUFFICES ASSUME Init PROVE Pool!Init OBVIOUS
<1>1. \A t \in Tasks : ~isLive(t) BY DEF Init, isLive, LiveStates
<1>2. hold = [w \in Workers |-> {}] BY <1>1 DEF hold
<1> QED BY <1>2 DEF Pool!Init, Init

(* A calm step gives back the machines of some tasks, or nothing. *)
LEMMA CalmGivesBack ==
    ASSUME Calm
    PROVE  Pool!Next \/ UNCHANGED Pool!vars
<1> DEFINE over == {t \in Tasks : ~(isLive(t)' /\ task'[t].worker = task[t].worker)}
<1>1. task' \in NextRows /\ revived' = revived BY DEF Calm, NextNotes
<1>2. ASSUME NEW w \in Workers
      PROVE {t \in Tasks : isLive(t)' /\ task'[t].worker = w} = hold[w] \ over
  <2>1. hold[w] = {t \in Tasks : isLive(t) /\ task[t].worker = w} BY DEF hold
  <2>2. ASSUME NEW t \in Tasks
        PROVE  (isLive(t)' /\ task'[t].worker = w) <=> (t \in hold[w] /\ t \notin over)
    BY <1>1, <2>1, RowFacts, NullsAssumption
  <2> HIDE DEF over
  <2> QED BY <2>1, <2>2
<1>3. hold' = [w \in Workers |-> {t \in Tasks : isLive(t)' /\ task'[t].worker = w}] BY DEF hold
<1>4. hold' = [w \in Workers |-> hold[w] \ over] BY <1>2, <1>3
<1>5. Pool!GiveBack(over) BY <1>1, <1>4 DEF Pool!GiveBack
<1>6. over \in SUBSET Tasks OBVIOUS
<1> QED BY <1>5, <1>6 DEF Pool!Next

(* A claim or a spawn is a Take of the abstract pool; for a task that was *)
(* dropped meanwhile, nothing.                                            *)
LEMMA TakingTakes ==
    ASSUME Inv, NEW t \in Tasks, NEW w \in Workers, Taking(t, w)
    PROVE  Pool!Next \/ UNCHANGED Pool!vars
<1>1. /\ task[t].worker = NoWorker /\ \A u \in Tasks : isLive(u) => task[u].worker # w
      /\ task' = [task EXCEPT ![t].worker = w] /\ revived' = revived
  BY DEF Taking, NextNotes
<1>2. task \in TaskRows BY DEF Inv, Base
<1>3. /\ \A u \in Tasks : task'[u].state = task[u].state
      /\ \A u \in Tasks \ {t} : task'[u].worker = task[u].worker
      /\ task'[t].worker = w
  BY <1>1, <1>2 DEF TaskRows, TaskRow
<1>4. \A u \in Tasks : isLive(u)' <=> isLive(u) BY <1>3 DEF isLive
<1>5. hold = [v \in Workers |-> {u \in Tasks : isLive(u) /\ task[u].worker = v}] BY DEF hold
<1>6. hold' = [v \in Workers |-> {u \in Tasks : isLive(u)' /\ task'[u].worker = v}] BY DEF hold
<1>7. \A v \in Workers : t \notin hold[v] BY <1>1, <1>5, NullsAssumption
<1>8. hold[w] = {} BY <1>1, <1>5
<1>9. \A v \in Workers \ {w} : hold'[v] = hold[v] BY <1>1, <1>3, <1>4, <1>5, <1>6, NullsAssumption
<1>10. CASE isLive(t)
  <2>1. hold'[w] = {t} BY <1>1, <1>3, <1>4, <1>6, <1>10
  <2>2. hold' = [hold EXCEPT ![w] = {t}] BY <1>5, <1>6, <1>9, <2>1
  <2>3. Pool!Take(t, w) BY <1>1, <1>7, <1>8, <2>2 DEF Pool!Take
  <2> QED BY <2>3 DEF Pool!Next
<1>11. CASE ~isLive(t)
  <2>1. hold'[w] = {} BY <1>1, <1>3, <1>4, <1>6, <1>11
  <2>2. hold' = hold BY <1>5, <1>6, <1>8, <1>9, <2>1
  <2> QED BY <1>1, <2>2 DEF Pool!vars
<1> QED BY <1>10, <1>11

(* A live reply re-opens its task on the machine it had, or nowhere. *)
LEMMA AnsweringReopens ==
    ASSUME Inv, NEW t \in Tasks, Answering(t)
    PROVE  Pool!Next \/ UNCHANGED Pool!vars
<1>1. /\ task' = [task EXCEPT ![t].state = "running"]
      /\ revived' = IF isLive(t) THEN revived ELSE revived \cup {t}
  BY DEF Answering
<1>2. task \in TaskRows BY DEF Inv, Base
<1>3. /\ \A u \in Tasks : task'[u].worker = task[u].worker
      /\ \A u \in Tasks \ {t} : task'[u].state = task[u].state
      /\ task'[t].state = "running"
  BY <1>1, <1>2 DEF TaskRows, TaskRow
<1>4. isLive(t)' /\ \A u \in Tasks \ {t} : isLive(u)' <=> isLive(u)
  BY <1>3 DEF isLive, LiveStates
<1>5. hold = [v \in Workers |-> {u \in Tasks : isLive(u) /\ task[u].worker = v}] BY DEF hold
<1>6. hold' = [v \in Workers |-> {u \in Tasks : isLive(u)' /\ task'[u].worker = v}] BY DEF hold
<1>7. CASE isLive(t)
  <2>1. \A v \in Workers : hold'[v] = hold[v] BY <1>3, <1>4, <1>5, <1>6, <1>7
  <2>2. hold' = hold BY <1>5, <1>6, <2>1
  <2> QED BY <1>1, <1>7, <2>2 DEF Pool!vars
<1>8. CASE ~isLive(t) /\ task[t].worker \in Workers
  <2> DEFINE w == task[t].worker
  <2>1. \A v \in Workers : t \notin hold[v] BY <1>5, <1>8
  <2>2. \A v \in Workers \ {w} : hold'[v] = hold[v] BY <1>3, <1>4, <1>5, <1>6, <1>8
  <2>3. hold'[w] = hold[w] \cup {t} BY <1>3, <1>4, <1>5, <1>6, <1>8
  <2>4. hold' = [hold EXCEPT ![w] = hold[w] \cup {t}] BY <1>5, <1>6, <2>2, <2>3
  <2>5. Pool!Reopen(t, w) BY <1>1, <1>5, <1>8, <2>1, <2>4 DEF Pool!Reopen
  <2> QED BY <1>8, <2>5 DEF Pool!Next
<1>9. CASE ~isLive(t) /\ task[t].worker \notin Workers
  <2>1. \A v \in Workers : hold'[v] = hold[v] BY <1>3, <1>4, <1>5, <1>6, <1>9
  <2>2. hold' = hold BY <1>5, <1>6, <2>1
  <2>3. Pool!ReopenNowhere(t) BY <1>1, <1>9, <2>2 DEF Pool!ReopenNowhere
  <2> QED BY <2>3 DEF Pool!Next
<1> QED BY <1>7, <1>8, <1>9

(* The jobs of services/tasks.ts, with their locks, awaits, faults and     *)
(* restarts, implement the pool of PoolHold: a machine is taken only while *)
(* nobody holds it.                                                        *)
THEOREM Implements == Spec => PoolSpec
<1>1. Inv /\ [Next]_vars => [Pool!Next]_(Pool!vars)
  <2> SUFFICES ASSUME Inv, [Next]_vars PROVE Pool!Next \/ UNCHANGED Pool!vars
    OBVIOUS
  <2>1. CASE UNCHANGED vars BY <2>1, Stutters, CalmGivesBack DEF Inv
  <2>2. CASE Next
    <3>1. ASSUME NEW j \in Jobs, Stopping(j) PROVE UNCHANGED Pool!vars
      <4>1. task' = task /\ revived' = revived BY <3>1 DEF Stopping, NextNotes
      <4>2. hold' = hold BY <4>1 DEF hold, isLive
      <4> QED BY <4>1, <4>2 DEF Pool!vars
    <3> QED BY <2>2, <3>1, EveryStep, CalmGivesBack, TakingTakes, AnsweringReopens DEF Effects
  <2> QED BY <2>1, <2>2
<1> QED BY <1>1, Invariant, PoolStarts, PTL DEF Spec, PoolSpec, Pool!Spec
===============================================================================
