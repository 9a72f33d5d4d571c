------------------------------ MODULE TaskPool ------------------------------
(***************************************************************************)
(* Tasks, the pool machines they hold, and the background jobs that move   *)
(* both (services/tasks.ts).  The server is one Node process: what happens *)
(* between two awaits is one action here, and what an await separates is   *)
(* two.  A job is a run of one of the async functions for one task; several *)
(* jobs of a task, and jobs of several tasks, interleave freely.           *)
(*                                                                         *)
(* Time, prompts, environments, error texts and git are abstracted; every  *)
(* guard, early return, queueing on the pool lock and row update is kept.  *)
(***************************************************************************)
EXTENDS Naturals, Sequences, FiniteSets

CONSTANTS
    Tasks, Workers,   \* task rows and worker rows that may come to exist
    NoWorker, NoTask, \* null references
    Existing,         \* the pool machines there are at the start
    MaxSessions,      \* bound: agent processes launched per task
    MaxFaults,        \* bound: faults injected in a behaviour
    Faults,           \* which faults the environment injects
    Clicks,           \* which requests people send
    AcceptCommand, DropCommand, \* the project has a validate / cancel command
    Interactive,      \* the harness listens between turns (else one-shot)
    ReviewStop,       \* review mode `stop`: entering review parks the machine
    DelayedPark       \* ... `taskReviewParkAfterMinutes` later

ASSUME NullsAssumption == NoWorker \notin Workers /\ NoTask \notin Tasks
ASSUME ExistingAssumption == Existing \subseteq Workers
ASSUME BoundsAssumption == MaxSessions \in Nat /\ MaxFaults \in Nat
ASSUME SettingsAssumption ==
    {AcceptCommand, DropCommand, Interactive, ReviewStop, DelayedPark} \subseteq BOOLEAN

VARIABLES
    task,     \* rows of `tasks`
    handed,   \* tasks whose event log says the agent handed its turn back
    parkAt,   \* tasks with a deadline to park their machine
    older,    \* per task, the machines created before it
    machine,  \* rows of `workers`, and the container behind each
    trace,    \* per machine, the task whose work its workspace holds
    poolLock, \* per worker, the jobs chained on its lock, holder first
    job,      \* the async functions in flight
    cands,    \* per task, the pool machines its allocation has left to try
    launched, \* per task, the agent processes started so far
    rows,     \* sessions with a `task_commands` row
    alive,    \* agent processes running in a container
    turn,     \* live sessions in the middle of a turn
    waiting,  \* live sessions with a user turn in stdin they have not begun
    unread,   \* sessions whose end of turn nobody took in: the line in the
              \* stream nobody ingested, or the exit code 0 of a one-shot
    revived,  \* history: tasks a live reply re-opened after they were over
    faults    \* faults injected so far

notes == <<handed, parkAt, older, revived>>
agentRows == <<launched, rows, unread, trace>>
agentVars == <<launched, rows, unread, trace, alive, turn, waiting>>
vars == <<task, handed, parkAt, older, machine, trace, poolLock, job, cands,
          launched, rows, alive, turn, waiting, unread, revived, faults>>

Kinds == {"run", "accept", "drop", "reply", "live", "release", "settle",
          "due", "hand", "wake", "refresh"}
Jobs == Tasks \X Kinds
Sessions == Tasks \X (1..MaxSessions)

TaskStates == {"queued", "running", "in-review", "done", "failed"}
LiveStates == {"queued", "running", "in-review"}
Pendings == {"none", "accepting", "dropping", "replying"}
MachineStates == {"absent", "starting", "ready", "stopped", "error", "broken", "deleted"}
Boxes == {"none", "building", "up", "down"}  \* building: the spawn pipeline runs
Steps == {"idle", "failed", "resume", "pick", "choose", "claim", "rebuild",
          "wakeQ", "waking", "wait", "reset", "launch", "started", "record",
          "unwind", "exec", "kill", "answer", "interject", "answered",
          "check", "tidyQ", "parkQ", "stopping", "derive"}

TypeOK ==
    /\ task \in [Tasks -> [state : TaskStates \cup {"none"}, pending : Pendings,
                           worker : Workers \cup {NoWorker}, session : 0..MaxSessions]]
    /\ handed \subseteq Tasks /\ parkAt \subseteq Tasks
    /\ older \in [Tasks -> SUBSET Workers]
    /\ machine \in [Workers -> [state : MachineStates, box : Boxes, outdated : BOOLEAN]]
    /\ trace \in [Workers -> Tasks \cup {NoTask}]
    /\ poolLock \in [Workers -> Seq(Jobs)]
    /\ job \in [Jobs -> [pc : Steps, at : Workers \cup {NoWorker},
                         seen : 0..MaxSessions,
                         was : MachineStates \cup {"", "recycled"}]]
    /\ cands \in [Tasks -> SUBSET Workers]
    /\ launched \in [Tasks -> 0..MaxSessions]
    /\ rows \subseteq Sessions /\ alive \subseteq Sessions /\ turn \subseteq Sessions
    /\ waiting \subseteq Sessions /\ unread \subseteq Sessions
    /\ revived \subseteq Tasks
    /\ faults \in 0..MaxFaults

-----------------------------------------------------------------------------
(* Reading the rows. *)

Step(pc, w, n, was) == [pc |-> pc, at |-> w, seen |-> n, was |-> was]
At(pc, w) == Step(pc, w, 0, "")
Idle == At("idle", NoWorker)
Now(j, pc) == Step(pc, job[j].at, job[j].seen, job[j].was)

(* A task's row, and a machine's, with the fields an update sets. *)
Row(t, state, pending, session) ==
    [state |-> state, pending |-> pending, worker |-> task[t].worker, session |-> session]
Box(w, state, box) == [state |-> state, box |-> box, outdated |-> machine[w].outdated]

isLive(t) == task[t].state \in LiveStates

heldAtWork(w, except) ==  \* mutant: a task in review holds nothing
    \E t \in Tasks \ {except} : task[t].worker = w /\ task[t].state \in {"queued", "running"}

heldByLiveTask(w, except) ==
    \E t \in Tasks \ {except} : task[t].worker = w /\ isLive(t)

(* getWorkerLive has nothing left to reconcile: the row agrees with the      *)
(* container.  A job that reads through it waits for Poll, which is that read. *)
Settled(w) ==
    ~ (machine[w].box = "down" /\ machine[w].state \in {"ready", "starting"})

(* A poll of a row whose container went down: the computer or Docker restarted *)
(* (stopped), the workspace crashed (error), or setup died (broken).           *)
DownAs(w) == {"stopped", IF machine[w].state = "ready" THEN "error" ELSE "broken"}

Holder(w, j) == poolLock[w] # <<>> /\ Head(poolLock[w]) = j
Enter(w, j) == [poolLock EXCEPT ![w] = Append(@, j)]
LeaveAlone(w) == [poolLock EXCEPT ![w] = <<>>]  \* mutant: the chain forgets its waiters
Leave(w) == [poolLock EXCEPT ![w] = Tail(@)]
LeaveAndEnter(w, j) == [poolLock EXCEPT ![w] = Append(Tail(@), j)]

kept(t, action) == task[t].pending  \* mutant: an early return skips the clearing
cleared(t, action) == IF task[t].pending = action THEN "none" ELSE task[t].pending

(* The guards of the updates that end a run, a reply or a refresh: the row has *)
(* not moved while the job was away.                                           *)
unguarded(t) == task[t].state # "none"  \* mutant: the update is by id alone
stillQueued(t) == task[t].state = "queued"
stillInReview(t) == task[t].state = "in-review"
stillRunning(t) == task[t].state = "running"

(* What stopping or removing w's container takes down with it. *)
LeftAfter(w) == {s \in alive : task[s[1]].worker # w}
Survive(left) ==
    /\ alive' = left /\ turn' = turn \cap left /\ waiting' = waiting \cap left
AgentsUnchanged == UNCHANGED <<alive, turn, waiting>>

(* releaseTaskWorker, up to the pool lock it queues on: called when t is over. *)
Releasable(t) ==
    LET w == task[t].worker IN
    w # NoWorker /\ job[<<t, "release">>].pc = "idle" /\ ~heldByLiveTask(w, t)

(* The row and the jobs after failTask(t): t fails and its machine is released. *)
FailTask(t, j) ==
    LET w == task[t].worker IN
    /\ task' = [task EXCEPT ![t] = Row(t, "failed",
                  IF j[2] = "drop" THEN cleared(t, "dropping") ELSE task[t].pending,
                  task[t].session)]
    /\ IF Releasable(t)
         THEN /\ job' = [job EXCEPT ![j] = Idle, ![<<t, "release">>] = At("tidyQ", w)]
              /\ poolLock' = Enter(w, <<t, "release">>)
         ELSE /\ job' = [job EXCEPT ![j] = Idle]
              /\ UNCHANGED poolLock

-----------------------------------------------------------------------------
Init ==
    /\ task = [t \in Tasks |-> [state |-> "none", pending |-> "none", worker |-> NoWorker,
                                session |-> 0]]
    /\ handed = {} /\ parkAt = {}
    /\ older = [t \in Tasks |-> {}]
    /\ machine \in [Workers -> {[state |-> s[1], box |-> s[2], outdated |-> o] :
                       s \in {<<"absent", "none">>, <<"stopped", "down">>, <<"ready", "up">>},
                       o \in BOOLEAN}]
    /\ trace = [w \in Workers |-> NoTask]
    /\ \A w \in Workers : /\ w \in Existing <=> machine[w].state # "absent"
                          /\ machine[w].outdated => w \in Existing
    /\ poolLock = [w \in Workers |-> <<>>]
    /\ job = [j \in Jobs |-> Idle]
    /\ cands = [t \in Tasks |-> {}]
    /\ launched = [t \in Tasks |-> 0]
    /\ rows = {} /\ alive = {} /\ turn = {} /\ waiting = {} /\ unread = {}
    /\ revived = {}
    /\ faults = 0

-----------------------------------------------------------------------------
(* The run: allocate, launch. *)

pool == {w \in Workers : machine[w].state \in {"ready", "stopped"}}

createTask(t) ==
    /\ task[t].state = "none"
    /\ task' = [task EXCEPT ![t].state = "queued"]
    /\ older' = [older EXCEPT ![t] = {w \in Workers : machine[w].state # "absent"}]
    /\ cands' = [cands EXCEPT ![t] = pool]
    /\ job' = [job EXCEPT ![<<t, "run">>] = At("pick", NoWorker)]
    /\ UNCHANGED <<handed, parkAt, machine, poolLock, agentVars, revived, faults>>

(* findFreePoolWorker, once the holders of pool machines are refreshed. *)
RunPick(t) ==
    /\ job[<<t, "run">>].pc = "pick"
    /\ cands' = [cands EXCEPT ![t] = {w \in @ : ~heldByLiveTask(w, t)}]
    /\ job' = [job EXCEPT ![<<t, "run">>] = Now(<<t, "run">>, "choose")]
    /\ UNCHANGED <<task, machine, poolLock, agentVars, notes, faults>>

RunChoose(t, w) ==
    /\ job[<<t, "run">>].pc = "choose"
    /\ w \in cands[t]
    /\ cands' = [cands EXCEPT ![t] = @ \ {w}]
    /\ job' = [job EXCEPT ![<<t, "run">>] = At("claim", w)]
    /\ poolLock' = Enter(w, <<t, "run">>)
    /\ UNCHANGED <<task, machine, agentVars, notes, faults>>

(* The claim is one synchronous body under the lock; the rebuild or the wake *)
(* it calls for comes after the lock.                                        *)
RunClaim(t) ==
    LET j == <<t, "run">>
        w == job[j].at
        m == machine[w] IN
    /\ job[j].pc = "claim"
    /\ Holder(w, j)
    /\ IF m.state \in {"ready", "stopped"} /\ ~heldByLiveTask(w, t)
         THEN /\ task' = [task EXCEPT ![t].worker = w]
              /\ cands' = [cands EXCEPT ![t] = {}]
              /\ LET next == CASE m.outdated -> "rebuild"
                               [] ~m.outdated /\ m.state = "stopped" -> "wakeQ"
                               [] OTHER -> "wait"
                 IN /\ job' = [job EXCEPT ![j] = Step(next, w, 0, "recycled")]
                    /\ poolLock' = IF next = "wakeQ" THEN LeaveAndEnter(w, j) ELSE Leave(w)
         ELSE /\ job' = [job EXCEPT ![j] = Now(j, "choose")]
              /\ poolLock' = Leave(w)
              /\ UNCHANGED <<task, cands>>
    /\ UNCHANGED <<machine, agentVars, notes, faults>>

(* allocateWorker with no free machine: spawnWorker, tagged into the pool. *)
RunSpawn(t, w) ==
    /\ job[<<t, "run">>].pc = "choose"
    /\ cands[t] = {}
    /\ machine[w].state = "absent"
    /\ machine' = [machine EXCEPT ![w] = Box(w, "starting", "building")]
    /\ task' = [task EXCEPT ![t].worker = w]
    /\ job' = [job EXCEPT ![<<t, "run">>] = At("wait", w)]
    /\ UNCHANGED <<poolLock, cands, agentVars, notes, faults>>

(* rebuildWorker: the container is removed, the spawn pipeline starts over. *)
Rebuilt(w) ==
    [machine EXCEPT ![w] = [state |-> "starting", box |-> "building", outdated |-> FALSE]]

RunRebuild(t) ==
    LET w == job[<<t, "run">>].at IN
    /\ job[<<t, "run">>].pc = "rebuild"
    /\ IF machine[w].state = "deleted"
         THEN UNCHANGED machine /\ AgentsUnchanged
         ELSE machine' = Rebuilt(w) /\ Survive(LeftAfter(w))
    /\ job' = [job EXCEPT ![<<t, "run">>] = Now(<<t, "run">>, "wait")]
    /\ UNCHANGED <<task, poolLock, cands, agentRows, notes, faults>>

(* A run picked up again after a restart of Lite, on the machine it had; one *)
(* that has none any more allocates again.                                    *)
RunResume(t) ==
    LET j == <<t, "run">>
        w == task[t].worker IN
    /\ job[j].pc = "resume"
    /\ IF task[t].state # "queued"
         THEN /\ job' = [job EXCEPT ![j] = Idle]
              /\ UNCHANGED <<task, poolLock, cands>>
         ELSE IF w = NoWorker
         THEN /\ job' = [job EXCEPT ![j] = At("pick", NoWorker)]
              /\ cands' = [cands EXCEPT ![t] = pool]
              /\ UNCHANGED <<task, poolLock>>
         ELSE IF \E n \in 1..MaxSessions : <<t, n>> \in rows
         THEN /\ \E n \in 1..MaxSessions :
                   /\ <<t, n>> \in rows
                   /\ \A i \in 1..MaxSessions : <<t, i>> \in rows => i <= n
                   /\ task' = [task EXCEPT ![t] = Row(t, "running", task[t].pending, n)]
              /\ job' = [job EXCEPT ![j] = Idle]
              /\ UNCHANGED <<poolLock, cands>>
         ELSE /\ job' = [job EXCEPT ![j] =
                              Step("wakeQ", w, 0, IF w \in older[t] THEN "recycled" ELSE "")]
              /\ poolLock' = Enter(w, j)
              /\ UNCHANGED <<task, cands>>
    /\ UNCHANGED <<machine, agentVars, notes, faults>>

(* The workspace reset a recycled machine gets before its next session. *)
RunReset(t) ==
    LET j == <<t, "run">>
        w == job[j].at IN
    /\ job[j].pc = "reset"
    /\ IF machine[w].box = "up"
         THEN /\ trace' = [trace EXCEPT ![w] = NoTask]
              /\ job' = [job EXCEPT ![j] = Now(j, "launch")]
         ELSE /\ job' = [job EXCEPT ![j] = Now(j, "failed")]
              /\ UNCHANGED trace
    /\ AgentsUnchanged
    /\ UNCHANGED <<task, machine, poolLock, cands, launched, rows, unread, notes, faults>>

(* startAgentSession for a first run or a follow-up: the process starts... *)
Launch(t, kind) ==
    LET j == <<t, kind>>
        w == job[j].at
        n == launched[t] + 1 IN
    /\ job[j].pc = "launch"
    /\ IF machine[w].box = "up"
         THEN /\ n <= MaxSessions
              /\ launched' = [launched EXCEPT ![t] = n]
              /\ trace' = [trace EXCEPT ![w] = t]
              /\ alive' = alive \cup {<<t, n>>}
              /\ turn' = IF Interactive THEN turn ELSE turn \cup {<<t, n>>}
              /\ job' = [job EXCEPT ![j] = Step("started", w, n, job[j].was)]
         ELSE /\ job' = [job EXCEPT ![j] = Now(j, "failed")]
              /\ UNCHANGED <<launched, trace, alive, turn>>
    /\ UNCHANGED <<task, machine, poolLock, cands, rows, waiting, unread, notes, faults>>

(* ... its row is inserted and the user's turn recorded ... *)
StartedLate(t, kind) ==  \* mutant: the row is inserted once the process is gone
    LET j == <<t, kind>> IN
    /\ job[j].pc = "started" /\ <<t, job[j].seen>> \notin alive
    /\ rows' = rows \cup {<<t, job[j].seen + 1>>}
    /\ handed' = handed \ {t}
    /\ job' = [job EXCEPT ![j] = Now(j, "record")]
    /\ UNCHANGED <<task, parkAt, older, machine, trace, poolLock, cands, launched, alive,
                   turn, waiting, unread, revived, faults>>

Started(t, kind) ==
    LET j == <<t, kind>> IN
    /\ job[j].pc = "started"
    /\ rows' = rows \cup {<<t, job[j].seen>>}
    /\ handed' = handed \ {t}
    /\ job' = [job EXCEPT ![j] = Now(j, "record")]
    /\ UNCHANGED <<task, parkAt, older, machine, trace, poolLock, cands, launched, alive,
                   turn, waiting, unread, revived, faults>>

(* ... and, the prompt being written to the stdin of an interactive one, the   *)
(* task is moved to it, after which nobody reads the stream of the one before. *)
NoPrompt(s) == turn' = turn  \* mutant: the prompt is never written
Prompt(s) == turn' = IF Interactive /\ s \in alive THEN turn \cup {s} ELSE turn

StdinFails(t, kind) ==
    LET j == <<t, kind>> IN
    /\ job[j].pc = "record"
    /\ Interactive /\ machine[job[j].at].box # "up"
    /\ job' = [job EXCEPT ![j] = Now(j, "failed")]
    /\ UNCHANGED <<task, machine, poolLock, cands, agentVars, notes, faults>>

RunRecord(t) ==
    LET j == <<t, "run">> IN
    /\ job[j].pc = "record"
    /\ ~Interactive \/ machine[job[j].at].box = "up"
    /\ IF stillQueued(t)
         THEN /\ task' = [task EXCEPT ![t] = Row(t, "running", task[t].pending, job[j].seen)]
              /\ job' = [job EXCEPT ![j] = Idle]
         ELSE /\ job' = [job EXCEPT ![j] = Now(j, "unwind")]
              /\ UNCHANGED task
    /\ Prompt(<<t, job[j].seen>>)
    /\ UNCHANGED <<machine, poolLock, cands, agentRows, alive, waiting, notes, faults>>

ReplyRecord(t) ==
    LET j == <<t, "reply">> IN
    /\ job[j].pc = "record"
    /\ ~Interactive \/ machine[job[j].at].box = "up"
    /\ task' = [task EXCEPT ![t] =
          IF stillInReview(t) THEN Row(t, "running", cleared(t, "replying"), job[j].seen)
          ELSE Row(t, task[t].state, cleared(t, "replying"), task[t].session)]
    /\ unread' = {s \in unread : s[1] = t => s[2] = task'[t].session}
    /\ job' = [job EXCEPT ![j] = Idle]
    /\ Prompt(<<t, job[j].seen>>)
    /\ UNCHANGED <<machine, trace, poolLock, cands, launched, rows, alive, waiting,
                   notes, faults>>

(* cancelTaskCommand reaches a session only in a machine its row says is ready. *)
Killed(t, n) ==
    IF task[t].worker # NoWorker /\ machine[task[t].worker].state = "ready"
      THEN alive \ {<<t, n>>} ELSE alive

RunUnwind(t) ==
    LET j == <<t, "run">> IN
    /\ job[j].pc = "unwind"
    /\ Survive(Killed(t, job[j].seen))
    /\ job' = [job EXCEPT ![j] = Idle]
    /\ UNCHANGED <<task, machine, poolLock, cands, agentRows, notes, faults>>

-----------------------------------------------------------------------------
(* Waking a machine, and waiting for it: run, accept, drop, reply, wake. *)

WakeDecide(j) ==
    LET w == job[j].at
        s == machine[w].state IN
    /\ job[j].pc = "wakeQ"
    /\ Holder(w, j)
    /\ Settled(w)
    /\ CASE s \in {"deleted", "broken"} ->
              /\ job' = [job EXCEPT ![j] = Now(j, "failed")]
              /\ poolLock' = Leave(w)
              /\ UNCHANGED machine /\ AgentsUnchanged
         [] s \in {"stopped", "error"} /\ machine[w].box \in {"up", "down"} ->
              /\ job' = [job EXCEPT ![j] = Now(j, "waking")]
              /\ UNCHANGED <<machine, poolLock>> /\ AgentsUnchanged
         [] s \in {"stopped", "error"} /\ machine[w].box \in {"none", "building"} ->
              /\ machine' = Rebuilt(w)
              /\ Survive(LeftAfter(w))
              /\ job' = [job EXCEPT ![j] = IF j[2] = "wake" THEN Idle ELSE Now(j, "wait")]
              /\ poolLock' = Leave(w)
         [] OTHER ->
              /\ job' = [job EXCEPT ![j] = IF j[2] = "wake" THEN Idle ELSE Now(j, "wait")]
              /\ poolLock' = Leave(w)
              /\ UNCHANGED machine /\ AgentsUnchanged
    /\ UNCHANGED <<task, cands, agentRows, notes, faults>>

(* startWorker returns: the container is up; setup then makes it ready. *)
WakeDone(j) ==
    LET w == job[j].at IN
    /\ job[j].pc = "waking"
    /\ IF machine[w].box \in {"none", "building"}
         THEN /\ job' = [job EXCEPT ![j] = Now(j, "failed")]
              /\ UNCHANGED machine
         ELSE /\ machine' = [machine EXCEPT ![w] = Box(w, "starting", "up")]
              /\ job' = [job EXCEPT ![j] = IF j[2] = "wake" THEN Idle ELSE Now(j, "wait")]
    /\ poolLock' = Leave(w)
    /\ UNCHANGED <<task, cands, agentVars, notes, faults>>

AfterWait(j) ==
    CASE j[2] = "run" /\ job[j].was = "recycled" -> "reset"
      [] j[2] = "run" /\ job[j].was # "recycled" -> "launch"
      [] j[2] = "reply" -> "launch"
      [] j[2] = "release" -> "parkQ"
      [] OTHER -> "exec"

WaitReady(j) ==
    LET w == job[j].at IN
    /\ job[j].pc = "wait"
    /\ Settled(w)
    /\ machine[w].state = "ready"
    /\ job' = [job EXCEPT ![j] =
                  IF j[2] = "run" /\ task[j[1]].state # "queued"
                    THEN Idle ELSE Now(j, AfterWait(j))]
    /\ poolLock' = IF j[2] = "release" THEN Enter(w, j) ELSE poolLock
    /\ UNCHANGED <<task, machine, cands, agentVars, notes, faults>>

(* Gone or broken: at once.  Down, or starting on a spawn pipeline that died   *)
(* with Lite: half an hour goes by.                                            *)
brokenOnly(m) == m.state \in {"deleted", "broken", "error"}  \* mutant: no deadline

GivesUp(m) ==
    \/ m.state \in {"deleted", "broken", "error", "stopped"}
    \/ m.state = "starting" /\ m.box = "none"

WaitFails(j) ==
    /\ job[j].pc = "wait"
    /\ Settled(job[j].at)
    /\ GivesUp(machine[job[j].at])
    /\ job' = [job EXCEPT ![j] = Now(j, "failed")]
    /\ UNCHANGED <<task, machine, poolLock, cands, agentVars, notes, faults>>

(* What a job does about its own failure. *)
JobFails(j) ==
    LET t == j[1] IN
    /\ job[j].pc = "failed"
    /\ CASE j[2] \in {"run", "drop"} -> FailTask(t, j)
         [] j[2] \in {"accept", "reply"} ->
              /\ task' = [task EXCEPT ![t].pending =
                     cleared(t, IF j[2] = "accept" THEN "accepting" ELSE "replying")]
              /\ job' = [job EXCEPT ![j] = Idle]
              /\ UNCHANGED poolLock
         [] OTHER -> job' = [job EXCEPT ![j] = Idle] /\ UNCHANGED <<task, poolLock>>
    /\ UNCHANGED <<machine, cands, agentVars, notes, faults>>

-----------------------------------------------------------------------------
(* Accept: the only way a task becomes done. *)

(* The row and the jobs after the decision: done if still in review, and the *)
(* machine released if the task is over, whoever ended it.                   *)
Decide(t, pending) ==
    LET j == <<t, "accept">>
        now == IF stillInReview(t) THEN "done" ELSE task[t].state IN
    /\ task' = [task EXCEPT ![t] = Row(t, now, pending, task[t].session)]
    /\ IF Releasable(t) /\ now \notin LiveStates
         THEN /\ job' = [job EXCEPT ![j] = Idle,
                                    ![<<t, "release">>] = At("tidyQ", task[t].worker)]
              /\ poolLock' = Enter(task[t].worker, <<t, "release">>)
         ELSE /\ job' = [job EXCEPT ![j] = Idle]
              /\ UNCHANGED poolLock

(* Without a command the claim, the decision and the clearing are one step. *)
validateTask(t) ==
    LET j == <<t, "accept">>
        w == task[t].worker IN
    /\ "accept" \in Clicks
    /\ task[t].state = "in-review" /\ task[t].pending # "accepting"
    /\ job[j].pc = "idle"
    /\ IF ~AcceptCommand
         THEN Decide(t, "none")
         ELSE /\ task' = [task EXCEPT ![t].pending = "accepting"]
              /\ IF w = NoWorker
                   THEN job' = [job EXCEPT ![j] = Now(j, "failed")] /\ UNCHANGED poolLock
                   ELSE job' = [job EXCEPT ![j] = At("wakeQ", w)] /\ poolLock' = Enter(w, j)
    /\ UNCHANGED <<machine, cands, agentVars, notes, faults>>

(* The validate command ran in the machine; exit 0 decides, anything else *)
(* only says so on the task.                                              *)
AcceptRan(t) ==
    LET j == <<t, "accept">> IN
    /\ job[j].pc = "exec"
    /\ \/ machine[job[j].at].box = "up" /\ Decide(t, cleared(t, "accepting"))
       \/ /\ task' = [task EXCEPT ![t].pending = cleared(t, "accepting")]
          /\ job' = [job EXCEPT ![j] = Idle]
          /\ UNCHANGED poolLock
    /\ UNCHANGED <<machine, cands, agentVars, notes, faults>>

-----------------------------------------------------------------------------
(* Drop: kill the session, run the cleanup, fail the task. *)

DropNext(t, j) ==
    LET w == task[t].worker IN
    IF DropCommand /\ w # NoWorker
      THEN /\ job' = [job EXCEPT ![j] = At("wakeQ", w)]
           /\ poolLock' = Enter(w, j)
           /\ task' = [task EXCEPT ![t].pending = IF job[j].pc = "idle" THEN "dropping" ELSE @]
      ELSE FailTask(t, j)

cancelTask(t) ==
    LET j == <<t, "drop">> IN
    /\ "drop" \in Clicks
    /\ isLive(t) /\ task[t].pending # "dropping"
    /\ job[j].pc = "idle"
    /\ IF task[t].session = 0
         THEN DropNext(t, j)
         ELSE /\ task' = [task EXCEPT ![t].pending = "dropping"]
              /\ job' = [job EXCEPT ![j] = Step("kill", NoWorker, task[t].session, "")]
              /\ UNCHANGED poolLock
    /\ UNCHANGED <<machine, cands, agentVars, notes, faults>>

DropKill(t) ==
    LET j == <<t, "drop">> IN
    /\ job[j].pc = "kill"
    /\ Survive(Killed(t, job[j].seen))
    /\ DropNext(t, j)
    /\ UNCHANGED <<machine, cands, agentRows, notes, faults>>

DropRan(t) ==
    /\ job[<<t, "drop">>].pc = "exec"
    /\ FailTask(t, <<t, "drop">>)
    /\ UNCHANGED <<machine, cands, agentVars, notes, faults>>

-----------------------------------------------------------------------------
(* Answering the agent. *)

isSessionAlive(t) ==
    LET w == task[t].worker IN
    /\ w # NoWorker /\ <<t, task[t].session>> \in alive
    /\ machine[w].state = "ready" /\ machine[w].box = "up"

(* A live session gets the reply on its stdin, from the request itself. *)
followUpLive(t) ==
    LET j == <<t, "live">> IN
    /\ "reply" \in Clicks
    /\ Interactive /\ task[t].state \in {"running", "in-review"}
    /\ isSessionAlive(t)
    /\ job[j].pc = "idle"
    /\ job' = [job EXCEPT ![j] =
          Step(IF task[t].state = "running" THEN "interject" ELSE "answer",
               task[t].worker, task[t].session, "")]
    /\ UNCHANGED <<task, machine, poolLock, cands, agentVars, notes, faults>>

(* The user's turn is recorded, then written.  A turn already under way takes *)
(* it in, or leaves it in stdin for the next one; a dead session loses it.     *)
LiveSend(t) ==
    LET j == <<t, "live">>
        s == <<t, job[j].seen>> IN
    /\ job[j].pc \in {"answer", "interject"}
    /\ handed' = handed \ {t}
    /\ parkAt' = IF job[j].pc = "interject" /\ machine[job[j].at].box = "up"
                   THEN parkAt \ {t} ELSE parkAt
    /\ job' = [job EXCEPT ![j] = IF job[j].pc = "answer" /\ machine[job[j].at].box = "up"
                                   THEN Now(j, "answered") ELSE Idle]
    /\ IF s \in alive
         THEN \/ s \notin turn /\ turn' = turn \cup {s} /\ UNCHANGED waiting
              \/ s \in turn /\ waiting' = waiting \cup {s} /\ UNCHANGED turn
              \/ s \in turn /\ UNCHANGED <<turn, waiting>>
         ELSE UNCHANGED <<turn, waiting>>
    /\ UNCHANGED <<task, older, machine, poolLock, cands, agentRows, alive, revived, faults>>

(* The write has returned: a task that was in review is running again. *)
LiveRecord(t) ==
    /\ job[<<t, "live">>].pc = "answered"
    /\ task' = [task EXCEPT ![t].state = "running"]
    /\ parkAt' = parkAt \ {t}
    /\ revived' = IF isLive(t) THEN revived ELSE revived \cup {t}
    /\ job' = [job EXCEPT ![<<t, "live">>] = Idle]
    /\ UNCHANGED <<handed, older, machine, poolLock, cands, agentVars, faults>>

(* Otherwise a new turn resumes the conversation, as a job. *)
followUpTask(t) ==
    LET j == <<t, "reply">>
        w == task[t].worker IN
    /\ "reply" \in Clicks
    /\ task[t].state = "in-review" /\ w # NoWorker
    /\ ~Interactive \/ ~isSessionAlive(t)
    /\ task[t].pending # "replying"
    /\ job[j].pc = "idle"
    /\ launched[t] < MaxSessions
    /\ task' = [task EXCEPT ![t].pending = "replying"]
    /\ parkAt' = parkAt \ {t}
    /\ job' = [job EXCEPT ![j] = At("wakeQ", w)]
    /\ poolLock' = Enter(w, j)
    /\ UNCHANGED <<handed, older, machine, cands, agentVars, revived, faults>>

-----------------------------------------------------------------------------
(* Parking a machine: entering review, a deadline come due, the Park button, *)
(* and a task that is over handing its machine back.                         *)

handPark(t) ==
    LET j == <<t, "hand">> IN
    /\ "park" \in Clicks
    /\ task[t].state = "in-review" /\ task[t].pending = "none" /\ task[t].worker # NoWorker
    /\ job[j].pc = "idle"
    /\ job' = [job EXCEPT ![j] = At("check", task[t].worker)]
    /\ UNCHANGED <<task, machine, poolLock, cands, agentVars, notes, faults>>

HandCheck(t) ==
    LET j == <<t, "hand">>
        w == job[j].at IN
    /\ job[j].pc = "check"
    /\ Settled(w)
    /\ IF machine[w].state = "ready"
         THEN /\ parkAt' = parkAt \ {t}
              /\ job' = [job EXCEPT ![j] = Now(j, "parkQ")]
              /\ poolLock' = Enter(w, j)
         ELSE /\ job' = [job EXCEPT ![j] = Idle]
              /\ UNCHANGED <<parkAt, poolLock>>
    /\ UNCHANGED <<task, handed, older, machine, cands, agentVars, revived, faults>>

keepTaskAwake(t) ==
    /\ "keep" \in Clicks
    /\ task[t].state = "in-review" /\ t \in parkAt
    /\ parkAt' = parkAt \ {t}
    /\ UNCHANGED <<task, handed, older, machine, poolLock, job, cands, agentVars,
                   revived, faults>>

wakeTask(t) ==
    LET j == <<t, "wake">>
        w == task[t].worker IN
    /\ "wake" \in Clicks
    /\ task[t].state = "in-review" /\ w # NoWorker
    /\ job[j].pc = "idle"
    /\ Settled(w) /\ machine[w].state \in {"stopped", "error"}
    /\ job' = [job EXCEPT ![j] = At("wakeQ", w)]
    /\ poolLock' = Enter(w, j)
    /\ UNCHANGED <<task, machine, cands, agentVars, notes, faults>>

(* parkDueTasks: the deadline is taken before the machine is stopped. *)
parkDue(t) ==
    LET j == <<t, "due">>
        w == task[t].worker IN
    /\ task[t].state = "in-review" /\ t \in parkAt /\ task[t].pending = "none"
    /\ job[j].pc = "idle"
    /\ parkAt' = parkAt \ {t}
    /\ IF w = NoWorker
         THEN UNCHANGED <<job, poolLock>>
         ELSE job' = [job EXCEPT ![j] = At("parkQ", w)] /\ poolLock' = Enter(w, j)
    /\ UNCHANGED <<task, handed, older, machine, cands, agentVars, revived, faults>>

(* The rebuild half of a release: an outdated machine is rebuilt for the next *)
(* task while nobody waits for it, then waited for, then parked.              *)
ReleaseTidy(t) ==
    LET j == <<t, "release">>
        w == job[j].at IN
    /\ job[j].pc = "tidyQ"
    /\ Holder(w, j)
    /\ IF machine[w].outdated /\ machine[w].state \in {"ready", "stopped"}
          /\ ~heldByLiveTask(w, NoTask)
         THEN /\ machine' = Rebuilt(w)
              /\ Survive(LeftAfter(w))
              /\ job' = [job EXCEPT ![j] = Now(j, "wait")]
              /\ poolLock' = Leave(w)
         ELSE /\ job' = [job EXCEPT ![j] = Now(j, "parkQ")]
              /\ poolLock' = LeaveAndEnter(w, j)
              /\ UNCHANGED machine /\ AgentsUnchanged
    /\ UNCHANGED <<task, cands, agentRows, notes, faults>>

ParkBlindly(j) ==  \* mutant: nothing but the machine is asked again
    machine[job[j].at].state = "ready"

(* What each kind of park still asks once it holds the lock. *)
StillPark(j) ==
    LET t == j[1]
        w == job[j].at IN
    CASE j[2] = "settle" -> machine[w].state = "ready" /\ task[t].state = "in-review"
      [] j[2] = "due" -> /\ machine[w].state = "ready" /\ task[t].state = "in-review"
                         /\ task[t].pending = "none"
      [] j[2] = "release" -> machine[w].state = "ready" /\ ~heldByLiveTask(w, NoTask)
      [] OTHER -> machine[w].box \in {"up", "down"}

(* stopWorker writes `stopped` before the container goes down. *)
ParkDecide(j) ==
    LET w == job[j].at IN
    /\ job[j].pc = "parkQ"
    /\ Holder(w, j)
    /\ j[2] = "hand" \/ Settled(w)
    /\ IF StillPark(j)
         THEN /\ machine' = [machine EXCEPT ![w].state = "stopped"]
              /\ job' = [job EXCEPT ![j] = Step("stopping", w, job[j].seen, machine[w].state)]
              /\ UNCHANGED poolLock
         ELSE /\ job' = [job EXCEPT ![j] = Idle]
              /\ poolLock' = Leave(w)
              /\ UNCHANGED machine
    /\ UNCHANGED <<task, cands, agentVars, notes, faults>>

StopDone(j) ==
    LET w == job[j].at IN
    /\ job[j].pc = "stopping"
    /\ machine' = [machine EXCEPT ![w].box = IF @ = "up" THEN "down" ELSE @]
    /\ Survive(LeftAfter(w))
    /\ job' = [job EXCEPT ![j] = Idle]
    /\ poolLock' = Leave(w)
    /\ UNCHANGED <<task, cands, agentRows, notes, faults>>

(* Docker refused the stop: the row is put back. *)
StopFails(j) ==
    LET w == job[j].at IN
    /\ "stopfails" \in Faults /\ faults < MaxFaults /\ faults' = faults + 1
    /\ job[j].pc = "stopping"
    /\ machine' = [machine EXCEPT ![w].state = IF @ = "deleted" THEN @ ELSE job[j].was]
    /\ job' = [job EXCEPT ![j] = Idle]
    /\ poolLock' = Leave(w)
    /\ UNCHANGED <<task, cands, agentVars, notes>>

-----------------------------------------------------------------------------
(* Deriving a running task's state from its machine and its session. *)

RefreshBegin(t) ==
    LET j == <<t, "refresh">> IN
    /\ task[t].state = "running" /\ task[t].worker # NoWorker /\ task[t].session # 0
    /\ job[j].pc = "idle"
    /\ job' = [job EXCEPT ![j] =
          Step("derive", task[t].worker, task[t].session, "")]
    /\ UNCHANGED <<task, machine, poolLock, cands, agentVars, notes, faults>>

fellOnly(w) == machine[w].state = "error"  \* mutant: a stopped machine is ignored

isDown(w) == machine[w].state \in {"stopped", "error"}

(* machineDown, then sessionState: what a reader who read the row with       *)
(* session n concludes, `over` being what the event log says by then.  The  *)
(* session's row is reconciled in a ready machine only.                        *)
Verdicts(t, w, n, over) ==
    LET s == <<t, n>>
        ended == IF Interactive THEN over ELSE s \in unread IN
    CASE machine[w].state \in {"deleted", "broken"} -> {"failed"}
      [] isDown(w) -> IF Interactive /\ over THEN {"in-review"} ELSE {"in-review", "failed"}
      [] machine[w].state \in {"starting", "stopped"} /\ ~isDown(w) ->
           IF Interactive /\ over THEN {"in-review"} ELSE {"running"}
      [] machine[w].state = "ready" /\ s \in alive ->
           IF Interactive /\ over THEN {"in-review"} ELSE {"running"}
      [] OTHER ->  \* ready, and the session is dead
           IF ended THEN {"in-review"} ELSE {"in-review", "failed"}

(* machineDown puts a task in review without settling: its machine is down. *)
SettleFrom(w) == ReviewStop /\ ~isDown(w)

(* The guarded update: the verdict counts only for a task still running.     *)
Conclude(t, v) ==
    LET j == <<t, "refresh">>
        w == task[t].worker
        moves == stillRunning(t) /\ v # "running"
        frees == moves /\ v = "failed" /\ Releasable(t)
        settles == moves /\ v = "in-review" /\ SettleFrom(job[j].at) /\ w # NoWorker
        parks == settles /\ ~DelayedPark /\ job[<<t, "settle">>].pc = "idle"
        Queue(k, pc) == /\ job' = [job EXCEPT ![j] = Idle, ![<<t, k>>] = At(pc, w)]
                        /\ poolLock' = Enter(w, <<t, k>>) IN
    /\ task' = [task EXCEPT ![t].state = IF moves THEN v ELSE @]
    /\ parkAt' = IF settles /\ DelayedPark THEN parkAt \cup {t} ELSE parkAt
    /\ \/ frees /\ Queue("release", "tidyQ")
       \/ parks /\ Queue("settle", "parkQ")
       \/ ~frees /\ ~parks /\ job' = [job EXCEPT ![j] = Idle] /\ UNCHANGED poolLock

(* The session's stream is read in a ready machine: each time once the session *)
(* is dead, at intervals while it lives.  Only what the row's session wrote    *)
(* is taken in.                                                               *)
refreshTask(t, reads) ==
    LET j == <<t, "refresh">>
        w == job[j].at
        s == <<t, job[j].seen>>
        ingests == reads /\ Interactive /\ s \in unread /\ s[2] = task[t].session
        over == t \in handed \/ ingests IN
    /\ job[j].pc = "derive"
    /\ Settled(w)
    /\ reads => machine[w].state = "ready"
    /\ machine[w].state = "ready" /\ s \notin alive => reads
    /\ unread' = IF ingests THEN unread \ {s} ELSE unread
    /\ handed' = IF ingests THEN handed \cup {t} ELSE handed
    /\ \E v \in Verdicts(t, w, job[j].seen, over) : Conclude(t, v)
    /\ AgentsUnchanged
    /\ UNCHANGED <<older, machine, trace, cands, launched, rows, revived, faults>>

-----------------------------------------------------------------------------
(* What happens around the jobs: the agents, the containers, the readers. *)

(* A turn ends.  An interactive session says so in its stream and goes on   *)
(* with whatever waits in its stdin; a one-shot harness exits.              *)
TurnEnds(s) ==
    /\ s \in alive \cap turn
    /\ unread' = unread \cup {s}
    /\ waiting' = waiting \ {s}
    /\ turn' = IF s \in waiting THEN turn ELSE turn \ {s}
    /\ alive' = IF Interactive THEN alive ELSE alive \ {s}
    /\ UNCHANGED <<task, machine, trace, poolLock, job, cands, launched, rows, notes, faults>>

(* A session between two turns is killed when its six hours are over. *)
SessionTimesOut(s) ==
    /\ s \in alive \ turn
    /\ Survive(alive \ {s})
    /\ UNCHANGED <<task, machine, poolLock, job, cands, agentRows, notes, faults>>

(* The spawn pipeline created the container; its setup ran to the end. *)
Built(w) ==
    /\ machine[w].box = "building"
    /\ machine' = [machine EXCEPT ![w].box = "up"]
    /\ UNCHANGED <<task, poolLock, job, cands, agentVars, notes, faults>>

BecomesReady(w) ==
    /\ machine[w].state = "starting" /\ machine[w].box = "up"
    /\ machine' = [machine EXCEPT ![w].state = "ready"]
    /\ UNCHANGED <<task, poolLock, job, cands, agentVars, notes, faults>>

Poll(w) ==
    /\ ~Settled(w)
    /\ \E s \in DownAs(w) : machine' = [machine EXCEPT ![w].state = s]
    /\ UNCHANGED <<task, poolLock, job, cands, agentVars, notes, faults>>

Fault(f) == f \in Faults /\ faults < MaxFaults /\ faults' = faults + 1

(* The process of a session is gone, whatever it was doing. *)
SessionDies(s) ==
    /\ Fault("die")
    /\ s \in alive
    /\ Survive(alive \ {s})
    /\ UNCHANGED <<task, machine, poolLock, job, cands, agentRows, notes>>

(* A machine is still setting up half an hour later. *)
WaitTimesOut(j) ==
    /\ Fault("slow")
    /\ job[j].pc = "wait"
    /\ machine[job[j].at].state = "starting"
    /\ job' = [job EXCEPT ![j] = Now(j, "failed")]
    /\ UNCHANGED <<task, machine, poolLock, cands, agentVars, notes>>

SetupFails(w) ==
    /\ Fault("setup")
    /\ machine[w].box = "building"
    /\ machine' = [machine EXCEPT ![w] = Box(w, "broken", "none")]
    /\ UNCHANGED <<task, poolLock, job, cands, agentVars, notes>>

(* A container goes down on its own, with the computer, or by hand. *)
MachineFalls(w) ==
    /\ Fault("fall")
    /\ machine[w].box = "up"
    /\ machine' = [machine EXCEPT ![w].box = "down"]
    /\ Survive(LeftAfter(w))
    /\ UNCHANGED <<task, poolLock, job, cands, agentRows, notes>>

(* A stopped container is pruned: the row knows it has none left. *)
MachinePruned(w) ==
    /\ Fault("prune")
    /\ machine[w].state = "stopped" /\ machine[w].box = "down"
    /\ machine' = [machine EXCEPT ![w].box = "none"]
    /\ UNCHANGED <<task, poolLock, job, cands, agentVars, notes>>

(* deleteWorker: the rows that reference it lose it (ON DELETE SET NULL). *)
deleteWorker(w) ==
    /\ Fault("delete")
    /\ machine[w].state \notin {"absent", "deleted"}
    /\ machine' = [machine EXCEPT ![w] = Box(w, "deleted", "none")]
    /\ Survive(LeftAfter(w))
    /\ task' = [t \in Tasks |->
          [state |-> task[t].state, pending |-> task[t].pending, session |-> task[t].session,
           worker |-> IF task[t].worker = w THEN NoWorker ELSE task[t].worker]]
    /\ UNCHANGED <<poolLock, job, cands, agentRows, notes>>

(* The project's configuration moves: every machine is built on an older one. *)
projectEdited ==
    /\ Fault("edit")
    /\ machine' = [w \in Workers |->
          [state |-> machine[w].state, box |-> machine[w].box,
           outdated |-> machine[w].state \notin {"absent", "deleted"}]]
    /\ UNCHANGED <<task, poolLock, job, cands, agentVars, notes>>

forgetful(t) == IF task[t].pending = "dropping" THEN "none" ELSE task[t].pending  \* mutant
recovered(t) == "none"
replaceable(t) == "pick"  \* mutant: a resumed run allocates again
resumesAt(t) == IF task[t].worker = NoWorker THEN "pick" ELSE "resume"
launching(t) == task[t].state = "queued" /\ task[t].worker # NoWorker  \* mutant
interrupted(t) == task[t].state = "queued"

(* Lite itself restarts.  The jobs and the locks lived in its process; the   *)
(* containers and the agents did not.  Docker finishes a stop it was asked   *)
(* for, may or may not have started a machine, and a spawn pipeline is lost. *)
(* Then recoverInterruptedTasks, before anything else runs.                  *)
Restart ==
    LET dropped == {t \in Tasks : task[t].pending = "dropping" /\ isLive(t)}
        resumed == {t \in Tasks : interrupted(t)} \ dropped
        stopping == {job[j].at : j \in {i \in Jobs : job[i].pc = "stopping"}}
        waking == {job[j].at : j \in {i \in Jobs : job[i].pc = "waking"}} IN
    /\ Fault("restart")
    /\ task' = [t \in Tasks |->
          Row(t, IF t \in dropped THEN "failed" ELSE task[t].state, recovered(t), task[t].session)]
    /\ \E started \in SUBSET waking :
         machine' = [w \in Workers |-> Box(w, machine[w].state,
            CASE machine[w].box = "up" /\ w \in stopping -> "down"
              [] machine[w].box = "down" /\ w \in started -> "up"
              [] machine[w].box = "building" -> "none"
              [] OTHER -> machine[w].box)]
    /\ Survive({s \in alive : task[s[1]].worker \notin stopping})
    /\ poolLock' = [w \in Workers |-> <<>>]
    /\ job' = [j \in Jobs |->
          CASE j[2] = "run" /\ j[1] \in resumed ->
                 At(resumesAt(j[1]), NoWorker)
            [] j[2] = "release" /\ j[1] \in dropped -> At("resume", NoWorker)
            [] OTHER -> Idle]
    /\ cands' = [t \in Tasks |->
          IF t \in resumed /\ resumesAt(t) = "pick" THEN pool ELSE {}]
    /\ UNCHANGED <<agentRows, notes>>

(* The release of a Drop the restart finished. *)
ReleaseResume(t) ==
    LET j == <<t, "release">>
        w == task[t].worker IN
    /\ job[j].pc = "resume"
    /\ IF w # NoWorker /\ ~isLive(t) /\ ~heldByLiveTask(w, NoTask)
         THEN job' = [job EXCEPT ![j] = At("tidyQ", w)] /\ poolLock' = Enter(w, j)
         ELSE job' = [job EXCEPT ![j] = Idle] /\ UNCHANGED poolLock
    /\ UNCHANGED <<task, machine, cands, agentVars, notes, faults>>

-----------------------------------------------------------------------------
Click(t) ==
    \/ createTask(t) \/ validateTask(t) \/ cancelTask(t)
    \/ followUpLive(t) \/ followUpTask(t)
    \/ handPark(t) \/ keepTaskAwake(t) \/ wakeTask(t)

RunStep(t) ==
    \/ RunPick(t) \/ RunClaim(t) \/ RunRebuild(t) \/ RunResume(t) \/ RunReset(t)
    \/ RunRecord(t) \/ RunUnwind(t)
    \/ \E w \in Workers : RunChoose(t, w) \/ RunSpawn(t, w)
    \/ \E k \in {"run", "reply"} : Launch(t, k) \/ Started(t, k) \/ StdinFails(t, k)

TaskStep(t) ==
    \/ ReplyRecord(t) \/ AcceptRan(t) \/ DropKill(t) \/ DropRan(t)
    \/ LiveSend(t) \/ LiveRecord(t) \/ HandCheck(t) \/ ReleaseTidy(t)
    \/ ReleaseResume(t)

MachineStep(j) ==
    \/ WakeDecide(j) \/ WakeDone(j) \/ WaitReady(j) \/ WaitFails(j) \/ JobFails(j)
    \/ ParkDecide(j) \/ StopDone(j)

(* The scheduler and the readers of the dashboard. *)
Tick(t) == RefreshBegin(t) \/ parkDue(t)

World ==
    \/ \E s \in Sessions : TurnEnds(s) \/ SessionTimesOut(s)
    \/ \E w \in Workers : Built(w) \/ BecomesReady(w) \/ Poll(w)

Disturbance ==
    \/ \E s \in Sessions : SessionDies(s)
    \/ \E w \in Workers : SetupFails(w) \/ MachineFalls(w) \/ MachinePruned(w) \/ deleteWorker(w)
    \/ \E j \in Jobs : StopFails(j) \/ WaitTimesOut(j)
    \/ projectEdited \/ Restart

Next ==
    \/ \E t \in Tasks : Click(t) \/ RunStep(t) \/ TaskStep(t) \/ Tick(t)
                        \/ \E reads \in BOOLEAN : refreshTask(t, reads)
    \/ \E j \in Jobs : MachineStep(j)
    \/ World
    \/ Disturbance

Spec == Init /\ [][Next]_vars
-----------------------------------------------------------------------------
(* A task owns its machine until it is over (the pool lock's claim, and the   *)
(* guarded row updates of every job): two live tasks never share one, unless  *)
(* a live reply re-opened a task that was already over.                       *)
ExclusiveHold ==
    \A t, u \in Tasks :
        t # u /\ isLive(t) /\ isLive(u) /\ task[t].worker = task[u].worker
          => task[t].worker = NoWorker \/ t \in revived \/ u \in revived

(* releaseTaskWorker: handing a machine back never stops it under the task    *)
(* that has taken it since, however long the stop takes.                      *)
ReleaseSparesNextTask ==
    \A t, u \in Tasks :
        LET w == job[<<t, "release">>].at IN
        job[<<t, "release">>].pc = "stopping" /\ isLive(u) /\ task[u].worker = w
          => u \in revived

(* Every action in flight says so only while its job runs: nothing is left   *)
(* "accepting..." for ever by an early return, a failure or a restart.        *)
PendingHasJob ==
    \A t \in Tasks :
        /\ task[t].pending = "accepting" => job[<<t, "accept">>].pc # "idle"
        /\ task[t].pending = "dropping" => job[<<t, "drop">>].pc # "idle"
        /\ task[t].pending = "replying" => job[<<t, "reply">>].pc # "idle"

(* A queued task always has its run in flight: no path loses it. *)
QueuedHasRun ==
    \A t \in Tasks : task[t].state = "queued" => job[<<t, "run">>].pc # "idle"

(* withPoolLock: whoever is waiting is still in the chain of the machine it    *)
(* waits for, once, and nobody but its head moves the machine.                 *)
LockSteps == {"claim", "wakeQ", "waking", "tidyQ", "parkQ", "stopping"}

LockHasHolder ==
    /\ \A w \in Workers : \A i, k \in 1..Len(poolLock[w]) :
         LET j == poolLock[w][i] IN
         /\ job[j].at = w /\ job[j].pc \in LockSteps
         /\ job[j].pc \in {"waking", "stopping"} => i = 1
         /\ poolLock[w][k] = j => i = k
    /\ \A j \in Jobs :
         job[j].pc \in LockSteps => \E i \in 1..Len(poolLock[job[j].at]) : poolLock[job[j].at][i] = j

(* The next task's reset or launch never touches the workspace of a task that *)
(* is still to be judged (findFreePoolWorker, "free").  The one thing that does *)
(* is the rest of a run, or of a reply, whose own task was dropped or accepted *)
(* while it was waiting for the machine.                                      *)
ReviewedWorkspaceKept ==
    [][\A w \in Workers, t \in Tasks :
          trace[w] = t /\ trace'[w] # t
            => \/ ~isLive(t) \/ task[t].worker # w \/ t \in revived
               \/ \E u \in Tasks, k \in {"run", "reply"} :
                     /\ u = t \/ ~isLive(u) \/ u \in revived
                     /\ job[<<u, k>>].at = w /\ job[<<u, k>>].pc \in {"reset", "launch"}]_vars

(* No background read, retry or late job brings back a task that is over: what *)
(* was done or failed stays so, but for a reply already on its way to a live   *)
(* session, and for a Drop that lands on a task accepted meanwhile.            *)
OnlyPeopleReopen ==
    [][\A t \in Tasks :
          task[t].state \in {"done", "failed"} /\ task'[t].state # task[t].state
            => \/ job[<<t, "live">>].pc = "answered"
               \/ task'[t].state = "failed" /\ job[<<t, "drop">>].pc # "idle"]_vars

-----------------------------------------------------------------------------
(* The abstract pool, implemented: the machines' holders are the live tasks   *)
(* whose row names them, and every step of every job takes a machine nobody    *)
(* holds, gives some back, re-opens a task, or leaves the holding alone.       *)
hold == [w \in Workers |-> {t \in Tasks : isLive(t) /\ task[t].worker = w}]
Pool == INSTANCE PoolHold WITH hold <- hold, reopened <- revived
PoolSpec == Pool!Spec

-----------------------------------------------------------------------------
(* Under a server that keeps running its jobs, a scheduler that keeps ticking *)
(* (every 10 s, far above the interval between two reads of a live session's  *)
(* stream), and agents whose turns end (a session is killed after 6 h).        *)
Fairness ==
    /\ \A t \in Tasks : /\ WF_vars(RunStep(t))
                        /\ WF_vars(TaskStep(t))
                        /\ WF_vars(Tick(t))
                        /\ WF_vars(\E reads \in BOOLEAN : refreshTask(t, reads))
                        /\ SF_vars(refreshTask(t, TRUE))
    /\ \A j \in Jobs : WF_vars(MachineStep(j))
    /\ \A s \in Sessions : WF_vars(TurnEnds(s)) /\ WF_vars(SessionTimesOut(s))
    /\ \A w \in Workers : WF_vars(Built(w)) /\ WF_vars(BecomesReady(w)) /\ WF_vars(Poll(w))

FairSpec == Spec /\ Fairness

(* A running task's agent is at work, or has something to say, or is dead:    *)
(* no task waits on an agent that was never given its turn.                   *)
RunningHasWork ==
    \A t \in Tasks :
        LET s == <<t, task[t].session>> IN
        Interactive /\ task[t].state = "running" /\ s \in alive
          => s \in turn \/ s \in unread \/ t \in handed

(* A task owns its machine until it is over (findFreePoolWorker): nobody       *)
(* else's reset or launch ever touches the workspace it is judged on.          *)
OwnedUntilOver ==
    [][\A w \in Workers, t \in Tasks :
          trace[w] = t /\ trace'[w] # t
            => ~isLive(t) \/ task[t].worker # w \/ t \in revived]_vars

(* A task never stays queued: it gets a machine and a session, or fails. *)
QueuedLeaves == \A t \in Tasks : task[t].state = "queued" ~> task[t].state # "queued"

(* A task never stays running once its agent has stopped (Cloud #391, the     *)
(* comment in refreshTask): handing back, dying and losing its machine all     *)
(* come to be noticed, dashboard open or not.                                  *)
RunningEnds == \A t \in Tasks : task[t].state = "running" ~> task[t].state # "running"

(* Every click in flight comes to an end ("Accepting..." is never for ever). *)
PendingClears ==
    \A t \in Tasks, a \in Pendings \ {"none"} : task[t].pending = a ~> task[t].pending # a

(* releaseTaskWorker: the machine of a task that is over goes back parked.   *)
(* It comes to be stopped, unless it is taken again, broken or gone.           *)
OverButUp(t, w) ==
    /\ task[t].state \in {"done", "failed"} /\ task[t].worker = w
    /\ ~heldByLiveTask(w, NoTask) /\ machine[w].state = "ready"

HandedBackParked ==
    \A t \in Tasks, w \in Workers : OverButUp(t, w) ~> ~OverButUp(t, w)
=============================================================================
