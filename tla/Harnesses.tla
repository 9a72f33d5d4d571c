----------------------------- MODULE Harnesses -----------------------------
(***************************************************************************)
(* The agent apps tasks run under (lib/agent-apps.ts): which a project     *)
(* allows (components/project-task-fields.tsx), which one a task is        *)
(* delegated to, with what model and parameters (components/new-task.tsx,  *)
(* createTask), how its sessions are started and in which dialect they are *)
(* read and written to afterwards (runTask, followUpTask, interruptTask),  *)
(* tasks an older Lite left behind included.                               *)
(*                                                                         *)
(* One project.  An absent model, parameter or app is "".  Each app has    *)
(* one parameter, the effort.  A worker is its image: TaskPool and         *)
(* WorkerLifecycle have the rest of it.                                    *)
(***************************************************************************)
EXTENDS Naturals, FiniteSets, Sequences, Functions

CONSTANTS
    Apps,        \* AGENT_APPS
    Models,      \* models an app can be asked for
    Efforts,     \* values of the parameter
    Takes,       \* per app and model, the values it takes; of "", its own default model
    Delegations, \* ids tasks may get
    Answers,     \* replies and interruptions in flight at once
    MaxSessions  \* bound: sessions launched

VARIABLES
    settings, \* the project's apps, the first being the default, and a model per app
    cached,   \* the project as the composer has it
    tasks,    \* rows of `tasks`
    image,    \* per task, the apps in the image of its worker
    launched, \* sessions, in order
    run,      \* per task, its run job
    answer,   \* replies and interruptions in flight
    pending,  \* tasks with a reply claimed
    runner,   \* per app, its runner's bundle in this process
    crossed,  \* history: tasks whose app was dropped under a job, or whose worker was rebuilt without it
    garbled   \* history: a session was read or written to in a dialect that is not its own

vars == <<settings, cached, tasks, image, launched, run, answer, pending, runner, crossed, garbled>>

None == [none |-> TRUE]
Settings == {s \in [apps : UNION {[1..n -> Apps] : n \in 0..Cardinality(Apps)},
                    models : [Apps -> Models \cup {""}]] : IsInjective(s.apps)}
Dialects == {"contract", "cli"} \cup Apps
Row == [app : Apps \cup {""}, model : Models \cup {""}, effort : Efforts \cup {""},
        state : {"queued", "running", "in-review", "failed", "done"}, worker : BOOLEAN,
        command : 0..MaxSessions, dialect : Dialects \cup {""}, asked : Apps \cup {""}]
NoAnswer == [pc |-> "idle"]
Answer == [pc : {"read", "wake", "harness", "bundle", "launch", "record"},
           kind : {"reply", "interrupt"}, t : Delegations, dialect : Dialects,
           command : 0..MaxSessions]

HarnessTypes ==
    /\ settings \in Settings /\ cached \in Settings
    /\ tasks \in [Delegations -> Row \cup {None}] /\ image \in [Delegations -> SUBSET Apps]
    /\ launched \in Seq([t : Delegations, dialect : Dialects, carried : BOOLEAN])
    /\ run \in [Delegations -> {"none", "start", "harness", "bundle", "prepare", "launch", "record"}]
    /\ answer \in [Answers -> Answer \cup {NoAnswer}]
    /\ pending \subseteq Delegations /\ crossed \subseteq Delegations /\ garbled \in BOOLEAN
    /\ runner \in [Apps -> {"none", "bundling", "kept"}]

exists(t) == tasks[t] # None

-----------------------------------------------------------------------------
(* Dialects. *)

(* An app's runners speak the contract; what ran a task from before agent   *)
(* apps speaks its project's.                                                *)
protocol(app) == IF app = "" THEN "cli" ELSE "contract"
legacyProtocol(app) == IF app = "" THEN "cli" ELSE app

protocolOf(row) ==
    IF row.dialect # "" THEN row.dialect
    ELSE IF row.command # 0 THEN legacyProtocol(row.app) ELSE protocol(row.app)

(* A session is read or written to in a dialect; `since` is the session the *)
(* task was on when the dialect was derived, and a request that was          *)
(* overtaken since does not count.                                           *)
Spoken(command, dialect, since) ==
    garbled' = (garbled \/ (since = command /\ launched[command].dialect # dialect))

-----------------------------------------------------------------------------
(* The settings (project-task-fields.tsx), saved with the rest of the form. *)

without(apps, a) == SelectSeq(apps, LAMBDA b : b # a)
toggleApp(s, a) ==
    IF a \in Range(s.apps) THEN [apps |-> without(s.apps, a), models |-> [s.models EXCEPT ![a] = ""]]
    ELSE [s EXCEPT !.apps = Append(@, a)]
makeDefault(s, a) == [s EXCEPT !.apps = <<a>> \o without(@, a)]
setModel(s, a, m) == [s EXCEPT !.models[a] = m]
Changes(s) ==
    {toggleApp(s, a) : a \in Apps}
    \cup {makeDefault(s, a) : a \in Range(s.apps)}
    \cup {setModel(s, a, m) : a \in Range(s.apps), m \in Models \cup {""}}

checked == {"harness", "bundle", "prepare", "launch", "record"} \* past taskAgentAppBlocker
underWay(t) ==
    run[t] \in checked \/ \E r \in Answers : answer[r] # NoAnswer /\ answer[r].t = t /\ t \in pending
drops(apps, t) == exists(t) /\ tasks[t].app # "" /\ tasks[t].app \notin Range(apps)
dropped(t) == drops(settings.apps, t)

saveSettings ==
    /\ settings' \in Changes(settings)
    /\ crossed' = crossed \cup {t \in Delegations : underWay(t) /\ drops(settings'.apps, t)}
    /\ UNCHANGED <<cached, tasks, image, launched, run, answer, pending, runner, garbled>>

-----------------------------------------------------------------------------
(* Delegating. *)

refetch ==
    /\ cached' = settings
    /\ UNCHANGED <<settings, tasks, image, launched, run, answer, pending, runner, crossed, garbled>>

(* What the composer sends: the harness picked, if the project it knows      *)
(* allows it; a model and an effort as they were picked, if they were under  *)
(* this harness and this model.                                               *)
harnessOf(pick) ==
    IF pick \in Range(cached.apps) THEN pick
    ELSE IF cached.apps # <<>> THEN cached.apps[1] ELSE ""
effectiveModel(app, typed) ==
    IF typed.key = app /\ typed.model # "" THEN typed.model
    ELSE IF app = "" THEN "" ELSE cached.models[app]
allowedEffort(app, model, effort) ==
    IF app # "" /\ effort \in Takes[app][model] THEN effort ELSE ""
Composed(pick, typed, effort) ==
    LET app == harnessOf(pick) IN
    {[app |-> app, model |-> m, effort |-> allowedEffort(app, effectiveModel(app, typed), effort)] :
     m \in {""} \cup IF typed.key = app THEN {typed.model} ELSE {}}
Bodies ==
    UNION {Composed(pick, typed, effort) : pick \in Apps, effort \in Efforts \cup {""},
           typed \in [key : Apps, model : Models \cup {""}]}

resolveTaskAgentApp(requested) == IF requested = "" THEN settings.apps[1] ELSE requested
modelOf(app, body) == IF body.model # "" THEN body.model ELSE settings.models[app]
resolveAgentOptions(app, model, effort) == effort # "" => effort \in Takes[app][model]

createTask(t, body) ==
    LET app == resolveTaskAgentApp(body.app) model == modelOf(app, body) IN
    /\ tasks[t] = None /\ settings.apps # <<>>
    /\ body.app \in Range(settings.apps) \cup {""}
    /\ resolveAgentOptions(app, model, body.effort)
    /\ tasks' = [tasks EXCEPT ![t] =
          [app |-> app, model |-> model, effort |-> body.effort, state |-> "queued",
           worker |-> FALSE, command |-> 0, dialect |-> "", asked |-> body.app]]
    /\ run' = [run EXCEPT ![t] = "start"]
    /\ UNCHANGED <<settings, cached, image, launched, answer, pending, runner, crossed, garbled>>

-----------------------------------------------------------------------------
(* Launching a session. *)

taskAgentAppBlocker(t) == dropped(t)
allowed == Range(settings.apps)
sessions(t) == {n \in DOMAIN launched : launched[n].t = t}
latest(t) == CHOOSE n \in sessions(t) : \A m \in sessions(t) : m <= n
fits(t) == tasks[t].app = "" \/ tasks[t].app \in image[t] \/ t \in crossed

startAgentSession(t) ==
    /\ Len(launched) < MaxSessions
    /\ launched' = Append(launched, [t |-> t, dialect |-> protocol(tasks[t].app), carried |-> fits(t)])

(* runnerPayload: the first session of a process has the runner bundled, the *)
(* others wait for it or find it.  Where each goes next:                      *)
bundleNeeded(app) == app # "" /\ runner[app] # "kept"
Bundling(app) ==
    runner' = IF bundleNeeded(app) THEN [runner EXCEPT ![app] = "bundling"] ELSE runner

(* The bundle is kept, or it failed and the next session tries again. *)
BundleEnds(app, ok) ==
    LET of(t) == exists(t) /\ tasks[t].app = app
        waiting == {r \in Answers : answer[r] # NoAnswer /\ answer[r].pc = "bundle" /\ of(answer[r].t)}
    IN
    /\ runner[app] = "bundling"
    /\ runner' = [runner EXCEPT ![app] = IF ok THEN "kept" ELSE "none"]
    /\ run' = [t \in Delegations |-> IF run[t] = "bundle" /\ of(t)
                                       THEN IF ok THEN "prepare" ELSE "none" ELSE run[t]]
    /\ tasks' = [t \in Delegations |-> IF run[t] = "bundle" /\ of(t) /\ ~ok
                                         THEN [tasks[t] EXCEPT !.state = "failed"] ELSE tasks[t]]
    /\ answer' = [r \in Answers |-> IF r \in waiting
                                      THEN IF ok THEN [answer[r] EXCEPT !.pc = "launch"] ELSE NoAnswer
                                      ELSE answer[r]]
    /\ pending' = IF ok THEN pending ELSE pending \ {answer[r].t : r \in waiting}
    /\ UNCHANGED <<settings, cached, image, launched, crossed, garbled>>

(* runTask: a worker of the project as it is, then the harness, its dialect  *)
(* on the row, and the session.  One launched before a restart is adopted.   *)
runGoes(t, pc) == run' = [run EXCEPT ![t] = pc]
fails(t) == tasks' = [tasks EXCEPT ![t].state = "failed"] /\ runGoes(t, "none") /\ UNCHANGED image

runTask(t) ==
    /\ run[t] = "start"
    /\ CASE tasks[t].state # "queued" -> runGoes(t, "none") /\ UNCHANGED <<tasks, image>>
         [] tasks[t].state = "queued" /\ taskAgentAppBlocker(t) -> fails(t)
         [] tasks[t].state = "queued" /\ ~taskAgentAppBlocker(t) /\ sessions(t) # {} ->
              /\ tasks' = [tasks EXCEPT ![t].command = latest(t),
                                       ![t].state = "running"]
              /\ runGoes(t, "none") /\ UNCHANGED image
         [] OTHER ->
              /\ tasks' = [tasks EXCEPT ![t].worker = TRUE]
              /\ \E kept \in {tasks[t].worker, FALSE} :
                    image' = IF kept THEN image ELSE [image EXCEPT ![t] = allowed]
              /\ runGoes(t, "harness")
    /\ UNCHANGED <<settings, cached, launched, answer, pending, runner, crossed, garbled>>

taskHarness(t) ==
    /\ run[t] = "harness"
    /\ IF tasks[t].state # "queued" THEN runGoes(t, "none") /\ UNCHANGED runner
       ELSE /\ Bundling(tasks[t].app)
            /\ runGoes(t, IF bundleNeeded(tasks[t].app) THEN "bundle" ELSE "prepare")
    /\ UNCHANGED <<settings, cached, tasks, image, launched, answer, pending, crossed, garbled>>

withTheCommand(t) == tasks  \* mutant: written with the command id, once the session runs
dialectWritten(t) ==
    IF tasks[t].state = "queued" THEN [tasks EXCEPT ![t].dialect = protocol(tasks[t].app)] ELSE tasks

Prepares(t) ==
    /\ run[t] = "prepare" /\ runGoes(t, "launch")
    /\ tasks' = dialectWritten(t)
    /\ UNCHANGED <<settings, cached, image, launched, answer, pending, runner, crossed, garbled>>

Launches(t) ==
    /\ run[t] = "launch" /\ runGoes(t, "record")
    /\ startAgentSession(t)
    /\ UNCHANGED <<settings, cached, tasks, image, answer, pending, runner, crossed, garbled>>

(* A task dropped meanwhile has its session killed. *)
Records(t) ==
    /\ run[t] = "record" /\ runGoes(t, "none")
    /\ tasks' = IF tasks[t].state # "queued" THEN tasks
                ELSE [tasks EXCEPT ![t].command = latest(t), ![t].state = "running"]
    /\ UNCHANGED <<settings, cached, image, launched, answer, pending, runner, crossed, garbled>>

-----------------------------------------------------------------------------
(* Reading, replying, interrupting. *)

(* refreshTask: the session handed back, which its stream says. *)
HandsBack(t) ==
    /\ exists(t) /\ tasks[t].state = "running"
    /\ Spoken(tasks[t].command, protocolOf(tasks[t]), tasks[t].command)
    /\ tasks' = [tasks EXCEPT ![t].state = "in-review"]
    /\ UNCHANGED <<settings, cached, image, launched, run, answer, pending, runner, crossed>>

(* The row is read for its dialect first. *)
followUpTask(r, t, kind) ==
    /\ answer[r] = NoAnswer /\ exists(t) /\ tasks[t].state \in {"running", "in-review"}
    /\ answer' = [answer EXCEPT ![r] = [pc |-> "read", kind |-> kind, t |-> t,
                       dialect |-> protocolOf(tasks[t]), command |-> tasks[t].command]]
    /\ UNCHANGED <<settings, cached, tasks, image, launched, run, pending, runner, crossed, garbled>>

answerGoes(r, pc) == answer' = [answer EXCEPT ![r].pc = pc]
Answered(r) == answer' = [answer EXCEPT ![r] = NoAnswer]

(* Written into the live session, which a reply sends back to work. *)
writeTaskStdin(r) ==
    LET t == answer[r].t IN
    /\ answer[r] # NoAnswer /\ answer[r].pc = "read"
    /\ tasks[t].state \in IF answer[r].kind = "reply" THEN {"running", "in-review"} ELSE {"running"}
    /\ Spoken(tasks[t].command, answer[r].dialect, answer[r].command)
    /\ tasks' = IF answer[r].kind = "reply" THEN [tasks EXCEPT ![t].state = "running"] ELSE tasks
    /\ Answered(r)
    /\ UNCHANGED <<settings, cached, image, launched, run, pending, runner, crossed>>

(* Or refused: the session is not listening, its harness was dropped, another *)
(* reply is at it.                                                              *)
Refuses(r) ==
    /\ answer[r] # NoAnswer /\ answer[r].pc = "read"
    /\ Answered(r)
    /\ UNCHANGED <<settings, cached, tasks, image, launched, run, pending, runner, crossed, garbled>>

claimPending(r) ==
    LET t == answer[r].t IN
    /\ answer[r] # NoAnswer /\ answer[r].pc = "read" /\ answer[r].kind = "reply"
    /\ tasks[t].state = "in-review" /\ ~taskAgentAppBlocker(t) /\ t \notin pending
    /\ pending' = pending \cup {t} /\ answerGoes(r, "wake")
    /\ UNCHANGED <<settings, cached, tasks, image, launched, run, runner, crossed, garbled>>

(* The worker is woken, or rebuilt when its container is gone; what the       *)
(* finished turn left unread is read.                                          *)
Wakes(r) ==
    LET t == answer[r].t IN
    /\ answer[r] # NoAnswer /\ answer[r].pc = "wake"
    /\ IF tasks[t].state # "in-review"
         THEN Answered(r) /\ pending' = pending \ {t} /\ UNCHANGED <<image, garbled>>
         ELSE /\ \E gone \in BOOLEAN :
                    image' = IF gone THEN [image EXCEPT ![t] = allowed] ELSE image
              /\ Spoken(tasks[t].command, answer[r].dialect, answer[r].command)
              /\ answerGoes(r, "harness") /\ UNCHANGED pending
    /\ UNCHANGED <<settings, cached, tasks, launched, run, runner, crossed>>

resumes(r) ==
    LET app == tasks[answer[r].t].app IN
    /\ answer[r] # NoAnswer /\ answer[r].pc = "harness"
    /\ Bundling(app) /\ answerGoes(r, IF bundleNeeded(app) THEN "bundle" ELSE "launch")
    /\ UNCHANGED <<settings, cached, tasks, image, launched, run, pending, crossed, garbled>>

Resumed(r) ==
    /\ answer[r] # NoAnswer /\ answer[r].pc = "launch"
    /\ startAgentSession(answer[r].t) /\ answerGoes(r, "record")
    /\ UNCHANGED <<settings, cached, tasks, image, run, pending, runner, crossed, garbled>>

(* The new session and its dialect in one write. *)
Followed(r) ==
    LET t == answer[r].t IN
    /\ answer[r] # NoAnswer /\ answer[r].pc = "record"
    /\ tasks' = IF tasks[t].state # "in-review" THEN tasks
                ELSE [tasks EXCEPT ![t].command = latest(t), ![t].dialect = protocol(tasks[t].app),
                                   ![t].state = "running"]
    /\ Answered(r) /\ pending' = pending \ {t}
    /\ UNCHANGED <<settings, cached, image, launched, run, runner, crossed, garbled>>

-----------------------------------------------------------------------------
(* People and the process. *)

Closes(t) ==
    /\ exists(t) /\ tasks[t].state \in {"queued", "running", "in-review"}
    /\ tasks' = [tasks EXCEPT ![t].state = "done"]
    /\ UNCHANGED <<settings, cached, image, launched, run, answer, pending, runner, crossed, garbled>>

rebuildWorker(t) ==
    /\ exists(t) /\ tasks[t].worker /\ image[t] # allowed
    /\ image' = [image EXCEPT ![t] = allowed]
    /\ crossed' = IF dropped(t) THEN crossed \cup {t} ELSE crossed
    /\ UNCHANGED <<settings, cached, tasks, launched, run, answer, pending, runner, garbled>>

(* What was under way is lost; resumeInterruptedRuns takes up queued tasks. *)
Restart ==
    /\ run' = [t \in Delegations |-> IF exists(t) /\ tasks[t].state = "queued" THEN "start" ELSE "none"]
    /\ answer' = [r \in Answers |-> NoAnswer] /\ pending' = {}
    /\ runner' = [a \in Apps |-> "none"]
    /\ UNCHANGED <<settings, cached, tasks, image, launched, crossed, garbled>>

-----------------------------------------------------------------------------
(* A first start, or one on what an older Lite left: a session of its app or *)
(* of no app, in its old dialect, recorded on the task or not yet.            *)
Fresh == [apps |-> <<CHOOSE a \in Apps : TRUE>>, models |-> [a \in Apps |-> ""]]
Left(app, state) ==
    [app |-> app, model |-> "", effort |-> "", state |-> state, worker |-> TRUE,
     command |-> IF state = "queued" THEN 0 ELSE 1, dialect |-> "", asked |-> ""]

Init ==
    /\ settings = Fresh /\ cached = Fresh
    /\ \/ tasks = [t \in Delegations |-> None] /\ launched = <<>>
       \/ \E t \in Delegations, app \in {"", Fresh.apps[1]}, state \in {"queued", "running"} :
             /\ tasks = [other \in Delegations |-> IF other = t THEN Left(app, state) ELSE None]
             /\ launched = <<[t |-> t, dialect |-> legacyProtocol(app), carried |-> TRUE]>>
    /\ image = [t \in Delegations |-> IF exists(t) THEN Range(Fresh.apps) ELSE {}]
    /\ run = [t \in Delegations |-> IF exists(t) /\ tasks[t].state = "queued" THEN "start" ELSE "none"]
    /\ answer = [r \in Answers |-> NoAnswer] /\ pending = {} /\ crossed = {} /\ garbled = FALSE
    /\ runner = [a \in Apps |-> "none"]

Events ==
    \/ saveSettings \/ Restart
    \/ \E t \in Delegations : \/ \E body \in Bodies : createTask(t, body)
                              \/ \E r \in Answers, kind \in {"reply", "interrupt"} : followUpTask(r, t, kind)
                              \/ Closes(t) \/ rebuildWorker(t)

Steps ==
    \/ refetch
    \/ \E a \in Apps, ok \in BOOLEAN : BundleEnds(a, ok)
    \/ \E t \in Delegations : \/ runTask(t) \/ taskHarness(t) \/ Prepares(t) \/ Launches(t)
                              \/ Records(t) \/ HandsBack(t)
    \/ \E r \in Answers : \/ writeTaskStdin(r) \/ Refuses(r) \/ claimPending(r) \/ Wakes(r)
                           \/ resumes(r) \/ Resumed(r) \/ Followed(r)

Next == Events \/ Steps
Spec == Init /\ [][Next]_vars

-----------------------------------------------------------------------------
(* `A conversation is never read in a dialect it does not speak': whether it *)
(* was started by this Lite or an older one, recorded or adopted after a     *)
(* restart, resumed or live; unless the request read the task on one session *)
(* and acts on the next.                                                      *)
DialectIsItsOwn == ~garbled

(* A session starts where its app is installed, though the project may have  *)
(* dropped the app since the task was delegated; unless it did so under the  *)
(* job, or the worker was rebuilt without the app and the project took it    *)
(* back.                                                                      *)
CarriesItsHarness == \A n \in DOMAIN launched : launched[n].carried

(* A task runs under the harness its composer showed, though the project it  *)
(* showed it of was stale, with a parameter the model it runs takes.         *)
RunsWhatWasAsked ==
    \A t \in Delegations : exists(t) =>
        /\ tasks[t].asked # "" => tasks[t].app = tasks[t].asked
        /\ tasks[t].effort # "" => tasks[t].effort \in Takes[tasks[t].app][tasks[t].model]
=============================================================================
