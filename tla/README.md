# Spunto Lite: a TLA+ model

Spunto Lite runs development machines ("workers", Docker containers) for projects on one
computer, and delegates tasks to coding agents that work in them. This directory holds its
specification: what moves tasks and machines concurrently, modelled in depth and proved about,
and sixteen components around them, each with the behaviours that are hard to get right by
testing. Paths below are relative to the repository (`services/tasks.ts` is
`src/services/tasks.ts` in `PROJECT.json`).

- [Inventory](#inventory) of the system, its state, its operations and its hard behaviours
- [Modules](#modules) and how they are composed
- [TaskPool and PoolHold](#taskpool-and-poolhold): model, runs, bounds, fairness, proofs
- [TaskEvents and SessionLog](#taskevents-and-sessionlog): model, runs, bounds, fairness, proofs
- [The components around the pool](#the-components-around-the-pool): the `server` run, module by module
- [What the runs found](#what-the-runs-found)
- [Weaker guarantees](#weaker-guarantees): what the code promises less of than one would think
- [Not modelled](#not-modelled)

## Inventory

The server is **one Node process** over one SQLite file (`db/index.ts`, synchronous statements)
and the Docker daemon. Everything that runs between two `await`s is atomic; everything an `await`
separates interleaves. Jobs are plain async functions (`runJob`): they die with the process, the
rows and the containers do not. Browsers keep state of their own: forms that were filled from an
older reading, and caches that polls and clicks write to.

| Component | State it keeps | Operations | Talks to | What makes it correct |
|---|---|---|---|---|
| Tasks and the machine pool (`services/tasks.ts`) | `tasks` rows (state, `workerId`, `commandId`, `pendingAction`, `parkAt`), the in-memory `poolLocks` chains, the jobs in flight | create, run, accept, drop, reply (live or resumed), park, keep awake, wake, the 10 s scheduler tick, recovery at boot | workers, task commands, events; HTTP routes and MCP call it | two live tasks never share a machine; a finished task stays finished; a release never stops the next task's machine; nothing stays queued, running or "accepting" for ever |
| Session event log (`services/task-events.ts`) | `task_events`, the cursor on the task row (`eventsCommandId`, `eventsOffset`, `eventsSeq`), drafts in memory | ingest (any reader), append a platform event, page, "has it handed back?" | the session's stdout file | every line of a session is stored once, in order, with dense sequence numbers; a hand-back is the *current* session's |
| Task commands (`services/task-commands.ts`, `lib/worker-commands.ts`) | `task_commands` rows; the process and its files in the container | run, start detached, poll, write stdin, cancel | Docker exec or the worker's agent | the row of a finished command is final and says how its process ended |
| Workers (`services/workers.ts`, `lib/agent.ts`) | `workers` rows (state, container, setup status), image builds, one agent connection each | spawn, rebuild, start, stop, delete, reconcile on read, the agent's pushes, ensure image | Docker, agents | a stop asked for is never read as a crash; what is deleted leaves nothing; the running container's agent is the one let in; a spawn ends |
| Shared services (`services/services.ts`) | `services` rows | create, update (recreate), start, stop, restart, delete, reconcile | Docker | a running service runs what its row says |
| MCP servers (`services/mcp-servers.ts`, `lib/mcp-oauth.ts`, the gateway route) | servers, OAuth states, connections and tokens, gateway tokens, project settings, refreshes in flight | declare, connect, finish, refresh, relay, disconnect | authorization servers, MCP servers | the human is asked to connect again only when nothing else helps; a disconnect is effective; every call is answered |
| Projects, versions (`services/projects.ts`, the project's form) | rows, versions, images, volumes | create, edit, import, restore, build, delete | workers, Docker | a save leaves what the form showed; an image is built from the version its tag names |
| Service declarations (`service-form.tsx`, `services/page.tsx`, `lib/validation.ts`) | the page's list, the form, rows | open, type, save, delete | the API, containers, workers' environment | a service opens again as it was saved; its guard foresees the API's |
| Agent apps and dialects (`lib/agent-apps.ts`, the composer) | a project's apps and models, a task's app, the dialect of its session | compose, create, start, resume, reply | tasks, workers' images | a session is read in the dialect it speaks; it starts in an image that carries its app |
| Task attachments (`services/task-attachments.ts`) | files by content hash per task | store, materialise in a worker | task commands | an agent is told of files that are there, whole |
| Task diff (`services/task-diff.ts`, `lib/task-diff.ts`) | nothing | list of changed files, patch of one | task commands, git | the list and the patch say what the agent did |
| SSH agent proxy (`lib/ssh-agent.ts`) | the selected key, the child `ssh-agent`, the unlocked key, the host's agent | unlock, lock, proxy | workers | what is locked stays locked; one key at a time; "usable" is offered |
| Terminals (`server/terminal-ws.ts`, `lib/terminal-attachments.ts`) | bridges, attached sessions | attach, reconnect, exit | Docker exec or the agent | a session shows as attached when a browser is on it |
| Reverse proxy (`server/worker-proxy.ts`) | networks joined | route a hostname | workers, services | a hostname leads to what it names |
| Worker metrics (`services/worker-metrics.ts`) | `worker_samples` | sample, prune, chart | Docker stats | a chart has every sample of its span |
| Resources overview (`services/resources.ts`) | nothing | read rows and the daemon | Docker | what takes disk is never invisible |
| Conversation screen (`task-cockpit.tsx`, `task-cache.ts`, `use-task-actions.ts`) | the query cache, the stream held | poll, page back, act | HTTP routes | the stream has no hole and no repeat; a screen that stopped asking is right |

Behaviours that are hard, and where (`PROJECT.json` lists each with its line under `hazards`):

- **stale reads across awaits**: a refresh concludes on a row read several awaits earlier; a live
  reply updates by id alone; a follow-up does not re-read its task after the wake; a start of a
  service reads a row that is updated under it; a form is saved over what others saved since it
  was opened;
- **interleaved jobs of one thing**: Accept, Drop, a reply, a park and a refresh of the same task;
  a stop, a poll and the agent's push of the same worker; two refreshes of the same token; a lock
  and an unlock of the same key;
- **jobs of two tasks on one machine**: the pool lock orders them, but a run, a follow-up or a
  Drop of a task that is over may still be on its way to a machine that is somebody else's by now;
- **crashes**: Lite restarts (jobs and locks vanish), the computer restarts (containers go down),
  sessions die, a spawn pipeline is lost half-way, a file is half written;
- **lost and late answers**: an exec, a refresh, a save or a poll was served and its answer never
  comes, or comes after the screen has moved on;
- **refusals**: a daemon that will not start, stop or remove a container, a git that fails, and a
  caller that swallows it and goes on;
- **bounds**: ceilings on a read, a diff, a page and a turn's files, at which something is cut;
- **liveness**: everything is derived on read, so something must read; a wait has to give up.

## Modules

| Module | Models | Checked by |
|---|---|---|
| `PoolHold` | the promise: who may hold a machine | proved; refined by `TaskPool` |
| `TaskPool` | `services/tasks.ts` with the sessions and machines it moves; implements `PoolHold` | eight runs; proved (`TaskPool_proof`, `TaskPool_jobs`) |
| `StreamLines` | a harness's stdout in lines, and what the ingestion makes of them; pure | through `TaskEvents` |
| `SessionLog` | the promise of `services/task-events.ts`: an append-only log of sessions | refined by `TaskEvents` |
| `TaskEvents` | `services/task-events.ts` and the readers of a task; implements `SessionLog` | `streams`, `handback`, `early`; proved (`TaskEvents_proof`) |
| `WorkerLifecycle`, `SharedServices`, `McpConnections`, `TaskCommands`, `Projects`, `ProjectForms`, `ServiceForms`, `Harnesses`, `TaskFiles`, `TaskDiff`, `SshAgent`, `Terminals`, `ReverseProxy`, `WorkerMetrics`, `Resources`, `Cockpit` | one component each, with variables of its own | `server`, through `MCServer`; twelve of them proved about (`Credentials_proof`, `Workers_proof`, `Harnesses_proof`, `Server_proof`) |

`TaskPool` carries its own, coarser machines and sessions, so that the pool can be proved about by
itself; `TaskEvents` has the log `TaskPool` sees as two bits; `WorkerLifecycle` and `TaskCommands`
have the container and the process await by await. The modules under `MCServer` share no state:
what one takes from another (a container that falls, a row that goes) is an event it may meet at
any time, which allows more than the other component does. `MCServer` instantiates all of them.

## TaskPool and PoolHold

### State and actions

`TaskPool` is a transition system with one action per await-free block of `services/tasks.ts`. A
**job** is one async function in flight for one task; its kind says which, `pc` where it is:

| Kind | Function | Path through `pc` |
|---|---|---|
| `run` | `runTask` | pick, choose, claim (lock), rebuild or wakeQ (lock), wait, reset, launch, started, record, unwind; `resume` after a restart |
| `accept` | `validateTask` job | wakeQ, waking, wait, exec |
| `drop` | `cancelTask` job | kill, wakeQ, waking, wait, exec |
| `reply` | `followUpTask` job | wakeQ, waking, wait, launch, started, record |
| `live` | `followUpTask`, live branch (the request itself) | answer or interject, answered |
| `release` | `releaseTaskWorker` | tidyQ (lock), wait, parkQ (lock), stopping |
| `settle`, `due`, `hand` | `settleTask`, `parkDueTasks`, `parkTask` | (check,) parkQ (lock), stopping |
| `wake` | `wakeTask` | wakeQ (lock), waking |
| `refresh` | `refreshTask` | derive |

| Variable | Code |
|---|---|
| `task[t]` | the `tasks` row: `state`, `pendingAction`, `workerId`, `commandId` (as a session number) |
| `parkAt`, `handed` | `tasks.parkAt` is set; the log's last moment is a `session.ended` (`hasHandedBack`) |
| `older` | machines with `createdAt` before the task's (`recycled`) |
| `machine[w]` | the `workers` row's state, whether its version is outdated, and the container itself (`box`); `broken` is `error` with a failed setup |
| `trace[w]` | the task whose work the workspace volume holds: written by a launch, wiped by a reset |
| `poolLock[w]` | `poolLocks`: the promise chain, as the queue of the jobs in it |
| `cands[t]` | the local `candidates` of `findFreePoolWorker` |
| `launched`, `rows` | processes started; sessions with a `task_commands` row |
| `alive`, `turn`, `waiting`, `unread` | the processes in the containers, who is in a turn, user turns in stdin, ends of turn nobody has ingested |
| `revived` | history only: tasks a live reply re-opened after they were over |

The machine is as the pool sees it: `Poll` is `refreshWorker`, taken as a step of its own because
every job reads through `getWorkerLive`; `Settled(w)` makes a job that reads wait for it. The
event log is two bits per session here (an end of turn is in the log, or still to be read);
`TaskEvents` has the log itself.
`PoolHold` knows only who holds which machine: `Take` a free one, `GiveBack` some, `Reopen`
(a person answered a session that was over).

### Runs

| Run | Instance | Shows |
|---|---|---|
| `replies` | 2 tasks, 1 machine, 2 sessions each, interactive, Accept and replies | `TypeOK`, `ExclusiveHold`, `ReviewedWorkspaceKept`, `OnlyPeopleReopen` |
| `review` | 2 tasks, 2 machines, review mode `stop` with a delay, parks, keeps, wakes, Accept; one fault among a fall, a refused stop, a pruned container, a slow start | `LockHasHolder`, `ReleaseSparesNextTask`, `RunningHasWork` |
| `crashes` | 2 tasks, 2 machines, one-shot harness, Accept and Drop with commands; one fault among a restart of Lite, a dead agent, a failed setup, a deleted machine, an edit of the project | `QueuedHasRun`, `PendingHasJob`, and the refinement `PoolSpec` |
| `progress` | 1 task, 2 machines, up to 3 sessions, two faults among restart, fall, death, failed setup, prune; fairness | `QueuedLeaves`, `RunningEnds`, `PendingClears` |
| `straggler`, `leak`, `deleted`, `unprompted` | the smallest instance of each finding | a violation, see below |

**Bounds.** Two tasks are what exclusion, release and reuse are about, and a third adds only
another claimant of the same lock; one machine forces the sharing, a second (not existing at
first) lets the spawn path run. `MaxSessions` bounds launches: a reply needs a second session; a
resumed run after a restart a second launch. `MaxFaults` is the number of faults in a behaviour:
one, at every possible step, in the runs with two tasks, two in `progress`, where a restart can follow
a fall. `MaxJobs` is a state constraint on the safety runs: states with more than two jobs in
flight (three in `straggler`) are not explored further; every pair of jobs, of one task or of
two, still meets at every point of both. The theorems below have none of these bounds. The runs
say `CHECK_DEADLOCK FALSE` because a bounded instance really stops: all tasks over, all faults
spent.

**Fairness** (`FairSpec`). Weak fairness on each job's steps: a promise that can go on does. Weak
fairness on `Tick`: `startTaskScheduler` calls `refreshDueTasks` and `parkDueTasks` every 10 s
(parks need no fairness for the properties). Strong fairness on a refresh that reads the stream:
the throttle of live ingestion (`LIVE_INGEST_MIN_INTERVAL_MS`) is far below the 30 s floor, so a
refresh repeated for ever reads for ever. Agents' turns end and idle sessions end: every session
runs under `timeout` (6 h). Spawn pipelines end, setups end. No fairness on clicks or faults.

### Proofs

`TaskPool_proof`, `TaskPool_jobs` and `PoolHold_proof` are checked by TLAPS
for **every** set of tasks and machines, any number of sessions and faults, every review mode and
harness, restarts included; the only assumptions are those on the constants (`NullsAssumption`,
`ExistingAssumption`, `BoundsAssumption`, `SettingsAssumption`).

| Module | Theorem | Statement |
|---|---|---|
| `TaskPool_proof` | `TypeCorrect` | `Spec => []TypeOK` |
| | `Exclusive` | `Spec => []ExclusiveHold` |
| | `ReleaseSpares` | `Spec => []ReleaseSparesNextTask` |
| | `Implements` | `Spec => PoolSpec` (the refinement of `PoolHold`) |
| | `Invariant` | `Spec => []Inv`, the inductive invariant |
| `TaskPool_jobs` | `Chained` | `Spec => []LockHasHolder` |
| | `NeverLost` | `Spec => []QueuedHasRun` |
| | `NeverStuck` | `Spec => []PendingHasJob` |
| | `NobodyReopens` | `Spec => OnlyPeopleReopen` (an action property) |
| | `WorkspaceKept` | `Spec => ReviewedWorkspaceKept` (an action property) |
| | `PlacesInvariant` | `Spec => [](JobsInv /\ AtOwn)`, the invariant under it |
| `PoolHold_proof` | `PoolExclusive` | `PoolHold` itself keeps machines exclusive but for re-opened tasks |

**Who holds a machine.** `ExclusiveHold` is not inductive. A claim is exclusive because it asks `heldByLiveTask` in the
same synchronous body that writes `workerId`, so that part is local; but a claim must not bring a
second machine to a task, or a machine that somebody is still stopping. `Inv` adds: whoever is
past the queue of a lock step is in that machine's queue, once, and only its head may be
`waking` or `stopping` (so a claimant, being head, excludes a stop in flight); a task that is
still allocating holds no machine; a machine held or being stopped is not `absent` (so a spawn,
which takes an absent one, collides with nobody); a deleted machine stays deleted, without a container.

The argument has one idea: the some forty actions fall into four classes, each described by what
it may do to the rows. *Calm* steps take no machine and begin no stop; *Taking* steps (claim,
spawn) give one task a machine nobody holds; *Answering* (the live reply) re-opens a task;
*Stopping* begins a stop, of a machine nobody holds if it is a release. `TaskPool_proof` proves which
class each action is in, one lemma per action; then, per class, that `Inv` is
preserved and that the step refines `PoolHold`.

**Who is in the chain, and who owes a row its end** (`TaskPool_jobs`). `LockHasHolder` says that the
chains of `withPoolLock` hold exactly the jobs at a step of the lock. A step moves one job on one chain in
one of four ways (it joins at the tail, quits from the head, quits and calls again, or goes on at
the head) and no other job on a chain; `ChainKept` proves that such a step keeps `LockHasHolder`, the
rest that every action is one. `QueuedHasRun` and `PendingHasJob` follow from `Tracked`, what a row says of
its task's jobs: a queued task has its run; a run belongs to a queued task, or to one it failed; no reply and no
message begins before the run is over; each click in flight has its job; and only background jobs stop
machines. `JobsInv` is `Inv`, `Tracked` and `LockHasHolder` together, proved
together because the same steps move all three. `OnlyPeopleReopen` is then a matter of each action that writes a
state: all but the two it excepts write it on a row they have just found live, and `Tracked`
says which rows those are when it was another job's step that found them.

A first attempt failed for a reason in the model: at boot, `recoverTasks` restarts the run of a task
by calling `runTask` anew, which reads the row first and returns unless it is still `queued`; the model's `RunResume`
went on with a run whose task had been dropped since the boot. It now reads first, as the code does.

**Whose workspace** (`TaskPool_jobs`, last part). `ReviewedWorkspaceKept` needs `AtOwn`: from its claim to its launch a
run or a reply is at the machine its task's row names, or at one that was deleted meanwhile. A delete
clears `workerId` (the foreign key) under a job at work, so the second disjunct is not idle: it is harmless because a
deleted machine never comes back. With it, a job that resets or launches does so in a machine its own
task holds, and `ExclusiveHold` has nobody else's live task there.

Left to TLC: the liveness properties (the prover has no support for fairness), and `RunningHasWork`, which a restart of
Lite between the insert of a session's row and the write of its prompt breaks (the `unprompted` finding below, whose run
violates exactly this property): it is an invariant under the faults of the `review` run, not of the whole specification.

## TaskEvents and SessionLog

### State and actions

The log of a task decides when it is handed back, and it is written by whoever happens to read the
task: a request for the events (`Watchers`: `getTask`, then one more ingestion on the row that
answered), a request or a tick that only refreshes it (`Pollers`), and the drain a reply's job makes
before it launches the next session (`Drain`). They overlap, and each works on the row it read when
it began. `TaskEvents` has one action per await-free block of them:

| Step of a reader (`pc`) | Code |
|---|---|
| `idle` → `getTask` | the row is read; only a `running` task has anything to derive |
| `ask` → `MachineDown`, `AskSession` | `machineDown`; `refreshTaskCommand`, and the throttle that may skip a live session's stream |
| `read` → `readCommandOutput` | one read of the file, past the cursor and what is carried |
| `claim` → `TakeNothing`, `TakeLines` | the body of the loop after a read: carry on, skip an over-long line, or claim a range (`advanceCursor`) and store its events |
| `name` → `adoptSessionTitle` | the title grepped in the transcript |
| `conclude` → `Conclude` | `sessionState`, and the update guarded on `running` |

| Variable | Code |
|---|---|
| `stream[c]`, `status[c]` | session c's `stdout.log`; its process and exit |
| `busy`, `stdin` | sessions in a turn; sessions with a turn in stdin |
| `row` | the `tasks` row: state, `commandId`, `eventsCommandId`, `eventsOffset`, `eventsSeq`, `autoTitle` |
| `log` | `task_events`, by `seq` |
| `reader[r]` | the locals of `refreshTask` and `ingestTaskEvents` (`from`, `rowOff`, `off`, `seq`, carry as `got`, `chunk`, `stored`) |
| `reply`, `live` | a resumed follow-up, from the click to the update; a live one |
| `past` | history: how far each stream was claimed |

An offset counts units, not bytes (`StreamLines`): a unit is a piece of a line, or its end, which
says what the line says. Several pieces make a line longer than a read (`MAX_READ`) or than the
ceiling (`MAX_LINE`). Two things are coarser than the code: the machine and the session are polled
where they are asked for, and the live reply's write and its update are one step (`TaskPool` has
them apart). `SessionLog` is the promise: `Take` appends the events of the next range of a session,
never of an earlier one; `Say` appends an event of the platform's own.

### Runs

| Run | Instance | Shows |
|---|---|---|
| `streams` | 1 watcher and the drain; 2 sessions of at most 3 units; ends of turn, partial messages, pieces; a read of 1 unit, a ceiling of 2, 2 chunks a pass; deaths and falls; a title out of band; fairness | `TypeOK`, `LogSpec`, `StreamDrains` |
| `handback` | 1 watcher, 1 poller and the drain; ends of turn and background work; live and resumed replies between turns; restarts; review mode `stop` | `LogSpec`, `NotReviewedAtWork` |
| `early` | 1 watcher, replies to a running task | a violation, see below |

**Bounds.** Two readers and a drain give every race on the cursor: a reader loses to one that is
ahead of it on the same session, or to one on the other session. `MaxUnits` 3 is a line in three
pieces, or three lines, against ceilings of one and two units, so that carrying, skipping, the end
of a pass by its ceiling and by the end of the file all occur; the code's ceilings (`MAX_READ_BYTES`, 12 MB
lines, 6 chunks) play no other part. `MaxTurns` bounds live replies, `MaxCommands` sessions.
`handback` leaves falls out: a machine that falls during the drain of a reply leaves an old end of
turn undrained, to be stored after the reply's turn (hazard at `services/tasks.ts:1506`), and
`NotReviewedAtWork` is about verdicts on the task's *own* session, read by a reader that began on it.
Both runs are interactive; the one-shot branches of the same actions are not run here (`crashes` runs a
one-shot harness in `TaskPool`). `CHECK_DEADLOCK FALSE`: bounded streams end.

**Fairness** (`FairSpec`). Weak fairness on each reader: the cockpit polls as long as it is open, and
an ingestion that can go on does. None on the harness, the replies or the faults. `StreamDrains`
needs the watcher: its own ingestion is not throttled.

### Proofs

`TaskEvents_proof` is checked by TLAPS for any number of readers and sessions and any ceilings, under
`ReadersAssumption` and `CeilingsAssumption`.

| Theorem | Statement |
|---|---|
| `LogKept` | `Spec => LogSpec` (the refinement of `SessionLog`) |
| `Typed` | `Spec => []TypeOK` |
| `Invariance` | `Spec => []Inv`, the inductive invariant |

Readers do not exclude each other: two may have read the same bytes, or bytes of two sessions. What
makes them harmless is the compare-and-set of `advanceCursor`, and what makes *that* enough is `AtCursor`: if the row's
cursor is still what a reader read (`eventsCommandId`, `eventsOffset`, `eventsSeq`), then the reader began exactly where its session was taken
in to, and nothing was taken in of a later one. So a claim that succeeds appends the next range,
and one that fails changes nothing. `Inv` has what this rests on: a cursor is on the task's session or
an earlier one, and `past` of no later session has moved; every reader's copy of the row is no newer than the
row, and its offset is the one that copy implies; a reply's job works on a copy of the row no newer
than the row, and the session it has launched is no older than the task's.

`parseLines` is not recursive: the ends of lines in a chunk are a finite set of offsets, and a line is what lies
between two consecutive ones. The lemmas on ranks (`KthExists`, `Parsed`) prove, of every chunk, that splitting
it and moving the cursor to its last end leaves the rest of the file as it was. `Invariance` needed one rewriting in
`TaskEvents`: what an insert adds to the log is the operator `inserted`, where it was a function override.

Left to TLC: `StreamDrains` (liveness) and `NotReviewedAtWork`, which is about a harness that says the end of its
turn once and last; `early` shows it false of the specification as a whole.

## The components around the pool

### One run, sixteen scenes

`MCServer` composes the components that share no state with the pool. A behaviour picks a **scene**
at the start: the component that moves; the others stay as they began. One component moves at a
time because they share nothing: a product of two of them has no behaviour that the two do not have
apart. The run `server` covers all of them exhaustively (some 416 000 distinct states).

Each module divides its actions in **Events** (what people and the outside begin: a click, a death,
a restart, an edit elsewhere) and **Steps** (what the code then does). `MaxMoves` bounds the Events
of a behaviour; Steps are never bounded by it, so what was begun always runs to its end, in every
order with the rest.

| Scene | Events | Why that is enough |
|---|---|---|
| `mcp` | 3 | begins with no server or with one whose token has expired: declare, connect and call; or two calls and a disconnect |
| `workers`, `services` | 3 | a pipeline and two requests that cross it, or a request, a death and another request; containers are numbered, at most 2; one build of the image; a rebuild may move a worker to the agent's plane, not back |
| `ssh` | 4 | select, unlock, lock, unlock; two unlocks and a lock overlap; a key with a passphrase and one without |
| `terminals` | 4 | open, leave, open again, lose the agent, which comes back by itself; two tabs on two sessions |
| `proxy` | 3 | declare two services whose names read alike, then ask; a service dropped under the request |
| `projects` | 4 | create, edit over somebody's edit, restore, build, delete; three versions |
| `diff` | 2 | two changes of the agent, at every point of a list and a patch |
| `files` | 3 | two turns with two files and a restart in a trip; files of one and two trips, and one that does not decode |
| `commands` | 5 | a launch, a poll, a cancel, and two of falls, rebuilds, restarts, deletes and lost answers |
| `resources` | 3 | a request, and two changes of rows or containers under it |
| `metrics` | 2 | a worker leaves and comes back; a clock of 4 ticks, charts of 1 and 2, retention of 2 |
| `cockpit` | 2 | a click and a page of history, against polls; a log of 3 events, pages of 1, two mounts |
| `harnesses` | 3 | delegate, drop the app, rebuild; two replies at once; three sessions of one task |
| `forms` | 4 | two forms on one service, two changes typed, two rows |
| `projectform` | 3 | type, submit, submit again; an import; two extensions, of which the registry has one |

`CHECK_DEADLOCK FALSE`: a behaviour stops when its events are spent and nothing is under way.

**Fairness** (`MCServer!Fairness`). Weak fairness on a request, a pipeline or a build under way (a
promise that can go on does; HTTP calls have timeouts, `tokenRequest` 10 s), on the polls of a worker
and of a service (somebody looks: the dashboard polls, and the pool's jobs read), on the agent's hello,
the state it sends and the end of its setup script. Strong fairness on a read of the setup status that succeeds:
tried for ever, it is read for ever. None on people, deaths, restarts or the outside. The daemon may refuse
at any time to start, stop or remove a container, a network or a volume, and callers do what the code does with
the refusal, which is most often to go on.

**History variables.** A property that holds but for an interleaving names the interleaving in a
history variable (`crossed`, `astray`, `stranded`, `outrun`, `stuck`, `overlapped`, `hasty`, `restored`, `escaped`, `blind`,
`late`, `revived`, `withdrawn`, `vouched`...): no guard reads it, the property excepts what it holds.
[Weaker guarantees](#weaker-guarantees) says what each stands for in the code.

### The modules

For each: the state (variables → code), the actions, and what it shows. `PROJECT.json`'s `map` gives the
lines of every definition.

**`McpConnections`** (`services/mcp-servers.ts`, `lib/mcp-oauth.ts`, `app/api/mcp-gateway/`).
`servers`, `conn`, `setting`, `pending` and `minted` are tables; `refreshing` is the map of refreshes in
flight, `call` the gateway's requests, `browser` declarations and connects across their awaits; `asked`,
`issued`, `good` and `usable` are the authorization server: a token is a number, valid or revoked,
and a refresh token is worth something to the client it was given to, once or again. A gateway call goes
`body` → `sent` (`Send`, `accessToken`) → refused → `asking` (`refreshTokens`) → `answered` (`Refreshed`) → `sent`, or
`joined` to the refresh of another. `ReauthIsDeserved` (a step to `needs_reauth` only when the
refresh token kept is worth nothing), `DisconnectIsEffective` (no call that began after a disconnect is relayed
on what was disconnected, refreshes in flight included), `CallsAnswered` (liveness).

**`WorkerLifecycle`** (`services/workers.ts`, `lib/agent.ts`). `worker` and `builds` are rows; `box` is the
container of the worker's name, `left` its volume and network; `spawn`, `request` and `look` are the pipelines,
the stop/start/delete/rebuild requests and the polls in flight, each at its `pc`; `agent` is the
container whose agent is connected. A spawn takes a container of the worker's name as it is (`Existing`); what it creates may
not start, or may start and not be inspected, and then no row has its id; a removal may be refused, the container
stopped or not, and a network or a volume in use stays. A poll reads the row (`refreshWorker`), then the container
(`inspectContainer`), then the setup (`getSetupStatus`), with anything in between. `StoppedUntilStarted` (no
poll that began before a stop, and nothing the agent says, brings the row back up), `AgentIsKnown`, `DeletedIsGone`
(nothing is left on the daemon of a deleted worker), and in `PipelinesSettle` that no worker spawns for ever. The last three except the
workers that are `astray` (deleted or rebuilt under a spawn or another request, or whose new container a poll of the old one made the row forget) or
`stranded` (a spawn failed after it had its container, or a removal was refused).

**`SharedServices`** (`services/services.ts`). `service` rows, `unit` containers, `start` pipelines, `ask` requests,
`glance` polls. What a service is, is its slug and the specification that container was made of. `removeServiceContainer` may be refused, and who
asked goes on: the container is `stuck`. `RunsItsSpec` (what runs between updates is what
the row says, under a name that is no other service's, unless the container is `stuck`), and
in `PipelinesSettle` that none starts for ever.

**`TaskCommands`** (`services/task-commands.ts`, `lib/worker-commands.ts`). `record` is the row of a command, `process` the
process with its files (`starting` before its pid is written, `running`, `ended` with a code, `dead` with its container);
`order`, `reader` and `killer` are a launch or a run, a poll and a cancel in flight; `crates` containers. A launch
reaches the container (`execScript`) and is recorded after it (`recordedAtLaunch`); a poll asks and then writes, guarded on `running`.
`RowIsTrue`: the status of a finished row is final and says how the process ended; a process that runs has a row that says so.

**`Projects`** (`services/projects.ts`, `lib/project-form-value.ts`, `services/workers.ts` for images). `project` and `versions`
are rows, `baked` images by tag, `baking` builds in flight with the recipe they started from, `boxes` workers (an `orphan` has a container that did not start, whose id its row has not), `volumes`
shared volumes, `deletion` the deletion between its steps, `form` what each tab was opened with. `SavesWhatItShows` (what a save shows is
what the row has), `ModelsAreAllowed`, `ImageIsItsVersion` (an image is built from the version its tag names, though
a build takes minutes and edits cross it), `DeletedIsGone` (nothing but what orphans hold).

**`ProjectForms`** (`components/project-form.tsx` and what it sends to). React draws after the value changed: a change is typed over
`drawn` and lands in `value`; `asking` are verdicts on hand-typed extensions in flight, `handoff` the
import the dashboard left, `saving` a save: the PATCH or POST, then a DELETE per secret removed, any of which may fail
before or after it was served; a retry sends everything again. Conjuncts of `SavesWhatItShows`: `RowsAreSaved` (the volumes and repositories filled in, each under one path
or id), `SecretsAreSaved`, `ReposStayApart` (two rows are never one repository, though ids are minted per page; but as an imported file gave them, two of one id, until the next change),
`UnknownIsCaught` (an extension the registry lacks stays only while its verdict is out).

**`ServiceForms`** (`components/service-form.tsx`, `app/(app)/services/page.tsx`, `lib/validation.ts`, `services/services.ts`). `list` is what the page
last read, `form` and `editing` the form, `save` the request; `rows`, `secrets`, `container` the server's. A
command is a sequence of characters, quoted and split again. `OpensAsSaved`, `SavingIsIdle` (opening and saving changes nothing), `GuardForesees` (the
form's guard refuses what the API refuses, but for the cases of `unmirrored`); `RunsWhatWasMeant` in `RunsItsSpec` (a container's words are
those meant, however quoted); `AddressIsShown` in `RouteIsOwn` (workers are told the address the card shows).

**`Harnesses`** (`lib/agent-apps.ts`, the composer, `runTask`, `followUpTask`, `interruptTask`). `settings` are the project's apps and models, `cached` what a
composer last read of them, `tasks` a task's app, model, effort, dialect and session, `image` the apps its worker's image carries,
`launched` the sessions with the dialect each speaks, `run` and `answer` the run and the replies across their awaits, `runner` the bundle of an
app's runner, which is built once and shared. Begins empty or on what an older Lite left (no dialect recorded). `DialectIsItsOwn` (no conversation is read or written in
another dialect than its session's), `RunsWhatWasAsked` and `CarriesItsHarness` in `ModelsAreAllowed`.

**`TaskFiles`** (`services/task-attachments.ts`). `rows` are stored files, by content; `job` the turns being written into the worker,
trip by trip (`materialize`) and decoded (`Decoded`); `disk` the payload and the file in the worker. `HandedFilesAreWhole`:
when a turn names its files they are there and whole, though an earlier turn died halfway in the same place.

**`TaskDiff`** (`services/task-diff.ts`, `lib/task-diff.ts`). `tree` is what the agent did, `script` the script between its two readings of git,
`listing` and `patch` what is shown. Outputs are sequences of fields or lines that lose their beginning at the ceiling, and their end
when the script is stopped, a stream breaks or one git fails and is passed over (`Printed`, `beginnings`; the last field or line may be torn); the paths that are not tracked are cut at 64 KiB;
a removed line `-- y` reads `--- y`, like a header. `DiffIsFaithful`: each file listed has its own counts, path and status; a
list without an error, of gits that all ended, is all there was, but for untracked paths past the 64 KiB; a patch is the edit, line by line, whole hunks of it if it says it was cut, or its
beginning if it broke off. One output is cut in one way, and the patch of a list that broke off comes whole.

**`SshAgent`** (`lib/ssh-agent.ts`). `proc`, `holds` and `sock` are the spawned ssh-agents, `host` the host's; `agent`,
`unlocked`, `bind` the module's state; `unlock` and `lock` in flight. `KeysAreGuarded` (`LockHolds`, `OnlyTheSelected`) and `UsableIsOffered`.

**`Terminals`** (`server/terminal-ws.ts`, `lib/terminal-attachments.ts`). `tab` is a bridge, by exec or by the agent;
`registry` the attached sessions. `AttachedIsTrue`: a session shows as attached exactly while a browser is on it.

**`ReverseProxy`** (`server/worker-proxy.ts`). A hostname is a sequence of labels; `catalog` the services,
`visit` a request between its lookup, the network it joins and the answer. `RouteIsOwn`.

**`WorkerMetrics`** (`services/worker-metrics.ts`). On a clock; a tick may take longer than its period and a container may not answer.
`HistoryKept` (in `NothingHidden`): every sample in the span of a chart is in the chart, whenever the table is pruned.

**`Resources`** (`services/resources.ts`). `entry` rows and `live` containers change between the reading of rows, the inspections and the daemon's
listing of one answer (`view`). The conjunct `NothingHidden`: what is on disk throughout is listed, with or without its owner.

**`Cockpit`** (`components/task-cockpit.tsx`, `lib/task-cache.ts`, `hooks/use-task-actions.ts`, the events route). `shown` is the
cache entry, `mount` what each mount holds, `poll` and `look` the polls of the stream and of the task in
flight, `click` an action with its optimistic patch. `ScreenIsTrue`: the stream has no hole and no repeat, history is offered until its beginning is there, and a screen that stopped asking shows the task as it is.

### Proofs

Twelve components are proved about. Each theorem has two halves: the property of the component's own
behaviours, for any number of its actors and unbounded; and the invariant or action property of `MCServer` itself
that the `server` run checks, from the same inductive invariant, since a step of the server is a step of the
component or leaves it alone (a lemma of each, `...Scene`). The only assumptions are those `MCServer` states of
the constants: that the bounds are numbers (a history has room for one thing at least), that there is somebody to
talk about, that a null is no member of the set it is the null of, that the retention of the samples covers every chart, and
that no service has the id `new`, which the page gives to the form of a service yet to be.

| Module | Theorem | Statement, with `Spec` that of the component and of `MCServer` |
|---|---|---|
| `Credentials_proof` | `DisconnectsAreEffective` | `Spec => []DisconnectIsEffective` |
| | `ReauthsAreDeserved` | `Spec => ReauthIsDeserved` (an action property) |
| | `KeysKept` | `Spec => []KeysAreGuarded` (`LockHolds`, `OnlyTheSelected`) |
| | `UsableKept` | `Spec => []UsableIsOffered` |
| `Workers_proof` | `StaysStopped` | `Spec => StoppedUntilStarted` (an action property) |
| | `AgentStaysKnown` | `Spec => []AgentIsKnown` |
| | `ImagesMatch` | `Spec => []ImageIsItsVersion` |
| | `DeletedLeaves` | `Spec => []DeletedIsGone` (`NothingLeft` of workers, `DeletedLeavesNothing` of projects) |
| `Harnesses_proof` | `DialectsMatch` | `Spec => []DialectIsItsOwn` |
| | `ModelsMatch` | `Spec => []ModelsAreAllowed` (the project's settings; `RunsWhatWasAsked`, `CarriesItsHarness`) |
| `Server_proof` | `AttachedKept` | `Spec => []AttachedIsTrue` |
| | `RowKept` | `Spec => []RowIsTrue` |
| | `NothingLost` | `Spec => []NothingHidden` (the overview; `HistoryKept` of the samples) |
| | `ScreensAreTrue` | `Spec => []ScreenIsTrue` (`ShowsTheLog`, `SettledIsTrue`) |
| | `RoutesAreOwn` | `Spec => []RouteIsOwn` (the proxy; `AddressIsShown` of the declared services) |

*MCP connections* (`McpInv`). A relayed call is safe after a disconnect because of when it began: whatever is held
of a connection has a grant that was issued before, and a call began no later than the grant its connection has
(`Issued`, `Later`). A call that *joins* a refresh begun earlier is the hard case: the map names, of each server, the one call
that holds its refresh (`Mapped`), and every call that could join it began no later than the grant it is of (`Covers`). That
a refusal means what it seems to, that the token kept is worth nothing, is `OfTheRow`: a
refresh under way is of the connection as the row has it, unless somebody reconnected (`crossed`); for the
other calls it needs that clients are numbered as they are registered (`Numbered`, `Clients`) and that no call is sent
three times (`Tried`).

*SSH agent* (`SshInv`). Always: ssh-agents are numbered in the order they are spawned, and one that is not up holds
nothing; since a lock no unlock overlapped, nothing is unlocked nor unlocking. As long as nothing overlapped (`Sole`): one
unlock is under way at most; an ssh-agent that starts has the unlock that waits for it, and that
unlock waits for one that was spawned (`Binds`, which TLC showed was missing: without it, an unlock's second step
could serve an agent never started); what serves on the socket is Lite's, holds the key that is unlocked and no other.

*Workers* (`WorkerInv`). `AgentIsKnown` compares the row's token with the container's; a spawn writes the one at its start and
makes the other several steps later. So: at most one spawn works on a worker that is neither `astray` nor `stranded` (`Excused`) (`Alone`), the row names no
container while it does, and there is either none or the one it has just made, with its token (`Spawning`): a spawn that ends otherwise strands
the worker, and so does a removal after which something stays. `StoppedUntilStarted` needs
of a look that went on to the setup that it had not found a stopped row (`Watched`); `DeletedIsGone` of a deletion that
it erases what a spawn, as long as it does not cross it, cannot bring back (`Erased`).

*Projects* (`ProjectInv`, `ModelsInv`). What a container holds is there: the volumes and the image of whatever runs, or was created and
did not start (`HeldVolumes`, `HeldImages`), and a deletion removes all but what an orphan holds. A build keeps the recipe of the version it started from, and versions are never
rewritten (`BuildsAgree`, `ImagesAgree`), so that whatever is edited, imported or restored during a build lands in another version.
A deletion goes through its phases in order, and what a phase has removed nothing brings back, unless it was crossed (`Phase`, `Leaving`,
`Left`). `ModelsAreAllowed` is kept because a patch that touches the apps or the models is checked against what the row will have, both taken together;
`Drafted` says that a new project sends both.

*Agent apps* (`HarnessInv`). A request reads a task and uses what it read after several awaits, so the invariant relates four
things: the row, the sessions launched, the job and each request in flight. `TaskOK` says, at every step of a job, which
sessions the task has and in which dialect (a queued task has none, but those of a job that launched and did not
record it, in the dialect its row would be read in); `AnswerOK` says that a request holds the dialect of the session it was
derived on, and, past its claim, that it is its task's only one (`Claimed`) and its app was not dropped (but `withdrawn`).

*Terminals* (`TerminalInv`). `AttachedIsTrue` is kept by a step only if a browser whose bridge is open still has its place
(`Opened`: a close releases once, and only what was not released), and if a session has one browser attached
unless it is `shared` (`Alone`), so that the one that leaves is the one the registry spoke for.

*Commands* (`CommandInv`). A row is final because every write of a status asks for `running` in its `WHERE`. That it is *true* needs what is
on its way: an answer read and not yet written says how the process ended, and still does when it is
written, because a process that ended never lives again (`Reads`, `Ending`); a cancel about to be written is of a process that is dead
(`Kills`); no command has a row before its call is over, nor a process before its exec (`Launches`); a deleted task
has no rows for late statuses to land on (`Orphans`); and a process lives only in a container that is up, of which a worker has one
(`Inside`, `TheContainer`), so that a worker without a container has nothing that lives.

*Overview and samples* (`OverviewInv`, `MetricInv`). Between the reading of the rows and the daemon's answer, what was there at the
beginning and was not removed is still there (`StillThere`), and is in the answer once there is one (`AllSaid`). A prune leaves
what is young enough for the longest chart, whenever the tick that prunes began (`Retained`).

*Conversation screen* (`StreamInv`, `TaskInv`). A mount holds a run of the log without a hole that ends at its cursor, and offers
history exactly if it does not begin with the log (`Whole`); a page or a poll on its way is the piece that fits before or
after it, however the log has grown since (`Before`, `Polled`); the cache is what the current mount holds, unless an
unmounted screen's answer came late (`Drawn`). Beside it, whatever was read of a task that was over is the task, unless a reply
`revived` it, be it in the cache, in a look or in an answer to a click (`Current`): so the one that arrives last is right.

*Reverse proxy and declared services* (`ProxyInv`, `FormInv`). A label is taken apart by lemmas of its own (`ServiceLabel`, `WorkerLabel`, `LastPart`), from
which `Resolved` has that every link a page shows is routed to what it is the link of; a request under way that nothing crossed keeps
that route. The model's slugs (`PortLike`: `pg` and `pg-15`) are used only for having a part (`Parts`). Of the declared services: no two
have a slug, though a form is saved late over a list that has moved on (`Distinct`), and what is up has a row; then the only other
entry under a card's name is the `-host` or `-port` of a service of that name, which the property excepts.

### What is checked only

- `TypesOK`: the types of the sixteen components. Those the proofs use are proved, in the inductive invariants above.
- `RunsItsSpec`: half of it (`RunsWhatWasMeant`) is about a command that is quoted and read back, character by character.
- `SavesWhatItShows`: forms are rebuilt with `SelectSeq` and folds over their lists.
- `DiffIsFaithful`, `HandedFilesAreWhole`: outputs and payloads are parsed by recursive functions over sequences.
- Liveness: `CallsAnswered`, `PipelinesSettle`.

The middle three are induction over data, which the provers here cannot do.

## What the runs found

Each is a run that TLC fails on purpose; `PROJECT.json` quotes the sentence it contradicts.

1. **`straggler`**: a task dropped while its run is between the `queued` check
   (`services/tasks.ts:459`) and its launch hands its machine back at once. Another task takes it; the straggling
   run then resets the workspace, or launches in it, under the task that is working or in review
   there. `ReviewedWorkspaceKept` states what does hold: nobody *else's* job does.
2. **`leak`**: a task dropped before its run has claimed a machine is released while it holds
   none. The run goes on, claims a machine for the failed task, and returns: the machine stays up
   with nobody to park it.
3. **`deleted`**: deleting the machine of a running task sets `tasks.workerId` to null (foreign
   key), and `refreshTask` then returns before it asks `machineDown`: the task is never failed.
4. **`unprompted`**: a restart between the insert of the session's row and the write of its prompt
   makes the resumed run adopt a session that was never given its turn.
5. **`early`**: the live branch of `followUpTask` stores the user's turn without first draining the
   stream. When a reply goes to a running task over an end of turn nobody has ingested yet, that
   `session.ended` is stored *after* the reply, becomes the last moment, and sends the task to review
   (parking its machine in mode `stop`) while the agent works on the reply.

## Weaker guarantees

What the models state as exceptions. Each is a behaviour of the code that a reader of a property
should know of. Where the exception is `stranded`, `stuck`, `orphans`, `unmirrored`, `broken`
or `broke`, the source promises more than the code does, and is quoted; TLC finds a counterexample to the property once the exception is taken out.

*Tasks.* A live reply re-opens a task that was accepted or dropped while it was being written
(`revived` in `TaskPool`), so exclusivity holds up to such tasks; a Drop that lands on a task accepted
meanwhile fails it (`OnlyPeopleReopen` says so). A reply that read the task's dialect before another
reply's session was recorded drains or writes the new session in the old dialect
(`services/tasks.ts:1468`). The blocker of a dropped app checks the project's settings, not the image: drop
an app, rebuild the worker, take the app back, and a reply starts a session in an image without it (`withdrawn`).

*Commands.* A launch whose answer is lost leaves a session with no row, though `startTaskCommand`'s
comment says nothing is running; a `docker exec` stream that breaks makes a poll read "not found", so the row
says `lost` while the process lives (both `blind`). `refreshTaskCommand` returns a row that may differ from the
one stored; a cancel writes `canceled` over a session that had just ended. `runCommand` keeps the tail of an
output at its ceiling, so an over-long diff summary loses its first sections.

*Files.* A content that two turns carry at once, or one turn twice, may be told of while it is half written (`mixed`).

*Diff.* An empty list without an error "reads as 'this task changed nothing' — the one thing a review panel must never say when it simply
could not look" (`lib/task-diff.ts:274`). The error is there only when there is no merge base: a git that fails after it (`|| true`, lines 124 and 126), or
a script stopped at its timeout (`timedOut`, which `services/task-diff.ts:70-105` does not read), gives an empty list without an error of a task that changed files.
`truncated` is there so that "the reader is told, never quietly shortened" (line 304): a patch whose script ran out of time, whose stream broke off
(`lib/worker-commands.ts:106`) or whose git failed half-way is parsed as far as it goes and shown with `truncated` false (`services/task-diff.ts:126-133`).
`DiffIsTheTree` and `PatchIsTheEdit` except the two (`broken`, `broke`). Untracked paths past 64 KiB of them are not listed, and the last one listed may be cut in the middle; the path of a truncated patch may come from
a line of content that reads like a header; a path with a tab in it is cut at the tab.

*Workers and services.* A worker deleted or rebuilt while a spawn or another request is at work on it may keep a container no row names, or a row that
names none: it is `astray`. So is one whose row a poll of the old container overwrites, by id alone, after a spawn recorded the new one (`services/workers.ts:380`).
A spawn that fails after it had its container, and a removal the daemon refuses, leave that container or its volumes behind (`stranded`), be the worker
deleted or rebuilt since; and then "un Rebuild en tire un nouveau" and "il est donné au conteneur" (`docs/agent.md:43`) are not so: the pipeline takes the
container of that name as it is (`lib/docker.ts:207`), with the token it was created with, while the row has a new one; its agent is refused at its hello and the worker
stays `starting`. A start of a service
that an update crossed starts what the service was (`outrun`); a container the daemon would not remove is started again as it is (`stuck`):
"a running service is **recreated** to pick it up" (`services/services.ts:208`) is then not so, as `updateService` swallows the refusal (line 236), the start finds the old container by its
name, and the row is ready with a specification that nothing runs. The overview shows a stopped worker as ready while the stop is in progress.

*MCP.* A connection made under the refresh of the one it replaces is overwritten by it when it ends (`crossed`).

*SSH.* Two unlocks, or a lock and an unlock, that overlap leave the agent's keys and the state's word apart (`overlapped`).

*Terminals.* Of two browsers on a session the first to leave speaks for both (`shared`); a tab that leaves before it was attached stays attached (`hasty`).

*Projects and their form.* A description or a command that was emptied is absent from the PATCH and is kept. An import drops the `ociRef` of a
feature of the user's own that the export kept (`services/projects.ts:381`, `lib/project-form-value.ts:138`). A restore brings back the apps of a
version and leaves the models as they are (`restored`). A secret removed and given again in one save is
set, then deleted (`project-form.tsx:277`). A retry after a partial failure mints another version. A change typed before a "not found" verdict is drawn brings the
extension back unasked; imported ones, and those a registry that cannot be reached was asked about, are never verified (`vouched`). An import file with a malformed id is refused at submit only; one with two
repositories of one id shows and saves the two under that id (`project-form.tsx:226`).
A delete that a spawn or a build crosses, or a container the daemon refuses to remove, leaves images or volumes behind (`escaped`).
`deleteProject` "deletes a project and everything it owns" (`services/projects.ts:343`); with nothing on its way and nothing refused, a container that was created
and did not start (`lib/docker.ts:239-273`) still has no id on its row, so that `removeContainerOnly` asks for nothing (`lib/docker.ts:495`): it stays (`orphans`), with the shared
volumes and the image it holds.

*Services' form.* The guard says it mirrors the API's validation (`service-form.tsx:121`) and lets through ports above 65535,
slugs longer than 40 characters (`validation.ts:171`), volume names with spaces around them and mount paths with one before them, which it trims and the payload does not (`unmirrored`). The page's `close()` after a save closes whichever
form is open (`services/page.tsx:54`); a form opened from a stale list overwrites what others changed. A service named `x-port` or `x-host` shares an environment name with `x`.

*Conversation screen.* Polling of the stream stops when the task's poll learns a terminal state, so the last events may never be fetched
(`task-cockpit.tsx:119`); a late answer of an unmounted screen overwrites the shared cache entry (`late`); a
reply can send a finished task back to running, which a screen that stopped asking never learns (`revived`, `task-cache.ts:94`).

## Not modelled

- **Kills between two synchronous statements** (`services/task-events.ts:147`, a row and its version): a model would
  restate the statements.
- **A conclusion across sessions** (`services/tasks.ts:931`): needs a refresh slower than a whole review and a reply; no property speaks of it.
- Of the pool: prompts, environments and git. `interruptTask`, `updateTask` and `deleteTask` (allowed
  only on finished tasks) change nothing the pool decides on; `Harnesses` and `TaskCommands` have the interrupt and the delete.
  Times are abstracted to order: a deadline is an action that may come due. `findFreePoolWorker` prefers current machines and awake ones; the model takes any candidate.
- Of the event log: drafts, usage, the capture of inline files; `Cockpit` has the paging.
- Of workers and services: a restart of Lite in the middle of a pipeline, which leaves the row `provisioning` (`TaskPool` and `Projects` have it).
- Of Docker: build logs, sockets, a container's environment beyond a service's.
- Of the agent's link: the pings of the connection, which are the package's.
- Of projects: favorites, listings and the fields no rule reads. A lost answer to the POST of a new project, whose retry creates a second one.
- Of the dashboard: what the pages draw. Layout, wording and logging are in no model.
- Bytes: images, media, attachments' contents, terminals' and agents' relays.
- Pure I/O: settings' storage, catalogues of features and extensions (beyond the verdict), the local HTTPS helper and scripts.
