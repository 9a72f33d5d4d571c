---------------------------- MODULE TaskCommands ----------------------------
(***************************************************************************)
(* What the platform runs in a worker for a task                           *)
(* (services/task-commands.ts over lib/worker-commands.ts): the row of a   *)
(* command, and the process it stands for, which lives in the container    *)
(* with its files.  A background command is reconciled when its row is     *)
(* read; a foreground one is recorded when it returns.                     *)
(***************************************************************************)
EXTENDS Naturals

CONSTANTS
    Orders,     \* commands people and jobs ask for
    Readers,    \* reads of a command under way
    Killers,    \* cancellations under way
    MaxCrates   \* bound: containers of the worker in a behaviour

VARIABLES
    host,       \* the worker's row: its container, 0 without; its state
    crates,     \* containers that exist: up or down
    process,    \* per command, its process and what its files say
    record,     \* per command, its row in task_commands
    order,      \* per command, the call that runs or starts it
    reader, killer,
    alive,      \* is the task still there
    first,      \* history: the first final status of a row
    blind       \* history: commands an answer about which was lost on its way

vars == <<host, crates, process, record, order, reader, killer, alive, first, blind>>

Codes == {0, 1, 124, 143}
NoCode == 1000
Statuses == {"running", "succeeded", "failed", "timeout", "canceled", "lost"}
Process == [crate : 0..MaxCrates, phase : {"none", "starting", "running", "ended", "dead"},
            code : Codes \cup {NoCode}]
NoProcess == [crate |-> 0, phase |-> "none", code |-> NoCode]
Record == [mode : {"none", "sync", "background"}, status : Statuses]
NoRecord == [mode |-> "none", status |-> "running"]
NoReader == [pc |-> "idle", command |-> CHOOSE c \in Orders : TRUE, crate |-> 0, answer |-> "running"]
NoKiller == [pc |-> "idle", command |-> CHOOSE c \in Orders : TRUE, crate |-> 0]

CommandTypes ==
    /\ host \in [there : BOOLEAN, crate : 0..MaxCrates, state : {"ready", "other"}]
    /\ crates \in [1..MaxCrates -> {"absent", "up", "down"}]
    /\ process \in [Orders -> Process] /\ record \in [Orders -> Record]
    /\ order \in [Orders -> {"idle", "start", "run", "started", "ran", "over"}]
    /\ \A r \in Readers : /\ reader[r].pc \in {"idle", "poll", "write"}
                          /\ reader[r].command \in Orders /\ reader[r].crate \in 0..MaxCrates
                          /\ reader[r].answer \in Statuses
    /\ \A k \in Killers : /\ killer[k].pc \in {"idle", "signal", "write"}
                          /\ killer[k].command \in Orders /\ killer[k].crate \in 0..MaxCrates
    /\ alive \in BOOLEAN /\ first \in [Orders -> Statuses] /\ blind \subseteq Orders

-----------------------------------------------------------------------------
hasContainer == host.there /\ host.crate # 0
reaches(n) == n # 0 /\ crates[n] = "up"
lives(c) == process[c].phase \in {"starting", "running"}

(* timedOut is an exit code of 124, on both roads. *)
statusOf(code) ==
    CASE code = 124 -> "timeout"
      [] code = 0 -> "succeeded"
      [] code = 143 -> "canceled"
      [] OTHER -> "failed"

(* What the poll script answers of a command, in a container it reaches: a pid  *)
(* that is not written yet reads as running, a directory that is not there as     *)
(* lost.                                                                          *)
found(c, n) == process[c].crate = n
died(c) == process[c].phase = "dead"
pollCommand(c, n) ==
    IF ~found(c, n) \/ died(c) THEN "lost"
    ELSE IF process[c].phase = "ended" THEN statusOf(process[c].code)
    ELSE "running"

isRunning(c) == record[c].status = "running"
whatever(c) == record[c].mode # "none"  \* mutant: the update is not guarded on the status
stillRunning(c) == isRunning(c)

Finish(c, status) ==
    IF stillRunning(c) /\ status # "running"
    THEN /\ record' = [record EXCEPT ![c].status = status]
         /\ first' = [first EXCEPT ![c] = IF @ = "running" THEN status ELSE @]
    ELSE UNCHANGED <<record, first>>

-----------------------------------------------------------------------------
(* Launches: the row is written once the container has answered. *)

startTaskCommand(c) ==
    /\ order[c] = "idle" /\ hasContainer /\ alive
    /\ order' = [order EXCEPT ![c] = "start"]
    /\ process' = [process EXCEPT ![c].crate = host.crate]
    /\ UNCHANGED <<host, crates, record, reader, killer, alive, first, blind>>

runTaskCommand(c) ==
    /\ order[c] = "idle" /\ hasContainer /\ alive
    /\ order' = [order EXCEPT ![c] = "run"]
    /\ process' = [process EXCEPT ![c].crate = host.crate]
    /\ UNCHANGED <<host, crates, record, reader, killer, alive, first, blind>>

(* The exec gets to the container, which has the process from then on; or it throws. *)
execScript(c) ==
    /\ order[c] \in {"start", "run"}
    /\ IF reaches(process[c].crate)
       THEN /\ process' = [process EXCEPT ![c].phase = "starting"]
            /\ order' = [order EXCEPT ![c] = IF @ = "start" THEN "started" ELSE "ran"]
            /\ UNCHANGED <<record, first>>
       ELSE /\ order' = [order EXCEPT ![c] = "over"]
            /\ UNCHANGED process
            /\ IF order[c] = "run" /\ alive
               THEN /\ record' = [record EXCEPT ![c] = [mode |-> "sync", status |-> "failed"]]
                    /\ first' = [first EXCEPT ![c] = "failed"]
               ELSE UNCHANGED <<record, first>>
    /\ UNCHANGED <<host, crates, reader, killer, alive, blind>>

(* A task deleted meanwhile has no rows: the insert fails on its foreign key. *)
inserted(c, mode, status) ==
    IF alive THEN /\ record' = [record EXCEPT ![c] = [mode |-> mode, status |-> status]]
                  /\ first' = [first EXCEPT ![c] = status]
    ELSE UNCHANGED <<record, first>>

recordedAtLaunch(c) ==
    /\ order[c] = "started" /\ order' = [order EXCEPT ![c] = "over"]
    /\ inserted(c, "background", "running")
    /\ UNCHANGED <<host, crates, process, reader, killer, alive, blind>>

recordedAtReturn(c) ==
    /\ order[c] = "ran" /\ process[c].phase \in {"ended", "dead"}
    /\ order' = [order EXCEPT ![c] = "over"]
    /\ inserted(c, "sync",
                IF process[c].phase = "dead" THEN "failed" ELSE statusOf(process[c].code))
    /\ UNCHANGED <<host, crates, process, reader, killer, alive, blind>>

(* The answer never comes: no row of a launch, a failed one of a run. *)
AnswerLost(c) ==
    /\ order[c] \in {"started", "ran"} /\ order' = [order EXCEPT ![c] = "over"]
    /\ blind' = blind \cup {c}
    /\ IF order[c] = "ran" THEN inserted(c, "sync", "failed") ELSE UNCHANGED <<record, first>>
    /\ UNCHANGED <<host, crates, process, reader, killer, alive>>

-----------------------------------------------------------------------------
(* Reads and cancellations of a background row. *)

refreshTaskCommand(r, c) ==
    /\ reader[r].pc = "idle" /\ record[c].mode = "background" /\ isRunning(c)
    /\ IF ~hasContainer
       THEN Finish(c, "lost") /\ UNCHANGED reader
       ELSE /\ host.state = "ready"
            /\ reader' = [reader EXCEPT ![r] = [NoReader EXCEPT !.pc = "poll", !.command = c,
                                                                !.crate = host.crate]]
            /\ UNCHANGED <<record, first>>
    /\ UNCHANGED <<host, crates, process, order, killer, alive, blind>>

Polled(r) ==
    LET c == reader[r].command  n == reader[r].crate IN
    /\ reader[r].pc = "poll"
    /\ reader' = [reader EXCEPT ![r] =
           IF reaches(n) THEN [@ EXCEPT !.pc = "write", !.answer = pollCommand(c, n)] ELSE NoReader]
    /\ UNCHANGED <<host, crates, process, record, order, killer, alive, first, blind>>

(* A stream that breaks resolves with what came: no FOUND in it, so not found. *)
StreamBreaks(r) ==
    /\ reader[r].pc = "poll"
    /\ reader' = [reader EXCEPT ![r].pc = "write", ![r].answer = "lost"]
    /\ blind' = blind \cup {reader[r].command}
    /\ UNCHANGED <<host, crates, process, record, order, killer, alive, first>>

WriteStatus(r) ==
    /\ reader[r].pc = "write"
    /\ Finish(reader[r].command, reader[r].answer)
    /\ reader' = [reader EXCEPT ![r] = NoReader]
    /\ UNCHANGED <<host, crates, process, order, killer, alive, blind>>

cancelTaskCommand(k, c) ==
    /\ killer[k].pc = "idle" /\ record[c].mode = "background"
    /\ hasContainer /\ host.state = "ready"
    /\ killer' = [killer EXCEPT ![k] = [pc |-> "signal", command |-> c, crate |-> host.crate]]
    /\ UNCHANGED <<host, crates, process, record, order, reader, alive, first, blind>>

(* TERM to the group: a wrapper that can still write says 143. *)
cancelCommand(k) ==
    LET c == killer[k].command IN
    /\ killer[k].pc = "signal"
    /\ IF reaches(killer[k].crate)
       THEN /\ killer' = [killer EXCEPT ![k].pc = "write"]
            /\ process' = IF lives(c) /\ found(c, killer[k].crate)
                          THEN [process EXCEPT ![c].phase = "ended", ![c].code = 143]
                          ELSE process
       ELSE killer' = [killer EXCEPT ![k] = NoKiller] /\ UNCHANGED process
    /\ UNCHANGED <<host, crates, record, order, reader, alive, first, blind>>

WriteCanceled(k) ==
    /\ killer[k].pc = "write"
    /\ Finish(killer[k].command, "canceled")
    /\ killer' = [killer EXCEPT ![k] = NoKiller]
    /\ UNCHANGED <<host, crates, process, order, reader, alive, blind>>

-----------------------------------------------------------------------------
(* The process and its container. *)

PidWritten(c) ==
    /\ process[c].phase = "starting" /\ process' = [process EXCEPT ![c].phase = "running"]
    /\ UNCHANGED <<host, crates, record, order, reader, killer, alive, first, blind>>

Exits(c, code) ==
    /\ process[c].phase = "running" /\ code # 143
    /\ process' = [process EXCEPT ![c].phase = "ended", ![c].code = code]
    /\ UNCHANGED <<host, crates, record, order, reader, killer, alive, first, blind>>

Ends(n) == [c \in Orders |-> IF lives(c) /\ process[c].crate = n
                             THEN [process[c] EXCEPT !.phase = "dead"] ELSE process[c]]

ContainerFalls ==
    /\ hasContainer /\ reaches(host.crate)
    /\ crates' = [crates EXCEPT ![host.crate] = "down"] /\ process' = Ends(host.crate)
    /\ host' \in {host, [host EXCEPT !.state = "other"]}
    /\ UNCHANGED <<record, order, reader, killer, alive, first, blind>>

ContainerBack ==
    /\ hasContainer /\ crates' = [crates EXCEPT ![host.crate] = "up"]
    /\ host' = [host EXCEPT !.state = "ready"] /\ <<crates, host>>' # <<crates, host>>
    /\ UNCHANGED <<process, record, order, reader, killer, alive, first, blind>>

(* Rebuilds and deletes remove the container, files and all, and then the row's word of it. *)
ContainerRemoved ==
    /\ hasContainer /\ crates[host.crate] # "absent"
    /\ crates' = [crates EXCEPT ![host.crate] = "absent"] /\ process' = Ends(host.crate)
    /\ UNCHANGED <<host, record, order, reader, killer, alive, first, blind>>
RowFollows ==
    /\ hasContainer /\ crates[host.crate] = "absent"
    /\ host' \in {[host EXCEPT !.crate = 0, !.state = "other"],
                  [there |-> FALSE, crate |-> 0, state |-> "other"]}
    /\ UNCHANGED <<crates, process, record, order, reader, killer, alive, first, blind>>
Respawned(n) ==
    /\ host.there /\ host.crate = 0 /\ crates[n] = "absent"
    /\ \A c \in Orders : process[c].crate # n
    /\ crates' = [crates EXCEPT ![n] = "up"]
    /\ host' = [there |-> TRUE, crate |-> n, state |-> "ready"]
    /\ UNCHANGED <<process, record, order, reader, killer, alive, first, blind>>

(* Deleting a task takes its rows with it; a restart of Lite, the calls under way. *)
deleteTask ==
    /\ alive /\ alive' = FALSE
    /\ record' = [c \in Orders |-> NoRecord] /\ first' = [c \in Orders |-> "running"]
    /\ UNCHANGED <<host, crates, process, order, reader, killer, blind>>
LiteRestarts ==
    /\ order' = [c \in Orders |-> IF order[c] = "idle" THEN "idle" ELSE "over"]
    /\ blind' = blind \cup {c \in Orders : order[c] \in {"started", "ran"}}
    /\ reader' = [r \in Readers |-> NoReader] /\ killer' = [k \in Killers |-> NoKiller]
    /\ UNCHANGED <<host, crates, process, record, alive, first>>

Init ==
    /\ host = [there |-> TRUE, crate |-> 1, state |-> "ready"]
    /\ crates = [n \in 1..MaxCrates |-> IF n = 1 THEN "up" ELSE "absent"]
    /\ process = [c \in Orders |-> NoProcess] /\ record = [c \in Orders |-> NoRecord]
    /\ order = [c \in Orders |-> "idle"]
    /\ reader = [r \in Readers |-> NoReader] /\ killer = [k \in Killers |-> NoKiller]
    /\ alive = TRUE /\ first = [c \in Orders |-> "running"] /\ blind = {}

Steps ==
    \/ \E c \in Orders : execScript(c) \/ recordedAtLaunch(c) \/ recordedAtReturn(c) \/ PidWritten(c)
    \/ \E r \in Readers : Polled(r) \/ WriteStatus(r)
    \/ \E k \in Killers : cancelCommand(k) \/ WriteCanceled(k)
    \/ RowFollows
    \/ \E c \in Orders, code \in Codes : Exits(c, code)

Events ==
    \/ \E c \in Orders : startTaskCommand(c) \/ runTaskCommand(c) \/ AnswerLost(c)
    \/ \E r \in Readers, c \in Orders : refreshTaskCommand(r, c)
    \/ \E k \in Killers, c \in Orders : cancelTaskCommand(k, c)
    \/ \E r \in Readers : StreamBreaks(r)
    \/ ContainerFalls \/ ContainerBack \/ ContainerRemoved
    \/ \E n \in 1..MaxCrates : Respawned(n)
    \/ deleteTask \/ LiteRestarts

-----------------------------------------------------------------------------
(* services/task-commands.ts:114: the row of a finished command is final and   *)
(* says how its process ended, and a process that runs has a row that says so,    *)
(* whatever polls, cancellations, rebuilds and deletes raced; but for a command    *)
(* an answer about which was lost (`blind'), and for a task that was deleted.      *)
RowIsTrue ==
    \A c \in Orders :
        LET status == record[c].status IN
        /\ record[c].mode # "none" => status = first[c]
        /\ record[c].mode # "none" /\ c \notin blind =>
              CASE status = "running" -> TRUE
                [] status \in {"lost", "canceled"} -> ~lives(c)
                [] OTHER -> \/ process[c].phase = "ended" /\ status = statusOf(process[c].code)
                            \/ record[c].mode = "sync" /\ status = "failed"
        /\ lives(c) /\ alive /\ c \notin blind /\ order[c] = "over" =>
              record[c].mode = "background" /\ status = "running"
=============================================================================
