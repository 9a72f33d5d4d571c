------------------------------- MODULE Cockpit -------------------------------
(***************************************************************************)
(* One conversation on one screen (components/task-cockpit.tsx): its       *)
(* stream of events, opened at the end, polled forward and paged backward  *)
(* into lists that outlive the component, and its task, predicted by the   *)
(* clicks, patched by their answers and overwritten by polls.              *)
(***************************************************************************)
EXTENDS Naturals, Sequences, SequencesExt

CONSTANTS
    TailPage,  \* events of a page of history
    PollPage,  \* events of a page read forward
    MaxLog,    \* bound: events of the task
    MaxMounts  \* bound: times the conversation is opened

VARIABLES
    total,   \* events stored: 1..total
    task,    \* the task's row
    shown,   \* the stream's entry of the query cache: what is drawn
    mount,   \* per mount of the component, its refs and its page of history under way
    current, \* the mount on screen
    poll,    \* the request of the stream under way
    seen,    \* the task's entry of the query cache
    look,    \* the request of the task under way
    click,   \* the mutation under way
    late,    \* history: the last answer drawn was for a mount that is gone
    revived  \* history: a task that was over went back to work

vars == <<total, task, shown, mount, current, poll, seen, look, click, late, revived>>

Log == 1..MaxLog
Actions == {"accepting", "dropping", "replying"}
Row == [state : {"running", "in-review", "done", "failed"}, pending : Actions \cup {"none"}]
Pages == UNION {[1..n -> Log] : n \in 0..MaxLog}
Closed == [opened |-> FALSE, held |-> <<>>, cursor |-> 0, oldest |-> 0, hasMore |-> FALSE,
           older |-> "idle", page |-> <<>>, more |-> FALSE]
NoPoll == [pc |-> "idle", of |-> 1, tail |-> FALSE, page |-> <<>>, lastSeq |-> 0, more |-> FALSE]
Unread == [state |-> "unread", pending |-> "none"]
NoLook == [pc |-> "idle", row |-> Unread]
NoClick == [pc |-> "idle", action |-> "none", row |-> Unread]

CockpitTypes ==
    /\ total \in 0..MaxLog /\ task \in Row /\ shown \in Pages /\ current \in 1..MaxMounts
    /\ \A m \in 1..MaxMounts :
          /\ mount[m].held \in Pages /\ mount[m].cursor \in 0..MaxLog
          /\ mount[m].oldest \in 0..MaxLog /\ mount[m].older \in {"idle", "asked", "answered"}
    /\ poll.pc \in {"idle", "asked", "answered"} /\ poll.page \in Pages
    /\ seen \in Row \cup {Unread} /\ look.row \in Row \cup {Unread}
    /\ click.action \in Actions \cup {"none"}

-----------------------------------------------------------------------------
(* What the route answers. *)
Between(a, b) == [i \in 1..(IF b < a THEN 0 ELSE b - a + 1) |-> a + i - 1]
listTaskEvents(since) ==
    Between(since + 1, IF since + PollPage < total THEN since + PollPage ELSE total)
listTaskEventsBefore(before) ==
    Between(IF before > TailPage THEN before - TailPage ELSE 1, before - 1)
listTaskEventsTail == listTaskEventsBefore(total + 1)
moreBefore(before) == before > TailPage + 1

stored(page, since) == total  \* mutant: a page says how far the log goes, not how far it goes itself
lastSeq(page, since) == IF page = <<>> THEN since ELSE Last(page)

isLiveTask(row) == row.state \in {"running", "in-review"}
onlyLive(row) == isLiveTask(row)  \* mutant: an action in flight does not keep a task polled
polls(row) == row.pending # "none" \/ isLiveTask(row)
mayPoll(row) == polls(row)

-----------------------------------------------------------------------------
(* The stream. *)
Here == mount[current]
TaskSide == <<task, seen, look, click, revived>>

(* One request at a time for the key, by whichever mount began it. *)
queryFn ==
    /\ poll.pc = "idle" /\ (isLiveTask(seen) \/ ~Here.opened)
    /\ poll' = [NoPoll EXCEPT !.pc = "asked", !.of = current, !.tail = ~Here.opened]
    /\ UNCHANGED <<total, shown, mount, current, late, TaskSide>>

EventsAnswered ==
    LET since == mount[poll.of].cursor
        page == IF poll.tail THEN listTaskEventsTail ELSE listTaskEvents(since) IN
    /\ poll.pc = "asked"
    /\ poll' = [poll EXCEPT !.pc = "answered", !.page = page, !.more = moreBefore(total + 1),
                            !.lastSeq = lastSeq(page, IF poll.tail THEN 0 ELSE since)]
    /\ UNCHANGED <<total, shown, mount, current, late, TaskSide>>

EventsArrive ==
    LET m == poll.of
        opening == ~mount[m].opened
        held == IF opening THEN poll.page ELSE mount[m].held \o poll.page IN
    /\ poll.pc = "answered" /\ poll' = NoPoll
    /\ mount' = [mount EXCEPT ![m] =
           [mount[m] EXCEPT
               !.opened = TRUE, !.held = held,
               !.cursor = IF @ < poll.lastSeq THEN poll.lastSeq ELSE @,
               !.oldest = IF opening THEN IF poll.page = <<>> THEN 0 ELSE Head(poll.page) ELSE @,
               !.hasMore = IF opening THEN poll.more ELSE @]]
    /\ shown' = held /\ late' = (m # current)
    /\ UNCHANGED <<total, current, TaskSide>>

EventsFail ==
    /\ poll.pc # "idle" /\ poll' = NoPoll
    /\ UNCHANGED <<total, shown, mount, current, late, TaskSide>>

loadOlder ==
    /\ Here.hasMore /\ Here.oldest # 0 /\ Here.older = "idle"
    /\ mount' = [mount EXCEPT ![current].older = "asked"]
    /\ UNCHANGED <<total, shown, current, poll, late, TaskSide>>

OlderAnswered(m) ==
    /\ mount[m].older = "asked"
    /\ mount' = [mount EXCEPT ![m] = [@ EXCEPT !.older = "answered",
                                               !.page = listTaskEventsBefore(mount[m].oldest),
                                               !.more = moreBefore(mount[m].oldest)]]
    /\ UNCHANGED <<total, shown, current, poll, late, TaskSide>>

(* Also when the component is gone: its closure has its refs, and the cache is everybody's. *)
OlderArrives(m) ==
    LET page == mount[m].page  held == page \o mount[m].held IN
    /\ mount[m].older = "answered"
    /\ mount' = [mount EXCEPT ![m] =
           [mount[m] EXCEPT !.older = "idle", !.held = held, !.page = <<>>,
                            !.oldest = IF page = <<>> THEN @ ELSE Head(page),
                            !.hasMore = mount[m].more /\ page # <<>>]]
    /\ shown' = held /\ late' = (m # current)
    /\ UNCHANGED <<total, current, poll, TaskSide>>

OlderFails(m) ==
    /\ mount[m].older # "idle" /\ mount' = [mount EXCEPT ![m].older = "idle", ![m].page = <<>>]
    /\ UNCHANGED <<total, shown, current, poll, late, TaskSide>>

(* Another conversation, and this one again: new refs, the same cache. *)
Reopened ==
    /\ current < MaxMounts /\ current' = current + 1
    /\ UNCHANGED <<total, shown, mount, poll, late, TaskSide>>

-----------------------------------------------------------------------------
(* The task. *)
StreamSide == <<total, shown, mount, current, poll, late>>

taskPollInterval ==
    /\ look.pc = "idle" /\ (seen = Unread \/ mayPoll(seen))
    /\ look' = [NoLook EXCEPT !.pc = "asked"]
    /\ UNCHANGED <<task, seen, click, revived, StreamSide>>
TaskAnswered ==
    /\ look.pc = "asked" /\ look' = [pc |-> "answered", row |-> task]
    /\ UNCHANGED <<task, seen, click, revived, StreamSide>>
TaskArrives ==
    /\ look.pc = "answered" /\ look' = NoLook /\ seen' = look.row
    /\ UNCHANGED <<task, click, revived, StreamSide>>
TaskFails ==
    /\ look.pc # "idle" /\ look' = NoLook
    /\ UNCHANGED <<task, seen, click, revived, StreamSide>>

busy == seen.pending # "none" \/ click.pc # "idle"

(* Accept and Drop cancel the requests that would overwrite the prediction, a reply does not. *)
onMutate(action) ==
    /\ ~busy /\ seen # Unread /\ isLiveTask(seen)
    /\ action = "accepting" => seen.state = "in-review"
    /\ seen' = [seen EXCEPT !.pending = action]
    /\ look' = IF action = "replying" THEN look ELSE NoLook
    /\ click' = [NoClick EXCEPT !.pc = "posted", !.action = action]
    /\ UNCHANGED <<task, revived, StreamSide>>

(* 202 with the row as claimed; 409 otherwise.  A session that listens takes a reply at once, *)
(* whatever became of its task since it was read.                                              *)
allowed(action) ==
    CASE action = "accepting" -> {"in-review"}
      [] action = "dropping" -> {"running", "in-review"}
      [] OTHER -> {"in-review"}
claimPending(action) ==
    /\ task.state \in allowed(action) /\ task.pending # action
    /\ task' = [task EXCEPT !.pending = action]
    /\ UNCHANGED revived
TakenLive ==
    /\ task' = [task EXCEPT !.state = "running"]
    /\ revived' = (revived \/ ~isLiveTask(task))

Posted ==
    /\ click.pc = "posted"
    /\ \/ /\ claimPending(click.action)
          /\ click' = [click EXCEPT !.pc = "answered", !.row = task']
       \/ /\ click.action = "replying" /\ TakenLive
          /\ click' = [click EXCEPT !.pc = "answered", !.row = task']
       \/ click' = [click EXCEPT !.pc = "refused"] /\ UNCHANGED <<task, revived>>
    /\ UNCHANGED <<seen, look, StreamSide>>

(* An answer that never comes is an error to the screen, whatever the server did. *)
AnswerLost ==
    /\ click.pc = "answered" /\ click' = [click EXCEPT !.pc = "refused"]
    /\ UNCHANGED <<task, seen, look, revived, StreamSide>>
onSuccess ==
    /\ click.pc = "answered" /\ seen' = click.row /\ click' = NoClick
    /\ UNCHANGED <<task, look, revived, StreamSide>>
onError ==
    /\ click.pc = "refused" /\ look' = [NoLook EXCEPT !.pc = "asked"] /\ click' = NoClick
    /\ UNCHANGED <<task, seen, revived, StreamSide>>

-----------------------------------------------------------------------------
(* The server's side: sessions write and end, jobs finish, others click too. *)
AgentWrites ==
    /\ total' \in total + 1..MaxLog
    /\ UNCHANGED <<shown, mount, current, poll, late, TaskSide>>
Moves == UNCHANGED <<seen, look, click, StreamSide>>
SessionEnds ==
    /\ task.state = "running" /\ task' \in [state : {"in-review", "failed"}, pending : {task.pending}]
    /\ UNCHANGED revived /\ Moves
JobEnds ==
    /\ task.pending # "none"
    /\ \E state \in CASE task.pending = "accepting" -> {"done", "in-review"}
                      [] task.pending = "dropping" -> {"failed"}
                      [] OTHER -> {"running", "in-review"} :
           task' = [state |-> IF isLiveTask(task) THEN state ELSE task.state, pending |-> "none"]
    /\ UNCHANGED revived /\ Moves
Elsewhere ==
    /\ \/ \E action \in Actions : claimPending(action)
       \/ TakenLive
    /\ task' # task /\ Moves

Init ==
    /\ total \in {0, MaxLog} /\ task = [state |-> "running", pending |-> "none"]
    /\ shown = <<>> /\ mount = [m \in 1..MaxMounts |-> Closed] /\ current = 1
    /\ poll = NoPoll /\ seen = Unread /\ look = NoLook /\ click = NoClick
    /\ late = FALSE /\ revived = FALSE

Steps ==
    \/ queryFn \/ EventsAnswered \/ EventsArrive
    \/ \E m \in 1..MaxMounts : OlderAnswered(m) \/ OlderArrives(m)
    \/ taskPollInterval \/ TaskAnswered \/ TaskArrives
    \/ Posted \/ onSuccess \/ onError \/ JobEnds
Events ==
    \/ AgentWrites \/ SessionEnds \/ Elsewhere \/ AnswerLost \/ EventsFail \/ TaskFails
    \/ loadOlder \/ Reopened \/ \E m \in 1..MaxMounts : OlderFails(m)
    \/ \E action \in Actions : onMutate(action)

Next == Events \/ Steps
Spec == Init /\ [][Next]_vars

-----------------------------------------------------------------------------
(* components/task-cockpit.tsx:97-133: what is drawn is a piece of the log without a  *)
(* hole and without a repeat, however polls, pages of history, failures and mounts      *)
(* interleave; history is offered until its beginning is there; and what is drawn is     *)
(* what the mount on screen holds, but for an answer that came late to one that is gone.  *)
Run(s) == \A i \in 1..Len(s) : s[i] = s[1] + i - 1
ShowsTheLog ==
    /\ Run(shown)
    /\ \A m \in 1..MaxMounts : mount[m].opened =>
          /\ Run(mount[m].held)
          /\ ~mount[m].hasMore /\ mount[m].held # <<>> => Head(mount[m].held) = 1
    /\ Here.opened /\ ~late => shown = Here.held

(* lib/task-cache.ts:90-95: a screen that no longer asks shows the task as it is, although  *)
(* answers to polls and to clicks overtake one another and some never come; unless a reply    *)
(* sent a task that was over back to work, which no screen that stopped asking learns.         *)
SettledIsTrue ==
    look.pc = "idle" /\ click.pc = "idle" /\ seen # Unread /\ ~mayPoll(seen) /\ ~revived =>
        seen = task
=============================================================================
