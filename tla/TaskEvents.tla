----------------------------- MODULE TaskEvents -----------------------------
(***************************************************************************)
(* One task's session streams, taken into its event log by whoever reads   *)
(* the task (services/task-events.ts), and what those readers conclude     *)
(* from the log (refreshTask, services/tasks.ts).  Several readers of one  *)
(* task overlap: the cockpit's polls, the background floor, and the drain  *)
(* of a reply.  Each works on the row it read when it began.               *)
(*                                                                         *)
(* Bytes are the units of StreamLines; texts, files and usage are left out. *)
(***************************************************************************)
EXTENDS StreamLines

CONSTANTS
    Watchers,    \* requests for the event route
    Pollers,     \* requests, or ticks, that only bring the task up to date
    Drain,       \* the drain of a reply's job
    MaxCommands, \* bound: sessions launched
    MaxUnits,    \* bound: units a session writes
    MaxTurns,    \* bound: turns people give
    Kinds,       \* the lines a harness writes, after its first
    Pieces,      \* a line may come in pieces
    MAX_READ, MAX_LINE, MAX_CHUNKS, \* ceilings: a read, a line put together, a pass
    Interactive, \* the harness listens between turns (else one-shot)
    OutOfBand,   \* the session's title is read in its transcript
    Clicks,      \* which replies people send: resumed, live, to a running task
    ReviewStop,  \* review mode `stop`
    Faults       \* which faults the environment injects

Readers == Watchers \cup Pollers \cup {Drain}
Commands == 1..MaxCommands

ASSUME ReadersAssumption ==
    /\ Drain \notin Watchers \cup Pollers /\ Watchers \cap Pollers = {}
ASSUME CeilingsAssumption ==
    /\ {MAX_READ, MAX_LINE, MAX_CHUNKS, MaxCommands, MaxUnits, MaxTurns} \subseteq Nat \ {0}
    /\ Kinds \subseteq LineKinds
    /\ {Pieces, Interactive, OutOfBand, ReviewStop} \subseteq BOOLEAN

VARIABLES
    stream,   \* per session, its stdout.log
    status,   \* per session, its process, and its exit
    busy,     \* sessions in the middle of a turn
    stdin,    \* sessions with a turn in stdin they have not begun
    up,       \* the machine is ready
    row,      \* the row of `tasks`
    log,      \* rows of `task_events`, by seq
    reader,   \* the reads of the task in flight
    reply,    \* the job of a reply that resumes the conversation
    live,     \* a reply on its way to the live session
    past      \* history: per session, how far its stream was taken in

agent == <<stream, status, busy, stdin>>
jobs == <<reply, live>>
vars == <<stream, status, busy, stdin, up, row, log, reader, reply, live, past>>

Statuses == {"none", "running", "succeeded", "failed", "lost"}
RowType == [state : {"running", "in-review", "failed"}, cmd : Commands, ecmd : {0} \cup Commands,
            off : 0..MaxUnits, seq : Nat, auto : BOOLEAN]

TypeOK ==
    /\ stream \in [Commands -> Seq(Units)]
    /\ status \in [Commands -> Statuses]
    /\ busy \subseteq Commands /\ stdin \subseteq Commands /\ up \in BOOLEAN
    /\ row \in RowType
    /\ DOMAIN log \subseteq 1..row.seq
    /\ \A s \in DOMAIN log : log[s] \in [cmd : Commands, at : 0..MaxUnits, type : EventTypes]
    /\ reader \in [Readers -> [pc : {"idle", "ask", "read", "claim", "name", "conclude"},
                               row : RowType, from : {0} \cup Commands, rowOff : 0..MaxUnits,
                               off : 0..MaxUnits, seq : Nat, got : 0..MaxUnits,
                               size : 0..MaxUnits, chunk : 0..(MAX_CHUNKS - 1), stored : BOOLEAN,
                               session : Statuses]]
    /\ reply \in [pc : {"idle", "wake", "drain", "started", "record"}, row : RowType,
                  cmd : {0} \cup Commands]
    /\ live \in [pc : {"idle", "say", "write"}, cmd : Commands, seen : {"", "running", "in-review"}]
    /\ past \in [Commands -> 0..MaxUnits]

-----------------------------------------------------------------------------
(* Reading the log. *)

Lasting == {"raw", "title", "busy", "quiet"}  \* facts about the session, not moments of it

lastOf(types, before) == Max({0} \cup {s \in DOMAIN log : s < before /\ log[s].type \in types})

hasEndedTurn ==
    LET s == lastOf(EventTypes \ Lasting, row.seq + 1) IN s # 0 /\ log[s].type = "ended"

takesItsWord == hasEndedTurn  \* mutant: what runs in the background is forgotten

(* Nothing was left running in the background at that end. *)
hasHandedBack ==
    LET s == lastOf(EventTypes \ Lasting, row.seq + 1)
        b == lastOf({"busy", "quiet"}, s) IN
    hasEndedTurn /\ (b # 0 => log[b].type = "quiet")

latestSessionId == \E s \in DOMAIN log : log[s].type = "started"

(* The log with these events past `seq`; a row that is there stays as it is. *)
inserted(events, seq) ==
    [s \in DOMAIN log \cup ((seq + 1)..(seq + Len(events))) |->
        IF s \in DOMAIN log THEN log[s] ELSE events[s - seq]]

(* An event the platform writes itself, at the next seq. *)
appendPlatformEvent(c, type) ==
    /\ row' = [row EXCEPT !.seq = @ + 1]
    /\ log' = inserted(<<[cmd |-> c, at |-> 0, type |-> type]>>, row.seq)

-----------------------------------------------------------------------------
(* A read of the task, from one await to the next. *)

Reading(r, session) ==
    [pc |-> "read", row |-> r, from |-> r.ecmd, rowOff |-> r.off,
     off |-> IF r.ecmd \in {0, r.cmd} THEN r.off ELSE 0,
     seq |-> r.seq, got |-> 0, size |-> 0, chunk |-> 0, stored |-> FALSE,
     session |-> session]
At(pc, r, session) == [Reading(r, session) EXCEPT !.pc = pc]
NoRow == [state |-> "running", cmd |-> 1, ecmd |-> 0, off |-> 0, seq |-> 0, auto |-> FALSE]
Away == At("idle", NoRow, "none")
Set(r, d) == reader' = [reader EXCEPT ![r] = d]

(* The route lists the events after one more ingestion, on the row it got. *)
Answered(r, got) == IF r \in Watchers THEN Reading(got, "none") ELSE Away

(* The ingestion of d is over. *)
Ingested(d) ==
    CASE d.stored /\ d.row.auto /\ OutOfBand -> At("name", d.row, d.session)
      [] d.session # "none" -> At("conclude", d.row, d.session)
      [] OTHER -> Away

getTask(r) ==
    /\ reader[r].pc = "idle" /\ r # Drain
    /\ Set(r, IF row.state = "running" THEN At("ask", row, "none")
              ELSE Answered(r, row))
    /\ UNCHANGED <<agent, up, row, log, jobs, past>>

(* machineDown: a machine that went down under a running task. *)
MachineDown(r) ==
    LET seen == reader[r].row
        verdict == IF (Interactive /\ hasEndedTurn) \/ latestSessionId
                     THEN "in-review" ELSE "failed" IN
    /\ reader[r].pc = "ask" /\ ~up
    /\ row' = [row EXCEPT !.state = IF @ = "running" THEN verdict ELSE @]
    /\ Set(r, Answered(r, IF row.state = "running" THEN [seen EXCEPT !.state = verdict] ELSE row))
    /\ UNCHANGED <<agent, up, log, jobs, past>>

(* The session's row is brought up to date; its stream is read at intervals *)
(* while it lives, and always once it has exited.                            *)
AskSession(r) ==
    LET d == reader[r]
        session == status[d.row.cmd] IN
    /\ d.pc = "ask" /\ up
    /\ \/ /\ Interactive \/ session # "running"
          /\ Set(r, Reading(d.row, session))
       \/ /\ session = "running"
          /\ Set(r, At("conclude", d.row, session))
    /\ UNCHANGED <<agent, up, row, log, jobs, past>>

(* readCommandOutput: what the file holds past the bytes already in hand. *)
readCommandOutput(r) ==
    LET d == reader[r]
        s == stream[d.row.cmd]
        more == Min({MAX_READ, Len(s) - (d.off + d.got)}) IN
    /\ d.pc = "read"
    /\ Set(r, IF up /\ more > 0
                THEN [d EXCEPT !.pc = "claim", !.got = @ + more, !.size = Len(s)]
                ELSE Ingested(d))
    /\ UNCHANGED <<agent, up, row, log, jobs, past>>

anySeq(d) == row.ecmd = d.from /\ row.off = d.rowOff  \* mutants: half a comparison
anyOffset(d) == row.ecmd = d.from /\ row.seq = d.seq

(* The row's cursor is still the one d read it at. *)
Current(d) == row.ecmd = d.from /\ row.off = d.rowOff /\ row.seq = d.seq

(* Claim the range up to `to`, and store its events under the claimed seqs.  *)
advanceCursor(d, to, events) ==
    /\ row' = [row EXCEPT !.ecmd = d.row.cmd, !.off = to, !.seq = d.seq + Len(events)]
    /\ past' = [past EXCEPT ![d.row.cmd] = to]
    /\ log' = inserted(events, d.seq)

noCarry(d) == d.got < MAX_READ  \* mutant: the comparison the wrong way round
fullRead(d) == d.got % MAX_READ = 0
spentLate(d) == d.chunk > MAX_CHUNKS  \* mutant: one chunk too many
spent(d) == d.chunk = MAX_CHUNKS

(* Bytes that end no line: carried on to the next read if this one was full *)
(* and the line may still fit, else left for another pass; past the ceiling   *)
(* the bytes are skipped.                                                     *)
TakeNothing(r) ==
    LET d == reader[r]
        to == d.off + d.got IN
    /\ d.pc = "claim"
    /\ splitCompleteLines(stream[d.row.cmd], d.off, to) = d.off
    /\ IF fullRead(d) /\ d.got >= MAX_LINE /\ Current(d)
         THEN /\ advanceCursor(d, to, <<>>)
              /\ Set(r, [d EXCEPT !.pc = "read", !.from = d.row.cmd, !.off = to,
                                  !.rowOff = to, !.got = 0])
         ELSE /\ Set(r, IF fullRead(d) /\ d.got < MAX_LINE THEN [d EXCEPT !.pc = "read"]
                        ELSE Ingested(d))
              /\ UNCHANGED <<row, log, past>>
    /\ UNCHANGED <<agent, up, jobs>>

(* The complete lines: claimed, then stored, unless another reader moved the *)
(* cursor meanwhile.  The pass goes on until it has seen the end of the file.   *)
TakeLines(r) ==
    LET d == reader[r]
        s == stream[d.row.cmd]
        to == splitCompleteLines(s, d.off, d.off + d.got)
        events == parseLines(d.row.cmd, s, d.off, to)
        next == [d EXCEPT !.pc = "read", !.from = d.row.cmd, !.off = to, !.rowOff = to,
                          !.seq = @ + Len(events), !.got = 0, !.chunk = @ + 1,
                          !.stored = @ \/ events # <<>>] IN
    /\ d.pc = "claim"
    /\ to # d.off
    /\ IF Current(d)
         THEN /\ advanceCursor(d, to, events)
              /\ Set(r, IF d.size <= to \/ spent(next) THEN Ingested(next) ELSE next)
         ELSE /\ Set(r, Ingested(d))
              /\ UNCHANGED <<row, log, past>>
    /\ UNCHANGED <<agent, up, jobs>>

(* adoptSessionTitle: found in the transcript, the first name to land stays. *)
adoptSessionTitle(r) ==
    LET d == reader[r] IN
    /\ d.pc = "name"
    /\ \/ /\ up /\ latestSessionId /\ row.auto
          /\ row' = [row EXCEPT !.seq = @ + 1, !.auto = FALSE]
          /\ log' = inserted(<<[cmd |-> d.row.cmd, at |-> 0, type |-> "title"]>>, row.seq)
       \/ UNCHANGED <<row, log>>
    /\ Set(r, Ingested(d))
    /\ UNCHANGED <<agent, up, jobs, past>>

(* sessionState: what the session, as d saw it, and the log, as it now is, say. *)
sessionState(d) ==
    CASE d.session # "running" /\ Interactive /\ hasEndedTurn -> "in-review"
      [] d.session = "lost" /\ latestSessionId -> "in-review"
      [] d.session = "running" -> IF Interactive /\ hasHandedBack THEN "in-review" ELSE "running"
      [] OTHER -> IF d.session = "succeeded" THEN "in-review" ELSE "failed"

(* The update counts for a task still running.  What is answered mixes the row *)
(* this reader began with and the seq as it now is.                            *)
Conclude(r) ==
    LET d == reader[r]
        verdict == sessionState(d) IN
    /\ d.pc = "conclude"
    /\ row' = [row EXCEPT !.state = IF @ = "running" THEN verdict ELSE @]
    /\ Set(r, Answered(r, IF row.state = "running"
                            THEN [d.row EXCEPT !.state = verdict, !.seq = row.seq, !.auto = row.auto]
                            ELSE row))
    /\ UNCHANGED <<agent, up, log, jobs, past>>

-----------------------------------------------------------------------------
(* The replies. *)

NoReply == [pc |-> "idle", row |-> NoRow, cmd |-> 0]
NoLive == [pc |-> "idle", cmd |-> 1, seen |-> ""]
spoken == Cardinality({s \in DOMAIN log : log[s].type = "user"})
launchedSessions == {c \in Commands : status[c] # "none"}
listening == Interactive /\ up /\ status[row.cmd] = "running"

(* No session listens: a job resumes the conversation in a new one. *)
followUpTask ==
    /\ "resume" \in Clicks
    /\ row.state = "in-review" /\ ~listening /\ latestSessionId
    /\ reply.pc = "idle" /\ launchedSessions # Commands
    /\ reply' = [pc |-> "wake", row |-> row, cmd |-> 0]
    /\ UNCHANGED <<agent, up, row, log, reader, live, past>>

(* The finished turn is drained before the cursor moves to the next file. *)
ReplyWake ==
    /\ reply.pc = "wake"
    /\ up' = TRUE
    /\ reply' = [pc |-> "drain", row |-> NoRow, cmd |-> 0]
    /\ Set(Drain, Reading(reply.row, "none"))
    /\ UNCHANGED <<agent, row, log, live, past>>

ReplyLaunch ==
    LET c == Cardinality(launchedSessions) + 1 IN
    /\ reply.pc = "drain" /\ reader[Drain].pc = "idle"
    /\ IF up
         THEN /\ status' = [status EXCEPT ![c] = "running"]
              /\ busy' = IF Interactive THEN busy ELSE busy \cup {c}
              /\ reply' = [reply EXCEPT !.pc = "started", !.cmd = c]
         ELSE reply' = NoReply /\ UNCHANGED <<status, busy>>
    /\ UNCHANGED <<stream, stdin, up, row, log, reader, live, past>>

(* What the human said enters the log before it enters the session. *)
ReplySays ==
    /\ reply.pc = "started"
    /\ appendPlatformEvent(reply.cmd, "user")
    /\ reply' = [reply EXCEPT !.pc = "record"]
    /\ UNCHANGED <<agent, up, reader, live, past>>

Hear(c) ==
    /\ busy' = IF status[c] = "running" THEN busy \cup {c} ELSE busy
    /\ stdin' = IF c \in busy THEN stdin \cup {c} ELSE stdin
    /\ UNCHANGED <<stream, status>>

ReplyRecord ==
    LET c == reply.cmd IN
    /\ reply.pc = "record"
    /\ IF ~Interactive THEN UNCHANGED agent ELSE IF up THEN Hear(c) ELSE UNCHANGED agent
    /\ row' = IF row.state = "in-review" /\ (up \/ ~Interactive)
                THEN [row EXCEPT !.state = "running", !.cmd = c] ELSE row
    /\ reply' = NoReply
    /\ UNCHANGED <<up, log, reader, live, past>>

(* The session listens: the reply goes straight into its stdin.  The write and *)
(* the row's update, an await apart, are one step here (TaskPool has both).     *)
followUpLive ==
    /\ \/ "live" \in Clicks /\ row.state = "in-review"
       \/ "interject" \in Clicks /\ row.state = "running"
    /\ listening /\ live.pc = "idle" /\ spoken < MaxTurns
    /\ live' = [pc |-> "say", cmd |-> row.cmd, seen |-> row.state]
    /\ UNCHANGED <<agent, up, row, log, reader, reply, past>>

LiveSays ==
    /\ live.pc = "say"
    /\ appendPlatformEvent(live.cmd, "user")
    /\ live' = [live EXCEPT !.pc = "write"]
    /\ UNCHANGED <<agent, up, reader, reply, past>>

LiveWrites ==
    /\ live.pc = "write"
    /\ IF up THEN Hear(live.cmd) ELSE UNCHANGED agent
    /\ row' = [row EXCEPT !.state = IF up /\ live.seen = "in-review" THEN "running" ELSE @]
    /\ live' = NoLive
    /\ UNCHANGED <<up, log, reader, reply, past>>

-----------------------------------------------------------------------------
(* The harness, its process and its machine. *)

(* What a process that went down, for whatever reason, left behind. *)
Gone(cs, how) ==
    /\ status' = [c \in Commands |-> IF c \in cs THEN how ELSE status[c]]
    /\ busy' = busy \ cs /\ stdin' = stdin \ cs
    /\ UNCHANGED stream

(* The first line of a session names it; `ended` is the end of a turn. *)
Write(c, u) ==
    LET told == LineEnds(stream[c], 0, Len(stream[c])) # {} IN
    /\ status[c] = "running" /\ c \in busy /\ Len(stream[c]) < MaxUnits
    /\ IF u = "part" THEN Pieces ELSE IF told THEN u \in Kinds \ {"started"} ELSE u = "started"
    /\ stream' = [stream EXCEPT ![c] = Append(@, u)]
    /\ busy' = IF u = "ended" /\ c \notin stdin THEN busy \ {c} ELSE busy
    /\ stdin' = IF u = "ended" THEN stdin \ {c} ELSE stdin
    /\ UNCHANGED <<status, up, row, log, reader, jobs, past>>

(* Background work a turn left behind comes to its end, and wakes the harness. *)
leftBehind(c) ==
    LET said == {i \in 1..Len(stream[c]) : stream[c][i] \in {"busy", "quiet"}} IN
    said # {} /\ stream[c][Max(said)] = "busy"

WakesUp(c) ==
    /\ Interactive /\ status[c] = "running" /\ c \notin busy
    /\ leftBehind(c)
    /\ busy' = busy \cup {c}
    /\ UNCHANGED <<stream, status, stdin, up, row, log, reader, jobs, past>>

(* A one-shot harness exits at the end of its turn, an interactive one when  *)
(* its six hours are over.                                                     *)
Exits(c) ==
    /\ status[c] = "running" /\ c \notin busy
    /\ stream[c] # <<>>
    /\ Gone({c}, IF Interactive THEN "failed" ELSE "succeeded")
    /\ UNCHANGED <<up, row, log, reader, jobs, past>>

Dies(c) ==
    /\ "die" \in Faults
    /\ status[c] = "running"
    /\ Gone({c}, "failed")
    /\ UNCHANGED <<up, row, log, reader, jobs, past>>

running == {c \in Commands : status[c] = "running"}

(* The machine is parked in review, or falls on its own. *)
MachineStops ==
    /\ up
    /\ "fall" \in Faults \/ (ReviewStop /\ row.state = "in-review")
    /\ up' = FALSE
    /\ Gone(running, "lost")
    /\ UNCHANGED <<row, log, reader, jobs, past>>

(* Lite restarts: whatever it was in the middle of is gone. *)
Restart ==
    /\ "restart" \in Faults
    /\ reader' = [r \in Readers |-> Away]
    /\ reply' = NoReply /\ live' = NoLive
    /\ UNCHANGED <<agent, up, row, log, past>>

-----------------------------------------------------------------------------
(* The first run has recorded its session, and given it its turn. *)
Init ==
    /\ stream = [c \in Commands |-> <<>>]
    /\ status = [c \in Commands |-> IF c = 1 THEN "running" ELSE "none"]
    /\ busy = {1} /\ stdin = {} /\ up = TRUE
    /\ row = [state |-> "running", cmd |-> 1, ecmd |-> 0, off |-> 0, seq |-> 1, auto |-> TRUE]
    /\ log = <<[cmd |-> 1, at |-> 0, type |-> "user"]>>
    /\ reader = [r \in Readers |-> Away]
    /\ reply = NoReply /\ live = NoLive
    /\ past = [c \in Commands |-> 0]

Read(r) ==
    \/ getTask(r) \/ MachineDown(r) \/ AskSession(r) \/ readCommandOutput(r)
    \/ TakeNothing(r) \/ TakeLines(r) \/ adoptSessionTitle(r) \/ Conclude(r)

Reply ==
    \/ followUpTask \/ ReplyWake \/ ReplyLaunch \/ ReplySays \/ ReplyRecord
    \/ followUpLive \/ LiveSays \/ LiveWrites

World ==
    \/ \E c \in Commands : \/ \E u \in Units : Write(c, u)
                           \/ WakesUp(c) \/ Exits(c) \/ Dies(c)
    \/ MachineStops \/ Restart

Next == (\E r \in Readers : Read(r)) \/ Reply \/ World

Spec == Init /\ [][Next]_vars

(* The cockpit keeps polling, and the server keeps running what it began. *)
FairSpec == Spec /\ \A r \in Readers : WF_vars(Read(r))

-----------------------------------------------------------------------------
(* The promise of the head comment of task-events.ts, whatever the readers do *)
(* to each other: dense, append-only, each line taken in once and in order.   *)
Log == INSTANCE SessionLog WITH taken <- past, log <- [s \in 1..row.seq |-> log[s]]
LogSpec == Log!Spec

(* hasHandedBack, and Cloud #385: a task goes to review on the word of its own *)
(* session only when the agent is done with its turn, everything it was told  *)
(* and all it left in the background included.                                *)
AtRest(c) == c \notin busy /\ c \notin stdin /\ (status[c] = "running" => ~leftBehind(c))
NotReviewedAtWork ==
    [][\A r \in Readers :
          row.state = "running" /\ row'.state = "in-review" /\ reader[r].pc = "conclude"
          /\ reader'[r].pc # "conclude" /\ reader[r].row.cmd = row.cmd => AtRest(row.cmd)]_vars

(* The stream is pulled, never pushed: with someone watching, the complete    *)
(* lines of the current session come to be in the log, however the readers    *)
(* cross, unless the machine goes down first.                                 *)
Behind ==
    LET s == stream[row.cmd] IN
    up /\ past[row.cmd] < splitCompleteLines(s, 0, Len(s))
StreamDrains == Behind ~> ~Behind
=============================================================================
