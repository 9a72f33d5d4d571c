----------------------------- MODULE TaskFiles ------------------------------
(***************************************************************************)
(* The files of a task (services/task-attachments.ts): stored once per     *)
(* content, and written into the worker trip by trip before a turn tells   *)
(* the agent where they are.                                               *)
(*                                                                         *)
(* A row is named by its content, which is what it is deduplicated on.     *)
(***************************************************************************)
EXTENDS Naturals, Sequences, FiniteSets

CONSTANTS
    Sizes,        \* what may be attached and its size, one trip a unit; 0 does not decode
    Replies,      \* replies in flight at once
    MaxFileUnits, \* MAX_FILE_BYTES
    MaxTurnUnits, \* MAX_TURN_BYTES
    MaxTurnFiles  \* MAX_FILES_PER_TURN

VARIABLES
    opening, \* files the task was delegated with
    started, \* its session has begun
    rows,    \* rows of `task_attachments`, in order
    job,     \* the turns being written into the worker: the run's, and replies
    disk,    \* in the worker, the payload and the file of each row
    whole,   \* history: each file was its own turn's, and whole, when its path was told
    mixed    \* history: contents written by two turns at once, or twice by one

vars == <<opening, started, rows, job, disk, whole, mixed>>

Contents == DOMAIN Sizes
Turns == UNION {[1..n -> Contents] : n \in 0..(MaxTurnFiles + 1)}
Jobs == {"run"} \cup Replies
None == <<0>> \* no file
Pieces(c) == [i \in 1..Sizes[c] |-> i]
Idle == [pc |-> "idle", turn |-> {}, todo |-> <<>>, trip |-> 0, paths |-> {}]
Elements(s) == {s[i] : i \in DOMAIN s}

FilesTypes ==
    /\ opening \subseteq Contents /\ started \in BOOLEAN
    /\ \A i, k \in DOMAIN rows : i # k => rows[i].content # rows[k].content
    /\ \A j \in Jobs : job[j].pc \in {"idle", "trip", "decode"} /\ job[j].paths \subseteq Contents
    /\ whole \in BOOLEAN /\ mixed \subseteq Contents

-----------------------------------------------------------------------------
(* Storing. *)

decodeAttachment(c) == Sizes[c] > 0 /\ Sizes[c] <= MaxFileUnits

(* What a turn keeps: what decodes, until one is over what is left. *)
Kept(turn) ==
    LET of[i \in 1..(MaxTurnFiles + 1), budget \in 0..MaxTurnUnits] ==
          IF i > Len(turn) \/ i > MaxTurnFiles THEN <<>>
          ELSE IF ~decodeAttachment(turn[i]) THEN of[i + 1, budget]
          ELSE IF Sizes[turn[i]] > budget THEN <<>>
          ELSE <<turn[i]>> \o of[i + 1, budget - Sizes[turn[i]]]
    IN  of[1, MaxTurnUnits]

stored == {rows[i].content : i \in DOMAIN rows}
isNew(kept, i) == kept[i] \notin stored /\ \A k \in 1..(i - 1) : kept[k] # kept[i]
storeFiles(turn, command, origin) ==
    LET kept == Kept(turn)
        new == SelectSeq([i \in DOMAIN kept |-> [at |-> i, content |-> kept[i]]],
                         LAMBDA f : isNew(kept, f.at))
    IN  rows' = rows \o [i \in DOMAIN new |->
                           [content |-> new[i].content, command |-> command, origin |-> origin]]

openingFileIds ==
    LET own == SelectSeq(rows, LAMBDA r : r.origin = "user" /\ r.command = "")
    IN  [i \in DOMAIN own |-> own[i].content]

-----------------------------------------------------------------------------
(* Writing into the worker. *)

Begins(j, turn, files) ==
    job' = [job EXCEPT ![j] = [pc |-> IF files = <<>> THEN "idle" ELSE "trip",
                               turn |-> Elements(turn), todo |-> files, trip |-> 1, paths |-> {}]]

createTask(turn) ==
    /\ rows = <<>> /\ opening = {} /\ ~started /\ job["run"] = Idle
    /\ storeFiles(turn, "", "user")
    /\ opening' = Elements(Kept(turn))
    /\ Begins("run", Kept(turn), Kept(turn))
    /\ UNCHANGED <<started, disk, whole, mixed>>

(* A queued run a restart cut short. *)
resumeInterruptedRuns ==
    /\ opening # {} /\ ~started /\ job["run"] = Idle
    /\ Begins("run", openingFileIds, openingFileIds)
    /\ UNCHANGED <<opening, started, rows, disk, whole, mixed>>

(* `live`: to the session as it runs, else as the first turn of the next. *)
followUpTask(j, turn, live) ==
    /\ started /\ job[j] = Idle
    /\ storeFiles(turn, IF live THEN "session" ELSE "", "user")
    /\ Begins(j, Kept(turn), Kept(turn))
    /\ UNCHANGED <<opening, started, disk, whole, mixed>>

captureFiles(c) ==
    /\ started /\ storeFiles(<<c>>, "session", "agent")
    /\ UNCHANGED <<opening, started, job, disk, whole, mixed>>

file(j) == Head(job[j].todo)
(* Also written by another turn in flight, or by this one already. *)
shared(j, c) == c \in job[j].paths \/ \E k \in Jobs \ {j} : c \in job[k].turn

(* The turn goes on with the next file, or is told where its files are. *)
Tells(paths, turn) ==
    \A c \in paths : c \in turn /\ disk'[c].file = Pieces(c)
GoesOn(j, paths) ==
    IF Len(job[j].todo) = 1
      THEN /\ job' = [job EXCEPT ![j] = Idle]
           /\ whole' = (whole /\ (Tells(paths, job[j].turn) \/ paths \cap mixed' # {}))
           /\ started' = (started \/ j = "run")
      ELSE /\ job' = [job EXCEPT ![j].pc = "trip", ![j].trip = 1, ![j].todo = Tail(@),
                                 ![j].paths = paths]
           /\ UNCHANGED <<whole, started>>

appends(payload, trip) == Append(IF payload = None THEN <<>> ELSE payload, trip)  \* mutant: always >>
written(payload, trip) ==
    IF trip = 1 THEN <<1>> ELSE Append(IF payload = None THEN <<>> ELSE payload, trip)

(* A trip that fails may have written or not: the file costs its own path. *)
materialize(j) ==
    LET c == file(j) wrote == [disk EXCEPT ![c].payload = written(@, job[j].trip)] IN
    /\ job[j].pc = "trip"
    /\ mixed' = IF shared(j, c) THEN mixed \cup {c} ELSE mixed
    /\ \/ /\ disk' = wrote
          /\ job' = [job EXCEPT ![j].pc = IF job[j].trip = Sizes[c] THEN "decode" ELSE "trip",
                                ![j].trip = @ + 1]
          /\ UNCHANGED <<whole, started>>
       \/ disk' \in {wrote, disk} /\ GoesOn(j, job[j].paths)
    /\ UNCHANGED <<opening, rows>>

Decoded(j) ==
    LET c == file(j) payload == disk[c].payload IN
    /\ job[j].pc = "decode"
    /\ mixed' = IF shared(j, c) THEN mixed \cup {c} ELSE mixed
    /\ \/ /\ payload # None
          /\ disk' = [disk EXCEPT ![c] = [payload |-> None, file |-> payload]]
          /\ GoesOn(j, job[j].paths \cup {c})
       \/ /\ disk' \in {disk, [disk EXCEPT ![c].file = <<>>]}  \* it failed, or was cut
          /\ GoesOn(j, job[j].paths)
    /\ UNCHANGED <<opening, rows>>

(* What was on its way into the worker lands or not; only the run is resumed. *)
Restart ==
    /\ \E j \in Jobs : job[j].pc # "idle"
    /\ \E landed \in SUBSET {j \in Jobs : job[j].pc = "trip"} :
          disk' = [c \in Contents |->
             LET by == {j \in landed : file(j) = c} IN
             IF by = {} THEN disk[c]
             ELSE [disk[c] EXCEPT !.payload = written(@, job[CHOOSE j \in by : TRUE].trip)]]
    /\ job' = [j \in Jobs |-> Idle]
    /\ UNCHANGED <<opening, started, rows, whole, mixed>>

-----------------------------------------------------------------------------
Init ==
    /\ opening = {} /\ started = FALSE /\ rows = <<>> /\ job = [j \in Jobs |-> Idle]
    /\ disk = [c \in Contents |-> [payload |-> None, file |-> None]]
    /\ whole = TRUE /\ mixed = {}

Events ==
    \/ \E turn \in Turns : createTask(turn)
    \/ \E j \in Replies, turn \in Turns, live \in BOOLEAN : followUpTask(j, turn, live)
    \/ \E c \in Contents : captureFiles(c)
    \/ Restart

Steps == resumeInterruptedRuns \/ \E j \in Jobs : materialize(j) \/ Decoded(j)

-----------------------------------------------------------------------------
(* When a turn tells the agent where its files are, each is of that turn   *)
(* and whole: though an earlier turn, or the run before a restart, died    *)
(* halfway through writing the same content to the same place, and though  *)
(* the run resumed takes its files from the rows.  But for a content two   *)
(* turns carried at once, or one carried twice.                            *)
HandedFilesAreWhole == whole
=============================================================================
