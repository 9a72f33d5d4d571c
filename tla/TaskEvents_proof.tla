--------------------------- MODULE TaskEvents_proof ---------------------------
(***************************************************************************)
(* TaskEvents for any number of readers and sessions, and any bounds: its  *)
(* types, and its implementation of SessionLog.  What makes the readers    *)
(* harmless to each other is that a reader whose claim succeeds began at    *)
(* the end of what was taken in of its session, and that nothing was taken *)
(* in of a later one (AtCursor).                                            *)
(***************************************************************************)
EXTENDS TaskEvents, FiniteSetTheorems, SequenceTheorems, TLAPS

-----------------------------------------------------------------------------
(* Finite sets of offsets, and the splitting of a stream into lines. *)

(* The members of S up to i: how many there are is the rank of i. *)
UpTo(S, i) == {h \in S : h <= i}

(* A finite set of naturals has a member of each rank, from the first to the *)
(* last.                                                                     *)
LEMMA KthExists ==
    ASSUME NEW S, S \subseteq Nat, IsFiniteSet(S)
    PROVE  /\ Cardinality(S) \in Nat
           /\ \A k \in 1..Cardinality(S) : \E i \in S : Cardinality(UpTo(S, i)) = k
<1> DEFINE n == Cardinality(S)
           f == [i \in S |-> Cardinality(UpTo(S, i))]
<1>1. n \in Nat BY FS_CardinalityType
<1>2. ASSUME NEW i \in S
      PROVE  /\ IsFiniteSet(UpTo(S, i)) /\ Cardinality(UpTo(S, i)) \in 1..n
  <2>1. UpTo(S, i) \in SUBSET S /\ UpTo(S, i) # {}
    <3>1. i <= i BY S \subseteq Nat
    <3> QED BY <3>1 DEF UpTo
  <2>2. IsFiniteSet(UpTo(S, i)) /\ Cardinality(UpTo(S, i)) <= n BY <2>1, FS_Subset
  <2>3. Cardinality(UpTo(S, i)) \in Nat BY <2>2, FS_CardinalityType
  <2>4. Cardinality(UpTo(S, i)) # 0 BY <2>1, <2>2, FS_EmptySet
  <2> QED BY <1>1, <2>2, <2>3, <2>4
<1>3. ASSUME NEW i \in S, NEW j \in S, i < j
      PROVE  Cardinality(UpTo(S, i)) # Cardinality(UpTo(S, j))
  <2>0. i \in Nat /\ j \in Nat OBVIOUS
  <2>1. UpTo(S, i) \in SUBSET UpTo(S, j)
    <3> SUFFICES ASSUME NEW h \in UpTo(S, i) PROVE h \in UpTo(S, j) OBVIOUS
    <3>1. h \in S /\ h <= i /\ h \in Nat BY DEF UpTo
    <3> QED BY <1>3, <2>0, <3>1 DEF UpTo
  <2>2. j \in UpTo(S, j) /\ j \notin UpTo(S, i) BY <1>3, <2>0 DEF UpTo
  <2>3. IsFiniteSet(UpTo(S, j)) BY <1>2
  <2> QED BY <2>1, <2>2, <2>3, FS_Subset
<1>4. IsInjective(f)
  <2> SUFFICES ASSUME NEW i \in S, NEW j \in S, f[i] = f[j] PROVE i = j BY DEF IsInjective
  <2>1. i \in Nat /\ j \in Nat OBVIOUS
  <2>2. Cardinality(UpTo(S, i)) = Cardinality(UpTo(S, j)) OBVIOUS
  <2>3. ~(i < j) /\ ~(j < i) BY <1>3, <2>2
  <2> QED BY <2>1, <2>3
<1>5. f \in Injection(S, 1..n)
  <2>1. f \in [S -> 1..n] BY <1>2
  <2> QED BY <1>4, <2>1 DEF Injection
<1>6. IsFiniteSet(1..n) /\ Cardinality(1..n) = n BY <1>1, FS_Interval
<1>7. f \in Surjection(S, 1..n) BY <1>5, <1>6, FS_Injection
<1> QED BY <1>1, <1>7 DEF Surjection

(* A finite set of naturals that is not empty has a greatest member, and Max *)
(* finds it.                                                                 *)
LEMMA MaxExists ==
    ASSUME NEW S, S \subseteq Nat, IsFiniteSet(S), S # {}
    PROVE  Max(S) \in S /\ \A y \in S : Max(S) >= y
<1>1. Cardinality(S) \in Nat /\ Cardinality(S) # 0 BY FS_EmptySet, KthExists
<1>0. \A k \in 1..Cardinality(S) : \E i \in S : Cardinality(UpTo(S, i)) = k BY KthExists
<1>9. Cardinality(S) \in 1..Cardinality(S) BY <1>1
<1>2. PICK i \in S : Cardinality(UpTo(S, i)) = Cardinality(S)
  <2> HIDE DEF UpTo
  <2> QED BY <1>0, <1>9
<1>3. UpTo(S, i) \in SUBSET S BY DEF UpTo
<1>4. UpTo(S, i) = S BY <1>2, <1>3, FS_Subset
<1>5. \A y \in S : i >= y
  <2> SUFFICES ASSUME NEW y \in S PROVE i >= y OBVIOUS
  <2>1. y <= i BY <1>4 DEF UpTo
  <2> QED BY <2>1
<1> QED BY <1>5 DEF Max

(* Min of two integers. *)
LEMMA Lesser ==
    ASSUME NEW a \in Int, NEW b \in Int
    PROVE  Min({a, b}) \in {a, b} /\ Min({a, b}) <= a /\ Min({a, b}) <= b
<1>1. \E x \in {a, b} : \A y \in {a, b} : x =< y OBVIOUS
<1> QED BY <1>1 DEF Min

(* The line ends of a stream between two offsets are finitely many. *)
LEMMA Ends ==
    ASSUME NEW s, NEW from \in Nat, NEW to \in Nat
    PROVE  /\ LineEnds(s, from, to) \subseteq (from + 1)..to
           /\ IsFiniteSet(LineEnds(s, from, to))
<1>1. LineEnds(s, from, to) \in SUBSET ((from + 1)..to) BY DEF LineEnds
<1>2. IsFiniteSet((from + 1)..to) BY FS_Interval
<1> QED BY <1>1, <1>2, FS_Subset

(* The split of a range of bytes lies in the range, and at its start only *)
(* when no line ends in it.                                               *)
LEMMA Split ==
    ASSUME NEW s, NEW from \in Nat, NEW to \in Nat, from <= to
    PROVE  /\ splitCompleteLines(s, from, to) \in from..to
           /\ splitCompleteLines(s, from, to) = from <=> LineEnds(s, from, to) = {}
<1> DEFINE E == LineEnds(s, from, to)
           m == splitCompleteLines(s, from, to)
<1>1. E \subseteq (from + 1)..to /\ IsFiniteSet(E) BY Ends
<1>2. /\ IsFiniteSet({from} \cup E) /\ {from} \cup E \subseteq Nat /\ {from} \cup E # {}
      /\ {from} \cup E \subseteq from..to
  BY <1>1, FS_AddElement
<1>3. m \in {from} \cup E /\ \A y \in {from} \cup E : m >= y
  <2>1. m = Max({from} \cup E) BY DEF splitCompleteLines
  <2> QED BY <1>2, <2>1, MaxExists
<1>4. m \in from..to BY <1>2, <1>3
<1>5. E # {} => m # from
  <2> SUFFICES ASSUME NEW e \in E PROVE m # from OBVIOUS
  <2>1. e \in (from + 1)..to /\ m >= e BY <1>1, <1>3
  <2> QED BY <1>4, <2>1
<1> QED BY <1>3, <1>4, <1>5

(* A row of the log. *)
Row == [cmd : Commands, at : 0..MaxUnits, type : EventTypes]

(* The events of a range of a stream are rows of the log; a range that ends *)
(* no line has none.                                                        *)
LEMMA Parsed ==
    ASSUME NEW c \in Commands, NEW s \in Seq(Units), NEW from \in Nat, NEW to \in Nat,
           to <= Len(s), to <= MaxUnits
    PROVE  /\ parseLines(c, s, from, to) \in Seq(Row)
           /\ LineEnds(s, from, to) = {} => parseLines(c, s, from, to) = <<>>
<1> DEFINE kept == {i \in LineEnds(s, from, to) : s[i] # "draft" \/ Headless(s, from, i)}
           nth(k) == CHOOSE i \in kept : Cardinality({h \in kept : h <= i}) = k
           n == Cardinality(kept)
           event(k) == [cmd |-> c, at |-> nth(k), type |-> IF Headless(s, from, nth(k)) THEN "raw" ELSE s[nth(k)]]
<1>1. LineEnds(s, from, to) \subseteq (from + 1)..to /\ IsFiniteSet(LineEnds(s, from, to)) BY Ends
<1>2. kept \in SUBSET LineEnds(s, from, to) /\ kept \subseteq Nat BY <1>1
<1>3. IsFiniteSet(kept) BY <1>1, <1>2, FS_Subset
<1>4. n \in Nat BY <1>3, FS_CardinalityType
<1>5. ASSUME NEW k \in 1..n PROVE nth(k) \in kept
  <2>1. \E i \in kept : Cardinality(UpTo(kept, i)) = k BY <1>2, <1>3, KthExists
  <2>2. \E i \in kept : Cardinality({h \in kept : h <= i}) = k BY <2>1 DEF UpTo
  <2> QED BY <2>2
<1>6. ASSUME NEW i \in kept PROVE /\ i \in 0..MaxUnits
                                  /\ (IF Headless(s, from, i) THEN "raw" ELSE s[i]) \in EventTypes
  <2>1. i \in (from + 1)..to /\ s[i] # "part" BY <1>1, <1>2 DEF LineEnds
  <2>2. i \in 1..Len(s) /\ s[i] \in Units BY <2>1
  <2>3. s[i] # "draft" \/ Headless(s, from, i) OBVIOUS
  <2>4. i \in 0..MaxUnits
    <3>1. MaxUnits \in Nat BY CeilingsAssumption
    <3>2. i \in Nat /\ i <= to BY <2>1
    <3> QED BY <3>1, <3>2
  <2>5. (IF Headless(s, from, i) THEN "raw" ELSE s[i]) \in EventTypes
    BY <2>1, <2>2, <2>3 DEF Units, LineKinds, EventTypes
  <2> QED BY <2>4, <2>5
<1>7. parseLines(c, s, from, to) = [k \in 1..n |-> event(k)] BY DEF parseLines
<1>8. ASSUME NEW k \in 1..n PROVE event(k) \in Row
  <2>1. nth(k) \in kept BY <1>5
  <2> HIDE DEF nth, kept
  <2> QED BY <1>6, <2>1 DEF Row
<1> HIDE DEF event
<1>9. [k \in 1..n |-> event(k)] \in Seq(Row)
  <2> HIDE DEF n
  <2> QED BY <1>4, <1>8
<1>10. LineEnds(s, from, to) = {} => parseLines(c, s, from, to) = <<>>
  <2> SUFFICES ASSUME LineEnds(s, from, to) = {} PROVE parseLines(c, s, from, to) = <<>> OBVIOUS
  <2>1. kept = {} OBVIOUS
  <2>2. n = 0 BY <2>1, FS_EmptySet
  <2>3. Len([k \in 1..n |-> event(k)]) = 0
    <3> HIDE DEF n
    <3> QED BY <1>4, <2>2
  <2>4. [k \in 1..n |-> event(k)] = <<>>
    <3> HIDE DEF n
    <3> QED BY <1>9, <2>3, EmptySeq
  <2> QED BY <1>7, <2>4
<1> QED BY <1>7, <1>9, <1>10

-----------------------------------------------------------------------------
(* The inductive invariant. *)

(* Where a reader may be; the types of TypeOK follow, by name. *)
Pcs == {"idle", "ask", "read", "claim", "name", "conclude"}
(* A read of the task. *)
ReaderType == [pc : Pcs, row : RowType, from : {0} \cup Commands, rowOff : 0..MaxUnits,
               off : 0..MaxUnits, seq : Nat, got : 0..MaxUnits,
               size : 0..MaxUnits, chunk : 0..(MAX_CHUNKS - 1), stored : BOOLEAN,
               session : Statuses]
(* The job of a reply. *)
ReplyType == [pc : {"idle", "wake", "drain", "started", "record"}, row : RowType,
              cmd : {0} \cup Commands]
(* A reply to a live session. *)
LiveType == [pc : {"idle", "say", "write"}, cmd : Commands, seen : {"", "running", "in-review"}]

(* The log has a row at each seq up to the row's, and no other. *)
Dense == DOMAIN log = 1..row.seq
(* No session writes more than the bound. *)
Lengths == \A c \in Commands : Len(stream[c]) <= MaxUnits
(* Sessions are launched in order; the task is on one of them, and its cursor *)
(* on that one or on an earlier one.                                          *)
Sessions ==
    /\ launchedSessions = 1..Cardinality(launchedSessions)
    /\ row.cmd \in launchedSessions
    /\ row.ecmd <= row.cmd
(* A reply's job launches a session while one is left, on a row no newer than *)
(* the task's; what it launched is no older than the task's session.          *)
Resumes(p, top) ==
    /\ p.row.cmd <= top /\ p.row.ecmd <= p.row.cmd
    /\ p.pc \in {"wake", "drain"} => launchedSessions # Commands
    /\ p.pc \in {"started", "record"} => p.cmd \in launchedSessions /\ top <= p.cmd
(* A reader works on a row no newer than the task's, and its offset is the *)
(* one its row held of that session; what it has in hand was written.      *)
Sees(d, top, s) ==
    /\ d.row.cmd <= top /\ d.row.ecmd <= d.row.cmd /\ d.from <= d.row.cmd
    /\ d.off = IF d.from \in {0, d.row.cmd} THEN d.rowOff ELSE 0
    /\ d.pc = "claim" => d.off + d.got <= Len(s[d.row.cmd])
(* Every reader does. *)
AllSee == \A r \in Readers : Sees(reader[r], row.cmd, stream)
(* The row's cursor is how far its session was taken in; no line past what *)
(* was written was taken in, and none of a later session.                  *)
Cursor ==
    /\ IF row.ecmd = 0 THEN row.off = 0 ELSE past[row.ecmd] = row.off
    /\ \A c \in Commands : past[c] <= Len(stream[c]) /\ (c > row.ecmd => past[c] = 0)
(* The inductive invariant. *)
Inv == TypeOK /\ Dense /\ Lengths /\ Sessions /\ Resumes(reply, row.cmd) /\ AllSee /\ Cursor

(* What the bounds allow. *)
LEMMA Bounds ==
    /\ MAX_READ \in Nat /\ MAX_READ >= 1 /\ MAX_LINE \in Nat /\ MAX_LINE >= 1
    /\ MAX_CHUNKS \in Nat /\ MAX_CHUNKS >= 1 /\ MaxCommands \in Nat /\ MaxCommands >= 1
    /\ MaxUnits \in Nat /\ MaxUnits >= 1
    /\ 1 \in Commands /\ Commands \subseteq Nat /\ IsFiniteSet(Commands)
    /\ NoRow \in RowType
<1>1. MAX_READ \in Nat \ {0} /\ MAX_LINE \in Nat \ {0} /\ MAX_CHUNKS \in Nat \ {0}
      /\ MaxCommands \in Nat \ {0} /\ MaxUnits \in Nat \ {0}
  BY CeilingsAssumption
<1>2. 1 \in Commands /\ Commands \subseteq Nat /\ IsFiniteSet(Commands)
  BY <1>1, FS_Interval DEF Commands
<1>3. NoRow \in RowType BY <1>1, <1>2 DEF NoRow, RowType
<1> QED BY <1>1, <1>2, <1>3

(* The types, each by its name. *)
LEMMA Types == Inv =>
    /\ stream \in [Commands -> Seq(Units)] /\ status \in [Commands -> Statuses]
    /\ busy \subseteq Commands /\ stdin \subseteq Commands /\ up \in BOOLEAN
    /\ row \in RowType /\ reader \in [Readers -> ReaderType]
    /\ reply \in ReplyType /\ live \in LiveType /\ past \in [Commands -> 0..MaxUnits]
    /\ \A s \in DOMAIN log : log[s] \in Row
BY DEF Inv, TypeOK, ReaderType, ReplyType, LiveType, Row, Pcs

(* And back, one step later. *)
LEMMA TypesMake ==
    ASSUME stream' \in [Commands -> Seq(Units)], status' \in [Commands -> Statuses],
           busy' \subseteq Commands, stdin' \subseteq Commands, up' \in BOOLEAN,
           row' \in RowType, reader' \in [Readers -> ReaderType],
           reply' \in ReplyType, live' \in LiveType, past' \in [Commands -> 0..MaxUnits],
           DOMAIN log' = 1..row'.seq, \A s \in DOMAIN log' : log'[s] \in Row
    PROVE  TypeOK'
BY DEF TypeOK, ReaderType, ReplyType, LiveType, Row, Pcs

-----------------------------------------------------------------------------
(* The readers. *)

(* A read that begins on a row no newer than the task's sees what it should. *)
LEMMA ReadingKnown ==
    ASSUME NEW q \in RowType, NEW session \in Statuses, NEW top, NEW s,
           q.cmd <= top, q.ecmd <= q.cmd, NEW pc \in Pcs \ {"claim"}
    PROVE  /\ Reading(q, session) \in ReaderType /\ At(pc, q, session) \in ReaderType
           /\ Sees(Reading(q, session), top, s) /\ Sees(At(pc, q, session), top, s)
<1>1. /\ q.ecmd \in {0} \cup Commands /\ q.off \in 0..MaxUnits /\ q.seq \in Nat /\ q.cmd \in Commands
      /\ 0 \in 0..MaxUnits /\ 0 \in 0..(MAX_CHUNKS - 1)
  BY Bounds DEF RowType
<1>2. (IF q.ecmd \in {0, q.cmd} THEN q.off ELSE 0) \in 0..MaxUnits BY <1>1
<1>3. Reading(q, session) \in ReaderType BY <1>1, <1>2 DEF Reading, ReaderType, Pcs
<1>4. At(pc, q, session) \in ReaderType BY <1>3 DEF At, ReaderType
<1>5. Sees(Reading(q, session), top, s) BY <1>1 DEF Sees, Reading
<1>6. Sees(At(pc, q, session), top, s) BY <1>1 DEF Sees, Reading, At
<1> QED BY <1>3, <1>4, <1>5, <1>6

(* So does a reader that is away. *)
LEMMA AwayKnown ==
    ASSUME NEW top \in Commands, NEW s
    PROVE  Away \in ReaderType /\ Sees(Away, top, s)
<1>1. NoRow \in RowType /\ NoRow.cmd = 1 /\ NoRow.ecmd = 0 /\ 1 <= top /\ 0 <= 1
  BY Bounds DEF NoRow, Commands
<1>2. "none" \in Statuses /\ "idle" \in Pcs \ {"claim"} BY DEF Statuses, Pcs
<1> QED BY <1>1, <1>2, ReadingKnown DEF Away

(* And the route's second ingestion. *)
LEMMA AnsweredKnown ==
    ASSUME NEW q \in RowType, NEW top \in Commands, NEW s, q.cmd <= top, q.ecmd <= q.cmd, NEW r
    PROVE  Answered(r, q) \in ReaderType /\ Sees(Answered(r, q), top, s)
<1>1. "none" \in Statuses /\ "idle" \in Pcs \ {"claim"} BY DEF Statuses, Pcs
<1> QED BY <1>1, ReadingKnown, AwayKnown DEF Answered

(* And what follows an ingestion. *)
LEMMA IngestedKnown ==
    ASSUME NEW d \in ReaderType, NEW top \in Commands, NEW s, d.row.cmd <= top, d.row.ecmd <= d.row.cmd
    PROVE  Ingested(d) \in ReaderType /\ Sees(Ingested(d), top, s)
<1>1. d.row \in RowType /\ d.session \in Statuses BY DEF ReaderType
<1>2. "name" \in Pcs \ {"claim"} /\ "conclude" \in Pcs \ {"claim"} BY DEF Pcs
<1>3. /\ At("name", d.row, d.session) \in ReaderType /\ Sees(At("name", d.row, d.session), top, s)
      /\ At("conclude", d.row, d.session) \in ReaderType /\ Sees(At("conclude", d.row, d.session), top, s)
  BY <1>1, <1>2, ReadingKnown
<1>4. Ingested(d) \in {At("name", d.row, d.session), At("conclude", d.row, d.session), Away}
  BY DEF Ingested
<1> QED BY <1>3, <1>4, AwayKnown

(* A step of one reader, which leaves the cursor where it is. *)
LEMMA LogMoves ==
    ASSUME Inv, NEW r \in Readers, NEW d \in ReaderType, Set(r, d), Sees(d, row.cmd, stream),
           UNCHANGED <<agent, jobs, past>>, up' \in BOOLEAN,
           row' \in RowType, row'.cmd = row.cmd, row'.ecmd = row.ecmd, row'.off = row.off,
           DOMAIN log' = 1..row'.seq, \A s \in DOMAIN log' : log'[s] \in Row
    PROVE  Inv'
<1>2. UNCHANGED <<stream, status, busy, stdin, past, reply, live>> BY DEF agent, jobs
<1>3. reader' = [reader EXCEPT ![r] = d] /\ reader' \in [Readers -> ReaderType] BY Types DEF Set
<1>4. TypeOK' /\ Dense' BY <1>2, <1>3, Types, TypesMake DEF Dense
<1>5. AllSee'
  <2> SUFFICES ASSUME NEW x \in Readers PROVE Sees(reader'[x], row.cmd, stream)
    BY <1>2 DEF AllSee
  <2>1. reader'[x] = IF x = r THEN d ELSE reader[x] BY <1>3, Types
  <2> QED BY <2>1 DEF Inv, AllSee
<1>6. Lengths' BY <1>2 DEF Inv, Lengths
<1>7. Sessions' /\ Resumes(reply, row.cmd)'
  <2>1. UNCHANGED launchedSessions BY <1>2 DEF launchedSessions
  <2> QED BY <1>2, <2>1 DEF Inv, Sessions, Resumes
<1>8. Cursor' BY <1>2 DEF Inv, Cursor
<1> QED BY <1>4, <1>5, <1>6, <1>7, <1>8 DEF Inv

(* A step of one reader that adds nothing to the log. *)
LEMMA ReaderMoves ==
    ASSUME Inv, NEW r \in Readers, NEW d \in ReaderType, Set(r, d), Sees(d, row.cmd, stream),
           UNCHANGED <<agent, log, jobs, past>>, up' \in BOOLEAN,
           row' = row \/ \E v \in {"running", "in-review", "failed"} : row' = [row EXCEPT !.state = v]
    PROVE  Inv'
<1>1. /\ row' \in RowType /\ row'.cmd = row.cmd /\ row'.ecmd = row.ecmd /\ row'.off = row.off
      /\ row'.seq = row.seq
  BY Types DEF RowType
<1>2. DOMAIN log' = 1..row'.seq /\ \A s \in DOMAIN log' : log'[s] \in Row
  BY <1>1, Types DEF Inv, Dense
<1> QED BY <1>1, <1>2, LogMoves

(* What the invariant says of one reader, taken apart. *)
LEMMA Seen ==
    ASSUME Inv, NEW r \in Readers
    PROVE  /\ reader[r] \in ReaderType /\ Sees(reader[r], row.cmd, stream)
           /\ reader[r].row \in RowType /\ reader[r].session \in Statuses
           /\ reader[r].row.cmd <= row.cmd /\ reader[r].row.ecmd <= reader[r].row.cmd
           /\ row \in RowType /\ row.cmd \in Commands /\ row.ecmd <= row.cmd /\ row.cmd <= row.cmd
           /\ reader[r].row.cmd \in Commands
<1>1. reader[r] \in ReaderType /\ row \in RowType BY Types
<1>2. Sees(reader[r], row.cmd, stream) BY DEF Inv, AllSee
<1>3. row.cmd \in Commands /\ row.cmd \in Nat BY <1>1, Bounds DEF RowType
<1> QED BY <1>1, <1>2, <1>3 DEF ReaderType, RowType, Sees, Inv, Sessions

(* getTask keeps the invariant. *)
LEMMA AsksForTask ==
    ASSUME Inv, NEW r \in Readers, getTask(r)
    PROVE  Inv'
<1>1. At("ask", row, "none") \in ReaderType /\ Sees(At("ask", row, "none"), row.cmd, stream)
  BY Seen, ReadingKnown DEF Statuses, Pcs
<1>2. Answered(r, row) \in ReaderType /\ Sees(Answered(r, row), row.cmd, stream)
  BY Seen, AnsweredKnown
<1>3. PICK d : d \in ReaderType /\ Sees(d, row.cmd, stream) /\ Set(r, d)
  BY <1>1, <1>2 DEF getTask
<1> QED BY <1>3, ReaderMoves, Types DEF getTask

(* MachineDown keeps it. *)
LEMMA FindsMachineDown ==
    ASSUME Inv, NEW r \in Readers, MachineDown(r)
    PROVE  Inv'
<1> DEFINE seen == reader[r].row
           verdict == IF (Interactive /\ hasEndedTurn) \/ latestSessionId THEN "in-review" ELSE "failed"
<1>1. verdict \in {"running", "in-review", "failed"} OBVIOUS
<1>2. /\ [seen EXCEPT !.state = verdict] \in RowType
      /\ [seen EXCEPT !.state = verdict].cmd = seen.cmd
      /\ [seen EXCEPT !.state = verdict].ecmd = seen.ecmd
  BY <1>1, Seen DEF RowType
<1>3. PICK q : q \in RowType /\ q.cmd <= row.cmd /\ q.ecmd <= q.cmd /\ Set(r, Answered(r, q))
  <2>1. Set(r, Answered(r, IF row.state = "running" THEN [seen EXCEPT !.state = verdict] ELSE row))
    BY DEF MachineDown
  <2> HIDE DEF verdict
  <2> QED BY <1>2, <2>1, Seen
<1>4. Answered(r, q) \in ReaderType /\ Sees(Answered(r, q), row.cmd, stream)
  BY <1>3, Seen, AnsweredKnown
<1>5. row' = row \/ \E v \in {"running", "in-review", "failed"} : row' = [row EXCEPT !.state = v]
  <2>1. row' = [row EXCEPT !.state = IF @ = "running" THEN verdict ELSE @] BY DEF MachineDown
  <2>2. row.state \in {"running", "in-review", "failed"} BY Seen DEF RowType
  <2> HIDE DEF verdict
  <2> QED BY <1>1, <2>1, <2>2
<1> QED BY <1>3, <1>4, <1>5, ReaderMoves, Types DEF MachineDown

(* AskSession keeps it. *)
LEMMA AsksForSession ==
    ASSUME Inv, NEW r \in Readers, AskSession(r)
    PROVE  Inv'
<1> DEFINE q == reader[r].row
           session == status[q.cmd]
<1>1. session \in Statuses BY Seen, Types
<1>2. /\ Reading(q, session) \in ReaderType /\ Sees(Reading(q, session), row.cmd, stream)
      /\ At("conclude", q, session) \in ReaderType /\ Sees(At("conclude", q, session), row.cmd, stream)
  BY <1>1, Seen, ReadingKnown DEF Pcs
<1>3. PICK d : d \in ReaderType /\ Sees(d, row.cmd, stream) /\ Set(r, d)
  BY <1>2 DEF AskSession
<1> QED BY <1>3, ReaderMoves, Types DEF AskSession

(* Bytes read up to the end of a file stay within it. *)
LEMMA Room ==
    ASSUME NEW off \in Nat, NEW got \in Nat, NEW more \in Nat, NEW len \in Nat, NEW bound \in Nat,
           more <= len - (off + got), len <= bound
    PROVE  off + (got + more) <= len /\ got + more <= bound
OBVIOUS

(* readCommandOutput keeps it. *)
LEMMA ReadsOutput ==
    ASSUME Inv, NEW r \in Readers, readCommandOutput(r)
    PROVE  Inv'
<1> DEFINE d == reader[r]
           s == stream[d.row.cmd]
           more == Min({MAX_READ, Len(s) - (d.off + d.got)})
           read == [d EXCEPT !.pc = "claim", !.got = @ + more, !.size = Len(s)]
<1>1. /\ d.off \in 0..MaxUnits /\ d.got \in 0..MaxUnits /\ Len(s) \in 0..MaxUnits /\ d \in ReaderType
      /\ s \in Seq(Units)
  <2>1. d \in ReaderType /\ d.row.cmd \in Commands /\ stream \in [Commands -> Seq(Units)] BY Seen, Types
  <2>2. s \in Seq(Units) /\ Len(s) \in Nat /\ Len(s) <= MaxUnits BY <2>1 DEF Inv, Lengths
  <2> QED BY <2>1, <2>2, Bounds DEF ReaderType
<1>2. more \in Int /\ more <= Len(s) - (d.off + d.got)
  <2>1. MAX_READ \in Int /\ Len(s) - (d.off + d.got) \in Int
    <3>1. d.off \in Int /\ d.got \in Int /\ Len(s) \in Int /\ MAX_READ \in Int BY <1>1, Bounds
    <3> HIDE DEF s, d
    <3> QED BY <3>1
  <2> QED BY <2>1, Lesser
<1>3. ASSUME more > 0 PROVE read \in ReaderType /\ Sees(read, row.cmd, stream)
  <2> HIDE DEF more
  <2>1. d.got + more \in 0..MaxUnits /\ d.off + (d.got + more) <= Len(s) 
    <3>1. more \in Nat /\ d.off \in Nat /\ d.got \in Nat /\ Len(s) \in Nat BY <1>1, <1>2, <1>3
    <3>2. Len(s) <= MaxUnits /\ MaxUnits \in Nat BY <1>1, Bounds
    <3> HIDE DEF s, d
    <3> QED BY <1>2, <3>1, <3>2, Room
  <2>2. read \in ReaderType BY <1>1, <2>1 DEF ReaderType, Pcs
  <2> QED BY <1>1, <2>1, <2>2, Seen DEF Sees, ReaderType
<1>4. Ingested(d) \in ReaderType /\ Sees(Ingested(d), row.cmd, stream) BY Seen, IngestedKnown
<1>5. Set(r, IF up /\ more > 0 THEN read ELSE Ingested(d)) BY DEF readCommandOutput
<1>6. PICK e : e \in ReaderType /\ Sees(e, row.cmd, stream) /\ Set(r, e)
  <2> HIDE DEF more, read
  <2> QED BY <1>3, <1>4, <1>5
<1> QED BY <1>6, ReaderMoves, Types DEF readCommandOutput

(* Conclude keeps it. *)
LEMMA Concludes ==
    ASSUME Inv, NEW r \in Readers, Conclude(r)
    PROVE  Inv'
<1> DEFINE d == reader[r]
           verdict == sessionState(d)
           said == [d.row EXCEPT !.state = verdict, !.seq = row.seq, !.auto = row.auto]
<1>1. verdict \in {"running", "in-review", "failed"} BY DEF sessionState
<1>2. said \in RowType /\ said.cmd = d.row.cmd /\ said.ecmd = d.row.ecmd
  <2> HIDE DEF verdict
  <2> QED BY <1>1, Seen DEF RowType
<1>3. PICK q : q \in RowType /\ q.cmd <= row.cmd /\ q.ecmd <= q.cmd /\ Set(r, Answered(r, q))
  <2>1. Set(r, Answered(r, IF row.state = "running" THEN said ELSE row)) BY DEF Conclude
  <2> HIDE DEF said
  <2> QED BY <1>2, <2>1, Seen
<1>4. Answered(r, q) \in ReaderType /\ Sees(Answered(r, q), row.cmd, stream)
  BY <1>3, Seen, AnsweredKnown
<1>5. row' = row \/ \E v \in {"running", "in-review", "failed"} : row' = [row EXCEPT !.state = v]
  <2>1. row' = [row EXCEPT !.state = IF @ = "running" THEN verdict ELSE @] BY DEF Conclude
  <2>2. row.state \in {"running", "in-review", "failed"} BY Seen DEF RowType
  <2> HIDE DEF verdict
  <2> QED BY <1>1, <2>1, <2>2
<1> QED BY <1>3, <1>4, <1>5, ReaderMoves, Types DEF Conclude

(* Rows inserted at the end of the log come after those it had, and change *)
(* none.                                                                   *)
LEMMA Inserted ==
    ASSUME Inv, NEW e \in Seq(Row)
    PROVE  /\ DOMAIN inserted(e, row.seq) = 1..(row.seq + Len(e))
           /\ \A s \in 1..(row.seq + Len(e)) :
                 inserted(e, row.seq)[s] = IF s <= row.seq THEN log[s] ELSE e[s - row.seq]
           /\ \A s \in 1..(row.seq + Len(e)) : inserted(e, row.seq)[s] \in Row
<1> DEFINE n == row.seq
           F == inserted(e, n)
<1>1. Len(e) \in Nat /\ n \in Nat /\ DOMAIN log = 1..n /\ \A s \in 1..n : log[s] \in Row
  <2>1. row \in RowType /\ Len(e) \in Nat BY Types
  <2>2. n \in Nat BY <2>1 DEF RowType
  <2>3. DOMAIN log = 1..n BY DEF Inv, Dense
  <2> QED BY <2>1, <2>2, <2>3, Types
<1>2. F = [x \in (1..n) \cup ((n + 1)..(n + Len(e))) |-> IF x \in 1..n THEN log[x] ELSE e[x - n]]
  BY <1>1 DEF inserted
<1> HIDE DEF F, n
<1>3. (1..n) \cup ((n + 1)..(n + Len(e))) = 1..(n + Len(e)) BY <1>1
<1>4. \A s \in 1..(n + Len(e)) : F[s] = IF s <= n THEN log[s] ELSE e[s - n]
  <2> SUFFICES ASSUME NEW s \in 1..(n + Len(e)) PROVE F[s] = IF s <= n THEN log[s] ELSE e[s - n] OBVIOUS
  <2>1. CASE s <= n
    <3>1. s \in 1..n BY <1>1, <2>1
    <3> QED BY <1>2, <1>3, <2>1, <3>1
  <2>2. CASE ~(s <= n)
    <3>1. s \in (n + 1)..(n + Len(e)) /\ s \notin 1..n BY <1>1, <2>2
    <3> QED BY <1>2, <1>3, <2>2, <3>1
  <2> QED BY <2>1, <2>2
<1>5. DOMAIN F = 1..(n + Len(e)) BY <1>2, <1>3
<1>6. \A s \in 1..(n + Len(e)) : F[s] \in Row
  <2> SUFFICES ASSUME NEW s \in 1..(n + Len(e)) PROVE F[s] \in Row OBVIOUS
  <2>1. CASE s <= n
    <3>1. s \in 1..n BY <1>1, <2>1
    <3> QED BY <1>1, <1>4, <2>1, <3>1
  <2>2. CASE ~(s <= n)
    <3>1. s - n \in 1..Len(e) BY <1>1, <2>2
    <3> QED BY <1>4, <2>2, <3>1
  <2> QED BY <2>1, <2>2
<1> QED BY <1>4, <1>5, <1>6 DEF F, n

-----------------------------------------------------------------------------
(* The log, seen as the sequence SessionLog keeps. *)

(* The log as a sequence. *)
rows == [s \in 1..row.seq |-> log[s]]

(* An insertion at the row's seq is a concatenation. *)
LEMMA Grows ==
    ASSUME Inv, NEW e \in Seq(Row), log' = inserted(e, row.seq), row'.seq = row.seq + Len(e)
    PROVE  /\ rows \in Seq(Row) /\ rows' = rows \o e
           /\ DOMAIN log' = 1..row'.seq /\ \A s \in DOMAIN log' : log'[s] \in Row
<1> DEFINE n == row.seq
<1>1. row \in RowType /\ Len(e) \in Nat /\ \A s \in DOMAIN log : log[s] \in Row BY Types
<1>2. n \in Nat /\ DOMAIN log = 1..n BY <1>1 DEF RowType, Inv, Dense
<1>3. rows \in Seq(Row) /\ Len(rows) = n /\ \A s \in 1..n : rows[s] = log[s]
  <2>1. rows = [s \in 1..n |-> log[s]] BY DEF rows
  <2> HIDE DEF n
  <2> QED BY <1>1, <1>2, <2>1
<1>4. DOMAIN log' = 1..(n + Len(e)) BY Inserted
<1>5. \A s \in 1..(n + Len(e)) : log'[s] = IF s <= n THEN log[s] ELSE e[s - n] BY Inserted
<1>6. \A s \in 1..(n + Len(e)) : log'[s] \in Row BY Inserted
<1>7. rows' = [s \in 1..(n + Len(e)) |-> log'[s]] BY DEF rows
<1>8. rows' \in Seq(Row) /\ Len(rows') = n + Len(e) /\ \A s \in 1..(n + Len(e)) : rows'[s] = log'[s]
  <2> HIDE DEF n
  <2> QED BY <1>1, <1>2, <1>6, <1>7
<1>9. /\ rows \o e \in Seq(Row) /\ Len(rows \o e) = n + Len(e)
      /\ \A s \in 1..(n + Len(e)) : (rows \o e)[s] = IF s <= n THEN rows[s] ELSE e[s - n]
  <2> HIDE DEF n
  <2> QED BY <1>3, ConcatProperties
<1>10. rows' = rows \o e
  <2>1. \A s \in 1..(n + Len(e)) : rows'[s] = (rows \o e)[s]
    <3> SUFFICES ASSUME NEW s \in 1..(n + Len(e)) PROVE rows'[s] = (rows \o e)[s] OBVIOUS
    <3>1. s <= n => s \in 1..n BY <1>1, <1>2
    <3> HIDE DEF n
    <3> QED BY <1>3, <1>5, <1>8, <1>9, <3>1
  <2> HIDE DEF n
  <2> QED BY <1>8, <1>9, <2>1, SeqEqual
<1> QED BY <1>3, <1>4, <1>6, <1>10

(* What the platform writes is a row. *)
LEMMA Placed ==
    ASSUME Inv, NEW c \in Commands, NEW type \in {"user", "title"}
    PROVE  LET event == [cmd |-> c, at |-> 0, type |-> type] IN
           event \in Row /\ <<event>> \in Seq(Row) /\ Len(<<event>>) = 1
<1>1. 0 \in 0..MaxUnits /\ type \in EventTypes BY Bounds DEF EventTypes
<1> QED BY <1>1 DEF Row

(* adoptSessionTitle keeps the invariant. *)
LEMMA Adopts ==
    ASSUME Inv, NEW r \in Readers, adoptSessionTitle(r)
    PROVE  Inv'
<1> DEFINE d == reader[r]
           event == [cmd |-> d.row.cmd, at |-> 0, type |-> "title"]
<1>1. Ingested(d) \in ReaderType /\ Sees(Ingested(d), row.cmd, stream) BY Seen, IngestedKnown
<1>2. Set(r, Ingested(d)) /\ UNCHANGED <<agent, up, jobs, past>> BY DEF adoptSessionTitle
<1>3. CASE UNCHANGED <<row, log>> BY <1>1, <1>2, <1>3, ReaderMoves, Types
<1>4. CASE ~UNCHANGED <<row, log>>
  <2>1. log' = inserted(<<event>>, row.seq) /\ row' = [row EXCEPT !.seq = @ + 1, !.auto = FALSE]
    BY <1>4 DEF adoptSessionTitle
  <2>2. event \in Row /\ <<event>> \in Seq(Row) /\ Len(<<event>>) = 1 BY Seen, Placed
  <2>3. /\ row' \in RowType /\ row'.cmd = row.cmd /\ row'.ecmd = row.ecmd /\ row'.off = row.off
        /\ row'.seq = row.seq + 1
    <3>1. row \in RowType /\ row.seq \in Nat /\ row.seq + 1 \in Nat BY Types DEF RowType
    <3> QED BY <2>1, <3>1 DEF RowType
  <2>4. DOMAIN log' = 1..row'.seq /\ \A s \in DOMAIN log' : log'[s] \in Row
    <3> HIDE DEF event
    <3> QED BY <2>1, <2>2, <2>3, Grows
  <2>5. up' \in BOOLEAN BY <1>2, Types
  <2> HIDE DEF d, event
  <2> QED BY <1>1, <1>2, <2>3, <2>4, <2>5, LogMoves
<1> QED BY <1>3, <1>4

-----------------------------------------------------------------------------
(* A claim. *)

(* The heart of the matter: a reader whose cursor is still the row's began *)
(* where its session was taken in to, and nothing was taken in of a later  *)
(* session.                                                                *)
LEMMA AtCursor ==
    ASSUME Inv, NEW r \in Readers, Current(reader[r])
    PROVE  /\ reader[r].off = past[reader[r].row.cmd]
           /\ \A c \in Commands : c > reader[r].row.cmd => past[c] = 0
           /\ row.seq = reader[r].seq
<1> DEFINE d == reader[r]
           c == d.row.cmd
<1>1. /\ c \in Commands /\ row.ecmd \in {0} \cup Commands /\ Commands \subseteq Nat /\ row.ecmd <= c
      /\ row.ecmd = d.from /\ row.off = d.rowOff /\ row.seq = d.seq
  BY Seen, Bounds DEF RowType, Current, Sees
<1>2. d.off = IF d.from \in {0, c} THEN d.rowOff ELSE 0 BY Seen DEF Sees
<1>3. /\ IF row.ecmd = 0 THEN row.off = 0 ELSE past[row.ecmd] = row.off
      /\ \A x \in Commands : x > row.ecmd => past[x] = 0
  BY DEF Inv, Cursor
<1> HIDE DEF d, c
<1>0. c \in Nat /\ row.ecmd \in Nat /\ row.ecmd <= c
  <2>1. c \in Nat BY <1>1
  <2>2. row.ecmd = 0 \/ row.ecmd \in Commands BY <1>1
  <2>3. \A x \in Commands : x \in Nat BY Bounds
  <2>4. row.ecmd \in Nat BY <2>2, <2>3
  <2> QED BY <1>1, <2>1, <2>4
<1>4. \A x \in Commands : x > c => x > row.ecmd
  <2> SUFFICES ASSUME NEW x \in Commands, x > c PROVE x > row.ecmd OBVIOUS
  <2>1. x \in Nat BY <1>1
  <2> QED BY <1>0, <2>1
<1>5. CASE row.ecmd = 0
  <2>1. c > row.ecmd BY <1>1, <1>5, c >= 1 DEF Commands
  <2> QED BY <1>1, <1>2, <1>3, <1>4, <1>5, <2>1 DEF d, c
<1>6. CASE row.ecmd = c /\ row.ecmd # 0 BY <1>1, <1>2, <1>3, <1>4, <1>6 DEF d, c
<1>7. CASE row.ecmd # c /\ row.ecmd # 0
  <2>1. c > row.ecmd BY <1>0, <1>7
  <2> QED BY <1>1, <1>2, <1>3, <1>4, <1>7, <2>1 DEF d, c
<1> QED BY <1>5, <1>6, <1>7

(* A claim keeps the invariant, and appends the events it claims. *)
LEMMA Claims ==
    ASSUME Inv, NEW r \in Readers, reader[r].pc = "claim", Current(reader[r]),
           NEW to \in Nat, reader[r].off < to, to <= reader[r].off + reader[r].got,
           NEW events \in Seq(Row),
           advanceCursor(reader[r], to, events), UNCHANGED <<agent, up, jobs>>,
           NEW e \in ReaderType, Set(r, e), Sees(e, row.cmd, stream)
    PROVE  /\ Inv'
           /\ rows \in Seq(Row) /\ rows' = rows \o events
<1> DEFINE d == reader[r]
           c == d.row.cmd
<1>1. /\ d \in ReaderType /\ c \in Commands /\ row \in RowType /\ Commands \subseteq Nat
      /\ c <= row.cmd /\ row.cmd \in Commands
  BY Seen, Bounds
<1>2. row.seq = d.seq /\ d.off = past[c] /\ \A x \in Commands : x > c => past[x] = 0
  BY AtCursor
<1>3. /\ row' = [row EXCEPT !.ecmd = c, !.off = to, !.seq = row.seq + Len(events)]
      /\ log' = inserted(events, row.seq) /\ past' = [past EXCEPT ![c] = to]
  BY <1>2 DEF advanceCursor
<1>4. UNCHANGED <<stream, status, busy, stdin, up, reply, live>> BY DEF agent, jobs
<1>5. to \in 0..MaxUnits /\ to <= Len(stream[c])
  <2>1. d.off \in Nat /\ d.got \in Nat BY <1>1, Bounds DEF ReaderType
  <2>2. d.off + d.got <= Len(stream[c]) BY Seen DEF Sees
  <2>3. Len(stream[c]) \in Nat /\ Len(stream[c]) <= MaxUnits
    <3>1. stream \in [Commands -> Seq(Units)] BY Types
    <3>2. Len(stream[c]) \in Nat BY <1>1, <3>1
    <3> QED BY <1>1, <3>2 DEF Inv, Lengths
  <2> HIDE DEF d, c
  <2>4. to <= d.off + d.got BY DEF d
  <2> QED BY <2>1, <2>2, <2>3, <2>4, Bounds
<1>6. /\ row' \in RowType /\ row'.cmd = row.cmd /\ row'.ecmd = c /\ row'.off = to
      /\ row'.seq = row.seq + Len(events)
  <2>1. row.seq + Len(events) \in Nat
    <3>1. row.seq \in Nat /\ Len(events) \in Nat BY <1>1 DEF RowType
    <3> QED BY <3>1
  <2> HIDE DEF d, c
  <2> QED BY <1>1, <1>3, <1>5, <2>1 DEF RowType
<1>7. /\ DOMAIN log' = 1..row'.seq /\ \A s \in DOMAIN log' : log'[s] \in Row
      /\ rows \in Seq(Row) /\ rows' = rows \o events
  BY <1>3, <1>6, Grows
<1>8. /\ past \in [Commands -> 0..MaxUnits] /\ past' \in [Commands -> 0..MaxUnits]
      /\ \A x \in Commands : past'[x] = IF x = c THEN to ELSE past[x]
  <2>1. past \in [Commands -> 0..MaxUnits] BY Types
  <2> HIDE DEF d, c
  <2> QED BY <1>1, <1>3, <1>5, <2>1
<1>9. reader' = [reader EXCEPT ![r] = e] /\ reader' \in [Readers -> ReaderType] BY Types DEF Set
<1>10. TypeOK' /\ Dense'
  <2> HIDE DEF d, c
  <2> QED BY <1>4, <1>6, <1>7, <1>8, <1>9, Types, TypesMake DEF Dense
<1>11. AllSee'
  <2> SUFFICES ASSUME NEW x \in Readers PROVE Sees(reader'[x], row.cmd, stream)
    BY <1>4, <1>6 DEF AllSee
  <2>1. reader'[x] = IF x = r THEN e ELSE reader[x] BY <1>9, Types
  <2> QED BY <2>1 DEF Inv, AllSee
<1>12. Lengths' BY <1>4 DEF Inv, Lengths
<1>13. Sessions' /\ Resumes(reply, row.cmd)'
  <2>1. UNCHANGED launchedSessions BY <1>4 DEF launchedSessions
  <2> HIDE DEF d, c
  <2> QED BY <1>1, <1>4, <1>6, <2>1 DEF Inv, Sessions, Resumes
<1>14. Cursor'
  <2> HIDE DEF d, c
  <2>1. \A x \in Commands : past[x] <= Len(stream[x]) BY DEF Inv, Cursor
  <2>2. \A x \in Commands : past'[x] <= Len(stream'[x]) BY <1>4, <1>5, <1>8, <2>1
  <2>3. \A x \in Commands : x > row'.ecmd => past'[x] = 0
    <3> SUFFICES ASSUME NEW x \in Commands, x > c PROVE past'[x] = 0 BY <1>6
    <3>1. x # c BY <1>1
    <3> QED BY <1>2, <1>8, <3>1
  <2>4. row'.ecmd # 0 /\ past'[row'.ecmd] = row'.off
    <3>1. c # 0 BY <1>1 DEF Commands
    <3> QED BY <1>1, <1>6, <1>8, <3>1
  <2> QED BY <2>2, <2>3, <2>4 DEF Cursor
<1> QED BY <1>7, <1>10, <1>11, <1>12, <1>13, <1>14 DEF Inv

(* What the reader has in hand parses into rows. *)
LEMMA ParsedHere ==
    ASSUME Inv, NEW r \in Readers, reader[r].pc = "claim", NEW to \in Nat,
           to <= reader[r].off + reader[r].got
    PROVE  LET d == reader[r]
               events == parseLines(d.row.cmd, stream[d.row.cmd], d.off, to) IN
           /\ events \in Seq(Row)
           /\ LineEnds(stream[d.row.cmd], d.off, to) = {} => events = <<>>
<1> DEFINE d == reader[r]
           c == d.row.cmd
           s == stream[c]
<1>1. d \in ReaderType /\ c \in Commands /\ d.off + d.got <= Len(s) BY Seen DEF Sees
<1>2. s \in Seq(Units) /\ Len(s) \in Nat /\ Len(s) <= MaxUnits BY <1>1, Types DEF Inv, Lengths
<1>3. d.off \in Nat /\ d.got \in Nat BY <1>1, Bounds DEF ReaderType
<1>4. to <= Len(s) /\ to <= MaxUnits
  <2>1. to <= d.off + d.got OBVIOUS
  <2> HIDE DEF s, d
  <2> QED BY <1>1, <1>2, <1>3, <2>1, Bounds
<1> HIDE DEF s, c
<1>5. /\ parseLines(c, s, d.off, to) \in Seq(Row)
      /\ LineEnds(s, d.off, to) = {} => parseLines(c, s, d.off, to) = <<>>
  <2>1. MaxUnits \in Nat BY Bounds
  <2> HIDE DEF d
  <2> QED BY <1>1, <1>2, <1>3, <1>4, <2>1, Parsed
<1> QED BY <1>5 DEF s, c

(* A claim, as SessionLog describes it. *)
Taking == \E c \in Commands : \E to \in 1..Len(stream[c]) :
    /\ past[c] < to
    /\ \A x \in Commands : x > c => past[x] = 0
    /\ past' = [past EXCEPT ![c] = to]
    /\ rows' = rows \o parseLines(c, stream[c], past[c], to)
    /\ UNCHANGED stream
(* A step SessionLog does not see. *)
Still == UNCHANGED <<stream, past, rows>>

(* The bytes a reader has in hand, split at their last line end. *)
LEMMA InHand ==
    ASSUME Inv, NEW r \in Readers, reader[r].pc = "claim"
    PROVE  LET d == reader[r]
               s == stream[d.row.cmd]
               to == splitCompleteLines(s, d.off, d.off + d.got) IN
           /\ d.off \in Nat /\ d.got \in Nat /\ d.off + d.got \in 0..MaxUnits
           /\ to \in d.off..(d.off + d.got) /\ to \in 0..MaxUnits
           /\ to = d.off <=> LineEnds(s, d.off, d.off + d.got) = {}
<1> DEFINE d == reader[r]
           s == stream[d.row.cmd]
           to == splitCompleteLines(s, d.off, d.off + d.got)
<1>1. d \in ReaderType /\ d.row.cmd \in Commands /\ d.off + d.got <= Len(s) BY Seen DEF Sees
<1>2. s \in Seq(Units) /\ Len(s) \in Nat /\ Len(s) <= MaxUnits
  <2>1. stream \in [Commands -> Seq(Units)] BY Types
  <2>2. s \in Seq(Units) BY <1>1, <2>1
  <2> QED BY <1>1, <2>2 DEF Inv, Lengths
<1>3. d.off \in Nat /\ d.got \in Nat BY <1>1, Bounds DEF ReaderType
<1> HIDE DEF s, d
<1>4. d.off + d.got \in 0..MaxUnits BY <1>1, <1>2, <1>3, Bounds
<1>5. d.off + d.got \in Nat /\ d.off <= d.off + d.got BY <1>3
<1>6. to \in d.off..(d.off + d.got) /\ (to = d.off <=> LineEnds(s, d.off, d.off + d.got) = {})
  BY <1>3, <1>5, Split
<1> HIDE DEF to
<1>7. to \in 0..MaxUnits BY <1>3, <1>4, <1>6, Bounds
<1> QED BY <1>3, <1>4, <1>6, <1>7 DEF s, d, to

(* TakeNothing keeps the invariant, and is a claim of no event, or nothing. *)
LEMMA SkipsOrWaits ==
    ASSUME Inv, NEW r \in Readers, TakeNothing(r)
    PROVE  Inv' /\ (Taking \/ Still)
<1> DEFINE d == reader[r]
           c == d.row.cmd
           to == d.off + d.got
           e == [d EXCEPT !.pc = "read", !.from = c, !.off = to, !.rowOff = to, !.got = 0]
           f == IF fullRead(d) /\ d.got < MAX_LINE THEN [d EXCEPT !.pc = "read"] ELSE Ingested(d)
<1>1. d.pc = "claim" /\ splitCompleteLines(stream[c], d.off, to) = d.off /\ UNCHANGED <<agent, up, jobs>>
  BY DEF TakeNothing
<1>2. /\ d \in ReaderType /\ Sees(d, row.cmd, stream) /\ d.row \in RowType /\ c \in Commands
      /\ c <= row.cmd /\ d.row.ecmd <= c /\ row.cmd \in Commands
  BY Seen
<1>3. d.off \in Nat /\ d.got \in Nat /\ to \in 0..MaxUnits /\ LineEnds(stream[c], d.off, to) = {}
  BY <1>1, InHand
<1>4. CASE fullRead(d) /\ d.got >= MAX_LINE /\ Current(d)
  <2>1. advanceCursor(d, to, <<>>) /\ Set(r, e) BY <1>4 DEF TakeNothing
  <2>2. to \in Nat /\ d.off < to /\ to <= to
    <3> HIDE DEF d
    <3> QED BY <1>3, <1>4, Bounds
  <2>3. e \in ReaderType
    <3> HIDE DEF d, to
    <3>1. 0 \in 0..MaxUnits BY Bounds
    <3> QED BY <1>2, <1>3, <3>1 DEF ReaderType, Pcs
  <2>4. Sees(e, row.cmd, stream)
    <3> HIDE DEF to
    <3>1. /\ e.row = d.row /\ e.from = c /\ e.off = to /\ e.rowOff = to /\ e.pc = "read"
      BY <1>2 DEF ReaderType
    <3>2. c <= c
      <4>1. c \in Nat BY <1>2, Bounds
      <4> HIDE DEF c
      <4> QED BY <4>1
    <3> QED BY <1>2, <3>1, <3>2 DEF Sees
  <2>5. parseLines(c, stream[c], d.off, to) = <<>> /\ <<>> \in Seq(Row)
    <3>1. parseLines(c, stream[c], d.off, to) = <<>> BY <1>1, <1>3, <2>2, ParsedHere
    <3> QED BY <3>1
  <2>6. Inv' /\ rows \in Seq(Row) /\ rows' = rows \o <<>>
    <3> HIDE DEF e
    <3> QED BY <1>1, <1>4, <2>1, <2>2, <2>3, <2>4, <2>5, Claims
  <2>7. Taking
    <3>1. d.off = past[c] /\ \A x \in Commands : x > c => past[x] = 0 BY <1>4, AtCursor
    <3>2. past' = [past EXCEPT ![c] = to] BY <2>1 DEF advanceCursor
    <3>3. to \in 1..Len(stream[c])
      <4>1. to <= Len(stream[c]) BY <1>1, <1>2 DEF Sees
      <4>2. Len(stream[c]) \in Nat
        <5>1. stream \in [Commands -> Seq(Units)] BY Types
        <5> QED BY <1>2, <5>1
      <4> HIDE DEF d, to
      <4> QED BY <1>3, <2>2, <4>1, <4>2
    <3>4. UNCHANGED stream BY <1>1 DEF agent
    <3>5. rows' = rows \o parseLines(c, stream[c], past[c], to) BY <2>5, <2>6, <3>1
    <3>6. past[c] < to BY <2>2, <3>1
    <3> HIDE DEF c, to
    <3> QED BY <1>2, <3>1, <3>2, <3>3, <3>4, <3>5, <3>6 DEF Taking, c
  <2> QED BY <2>6, <2>7
<1>5. CASE ~(fullRead(d) /\ d.got >= MAX_LINE /\ Current(d))
  <2>1. Set(r, f) /\ UNCHANGED <<row, log, past>> BY <1>5 DEF TakeNothing
  <2>2. Ingested(d) \in ReaderType /\ Sees(Ingested(d), row.cmd, stream) BY <1>2, IngestedKnown
  <2>3. [d EXCEPT !.pc = "read"] \in ReaderType /\ Sees([d EXCEPT !.pc = "read"], row.cmd, stream)
    BY <1>2 DEF Sees, ReaderType, Pcs
  <2>4. f \in ReaderType /\ Sees(f, row.cmd, stream) BY <2>2, <2>3
  <2>5. up' \in BOOLEAN BY <1>1, Types
  <2>6. Inv'
    <3> HIDE DEF f
    <3> QED BY <1>1, <2>1, <2>4, <2>5, ReaderMoves
  <2>7. Still BY <1>1, <2>1 DEF Still, agent, rows
  <2> QED BY <2>6, <2>7
<1> QED BY <1>4, <1>5

(* TakeLines keeps it, and is a claim, or nothing. *)
LEMMA TakesOrLoses ==
    ASSUME Inv, NEW r \in Readers, TakeLines(r)
    PROVE  Inv' /\ (Taking \/ Still)
<1> DEFINE d == reader[r]
           c == d.row.cmd
           to == splitCompleteLines(stream[c], d.off, d.off + d.got)
           events == parseLines(c, stream[c], d.off, to)
           next == [d EXCEPT !.pc = "read", !.from = c, !.off = to, !.rowOff = to,
                             !.seq = @ + Len(events), !.got = 0, !.chunk = @ + 1,
                             !.stored = @ \/ events # <<>>]
           f == IF d.size <= to \/ spent(next) THEN Ingested(next) ELSE next
<1>1. d.pc = "claim" /\ to # d.off /\ UNCHANGED <<agent, up, jobs>> BY DEF TakeLines
<1>2. /\ d \in ReaderType /\ Sees(d, row.cmd, stream) /\ d.row \in RowType /\ c \in Commands
      /\ c <= row.cmd /\ d.row.ecmd <= c /\ row.cmd \in Commands
  BY Seen
<1>3. /\ d.off \in Nat /\ d.got \in Nat /\ d.off + d.got \in 0..MaxUnits
      /\ to \in d.off..(d.off + d.got) /\ to \in 0..MaxUnits
  BY <1>1, InHand
<1>4. CASE Current(d)
  <2>1. advanceCursor(d, to, events) /\ Set(r, f) BY <1>4 DEF TakeLines
  <2>2. to \in Nat /\ d.off < to /\ to <= d.off + d.got
    <3> HIDE DEF d, to
    <3> QED BY <1>1, <1>3
  <2>3. events \in Seq(Row) /\ Len(events) \in Nat
    <3>1. events \in Seq(Row) BY <1>1, <2>2, ParsedHere
    <3> HIDE DEF events
    <3> QED BY <3>1
  <2>4. /\ next.row = d.row /\ next.from = c /\ next.off = to /\ next.rowOff = to /\ next.pc = "read"
        /\ next.chunk = d.chunk + 1 /\ next.session = d.session
    <3> HIDE DEF to, events
    <3> QED BY <1>2 DEF ReaderType
  <2>5. Sees(next, row.cmd, stream)
    <3> HIDE DEF next, to
    <3>1. c <= c
      <4>1. c \in Nat BY <1>2, Bounds
      <4> HIDE DEF c
      <4> QED BY <4>1
    <3> QED BY <1>2, <2>4, <3>1 DEF Sees
  <2>6. ~spent(next) => next \in ReaderType
    <3>1. d.chunk \in 0..(MAX_CHUNKS - 1) /\ d.seq \in Nat BY <1>2 DEF ReaderType
    <3>2. d.chunk + 1 # MAX_CHUNKS => d.chunk + 1 \in 0..(MAX_CHUNKS - 1) BY <3>1, Bounds
    <3>3. ~spent(next) => d.chunk + 1 \in 0..(MAX_CHUNKS - 1) BY <2>4, <3>2 DEF spent
    <3>4. 0 \in 0..MaxUnits /\ d.seq + Len(events) \in Nat
      <4> HIDE DEF events
      <4> QED BY <2>3, <3>1, Bounds
    <3>5. (d.stored \/ events # <<>>) \in BOOLEAN OBVIOUS
    <3> HIDE DEF to, events
    <3> QED BY <1>2, <1>3, <3>3, <3>4, <3>5 DEF ReaderType, Pcs
  <2>7. Ingested(next) \in ReaderType /\ Sees(Ingested(next), row.cmd, stream)
    <3>1. d.session \in Statuses BY <1>2 DEF ReaderType
    <3>2. /\ At("name", d.row, d.session) \in ReaderType /\ Sees(At("name", d.row, d.session), row.cmd, stream)
          /\ At("conclude", d.row, d.session) \in ReaderType
          /\ Sees(At("conclude", d.row, d.session), row.cmd, stream)
      BY <1>2, <3>1, ReadingKnown DEF Pcs
    <3>3. Ingested(next) \in {At("name", d.row, d.session), At("conclude", d.row, d.session), Away}
      <4> HIDE DEF next
      <4> QED BY <2>4 DEF Ingested
    <3> QED BY <1>2, <3>2, <3>3, AwayKnown
  <2>8. f \in ReaderType /\ Sees(f, row.cmd, stream)
    <3> HIDE DEF next
    <3> QED BY <2>5, <2>6, <2>7
  <2>9. Inv' /\ rows \in Seq(Row) /\ rows' = rows \o events
    <3> HIDE DEF f, to, events
    <3> QED BY <1>1, <1>4, <2>1, <2>2, <2>3, <2>8, Claims
  <2>10. Taking
    <3>1. d.off = past[c] /\ \A x \in Commands : x > c => past[x] = 0 BY <1>4, AtCursor
    <3>2. past' = [past EXCEPT ![c] = to] BY <2>1 DEF advanceCursor
    <3>3. to \in 1..Len(stream[c])
      <4>1. d.off + d.got <= Len(stream[c]) BY <1>1, <1>2 DEF Sees
      <4>2. Len(stream[c]) \in Nat
        <5>1. stream \in [Commands -> Seq(Units)] BY Types
        <5> QED BY <1>2, <5>1
      <4> HIDE DEF d, to
      <4> QED BY <1>3, <2>2, <4>1, <4>2
    <3>4. UNCHANGED stream BY <1>1 DEF agent
    <3>5. rows' = rows \o parseLines(c, stream[c], past[c], to) BY <2>9, <3>1
    <3>6. past[c] < to BY <2>2, <3>1
    <3> HIDE DEF c, to
    <3> QED BY <1>2, <3>1, <3>2, <3>3, <3>4, <3>5, <3>6 DEF Taking, c
  <2> QED BY <2>9, <2>10
<1>5. CASE ~Current(d)
  <2>1. Set(r, Ingested(d)) /\ UNCHANGED <<row, log, past>> BY <1>5 DEF TakeLines
  <2>2. Ingested(d) \in ReaderType /\ Sees(Ingested(d), row.cmd, stream) BY <1>2, IngestedKnown
  <2>3. up' \in BOOLEAN BY <1>1, Types
  <2>4. Inv' BY <1>1, <2>1, <2>2, <2>3, ReaderMoves
  <2>5. Still BY <1>1, <2>1 DEF Still, agent, rows
  <2> QED BY <2>4, <2>5
<1> QED BY <1>4, <1>5

(* What the platform adds to the log. *)
Saying == \E c \in Commands, type \in {"user", "title"} :
    rows' = Append(rows, [cmd |-> c, at |-> 0, type |-> type]) /\ UNCHANGED <<stream, past>>
(* What a session adds to its stream. *)
Writing == \E c \in Commands, u \in Units :
    stream' = [stream EXCEPT ![c] = Append(@, u)] /\ UNCHANGED <<past, rows>>

(* Every step of a reader. *)
LEMMA Reads ==
    ASSUME Inv, NEW r \in Readers, Read(r)
    PROVE  Inv' /\ (Taking \/ Saying \/ Still)
<1>1. CASE getTask(r)
  <2>1. Still BY <1>1 DEF getTask, agent, Still, rows
  <2> QED BY <1>1, <2>1, AsksForTask
<1>2. CASE MachineDown(r)
  <2>1. UNCHANGED <<stream, past, log>> /\ row'.seq = row.seq
    <3>1. row \in RowType BY Types
    <3> QED BY <1>2, <3>1 DEF MachineDown, agent, RowType
  <2>2. Still BY <2>1 DEF Still, rows
  <2> QED BY <1>2, <2>2, FindsMachineDown
<1>3. CASE AskSession(r)
  <2>1. Still BY <1>3 DEF AskSession, agent, Still, rows
  <2> QED BY <1>3, <2>1, AsksForSession
<1>4. CASE readCommandOutput(r)
  <2>1. Still BY <1>4 DEF readCommandOutput, agent, Still, rows
  <2> QED BY <1>4, <2>1, ReadsOutput
<1>5. CASE TakeNothing(r) BY <1>5, SkipsOrWaits
<1>6. CASE TakeLines(r) BY <1>6, TakesOrLoses
<1>7. CASE adoptSessionTitle(r)
  <2> DEFINE c == reader[r].row.cmd
             event == [cmd |-> c, at |-> 0, type |-> "title"]
  <2>1. UNCHANGED <<stream, past>> BY <1>7 DEF adoptSessionTitle, agent
  <2>2. CASE UNCHANGED <<row, log>> BY <2>1, <2>2, <1>7, Adopts DEF Still, rows
  <2>3. CASE ~UNCHANGED <<row, log>>
    <3>1. log' = inserted(<<event>>, row.seq) /\ row' = [row EXCEPT !.seq = @ + 1, !.auto = FALSE]
      BY <1>7, <2>3 DEF adoptSessionTitle
    <3>2. c \in Commands BY Seen
    <3>3. event \in Row /\ <<event>> \in Seq(Row) /\ Len(<<event>>) = 1 BY <3>2, Placed
    <3>4. row'.seq = row.seq + 1
      <4>1. row \in RowType BY Types
      <4> QED BY <3>1, <4>1 DEF RowType
    <3> HIDE DEF event
    <3>5. rows \in Seq(Row) /\ rows' = rows \o <<event>> BY <3>1, <3>3, <3>4, Grows
    <3>6. rows' = Append(rows, event) BY <3>3, <3>5, AppendIsConcat
    <3>7. Saying BY <2>1, <3>2, <3>6 DEF Saying, event
    <3> QED BY <1>7, <3>7, Adopts
  <2> QED BY <2>2, <2>3
<1>8. CASE Conclude(r)
  <2>1. UNCHANGED <<stream, past, log>> /\ row'.seq = row.seq
    <3>1. row \in RowType BY Types
    <3> QED BY <1>8, <3>1 DEF Conclude, agent, RowType
  <2>2. Still BY <2>1 DEF Still, rows
  <2> QED BY <1>8, <2>2, Concludes
<1> QED BY <1>1, <1>2, <1>3, <1>4, <1>5, <1>6, <1>7, <1>8 DEF Read

-----------------------------------------------------------------------------
(* The replies, the sessions and their machine. *)

(* A step of someone who does not touch the log, the row or the readers. *)
LEMMA Elsewhere ==
    ASSUME Inv, UNCHANGED <<row, log, past, reader>>,
           stream' \in [Commands -> Seq(Units)],
           \A c \in Commands : Len(stream[c]) <= Len(stream'[c]) /\ Len(stream'[c]) <= MaxUnits,
           status' \in [Commands -> Statuses], launchedSessions' = launchedSessions,
           busy' \subseteq Commands, stdin' \subseteq Commands, up' \in BOOLEAN,
           reply' \in ReplyType, Resumes(reply', row.cmd), live' \in LiveType
    PROVE  Inv'
<1>1. TypeOK' /\ Dense'
  <2>1. DOMAIN log' = 1..row'.seq /\ \A s \in DOMAIN log' : log'[s] \in Row BY Types DEF Inv, Dense
  <2> QED BY <2>1, Types, TypesMake DEF Dense
<1>2. Lengths' BY DEF Lengths
<1>3. Sessions' BY DEF Inv, Sessions
<1>4. Resumes(reply, row.cmd)' BY DEF Resumes
<1>5. \A c \in Commands : Len(stream[c]) \in Nat /\ Len(stream'[c]) \in Nat BY Types
<1>6. AllSee'
  <2> SUFFICES ASSUME NEW r \in Readers PROVE Sees(reader[r], row.cmd, stream') BY DEF AllSee
  <2> DEFINE d == reader[r]
  <2>1. d \in ReaderType /\ d.row.cmd \in Commands /\ Sees(d, row.cmd, stream) BY Seen
  <2>2. d.off \in Nat /\ d.got \in Nat BY <2>1, Bounds DEF ReaderType
  <2> HIDE DEF d
  <2>3. d.pc = "claim" => d.off + d.got <= Len(stream'[d.row.cmd])
    <3> SUFFICES ASSUME d.pc = "claim" PROVE d.off + d.got <= Len(stream'[d.row.cmd]) OBVIOUS
    <3>1. d.off + d.got <= Len(stream[d.row.cmd]) BY <2>1 DEF Sees
    <3>2. Len(stream[d.row.cmd]) <= Len(stream'[d.row.cmd]) BY <2>1
    <3>3. Len(stream[d.row.cmd]) \in Nat /\ Len(stream'[d.row.cmd]) \in Nat BY <1>5, <2>1
    <3> QED BY <2>2, <3>1, <3>2, <3>3
  <2> QED BY <2>1, <2>3 DEF Sees, d
<1>7. Cursor'
  <2>1. \A c \in Commands : past[c] <= Len(stream'[c])
    <3> SUFFICES ASSUME NEW c \in Commands PROVE past[c] <= Len(stream'[c]) OBVIOUS
    <3>1. past[c] <= Len(stream[c]) /\ past[c] \in Nat BY Types, Bounds DEF Inv, Cursor
    <3>2. Len(stream[c]) <= Len(stream'[c]) OBVIOUS
    <3> QED BY <1>5, <3>1, <3>2
  <2> QED BY <2>1 DEF Inv, Cursor
<1> QED BY <1>1, <1>2, <1>3, <1>4, <1>6, <1>7 DEF Inv

(* No reply breaks nothing. *)
LEMMA NoReplyKnown ==
    ASSUME NEW top \in Commands
    PROVE  NoReply \in ReplyType /\ Resumes(NoReply, top) /\ NoLive \in LiveType
<1>1. NoRow \in RowType /\ NoRow.cmd = 1 /\ NoRow.ecmd = 0 /\ 1 <= top /\ 0 <= 1
  BY Bounds DEF NoRow, Commands
<1>2. NoReply \in ReplyType BY <1>1 DEF NoReply, ReplyType
<1>3. Resumes(NoReply, top) BY <1>1 DEF NoReply, Resumes
<1>4. NoLive \in LiveType BY Bounds DEF NoLive, LiveType
<1> QED BY <1>2, <1>3, <1>4

(* The invariant outside the readers, taken apart. *)
LEMMA Known ==
    ASSUME Inv
    PROVE  /\ row.cmd \in Commands /\ row.cmd \in launchedSessions /\ row.cmd \in Nat
           /\ row.ecmd <= row.cmd /\ row.cmd <= row.cmd
           /\ Resumes(reply, row.cmd) /\ reply \in ReplyType /\ live \in LiveType
           /\ stream \in [Commands -> Seq(Units)]
           /\ \A c \in Commands : Len(stream[c]) <= Len(stream[c]) /\ Len(stream[c]) <= MaxUnits
<1>1. row.cmd \in launchedSessions /\ row.ecmd <= row.cmd /\ Resumes(reply, row.cmd)
      /\ \A c \in Commands : Len(stream[c]) <= MaxUnits
  BY DEF Inv, Sessions, Lengths
<1>2. row.cmd \in Commands /\ row.cmd \in Nat BY <1>1, Bounds DEF launchedSessions
<1>3. stream \in [Commands -> Seq(Units)] BY Types
<1>4. \A c \in Commands : Len(stream[c]) \in Nat BY <1>3
<1> QED BY <1>1, <1>2, <1>3, <1>4, Types

(* followUpTask and followUpLive keep the invariant. *)
LEMMA RepliesAsk ==
    ASSUME Inv, followUpTask \/ followUpLive
    PROVE  Inv' /\ Still
<1>1. UNCHANGED <<stream, status, busy, stdin, up, row, log, reader, past>>
  BY DEF followUpTask, followUpLive, agent
<1>2. launchedSessions' = launchedSessions BY <1>1 DEF launchedSessions
<1>3. reply' \in ReplyType /\ Resumes(reply', row.cmd)
  <2>1. CASE followUpLive BY <2>1, Known DEF followUpLive
  <2>2. CASE followUpTask
    <3>1. reply' = [pc |-> "wake", row |-> row, cmd |-> 0] /\ launchedSessions # Commands
      BY <2>2 DEF followUpTask
    <3> QED BY <3>1, Known, Types DEF ReplyType, Resumes
  <2> QED BY <2>1, <2>2
<1>4. live' \in LiveType
  <2>1. CASE followUpTask BY <2>1, Known DEF followUpTask
  <2>2. CASE followUpLive
    <3>1. row.state \in {"in-review", "running"} BY <2>2 DEF followUpLive
    <3>2. live' = [pc |-> "say", cmd |-> row.cmd, seen |-> row.state] BY <2>2 DEF followUpLive
    <3> QED BY <3>1, <3>2, Known DEF LiveType
  <2> QED BY <2>1, <2>2
<1>5. Inv' BY <1>1, <1>2, <1>3, <1>4, Types, Known, Elsewhere
<1>6. Still BY <1>1 DEF Still, rows
<1> QED BY <1>5, <1>6

(* ReplyWake keeps it. *)
LEMMA Wakes ==
    ASSUME Inv, ReplyWake
    PROVE  Inv' /\ Still
<1> DEFINE d == Reading(reply.row, "none")
           p == [pc |-> "drain", row |-> NoRow, cmd |-> 0]
<1>1. /\ UNCHANGED <<stream, status, busy, stdin, row, log, live, past>> /\ up' = TRUE
      /\ reply' = p /\ Set(Drain, d) /\ reply.pc = "wake"
  BY DEF ReplyWake, agent
<1>2. launchedSessions' = launchedSessions /\ launchedSessions # Commands
  BY <1>1, Known DEF launchedSessions, Resumes
<1>3. reply.row \in RowType /\ reply.row.cmd <= row.cmd /\ reply.row.ecmd <= reply.row.cmd
  BY Known DEF ReplyType, Resumes
<1>4. d \in ReaderType /\ Sees(d, row.cmd, stream)
  <2>1. "none" \in Statuses /\ "idle" \in Pcs \ {"claim"} BY DEF Statuses, Pcs
  <2> QED BY <1>3, <2>1, ReadingKnown
<1>5. p \in ReplyType /\ Resumes(p, row.cmd)
  <2>1. NoRow \in RowType /\ NoRow.cmd = 1 /\ NoRow.ecmd = 0 /\ 1 <= row.cmd /\ 0 <= 1
    BY Known, Bounds DEF NoRow, Commands
  <2> QED BY <1>2, <2>1 DEF ReplyType, Resumes
<1> HIDE DEF d, p
<1>6. reader' = [reader EXCEPT ![Drain] = d] /\ Drain \in Readers /\ reader' \in [Readers -> ReaderType]
  BY <1>1, <1>4, Types DEF Set, Readers
<1>7. TypeOK' /\ Dense'
  <2>1. DOMAIN log' = 1..row'.seq /\ \A s \in DOMAIN log' : log'[s] \in Row
    BY <1>1, Types DEF Inv, Dense
  <2> QED BY <1>1, <1>5, <1>6, <2>1, Types, TypesMake DEF Dense
<1>8. AllSee'
  <2> SUFFICES ASSUME NEW x \in Readers PROVE Sees(reader'[x], row.cmd, stream)
    BY <1>1 DEF AllSee
  <2>1. reader'[x] = IF x = Drain THEN d ELSE reader[x] BY <1>6, Types
  <2> QED BY <1>4, <2>1 DEF Inv, AllSee
<1>9. Lengths' /\ Cursor' BY <1>1 DEF Inv, Lengths, Cursor
<1>10. Sessions' BY <1>1, <1>2 DEF Inv, Sessions
<1>11. Resumes(reply, row.cmd)' BY <1>1, <1>2, <1>5 DEF Resumes
<1>12. Still BY <1>1 DEF Still, rows
<1> QED BY <1>7, <1>8, <1>9, <1>10, <1>11, <1>12 DEF Inv

(* A step that leaves the readers and the sessions' files alone. *)
LEMMA RowMoves ==
    ASSUME Inv, UNCHANGED <<stream, status, up, past, reader>>,
           row' \in RowType, row'.ecmd = row.ecmd, row'.off = row.off,
           row'.cmd \in launchedSessions, row.cmd <= row'.cmd,
           DOMAIN log' = 1..row'.seq, \A s \in DOMAIN log' : log'[s] \in Row,
           busy' \subseteq Commands, stdin' \subseteq Commands,
           reply' \in ReplyType, Resumes(reply', row'.cmd), live' \in LiveType
    PROVE  Inv'
<1>1. TypeOK' /\ Dense' BY Types, TypesMake DEF Dense
<1>2. Lengths' /\ Cursor' BY DEF Inv, Lengths, Cursor
<1>3. launchedSessions' = launchedSessions BY DEF launchedSessions
<1>4. row.cmd \in Nat /\ row'.cmd \in Nat /\ row.ecmd \in Nat
  <2>1. row \in RowType BY Types
  <2>2. \A x \in {0} \cup Commands : x \in Nat BY Bounds
  <2> QED BY <2>1, <2>2 DEF RowType
<1>5. Sessions'
  <2>1. row'.ecmd <= row'.cmd BY <1>4, Known
  <2> QED BY <1>3, <2>1 DEF Inv, Sessions
<1>6. Resumes(reply, row.cmd)' BY <1>3 DEF Resumes
<1>7. AllSee'
  <2> SUFFICES ASSUME NEW r \in Readers PROVE Sees(reader[r], row'.cmd, stream) BY DEF AllSee
  <2>1. Sees(reader[r], row.cmd, stream) /\ reader[r].row.cmd \in Nat BY Seen, Bounds
  <2>2. reader[r].row.cmd <= row'.cmd BY <1>4, <2>1 DEF Sees
  <2> QED BY <2>1, <2>2 DEF Sees
<1> QED BY <1>1, <1>2, <1>5, <1>6, <1>7 DEF Inv

(* What a session hears changes neither its file nor its process. *)
LEMMA Heard ==
    ASSUME Inv, NEW c \in Commands, Hear(c) \/ UNCHANGED agent
    PROVE  UNCHANGED <<stream, status>> /\ busy' \subseteq Commands /\ stdin' \subseteq Commands
BY Types DEF Hear, agent

(* ReplyLaunch keeps the invariant: the session it launches is the next one. *)
LEMMA Launches ==
    ASSUME Inv, ReplyLaunch
    PROVE  Inv' /\ Still
<1> DEFINE n == Cardinality(launchedSessions)
           c == n + 1
<1>1. UNCHANGED <<stream, stdin, up, row, log, reader, live, past>> /\ reply.pc = "drain"
  BY DEF ReplyLaunch
<1>2. Still BY <1>1 DEF Still, rows
<1>3. CASE ~up
  <2>1. reply' = NoReply /\ UNCHANGED <<status, busy>> BY <1>3 DEF ReplyLaunch
  <2>2. launchedSessions' = launchedSessions BY <2>1 DEF launchedSessions
  <2> QED BY <1>1, <1>2, <2>1, <2>2, Known, NoReplyKnown, Types, Elsewhere
<1>4. CASE up
  <2>1. /\ status' = [status EXCEPT ![c] = "running"]
        /\ busy' = IF Interactive THEN busy ELSE busy \cup {c}
        /\ reply' = [reply EXCEPT !.pc = "started", !.cmd = c]
    BY <1>4 DEF ReplyLaunch
  <2>2. /\ launchedSessions = 1..n /\ launchedSessions # Commands /\ launchedSessions \in SUBSET Commands
        /\ row.cmd \in launchedSessions
    BY <1>1, Known DEF Inv, Sessions, Resumes, launchedSessions
  <2>3. n \in Nat BY <2>2, Bounds, FS_Subset, FS_CardinalityType
  <2> HIDE DEF n
  <2>4. c \in Commands
    <3>1. MaxCommands \in Nat BY Bounds
    <3>2. n <= MaxCommands
      <4>1. CASE n = 0 BY <3>1, <4>1
      <4>2. CASE n # 0
        <5>1. n \in 1..n BY <2>3, <4>2
        <5> QED BY <2>2, <5>1 DEF Commands
      <4> QED BY <4>1, <4>2
    <3>3. n # MaxCommands BY <2>2 DEF Commands
    <3> QED BY <2>3, <3>1, <3>2, <3>3 DEF Commands
  <2>5. status \in [Commands -> Statuses] BY Types
  <2>6. launchedSessions' = launchedSessions \cup {c}
    <3>1. \A x \in Commands : status'[x] = IF x = c THEN "running" ELSE status[x] BY <2>1, <2>5
    <3> HIDE DEF c
    <3> QED BY <2>4, <3>1 DEF launchedSessions
  <2>7. launchedSessions' = 1..c BY <2>2, <2>3, <2>6
  <2>8. Cardinality(1..c) = c
    <3>1. c \in Nat BY <2>3
    <3> HIDE DEF c
    <3>2. 1 \in Int /\ c \in Int BY <3>1
    <3>3. Cardinality(1..c) = IF 1 > c THEN 0 ELSE c - 1 + 1 BY <3>2, FS_Interval
    <3> QED BY <3>1, <3>3
  <2>9. reply' \in ReplyType /\ reply'.row = reply.row /\ reply'.pc = "started" /\ reply'.cmd = c
    <3> HIDE DEF c
    <3> QED BY <2>1, <2>4, Known DEF ReplyType
  <2>10. row.cmd <= c BY <2>2, <2>3
  <2>11. status' \in [Commands -> Statuses] /\ busy' \subseteq Commands
    <3> HIDE DEF c
    <3> QED BY <2>1, <2>4, <2>5, Types DEF Statuses
  <2> HIDE DEF c
  <2>12. TypeOK' /\ Dense'
    <3>1. DOMAIN log' = 1..row'.seq /\ \A s \in DOMAIN log' : log'[s] \in Row
      BY <1>1, Types DEF Inv, Dense
    <3> QED BY <1>1, <2>9, <2>11, <3>1, Types, TypesMake DEF Dense
  <2>13. Lengths' /\ Cursor' /\ AllSee' BY <1>1 DEF Inv, Lengths, Cursor, AllSee
  <2>14. Sessions' BY <1>1, <2>2, <2>6, <2>7, <2>8 DEF Inv, Sessions
  <2>15. Resumes(reply, row.cmd)' BY <1>1, <2>6, <2>9, <2>10, Known DEF Resumes
  <2> QED BY <1>2, <2>12, <2>13, <2>14, <2>15 DEF Inv
<1> QED BY <1>3, <1>4

(* The words of the human keep it, and are the platform's. *)
LEMMA Says ==
    ASSUME Inv, NEW c \in Commands, appendPlatformEvent(c, "user"), UNCHANGED <<agent, up, reader, past>>,
           reply' \in ReplyType, Resumes(reply', row.cmd), live' \in LiveType
    PROVE  Inv' /\ Saying
<1> DEFINE event == [cmd |-> c, at |-> 0, type |-> "user"]
<1>1. log' = inserted(<<event>>, row.seq) /\ row' = [row EXCEPT !.seq = @ + 1]
  BY DEF appendPlatformEvent
<1>2. event \in Row /\ <<event>> \in Seq(Row) /\ Len(<<event>>) = 1 BY Placed
<1>3. /\ row' \in RowType /\ row'.seq = row.seq + 1 /\ row'.ecmd = row.ecmd /\ row'.off = row.off
      /\ row'.cmd = row.cmd
  <2>1. row \in RowType /\ row.seq \in Nat /\ row.seq + 1 \in Nat BY Types DEF RowType
  <2> QED BY <1>1, <2>1 DEF RowType
<1>4. UNCHANGED <<stream, status, busy, stdin, up, past, reader>> BY DEF agent
<1> HIDE DEF event
<1>5. /\ rows \in Seq(Row) /\ rows' = rows \o <<event>>
      /\ DOMAIN log' = 1..row'.seq /\ \A s \in DOMAIN log' : log'[s] \in Row
  BY <1>1, <1>2, <1>3, Grows
<1>6. rows' = Append(rows, event) BY <1>2, <1>5, AppendIsConcat
<1>7. Saying BY <1>4, <1>6 DEF Saying, event
<1>8. Inv' BY <1>3, <1>4, <1>5, Known, Types, RowMoves
<1> QED BY <1>7, <1>8

(* Every step of a reply. *)
LEMMA Replies ==
    ASSUME Inv, Reply
    PROVE  Inv' /\ (Saying \/ Still)
<1>1. CASE followUpTask \/ followUpLive BY <1>1, RepliesAsk
<1>2. CASE ReplyWake BY <1>2, Wakes
<1>3. CASE ReplyLaunch BY <1>3, Launches
<1>4. CASE ReplySays
  <2>1. /\ reply.pc = "started" /\ appendPlatformEvent(reply.cmd, "user")
        /\ reply' = [reply EXCEPT !.pc = "record"] /\ UNCHANGED <<agent, up, reader, live, past>>
    BY <1>4 DEF ReplySays
  <2>2. reply.cmd \in launchedSessions /\ row.cmd <= reply.cmd /\ reply \in ReplyType
        /\ Resumes(reply, row.cmd)
    BY <2>1, Known DEF Resumes
  <2>3. reply.cmd \in Commands BY <2>2 DEF launchedSessions
  <2>4. reply' \in ReplyType /\ Resumes(reply', row.cmd) BY <2>1, <2>2 DEF ReplyType, Resumes
  <2> QED BY <2>1, <2>3, <2>4, Known, Says
<1>5. CASE LiveSays
  <2>1. /\ appendPlatformEvent(live.cmd, "user")
        /\ live' = [live EXCEPT !.pc = "write"] /\ UNCHANGED <<agent, up, reader, reply, past>>
    BY <1>5 DEF LiveSays
  <2>2. live.cmd \in Commands /\ live' \in LiveType BY <2>1, Known DEF LiveType
  <2> QED BY <2>1, <2>2, Known, Says
<1>6. CASE ReplyRecord
  <2> DEFINE c == reply.cmd
  <2>1. /\ reply.pc = "record" /\ reply' = NoReply /\ UNCHANGED <<up, log, reader, live, past>>
        /\ Hear(c) \/ UNCHANGED agent
        /\ row' = row \/ row' = [row EXCEPT !.state = "running", !.cmd = c]
    BY <1>6 DEF ReplyRecord
  <2>2. c \in launchedSessions /\ row.cmd <= c BY <2>1, Known DEF Resumes
  <2>3. c \in Commands BY <2>2 DEF launchedSessions
  <2>4. UNCHANGED <<stream, status>> /\ busy' \subseteq Commands /\ stdin' \subseteq Commands
    BY <2>1, <2>3, Heard
  <2> HIDE DEF c
  <2>5. /\ row' \in RowType /\ row'.ecmd = row.ecmd /\ row'.off = row.off /\ row'.seq = row.seq
        /\ row'.cmd \in launchedSessions /\ row'.cmd \in Commands /\ row.cmd <= row'.cmd
    <3>1. row \in RowType BY Types
    <3> QED BY <2>1, <2>2, <2>3, <3>1, Known DEF RowType
  <2>6. DOMAIN log' = 1..row'.seq /\ \A s \in DOMAIN log' : log'[s] \in Row
    BY <2>1, <2>5, Types DEF Inv, Dense
  <2>7. reply' \in ReplyType /\ Resumes(reply', row'.cmd) BY <2>1, <2>5, NoReplyKnown
  <2>8. Inv' BY <2>1, <2>4, <2>5, <2>6, <2>7, Known, RowMoves
  <2>9. Still BY <2>1, <2>4, <2>5 DEF Still, rows
  <2> QED BY <2>8, <2>9
<1>7. CASE LiveWrites
  <2> DEFINE c == live.cmd
  <2>1. /\ live' = NoLive /\ UNCHANGED <<up, log, reader, reply, past>>
        /\ Hear(c) \/ UNCHANGED agent
        /\ row' = row \/ row' = [row EXCEPT !.state = "running"]
    <3>1. row \in RowType BY Types
    <3>2. [row EXCEPT !.state = row.state] = row BY <3>1 DEF RowType
    <3> QED BY <1>7, <3>2 DEF LiveWrites
  <2>2. c \in Commands BY Known DEF LiveType
  <2>3. UNCHANGED <<stream, status>> /\ busy' \subseteq Commands /\ stdin' \subseteq Commands
    BY <2>1, <2>2, Heard
  <2>4. /\ row' \in RowType /\ row'.ecmd = row.ecmd /\ row'.off = row.off /\ row'.seq = row.seq
        /\ row'.cmd = row.cmd
    <3>1. row \in RowType BY Types
    <3> QED BY <2>1, <3>1 DEF RowType
  <2>5. DOMAIN log' = 1..row'.seq /\ \A s \in DOMAIN log' : log'[s] \in Row
    BY <2>1, <2>4, Types DEF Inv, Dense
  <2>6. live' \in LiveType BY <2>1, Known, NoReplyKnown
  <2>7. Inv' BY <2>1, <2>3, <2>4, <2>5, <2>6, Known, RowMoves
  <2>8. Still BY <2>1, <2>3, <2>4 DEF Still, rows
  <2> QED BY <2>7, <2>8
<1> QED BY <1>1, <1>2, <1>3, <1>4, <1>5, <1>6, <1>7 DEF Reply

(* A process that goes down was once launched. *)
LEMMA Goes ==
    ASSUME Inv, NEW cs, cs \subseteq launchedSessions, NEW how \in Statuses \ {"none"}, Gone(cs, how)
    PROVE  /\ stream' = stream /\ status' \in [Commands -> Statuses]
           /\ launchedSessions' = launchedSessions /\ busy' \subseteq Commands /\ stdin' \subseteq Commands
<1>1. /\ stream' = stream /\ status' = [c \in Commands |-> IF c \in cs THEN how ELSE status[c]]
      /\ busy' = busy \ cs /\ stdin' = stdin \ cs
  BY DEF Gone
<1>2. status \in [Commands -> Statuses] /\ busy \subseteq Commands /\ stdin \subseteq Commands BY Types
<1>3. \A c \in Commands : status'[c] # "none" <=> status[c] # "none" BY <1>1 DEF launchedSessions
<1>4. launchedSessions' = launchedSessions BY <1>3 DEF launchedSessions
<1> QED BY <1>1, <1>2, <1>4

(* Every step of the sessions and their machine. *)
LEMMA Worlds ==
    ASSUME Inv, World
    PROVE  Inv' /\ (Writing \/ Still)
<1>0. /\ stream \in [Commands -> Seq(Units)] /\ status \in [Commands -> Statuses] /\ up \in BOOLEAN
      /\ busy \subseteq Commands /\ stdin \subseteq Commands
  BY Types
<1>1. ASSUME NEW c \in Commands, NEW u \in Units, Write(c, u)
      PROVE  Inv' /\ Writing
  <2>1. /\ Len(stream[c]) < MaxUnits /\ stream' = [stream EXCEPT ![c] = Append(@, u)]
        /\ UNCHANGED <<status, up, row, log, reader, reply, live, past>>
        /\ busy' \subseteq busy /\ stdin' \subseteq stdin
    BY <1>1 DEF Write, jobs
  <2>2. stream[c] \in Seq(Units) /\ Len(stream[c]) \in Nat
    <3>1. stream[c] \in Seq(Units) BY <1>0
    <3> QED BY <3>1
  <2>3. Append(stream[c], u) \in Seq(Units) /\ Len(Append(stream[c], u)) = Len(stream[c]) + 1
    BY <2>2, AppendProperties
  <2>4. stream' \in [Commands -> Seq(Units)]
        /\ \A x \in Commands : stream'[x] = IF x = c THEN Append(stream[c], u) ELSE stream[x]
    BY <1>0, <2>1, <2>3
  <2>5. \A x \in Commands : Len(stream[x]) <= Len(stream'[x]) /\ Len(stream'[x]) <= MaxUnits
    <3> SUFFICES ASSUME NEW x \in Commands
                 PROVE  Len(stream[x]) <= Len(stream'[x]) /\ Len(stream'[x]) <= MaxUnits
      OBVIOUS
    <3>1. CASE x # c BY <2>4, <3>1, Known
    <3>2. CASE x = c
      <4>1. Len(stream'[c]) = Len(stream[c]) + 1 BY <2>3, <2>4
      <4> QED BY <2>1, <2>2, <3>2, <4>1, Bounds
    <3> QED BY <3>1, <3>2
  <2>6. launchedSessions' = launchedSessions BY <2>1 DEF launchedSessions
  <2>7. Inv' BY <1>0, <2>1, <2>4, <2>5, <2>6, Known, Types, Elsewhere
  <2>8. Writing BY <2>1 DEF Writing, rows
  <2> QED BY <2>7, <2>8
<1>2. ASSUME stream' = stream, UNCHANGED <<row, log, reader, reply, live, past>>,
             status' \in [Commands -> Statuses], launchedSessions' = launchedSessions,
             busy' \subseteq Commands, stdin' \subseteq Commands, up' \in BOOLEAN
      PROVE  Inv' /\ Still
  <2>1. Inv' BY <1>0, <1>2, Known, Types, Elsewhere
  <2>2. Still BY <1>2 DEF Still, rows
  <2> QED BY <2>1, <2>2
<1>3. ASSUME NEW c \in Commands, WakesUp(c)
      PROVE  Inv' /\ Still
  <2>1. /\ stream' = stream /\ UNCHANGED <<status, stdin, up, row, log, reader, reply, live, past>>
        /\ busy' = busy \cup {c}
    BY <1>3 DEF WakesUp, jobs
  <2>2. launchedSessions' = launchedSessions BY <2>1 DEF launchedSessions
  <2> QED BY <1>0, <1>2, <2>1, <2>2
<1>4. ASSUME NEW c \in Commands, Exits(c) \/ Dies(c)
      PROVE  Inv' /\ Still
  <2>1. PICK how \in {"failed", "succeeded"} : Gone({c}, how) BY <1>4 DEF Exits, Dies
  <2>2. status[c] = "running" /\ UNCHANGED <<up, row, log, reader, reply, live, past>>
    BY <1>4 DEF Exits, Dies, jobs
  <2>3. {c} \subseteq launchedSessions /\ how \in Statuses \ {"none"}
    BY <2>2 DEF launchedSessions, Statuses
  <2> QED BY <1>0, <1>2, <2>1, <2>2, <2>3, Goes
<1>5. CASE MachineStops
  <2>1. Gone(running, "lost") /\ up' = FALSE /\ UNCHANGED <<row, log, reader, reply, live, past>>
    BY <1>5 DEF MachineStops, jobs
  <2>2. running \subseteq launchedSessions /\ "lost" \in Statuses \ {"none"}
    BY DEF running, launchedSessions, Statuses
  <2> QED BY <1>0, <1>2, <2>1, <2>2, Goes
<1>6. CASE Restart
  <2>1. /\ UNCHANGED <<stream, status, busy, stdin, up, row, log, past>>
        /\ reader' = [r \in Readers |-> Away] /\ reply' = NoReply /\ live' = NoLive
    BY <1>6 DEF Restart, agent
  <2>2. NoReply \in ReplyType /\ Resumes(NoReply, row.cmd) /\ NoLive \in LiveType
    BY Known, NoReplyKnown
  <2>3. Away \in ReaderType /\ Sees(Away, row.cmd, stream) BY Known, AwayKnown
  <2>4. TypeOK' /\ Dense'
    <3>1. DOMAIN log' = 1..row'.seq /\ \A s \in DOMAIN log' : log'[s] \in Row
      BY <2>1, Types DEF Inv, Dense
    <3> QED BY <2>1, <2>2, <2>3, <3>1, Types, TypesMake DEF Dense
  <2>5. Lengths' /\ Cursor' BY <2>1 DEF Inv, Lengths, Cursor
  <2>6. launchedSessions' = launchedSessions BY <2>1 DEF launchedSessions
  <2>7. Sessions' BY <2>1, <2>6 DEF Inv, Sessions
  <2>8. Resumes(reply, row.cmd)' BY <2>1, <2>2, <2>6 DEF Resumes
  <2>9. AllSee' BY <2>1, <2>3 DEF AllSee
  <2>10. Still BY <2>1 DEF Still, rows
  <2> QED BY <2>4, <2>5, <2>7, <2>8, <2>9, <2>10 DEF Inv
<1> QED BY <1>1, <1>3, <1>4, <1>5, <1>6 DEF World

-----------------------------------------------------------------------------
(* The theorems. *)

(* The first state. *)
LEMMA Starts == Init => Inv
<1> SUFFICES ASSUME Init PROVE Inv OBVIOUS
<1>1. /\ stream = [c \in Commands |-> <<>>] /\ busy = {1} /\ stdin = {} /\ up = TRUE
      /\ status = [c \in Commands |-> IF c = 1 THEN "running" ELSE "none"]
      /\ row = [state |-> "running", cmd |-> 1, ecmd |-> 0, off |-> 0, seq |-> 1, auto |-> TRUE]
      /\ log = <<[cmd |-> 1, at |-> 0, type |-> "user"]>>
      /\ reader = [r \in Readers |-> Away] /\ reply = NoReply /\ live = NoLive
      /\ past = [c \in Commands |-> 0]
  BY DEF Init
<1>2. 1 \in Commands /\ 0 \in 0..MaxUnits /\ MaxUnits \in Nat BY Bounds
<1>3. row \in RowType /\ row.seq = 1 /\ row.cmd = 1 /\ row.ecmd = 0 /\ row.off = 0 /\ row.cmd <= row.cmd
  BY <1>1, <1>2 DEF RowType
<1>4. DOMAIN log = 1..1 /\ \A s \in DOMAIN log : log[s] \in Row
  <2>1. [cmd |-> 1, at |-> 0, type |-> "user"] \in Row BY <1>2 DEF Row, EventTypes
  <2> QED BY <1>1, <2>1
<1>5. Away \in ReaderType /\ Sees(Away, row.cmd, stream) BY <1>2, <1>3, AwayKnown
<1>6. NoReply \in ReplyType /\ Resumes(NoReply, row.cmd) /\ NoLive \in LiveType
  BY <1>2, <1>3, NoReplyKnown
<1>7. \A c \in Commands : stream[c] = <<>> /\ Len(stream[c]) = 0 /\ past[c] = 0 BY <1>1
<1>8. TypeOK
  <2>1. stream \in [Commands -> Seq(Units)]
    <3>1. <<>> \in Seq(Units) OBVIOUS
    <3> QED BY <1>1, <3>1
  <2>2. status \in [Commands -> Statuses] BY <1>1 DEF Statuses
  <2>3. busy \subseteq Commands /\ stdin \subseteq Commands /\ up \in BOOLEAN BY <1>1, <1>2
  <2>4. reader \in [Readers -> ReaderType] BY <1>1, <1>5
  <2>5. past \in [Commands -> 0..MaxUnits] BY <1>1, <1>2
  <2>6. reply \in ReplyType /\ live \in LiveType BY <1>1, <1>6
  <2>7. DOMAIN log \subseteq 1..row.seq BY <1>3, <1>4
  <2> QED BY <1>3, <1>4, <2>1, <2>2, <2>3, <2>4, <2>5, <2>6, <2>7
          DEF TypeOK, ReaderType, ReplyType, LiveType, Row, Pcs
<1>9. Dense BY <1>3, <1>4 DEF Dense
<1>10. Lengths BY <1>2, <1>7 DEF Lengths
<1>11. Sessions
  <2>1. launchedSessions = {1} BY <1>1, <1>2 DEF launchedSessions
  <2>2. Cardinality({1}) = 1 BY FS_Singleton
  <2>3. {1} = 1..1 OBVIOUS
  <2> QED BY <1>3, <2>1, <2>2, <2>3 DEF Sessions
<1>12. Resumes(reply, row.cmd) BY <1>1, <1>6
<1>13. AllSee BY <1>1, <1>5 DEF AllSee
<1>14. Cursor BY <1>3, <1>7 DEF Cursor
<1> QED BY <1>8, <1>9, <1>10, <1>11, <1>12, <1>13, <1>14 DEF Inv

(* Every step keeps the invariant, and is a claim, a word, a write, or *)
(* nothing.                                                            *)
LEMMA Steps ==
    ASSUME Inv, [Next]_vars
    PROVE  Inv' /\ (Taking \/ Saying \/ Writing \/ Still)
<1>1. CASE \E r \in Readers : Read(r) BY <1>1, Reads
<1>2. CASE Reply BY <1>2, Replies
<1>3. CASE World BY <1>3, Worlds
<1>4. CASE UNCHANGED vars
  <2>1. /\ UNCHANGED <<stream, status, busy, stdin, up, row, log, reader, reply, live, past>>
    BY <1>4 DEF vars
  <2>2. launchedSessions' = launchedSessions BY <2>1 DEF launchedSessions
  <2>3. Inv' BY <2>1, <2>2, Known, Types, Elsewhere
  <2>4. Still BY <2>1 DEF Still, rows
  <2> QED BY <2>3, <2>4
<1> QED BY <1>1, <1>2, <1>3, <1>4 DEF Next

(* The inductive invariant holds, whatever the readers, the replies and the *)
(* faults do (task-events.ts and refreshTask).                              *)
THEOREM Invariance == Spec => []Inv
<1>1. Init => Inv BY Starts
<1>2. Inv /\ [Next]_vars => Inv' BY Steps
<1> QED BY <1>1, <1>2, PTL DEF Spec

(* Every state has its type: a cursor never passes the file it points into, *)
(* nor the chunks of a pass their ceiling (TypeOK).                         *)
THEOREM Typed == Spec => []TypeOK
<1>1. Inv => TypeOK BY DEF Inv
<1> QED BY <1>1, Invariance, PTL

(* The log starts as SessionLog's. *)
LEMMA StartsAsLog == Init => Log!Init
<1> SUFFICES ASSUME Init PROVE Log!Init OBVIOUS
<1>1. /\ stream = [c \in Commands |-> <<>>] /\ past = [c \in Commands |-> 0] /\ row.seq = 1
      /\ log = <<[cmd |-> 1, at |-> 0, type |-> "user"]>>
  BY DEF Init
<1> DEFINE R == [cmd : Commands, at : {0}, type : {"user"}]
<1>2. [cmd |-> 1, at |-> 0, type |-> "user"] \in R BY Bounds
<1>3. [s \in 1..row.seq |-> log[s]] \in Seq(R)
  <2>1. \A s \in 1..1 : log[s] \in R BY <1>1, <1>2
  <2>2. [s \in 1..1 |-> log[s]] \in Seq(R)
    <3> HIDE DEF R
    <3> QED BY <2>1
  <2> QED BY <1>1, <2>2
<1> QED BY <1>1, <1>3 DEF Log!Init

(* Every step is one of SessionLog, or none. *)
LEMMA StepsAsLog == Inv /\ Inv' /\ [Next]_vars => [Log!Next]_(Log!vars)
<1> SUFFICES ASSUME Inv, [Next]_vars PROVE [Log!Next]_(Log!vars) OBVIOUS
<1>1. CASE Taking
  <2>1. PICK c \in Commands : \E to \in 1..Len(stream[c]) :
          /\ past[c] < to
          /\ \A x \in Commands : x > c => past[x] = 0
          /\ past' = [past EXCEPT ![c] = to]
          /\ rows' = rows \o parseLines(c, stream[c], past[c], to)
          /\ UNCHANGED stream
    BY <1>1 DEF Taking
  <2>2. PICK to \in 1..Len(stream[c]) :
          /\ past[c] < to
          /\ \A x \in Commands : x > c => past[x] = 0
          /\ past' = [past EXCEPT ![c] = to]
          /\ rows' = rows \o parseLines(c, stream[c], past[c], to)
          /\ UNCHANGED stream
    BY <2>1
  <2>3. Log!parseLines(c, stream[c], past[c], to) = parseLines(c, stream[c], past[c], to)
    BY Zenon DEF Log!parseLines, Log!LineEnds, Log!Headless, Log!Cardinality,
                 parseLines, LineEnds, Headless, Cardinality
  <2>4. Log!Take(c, to) BY <2>2, <2>3 DEF Log!Take, rows
  <2> QED BY <2>4 DEF Log!Next
<1>2. CASE Saying
  <2>1. PICK c \in Commands, type \in {"user", "title"} :
          rows' = Append(rows, [cmd |-> c, at |-> 0, type |-> type]) /\ UNCHANGED <<stream, past>>
    BY <1>2 DEF Saying
  <2>2. Log!Say([cmd |-> c, at |-> 0, type |-> type]) BY <2>1 DEF Log!Say, rows
  <2>3. \E d \in Commands, t \in {"user", "title"} : Log!Say([cmd |-> d, at |-> 0, type |-> t])
    BY <2>2
  <2> QED BY <2>3 DEF Log!Next
<1>3. CASE Writing
  <2>1. PICK c \in Commands, u \in Units :
          stream' = [stream EXCEPT ![c] = Append(@, u)] /\ UNCHANGED <<past, rows>>
    BY <1>3 DEF Writing
  <2>2. Log!Write(c, u) BY <2>1 DEF Log!Write, rows
  <2>3. u \in Log!Units BY DEF Log!Units, Log!LineKinds, Units, LineKinds
  <2> QED BY <2>2, <2>3 DEF Log!Next
<1>4. CASE Still BY <1>4 DEF Still, rows, Log!vars
<1> QED BY <1>1, <1>2, <1>3, <1>4, Steps

(* advanceCursor's compare-and-swap is enough: whatever the overlapping    *)
(* readers, replies, crashes and restarts do, the log is dense, only ever  *)
(* added to at its end, takes each line of each session once and in order, *)
(* and never goes back to an earlier session (LogSpec).                    *)
THEOREM LogKept == Spec => LogSpec
<1>1. Init => Log!Init BY StartsAsLog
<1>2. Inv /\ Inv' /\ [Next]_vars => [Log!Next]_(Log!vars) BY StepsAsLog
<1> QED BY <1>1, <1>2, Invariance, PTL DEF Spec, LogSpec, Log!Spec
=============================================================================
