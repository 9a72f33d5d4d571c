---------------------------- MODULE StreamLines ----------------------------
(***************************************************************************)
(* A harness's stdout as the ingestion sees it (services/task-events.ts):  *)
(* units of bytes, the last unit of each line saying what the line says.   *)
(* An offset counts units.  A line gives one event, but for the partial    *)
(* messages that only feed the draft, which give none.                     *)
(***************************************************************************)
EXTENDS Naturals, Sequences, FiniteSetsExt

(* part: a piece of a line.  raw: what is left of a line whose head was skipped. *)
LineKinds == {"started", "said", "busy", "quiet", "draft", "ended"}
Units == LineKinds \cup {"part"}
EventTypes == {"started", "said", "busy", "quiet", "ended", "raw", "user", "title"}

LineEnds(s, from, to) == {i \in (from + 1)..to : s[i] # "part"}

(* splitCompleteLines: where the last complete line of s past `from` ends. *)
splitCompleteLines(s, from, to) == Max({from} \cup LineEnds(s, from, to))

(* The head of the line that ends at i was skipped: the piece before `from` is its own. *)
Headless(s, from, i) ==
    from # 0 /\ s[from] = "part" /\ LineEnds(s, from, i) = {i}

(* parseLines, on the lines of session c between two offsets: the events of  *)
(* the k-th stored line, each with the offset its line ends at.              *)
parseLines(c, s, from, to) ==
    LET kept == {i \in LineEnds(s, from, to) : s[i] # "draft" \/ Headless(s, from, i)}
        nth(k) == CHOOSE i \in kept : Cardinality({h \in kept : h <= i}) = k IN
    [k \in 1..Cardinality(kept) |->
        LET i == nth(k) IN
        [cmd |-> c, at |-> i, type |-> IF Headless(s, from, i) THEN "raw" ELSE s[i]]]
=============================================================================
