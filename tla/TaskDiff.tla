------------------------------ MODULE TaskDiff ------------------------------
(***************************************************************************)
(* What a task changed (services/task-diff.ts): the list of files, read by *)
(* three git commands of one script while the agent still works            *)
(* (lib/task-diff.ts), and the patch of one of them.                       *)
(*                                                                         *)
(* The output of a script is a sequence of fields, a patch a sequence of   *)
(* lines.  A line is its prefix and the rest: "-- y" taken off a file      *)
(* reads "--- y", which is also how a patch names the old file.  What is   *)
(* torn in the middle reads "cut".                                         *)
(*                                                                         *)
(* Bound: an output is cut in one way, at its end or at its beginning, and *)
(* a patch that is asked for from a list that broke off comes whole.       *)
(***************************************************************************)
EXTENDS Naturals, Sequences, FiniteSets

LOCAL INSTANCE SequencesExt

VARIABLES
    tree,    \* per path, what the work tree has that the merge base has not
    script,  \* diffSummaryScript, running
    listing, \* the list shown, and what the tree was when it was read
    patch    \* the patch shown

vars == <<tree, script, listing, patch>>

Paths == {"a", "n", "z"}  \* two of the base, and one that is not
inOrder == <<"a", "n", "z">>
None == [none |-> TRUE]
Same == [status |-> "same", old |-> "", edit |-> <<>>]
Moved == [status |-> "moved", old |-> "", edit |-> <<>>] \* the old path of a rename
changeOf(t, path) == IF path \in Paths THEN t[path] ELSE Same
Statuses == {"added", "modified", "deleted", "renamed", "untracked"}

-----------------------------------------------------------------------------
(* Edits: hunks, each with where it starts and its lines. *)

Line(kind, text) == [kind |-> kind, text |-> text]
(* Plain, or like the header of a file once it is marked. *)
Lines ==
    {Line("add", "x"), Line("add", "++ y"), Line("del", "x"), Line("del", "-- y"),
     Line("context", "x")}
HeaderLike == {Line("add", "++ y"), Line("del", "-- y")}
NoNewline == Line("note", "No newline at end of file")
Hunk(old, new, lines) == [old |-> old, new |-> new, lines |-> lines]
size(lines, kinds) == Cardinality({i \in DOMAIN lines : lines[i].kind \in kinds})
Edits ==
    {<<Hunk(5, 5, <<l>>)>> : l \in Lines}
    \cup {<<Hunk(5, 5, <<l, m>>)>> : l \in Lines, m \in HeaderLike \cup {NoNewline}}
    \cup {<<Hunk(5, 5, <<l>>),
            Hunk(9, 9 + size(<<l>>, {"add"}) - size(<<l>>, {"del"}), <<m>>)>> :
             l, m \in HeaderLike}
Whole(kind) == <<Hunk(IF kind = "add" THEN 0 ELSE 1, IF kind = "add" THEN 1 ELSE 0,
                      <<Line(kind, "x"), Line(kind, "x")>>)>>

counts(edit) ==
    [additions |-> Cardinality({hi \in (DOMAIN edit) \X (1..2) :
                       hi[2] \in DOMAIN edit[hi[1]].lines /\ edit[hi[1]].lines[hi[2]].kind = "add"}),
     deletions |-> Cardinality({hi \in (DOMAIN edit) \X (1..2) :
                       hi[2] \in DOMAIN edit[hi[1]].lines /\ edit[hi[1]].lines[hi[2]].kind = "del"})]

-----------------------------------------------------------------------------
(* git, as the scripts use it. *)

Field(kind, is) == [kind |-> kind, is |-> is]
Mark(name) == Field("mark", name)
changed(t) == SelectSeq(inOrder, LAMBDA p : t[p].status \in Statuses \ {"untracked"})
Each(paths, F(_)) == FlattenSeq([i \in DOMAIN paths |-> F(paths[i])])

numstat(t) ==
    LET F(p) == LET n == counts(t[p].edit) IN
            IF t[p].status = "renamed"
              THEN <<Field("counts", [n |-> n, path |-> ""]), Field("path", t[p].old),
                     Field("path", p)>>
              ELSE <<Field("counts", [n |-> n, path |-> p])>>
    IN  Each(changed(t), F)
nameStatus(t) ==
    LET F(p) == <<Field("letter", t[p].status)>>
                \o (IF t[p].status = "renamed" THEN <<Field("path", t[p].old)>> ELSE <<>>)
                \o <<Field("path", p)>>
    IN  Each(changed(t), F)
untracked(t) ==
    LET F(p) == <<Field("path", p)>>
    IN  Each(SelectSeq(inOrder, LAMBDA p : t[p].status = "untracked"), F)

tails(s) == {SubSeq(s, i, Len(s)) : i \in 1..Len(s)}
heads(s) == {SubSeq(s, 1, i) : i \in 1..Len(s)}
(* An output that broke off: its last field, or line, whole or torn. *)
beginnings(s, Torn(_)) ==
    {<<>>} \cup (heads(s) \ {s})
    \cup UNION {{Append(Front(h), last) : last \in Torn(Last(h))} : h \in heads(s)}
(* A mark that is torn is one more field of the section before it. *)
tornField(f) ==
    CASE f.kind = "path" -> {Field("path", "cut")}
      [] f.kind = "counts" -> {Field("counts", [f.is EXCEPT !.path = p]) :
                               p \in {""} \cup (IF f.is.path = "" THEN {} ELSE {"cut"})}
      [] f.kind = "mark" -> {Field("torn", "")}
      [] OTHER -> {}

-----------------------------------------------------------------------------
(* parseDiffSummary. *)

marks(out) == {i \in DOMAIN out : out[i].kind = "mark"}
sections(out, name) ==
    LET at == {i \in marks(out) : out[i].is = name} IN
    IF at = {} THEN <<>>
    ELSE LET i == CHOOSE j \in at : TRUE
             last == CHOOSE k \in i..Len(out) :
                        /\ (i + 1)..k \cap marks(out) = {}
                        /\ k = Len(out) \/ (k + 1) \in marks(out)
         IN  SubSeq(out, i + 1, last)

entryOf(f) == IF f.kind = "counts" THEN f.is ELSE [n |-> counts(<<>>), path |-> ""]
pathAt(f, i) == IF i <= Len(f) THEN f[i].is ELSE ""
File(n, path, old, status) == [n |-> n, path |-> path, old |-> old, status |-> status]

countsOf(f) ==
    LET from[i \in 1..(Len(f) + 3)] ==
          IF i > Len(f) THEN <<>>
          ELSE LET entry == entryOf(f[i]) IN
               IF entry.path = ""
                 THEN <<File(entry.n, pathAt(f, i + 2), pathAt(f, i + 1), "unknown")>> \o from[i + 3]
                 ELSE <<File(entry.n, entry.path, "", "unknown")>> \o from[i + 1]
    IN  from[1]

twoEach(status) == 2  \* mutant: a rename takes as many fields as the rest
fieldsOf(status) == IF status = "renamed" THEN 3 ELSE 2
statusesOf(f) ==
    LET from[i \in 1..(Len(f) + 3)] ==
          IF i > Len(f) THEN <<>>
          ELSE LET status == IF f[i].kind = "letter" THEN f[i].is ELSE "unknown" IN
               <<status>> \o from[i + fieldsOf(status)]
    IN  from[1]

parseDiffSummary(out) ==
    LET read == countsOf(sections(out, "numstat"))
        statuses == statusesOf(sections(out, "namestatus"))
        rest == sections(out, "untracked")
        files == [i \in DOMAIN read |->
                    IF i \in DOMAIN statuses THEN [read[i] EXCEPT !.status = statuses[i]] ELSE read[i]]
        known == {files[i].path : i \in DOMAIN files}
        new == SelectSeq(rest, LAMBDA f : f.is \notin known)
    IN  [files |-> files \o [i \in DOMAIN new |->
                               File(counts(<<>>), new[i].is, "", "untracked")],
         error |-> Field("ref", "sha") \notin Range(sections(out, "refs"))]

-----------------------------------------------------------------------------
(* parsePatch. *)

Raw(prefix, rest) == [prefix |-> prefix, rest |-> rest, at |-> <<0, 0>>]
marker(kind) == CASE kind = "add" -> "+" [] kind = "del" -> "-" [] kind = "note" -> "\\"
                  [] OTHER -> " "
rendered(l) ==
    CASE l.kind = "del" /\ l.text = "-- y" -> Raw("--- ", "y")
      [] l.kind = "add" /\ l.text = "++ y" -> Raw("+++ ", "y")
      [] OTHER -> Raw(marker(l.kind), l.text)
Header(h) == [Raw("@@", "") EXCEPT !.at = <<h.old, h.new>>]
(* The patch git prints of a file: a path of "" is /dev/null. *)
diffGit(old, new, edit) ==
    <<Raw("diff --git", old), Raw("index ", "")>>
    \o (IF edit = <<>> THEN <<>> ELSE <<Raw("--- ", old), Raw("+++ ", new)>>)
    \o FlattenSeq([k \in DOMAIN edit |->
                 <<Header(edit[k])>> \o [i \in DOMAIN edit[k].lines |-> rendered(edit[k].lines[i])]])

(* In a hunk, a header that is torn reads like a line. *)
tornLine(line) ==
    CASE line.prefix \in {"+", "-", " "} -> {Raw(line.prefix, "cut")}
      [] line.prefix = "+++ " -> {Raw("+", "cut"), Raw("+++ ", "cut")}
      [] line.prefix = "--- " -> {Raw("-", "cut"), Raw("--- ", "cut")}
      [] OTHER -> {Raw("torn", "cut")}

(* The mark of a line in a hunk is its first character. *)
kindOf(line) ==
    CASE line.prefix \in {"+", "+++ "} -> "add" [] line.prefix \in {"-", "--- "} -> "del"
      [] OTHER -> "context"
body(line) ==
    CASE line.rest = "cut" -> "cut" [] line.prefix = "+++ " -> "++ y" [] line.prefix = "--- " -> "-- y"
      [] OTHER -> line.rest

anywhere(inHunk, line) ==  \* mutant: a line that looks like a header is one, in a hunk too
    line.prefix \in {"--- ", "+++ ", "index "}
isHeader(inHunk, line) == ~inHunk /\ line.prefix \in {"--- ", "+++ ", "index "}

Numbers(s, line) ==
    LET kind == kindOf(line) IN
    [kind |-> kind, text |-> body(line), old |-> IF kind = "add" THEN 0 ELSE s.old,
     new |-> IF kind = "del" THEN 0 ELSE s.new]
Parsed(s, line) ==
    CASE line.prefix = "diff --git" -> [s EXCEPT !.inHunk = FALSE]
      [] isHeader(s.inHunk, line) ->
             IF line.prefix = "+++ " /\ line.rest # "" THEN [s EXCEPT !.path = line.rest] ELSE s
      [] line.prefix = "@@" ->
             [s EXCEPT !.inHunk = TRUE, !.old = line.at[1], !.new = line.at[2],
                       !.hunks = Append(@, <<>>)]
      [] s.inHunk /\ line.prefix \in {"+", "+++ ", "-", "--- ", " ", "torn"} ->
             [s EXCEPT !.hunks[Len(s.hunks)] = Append(@, Numbers(s, line)),
                       !.old = IF kindOf(line) = "add" THEN @ ELSE @ + 1,
                       !.new = IF kindOf(line) = "del" THEN @ ELSE @ + 1]
      [] OTHER -> s
parsePatch(lines) ==
    LET start == [path |-> "", hunks |-> <<>>, inHunk |-> FALSE, old |-> 0, new |-> 0]
        after[i \in 0..Len(lines)] == IF i = 0 THEN start ELSE Parsed(after[i - 1], lines[i])
    IN  after[Len(lines)]

-----------------------------------------------------------------------------
(* The list. *)

(* A git that fails is passed over, and what it had printed stays. *)
Printed(sofar, name, fields, pc, broken) ==
    \/ script' = [sofar EXCEPT !.pc = pc, !.out = @ \o <<Mark(name)>> \o fields]
    \/ broken /\ ~sofar.broken /\ \E some \in beginnings(fields, tornField) :
          script' = [sofar EXCEPT !.pc = pc, !.out = @ \o <<Mark(name)>> \o some, !.broken = TRUE]

(* There is a merge base unless the base branch is not in the checkout. *)
diffSummaryScript(based) ==
    /\ script = None /\ listing = None
    /\ Printed([pc |-> "numstat", based |-> based, seen |-> tree, moved |-> FALSE, broken |-> FALSE,
                long |-> FALSE, out |-> <<Mark("base"), Mark("refs")>>
                                        \o (IF based THEN <<Field("ref", "sha")>> ELSE <<>>)],
               "numstat", IF based THEN numstat(tree) ELSE <<>>, "namestatus", based)
    /\ UNCHANGED <<tree, listing, patch>>

(* The paths that are not tracked are cut at 64 KiB (`head -c'). *)
Reads ==
    /\ script # None
    /\ \/ script.pc = "namestatus"
          /\ Printed(script, "namestatus", IF script.based THEN nameStatus(tree) ELSE <<>>,
                     "untracked", script.based)
       \/ script.pc = "untracked" /\ Printed(script, "untracked", untracked(tree), "done", FALSE)
       \/ /\ script.pc = "untracked" /\ untracked(tree) # <<>>
          /\ \E some \in beginnings(untracked(tree), tornField) :
                Printed([script EXCEPT !.long = TRUE], "untracked", some, "done", FALSE)
    /\ UNCHANGED <<tree, listing, patch>>

(* Whole; its end, past the ceiling; or what it had printed when it was    *)
(* stopped or out of time.                                                 *)
taskDiff ==
    /\ script # None
    /\ \E out \in IF script.broken \/ script.long THEN {script.out}
                  ELSE IF script.pc = "done" THEN tails(script.out)
                  ELSE ({script.out} \cup beginnings(script.out, tornField)) \ {<<>>} :
          listing' = [parsed |-> parseDiffSummary(out), seen |-> script.seen, moved |-> script.moved,
                      broken |-> script.broken \/ script.pc # "done", long |-> script.long]
    /\ script' = None
    /\ UNCHANGED <<tree, patch>>

-----------------------------------------------------------------------------
(* The patch of a file of the list. *)

gitDiff(path, old, asUntracked) ==
    LET t == changeOf(tree, path) IN
    IF asUntracked
      THEN IF t.status \in {"same", "moved", "deleted"} THEN <<>> ELSE diffGit("", path, Whole("add"))
    ELSE (IF changeOf(tree, old).status \in {"modified", "deleted"}
            THEN diffGit(old, old, tree[old].edit) ELSE <<>>)
         \o CASE t.status = "renamed" ->
                    IF t.old = old THEN diffGit(old, path, t.edit) ELSE diffGit("", path, Whole("add"))
              [] t.status = "added" -> diffGit("", path, t.edit)
              [] t.status = "deleted" -> diffGit(path, "", t.edit)
              [] t.status = "modified" -> diffGit(path, path, t.edit)
              [] OTHER -> <<>>

filePatchScript(f) == gitDiff(f.path, f.old, f.status = "untracked")

(* Whole; its end, past the ceiling, which it says; or its beginning, when *)
(* the script was out of time or git failed, which nothing says.           *)
taskFilePatch ==
    /\ listing # None /\ patch = None
    /\ \E i \in DOMAIN listing.parsed.files :
          LET f == listing.parsed.files[i]
              whole == filePatchScript(f)
              broke == beginnings(whole, tornLine) \ {whole}
              cuts == IF listing.broken \/ listing.long THEN {} ELSE tails(whole) \cup broke
          IN
          /\ f.path # ""
          /\ \E out \in {whole} \cup cuts :
                LET p == parsePatch(out) IN
                patch' = [path |-> IF p.path = "" THEN f.path ELSE p.path, hunks |-> p.hunks,
                          of |-> f, moved |-> listing.moved, broke |-> out \in broke,
                          truncated |-> out \in tails(whole) \ {whole}]
    /\ UNCHANGED <<tree, script, listing>>

(* The panel is closed; opened again, it asks again. *)
Close == listing # None /\ listing' = None /\ patch' = None /\ UNCHANGED <<tree, script>>

-----------------------------------------------------------------------------
(* The agent. *)

Changes(paths, t) ==
    /\ \A p \in paths : tree[p] = Same
    /\ tree' = t
    /\ script' = IF script = None THEN None ELSE [script EXCEPT !.moved = TRUE]
    /\ listing' = IF listing = None THEN None ELSE [listing EXCEPT !.moved = TRUE]
    /\ UNCHANGED patch
As(status, old, edit) == [status |-> status, old |-> old, edit |-> edit]
simple == <<Hunk(5, 5, <<Line("add", "x")>>)>>

AgentWorks ==
    \/ \E e \in Edits : Changes({"a"}, [tree EXCEPT !["a"] = As("modified", "", e)])
    \/ Changes({"z"}, [tree EXCEPT !["z"] = As("modified", "", simple)])
    \/ Changes({"z"}, [tree EXCEPT !["z"] = As("deleted", "", Whole("del"))])
    \/ \E e \in {<<>>, simple} :
          Changes({"a", "n"}, [tree EXCEPT !["a"] = Moved, !["n"] = As("renamed", "a", e)])
    \/ \E s \in {"added", "untracked"} :
          Changes({"n"}, [tree EXCEPT !["n"] = As(s, "", Whole("add"))])

Init ==
    /\ tree = [p \in Paths |-> Same] /\ script = None /\ listing = None /\ patch = None

Events == AgentWorks
Steps ==
    \/ \E based \in BOOLEAN : diffSummaryScript(based)
    \/ Reads \/ taskDiff \/ taskFilePatch \/ Close

DiffTypes ==
    /\ DOMAIN tree = Paths /\ \A p \in Paths : tree[p].status \in Statuses \cup {"same", "moved"}
    /\ script = None \/ script.pc \in {"namestatus", "untracked", "done"}
    /\ listing = None \/ \A i \in DOMAIN listing.parsed.files :
          listing.parsed.files[i].status \in Statuses \cup {"unknown"}
    /\ patch = None \/ {patch.truncated, patch.broke} \subseteq BOOLEAN

-----------------------------------------------------------------------------
(* The list is the tree: two readings of git are zipped by position, the   *)
(* agent may have written between them, and either end of the output, or   *)
(* the end of any reading, may be missing.  A file that is tracked has its *)
(* own path, old path and counts, as they were when they were read, but    *)
(* for the one its reading broke off in; it has its own status or none if  *)
(* the tree was left alone, and a file that is not tracked is one, or cut. *)
(* A list without an error, of gits that all ended, is all there was, each *)
(* with its status, but for paths not tracked past 64 KiB of them.         *)
DiffIsTheTree ==
    listing # None =>
        LET files == listing.parsed.files seen == listing.seen
            others == {i \in DOMAIN files : files[i].status = "untracked"}
            named(l) == {e \in l : e[2] # "untracked"} IN
        /\ \A i \in DOMAIN files :
              LET f == files[i] IN
              \/ /\ i \in others
                 /\ \/ f.path = "cut" /\ (listing.long \/ listing.broken)
                    \/ f.path \in Paths /\ (listing.moved \/ seen[f.path].status = "untracked")
              \/ /\ listing.broken /\ f.path \in {"", "cut"}
                 /\ (i + 1)..Len(files) \subseteq others
              \/ /\ seen[f.path].status \in Statuses \ {"untracked"}
                 /\ f.n = counts(seen[f.path].edit) /\ f.old = seen[f.path].old
                 /\ ~listing.moved => f.status \in {seen[f.path].status, "unknown"}
        /\ ~listing.broken /\ ~listing.moved /\ ~listing.parsed.error =>
              LET all == {<<p, seen[p].status>> : p \in {q \in Paths : seen[q].status \in Statuses}}
                  shown == {<<files[i].path, files[i].status>> : i \in DOMAIN files} IN
              IF listing.long THEN named(shown) = named(all) ELSE shown = all

Numbered(h) ==
    LET at(i, other) == size(SubSeq(h.lines, 1, i - 1), {"context", "add", "del"} \ {other})
        all == [i \in DOMAIN h.lines |->
                  [kind |-> h.lines[i].kind, text |-> h.lines[i].text,
                   old |-> IF h.lines[i].kind = "add" THEN 0 ELSE h.old + at(i, "add"),
                   new |-> IF h.lines[i].kind = "del" THEN 0 ELSE h.new + at(i, "del")]]
    IN  SelectSeq(all, LAMBDA l : l.kind # "note")
trueEdit ==
    LET c == changeOf(tree, patch.of.path) IN [k \in DOMAIN c.edit |-> Numbered(c.edit[k])]

(* Of hunks, whole ones and then one whose last line may be torn or a header's. *)
BeginningOf(edit, hunks) ==
    LET n == Len(hunks) IN
    /\ n <= Len(edit) /\ \A k \in 1..(n - 1) : hunks[k] = edit[k]
    /\ n > 0 /\ hunks[n] # <<>> => Front(hunks[n]) \in {<<>>} \cup heads(edit[n])

(* The patch shown of a file is what was done to it, each line with its    *)
(* own number on either side; cut at the ceiling, it says so and still     *)
(* shows whole hunks of it; broken off, it is the beginning of it, but for *)
(* its last line.  If the tree was left alone since the list.              *)
PatchIsTheEdit ==
    patch # None /\ ~patch.moved =>
        CASE patch.truncated -> patch.hunks = <<>> \/ patch.hunks \in tails(trueEdit)
          [] patch.broke -> BeginningOf(trueEdit, patch.hunks)
          [] OTHER -> patch.hunks = trueEdit /\ patch.path = patch.of.path
=============================================================================
