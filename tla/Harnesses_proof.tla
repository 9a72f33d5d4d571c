--------------------------- MODULE Harnesses_proof ---------------------------
(***************************************************************************)
(* Proofs about the agent apps tasks run under (lib/agent-apps.ts,         *)
(* services/tasks.ts): the dialect of a session, the worker that carries   *)
(* its app, and, with the settings of the project (services/projects.ts),  *)
(* the models it is asked for.  An inductive invariant over the variables  *)
(* of Harnesses, kept by every one of its actions, and so by every step of *)
(* MCServer.                                                               *)
(***************************************************************************)
EXTENDS Workers_proof

-----------------------------------------------------------------------------
(* The agent apps: the dialect of a session, and whether its worker carries its app. *)

(* The shape of a row of `tasks`. *)
RowWith(x, state, carrier, command, dialect) ==
    [app |-> x.app, model |-> x.model, effort |-> x.effort, state |-> state, worker |-> carrier,
     command |-> command, dialect |-> dialect, asked |-> x.asked]
IsRow(x) == x = RowWith(x, x.state, x.worker, x.command, x.dialect)
(* The dialect of a task's sessions: what its row says, or its app's before agent apps. *)
Tongue(app, dialect) == IF dialect # "" THEN dialect ELSE Harness!legacyProtocol(app)
(* The sessions of a task, and the last of them. *)
Of(log, t) == {n \in DOMAIN log : log[n].t = t}
Last(log, t, n) == n \in Of(log, t) /\ \A m \in Of(log, t) : m <= n
(* An image carries an app, but for a task whose app was dropped under a job. *)
Fits(app, apps, excused) == app = "" \/ app \in apps \/ excused
Drops(x, apps) == x # Harness!None /\ x.app # "" /\ x.app \notin apps
RunsAsAsked(x) ==
    /\ x.asked # "" => x.app = x.asked
    /\ x.effort # "" => x.effort \in Takes[x.app][x.model]

(* Of a task t, its row x, the sessions launched, its job, the image of its worker and *)
(* whether it is excused: a queued task has no session yet, or those of a job that did *)
(* not record it, in the dialect the row would be read in; a task on a session is read *)
(* in the dialect of that session; one with a worker has its app in the image.          *)
Queueing == {"harness", "bundle", "prepare", "launch"}
TaskOK(t, x, log, job_, apps, excused) ==
    /\ IsRow(x) /\ x.worker \in BOOLEAN /\ x.command \in Nat
    /\ RunsAsAsked(x)
    /\ x.state = "queued" =>
          /\ x.command = 0
          /\ \A n \in Of(log, t) : log[n].dialect = Tongue(x.app, x.dialect)
          /\ job_ \in Queueing => Of(log, t) = {}
          /\ job_ \in {"launch", "record"} => x.dialect = Harness!protocol(x.app)
    /\ x.state \in {"running", "in-review"} => x.command # 0
    /\ x.command # 0 => /\ x.command \in Of(log, t)
                        /\ log[x.command].dialect = Tongue(x.app, x.dialect)
    /\ Of(log, t) # {} => x.worker /\ \E n \in Of(log, t) : Last(log, t, n)
    /\ x.worker => Fits(x.app, apps, excused)
    /\ job_ \in Harness!checked => x.worker
    /\ job_ = "record" => Of(log, t) # {}
NoTask(t, log, job_) == Of(log, t) = {} /\ job_ = "none"
(* Of a request y: its dialect is that of the session it was derived on; past the claim  *)
(* it is its task's only one, and the app is not dropped but for a task that is excused. *)
AnswerOK(y, x, log, claimed, apps, excused) ==
    /\ x # Harness!None /\ x.state # "queued"
    /\ y.command \in Of(log, y.t) /\ log[y.command].dialect = y.dialect
    /\ y.pc # "read" => y.t \in claimed /\ (~Drops(x, apps) \/ excused)
    /\ y.pc = "record" =>
          \E n \in Of(log, y.t) : Last(log, y.t, n) /\ log[n].dialect = Harness!protocol(x.app)

Session == [t : Delegations, dialect : Harness!Dialects, carried : BOOLEAN]
Asking ==
    [pc : {"read", "wake", "harness", "bundle", "launch", "record"}, kind : {"reply", "interrupt"},
     t : Delegations, dialect : Harness!Dialects, command : Nat]
HarnessTyped ==
    /\ launched \in Seq(Session) /\ tasks = [t \in Delegations |-> tasks[t]]
    /\ carries = [t \in Delegations |-> carries[t]] /\ run = [t \in Delegations |-> run[t]]
    /\ answer \in [Answers -> Asking \cup {Harness!NoAnswer}]
    /\ replying \subseteq Delegations /\ withdrawn \subseteq Delegations
Tasked ==
    \A t \in Delegations :
        IF tasks[t] = Harness!None THEN NoTask(t, launched, run[t])
        ELSE TaskOK(t, tasks[t], launched, run[t], carries[t], t \in withdrawn)
Requested ==
    \A r \in Answers : answer[r] # Harness!NoAnswer =>
        AnswerOK(answer[r], tasks[answer[r].t], launched, replying, Harness!Range(settings.apps),
                 answer[r].t \in withdrawn)
Claimed ==
    \A r, s \in Answers :
        /\ answer[r] # Harness!NoAnswer /\ answer[r].pc # "read"
        /\ answer[s] # Harness!NoAnswer /\ answer[s].pc # "read" /\ answer[s].t = answer[r].t
        => r = s
Carried == \A n \in DOMAIN launched : launched[n].carried
(* The inductive invariant of the agent apps. *)
HarnessInv == HarnessTyped /\ Tasked /\ Requested /\ Claimed /\ Carried /\ ~garbled

(* What the operators of Harnesses are in these terms. *)
LEMMA HarnessWords ==
    /\ \A x : x.command # 0 => Harness!protocolOf(x) = Tongue(x.app, x.dialect)
    /\ \A app : Tongue(app, Harness!protocol(app)) = Harness!protocol(app)
    /\ \A app : Harness!protocol(app) \in Harness!Dialects
    /\ \A t : Harness!sessions(t) = Of(launched, t)
    /\ \A t : Harness!fits(t) <=> Fits(tasks[t].app, carries[t], t \in withdrawn)
    /\ \A apps, t : Harness!drops(apps, t) <=> Drops(tasks[t], Harness!Range(apps))
    /\ \A t : Harness!taskAgentAppBlocker(t) <=> Drops(tasks[t], Harness!Range(settings.apps))
<1>1. \A x : x.command # 0 => Harness!protocolOf(x) = Tongue(x.app, x.dialect)
    BY Zenon DEF Harness!protocolOf, Tongue
<1>2. \A app : Tongue(app, Harness!protocol(app)) = Harness!protocol(app)
    BY Zenon DEF Tongue, Harness!protocol
<1>3. \A app : Harness!protocol(app) \in Harness!Dialects
    BY Zenon DEF Harness!protocol, Harness!Dialects
<1>4. \A t : Harness!sessions(t) = Of(launched, t)
    BY DEF Harness!sessions, Of
<1>5. \A t : Harness!fits(t) <=> Fits(tasks[t].app, carries[t], t \in withdrawn)
    BY Zenon DEF Harness!fits, Fits
<1>6. \A apps, t : Harness!drops(apps, t) <=> Drops(tasks[t], Harness!Range(apps))
    BY Zenon DEF Harness!drops, Harness!exists, Drops
<1>7. \A t : Harness!taskAgentAppBlocker(t) <=> Drops(tasks[t], Harness!Range(settings.apps))
    BY <1>6 DEF Harness!taskAgentAppBlocker, Harness!dropped
<1> QED
    BY <1>1, <1>2, <1>3, <1>4, <1>5, <1>6, <1>7, Zenon

(* Whether an app is dropped, or carried, depends on the row's app alone. *)
LEMMA Carrying ==
    /\ \A x, y, apps : x # Harness!None /\ x.app = y.app /\ Drops(y, apps) => Drops(x, apps)
    /\ \A x, apps, excused : x # Harness!None /\ ~Drops(x, apps) => Fits(x.app, apps, excused)
    /\ \A app, apps : Fits(app, apps, TRUE)
    /\ \A app, apps, before, after :
           Fits(app, apps, before) /\ (before => after) => Fits(app, apps, after)
<1>1. \A x, y, apps : x # Harness!None /\ x.app = y.app /\ Drops(y, apps) => Drops(x, apps)
    BY Zenon DEF Drops
<1>2. \A x, apps, excused : x # Harness!None /\ ~Drops(x, apps) => Fits(x.app, apps, excused)
    BY Zenon DEF Drops, Fits
<1>3. \A app, apps : Fits(app, apps, TRUE)
    BY Zenon DEF Fits
<1>4. \A app, apps, before, after :
          Fits(app, apps, before) /\ (before => after) => Fits(app, apps, after)
    BY Zenon DEF Fits
<1> QED
    BY <1>1, <1>2, <1>3, <1>4, Zenon

(* A row that is written to is a row, of the same app and of what was asked. *)
LEMMA RowsWritten ==
    \A x, s, w, c, d :
        /\ IsRow(RowWith(x, s, w, c, d)) /\ RowWith(x, s, w, c, d) # Harness!None
        /\ RowWith(x, s, w, c, d).app = x.app /\ RowWith(x, s, w, c, d).state = s
        /\ RowWith(x, s, w, c, d).worker = w /\ RowWith(x, s, w, c, d).command = c
        /\ RowWith(x, s, w, c, d).dialect = d
        /\ RunsAsAsked(x) => RunsAsAsked(RowWith(x, s, w, c, d))
<1> TAKE x, s, w, c, d
<1> DEFINE y == RowWith(x, s, w, c, d)
<1>1. /\ y.app = x.app /\ y.model = x.model /\ y.effort = x.effort /\ y.state = s
      /\ y.worker = w /\ y.command = c /\ y.dialect = d /\ y.asked = x.asked
    BY DEF RowWith
<1>2. IsRow(y)
    BY <1>1 DEF IsRow, RowWith
<1>3. y # Harness!None
    <2>1. "app" \in DOMAIN y
        BY DEF RowWith
    <2>2. "app" \notin DOMAIN Harness!None
        BY DEF Harness!None
    <2> QED
        BY <2>1, <2>2
<1> HIDE DEF y
<1>4. RunsAsAsked(x) => RunsAsAsked(y)
    BY <1>1, Zenon DEF RunsAsAsked
<1> QED
    BY <1>1, <1>2, <1>3, <1>4 DEF y

(* What is written to a row. *)
LEMMA RowsExcept ==
    ASSUME NEW x, IsRow(x)
    PROVE  /\ \A s : [x EXCEPT !.state = s] = RowWith(x, s, x.worker, x.command, x.dialect)
           /\ \A w : [x EXCEPT !.worker = w] = RowWith(x, x.state, w, x.command, x.dialect)
           /\ \A d : [x EXCEPT !.dialect = d] = RowWith(x, x.state, x.worker, x.command, d)
           /\ \A c, s : [x EXCEPT !.command = c, !.state = s]
                        = RowWith(x, s, x.worker, c, x.dialect)
           /\ \A c, d, s : [x EXCEPT !.command = c, !.dialect = d, !.state = s]
                           = RowWith(x, s, x.worker, c, d)
<1>1. DOMAIN x = {"app", "model", "effort", "state", "worker", "command", "dialect", "asked"}
    <2> DEFINE z == RowWith(x, x.state, x.worker, x.command, x.dialect)
    <2>1. DOMAIN z = {"app", "model", "effort", "state", "worker", "command", "dialect", "asked"}
        BY DEF RowWith
    <2> QED
        BY <2>1 DEF IsRow
<1>2. x = [k \in DOMAIN x |-> x[k]]
    <2> DEFINE z == RowWith(x, x.state, x.worker, x.command, x.dialect)
    <2>1. z = [k \in DOMAIN z |-> z[k]]
        BY DEF RowWith
    <2> QED
        BY <2>1 DEF IsRow
<1>3. ASSUME NEW s PROVE [x EXCEPT !.state = s] = RowWith(x, s, x.worker, x.command, x.dialect)
    BY <1>1, <1>2 DEF RowWith
<1>4. ASSUME NEW w PROVE [x EXCEPT !.worker = w] = RowWith(x, x.state, w, x.command, x.dialect)
    BY <1>1, <1>2 DEF RowWith
<1>5. ASSUME NEW d PROVE [x EXCEPT !.dialect = d] = RowWith(x, x.state, x.worker, x.command, d)
    BY <1>1, <1>2 DEF RowWith
<1>6. ASSUME NEW c, NEW s
      PROVE  [x EXCEPT !.command = c, !.state = s] = RowWith(x, s, x.worker, c, x.dialect)
    <2> DEFINE z == [x EXCEPT !.command = c, !.state = s]
    <2>1. DOMAIN z = DOMAIN x /\ z = [k \in DOMAIN z |-> z[k]]
        BY <1>2
    <2>2. /\ z.app = x.app /\ z.model = x.model /\ z.effort = x.effort /\ z.state = s
          /\ z.worker = x.worker /\ z.command = c /\ z.dialect = x.dialect /\ z.asked = x.asked
        BY <1>1
    <2> HIDE DEF z
    <2>3. z = RowWith(x, s, x.worker, c, x.dialect)
        BY <1>1, <2>1, <2>2 DEF RowWith
    <2> QED
        BY <2>3 DEF z
<1>7. ASSUME NEW c, NEW d, NEW s
      PROVE  [x EXCEPT !.command = c, !.dialect = d, !.state = s] = RowWith(x, s, x.worker, c, d)
    <2> DEFINE z == [x EXCEPT !.command = c, !.dialect = d, !.state = s]
    <2>1. DOMAIN z = DOMAIN x /\ z = [k \in DOMAIN z |-> z[k]]
        BY <1>2
    <2>2. /\ z.app = x.app /\ z.model = x.model /\ z.effort = x.effort /\ z.state = s
          /\ z.worker = x.worker /\ z.command = c /\ z.dialect = d /\ z.asked = x.asked
        BY <1>1
    <2> HIDE DEF z
    <2>3. z = RowWith(x, s, x.worker, c, d)
        BY <1>1, <2>1, <2>2 DEF RowWith
    <2> QED
        BY <2>3 DEF z
<1> QED
    BY <1>3, <1>4, <1>5, <1>6, <1>7

(* A session is launched: the others are what they were. *)
LEMMA LogGrows ==
    ASSUME NEW log, NEW new, NEW u, NEW n, n \notin DOMAIN log, Last(new, u, n),
           DOMAIN new = DOMAIN log \cup {n}, \A m \in DOMAIN log : new[m] = log[m]
    PROVE  /\ \A t : Of(log, t) \subseteq Of(new, t)
           /\ \A t : t # u => Of(new, t) = Of(log, t)
           /\ Of(new, u) = Of(log, u) \cup {n}
<1>1. new[n].t = u
    BY DEF Last, Of
<1> QED
    BY <1>1 DEF Of

(* The last session of a task is the one `latest' finds. *)
LEMMA LatestIs ==
    ASSUME launched \in Seq(Session), NEW t, NEW n, Last(launched, t, n)
    PROVE  Harness!latest(t) = n
<1>1. Harness!sessions(t) = Of(launched, t)
    BY HarnessWords
<1>2. Of(launched, t) \subseteq Nat
    BY DEF Of
<1>3. \A m : (m \in Of(launched, t) /\ \A k \in Of(launched, t) : k <= m) <=> m = n
    BY <1>2 DEF Last
<1> QED
    BY <1>1, <1>3 DEF Harness!latest

(* A task that becomes excused, or whose job ends or starts over, is as it was otherwise. *)
LEMMA Spared ==
    ASSUME NEW t, NEW x, NEW log, NEW job_, NEW apps, NEW before, NEW after,
           TaskOK(t, x, log, job_, apps, before), before => after
    PROVE  /\ TaskOK(t, x, log, job_, apps, after)
           /\ TaskOK(t, x, log, "none", apps, after) /\ TaskOK(t, x, log, "start", apps, after)
<1>1. x.worker => Fits(x.app, apps, after)
    <2>1. x.worker => Fits(x.app, apps, before)
        BY DEF TaskOK
    <2> QED
        BY <2>1, Zenon DEF Fits
<1>2. TaskOK(t, x, log, job_, apps, after)
    BY <1>1, Zenon DEF TaskOK
<1>3. /\ "none" \notin Queueing \cup {"launch", "record"} \cup Harness!checked
      /\ "start" \notin Queueing \cup {"launch", "record"} \cup Harness!checked
    BY DEF Queueing, Harness!checked
<1>4. TaskOK(t, x, log, "none", apps, after) /\ TaskOK(t, x, log, "start", apps, after)
    BY <1>2, <1>3 DEF TaskOK
<1> QED
    BY <1>2, <1>4

(* What a row's writer finds of a row that is written with what its job knows. *)
LEMMA Adopted ==
    ASSUME NEW t, NEW x, NEW log \in Seq(Session), NEW job_, NEW apps, NEW excused,
           TaskOK(t, x, log, job_, apps, excused), NEW n, Last(log, t, n),
           NEW d, log[n].dialect = Tongue(x.app, d)
    PROVE  /\ TaskOK(t, RowWith(x, "running", x.worker, n, d), log, job_, apps, excused)
           /\ TaskOK(t, RowWith(x, "running", x.worker, n, d), log, "none", apps, excused)
<1> DEFINE y == RowWith(x, "running", x.worker, n, d)
<1>0. PICK s, w : y = RowWith(x, s, w, n, d) /\ s = "running" /\ w = x.worker
    OBVIOUS
<1> HIDE DEF y
<1>1. /\ IsRow(y) /\ y.app = x.app /\ y.state = "running" /\ y.worker = x.worker
      /\ y.command = n /\ y.dialect = d
    BY <1>0, RowsWritten
<1>1a. RunsAsAsked(y)
    BY <1>0, RowsWritten DEF TaskOK
<1>2. n \in Of(log, t) /\ n \in Nat /\ n # 0
    BY DEF Last, Of
<1>3. TaskOK(t, y, log, job_, apps, excused)
    BY <1>1, <1>1a, <1>2 DEF TaskOK
<1>4. TaskOK(t, y, log, "none", apps, excused)
    BY <1>3, Spared
<1> QED
    BY <1>3, <1>4 DEF y

(* Initially there is no task, or one an older Lite left, of its app or of none. *)
LEMMA HarnessInit == Harness!Init => HarnessInv
<1> SUFFICES ASSUME Harness!Init PROVE HarnessInv
    OBVIOUS
<1>1. /\ run = [t \in Delegations |->
                   IF Harness!exists(t) /\ tasks[t].state = "queued" THEN "start" ELSE "none"]
      /\ answer = [r \in Answers |-> Harness!NoAnswer] /\ replying = {} /\ withdrawn = {}
      /\ garbled = FALSE
      /\ carries = [t \in Delegations |->
                       IF Harness!exists(t) THEN Harness!Range(Harness!Fresh.apps) ELSE {}]
    BY Zenon DEF Harness!Init
<1>2. Requested /\ Claimed /\ ~garbled
    BY <1>1 DEF Requested, Claimed
<1>3. /\ carries = [t \in Delegations |-> carries[t]] /\ run = [t \in Delegations |-> run[t]]
      /\ answer \in [Answers -> Asking \cup {Harness!NoAnswer}]
      /\ replying \subseteq Delegations /\ withdrawn \subseteq Delegations
    BY <1>1
<1>4. CASE tasks = [t \in Delegations |-> Harness!None] /\ launched = <<>>
    <2>1. launched \in Seq(Session) /\ DOMAIN launched = {}
        BY <1>4
    <2>2. Tasked
        BY <1>1, <1>4, <2>1 DEF Tasked, NoTask, Of, Harness!exists
    <2> QED
        BY <1>2, <1>3, <1>4, <2>1, <2>2 DEF HarnessInv, HarnessTyped, Carried
<1>5. ASSUME NEW t \in Delegations, NEW app, NEW state \in {"queued", "running"},
             Harness!legacyProtocol(app) \in Harness!Dialects,
             NEW x, x = Harness!Left(app, state), Fits(app, Harness!Range(Harness!Fresh.apps), FALSE),
             tasks = [other \in Delegations |-> IF other = t THEN x ELSE Harness!None],
             launched = <<[t |-> t, dialect |-> Harness!legacyProtocol(app), carried |-> TRUE]>>
      PROVE  HarnessInv
    <2> DEFINE d == Harness!legacyProtocol(app)
               e == [t |-> t, dialect |-> d, carried |-> TRUE]
    <2>1. d \in Harness!Dialects
        BY <1>5
    <2> HIDE DEF d
    <2>0. PICK no :
             /\ x = [app |-> app, model |-> no, effort |-> no, state |-> state, worker |-> TRUE,
                     command |-> IF state = "queued" THEN 0 ELSE 1, dialect |-> no, asked |-> no]
             /\ Tongue(app, no) = d
             /\ \A y : y.asked = no /\ y.effort = no => RunsAsAsked(y)
        <3>1. Tongue(app, "") = d /\ \A y : y.asked = "" /\ y.effort = "" => RunsAsAsked(y)
            BY Zenon DEF Tongue, RunsAsAsked, d
        <3> QED
            BY <1>5, <3>1, Zenon DEF Harness!Left
    <2>3. /\ x.app = app /\ x.state = state /\ x.worker = TRUE
          /\ x.command = IF state = "queued" THEN 0 ELSE 1
          /\ x.model = no /\ x.effort = no /\ x.dialect = no /\ x.asked = no
        BY <2>0
    <2>4. Tongue(app, x.dialect) = d /\ RunsAsAsked(x)
        BY <2>0, <2>3
    <2>2. IsRow(x) /\ x # Harness!None
        <3>1. x = RowWith(x, x.state, x.worker, x.command, x.dialect)
            BY <2>0, <2>3 DEF RowWith
        <3>2. RowWith(x, x.state, x.worker, x.command, x.dialect) # Harness!None
            BY RowsWritten
        <3> QED
            BY <3>1, <3>2 DEF IsRow
    <2>5. e \in Session
        BY <2>1 DEF Session
    <2>6. launched \in Seq(Session) /\ DOMAIN launched = {1} /\ launched[1] = e
        BY <1>5, <2>5 DEF d
    <2>7. \A u : Of(launched, u) = IF u = t THEN {1} ELSE {}
        BY <2>6 DEF Of
    <2>8. Last(launched, t, 1)
        BY <2>7 DEF Last
    <2>9. TaskOK(t, x, launched, run[t], carries[t], FALSE)
        <3>1. run[t] \in {"start", "none"} /\ carries[t] = Harness!Range(Harness!Fresh.apps)
            BY <1>1, <1>5, <2>2 DEF Harness!exists
        <3>2. Fits(x.app, carries[t], FALSE)
            BY <1>5, <2>3, <3>1
        <3>3. \A n \in Of(launched, t) : launched[n].dialect = Tongue(x.app, x.dialect)
            BY <2>3, <2>4, <2>6, <2>7 DEF d
        <3>4. Of(launched, t) # {} /\ 1 \in Of(launched, t) /\ run[t] \notin Queueing
              /\ run[t] \notin Harness!checked
            BY <2>7, <3>1 DEF Queueing, Harness!checked
        <3>5. /\ x.state = "queued" => x.command = 0
              /\ x.state # "queued" => x.state = "running" /\ x.command = 1
            BY <1>5, <2>3
        <3>6. x.worker \in BOOLEAN /\ x.command \in Nat /\ x.worker
            <4>1. x.worker = TRUE /\ x.command \in Nat
                BY <2>3
            <4> QED
                BY <4>1, Zenon
        <3>7. run[t] \notin {"launch", "record"}
            BY <3>1
        <3>8. x.command # 0 => /\ x.command \in Of(launched, t)
                               /\ launched[x.command].dialect = Tongue(x.app, x.dialect)
            BY <3>3, <3>4, <3>5
        <3>9. Of(launched, t) # {} => x.worker /\ \E n \in Of(launched, t) : Last(launched, t, n)
            BY <2>8, <3>4, <3>6
        <3>10. x.state \in {"running", "in-review"} => x.command # 0
            BY <3>5
        <3> QED
            BY <2>2, <2>4, <3>2, <3>3, <3>4, <3>5, <3>6, <3>7, <3>8, <3>9, <3>10, Zenon DEF TaskOK
    <2>10. ASSUME NEW u \in Delegations, u # t PROVE tasks[u] = Harness!None /\ run[u] = "none"
        BY <1>1, <1>5, <2>10 DEF Harness!exists
    <2>11. Tasked
        <3>1. ASSUME NEW u \in Delegations, u # t
              PROVE  tasks[u] = Harness!None /\ NoTask(u, launched, run[u])
            BY <2>7, <2>10, <3>1 DEF NoTask
        <3>2. tasks[t] = x /\ (t \in withdrawn) = FALSE
            BY <1>1, <1>5
        <3> QED
            BY <2>2, <2>9, <3>1, <3>2, Zenon DEF Tasked
    <2>12. Carried
        BY <2>6 DEF Carried
    <2> QED
        BY <1>2, <1>3, <1>5, <2>6, <2>11, <2>12 DEF HarnessInv, HarnessTyped
<1>6. /\ Harness!Fresh.apps[1] \in Apps
      /\ \A app \in {"", Harness!Fresh.apps[1]} :
             /\ Harness!legacyProtocol(app) \in Harness!Dialects
             /\ Fits(app, Harness!Range(Harness!Fresh.apps), FALSE)
    <2>1. PICK c, none : Harness!Fresh = [apps |-> <<c>>, models |-> none] /\ c \in Apps
        <3>1. PICK c : c = CHOOSE a \in Apps : TRUE
            OBVIOUS
        <3>2. c \in Apps
            BY <3>1, HarnessAssumption
        <3> QED
            BY <3>1, <3>2, Zenon DEF Harness!Fresh
    <2>2. Harness!Fresh.apps = <<c>>
        BY <2>1
    <2>3. Harness!Fresh.apps[1] = c /\ c \in Harness!Range(Harness!Fresh.apps)
        BY <2>2 DEF Harness!Range
    <2> QED
        BY <2>1, <2>3, Zenon DEF Harness!legacyProtocol, Harness!Dialects, Fits
<1>7. \/ tasks = [t \in Delegations |-> Harness!None] /\ launched = <<>>
      \/ \E t \in Delegations, app \in {"", Harness!Fresh.apps[1]},
            state \in {"queued", "running"} :
            /\ tasks = [other \in Delegations |->
                           IF other = t THEN Harness!Left(app, state) ELSE Harness!None]
            /\ launched = <<[t |-> t, dialect |-> Harness!legacyProtocol(app), carried |-> TRUE]>>
    BY Zenon DEF Harness!Init
<1> QED
    BY <1>4, <1>5, <1>6, <1>7, Zenon

(* What holds of the requests once no session is launched and no setting saved: the *)
(* claims are kept by who has them, and no request is made or claimed.               *)
LEMMA HarnessKept ==
    ASSUME HarnessInv, HarnessTyped', Tasked', UNCHANGED <<launched, settings>>,
           withdrawn \subseteq withdrawn', ~garbled',
           \A t \in Delegations : tasks[t] # Harness!None =>
               /\ tasks'[t] # Harness!None /\ tasks'[t].app = tasks[t].app
               /\ tasks[t].state # "queued" => tasks'[t].state # "queued",
           \A r \in Answers : answer'[r] # Harness!NoAnswer =>
               /\ answer[r] # Harness!NoAnswer /\ answer'[r].t = answer[r].t
               /\ answer'[r].command = answer[r].command
               /\ answer'[r].dialect = answer[r].dialect
               /\ answer'[r].pc # "read" => answer[r].pc # "read" /\ answer[r].t \in replying'
               /\ answer'[r].pc = "record" => answer[r].pc = "record"
    PROVE  HarnessInv'
<1> USE DEF HarnessInv
<1>1. Claimed'
    BY DEF Claimed
<1>2. Carried'
    BY DEF Carried
<1>3. ASSUME NEW r \in Answers, answer'[r] # Harness!NoAnswer
      PROVE  AnswerOK(answer'[r], tasks'[answer'[r].t], launched, replying',
                      Harness!Range(settings.apps), answer'[r].t \in withdrawn')
    <2> DEFINE t == answer[r].t
               x == tasks[t]
               y == tasks'[t]
    <2>1. answer[r] # Harness!NoAnswer /\ answer'[r].t = t /\ t \in Delegations
        BY <1>3 DEF HarnessTyped, Asking
    <2>2. AnswerOK(answer[r], x, launched, replying, Harness!Range(settings.apps), t \in withdrawn)
        BY <2>1 DEF Requested
    <2>3. x # Harness!None /\ y # Harness!None /\ y.app = x.app /\ y.state # "queued"
        BY <2>1, <2>2 DEF AnswerOK
    <2>4. ~Drops(x, Harness!Range(settings.apps)) => ~Drops(y, Harness!Range(settings.apps))
        BY <2>3, Carrying
    <2>5. t \in withdrawn => t \in withdrawn'
        OBVIOUS
    <2> HIDE DEF x, y
    <2>6. AnswerOK(answer'[r], y, launched, replying', Harness!Range(settings.apps),
                   t \in withdrawn')
        BY <1>3, <2>1, <2>2, <2>3, <2>4, <2>5 DEF AnswerOK
    <2> QED
        BY <2>1, <2>6 DEF y
<1>4. Requested'
    BY <1>3 DEF Requested
<1> QED
    BY <1>1, <1>2, <1>4

(* One task and its job move. *)
LEMMA OneTask ==
    ASSUME HarnessInv, NEW t \in Delegations, NEW x, NEW job_, NEW apps,
           tasks' = [tasks EXCEPT ![t] = x], run' = [run EXCEPT ![t] = job_],
           carries' = [carries EXCEPT ![t] = apps], UNCHANGED launched,
           withdrawn' \in {withdrawn, withdrawn \cup {t}},
           x # Harness!None, TaskOK(t, x, launched, job_, apps, t \in withdrawn'),
           tasks[t] # Harness!None => x.app = tasks[t].app
                                      /\ (tasks[t].state # "queued" => x.state # "queued")
    PROVE  /\ Tasked' /\ tasks' = [u \in Delegations |-> tasks'[u]]
           /\ run' = [u \in Delegations |-> run'[u]]
           /\ carries' = [u \in Delegations |-> carries'[u]]
           /\ withdrawn' \subseteq Delegations /\ withdrawn \subseteq withdrawn'
           /\ \A u \in Delegations : tasks[u] # Harness!None =>
                 /\ tasks'[u] # Harness!None /\ tasks'[u].app = tasks[u].app
                 /\ tasks[u].state # "queued" => tasks'[u].state # "queued"
<1> USE DEF HarnessInv, HarnessTyped
<1>1. /\ tasks' = [u \in Delegations |-> IF u = t THEN x ELSE tasks[u]]
      /\ run' = [u \in Delegations |-> IF u = t THEN job_ ELSE run[u]]
      /\ carries' = [u \in Delegations |-> IF u = t THEN apps ELSE carries[u]]
    OBVIOUS
<1>2. /\ tasks' = [u \in Delegations |-> tasks'[u]] /\ run' = [u \in Delegations |-> run'[u]]
      /\ carries' = [u \in Delegations |-> carries'[u]]
    BY <1>1
<1>3. ASSUME NEW u \in Delegations
      PROVE  IF tasks'[u] = Harness!None THEN NoTask(u, launched, run'[u])
             ELSE TaskOK(u, tasks'[u], launched, run'[u], carries'[u], u \in withdrawn')
    <2>1. CASE u = t
        BY <1>1, <2>1
    <2>2. CASE u # t
        <3>1. /\ tasks'[u] = tasks[u] /\ run'[u] = run[u] /\ carries'[u] = carries[u]
              /\ u \in withdrawn => u \in withdrawn'
            BY <1>1, <2>2
        <3>2. CASE tasks[u] = Harness!None
            BY <3>1, <3>2 DEF Tasked
        <3>3. CASE tasks[u] # Harness!None
            <4>1. TaskOK(u, tasks[u], launched, run[u], carries[u], u \in withdrawn)
                BY <3>3 DEF Tasked
            <4>2. TaskOK(u, tasks[u], launched, run[u], carries[u], u \in withdrawn')
                BY <3>1, <4>1, Spared
            <4> QED
                BY <3>1, <3>3, <4>2
        <3> QED
            BY <3>2, <3>3
    <2> QED
        BY <2>1, <2>2
<1>4. Tasked'
    BY <1>3 DEF Tasked
<1>5. \A u \in Delegations : tasks[u] # Harness!None =>
          /\ tasks'[u] # Harness!None /\ tasks'[u].app = tasks[u].app
          /\ tasks[u].state # "queued" => tasks'[u].state # "queued"
    BY <1>1
<1> QED
    BY <1>2, <1>4, <1>5

(* One task and its job move, and the requests do not, or are answered. *)
LEMMA OneTaskMoves ==
    ASSUME HarnessInv, NEW t \in Delegations, NEW x, NEW job_, NEW apps,
           tasks' = [tasks EXCEPT ![t] = x], run' = [run EXCEPT ![t] = job_],
           carries' = [carries EXCEPT ![t] = apps], UNCHANGED <<launched, settings>>, ~garbled',
           withdrawn' \in {withdrawn, withdrawn \cup {t}},
           x # Harness!None, TaskOK(t, x, launched, job_, apps, t \in withdrawn'),
           tasks[t] # Harness!None => x.app = tasks[t].app
                                      /\ (tasks[t].state # "queued" => x.state # "queued"),
           answer' \in [Answers -> Asking \cup {Harness!NoAnswer}], replying' \subseteq replying,
           \A r \in Answers : answer'[r] # Harness!NoAnswer =>
               /\ answer[r] # Harness!NoAnswer /\ answer'[r].t = answer[r].t
               /\ answer'[r].command = answer[r].command
               /\ answer'[r].dialect = answer[r].dialect
               /\ answer'[r].pc # "read" => answer[r].pc # "read" /\ answer[r].t \in replying'
               /\ answer'[r].pc = "record" => answer[r].pc = "record"
    PROVE  HarnessInv'
<1>1. /\ Tasked' /\ tasks' = [u \in Delegations |-> tasks'[u]]
      /\ run' = [u \in Delegations |-> run'[u]]
      /\ carries' = [u \in Delegations |-> carries'[u]]
      /\ withdrawn' \subseteq Delegations /\ withdrawn \subseteq withdrawn'
      /\ \A u \in Delegations : tasks[u] # Harness!None =>
            /\ tasks'[u] # Harness!None /\ tasks'[u].app = tasks[u].app
            /\ tasks[u].state # "queued" => tasks'[u].state # "queued"
    BY OneTask
<1>2. HarnessTyped'
    BY <1>1 DEF HarnessInv, HarnessTyped
<1> QED
    BY <1>1, <1>2, HarnessKept

(* The same, of the actions that leave requests alone. *)
LEMMA JobMoves ==
    ASSUME HarnessInv, NEW t \in Delegations, NEW x, NEW job_, NEW apps,
           tasks' = [tasks EXCEPT ![t] = x], run' = [run EXCEPT ![t] = job_],
           carries' = [carries EXCEPT ![t] = apps], UNCHANGED <<launched, settings>>, ~garbled',
           withdrawn' \in {withdrawn, withdrawn \cup {t}},
           x # Harness!None, TaskOK(t, x, launched, job_, apps, t \in withdrawn'),
           tasks[t] # Harness!None => x.app = tasks[t].app
                                      /\ (tasks[t].state # "queued" => x.state # "queued"),
           UNCHANGED <<answer, replying>>
    PROVE  HarnessInv'
<1>1. answer' \in [Answers -> Asking \cup {Harness!NoAnswer}] /\ replying' \subseteq replying
    BY DEF HarnessInv, HarnessTyped
<1>2. ASSUME NEW r \in Answers, answer'[r] # Harness!NoAnswer
      PROVE  /\ answer[r] # Harness!NoAnswer /\ answer'[r].t = answer[r].t
             /\ answer'[r].command = answer[r].command
             /\ answer'[r].dialect = answer[r].dialect
             /\ answer'[r].pc # "read" => answer[r].pc # "read" /\ answer[r].t \in replying'
             /\ answer'[r].pc = "record" => answer[r].pc = "record"
    BY <1>2 DEF HarnessInv, Requested, AnswerOK
<1> QED
    BY <1>1, <1>2, OneTaskMoves

(* What is left as it is, in these terms. *)
LEMMA SameTask ==
    ASSUME HarnessInv, NEW t \in Delegations
    PROVE  /\ tasks = [tasks EXCEPT ![t] = tasks[t]] /\ run = [run EXCEPT ![t] = run[t]]
           /\ carries = [carries EXCEPT ![t] = carries[t]]
           /\ tasks[t] # Harness!None =>
                 TaskOK(t, tasks[t], launched, run[t], carries[t], t \in withdrawn)
           /\ tasks[t] = Harness!None => run[t] = "none" /\ Of(launched, t) = {}
<1>1. tasks = [u \in Delegations |-> tasks[u]]
    BY DEF HarnessInv, HarnessTyped
<1>2. run = [u \in Delegations |-> run[u]]
    BY DEF HarnessInv, HarnessTyped
<1>3. carries = [u \in Delegations |-> carries[u]]
    BY DEF HarnessInv, HarnessTyped
<1>4. tasks = [tasks EXCEPT ![t] = tasks[t]]
    BY <1>1
<1>5. run = [run EXCEPT ![t] = run[t]]
    BY <1>2
<1>6. carries = [carries EXCEPT ![t] = carries[t]]
    BY <1>3
<1> QED
    BY <1>4, <1>5, <1>6 DEF HarnessInv, Tasked, NoTask

(* The steps of a run job that launch nothing. *)
LEMMA JobStep ==
    ASSUME HarnessInv, NEW t \in Delegations,
           Harness!runTask(t) \/ Harness!taskHarness(t) \/ Harness!Prepares(t) \/ Harness!Records(t)
    PROVE  HarnessInv'
<1> DEFINE x == tasks[t]
           Allowed == Harness!Range(settings.apps)
<1>1. /\ UNCHANGED <<settings, launched, answer, replying, withdrawn, garbled>>
      /\ run[t] # "none" /\ withdrawn' \in {withdrawn, withdrawn \cup {t}} /\ ~garbled'
    BY DEF Harness!runTask, Harness!taskHarness, Harness!Prepares, Harness!Records, HarnessInv
<1>2. x # Harness!None
    BY <1>1, SameTask
<1>3. /\ tasks = [tasks EXCEPT ![t] = x] /\ run = [run EXCEPT ![t] = run[t]]
      /\ carries = [carries EXCEPT ![t] = carries[t]]
      /\ TaskOK(t, x, launched, run[t], carries[t], t \in withdrawn)
    BY <1>2, SameTask
<1> HIDE DEF x
<1>4. ASSUME NEW y, NEW job_, NEW apps, tasks' = [tasks EXCEPT ![t] = y],
             run' = [run EXCEPT ![t] = job_], carries' = [carries EXCEPT ![t] = apps],
             y # Harness!None, y.app = x.app, x.state # "queued" => y.state # "queued",
             TaskOK(t, y, launched, job_, apps, t \in withdrawn')
      PROVE  HarnessInv'
    BY <1>1, <1>4, JobMoves, <1>2 DEF x
<1>5. ASSUME NEW job_, run' = [run EXCEPT ![t] = job_], UNCHANGED <<tasks, carries>>,
             TaskOK(t, x, launched, job_, carries[t], t \in withdrawn)
      PROVE  HarnessInv'
    <2>1. tasks' = [tasks EXCEPT ![t] = x] /\ carries' = [carries EXCEPT ![t] = carries[t]]
        BY <1>3, <1>5
    <2> QED
        BY <1>1, <1>2, <1>4, <1>5, <2>1
<1>6. TaskOK(t, x, launched, "none", carries[t], t \in withdrawn)
    BY <1>3, Spared
<1>7. /\ IsRow(x) /\ tasks[t] = x /\ tasks = [u \in Delegations |-> tasks[u]]
      /\ launched \in Seq(Session)
    BY <1>3 DEF TaskOK, x, HarnessInv, HarnessTyped
<1>7a. IsRow(x)
    BY <1>7
<1>8. CASE Harness!runTask(t)
    <2>1. run[t] = "start" /\ (Harness!taskAgentAppBlocker(t) <=> Drops(x, Allowed))
        BY <1>8, HarnessWords DEF Harness!runTask, x
    <2>2. CASE x.state # "queued"
        <3>1. run' = [run EXCEPT ![t] = "none"] /\ UNCHANGED <<tasks, carries>>
            BY <1>8, <2>2 DEF Harness!runTask, Harness!runGoes, x
        <3> QED
            BY <1>5, <1>6, <3>1
    <2>3. CASE x.state = "queued" /\ Harness!taskAgentAppBlocker(t)
        <3> DEFINE y == RowWith(x, "failed", x.worker, x.command, x.dialect)
        <3>1. run' = [run EXCEPT ![t] = "none"] /\ UNCHANGED carries
              /\ tasks' = [tasks EXCEPT ![t].state = "failed"]
            BY <1>8, <2>3 DEF Harness!runTask, Harness!fails, Harness!runGoes, x
        <3>2. tasks' = [tasks EXCEPT ![t] = y]
            BY <1>7, <3>1, RowsExcept
        <3>3. /\ IsRow(y) /\ y # Harness!None /\ y.app = x.app /\ y.state = "failed"
              /\ y.worker = x.worker /\ y.command = x.command /\ y.dialect = x.dialect
              /\ RunsAsAsked(x) => RunsAsAsked(y)
            BY RowsWritten
        <3> HIDE DEF y
        <3>4. TaskOK(t, y, launched, "none", carries[t], t \in withdrawn)
            BY <1>6, <3>3 DEF TaskOK
        <3>5. carries' = [carries EXCEPT ![t] = carries[t]]
            BY <1>3, <3>1
        <3> QED
            BY <1>1, <1>4, <3>1, <3>2, <3>3, <3>4, <3>5
    <2>4. CASE /\ x.state = "queued" /\ ~Harness!taskAgentAppBlocker(t)
               /\ Harness!sessions(t) # {}
        <3>1. PICK n : Last(launched, t, n)
            BY <1>3, <2>4, HarnessWords DEF TaskOK
        <3>2. Harness!latest(t) = n
            BY <1>7, <3>1, LatestIs
        <3> DEFINE y == RowWith(x, "running", x.worker, n, x.dialect)
        <3>3. run' = [run EXCEPT ![t] = "none"] /\ UNCHANGED carries
              /\ tasks' = [tasks EXCEPT ![t].command = n, ![t].state = "running"]
            BY <1>8, <2>4, <3>2 DEF Harness!runTask, Harness!runGoes, x
        <3>4. tasks' = [tasks EXCEPT ![t] = y]
            <4>1. tasks' = [tasks EXCEPT ![t] = [x EXCEPT !.command = n, !.state = "running"]]
                BY <1>7, <3>3
            <4>2. [x EXCEPT !.command = n, !.state = "running"] = y
                <5>1. \A c, s : [x EXCEPT !.command = c, !.state = s]
                              = RowWith(x, s, x.worker, c, x.dialect)
                    BY <1>7a, RowsExcept
                <5> QED
                    BY <5>1
            <4> QED
                BY <4>1, <4>2
        <3>5. y # Harness!None /\ y.app = x.app /\ y.state = "running"
            BY RowsWritten
        <3>6. launched[n].dialect = Tongue(x.app, x.dialect)
            BY <1>3, <2>4, <3>1 DEF TaskOK, Last
        <3>7. TaskOK(t, y, launched, "none", carries[t], t \in withdrawn)
            BY <1>3, <1>7, <3>1, <3>6, Adopted
        <3> HIDE DEF y
        <3>8. carries' = [carries EXCEPT ![t] = carries[t]]
            BY <1>3, <3>3
        <3> QED
            BY <1>1, <1>4, <3>3, <3>4, <3>5, <3>7, <3>8
    <2>5. CASE /\ x.state = "queued" /\ ~Harness!taskAgentAppBlocker(t)
               /\ Harness!sessions(t) = {}
        <3> DEFINE w == TRUE
                   y == RowWith(x, x.state, w, x.command, x.dialect)
        <3> HIDE DEF w
        <3>1. /\ run' = [run EXCEPT ![t] = "harness"]
              /\ tasks' = [tasks EXCEPT ![t].worker = w]
              /\ \E kept_ \in {tasks[t].worker, FALSE} :
                    carries' = IF kept_ THEN carries ELSE [carries EXCEPT ![t] = Harness!allowed]
            BY <1>8, <2>5 DEF Harness!runTask, Harness!runGoes, x, w
        <3>2. tasks' = [tasks EXCEPT ![t] = y]
            BY <1>7, <3>1, RowsExcept
        <3>3. /\ IsRow(y) /\ y # Harness!None /\ y.app = x.app /\ y.state = x.state
              /\ y.worker = w /\ y.command = x.command /\ y.dialect = x.dialect
              /\ RunsAsAsked(x) => RunsAsAsked(y)
            BY RowsWritten
        <3> HIDE DEF y
        <3>4. PICK apps : carries' = [carries EXCEPT ![t] = apps]
                          /\ Fits(x.app, apps, t \in withdrawn)
            <4>1. Fits(x.app, Allowed, t \in withdrawn)
                BY <1>2, <2>1, <2>5, Carrying
            <4>2. CASE x.worker /\ carries' = carries
                <5>1. Fits(x.app, carries[t], t \in withdrawn)
                    BY <1>3, <4>2 DEF TaskOK
                <5> QED
                    BY <1>3, <4>2, <5>1
            <4>3. CASE carries' = [carries EXCEPT ![t] = Allowed]
                BY <4>1, <4>3
            <4> QED
                BY <3>1, <4>2, <4>3 DEF Harness!allowed, x
        <3>5. Of(launched, t) = {}
            BY <2>5, HarnessWords
        <3>6. TaskOK(t, y, launched, "harness", apps, t \in withdrawn)
            <4>1. "harness" \notin {"launch", "record"}
                OBVIOUS
            <4>2. Fits(y.app, apps, t \in withdrawn)
                BY <3>3, <3>4
            <4>3. x.command = 0 /\ RunsAsAsked(x) /\ y.worker
                BY <1>3, <2>5, <3>3 DEF TaskOK, w
            <4>4. y.worker \in BOOLEAN
                BY <3>3, Zenon DEF w
            <4> QED
                BY <2>5, <3>3, <3>5, <4>1, <4>2, <4>3, <4>4 DEF TaskOK
        <3> QED
            BY <1>1, <1>4, <3>1, <3>2, <3>3, <3>4, <3>6
    <2> QED
        BY <2>2, <2>3, <2>4, <2>5
<1>9. CASE Harness!taskHarness(t)
    <2>1. run[t] = "harness" /\ UNCHANGED <<tasks, carries>>
        BY <1>9 DEF Harness!taskHarness
    <2>2. PICK job_ \in {"none", "bundle", "prepare"} : run' = [run EXCEPT ![t] = job_]
        BY <1>9 DEF Harness!taskHarness, Harness!runGoes
    <2>3. CASE job_ = "none"
        BY <1>5, <1>6, <2>1, <2>2, <2>3
    <2>4. CASE job_ \in {"bundle", "prepare"}
        <3>1. TaskOK(t, x, launched, job_, carries[t], t \in withdrawn)
            BY <1>3, <2>1, <2>4 DEF TaskOK, Queueing, Harness!checked
        <3> QED
            BY <1>5, <2>1, <2>2, <3>1
    <2> QED
        BY <2>3, <2>4
<1>10. CASE Harness!Prepares(t)
    <2>1. run[t] = "prepare" /\ run' = [run EXCEPT ![t] = "launch"] /\ UNCHANGED carries
          /\ tasks' = Harness!dialectWritten(t)
        BY <1>10 DEF Harness!Prepares, Harness!runGoes
    <2>2. CASE x.state # "queued"
        <3>1. tasks' = tasks
            BY <2>1, <2>2 DEF Harness!dialectWritten, x
        <3>2. TaskOK(t, x, launched, "launch", carries[t], t \in withdrawn)
            BY <1>3, <2>1, <2>2 DEF TaskOK, Queueing, Harness!checked
        <3> QED
            BY <1>5, <2>1, <3>1, <3>2
    <2>3. CASE x.state = "queued"
        <3> DEFINE d == Harness!protocol(x.app)
                   y == RowWith(x, x.state, x.worker, x.command, d)
        <3> HIDE DEF d
        <3>1. tasks' = [tasks EXCEPT ![t].dialect = d]
            BY <2>1, <2>3 DEF Harness!dialectWritten, x, d
        <3>2. tasks' = [tasks EXCEPT ![t] = y]
            <4>1. tasks' = [tasks EXCEPT ![t] = [x EXCEPT !.dialect = d]]
                BY <1>7, <3>1
            <4>2. [x EXCEPT !.dialect = d] = y
                BY <1>7a, RowsExcept
            <4> QED
                BY <4>1, <4>2
        <3>3. /\ IsRow(y) /\ y # Harness!None /\ y.app = x.app /\ y.state = x.state
              /\ y.worker = x.worker /\ y.command = x.command /\ y.dialect = d
              /\ RunsAsAsked(x) => RunsAsAsked(y)
            BY RowsWritten
        <3> HIDE DEF y
        <3>4. TaskOK(t, y, launched, "launch", carries[t], t \in withdrawn)
            BY <1>3, <2>1, <2>3, <3>3 DEF TaskOK, Queueing, Harness!checked, d
        <3>5. carries' = [carries EXCEPT ![t] = carries[t]]
            BY <1>3, <2>1
        <3> QED
            BY <1>1, <1>4, <2>1, <3>2, <3>3, <3>4, <3>5
    <2> QED
        BY <2>2, <2>3
<1>11. CASE Harness!Records(t)
    <2>1. run[t] = "record" /\ run' = [run EXCEPT ![t] = "none"] /\ UNCHANGED carries
        BY <1>11 DEF Harness!Records, Harness!runGoes
    <2>2. CASE x.state # "queued"
        <3>1. tasks' = tasks
            BY <1>11, <2>2 DEF Harness!Records, x
        <3> QED
            BY <1>5, <1>6, <2>1, <3>1
    <2>3. CASE x.state = "queued"
        <3>1. PICK n : Last(launched, t, n)
            BY <1>3, <2>1 DEF TaskOK
        <3>2. Harness!latest(t) = n
            BY <1>7, <3>1, LatestIs
        <3> DEFINE y == RowWith(x, "running", x.worker, n, x.dialect)
        <3>3. tasks' = [tasks EXCEPT ![t].command = n, ![t].state = "running"]
            BY <1>11, <2>3, <3>2 DEF Harness!Records, x
        <3>4. tasks' = [tasks EXCEPT ![t] = y]
            <4>1. tasks' = [tasks EXCEPT ![t] = [x EXCEPT !.command = n, !.state = "running"]]
                BY <1>7, <3>3
            <4>2. [x EXCEPT !.command = n, !.state = "running"] = y
                <5>1. \A c, s : [x EXCEPT !.command = c, !.state = s]
                              = RowWith(x, s, x.worker, c, x.dialect)
                    BY <1>7a, RowsExcept
                <5> QED
                    BY <5>1
            <4> QED
                BY <4>1, <4>2
        <3>5. y # Harness!None /\ y.app = x.app /\ y.state = "running"
            BY RowsWritten
        <3>6. launched[n].dialect = Tongue(x.app, x.dialect)
            BY <1>3, <2>3, <3>1 DEF TaskOK, Last
        <3>7. TaskOK(t, y, launched, "none", carries[t], t \in withdrawn)
            BY <1>3, <1>7, <3>1, <3>6, Adopted
        <3> HIDE DEF y
        <3>8. carries' = [carries EXCEPT ![t] = carries[t]]
            BY <1>3, <2>1
        <3> QED
            BY <1>1, <1>4, <2>1, <3>4, <3>5, <3>7, <3>8
    <2> QED
        BY <2>2, <2>3
<1> QED
    BY <1>8, <1>9, <1>10, <1>11

(* A task is delegated. *)
LEMMA TaskCreated ==
    ASSUME HarnessInv, NEW t \in Delegations, \E body \in Harness!Bodies : Harness!createTask(t, body)
    PROVE  HarnessInv'
<1>1. PICK body : Harness!createTask(t, body)
    OBVIOUS
<1> DEFINE app == Harness!resolveTaskAgentApp(body.app)
           model == Harness!modelOf(app, body)
<1>2a. \A y : y.asked = body.app /\ y.effort = body.effort /\ y.app = app /\ y.model = model
             => RunsAsAsked(y)
    <2>1. body.app # "" => app = body.app
        BY Zenon DEF Harness!resolveTaskAgentApp
    <2>2. body.effort # "" => body.effort \in Takes[app][model]
        BY <1>1, Zenon DEF Harness!createTask, Harness!resolveAgentOptions
    <2> QED
        BY <2>1, <2>2, Zenon DEF RunsAsAsked
<1>2. PICK no :
         tasks' = [tasks EXCEPT ![t] =
             [app |-> app, model |-> model, effort |-> body.effort, state |-> "queued",
              worker |-> FALSE, command |-> 0, dialect |-> no, asked |-> body.app]]
    <2>1. tasks' = [tasks EXCEPT ![t] =
               [app |-> app, model |-> model, effort |-> body.effort, state |-> "queued",
                worker |-> FALSE, command |-> 0, dialect |-> "", asked |-> body.app]]
        BY <1>1, Zenon DEF Harness!createTask
    <2> HIDE DEF app, model
    <2> QED
        BY <2>1, Zenon
<1> HIDE DEF app, model
<1>3. /\ UNCHANGED <<settings, launched, carries, answer, replying, withdrawn, garbled>>
      /\ tasks[t] = Harness!None /\ run' = [run EXCEPT ![t] = "start"]
    BY <1>1, Zenon DEF Harness!createTask
<1> DEFINE y == [app |-> app, model |-> model, effort |-> body.effort, state |-> "queued",
                 worker |-> FALSE, command |-> 0, dialect |-> no, asked |-> body.app]
<1>4. /\ y.app = app /\ y.model = model /\ y.effort = body.effort /\ y.state = "queued"
      /\ ~y.worker /\ y.worker \in BOOLEAN /\ y.command = 0 /\ y.dialect = no
      /\ y.asked = body.app
    OBVIOUS
<1>5. IsRow(y) /\ y # Harness!None
    <2>1. y = RowWith(y, y.state, y.worker, y.command, y.dialect)
        BY DEF RowWith
    <2> HIDE DEF y
    <2>2. RowWith(y, y.state, y.worker, y.command, y.dialect) # Harness!None
        BY RowsWritten
    <2> QED
        BY <2>1, <2>2 DEF IsRow
<1>6. tasks' = [tasks EXCEPT ![t] = y]
    BY <1>2
<1> HIDE DEF y
<1>7. RunsAsAsked(y)
    BY <1>2a, <1>4
<1>8. Of(launched, t) = {}
    BY <1>3, SameTask
<1>9. TaskOK(t, y, launched, "start", carries[t], t \in withdrawn)
    BY <1>4, <1>5, <1>7, <1>8 DEF TaskOK, Queueing, Harness!checked
<1>10. carries' = [carries EXCEPT ![t] = carries[t]]
    BY <1>3, SameTask
<1>11. ~garbled' /\ withdrawn' \in {withdrawn, withdrawn \cup {t}}
    BY <1>3 DEF HarnessInv
<1> QED
    BY <1>3, <1>5, <1>6, <1>9, <1>10, <1>11, JobMoves

(* A task's state is all that moves. *)
LEMMA StateMoves ==
    ASSUME HarnessInv, NEW t \in Delegations, tasks[t] # Harness!None, NEW s,
           s \in {"in-review", "running"} => tasks[t].command # 0, s # "queued",
           tasks' = [tasks EXCEPT ![t].state = s], UNCHANGED <<run, carries>>
    PROVE  \E y : /\ tasks' = [tasks EXCEPT ![t] = y] /\ run' = [run EXCEPT ![t] = run[t]]
                  /\ carries' = [carries EXCEPT ![t] = carries[t]]
                  /\ y # Harness!None /\ y.app = tasks[t].app /\ y.state # "queued"
                  /\ TaskOK(t, y, launched, run[t], carries[t], t \in withdrawn)
<1> DEFINE x == tasks[t]
           y == RowWith(x, s, x.worker, x.command, x.dialect)
<1>1. TaskOK(t, x, launched, run[t], carries[t], t \in withdrawn)
    BY SameTask
<1>2. IsRow(x) /\ tasks = [u \in Delegations |-> tasks[u]]
    BY <1>1 DEF TaskOK, HarnessInv, HarnessTyped
<1>3. tasks' = [tasks EXCEPT ![t] = [x EXCEPT !.state = s]]
    BY <1>2
<1>4. x = tasks[t]
    OBVIOUS
<1> HIDE DEF x
<1>5. [x EXCEPT !.state = s] = y
    <2>1. IsRow(x)
        BY <1>2
    <2> QED
        BY <2>1, RowsExcept
<1>6. /\ IsRow(y) /\ y # Harness!None /\ y.app = x.app /\ y.state = s
      /\ y.worker = x.worker /\ y.command = x.command /\ y.dialect = x.dialect
      /\ RunsAsAsked(x) => RunsAsAsked(y)
    BY RowsWritten
<1> HIDE DEF y
<1>7. TaskOK(t, y, launched, run[t], carries[t], t \in withdrawn)
    BY <1>1, <1>4, <1>6 DEF TaskOK
<1>8. run' = [run EXCEPT ![t] = run[t]] /\ carries' = [carries EXCEPT ![t] = carries[t]]
    BY SameTask
<1> QED
    BY <1>3, <1>4, <1>5, <1>6, <1>7, <1>8

(* The session a task is on is spoken to in its dialect. *)
LEMMA SpokenWell ==
    ASSUME HarnessInv, NEW t \in Delegations, tasks[t] # Harness!None, NEW d, NEW since,
           tasks[t].command = since => launched[tasks[t].command].dialect = d,
           Harness!Spoken(tasks[t].command, d, since)
    PROVE  ~garbled'
    BY DEF Harness!Spoken, HarnessInv

(* A running task is handed back; a task is closed; a worker is rebuilt. *)
LEMMA PeopleMove ==
    ASSUME HarnessInv, NEW t \in Delegations,
           Harness!HandsBack(t) \/ Harness!Closes(t) \/ Harness!rebuildWorker(t)
    PROVE  HarnessInv'
<1> DEFINE x == tasks[t]
<1>1. x # Harness!None /\ UNCHANGED <<settings, launched, run, answer, replying>>
    BY DEF Harness!HandsBack, Harness!Closes, Harness!rebuildWorker, Harness!exists
<1>2. TaskOK(t, x, launched, run[t], carries[t], t \in withdrawn)
    BY <1>1, SameTask
<1>3. CASE Harness!HandsBack(t)
    <2>1. x.state = "running" /\ tasks' = [tasks EXCEPT ![t].state = "in-review"]
          /\ Harness!Spoken(x.command, Harness!protocolOf(x), x.command)
          /\ UNCHANGED <<carries, withdrawn>>
        BY <1>3 DEF Harness!HandsBack
    <2>2. x.command # 0 /\ launched[x.command].dialect = Tongue(x.app, x.dialect)
        BY <1>2, <2>1 DEF TaskOK
    <2>3. Harness!protocolOf(x) = Tongue(x.app, x.dialect)
        BY <2>2, HarnessWords
    <2>4. ~garbled'
        BY <1>1, <2>1, <2>2, <2>3, SpokenWell
    <2>5. PICK y : /\ tasks' = [tasks EXCEPT ![t] = y] /\ run' = [run EXCEPT ![t] = run[t]]
                   /\ carries' = [carries EXCEPT ![t] = carries[t]]
                   /\ y # Harness!None /\ y.app = tasks[t].app /\ y.state # "queued"
                   /\ TaskOK(t, y, launched, run[t], carries[t], t \in withdrawn)
        BY <1>1, <2>1, <2>2, StateMoves
    <2>6. TaskOK(t, y, launched, run[t], carries[t], t \in withdrawn')
        BY <2>1, <2>5, Spared
    <2>7. withdrawn' \in {withdrawn, withdrawn \cup {t}}
        BY <2>1
    <2> QED
        BY <1>1, <2>4, <2>5, <2>6, <2>7, JobMoves
<1>4. CASE Harness!Closes(t)
    <2>1. tasks' = [tasks EXCEPT ![t].state = "done"] /\ UNCHANGED <<carries, withdrawn, garbled>>
        BY <1>4 DEF Harness!Closes
    <2>2. ~garbled'
        BY <2>1 DEF HarnessInv
    <2>3. PICK y : /\ tasks' = [tasks EXCEPT ![t] = y] /\ run' = [run EXCEPT ![t] = run[t]]
                   /\ carries' = [carries EXCEPT ![t] = carries[t]]
                   /\ y # Harness!None /\ y.app = tasks[t].app /\ y.state # "queued"
                   /\ TaskOK(t, y, launched, run[t], carries[t], t \in withdrawn)
        BY <1>1, <2>1, StateMoves
    <2>4. TaskOK(t, y, launched, run[t], carries[t], t \in withdrawn')
        BY <2>1, <2>3, Spared
    <2>5. withdrawn' \in {withdrawn, withdrawn \cup {t}}
        BY <2>1
    <2> QED
        BY <1>1, <2>2, <2>3, <2>4, <2>5, JobMoves
<1>5. CASE Harness!rebuildWorker(t)
    <2> DEFINE apps == Harness!Range(settings.apps)
    <2>1. /\ carries' = [carries EXCEPT ![t] = apps] /\ UNCHANGED <<tasks, garbled>>
          /\ withdrawn' = IF Harness!dropped(t) THEN withdrawn \cup {t} ELSE withdrawn
        BY <1>5 DEF Harness!rebuildWorker, Harness!allowed
    <2>2. Harness!dropped(t) <=> Drops(x, apps)
        BY HarnessWords DEF Harness!dropped
    <2>3. Fits(x.app, apps, t \in withdrawn')
        <3>1. CASE Drops(x, apps)
            <4>1. t \in withdrawn'
                BY <2>1, <2>2, <3>1
            <4> QED
                BY <4>1, Zenon DEF Fits
        <3>2. CASE ~Drops(x, apps)
            BY <1>1, <3>2, Carrying
        <3> QED
            BY <3>1, <3>2
    <2> HIDE DEF x, apps
    <2>4. TaskOK(t, x, launched, run[t], apps, t \in withdrawn')
        BY <1>2, <2>3, Zenon DEF TaskOK
    <2>5. tasks' = [tasks EXCEPT ![t] = x] /\ run' = [run EXCEPT ![t] = run[t]]
        BY <1>1, <2>1, SameTask DEF x
    <2>6. ~garbled' /\ withdrawn' \in {withdrawn, withdrawn \cup {t}}
        BY <2>1 DEF HarnessInv
    <2> QED
        BY <1>1, <2>1, <2>4, <2>5, <2>6, JobMoves DEF x
<1> QED
    BY <1>3, <1>4, <1>5

(* A request under way is one, of a task there is; what it knows of it. *)
LEMMA RequestIs ==
    ASSUME HarnessInv, NEW r \in Answers, answer[r] # Harness!NoAnswer
    PROVE  /\ answer[r] \in Asking /\ answer[r].t \in Delegations
           /\ AnswerOK(answer[r], tasks[answer[r].t], launched, replying,
                       Harness!Range(settings.apps), answer[r].t \in withdrawn)
           /\ tasks[answer[r].t] # Harness!None
           /\ TaskOK(answer[r].t, tasks[answer[r].t], launched, run[answer[r].t],
                     carries[answer[r].t], answer[r].t \in withdrawn)
<1>1. answer[r] \in Asking /\ answer[r].t \in Delegations
    BY DEF HarnessInv, HarnessTyped, Asking
<1>2. AnswerOK(answer[r], tasks[answer[r].t], launched, replying,
               Harness!Range(settings.apps), answer[r].t \in withdrawn)
    BY DEF HarnessInv, Requested
<1>3. tasks[answer[r].t] # Harness!None
    BY <1>2 DEF AnswerOK
<1> QED
    BY <1>1, <1>2, <1>3, SameTask

(* A request is answered, or moves on to a step that reads nothing of its session; its *)
(* task's claim is released only with it.                                               *)
LEMMA AnswerMoves ==
    ASSUME HarnessInv, NEW r \in Answers, answer[r] # Harness!NoAnswer, NEW z,
           answer' = [answer EXCEPT ![r] = z],
           \/ z = Harness!NoAnswer /\ replying' \in {replying, replying \ {answer[r].t}}
              /\ (answer[r].pc = "read" => replying' = replying)
           \/ z \in Asking /\ z.t = answer[r].t /\ z.command = answer[r].command
              /\ z.dialect = answer[r].dialect /\ z.pc # "record" /\ answer[r].pc # "read"
              /\ replying' = replying
    PROVE  /\ answer' \in [Answers -> Asking \cup {Harness!NoAnswer}] /\ replying' \subseteq replying
           /\ \A s \in Answers : answer'[s] # Harness!NoAnswer =>
                 /\ answer[s] # Harness!NoAnswer /\ answer'[s].t = answer[s].t
                 /\ answer'[s].command = answer[s].command
                 /\ answer'[s].dialect = answer[s].dialect
                 /\ answer'[s].pc # "read" => answer[s].pc # "read" /\ answer[s].t \in replying'
                 /\ answer'[s].pc = "record" => answer[s].pc = "record"
<1>1. /\ answer \in [Answers -> Asking \cup {Harness!NoAnswer}]
      /\ z \in Asking \cup {Harness!NoAnswer}
    BY DEF HarnessInv, HarnessTyped
<1>2. /\ answer' \in [Answers -> Asking \cup {Harness!NoAnswer}]
      /\ \A s \in Answers : answer'[s] = IF s = r THEN z ELSE answer[s]
    BY <1>1
<1>3. replying' \subseteq replying
    OBVIOUS
<1>4. \A s \in Answers : answer[s] # Harness!NoAnswer /\ answer[s].pc # "read" =>
          answer[s].t \in replying
    BY RequestIs DEF AnswerOK
<1>5. ASSUME NEW s \in Answers, answer'[s] # Harness!NoAnswer
      PROVE  /\ answer[s] # Harness!NoAnswer /\ answer'[s].t = answer[s].t
             /\ answer'[s].command = answer[s].command
             /\ answer'[s].dialect = answer[s].dialect
             /\ answer'[s].pc # "read" => answer[s].pc # "read" /\ answer[s].t \in replying'
             /\ answer'[s].pc = "record" => answer[s].pc = "record"
    <2>1. CASE s = r
        BY <1>2, <1>4, <1>5, <2>1
    <2>2. CASE s # r
        <3>1. answer'[s] = answer[s] /\ answer[s] # Harness!NoAnswer
            BY <1>2, <1>5, <2>2
        <3>2. ASSUME answer[s].pc # "read" PROVE answer[s].t \in replying'
            <4>1. answer[s].t \in replying
                BY <1>4, <3>1, <3>2
            <4>2. answer[r].pc # "read" => answer[s].t # answer[r].t
                BY <2>2, <3>1, <3>2 DEF HarnessInv, Claimed
            <4> QED
                BY <4>1, <4>2
        <3> QED
            BY <3>1, <3>2
    <2> QED
        BY <2>1, <2>2
<1> QED
    BY <1>2, <1>3, <1>5

(* The steps of a request after its task's row was read, but for the claim and the launch. *)
LEMMA RequestStep ==
    ASSUME HarnessInv, NEW r \in Answers,
           \/ Harness!writeTaskStdin(r) \/ Harness!Refuses(r) \/ Harness!Wakes(r)
           \/ Harness!resumes(r) \/ Harness!Followed(r)
    PROVE  HarnessInv'
<1> DEFINE a == answer[r]
           t == a.t
           x == tasks[t]
           Allowed == Harness!Range(settings.apps)
<1>1. a # Harness!NoAnswer /\ UNCHANGED <<settings, launched, run, withdrawn>>
    BY DEF Harness!writeTaskStdin, Harness!Refuses, Harness!Wakes, Harness!resumes, Harness!Followed
<1>2. /\ a \in Asking /\ t \in Delegations /\ x # Harness!None
      /\ AnswerOK(a, x, launched, replying, Allowed, t \in withdrawn)
      /\ TaskOK(t, x, launched, run[t], carries[t], t \in withdrawn)
    BY <1>1, RequestIs
<1>3. /\ tasks = [tasks EXCEPT ![t] = x] /\ run' = [run EXCEPT ![t] = run[t]]
      /\ carries = [carries EXCEPT ![t] = carries[t]]
    BY <1>1, <1>2, SameTask
<1>4. withdrawn' \in {withdrawn, withdrawn \cup {t}}
    BY <1>1
<1>5. a = answer[r] /\ t = a.t /\ x = tasks[t] /\ Allowed = Harness!Range(settings.apps)
      /\ launched \in Seq(Session)
    BY DEF HarnessInv, HarnessTyped
<1> HIDE DEF a, t, x, Allowed
<1>6. ASSUME NEW y, NEW apps, NEW z, tasks' = [tasks EXCEPT ![t] = y],
             carries' = [carries EXCEPT ![t] = apps], answer' = [answer EXCEPT ![r] = z],
             y # Harness!None, y.app = x.app, y.state # "queued", ~garbled',
             TaskOK(t, y, launched, run[t], apps, t \in withdrawn),
             \/ z = Harness!NoAnswer /\ replying' \in {replying, replying \ {t}}
                /\ (a.pc = "read" => replying' = replying)
             \/ z \in Asking /\ z.t = t /\ z.command = a.command /\ z.dialect = a.dialect
                /\ z.pc # "record" /\ a.pc # "read" /\ replying' = replying
      PROVE  HarnessInv'
    <2>1. /\ answer' \in [Answers -> Asking \cup {Harness!NoAnswer}]
          /\ replying' \subseteq replying
          /\ \A s \in Answers : answer'[s] # Harness!NoAnswer =>
                /\ answer[s] # Harness!NoAnswer /\ answer'[s].t = answer[s].t
                /\ answer'[s].command = answer[s].command
                /\ answer'[s].dialect = answer[s].dialect
                /\ answer'[s].pc # "read" => answer[s].pc # "read" /\ answer[s].t \in replying'
                /\ answer'[s].pc = "record" => answer[s].pc = "record"
        BY <1>1, <1>5, <1>6, AnswerMoves
    <2>2. TaskOK(t, y, launched, run[t], apps, t \in withdrawn')
        BY <1>1, <1>6, Spared
    <2>3. UNCHANGED <<launched, settings>> /\ y.app = tasks[t].app
        BY <1>1, <1>5, <1>6
    <2> QED
        BY <1>2, <1>3, <1>4, <1>6, <2>1, <2>2, <2>3, OneTaskMoves
<1>7. /\ x.state # "queued" /\ a.command \in Of(launched, t) /\ launched[a.command].dialect = a.dialect
      /\ a.pc # "read" => t \in replying /\ (~Drops(x, Allowed) \/ t \in withdrawn)
      /\ a.pc = "record" =>
            \E n \in Of(launched, t) : Last(launched, t, n)
                                       /\ launched[n].dialect = Harness!protocol(x.app)
    BY <1>2, <1>5 DEF AnswerOK
<1>8. ASSUME Harness!Spoken(x.command, a.dialect, a.command) PROVE ~garbled'
    BY <1>2, <1>5, <1>7, <1>8, SpokenWell
<1>9. UNCHANGED garbled => ~garbled'
    BY DEF HarnessInv
<1>10. CASE Harness!writeTaskStdin(r)
    <2>1. /\ a.pc = "read" /\ answer' = [answer EXCEPT ![r] = Harness!NoAnswer]
          /\ UNCHANGED <<carries, replying>>
          /\ Harness!Spoken(x.command, a.dialect, a.command)
          /\ x.state \in {"running", "in-review"}
          /\ tasks' = IF a.kind = "reply" THEN [tasks EXCEPT ![t].state = "running"] ELSE tasks
        BY <1>10, <1>5 DEF Harness!writeTaskStdin, Harness!Answered
    <2>2. carries' = [carries EXCEPT ![t] = carries[t]] /\ ~garbled'
        BY <1>3, <1>8, <2>1
    <2>3. CASE tasks' = tasks
        BY <1>2, <1>3, <1>6, <1>7, <2>1, <2>2, <2>3
    <2>4. CASE tasks' = [tasks EXCEPT ![t].state = "running"]
        <3>1. x.command # 0
            BY <1>2, <2>1 DEF TaskOK
        <3>2. PICK y : /\ tasks' = [tasks EXCEPT ![t] = y]
                       /\ y # Harness!None /\ y.app = tasks[t].app /\ y.state # "queued"
                       /\ TaskOK(t, y, launched, run[t], carries[t], t \in withdrawn)
            BY <1>1, <1>2, <1>5, <2>1, <2>4, <3>1, StateMoves
        <3> QED
            BY <1>5, <1>6, <2>1, <2>2, <3>2
    <2> QED
        BY <2>1, <2>3, <2>4
<1>11. CASE Harness!Refuses(r)
    <2>1. /\ a.pc = "read" /\ answer' = [answer EXCEPT ![r] = Harness!NoAnswer]
          /\ UNCHANGED <<tasks, carries, replying, garbled>>
        BY <1>11, <1>5 DEF Harness!Refuses, Harness!Answered
    <2>2. /\ tasks' = [tasks EXCEPT ![t] = x] /\ carries' = [carries EXCEPT ![t] = carries[t]]
          /\ ~garbled'
        BY <1>3, <1>9, <2>1
    <2> QED
        BY <1>2, <1>6, <1>7, <2>1, <2>2
<1>12. CASE Harness!Wakes(r)
    <2>1. a.pc = "wake" /\ UNCHANGED tasks
        BY <1>12, <1>5 DEF Harness!Wakes
    <2>2. tasks' = [tasks EXCEPT ![t] = x]
        BY <1>3, <2>1
    <2>3. CASE x.state # "in-review"
        <3>1. /\ answer' = [answer EXCEPT ![r] = Harness!NoAnswer]
              /\ replying' = replying \ {t} /\ UNCHANGED <<carries, garbled>>
            BY <1>12, <1>5, <2>3 DEF Harness!Wakes, Harness!Answered
        <3>2. carries' = [carries EXCEPT ![t] = carries[t]] /\ ~garbled'
            BY <1>3, <1>9, <3>1
        <3> QED
            BY <1>2, <1>6, <1>7, <2>1, <2>2, <3>1, <3>2
    <2>4. CASE x.state = "in-review"
        <3> DEFINE z == [a EXCEPT !.pc = "harness"]
        <3>1. /\ answer' = [answer EXCEPT ![r].pc = "harness"] /\ UNCHANGED replying
              /\ Harness!Spoken(x.command, a.dialect, a.command)
              /\ \E gone \in BOOLEAN :
                    carries' = IF gone THEN [carries EXCEPT ![t] = Allowed] ELSE carries
            BY <1>12, <1>5, <2>4 DEF Harness!Wakes, Harness!answerGoes, Harness!allowed
        <3>2. answer' = [answer EXCEPT ![r] = z]
            BY <1>5, <3>1 DEF HarnessInv, HarnessTyped
        <3>3. /\ z \in Asking /\ z.t = t /\ z.command = a.command /\ z.dialect = a.dialect
              /\ z.pc # "record"
            BY <1>2, <1>5 DEF Asking
        <3> HIDE DEF z
        <3>4. ~garbled'
            BY <1>8, <3>1
        <3>5. Fits(x.app, Allowed, t \in withdrawn)
            <4>1. CASE t \in withdrawn
                BY <4>1, Zenon DEF Fits
            <4>2. CASE ~Drops(x, Allowed)
                BY <1>2, <4>2, Carrying
            <4> QED
                BY <1>7, <2>1, <4>1, <4>2
        <3>6. PICK apps : carries' = [carries EXCEPT ![t] = apps]
                          /\ TaskOK(t, x, launched, run[t], apps, t \in withdrawn)
            <4>1. TaskOK(t, x, launched, run[t], Allowed, t \in withdrawn)
                BY <1>2, <3>5, Zenon DEF TaskOK
            <4> QED
                BY <1>2, <1>3, <3>1, <4>1
        <3> QED
            BY <1>2, <1>6, <1>7, <2>1, <2>2, <3>1, <3>2, <3>3, <3>4, <3>6
    <2> QED
        BY <2>3, <2>4
<1>13. CASE Harness!resumes(r)
    <2>1. a.pc = "harness" /\ UNCHANGED <<tasks, carries, replying, garbled>>
        BY <1>13, <1>5 DEF Harness!resumes
    <2>2. PICK pc \in {"bundle", "launch"} : answer' = [answer EXCEPT ![r].pc = pc]
        BY <1>13 DEF Harness!resumes, Harness!answerGoes
    <2> DEFINE z == [a EXCEPT !.pc = pc]
    <2>3. answer' = [answer EXCEPT ![r] = z]
        BY <1>5, <2>2 DEF HarnessInv, HarnessTyped
    <2>4. /\ z \in Asking /\ z.t = t /\ z.command = a.command /\ z.dialect = a.dialect
          /\ z.pc # "record"
        BY <1>2, <1>5 DEF Asking
    <2> HIDE DEF z
    <2>5. /\ tasks' = [tasks EXCEPT ![t] = x] /\ carries' = [carries EXCEPT ![t] = carries[t]]
          /\ ~garbled'
        BY <1>3, <1>9, <2>1
    <2> QED
        BY <1>2, <1>6, <1>7, <2>1, <2>3, <2>4, <2>5
<1>14. CASE Harness!Followed(r)
    <2>1. /\ a.pc = "record" /\ answer' = [answer EXCEPT ![r] = Harness!NoAnswer]
          /\ replying' = replying \ {t} /\ UNCHANGED <<carries, garbled>>
        BY <1>14, <1>5 DEF Harness!Followed, Harness!Answered
    <2>2. carries' = [carries EXCEPT ![t] = carries[t]] /\ ~garbled'
        BY <1>3, <1>9, <2>1
    <2>3. CASE x.state # "in-review"
        <3>1. tasks' = [tasks EXCEPT ![t] = x]
            BY <1>14, <1>3, <1>5, <2>3 DEF Harness!Followed
        <3> QED
            BY <1>2, <1>6, <1>7, <2>1, <2>2, <3>1
    <2>4. CASE x.state = "in-review"
        <3> DEFINE d == Harness!protocol(x.app)
        <3>1. PICK n : Last(launched, t, n) /\ launched[n].dialect = d
            BY <1>7, <2>1
        <3> HIDE DEF d
        <3> DEFINE y == RowWith(x, "running", x.worker, n, d)
        <3>2. Harness!latest(t) = n
            BY <1>5, <3>1, LatestIs
        <3>3. tasks' = [tasks EXCEPT ![t].command = n, ![t].dialect = d, ![t].state = "running"]
            BY <1>14, <1>5, <2>4, <3>2 DEF Harness!Followed, d
        <3>4. tasks' = [tasks EXCEPT ![t] = y]
            <4>1. tasks' = [tasks EXCEPT
                     ![t] = [x EXCEPT !.command = n, !.dialect = d, !.state = "running"]]
                BY <1>2, <1>5, <3>3 DEF HarnessInv, HarnessTyped
            <4>2. [x EXCEPT !.command = n, !.dialect = d, !.state = "running"] = y
                <5>1. IsRow(x)
                    BY <1>2 DEF TaskOK
                <5>2. \A c, e, s : [x EXCEPT !.command = c, !.dialect = e, !.state = s]
                                 = RowWith(x, s, x.worker, c, e)
                    BY <5>1, RowsExcept
                <5> QED
                    BY <5>2
            <4> QED
                BY <4>1, <4>2
        <3>5. y # Harness!None /\ y.app = x.app /\ y.state = "running"
            BY RowsWritten
        <3>6. TaskOK(t, y, launched, run[t], carries[t], t \in withdrawn)
            <4>1. launched[n].dialect = Tongue(x.app, d)
                BY <3>1, HarnessWords DEF d
            <4> QED
                BY <1>2, <1>5, <3>1, <4>1, Adopted
        <3> HIDE DEF y
        <3> QED
            BY <1>6, <2>1, <2>2, <3>4, <3>5, <3>6
    <2> QED
        BY <2>3, <2>4
<1> QED
    BY <1>10, <1>11, <1>12, <1>13, <1>14

(* A runner's bundle is there, or failed: the sessions that wait for it go on, or fail. *)
LEMMA BundleStep ==
    ASSUME HarnessInv, NEW app \in Apps, NEW ok \in BOOLEAN, Harness!BundleEnds(app, ok)
    PROVE  HarnessInv'
<1> DEFINE of(t) == Harness!exists(t) /\ tasks[t].app = app
           waiting == {r \in Answers : answer[r] # Harness!NoAnswer /\ answer[r].pc = "bundle"
                                       /\ of(answer[r].t)}
<1>1. /\ run' = [t \in Delegations |-> IF run[t] = "bundle" /\ of(t)
                                         THEN IF ok THEN "prepare" ELSE "none" ELSE run[t]]
      /\ tasks' = [t \in Delegations |-> IF run[t] = "bundle" /\ of(t) /\ ~ok
                                           THEN [tasks[t] EXCEPT !.state = "failed"] ELSE tasks[t]]
      /\ answer' = [r \in Answers |-> IF r \in waiting
                                        THEN IF ok THEN [answer[r] EXCEPT !.pc = "launch"]
                                             ELSE Harness!NoAnswer
                                        ELSE answer[r]]
      /\ replying' = IF ok THEN replying ELSE replying \ {answer[r].t : r \in waiting}
      /\ UNCHANGED <<settings, carries, launched, withdrawn, garbled>>
    BY DEF Harness!BundleEnds
<1> USE DEF HarnessInv
<1>2. \A t \in Delegations : tasks[t] # Harness!None <=> Harness!exists(t)
    BY DEF Harness!exists
<1>3. ASSUME NEW t \in Delegations
      PROVE  /\ IF tasks'[t] = Harness!None THEN NoTask(t, launched, run'[t])
                ELSE TaskOK(t, tasks'[t], launched, run'[t], carries[t], t \in withdrawn)
             /\ tasks[t] # Harness!None =>
                   /\ tasks'[t] # Harness!None /\ tasks'[t].app = tasks[t].app
                   /\ tasks[t].state # "queued" => tasks'[t].state # "queued"
    <2> DEFINE x == tasks[t]
    <2>1. IF x = Harness!None THEN NoTask(t, launched, run[t])
          ELSE TaskOK(t, x, launched, run[t], carries[t], t \in withdrawn)
        BY DEF Tasked
    <2>2. CASE ~(run[t] = "bundle" /\ of(t))
        BY <1>1, <2>1, <2>2
    <2>3. CASE run[t] = "bundle" /\ of(t) /\ ok
        <3>1. tasks'[t] = x /\ run'[t] = "prepare" /\ x # Harness!None
            BY <1>1, <1>2, <2>3
        <3> HIDE DEF x
        <3>2. TaskOK(t, x, launched, "prepare", carries[t], t \in withdrawn)
            BY <2>1, <2>3, <3>1 DEF TaskOK, Queueing, Harness!checked
        <3> QED
            BY <3>1, <3>2 DEF x
    <2>4. CASE run[t] = "bundle" /\ of(t) /\ ~ok
        <3> DEFINE y == RowWith(x, "failed", x.worker, x.command, x.dialect)
        <3>1. tasks'[t] = [x EXCEPT !.state = "failed"] /\ run'[t] = "none" /\ x # Harness!None
            BY <1>1, <1>2, <2>4
        <3>2. TaskOK(t, x, launched, "none", carries[t], t \in withdrawn)
            BY <2>1, <3>1, Spared
        <3>3. x = tasks[t]
            OBVIOUS
        <3> HIDE DEF x
        <3>4. [x EXCEPT !.state = "failed"] = y
            <4>1. IsRow(x)
                BY <3>2 DEF TaskOK
            <4> QED
                BY <4>1, RowsExcept
        <3>5. /\ IsRow(y) /\ y # Harness!None /\ y.app = x.app /\ y.state = "failed"
              /\ y.worker = x.worker /\ y.command = x.command /\ y.dialect = x.dialect
              /\ RunsAsAsked(x) => RunsAsAsked(y)
            BY RowsWritten
        <3> HIDE DEF y
        <3>6. TaskOK(t, y, launched, "none", carries[t], t \in withdrawn)
            BY <3>2, <3>5 DEF TaskOK
        <3> QED
            BY <3>1, <3>3, <3>4, <3>5, <3>6
    <2> QED
        BY <2>2, <2>3, <2>4
<1>4. Tasked'
    <2>1. \A t : t \in withdrawn' <=> t \in withdrawn
        BY <1>1
    <2>2. carries' = carries /\ launched' = launched /\ withdrawn' = withdrawn
        BY <1>1
    <2> QED
        BY <1>3, <2>2 DEF Tasked
<1>5. answer' \in [Answers -> Asking \cup {Harness!NoAnswer}]
    <2>1. \A r \in Answers : answer[r] # Harness!NoAnswer => answer[r] \in Asking
        BY DEF HarnessTyped
    <2>2. \A a \in Asking : [a EXCEPT !.pc = "launch"] \in Asking
        BY DEF Asking
    <2>3. \A r \in Answers : answer[r] \in Asking \cup {Harness!NoAnswer}
        BY DEF HarnessTyped
    <2> HIDE DEF of
    <2> QED
        BY <1>1, <2>1, <2>2, <2>3
<1>6. HarnessTyped'
    <2>1. /\ tasks' = [t \in Delegations |-> tasks'[t]] /\ run' = [t \in Delegations |-> run'[t]]
        BY <1>1
    <2> QED
        BY <1>1, <1>5, <2>1 DEF HarnessTyped
<1>7. ASSUME NEW s \in Answers, answer'[s] # Harness!NoAnswer
      PROVE  /\ answer[s] # Harness!NoAnswer /\ answer'[s].t = answer[s].t
             /\ answer'[s].command = answer[s].command
             /\ answer'[s].dialect = answer[s].dialect
             /\ answer'[s].pc # "read" => answer[s].pc # "read" /\ answer[s].t \in replying'
             /\ answer'[s].pc = "record" => answer[s].pc = "record"
    <2>1. answer[s] # Harness!NoAnswer /\ (s \in waiting => ok)
        BY <1>1, <1>7
    <2>2. answer[s] \in Asking
        BY <2>1, RequestIs
    <2>3. /\ answer'[s].t = answer[s].t /\ answer'[s].command = answer[s].command
          /\ answer'[s].dialect = answer[s].dialect
          /\ answer'[s].pc # "read" => answer[s].pc # "read"
          /\ answer'[s].pc = "record" => answer[s].pc = "record"
        BY <1>1, <2>1, <2>2 DEF Asking
    <2>4. ASSUME answer[s].pc # "read" PROVE answer[s].t \in replying'
        <3>1. answer[s].t \in replying
            BY <2>1, <2>4, RequestIs DEF AnswerOK
        <3>2. ASSUME NEW r \in waiting, ~ok PROVE answer[r].t # answer[s].t
            <4>1. r \in Answers /\ answer[r] # Harness!NoAnswer /\ answer[r].pc # "read" /\ r # s
                BY <2>1, <3>2
            <4> QED
                BY <2>1, <2>4, <4>1 DEF Claimed
        <3> HIDE DEF waiting
        <3> QED
            BY <1>1, <3>1, <3>2
    <2> QED
        BY <2>1, <2>3, <2>4
<1> QED
    BY <1>1, <1>3, <1>4, <1>6, <1>7, HarnessKept

(* The process starts over: the requests are lost, the run jobs are taken up again. *)
LEMMA RestartStep == ASSUME HarnessInv, Harness!Restart PROVE HarnessInv'
<1> USE DEF HarnessInv
<1>1. /\ run' = [t \in Delegations |->
                    IF Harness!exists(t) /\ tasks[t].state = "queued" THEN "start" ELSE "none"]
      /\ answer' = [r \in Answers |-> Harness!NoAnswer] /\ replying' = {}
      /\ UNCHANGED <<settings, tasks, carries, launched, withdrawn, garbled>>
    BY DEF Harness!Restart
<1>2. HarnessTyped'
    <2>1. run' = [t \in Delegations |-> run'[t]]
        BY <1>1
    <2>2. answer' \in [Answers -> Asking \cup {Harness!NoAnswer}]
        BY <1>1
    <2> QED
        BY <1>1, <2>1, <2>2 DEF HarnessTyped
<1>3. ASSUME NEW t \in Delegations
      PROVE  IF tasks[t] = Harness!None THEN NoTask(t, launched, run'[t])
             ELSE TaskOK(t, tasks[t], launched, run'[t], carries[t], t \in withdrawn)
    <2>1. CASE tasks[t] = Harness!None
        BY <1>1, <2>1 DEF Tasked, NoTask, Harness!exists
    <2>2. CASE tasks[t] # Harness!None
        <3>1. TaskOK(t, tasks[t], launched, run[t], carries[t], t \in withdrawn)
            BY <2>2 DEF Tasked
        <3>2. run'[t] \in {"start", "none"}
            BY <1>1
        <3>3. /\ TaskOK(t, tasks[t], launched, "none", carries[t], t \in withdrawn)
              /\ TaskOK(t, tasks[t], launched, "start", carries[t], t \in withdrawn)
            BY <3>1, Spared
        <3> QED
            BY <2>2, <3>2, <3>3
    <2> QED
        BY <2>1, <2>2
<1>4. Tasked'
    BY <1>1, <1>3 DEF Tasked
<1>5. (\A r \in Answers : answer'[r] = Harness!NoAnswer) /\ UNCHANGED tasks
    BY <1>1
<1> QED
    BY <1>1, <1>2, <1>4, <1>5, HarnessKept

(* The project's form is saved, and drops an app under what was past its check; the *)
(* composer reads the project again.                                                 *)
LEMMA SettingsStep ==
    ASSUME HarnessInv, Harness!saveSettings \/ Harness!refetch
    PROVE  HarnessInv'
<1> USE DEF HarnessInv
<1>1. CASE Harness!refetch
    <2>1. UNCHANGED <<settings, tasks, carries, launched, run, answer, replying, withdrawn, garbled>>
        BY <1>1 DEF Harness!refetch
    <2> QED
        BY <2>1 DEF HarnessTyped, Tasked, Requested, Claimed, Carried
<1>2. CASE Harness!saveSettings
    <2> DEFINE Allowed == Harness!Range(settings'.apps)
               parted == {t \in Delegations :
                             Harness!underWay(t) /\ Harness!drops(settings'.apps, t)}
    <2>1. UNCHANGED <<tasks, carries, launched, run, answer, replying, garbled>>
          /\ withdrawn' = withdrawn \cup parted
        BY <1>2 DEF Harness!saveSettings
    <2>2. ASSUME NEW r \in Answers, answer[r] # Harness!NoAnswer, answer[r].pc # "read",
                 Drops(tasks[answer[r].t], Allowed)
          PROVE  answer[r].t \in withdrawn'
        <3>1. answer[r].t \in Delegations /\ answer[r].t \in replying
            BY <2>2, RequestIs DEF AnswerOK
        <3>2. Harness!underWay(answer[r].t)
            BY <2>2, <3>1 DEF Harness!underWay
        <3>3. Harness!drops(settings'.apps, answer[r].t)
            BY <2>2, HarnessWords
        <3> QED
            BY <2>1, <3>1, <3>2, <3>3
    <2>3. withdrawn \subseteq withdrawn' /\ withdrawn' \subseteq Delegations
        BY <2>1 DEF HarnessTyped
    <2> HIDE DEF parted, Allowed
    <2>4. HarnessTyped'
        BY <2>1, <2>3 DEF HarnessTyped
    <2>5. ASSUME NEW t \in Delegations
          PROVE  IF tasks[t] = Harness!None THEN NoTask(t, launched, run[t])
                 ELSE TaskOK(t, tasks[t], launched, run[t], carries[t], t \in withdrawn')
        <3>1. CASE tasks[t] = Harness!None
            BY <3>1 DEF Tasked
        <3>2. CASE tasks[t] # Harness!None
            <4> DEFINE before == t \in withdrawn
                       after == t \in withdrawn'
            <4>1. TaskOK(t, tasks[t], launched, run[t], carries[t], before)
                BY <3>2 DEF Tasked
            <4>2. before => after
                BY <2>3
            <4> HIDE DEF before, after
            <4>3. TaskOK(t, tasks[t], launched, run[t], carries[t], after)
                BY <4>1, <4>2, Spared
            <4> QED
                BY <3>2, <4>3 DEF after
        <3> QED
            BY <3>1, <3>2
    <2>6. Tasked'
        BY <2>1, <2>5 DEF Tasked
    <2>7. ASSUME NEW r \in Answers, answer[r] # Harness!NoAnswer
          PROVE  AnswerOK(answer[r], tasks[answer[r].t], launched, replying, Allowed,
                          answer[r].t \in withdrawn')
        <3>1. AnswerOK(answer[r], tasks[answer[r].t], launched, replying,
                       Harness!Range(settings.apps), answer[r].t \in withdrawn)
            BY <2>7, RequestIs
        <3> QED
            BY <2>2, <2>7, <3>1 DEF AnswerOK
    <2>8. Requested'
        BY <2>1, <2>7 DEF Requested, Allowed
    <2>9. Claimed' /\ Carried' /\ ~garbled'
        BY <2>1 DEF Claimed, Carried
    <2> QED
        BY <2>4, <2>6, <2>8, <2>9
<1> QED
    BY <1>1, <1>2

(* A request is made of a task that has a session, and it may claim the task. *)
LEMMA ClaimStep ==
    ASSUME HarnessInv, NEW r \in Answers,
           \/ \E t \in Delegations, kind \in {"reply", "interrupt"} : Harness!followUpTask(r, t, kind)
           \/ Harness!claimPending(r)
    PROVE  HarnessInv'
<1> USE DEF HarnessInv
<1>1. UNCHANGED <<settings, tasks, carries, launched, run, withdrawn, garbled>>
    BY DEF Harness!followUpTask, Harness!claimPending
<1>2. ASSUME NEW z \in Asking, answer' = [answer EXCEPT ![r] = z], replying' \subseteq Delegations,
             replying \subseteq replying',
             AnswerOK(z, tasks[z.t], launched, replying', Harness!Range(settings.apps),
                      z.t \in withdrawn),
             \A s \in Answers : /\ z.pc # "read" /\ s # r /\ answer[s] # Harness!NoAnswer
                                /\ answer[s].pc # "read"
                                => answer[s].t # z.t
      PROVE  HarnessInv'
    <2>1. answer \in [Answers -> Asking \cup {Harness!NoAnswer}]
        BY DEF HarnessTyped
    <2>2. /\ answer' \in [Answers -> Asking \cup {Harness!NoAnswer}]
          /\ \A s \in Answers : answer'[s] = IF s = r THEN z ELSE answer[s]
        BY <1>2, <2>1
    <2>3. HarnessTyped'
        BY <1>1, <1>2, <2>2 DEF HarnessTyped
    <2>4. Tasked' /\ Carried' /\ ~garbled'
        BY <1>1 DEF Tasked, Carried
    <2>5. Requested'
        <3>1. ASSUME NEW s \in Answers, answer'[s] # Harness!NoAnswer
              PROVE  AnswerOK(answer'[s], tasks[answer'[s].t], launched, replying',
                              Harness!Range(settings.apps), answer'[s].t \in withdrawn)
            <4>1. CASE s = r
                BY <1>2, <2>2, <4>1
            <4>2. CASE s # r
                <5>1. answer'[s] = answer[s]
                    BY <2>2, <4>2
                <5>2. AnswerOK(answer[s], tasks[answer[s].t], launched, replying,
                               Harness!Range(settings.apps), answer[s].t \in withdrawn)
                    BY <3>1, <5>1, RequestIs
                <5> QED
                    BY <1>2, <5>1, <5>2 DEF AnswerOK
            <4> QED
                BY <4>1, <4>2
        <3> QED
            BY <1>1, <3>1 DEF Requested
    <2>6. Claimed'
        <3> SUFFICES ASSUME NEW s \in Answers, NEW p \in Answers,
                            answer'[s] # Harness!NoAnswer, answer'[s].pc # "read",
                            answer'[p] # Harness!NoAnswer, answer'[p].pc # "read",
                            answer'[p].t = answer'[s].t, s # p
                     PROVE  FALSE
            BY DEF Claimed
        <3>1. CASE s # r /\ p # r
            BY <2>2, <3>1 DEF Claimed
        <3>2. CASE s = r \/ p = r
            BY <1>2, <2>2, <3>2
        <3> QED
            BY <3>1, <3>2
    <2> QED
        BY <2>3, <2>4, <2>5, <2>6
<1>3. ASSUME NEW t \in Delegations, NEW kind \in {"reply", "interrupt"},
             Harness!followUpTask(r, t, kind)
      PROVE  HarnessInv'
    <2> DEFINE x == tasks[t]
               z == [pc |-> "read", kind |-> kind, t |-> t, dialect |-> Harness!protocolOf(x),
                     command |-> x.command]
    <2>1. /\ x # Harness!None /\ x.state \in {"running", "in-review"}
          /\ answer' = [answer EXCEPT ![r] = z] /\ UNCHANGED replying
        BY <1>3 DEF Harness!followUpTask, Harness!exists
    <2>2. TaskOK(t, x, launched, run[t], carries[t], t \in withdrawn)
        BY <2>1, SameTask
    <2>3. /\ x.command # 0 /\ x.command \in Of(launched, t) /\ x.command \in Nat
          /\ launched[x.command].dialect = Tongue(x.app, x.dialect) /\ x.state # "queued"
        BY <2>1, <2>2 DEF TaskOK
    <2>4. Harness!protocolOf(x) = Tongue(x.app, x.dialect)
        BY <2>3, HarnessWords
    <2>5. launched[x.command] \in Session
        BY <2>3 DEF HarnessTyped, Of
    <2>6. Harness!protocolOf(x) \in Harness!Dialects
        BY <2>3, <2>4, <2>5 DEF Session
    <2> HIDE DEF x
    <2>7. /\ z \in Asking /\ z.pc = "read" /\ z.t = t /\ z.command = x.command
          /\ z.dialect = Harness!protocolOf(x)
        BY <2>3, <2>6 DEF Asking
    <2> HIDE DEF z
    <2>8. AnswerOK(z, x, launched, replying', Harness!Range(settings.apps), t \in withdrawn)
        BY <2>1, <2>3, <2>4, <2>7 DEF AnswerOK
    <2>9. replying' \subseteq Delegations /\ replying \subseteq replying'
        BY <2>1 DEF HarnessTyped
    <2> QED
        BY <1>2, <2>1, <2>7, <2>8, <2>9 DEF x
<1>4. CASE Harness!claimPending(r)
    <2> DEFINE a == answer[r]
               t == a.t
               x == tasks[t]
               z == [a EXCEPT !.pc = "wake"]
    <2>1. /\ a # Harness!NoAnswer /\ a.pc = "read" /\ ~Harness!taskAgentAppBlocker(t)
          /\ t \notin replying /\ replying' = replying \cup {t}
          /\ answer' = [answer EXCEPT ![r].pc = "wake"]
        BY <1>4 DEF Harness!claimPending, Harness!answerGoes
    <2>2. /\ a \in Asking /\ t \in Delegations /\ x # Harness!None
          /\ AnswerOK(a, x, launched, replying, Harness!Range(settings.apps), t \in withdrawn)
        BY <2>1, RequestIs
    <2>3. answer' = [answer EXCEPT ![r] = z]
        BY <2>1 DEF HarnessTyped
    <2>4. /\ z \in Asking /\ z.pc = "wake" /\ z.t = t /\ z.command = a.command
          /\ z.dialect = a.dialect
        BY <2>2 DEF Asking
    <2>5. ~Drops(x, Harness!Range(settings.apps))
        BY <2>1, HarnessWords
    <2>6. ASSUME NEW s \in Answers, s # r, answer[s] # Harness!NoAnswer, answer[s].pc # "read"
          PROVE  answer[s].t # t
        <3>1. answer[s].t \in replying
            BY <2>6, RequestIs DEF AnswerOK
        <3> QED
            BY <2>1, <3>1
    <2>7. replying' \subseteq Delegations /\ replying \subseteq replying'
        BY <2>1, <2>2 DEF HarnessTyped
    <2>8. a = answer[r] /\ t = a.t /\ x = tasks[t]
        OBVIOUS
    <2> HIDE DEF a, x, z
    <2>9. AnswerOK(z, x, launched, replying', Harness!Range(settings.apps), t \in withdrawn)
        BY <2>1, <2>2, <2>4, <2>5 DEF AnswerOK
    <2> QED
        BY <1>2, <2>3, <2>4, <2>6, <2>7, <2>8, <2>9
<1> QED
    BY <1>3, <1>4

(* A session is launched, by a run job or a request. *)
LEMMA SessionStep ==
    ASSUME HarnessInv,
           \/ \E t \in Delegations : Harness!Launches(t)
           \/ \E r \in Answers : Harness!Resumed(r)
    PROVE  HarnessInv'
<1> USE DEF HarnessInv
<1>1. UNCHANGED <<settings, tasks, carries, replying, withdrawn, garbled>>
    BY DEF Harness!Launches, Harness!Resumed
<1>2. launched \in Seq(Session)
    BY DEF HarnessTyped
<1>3. ASSUME NEW u \in Delegations, tasks[u] # Harness!None, Harness!startAgentSession(u),
             tasks[u].worker,
             tasks[u].state = "queued" =>
                 Of(launched, u) = {} /\ tasks[u].dialect = Harness!protocol(tasks[u].app),
             NEW job_, run' = [run EXCEPT ![u] = job_],
             job_ = "record" \/ (job_ = run[u] /\ tasks[u].state # "queued"),
             answer' \in [Answers -> Asking \cup {Harness!NoAnswer}],
             \A s \in Answers : answer'[s] # Harness!NoAnswer =>
                 /\ answer[s] # Harness!NoAnswer /\ answer'[s].t = answer[s].t
                 /\ answer'[s].command = answer[s].command
                 /\ answer'[s].dialect = answer[s].dialect
                 /\ answer'[s].pc # "read" => answer[s].pc # "read"
                 /\ answer'[s].pc = "record" => answer[s].pc = "record" \/ answer[s].t = u
      PROVE  HarnessInv'
    <2> DEFINE x == tasks[u]
               d == Harness!protocol(x.app)
               e == [t |-> u, dialect |-> d, carried |-> Harness!fits(u)]
               n == Len(launched) + 1
    <2>1. launched' = Append(launched, e)
        BY <1>3 DEF Harness!startAgentSession
    <2>2. TaskOK(u, x, launched, run[u], carries[u], u \in withdrawn)
        BY <1>3, SameTask
    <2>3. Harness!fits(u) = TRUE
        <3>1. Fits(x.app, carries[u], u \in withdrawn)
            BY <1>3, <2>2 DEF TaskOK
        <3>2. Harness!fits(u)
            BY <3>1, HarnessWords
        <3>3. Harness!fits(u) \in BOOLEAN
            BY Zenon DEF Harness!fits
        <3> QED
            BY <3>2, <3>3
    <2>4. d \in Harness!Dialects /\ Tongue(x.app, d) = d
        BY HarnessWords
    <2>5. x = tasks[u] /\ e.t = u /\ e.dialect = d /\ e.carried
        BY <2>3
    <2> HIDE DEF d
    <2>6. e \in Session
        BY <2>3, <2>4 DEF Session
    <2>6a. n = Len(launched) + 1
        OBVIOUS
    <2> HIDE DEF e, x, n
    <2>7. /\ launched' \in Seq(Session) /\ DOMAIN launched' = DOMAIN launched \cup {n}
          /\ \A m \in DOMAIN launched : launched'[m] = launched[m]
          /\ launched'[n] = e /\ Last(launched', u, n)
          /\ \A t : Of(launched, t) \subseteq Of(launched', t)
          /\ \A t : t # u => Of(launched', t) = Of(launched, t)
          /\ Of(launched', u) = Of(launched, u) \cup {n}
        <3>1. /\ launched' \in Seq(Session) /\ Len(launched') = n /\ Len(launched) \in Nat
              /\ DOMAIN launched = 1..Len(launched) /\ DOMAIN launched' = 1..n
              /\ \A m \in DOMAIN launched : launched'[m] = launched[m]
              /\ launched'[n] = e
            BY <1>2, <2>1, <2>6, <2>6a
        <3>2. n \notin DOMAIN launched /\ DOMAIN launched' = DOMAIN launched \cup {n}
            BY <2>6a, <3>1
        <3>3. Last(launched', u, n)
            BY <2>5, <2>6a, <3>1 DEF Last, Of
        <3>4. \A m \in DOMAIN launched : launched'[m] = launched[m]
            BY <3>1
        <3>5. PICK new : new = launched'
            OBVIOUS
        <3>6. /\ n \notin DOMAIN launched /\ Last(new, u, n)
              /\ DOMAIN new = DOMAIN launched \cup {n}
              /\ \A m \in DOMAIN launched : new[m] = launched[m]
            BY <3>2, <3>3, <3>4, <3>5
        <3>7. /\ \A t : Of(launched, t) \subseteq Of(new, t)
              /\ \A t : t # u => Of(new, t) = Of(launched, t)
              /\ Of(new, u) = Of(launched, u) \cup {n}
            BY <3>6, LogGrows
        <3> QED
            BY <3>1, <3>2, <3>3, <3>5, <3>7
    <2>8. \A t, m : m \in Of(launched, t) => m \in Of(launched', t) /\ launched'[m] = launched[m]
        BY <2>7 DEF Of
    <2>9. run' = [t \in Delegations |-> IF t = u THEN job_ ELSE run[t]]
        BY <1>3 DEF HarnessTyped
    <2>10. HarnessTyped'
        <3>1. run' = [t \in Delegations |-> run'[t]]
            BY <2>9
        <3> QED
            BY <1>1, <1>3, <2>7, <3>1 DEF HarnessTyped
    <2>11. ASSUME NEW t \in Delegations, t # u
           PROVE  IF tasks[t] = Harness!None THEN NoTask(t, launched', run'[t])
                  ELSE TaskOK(t, tasks[t], launched', run'[t], carries[t], t \in withdrawn)
        <3> DEFINE y == tasks[t]
        <3>1. Of(launched', t) = Of(launched, t) /\ run'[t] = run[t]
            BY <2>7, <2>9, <2>11
        <3>2. CASE y = Harness!None
            BY <3>1, <3>2 DEF Tasked, NoTask
        <3>3. CASE y # Harness!None
            <4>1. TaskOK(t, y, launched, run[t], carries[t], t \in withdrawn)
                BY <3>3 DEF Tasked
            <4> HIDE DEF y
            <4>2. \A m : Last(launched', t, m) <=> Last(launched, t, m)
                BY <3>1 DEF Last
            <4>3. TaskOK(t, y, launched', run[t], carries[t], t \in withdrawn)
                BY <2>8, <3>1, <4>1, <4>2 DEF TaskOK
            <4> QED
                BY <3>1, <3>3, <4>3 DEF y
        <3> QED
            BY <3>2, <3>3
    <2>12. TaskOK(u, x, launched', job_, carries[u], u \in withdrawn)
        <3>1. n \in Of(launched', u) /\ launched'[n].dialect = d
            BY <2>5, <2>7
        <3>2. x.state = "queued" => x.dialect = d /\ Of(launched', u) = {n}
            BY <1>3, <2>5, <2>7 DEF d
        <3>3. x.state = "queued" => /\ x.command = 0 /\ job_ = "record"
                                    /\ \A m \in Of(launched', u) :
                                          launched'[m].dialect = Tongue(x.app, x.dialect)
            BY <1>3, <2>2, <2>4, <2>5, <3>1, <3>2 DEF TaskOK
        <3>4. "record" \notin Queueing
            BY DEF Queueing
        <3>5. /\ IsRow(x) /\ x.worker \in BOOLEAN /\ x.command \in Nat /\ RunsAsAsked(x)
              /\ x.state \in {"running", "in-review"} => x.command # 0
              /\ x.worker => Fits(x.app, carries[u], u \in withdrawn)
            BY <2>2 DEF TaskOK
        <3>6. x.command # 0 => /\ x.command \in Of(launched', u)
                               /\ launched'[x.command].dialect = Tongue(x.app, x.dialect)
            BY <2>2, <2>8 DEF TaskOK
        <3>7. x.worker
            BY <1>3, <2>5
        <3> QED
            BY <1>3, <2>5, <2>7, <3>1, <3>2, <3>3, <3>4, <3>5, <3>6, <3>7 DEF TaskOK
    <2>13. Tasked'
        <3>1. run'[u] = job_
            BY <2>9
        <3> QED
            BY <1>1, <1>3, <2>5, <2>11, <2>12, <3>1 DEF Tasked
    <2>14. ASSUME NEW s \in Answers, answer'[s] # Harness!NoAnswer
           PROVE  AnswerOK(answer'[s], tasks[answer'[s].t], launched', replying,
                           Harness!Range(settings.apps), answer'[s].t \in withdrawn)
        <3> DEFINE a == answer[s]
                   t == a.t
                   y == tasks[t]
                   b == answer'[s]
        <3>1. /\ a # Harness!NoAnswer /\ b.t = t /\ b.command = a.command /\ b.dialect = a.dialect
              /\ b.pc # "read" => a.pc # "read"
              /\ b.pc = "record" => a.pc = "record" \/ t = u
            BY <1>3, <2>14
        <3>2. AnswerOK(a, y, launched, replying, Harness!Range(settings.apps), t \in withdrawn)
            BY <3>1, RequestIs
        <3>3. t = u => y = x
            BY <2>5
        <3>4. t = a.t
            OBVIOUS
        <3> HIDE DEF a, b, y, t
        <3>5. b.command \in Of(launched', t) /\ launched'[b.command].dialect = b.dialect
            BY <2>8, <3>1, <3>2, <3>4 DEF AnswerOK
        <3>6. ASSUME b.pc = "record"
              PROVE  \E m \in Of(launched', t) :
                        Last(launched', t, m) /\ launched'[m].dialect = Harness!protocol(y.app)
            <4>1. CASE t = u
                <5>1. launched'[n].dialect = Harness!protocol(y.app)
                    BY <2>5, <2>7, <3>3, <4>1 DEF d
                <5>2. n \in Of(launched', t) /\ Last(launched', t, n)
                    BY <2>7, <4>1
                <5> QED
                    BY <5>1, <5>2
            <4>2. CASE t # u
                <5>1. PICK m \in Of(launched, t) :
                          Last(launched, t, m) /\ launched[m].dialect = Harness!protocol(y.app)
                    BY <3>1, <3>2, <3>4, <3>6, <4>2 DEF AnswerOK
                <5>2. Of(launched', t) = Of(launched, t)
                    BY <2>7, <4>2
                <5>3. Last(launched', t, m) /\ launched'[m] = launched[m]
                    BY <2>8, <5>1, <5>2 DEF Last
                <5> QED
                    BY <5>1, <5>2, <5>3
            <4> QED
                BY <4>1, <4>2
        <3>7. AnswerOK(b, y, launched', replying, Harness!Range(settings.apps), t \in withdrawn)
            BY <3>1, <3>2, <3>4, <3>5, <3>6 DEF AnswerOK
        <3> QED
            BY <3>1, <3>7 DEF b, y
    <2>15. Requested'
        BY <1>1, <2>14 DEF Requested
    <2>16. Claimed'
        BY <1>3 DEF Claimed
    <2>17. Carried'
        BY <2>5, <2>7 DEF Carried
    <2> QED
        BY <1>1, <2>10, <2>13, <2>15, <2>16, <2>17
<1>4. ASSUME NEW t \in Delegations, Harness!Launches(t) PROVE HarnessInv'
    <2>1. /\ run[t] = "launch" /\ run' = [run EXCEPT ![t] = "record"]
          /\ Harness!startAgentSession(t) /\ answer' = answer
        BY <1>4 DEF Harness!Launches, Harness!runGoes
    <2>2. tasks[t] # Harness!None
        BY <2>1 DEF Tasked, NoTask
    <2>3. TaskOK(t, tasks[t], launched, run[t], carries[t], t \in withdrawn)
        BY <2>2, SameTask
    <2>4. "launch" \in Queueing /\ "launch" \in Harness!checked
        BY DEF Queueing, Harness!checked
    <2>5. /\ tasks[t].worker
          /\ tasks[t].state = "queued" =>
                Of(launched, t) = {} /\ tasks[t].dialect = Harness!protocol(tasks[t].app)
        BY <2>1, <2>3, <2>4 DEF TaskOK
    <2>6. answer' \in [Answers -> Asking \cup {Harness!NoAnswer}]
        BY <2>1 DEF HarnessTyped
    <2> QED
        BY <1>3, <2>1, <2>2, <2>5, <2>6
<1>5. ASSUME NEW r \in Answers, Harness!Resumed(r) PROVE HarnessInv'
    <2> DEFINE a == answer[r]
               t == a.t
               z == [a EXCEPT !.pc = "record"]
    <2>1. /\ a # Harness!NoAnswer /\ a.pc = "launch" /\ Harness!startAgentSession(t)
          /\ answer' = [answer EXCEPT ![r].pc = "record"] /\ run' = run
        BY <1>5 DEF Harness!Resumed, Harness!answerGoes
    <2>2. /\ a \in Asking /\ t \in Delegations /\ tasks[t] # Harness!None
          /\ AnswerOK(a, tasks[t], launched, replying, Harness!Range(settings.apps), t \in withdrawn)
        BY <2>1, RequestIs
    <2>3. TaskOK(t, tasks[t], launched, run[t], carries[t], t \in withdrawn)
        BY <2>2, SameTask
    <2>4. tasks[t].state # "queued" /\ tasks[t].worker
        BY <2>2, <2>3 DEF TaskOK, AnswerOK
    <2>5. run' = [run EXCEPT ![t] = run[t]]
        BY <2>1 DEF HarnessTyped
    <2>6. answer' = [answer EXCEPT ![r] = z]
        BY <2>1 DEF HarnessTyped
    <2>7. z \in Asking /\ z.pc = "record" /\ z.t = t /\ z.command = a.command /\ z.dialect = a.dialect
        BY <2>2 DEF Asking
    <2>8. a = answer[r] /\ t = a.t
        OBVIOUS
    <2> HIDE DEF z
    <2>9. /\ answer' \in [Answers -> Asking \cup {Harness!NoAnswer}]
          /\ answer'[r] = z /\ \A s \in Answers : s # r => answer'[s] = answer[s]
        BY <2>6, <2>7 DEF HarnessTyped
    <2>10. \A s \in Answers : answer'[s] # Harness!NoAnswer =>
                 /\ answer[s] # Harness!NoAnswer /\ answer'[s].t = answer[s].t
                 /\ answer'[s].command = answer[s].command
                 /\ answer'[s].dialect = answer[s].dialect
                 /\ answer'[s].pc # "read" => answer[s].pc # "read"
                 /\ answer'[s].pc = "record" => answer[s].pc = "record" \/ answer[s].t = t
        BY <2>1, <2>7, <2>8, <2>9
    <2> HIDE DEF a, t
    <2>11. PICK job_ : job_ = run[t]
        OBVIOUS
    <2>12. run' = [run EXCEPT ![t] = job_]
        BY <2>5, <2>11
    <2>13. Harness!startAgentSession(t) /\ t \in Delegations /\ tasks[t] # Harness!None
        BY <2>1, <2>2
    <2>14. answer' \in [Answers -> Asking \cup {Harness!NoAnswer}]
        BY <2>9
    <2> QED
        BY <1>3, <2>4, <2>10, <2>11, <2>12, <2>13, <2>14
<1> QED
    BY <1>4, <1>5

(* Every step of the agent apps keeps the invariant. *)
LEMMA HarnessStep == HarnessInv /\ [Harness!Next]_(Harness!vars) => HarnessInv'
<1> SUFFICES ASSUME HarnessInv, [Harness!Next]_(Harness!vars) PROVE HarnessInv'
    OBVIOUS
<1>1. CASE UNCHANGED Harness!vars
    <2>1. UNCHANGED <<settings, tasks, carries, launched, run, answer, replying, withdrawn, garbled>>
        BY <1>1 DEF Harness!vars
    <2> QED
        BY <2>1 DEF HarnessInv, HarnessTyped, Tasked, Requested, Claimed, Carried
<1>2. CASE Harness!Events
    BY <1>2, SettingsStep, RestartStep, TaskCreated, ClaimStep, PeopleMove, Zenon
       DEF Harness!Events
<1>3. ASSUME NEW t \in Delegations,
             \/ Harness!runTask(t) \/ Harness!taskHarness(t) \/ Harness!Prepares(t)
             \/ Harness!Launches(t) \/ Harness!Records(t) \/ Harness!HandsBack(t)
      PROVE  HarnessInv'
    BY <1>3, JobStep, SessionStep, PeopleMove, Zenon
<1>4. ASSUME NEW r \in Answers,
             \/ Harness!writeTaskStdin(r) \/ Harness!Refuses(r) \/ Harness!claimPending(r)
             \/ Harness!Wakes(r) \/ Harness!resumes(r) \/ Harness!Resumed(r) \/ Harness!Followed(r)
      PROVE  HarnessInv'
    BY <1>4, RequestStep, ClaimStep, SessionStep, Zenon
<1>5. CASE Harness!Steps
    BY <1>3, <1>4, <1>5, SettingsStep, BundleStep, Zenon DEF Harness!Steps
<1> QED
    BY <1>1, <1>2, <1>5 DEF Harness!Next

(* A step of the whole is a step of the agent apps, or leaves them as they are. *)
LEMMA HarnessScene ==
    ASSUME [Next]_vars
    PROVE  [Harness!Next]_(Harness!vars)
<1>1. UNCHANGED vars => UNCHANGED Harness!vars
    BY DEF vars, harnesses, Harness!vars
<1>2. ASSUME Next, scene = "harnesses"
      PROVE  Harness!Next
    BY <1>2 DEF Next, Harness!Next
<1>3. ASSUME Next
      PROVE  Others
    BY <1>3, Zenon DEF Next, Goes, Comes
<1>4. ASSUME Next, scene # "harnesses"
      PROVE  UNCHANGED Harness!vars
    BY <1>3, <1>4 DEF Others, harnesses, Harness!vars
<1> QED
    BY <1>1, <1>2, <1>4

(* What the invariant says of tasks and sessions. *)
LEMMA HarnessSays ==
    HarnessInv => /\ Harness!DialectIsItsOwn /\ Harness!CarriesItsHarness
                  /\ Harness!RunsWhatWasAsked
<1> SUFFICES ASSUME HarnessInv
             PROVE  /\ Harness!DialectIsItsOwn /\ Harness!CarriesItsHarness
                    /\ Harness!RunsWhatWasAsked
    OBVIOUS
<1>1. Harness!DialectIsItsOwn /\ Harness!CarriesItsHarness
    BY DEF HarnessInv, Carried, Harness!DialectIsItsOwn, Harness!CarriesItsHarness
<1>2. \A t \in Delegations : tasks[t] # Harness!None => RunsAsAsked(tasks[t])
    BY DEF HarnessInv, Tasked, TaskOK
<1>3. Harness!RunsWhatWasAsked
    BY <1>2, Zenon DEF Harness!RunsWhatWasAsked, Harness!exists, RunsAsAsked
<1> QED
    BY <1>1, <1>3

(* A session is read and written to in the dialect it was started in (protocolOf of *)
(* services/tasks.ts), for any number of tasks, requests and sessions, in any order: *)
(* a session an older Lite left and a job adopts after a restart, one resumed under  *)
(* the dialect of the present, one a request reads while a job launches the next.    *)
THEOREM DialectsMatch ==
    /\ Harness!Spec => []Harness!DialectIsItsOwn
    /\ Spec => []DialectIsItsOwn
<1>1. HarnessInv => Harness!DialectIsItsOwn /\ DialectIsItsOwn
    BY HarnessSays DEF DialectIsItsOwn
<1>2. Init => Harness!Init
    BY DEF Init
<1>3. Harness!Spec => []Harness!DialectIsItsOwn
    BY <1>1, HarnessInit, HarnessStep, PTL DEF Harness!Spec
<1>4. Spec => []DialectIsItsOwn
    BY <1>1, <1>2, HarnessInit, HarnessStep, HarnessScene, PTL DEF Spec
<1> QED
    BY <1>3, <1>4

(* A project keeps models only of apps it has, whichever of the form, the route and  *)
(* an older patch came last (updateProject of services/projects.ts checks the two    *)
(* together); a task runs under the app and with the parameters it was asked to, in  *)
(* a worker that carries that app (createTask, startAgentSession of                   *)
(* services/tasks.ts), though the project drops the app meanwhile.                    *)
THEOREM ModelsMatch ==
    /\ Project!Spec => []Project!ModelsAreAllowed
    /\ Harness!Spec => [](Harness!RunsWhatWasAsked /\ Harness!CarriesItsHarness)
    /\ Spec => []ModelsAreAllowed
<1>1. Project!Init => ModelsInv
    <2>1. Project!Init => Drafted /\ Project!ModelsAreAllowed
        BY DEF Project!Init, Drafted, Project!ModelsAreAllowed, Project!exists
    <2> QED
        BY <2>1, ProjectInit DEF ModelsInv
<1>2. ModelsInv => Project!ModelsAreAllowed
    BY DEF ModelsInv
<1>3. HarnessInv => Harness!RunsWhatWasAsked /\ Harness!CarriesItsHarness
    BY HarnessSays
<1>4. ModelsInv /\ HarnessInv => ModelsAreAllowed
    BY <1>2, <1>3 DEF ModelsAreAllowed
<1>5. Init => Project!Init /\ Harness!Init
    BY DEF Init
<1>6. Project!Spec => []Project!ModelsAreAllowed
    BY <1>1, <1>2, ModelsStep, PTL DEF Project!Spec
<1>7. Harness!Spec => [](Harness!RunsWhatWasAsked /\ Harness!CarriesItsHarness)
    BY <1>3, HarnessInit, HarnessStep, PTL DEF Harness!Spec
<1>8. Spec => []ModelsInv
    BY <1>1, <1>5, ModelsStep, ProjectScene, PTL DEF Spec
<1>9. Spec => []HarnessInv
    BY <1>5, HarnessInit, HarnessStep, HarnessScene, PTL DEF Spec
<1>10. Spec => []ModelsAreAllowed
    BY <1>4, <1>8, <1>9, PTL
<1> QED
    BY <1>6, <1>7, <1>10
=============================================================================
