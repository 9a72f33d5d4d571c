----------------------------- MODULE TaskPool_jobs -----------------------------
(***************************************************************************)
(* The jobs of TaskPool against the rows and the pool lock: no task is     *)
(* lost, no click is left in flight, no job is forgotten in a chain, and   *)
(* nothing re-opens a task that is over.  Then the workspaces: a run or a  *)
(* reply is only ever at work in the machine its own task names, so that   *)
(* none touches the workspace of a task that is still to be judged.        *)
(***************************************************************************)
EXTENDS TaskPool_proof

-----------------------------------------------------------------------------
(* The chains of withPoolLock. *)

(* The jobs of a machine's chain: each is at a step of the lock, in that *)
(* machine, once, and only the first is inside an await of it.           *)
Members(w) ==
    \A i, k \in 1..Len(poolLock[w]) :
        /\ job[poolLock[w][i]].at = w /\ job[poolLock[w][i]].pc \in LockSteps
        /\ job[poolLock[w][i]].pc \in Locked => i = 1
        /\ poolLock[w][k] = poolLock[w][i] => i = k
(* Job j waits in, or heads, the chain of machine w. *)
OnChain(w, j) == \E i \in 1..Len(poolLock[w]) : poolLock[w][i] = j
(* A job that has nothing to do with the pool lock now. *)
Off(j) == job[j].pc \notin LockSteps
(* A job the step leaves alone, or that stays off every chain. *)
Bystander(j) == job'[j] = job[j] \/ (Off(j) /\ Off(j)')

(* The four ways a job moves on the chain of its machine: it joins at the *)
(* tail,                                                                  *)
Joins(k) == LET w == job'[k].at IN
    /\ Off(k) /\ w \in Workers
    /\ job'[k].pc \in LockSteps \ Locked
    /\ poolLock' = Enter(w, k)
(* ... it leaves from the head, *)
Quits(k) == LET w == job[k].at IN
    /\ w \in Workers /\ Holder(w, k) /\ Off(k)'
    /\ poolLock' = Leave(w)
(* ... it leaves and calls withPoolLock again, *)
Requeues(k) == LET w == job[k].at IN
    /\ w \in Workers /\ Holder(w, k) /\ job'[k].at = w
    /\ job'[k].pc \in LockSteps \ Locked
    /\ poolLock' = LeaveAndEnter(w, k)
(* ... or it goes on at the head. *)
Heads(k) == LET w == job[k].at IN
    /\ w \in Workers /\ Holder(w, k) /\ job'[k].at = w
    /\ job'[k].pc \in LockSteps
    /\ poolLock' = poolLock
(* What a step may do to the chains: one job moves, the others stand by. *)
ChainStep ==
    \/ poolLock' = poolLock /\ \A j \in Jobs : Bystander(j)
    \/ \E k \in Jobs : /\ \A j \in Jobs \ {k} : Bystander(j)
                       /\ Joins(k) \/ Quits(k) \/ Requeues(k) \/ Heads(k)

(* withPoolLock, as an inductive step: whatever one job does on its chain,    *)
(* every chain still holds exactly the jobs at a step of the lock, each once. *)
LEMMA ChainKept ==
    ASSUME Base, LockHasHolder, ChainStep, job' \in JobRows
    PROVE  LockHasHolder'
<1>0. poolLock \in [Workers -> Seq(Jobs)] /\ job \in JobRows BY DEF Base, LockRows
<1>1. \A w \in Workers : Members(w)
  BY DEF LockHasHolder, Locked, Members
<1>2. \A j \in Jobs : ~Off(j) => job[j].at \in Workers /\ OnChain(job[j].at, j)
  <2>1. \A j \in Jobs : ~Off(j) => job[j].at \in Workers
    BY JobFields DEF Off, LockSteps, Nowhere
  <2> QED BY <2>1 DEF LockHasHolder, OnChain, Off
<1>3. SUFFICES /\ \A w \in Workers : Members(w)'
               /\ \A j \in Jobs : ~Off(j)' => OnChain(job[j].at, j)'
  BY DEF LockHasHolder, Off, OnChain, Locked, Members
<1>4. \A w \in Workers : \A i \in 1..Len(poolLock[w]) : poolLock[w][i] \in Jobs
  BY <1>0
<1>5. CASE poolLock' = poolLock /\ \A j \in Jobs : Bystander(j)
  <2>1. \A w \in Workers : Members(w)'
    BY <1>1, <1>4, <1>5 DEF Bystander, Off, Members
  <2>2. \A j \in Jobs : ~Off(j)' => OnChain(job[j].at, j)'
    BY <1>2, <1>5 DEF Bystander, Off, OnChain
  <2> QED BY <2>1, <2>2
<1>6. ASSUME NEW k \in Jobs, \A j \in Jobs \ {k} : Bystander(j), Joins(k)
      PROVE  /\ \A w \in Workers : Members(w)'
             /\ \A j \in Jobs : ~Off(j)' => OnChain(job[j].at, j)'
  <2>0. PICK v \in Workers : v = job'[k].at BY <1>6 DEF Joins
  <2>1. v \in Workers /\ poolLock'[v] = Append(poolLock[v], k)
        /\ \A w \in Workers \ {v} : poolLock'[w] = poolLock[w]
    BY <1>0, <1>6, <2>0 DEF Joins, Enter
  <2>2. \A w \in Workers : \A i \in 1..Len(poolLock[w]) : poolLock[w][i] # k /\ job'[poolLock[w][i]] = job[poolLock[w][i]]
    BY <1>1, <1>4, <1>6 DEF Joins, Bystander, Off, Members
  <2>3. poolLock[v] \in Seq(Jobs) BY <1>0, <2>1
  <2>4. /\ Len(poolLock'[v]) = Len(poolLock[v]) + 1
        /\ \A i \in 1..Len(poolLock[v]) : poolLock'[v][i] = poolLock[v][i]
        /\ poolLock'[v][Len(poolLock[v]) + 1] = k
    BY <2>1, <2>3
  <2>5. job'[k].at = v /\ job'[k].pc \in LockSteps /\ job'[k].pc \notin Locked BY <1>6, <2>0 DEF Joins
  <2>6. Members(v)'
    BY <1>1, <2>1, <2>2, <2>3, <2>4, <2>5 DEF Members
  <2>7. \A w \in Workers \ {v} : Members(w)'
    BY <1>1, <2>1, <2>2 DEF Members
  <2>8. ASSUME NEW j \in Jobs, ~Off(j)' PROVE OnChain(job[j].at, j)'
    <3>1. CASE j = k BY <2>0, <2>3, <2>4, <3>1 DEF OnChain
    <3>2. CASE j # k
      <4>1. job'[j] = job[j] /\ ~Off(j) BY <1>6, <2>8, <3>2 DEF Bystander, Off
      <4>2. job[j].at \in Workers /\ OnChain(job[j].at, j) BY <1>2, <4>1
      <4> QED BY <2>1, <2>3, <2>4, <4>1, <4>2 DEF OnChain
    <3> QED BY <3>1, <3>2
  <2> QED BY <2>6, <2>7, <2>8
<1>7. ASSUME NEW k \in Jobs, \A j \in Jobs \ {k} : Bystander(j), Quits(k)
      PROVE  /\ \A w \in Workers : Members(w)'
             /\ \A j \in Jobs : ~Off(j)' => OnChain(job[j].at, j)'
  <2>0. PICK v \in Workers : v = job[k].at BY <1>7 DEF Quits
  <2>1. v \in Workers /\ poolLock'[v] = Tail(poolLock[v])
        /\ \A w \in Workers \ {v} : poolLock'[w] = poolLock[w]
    BY <1>0, <1>7, <2>0 DEF Quits, Leave
  <2>3. poolLock[v] \in Seq(Jobs) /\ poolLock[v] # <<>> /\ poolLock[v][1] = k
    BY <1>0, <1>7, <2>0, <2>1 DEF Quits, Holder
  <2>4. /\ Len(poolLock'[v]) = Len(poolLock[v]) - 1 /\ Len(poolLock[v]) \in Nat \ {0}
        /\ \A i \in 1..Len(poolLock'[v]) : poolLock'[v][i] = poolLock[v][i+1]
    BY <2>1, <2>3
  <2>5. \A i \in 1..Len(poolLock[v]) : i # 1 => poolLock[v][i] # k
    BY <1>1, <2>1, <2>3, <2>4 DEF Members
  <2>51. ~Off(k) BY <1>1, <2>1, <2>3, <2>4 DEF Off, Members
  <2>6. \A w \in Workers \ {v} : \A i \in 1..Len(poolLock[w]) : poolLock[w][i] # k
    BY <1>1, <2>0 DEF Members
  <2>7. \A j \in Jobs \ {k} : ~Off(j) => job'[j] = job[j] BY <1>7 DEF Bystander
  <2>8. \A w \in Workers : \A i \in 1..Len(poolLock[w]) : ~Off(poolLock[w][i]) BY <1>1 DEF Off, Members
  <2>9. ASSUME NEW i \in 1..Len(poolLock'[v])
        PROVE /\ i + 1 \in 1..Len(poolLock[v]) /\ poolLock'[v][i] = poolLock[v][i+1]
              /\ job'[poolLock'[v][i]] = job[poolLock[v][i+1]]
              /\ job[poolLock[v][i+1]].pc \notin Locked
    <3>1. i + 1 \in 1..Len(poolLock[v]) /\ i + 1 # 1 BY <2>4
    <3>2. poolLock'[v][i] = poolLock[v][i+1] BY <2>4
    <3>3. poolLock[v][i+1] \in Jobs \ {k} BY <1>4, <2>1, <2>5, <3>1
    <3>4. ~Off(poolLock[v][i+1]) BY <2>1, <2>8, <3>1
    <3> QED BY <1>1, <2>1, <2>7, <3>1, <3>2, <3>3, <3>4 DEF Members
  <2>10. Members(v)'
    <3> SUFFICES ASSUME NEW i \in 1..Len(poolLock'[v]), NEW m \in 1..Len(poolLock'[v])
                 PROVE  /\ job'[poolLock'[v][i]].at = v /\ job'[poolLock'[v][i]].pc \in LockSteps
                        /\ job'[poolLock'[v][i]].pc \notin Locked
                        /\ poolLock'[v][m] = poolLock'[v][i] => i = m
      BY DEF Members
    <3>1. i \in Nat /\ m \in Nat BY <2>4
    <3> QED BY <1>1, <2>1, <2>9, <3>1 DEF Members
  <2>11. \A w \in Workers \ {v} : Members(w)'
    BY <1>1, <1>4, <2>1, <2>6, <2>7, <2>8 DEF Members
  <2>12. ASSUME NEW j \in Jobs, ~Off(j)' PROVE OnChain(job[j].at, j)'
    <3>1. j # k BY <1>7, <2>12 DEF Quits
    <3>2. job'[j] = job[j] /\ ~Off(j) BY <1>7, <2>12, <3>1 DEF Bystander, Off
    <3>3. job[j].at \in Workers /\ OnChain(job[j].at, j) BY <1>2, <3>2
    <3>4. CASE job[j].at # v BY <2>1, <3>2, <3>3, <3>4 DEF OnChain
    <3>5. CASE job[j].at = v
      <4>1. PICK i \in 1..Len(poolLock[v]) : poolLock[v][i] = j BY <3>3, <3>5 DEF OnChain
      <4>2. i # 1 BY <2>3, <3>1, <4>1
      <4>3. i - 1 \in 1..Len(poolLock'[v]) /\ (i - 1) + 1 = i BY <2>4, <4>2
      <4>4. poolLock'[v][i-1] = j BY <2>4, <4>1, <4>3
      <4> QED BY <3>2, <3>5, <4>3, <4>4 DEF OnChain
    <3> QED BY <3>4, <3>5
  <2> QED BY <2>10, <2>11, <2>12
<1>8. ASSUME NEW k \in Jobs, \A j \in Jobs \ {k} : Bystander(j), Requeues(k)
      PROVE  /\ \A w \in Workers : Members(w)'
             /\ \A j \in Jobs : ~Off(j)' => OnChain(job[j].at, j)'
  <2>0. PICK v \in Workers : v = job[k].at BY <1>8 DEF Requeues
  <2>1. poolLock'[v] = Append(Tail(poolLock[v]), k)
        /\ \A w \in Workers \ {v} : poolLock'[w] = poolLock[w]
    BY <1>0, <1>8, <2>0 DEF Requeues, LeaveAndEnter
  <2>2. poolLock[v] \in Seq(Jobs) /\ poolLock[v] # <<>> /\ poolLock[v][1] = k
    BY <1>0, <1>8, <2>0 DEF Requeues, Holder
  <2>3. /\ Len(poolLock'[v]) = Len(poolLock[v]) /\ Len(poolLock[v]) \in Nat \ {0}
        /\ \A i \in 1..(Len(poolLock[v]) - 1) : poolLock'[v][i] = poolLock[v][i+1]
        /\ poolLock'[v][Len(poolLock[v])] = k
    <3>1. /\ Tail(poolLock[v]) \in Seq(Jobs) /\ Len(Tail(poolLock[v])) = Len(poolLock[v]) - 1
          /\ Len(poolLock[v]) \in Nat \ {0}
          /\ \A i \in 1..(Len(poolLock[v]) - 1) : Tail(poolLock[v])[i] = poolLock[v][i+1]
      BY <2>2
    <3> QED BY <2>1, <3>1
  <2>4. job'[k].at = v /\ job'[k].pc \in LockSteps /\ job'[k].pc \notin Locked
    BY <1>8, <2>0 DEF Requeues
  <2>5. \A i \in 1..Len(poolLock[v]) : i # 1 => poolLock[v][i] # k
    BY <1>1, <2>2, <2>3 DEF Members
  <2>6. \A w \in Workers \ {v} : \A i \in 1..Len(poolLock[w]) : poolLock[w][i] # k
    BY <1>1, <2>0 DEF Members
  <2>7. \A j \in Jobs \ {k} : ~Off(j) => job'[j] = job[j] BY <1>8 DEF Bystander
  <2>8. \A w \in Workers : \A i \in 1..Len(poolLock[w]) : ~Off(poolLock[w][i]) BY <1>1 DEF Off, Members
  <2>9. ASSUME NEW i \in 1..(Len(poolLock[v]) - 1)
        PROVE /\ i + 1 \in 1..Len(poolLock[v]) /\ poolLock'[v][i] = poolLock[v][i+1]
              /\ poolLock'[v][i] # k
              /\ job'[poolLock'[v][i]].at = v /\ job'[poolLock'[v][i]].pc \in LockSteps
              /\ job'[poolLock'[v][i]].pc \notin Locked
    <3>1. i + 1 \in 1..Len(poolLock[v]) /\ i + 1 # 1 BY <2>3
    <3>2. poolLock'[v][i] = poolLock[v][i+1] BY <2>3
    <3>3. poolLock[v][i+1] \in Jobs \ {k} BY <1>4, <2>5, <3>1
    <3>4. ~Off(poolLock[v][i+1]) BY <2>8, <3>1
    <3> QED BY <1>1, <2>7, <3>1, <3>2, <3>3, <3>4 DEF Members
  <2>10. Members(v)'
    <3> SUFFICES ASSUME NEW i \in 1..Len(poolLock'[v]), NEW m \in 1..Len(poolLock'[v])
                 PROVE  /\ job'[poolLock'[v][i]].at = v /\ job'[poolLock'[v][i]].pc \in LockSteps
                        /\ job'[poolLock'[v][i]].pc \notin Locked
                        /\ poolLock'[v][m] = poolLock'[v][i] => i = m
      BY DEF Members
    <3>1. /\ i = Len(poolLock[v]) \/ i \in 1..(Len(poolLock[v]) - 1)
          /\ m = Len(poolLock[v]) \/ m \in 1..(Len(poolLock[v]) - 1)
      BY <2>3
    <3>2. i \in Nat /\ m \in Nat BY <2>3
    <3>3. CASE i = Len(poolLock[v]) BY <2>3, <2>4, <2>9, <3>1, <3>3
    <3>4. CASE i \in 1..(Len(poolLock[v]) - 1) /\ m = Len(poolLock[v]) BY <2>3, <2>9, <3>4
    <3>5. CASE i \in 1..(Len(poolLock[v]) - 1) /\ m \in 1..(Len(poolLock[v]) - 1)
      <4>1. poolLock[v][m+1] = poolLock[v][i+1] => i + 1 = m + 1
        BY <1>1, <2>9, <3>5 DEF Members
      <4> QED BY <2>9, <3>2, <3>5, <4>1
    <3> QED BY <3>1, <3>3, <3>4, <3>5
  <2>11. \A w \in Workers \ {v} : Members(w)'
    BY <1>1, <1>4, <2>1, <2>6, <2>7, <2>8 DEF Members
  <2>12. ASSUME NEW j \in Jobs, ~Off(j)' PROVE OnChain(job[j].at, j)'
    <3>1. CASE j = k BY <2>3, <2>4, <3>1 DEF OnChain
    <3>2. CASE j # k
      <4>1. job'[j] = job[j] /\ ~Off(j) BY <1>8, <2>12, <3>2 DEF Bystander, Off
      <4>2. job[j].at \in Workers /\ OnChain(job[j].at, j) BY <1>2, <4>1
      <4>3. CASE job[j].at # v BY <2>1, <4>1, <4>2, <4>3 DEF OnChain
      <4>4. CASE job[j].at = v
        <5>1. PICK i \in 1..Len(poolLock[v]) : poolLock[v][i] = j BY <4>2, <4>4 DEF OnChain
        <5>2. i # 1 BY <2>2, <3>2, <5>1
        <5>3. i - 1 \in 1..(Len(poolLock[v]) - 1) /\ (i - 1) + 1 = i BY <2>3, <5>2
        <5>4. poolLock'[v][i-1] = j /\ i - 1 \in 1..Len(poolLock'[v]) BY <2>3, <5>1, <5>3
        <5> QED BY <4>1, <4>4, <5>4 DEF OnChain
      <4> QED BY <4>3, <4>4
    <3> QED BY <3>1, <3>2
  <2> QED BY <2>10, <2>11, <2>12
<1>9. ASSUME NEW k \in Jobs, \A j \in Jobs \ {k} : Bystander(j), Heads(k)
      PROVE  /\ \A w \in Workers : Members(w)'
             /\ \A j \in Jobs : ~Off(j)' => OnChain(job[j].at, j)'
  <2>0. PICK v \in Workers : v = job[k].at BY <1>9 DEF Heads
  <2>1. poolLock' = poolLock /\ v \in Workers BY <1>9, <2>0 DEF Heads
  <2>2. poolLock[v] \in Seq(Jobs) /\ poolLock[v] # <<>> /\ poolLock[v][1] = k
    BY <1>0, <1>9, <2>0, <2>1 DEF Heads, Holder
  <2>3. 1 \in 1..Len(poolLock[v]) BY <2>2
  <2>4. job'[k].at = v /\ job'[k].pc \in LockSteps BY <1>9, <2>0 DEF Heads
  <2>5. \A w \in Workers : \A i \in 1..Len(poolLock[w]) :
           \/ poolLock[w][i] = k /\ w = v /\ i = 1
           \/ poolLock[w][i] # k /\ job'[poolLock[w][i]] = job[poolLock[w][i]]
    BY <1>1, <1>4, <1>9, <2>1, <2>2, <2>3 DEF Bystander, Off, Members
  <2>6. \A w \in Workers : Members(w)' BY <1>1, <2>1, <2>4, <2>5 DEF Members
  <2>7. ASSUME NEW j \in Jobs, ~Off(j)' PROVE OnChain(job[j].at, j)'
    <3>1. CASE j = k BY <2>0, <2>1, <2>2, <2>3, <2>4, <3>1 DEF OnChain
    <3>2. CASE j # k
      <4>1. job'[j] = job[j] /\ ~Off(j) BY <1>9, <2>7, <3>2 DEF Bystander, Off
      <4> QED BY <1>2, <2>1, <4>1 DEF OnChain
    <3> QED BY <3>1, <3>2
  <2> QED BY <2>6, <2>7
<1> QED BY <1>5, <1>6, <1>7, <1>8, <1>9 DEF ChainStep

-----------------------------------------------------------------------------
(* The kinds of job a person started and whose end is told on the task's row. *)
Claimants == {"run", "accept", "drop", "reply"}
(* The steps that stop a machine; no claimant's job is ever at one. *)
Parking == {"parkQ", "stopping"}

(* What the row of a task says of its jobs: a queued task has its run, a run *)
(* belongs to a queued task or to one it failed, a reply or a message waits  *)
(* for the run to be over, and every click in flight has its job.            *)
TaskJobs(t) ==
    LET run == job[<<t, "run">>].pc
        live == job[<<t, "live">>].pc
        reply == job[<<t, "reply">>].pc IN
    /\ task[t].state = "queued" => run # "idle"
    /\ run # "idle" => task[t].state \in {"queued", "failed"}
    /\ run # "idle" \/ task[t].state = "none" => live = "idle" /\ reply = "idle"
    /\ run = "unwind" => task[t].state = "failed"
    /\ task[t].pending = "accepting" => job[<<t, "accept">>].pc # "idle"
    /\ task[t].pending = "dropping" => job[<<t, "drop">>].pc # "idle"
    /\ task[t].pending = "replying" => reply # "idle"

(* Only background jobs stop machines. *)
Parkers == \A j \in Jobs : job[j].pc \in Parking => j[2] \notin Claimants

(* The rows and the jobs agree (the strengthening QueuedHasRun and *)
(* PendingHasJob need).                                            *)
Tracked == (\A t \in Tasks : TaskJobs(t)) /\ Parkers

(* A job goes on without starting nor ending a claimant's job. *)
Onward(j, r) ==
    /\ j[2] \in Claimants => job[j].pc # "idle" /\ r.pc # "idle" /\ r.pc \notin Parking
    /\ j[2] = "live" => job[j].pc # "idle"
    /\ r.pc # "unwind"

(* A job that becomes r moves on the chain of its machine as its step says. *)
ChainMove(j, r) ==
    LET w == job[j].at IN
    \/ Off(j) /\ r.pc \notin LockSteps /\ poolLock' = poolLock
    \/ /\ Off(j) /\ r.at \in Workers /\ r.pc \in LockSteps \ Locked
       /\ poolLock' = Enter(r.at, j)
    \/ /\ w \in Workers /\ Holder(w, j)
       /\ \/ r.pc \notin LockSteps /\ poolLock' = Leave(w)
          \/ r.at = w /\ r.pc \in LockSteps \ Locked /\ poolLock' = LeaveAndEnter(w, j)
          \/ r.at = w /\ r.pc \in LockSteps /\ poolLock' = poolLock

(* No task changes state, nor the click in flight on it. *)
RowsKept == \A t \in Tasks : task'[t].state = task[t].state /\ task'[t].pending = task[t].pending

(* The fields of a job's record, however it was written. *)
LEMMA Fields ==
    /\ \A pc, w, n, s : Step(pc, w, n, s).pc = pc /\ Step(pc, w, n, s).at = w
    /\ \A pc, w : At(pc, w).pc = pc /\ At(pc, w).at = w
    /\ \A j, pc : Now(j, pc).pc = pc /\ Now(j, pc).at = job[j].at
    /\ Idle.pc = "idle"
BY DEF Step, At, Now, Idle

(* One job's move is a step of the chains. *)
LEMMA ChainMoves ==
    ASSUME Base, NEW j \in Jobs, NEW r, job' = [job EXCEPT ![j] = r], ChainMove(j, r)
    PROVE  ChainStep
<1>1. job'[j] = r /\ \A i \in Jobs \ {j} : job'[i] = job[i] BY DEF Base, JobRows
<1>2. ASSUME NEW i \in Jobs \ {j} PROVE Bystander(i)
  <2>1. job'[i] = job[i] BY <1>1
  <2> QED BY <2>1 DEF Bystander
<1>3. CASE Off(j) /\ r.pc \notin LockSteps /\ poolLock' = poolLock
  BY <1>1, <1>2, <1>3 DEF ChainStep, Bystander, Off
<1>4. CASE Off(j) /\ r.at \in Workers /\ r.pc \in LockSteps \ Locked /\ poolLock' = Enter(r.at, j)
  BY <1>1, <1>2, <1>4 DEF ChainStep, Joins
<1>5. CASE job[j].at \in Workers /\ Holder(job[j].at, j) /\ r.pc \notin LockSteps /\ poolLock' = Leave(job[j].at)
  BY <1>1, <1>2, <1>5 DEF ChainStep, Quits, Off
<1>6. CASE /\ job[j].at \in Workers /\ Holder(job[j].at, j) /\ r.at = job[j].at
           /\ r.pc \in LockSteps \ Locked /\ poolLock' = LeaveAndEnter(job[j].at, j)
  BY <1>1, <1>2, <1>6 DEF ChainStep, Requeues
<1>7. CASE /\ job[j].at \in Workers /\ Holder(job[j].at, j) /\ r.at = job[j].at
           /\ r.pc \in LockSteps /\ poolLock' = poolLock
  BY <1>1, <1>2, <1>7 DEF ChainStep, Heads
<1> QED BY <1>3, <1>4, <1>5, <1>6, <1>7 DEF ChainMove

(* A job that goes on keeps what the rows say of the jobs. *)
LEMMA OnwardKept ==
    ASSUME Base, Tracked, RowsKept, NEW j \in Jobs, NEW r, job' = [job EXCEPT ![j] = r], Onward(j, r)
    PROVE  Tracked'
<1>1. job'[j] = r /\ \A i \in Jobs \ {j} : job'[i] = job[i] BY DEF Base, JobRows
<1>2. Parkers' BY <1>1 DEF Onward, Parkers, Tracked
<1>3. ASSUME NEW t \in Tasks PROVE TaskJobs(t)'
  <2>1. TaskJobs(t) BY DEF Tracked
  <2>2. ASSUME NEW k \in Claimants
        PROVE  /\ job[<<t, k>>].pc # "idle" => job'[<<t, k>>].pc # "idle"
               /\ job[<<t, k>>].pc = "idle" => job'[<<t, k>>].pc = "idle"
               /\ job'[<<t, k>>].pc = "unwind" => job[<<t, k>>].pc = "unwind"
    <3>1. <<t, k>> \in Jobs /\ <<t, k>>[2] = k BY JobsOf DEF Claimants
    <3>2. CASE j = <<t, k>> BY <1>1, <3>1, <3>2 DEF Onward
    <3>3. CASE j # <<t, k>> BY <1>1, <3>1, <3>3
    <3> QED BY <3>2, <3>3
  <2>3. job[<<t, "live">>].pc = "idle" => job'[<<t, "live">>].pc = "idle"
    BY <1>1, JobNames DEF Onward, Kinds
  <2> QED BY <2>1, <2>2, <2>3 DEF TaskJobs, RowsKept, Claimants
<1> QED BY <1>2, <1>3 DEF Tracked

(* What every step but a restart keeps. *)
Kept == Tracked' /\ ChainStep

(* A job that goes on, its chain followed, keeps everything. *)
LEMMA Carries ==
    ASSUME Base, Tracked, RowsKept, NEW j \in Jobs, NEW r, job' = [job EXCEPT ![j] = r],
           Onward(j, r), ChainMove(j, r)
    PROVE  Kept
BY ChainMoves, OnwardKept DEF Kept

(* A step that touches neither jobs nor chains keeps everything. *)
LEMMA Resting ==
    ASSUME Tracked, RowsKept, UNCHANGED <<job, poolLock>>
    PROVE  Kept
<1>1. \A t \in Tasks : TaskJobs(t)' BY DEF Tracked, TaskJobs, RowsKept
<1>2. Parkers' BY DEF Tracked, Parkers
<1>3. \A j \in Jobs : Bystander(j) BY DEF Bystander
<1> QED BY <1>1, <1>2, <1>3 DEF Kept, Tracked, ChainStep

(* Rows that do not move keep their state and pending. *)
LEMMA RowsSame == UNCHANGED task => RowsKept
BY DEF RowsKept

(* A job goes from one step to the next, outside the lock. *)
LEMMA Walks ==
    ASSUME Base, Tracked, RowsKept, NEW j \in Jobs, NEW r, job' = [job EXCEPT ![j] = r], UNCHANGED poolLock,
           job[j].pc \notin LockSteps \cup {"idle"}, r.pc \notin LockSteps \cup {"idle", "unwind"}
    PROVE  Kept
<1>1. Onward(j, r) BY DEF Onward, Parking, LockSteps
<1>2. ChainMove(j, r) BY DEF ChainMove, Off
<1> QED BY <1>1, <1>2, Carries

(* A job under way, or a background one that starts, queues on the lock. *)
LEMMA Queues ==
    ASSUME Base, Tracked, RowsKept, NEW j \in Jobs, NEW r, job' = [job EXCEPT ![j] = r],
           poolLock' = Enter(r.at, j), r.at \in Workers, job[j].pc \notin LockSteps,
           \/ r.pc \in {"claim", "wakeQ"} /\ job[j].pc # "idle"
           \/ r.pc \in {"wakeQ", "tidyQ", "parkQ"} /\ j[2] \notin Claimants \cup {"live"}
    PROVE  Kept
<1>1. Onward(j, r) BY DEF Onward, Parking, Claimants
<1>2. ChainMove(j, r) BY DEF ChainMove, Off, LockSteps, Locked
<1> QED BY <1>1, <1>2, Carries

(* The head of a chain leaves it. *)
LEMMA Yields ==
    ASSUME Base, Tracked, RowsKept, NEW j \in Jobs, NEW r, job' = [job EXCEPT ![j] = r],
           job[j].pc \in LockSteps, Holder(job[j].at, j), poolLock' = Leave(job[j].at),
           r.pc \notin LockSteps \cup {"unwind"},
           r.pc = "idle" => j[2] \notin Claimants
    PROVE  Kept
<1>1. Onward(j, r) BY DEF Onward, Parking, LockSteps
<1>2. job[j].at \in Workers BY JobFields DEF LockSteps, Nowhere
<1>3. ChainMove(j, r) BY <1>2 DEF ChainMove
<1> QED BY <1>1, <1>3, Carries

(* The head of a chain goes on in it, or queues again. *)
LEMMA Stays ==
    ASSUME Base, Tracked, RowsKept, NEW j \in Jobs, NEW r, job' = [job EXCEPT ![j] = r],
           job[j].pc \in LockSteps, r.pc \in LockSteps, r.at = job[j].at, Holder(job[j].at, j),
           \/ poolLock' = poolLock
           \/ poolLock' = LeaveAndEnter(job[j].at, j) /\ r.pc \notin Locked,
           r.pc \in Parking => j[2] \notin Claimants
    PROVE  Kept
<1>1. Onward(j, r) BY DEF Onward, LockSteps
<1>2. job[j].at \in Workers BY JobFields DEF LockSteps, Nowhere
<1>3. ChainMove(j, r) BY <1>2 DEF ChainMove
<1> QED BY <1>1, <1>3, Carries

(* A job other than a click's goes to rest, outside the lock. *)
LEMMA Rests ==
    ASSUME Base, Tracked, RowsKept, NEW j \in Jobs, NEW r, job' = [job EXCEPT ![j] = r], UNCHANGED poolLock,
           job[j].pc \notin LockSteps \cup {"idle"}, r.pc = "idle", j[2] \notin Claimants
    PROVE  Kept
<1>1. Onward(j, r) BY DEF Onward
<1>2. ChainMove(j, r) BY DEF ChainMove, Off, LockSteps
<1> QED BY <1>1, <1>2, Carries

(* A job that starts, or ends, one of those nothing is said about. *)
LEMMA Begins ==
    ASSUME Base, Tracked, RowsKept, NEW j \in Jobs, NEW r, job' = [job EXCEPT ![j] = r], UNCHANGED poolLock,
           job[j].pc \notin LockSteps, r.pc \notin LockSteps \cup {"unwind"}, j[2] \notin Claimants \cup {"live"}
    PROVE  Kept
<1>1. Onward(j, r) BY DEF Onward
<1>2. ChainMove(j, r) BY DEF ChainMove, Off
<1> QED BY <1>1, <1>2, Carries

(* The allocation of runTask: picking, choosing, claiming, spawning, *)
(* rebuilding, resetting.                                            *)
LEMMA RunCarries == ASSUME Base, Tracked, NEW t \in Tasks PROVE
   /\ RunPick(t) => Kept
   /\ \A w \in Workers : RunChoose(t, w) => Kept
   /\ RunClaim(t) => Kept
   /\ \A w \in Workers : RunSpawn(t, w) => Kept
   /\ RunRebuild(t) => Kept
   /\ RunReset(t) => Kept
<1> DEFINE j == <<t, "run">>
<1>0. j \in Jobs /\ j[2] = "run" BY JobsOf
<1>1. ASSUME RunPick(t) PROVE Kept
  <2>1. job[j].pc = "pick" /\ job' = [job EXCEPT ![j] = Now(j, "choose")] /\ UNCHANGED <<task, poolLock>>
    BY <1>1 DEF RunPick
  <2>2. Now(j, "choose").pc = "choose" BY Fields
  <2> QED BY <1>0, <2>1, <2>2, RowsSame, Walks DEF LockSteps
<1>2. ASSUME NEW w \in Workers, RunChoose(t, w) PROVE Kept
  <2>1. /\ job[j].pc = "choose" /\ job' = [job EXCEPT ![j] = At("claim", w)] /\ UNCHANGED task
        /\ poolLock' = Enter(w, j)
    BY <1>2 DEF RunChoose
  <2>2. At("claim", w).pc = "claim" /\ At("claim", w).at = w BY Fields
  <2> QED BY <1>0, <2>1, <2>2, RowsSame, Queues DEF LockSteps
<1>3. ASSUME RunClaim(t) PROVE Kept
  <2> DEFINE w == job[j].at
             m == machine[w]
  <2>1. job[j].pc = "claim" /\ w \in Workers /\ Holder(w, j)
    BY <1>0, <1>3, JobFields DEF RunClaim, Nowhere
  <2>2. RowsKept
    <3>1. task' = [task EXCEPT ![t].worker = w] \/ task' = task BY <1>3 DEF RunClaim
    <3> QED BY <3>1 DEF RowsKept, Base, TaskRows, TaskRow
  <2>3. CASE m.state \in {"ready", "stopped"} /\ ~heldByLiveTask(w, t)
    <3>1. PICK next \in {"rebuild", "wakeQ", "wait"} :
             /\ job' = [job EXCEPT ![j] = Step(next, w, 0, "recycled")]
             /\ poolLock' = IF next = "wakeQ" THEN LeaveAndEnter(w, j) ELSE Leave(w)
      BY <1>3, <2>3 DEF RunClaim
    <3>2. PICK r : r = Step(next, w, 0, "recycled") OBVIOUS
    <3>3. r.pc = next /\ r.at = w BY <3>2, Fields
    <3>4. job' = [job EXCEPT ![j] = r] BY <3>1, <3>2
    <3>5. CASE next = "wakeQ"
      BY <1>0, <2>1, <2>2, <3>1, <3>3, <3>4, <3>5, Stays DEF Locked, Parking, LockSteps
    <3>6. CASE next # "wakeQ"
      BY <1>0, <2>1, <2>2, <3>1, <3>3, <3>4, <3>6, Yields DEF LockSteps
    <3> QED BY <3>5, <3>6
  <2>4. CASE ~(m.state \in {"ready", "stopped"} /\ ~heldByLiveTask(w, t))
    <3>1. job' = [job EXCEPT ![j] = Now(j, "choose")] /\ poolLock' = Leave(w)
      BY <1>3, <2>4 DEF RunClaim
    <3>2. Now(j, "choose").pc = "choose" BY Fields
    <3> QED BY <1>0, <2>1, <2>2, <3>1, <3>2, Yields DEF LockSteps
  <2> QED BY <2>3, <2>4
<1>4. ASSUME NEW w \in Workers, RunSpawn(t, w) PROVE Kept
  <2>1. /\ job[j].pc = "choose" /\ job' = [job EXCEPT ![j] = At("wait", w)] /\ UNCHANGED poolLock
        /\ task' = [task EXCEPT ![t].worker = w]
    BY <1>4 DEF RunSpawn
  <2>2. RowsKept BY <2>1 DEF RowsKept, Base, TaskRows, TaskRow
  <2>3. At("wait", w).pc = "wait" BY Fields
  <2> QED BY <1>0, <2>1, <2>2, <2>3, Walks DEF LockSteps
<1>5. ASSUME RunRebuild(t) PROVE Kept
  <2>1. job[j].pc = "rebuild" /\ job' = [job EXCEPT ![j] = Now(j, "wait")] /\ UNCHANGED <<task, poolLock>>
    BY <1>5 DEF RunRebuild
  <2>2. Now(j, "wait").pc = "wait" BY Fields
  <2> QED BY <1>0, <2>1, <2>2, RowsSame, Walks DEF LockSteps
<1>6. ASSUME RunReset(t) PROVE Kept
  <2>1. PICK pc \in {"launch", "failed"} :
          job[j].pc = "reset" /\ job' = [job EXCEPT ![j] = Now(j, pc)] /\ UNCHANGED <<task, poolLock>>
    BY <1>6 DEF RunReset
  <2>2. Now(j, pc).pc = pc BY Fields
  <2> QED BY <1>0, <2>1, <2>2, RowsSame, Walks DEF LockSteps
<1> QED BY <1>1, <1>2, <1>3, <1>4, <1>5, <1>6

(* The launch of a session and what follows it. *)
LEMMA LaunchCarries == ASSUME Base, Tracked, NEW t \in Tasks, NEW k \in {"run", "reply"} PROVE
   /\ Launch(t, k) => Kept
   /\ Started(t, k) => Kept
   /\ StdinFails(t, k) => Kept
<1> DEFINE j == <<t, k>>
<1>0. j \in Jobs BY JobsOf
<1>1. ASSUME Launch(t, k) PROVE Kept
  <2>1. PICK r : /\ job' = [job EXCEPT ![j] = r]
                 /\ r = Step("started", job[j].at, launched[t] + 1, job[j].was) \/ r = Now(j, "failed")
    BY <1>1 DEF Launch
  <2>2. r.pc \in {"started", "failed"} BY <2>1, Fields
  <2>3. job[j].pc = "launch" /\ UNCHANGED <<task, poolLock>> BY <1>1 DEF Launch
  <2>4. RowsKept BY <2>3, RowsSame
  <2> QED BY <1>0, <2>1, <2>2, <2>3, <2>4, Walks DEF LockSteps
<1>2. ASSUME Started(t, k) PROVE Kept
  <2>1. job[j].pc = "started" /\ job' = [job EXCEPT ![j] = Now(j, "record")] /\ UNCHANGED <<task, poolLock>>
    BY <1>2 DEF Started
  <2>2. Now(j, "record").pc = "record" BY Fields
  <2> QED BY <1>0, <2>1, <2>2, RowsSame, Walks DEF LockSteps
<1>3. ASSUME StdinFails(t, k) PROVE Kept
  <2>1. job[j].pc = "record" /\ job' = [job EXCEPT ![j] = Now(j, "failed")] /\ UNCHANGED <<task, poolLock>>
    BY <1>3 DEF StdinFails
  <2>2. Now(j, "failed").pc = "failed" BY Fields
  <2> QED BY <1>0, <2>1, <2>2, RowsSame, Walks DEF LockSteps
<1> QED BY <1>1, <1>2, <1>3

(* Waking a machine (wakeMachine, waitForReady), and its failures. *)
LEMMA WakeCarries == ASSUME Base, Tracked, NEW j \in Jobs PROVE
   /\ WakeDecide(j) => Kept
   /\ WakeDone(j) => Kept
   /\ WaitFails(j) => Kept
   /\ WaitTimesOut(j) => Kept
<1> DEFINE w == job[j].at
<1>1. ASSUME WakeDecide(j) PROVE Kept
  <2>1. job[j].pc = "wakeQ" /\ Holder(w, j) /\ UNCHANGED task BY <1>1 DEF WakeDecide
  <2>2. RowsKept BY <2>1, RowsSame
  <2>3. PICK r : /\ job' = [job EXCEPT ![j] = r]
                 /\ \/ r = Now(j, "waking") /\ poolLock' = poolLock
                    \/ r = Now(j, "failed") /\ poolLock' = Leave(w)
                    \/ r = Now(j, "wait") /\ poolLock' = Leave(w)
                    \/ r = Idle /\ j[2] = "wake" /\ poolLock' = Leave(w)
    BY <1>1 DEF WakeDecide
  <2>4. CASE r = Now(j, "waking") /\ poolLock' = poolLock
    <3>1. r.pc = "waking" /\ r.at = w BY <2>4, Fields
    <3> QED BY <2>1, <2>2, <2>3, <2>4, <3>1, Stays DEF LockSteps, Parking
  <2>5. CASE poolLock' = Leave(w) /\ r \in {Now(j, "failed"), Now(j, "wait")}
    <3>1. r.pc \in {"failed", "wait"} BY <2>5, Fields
    <3> QED BY <2>1, <2>2, <2>3, <2>5, <3>1, Yields DEF LockSteps
  <2>6. CASE r = Idle /\ j[2] = "wake" /\ poolLock' = Leave(w)
    <3>1. r.pc = "idle" BY <2>6, Fields
    <3> QED BY <2>1, <2>2, <2>3, <2>6, <3>1, Yields DEF LockSteps, Claimants
  <2> QED BY <2>3, <2>4, <2>5, <2>6
<1>2. ASSUME WakeDone(j) PROVE Kept
  <2>1. job[j].pc = "waking" /\ poolLock' = Leave(w) /\ UNCHANGED task BY <1>2 DEF WakeDone
  <2>2. RowsKept BY <2>1, RowsSame
  <2>3. Holder(w, j) BY <2>1 DEF Base, LockHeld, Locked
  <2>4. PICK r : /\ job' = [job EXCEPT ![j] = r]
                 /\ r = Now(j, "failed") \/ r = Now(j, "wait") \/ (r = Idle /\ j[2] = "wake")
    BY <1>2 DEF WakeDone
  <2>5. r.pc \in {"failed", "wait"} \/ (r.pc = "idle" /\ j[2] = "wake") BY <2>4, Fields
  <2> QED BY <2>1, <2>2, <2>3, <2>4, <2>5, Yields DEF LockSteps, Claimants
<1>3. ASSUME WaitFails(j) \/ WaitTimesOut(j) PROVE Kept
  <2>1. job[j].pc = "wait" /\ job' = [job EXCEPT ![j] = Now(j, "failed")] /\ UNCHANGED <<task, poolLock>>
    BY <1>3 DEF WaitFails, WaitTimesOut
  <2>2. Now(j, "failed").pc = "failed" BY Fields
  <2> QED BY <2>1, <2>2, RowsSame, Walks DEF LockSteps
<1> QED BY <1>1, <1>2, <1>3

(* The clicks and ticks that start a job of their own. *)
LEMMA HandCarries == ASSUME Base, Tracked, NEW t \in Tasks PROVE
   /\ handPark(t) => Kept
   /\ HandCheck(t) => Kept
   /\ keepTaskAwake(t) => Kept
   /\ wakeTask(t) => Kept
   /\ parkDue(t) => Kept
<1>0. <<t, "hand">> \in Jobs /\ <<t, "wake">> \in Jobs /\ <<t, "due">> \in Jobs BY JobsOf
<1>1. ASSUME handPark(t) PROVE Kept
  <2> DEFINE j == <<t, "hand">>
  <2>1. /\ job[j].pc = "idle" /\ job' = [job EXCEPT ![j] = At("check", task[t].worker)]
        /\ UNCHANGED <<task, poolLock>>
    BY <1>1 DEF handPark
  <2>2. At("check", task[t].worker).pc = "check" BY Fields
  <2> QED BY <1>0, <2>1, <2>2, RowsSame, Begins DEF LockSteps, Claimants
<1>2. ASSUME HandCheck(t) PROVE Kept
  <2> DEFINE j == <<t, "hand">>
             w == job[j].at
  <2>1. job[j].pc = "check" /\ UNCHANGED task /\ w \in Workers
    BY <1>0, <1>2, JobFields DEF HandCheck, Nowhere
  <2>2. RowsKept BY <2>1, RowsSame
  <2>3. CASE machine[w].state = "ready"
    <3>1. job' = [job EXCEPT ![j] = Now(j, "parkQ")] /\ poolLock' = Enter(w, j)
      BY <1>2, <2>3 DEF HandCheck
    <3>2. Now(j, "parkQ").pc = "parkQ" /\ Now(j, "parkQ").at = w BY Fields
    <3> QED BY <1>0, <2>1, <2>2, <3>1, <3>2, Queues DEF LockSteps, Claimants
  <2>4. CASE machine[w].state # "ready"
    <3>1. job' = [job EXCEPT ![j] = Idle] /\ UNCHANGED poolLock BY <1>2, <2>4 DEF HandCheck
    <3>2. Idle.pc = "idle" BY Fields
    <3> QED BY <1>0, <2>1, <2>2, <3>1, <3>2, Rests DEF LockSteps, Claimants
  <2> QED BY <2>3, <2>4
<1>3. ASSUME keepTaskAwake(t) PROVE Kept
  BY <1>3, RowsSame, Resting DEF keepTaskAwake
<1>4. ASSUME wakeTask(t) PROVE Kept
  <2> DEFINE j == <<t, "wake">>
             w == task[t].worker
  <2>1. /\ job[j].pc = "idle" /\ w # NoWorker /\ job' = [job EXCEPT ![j] = At("wakeQ", w)]
        /\ poolLock' = Enter(w, j) /\ UNCHANGED task
    BY <1>4 DEF wakeTask
  <2>2. At("wakeQ", w).pc = "wakeQ" /\ At("wakeQ", w).at = w BY Fields
  <2>3. w \in Workers BY <2>1, TaskFields DEF Refs
  <2> QED BY <1>0, <2>1, <2>2, <2>3, RowsSame, Queues DEF LockSteps, Claimants
<1>5. ASSUME parkDue(t) PROVE Kept
  <2> DEFINE j == <<t, "due">>
             w == task[t].worker
  <2>1. RowsKept BY <1>5, RowsSame DEF parkDue
  <2>2. CASE w = NoWorker BY <1>5, <2>1, <2>2, Resting DEF parkDue
  <2>3. CASE w # NoWorker
    <3>1. job[j].pc = "idle" /\ job' = [job EXCEPT ![j] = At("parkQ", w)] /\ poolLock' = Enter(w, j)
      BY <1>5, <2>3 DEF parkDue
    <3>2. At("parkQ", w).pc = "parkQ" /\ At("parkQ", w).at = w BY Fields
    <3>3. w \in Workers BY <2>3, TaskFields DEF Refs
    <3> QED BY <1>0, <2>1, <3>1, <3>2, <3>3, Queues DEF LockSteps, Claimants
  <2> QED BY <2>2, <2>3
<1> QED BY <1>1, <1>2, <1>3, <1>4, <1>5

(* Parking a machine: the decision under the lock and the stop. *)
LEMMA ParkCarries == ASSUME Base, Tracked, NEW j \in Jobs PROVE
   /\ ParkDecide(j) => Kept
   /\ StopDone(j) => Kept
   /\ StopFails(j) => Kept
<1> DEFINE w == job[j].at
<1>0. job[j].pc \in Parking => j[2] \notin Claimants BY DEF Tracked, Parkers
<1>1. ASSUME ParkDecide(j) PROVE Kept
  <2>1. job[j].pc = "parkQ" /\ Holder(w, j) /\ UNCHANGED task BY <1>1 DEF ParkDecide
  <2>2. RowsKept /\ j[2] \notin Claimants BY <1>0, <2>1, RowsSame DEF Parking
  <2>3. PICK r : /\ job' = [job EXCEPT ![j] = r]
                 /\ \/ r = Step("stopping", w, job[j].seen, machine[w].state) /\ poolLock' = poolLock
                    \/ r = Idle /\ poolLock' = Leave(w)
    BY <1>1 DEF ParkDecide
  <2>4. CASE r = Idle /\ poolLock' = Leave(w)
    <3>1. r.pc = "idle" BY <2>4, Fields
    <3> QED BY <2>1, <2>2, <2>3, <2>4, <3>1, Yields DEF LockSteps
  <2>5. CASE r = Step("stopping", w, job[j].seen, machine[w].state) /\ poolLock' = poolLock
    <3>1. r.pc = "stopping" /\ r.at = w BY <2>5, Fields
    <3> QED BY <2>1, <2>2, <2>3, <2>5, <3>1, Stays DEF LockSteps
  <2> QED BY <2>3, <2>4, <2>5
<1>2. ASSUME StopDone(j) \/ StopFails(j) PROVE Kept
  <2>1. /\ job[j].pc = "stopping" /\ job' = [job EXCEPT ![j] = Idle]
        /\ poolLock' = Leave(w) /\ UNCHANGED task
    BY <1>2 DEF StopDone, StopFails
  <2>2. RowsKept /\ j[2] \notin Claimants BY <1>0, <2>1, RowsSame DEF Parking
  <2>3. Holder(w, j) /\ Idle.pc = "idle" BY <2>1, Fields DEF Base, LockHeld, Locked
  <2> QED BY <2>1, <2>2, <2>3, Yields DEF LockSteps
<1> QED BY <1>1, <1>2

(* releaseTaskWorker, and the reads of the scheduler. *)
LEMMA ReleaseCarries == ASSUME Base, Tracked, NEW t \in Tasks PROVE
   /\ ReleaseTidy(t) => Kept
   /\ ReleaseResume(t) => Kept
   /\ RefreshBegin(t) => Kept
<1>0. <<t, "release">> \in Jobs /\ <<t, "refresh">> \in Jobs BY JobsOf
<1>1. ASSUME ReleaseTidy(t) PROVE Kept
  <2> DEFINE j == <<t, "release">>
             w == job[j].at
  <2>1. job[j].pc = "tidyQ" /\ Holder(w, j) /\ UNCHANGED task BY <1>1 DEF ReleaseTidy
  <2>2. RowsKept BY <2>1, RowsSame
  <2>3. PICK r : /\ job' = [job EXCEPT ![j] = r]
                 /\ \/ r = Now(j, "wait") /\ poolLock' = Leave(w)
                    \/ r = Now(j, "parkQ") /\ poolLock' = LeaveAndEnter(w, j)
    BY <1>1 DEF ReleaseTidy
  <2>4. CASE r = Now(j, "wait") /\ poolLock' = Leave(w)
    <3>1. r.pc = "wait" BY <2>4, Fields
    <3> QED BY <1>0, <2>1, <2>2, <2>3, <2>4, <3>1, Yields DEF LockSteps
  <2>5. CASE r = Now(j, "parkQ") /\ poolLock' = LeaveAndEnter(w, j)
    <3>1. r.pc = "parkQ" /\ r.at = w BY <2>5, Fields
    <3> QED BY <1>0, <2>1, <2>2, <2>3, <2>5, <3>1, Stays DEF LockSteps, Locked, Claimants
  <2> QED BY <2>3, <2>4, <2>5
<1>2. ASSUME ReleaseResume(t) PROVE Kept
  <2> DEFINE j == <<t, "release">>
             w == task[t].worker
  <2>1. job[j].pc = "resume" /\ UNCHANGED task BY <1>2 DEF ReleaseResume
  <2>2. RowsKept BY <2>1, RowsSame
  <2>3. \/ w # NoWorker /\ job' = [job EXCEPT ![j] = At("tidyQ", w)] /\ poolLock' = Enter(w, j)
        \/ job' = [job EXCEPT ![j] = Idle] /\ UNCHANGED poolLock
    BY <1>2 DEF ReleaseResume
  <2>4. CASE w # NoWorker /\ job' = [job EXCEPT ![j] = At("tidyQ", w)] /\ poolLock' = Enter(w, j)
    <3>1. At("tidyQ", w).pc = "tidyQ" /\ At("tidyQ", w).at = w BY Fields
    <3>2. w \in Workers BY <2>4, TaskFields DEF Refs
    <3> QED BY <1>0, <2>1, <2>2, <2>4, <3>1, <3>2, Queues DEF LockSteps, Claimants
  <2>5. CASE job' = [job EXCEPT ![j] = Idle] /\ UNCHANGED poolLock
    <3>1. Idle.pc = "idle" BY Fields
    <3> QED BY <1>0, <2>1, <2>2, <2>5, <3>1, Rests DEF LockSteps, Claimants
  <2> QED BY <2>3, <2>4, <2>5
<1>3. ASSUME RefreshBegin(t) PROVE Kept
  <2> DEFINE j == <<t, "refresh">>
  <2>1. job[j].pc = "idle" /\ UNCHANGED <<task, poolLock>> BY <1>3 DEF RefreshBegin
  <2>3. PICK r : /\ job' = [job EXCEPT ![j] = r]
                 /\ r = Step("derive", task[t].worker, task[t].session, "")
    BY <1>3 DEF RefreshBegin
  <2>2. r.pc = "derive" BY <2>3 DEF Step
  <2> QED BY <1>0, <2>1, <2>2, <2>3, RowsSame, Begins DEF LockSteps, Claimants
<1> QED BY <1>1, <1>2, <1>3

(* A message on its way to a live session. *)
LEMMA LiveCarries == ASSUME Base, Tracked, NEW t \in Tasks, LiveSend(t) PROVE Kept
<1> DEFINE j == <<t, "live">>
<1>0. j \in Jobs BY JobsOf
<1>1. job[j].pc \in {"answer", "interject"} /\ UNCHANGED <<task, poolLock>> BY DEF LiveSend
<1>2. PICK r : job' = [job EXCEPT ![j] = r] /\ (r = Now(j, "answered") \/ r = Idle)
  BY DEF LiveSend
<1>3. r.pc \in {"answered", "idle"} BY <1>2, Fields
<1>4. RowsKept BY <1>1, RowsSame
<1>5. CASE r.pc = "answered" BY <1>0, <1>1, <1>2, <1>4, <1>5, Walks DEF LockSteps
<1>6. CASE r.pc = "idle" BY <1>0, <1>1, <1>2, <1>4, <1>6, Rests DEF LockSteps, Claimants
<1> QED BY <1>3, <1>5, <1>6

(* A step that touches the row and the jobs of task t alone. *)
OthersKept(t) ==
    \A u \in Tasks \ {t} : task'[u].state = task[u].state /\ task'[u].pending = task[u].pending

(* The update of one task's row leaves the other rows. *)
LEMMA OwnRow ==
    ASSUME Base, NEW t \in Tasks, NEW r, task' = [task EXCEPT ![t] = r]
    PROVE  task'[t] = r /\ OthersKept(t)
BY DEF Base, TaskRows, OthersKept

(* ... whichever of its columns it sets. *)
LEMMA OwnFields ==
    ASSUME Base, NEW t \in Tasks
    PROVE  /\ \A s : task' = [task EXCEPT ![t].state = s] =>
                       /\ OthersKept(t)
                       /\ task'[t].state = s /\ task'[t].pending = task[t].pending
           /\ \A p : task' = [task EXCEPT ![t].pending = p] =>
                       /\ OthersKept(t)
                       /\ task'[t].state = task[t].state /\ task'[t].pending = p
           /\ \A s, p, n : task' = [task EXCEPT ![t] = Row(t, s, p, n)] =>
                       /\ OthersKept(t)
                       /\ task'[t].state = s /\ task'[t].pending = p
           /\ UNCHANGED task => /\ OthersKept(t)
                                /\ task'[t].state = task[t].state /\ task'[t].pending = task[t].pending
BY DEF Base, TaskRows, TaskRow, OthersKept, Row

(* The move of one job leaves the task's other jobs and the other tasks'. *)
LEMMA OwnJobs ==
    ASSUME Base, NEW t \in Tasks, NEW k \in Kinds, NEW r, job' = [job EXCEPT ![<<t, k>>] = r]
    PROVE  /\ job'[<<t, k>>] = r
           /\ \A m \in Kinds \ {k} : job'[<<t, m>>] = job[<<t, m>>]
           /\ \A u \in Tasks \ {t}, m \in Kinds : job'[<<u, m>>] = job[<<u, m>>]
<1>1. <<t, k>> \in Jobs BY JobNames
<1>2. job'[<<t, k>>] = r /\ \A i \in Jobs \ {<<t, k>>} : job'[i] = job[i]
  BY <1>1 DEF Base, JobRows
<1>3. \A m \in Kinds \ {k} : <<t, m>> \in Jobs \ {<<t, k>>} BY JobNames
<1>4. \A u \in Tasks \ {t}, m \in Kinds : <<u, m>> \in Jobs \ {<<t, k>>} BY JobNames
<1> QED BY <1>2, <1>3, <1>4

(* A step of task t alone has only t's own row and jobs to answer for. *)
LEMMA OwnTracked ==
    ASSUME Base, Tracked, NEW t \in Tasks, OthersKept(t),
           \A u \in Tasks \ {t}, m \in Claimants \cup {"live"} : job'[<<u, m>>] = job[<<u, m>>],
           TaskJobs(t)', Parkers'
    PROVE  Tracked'
<1>1. ASSUME NEW u \in Tasks \ {t} PROVE TaskJobs(u)'
  <2>1. TaskJobs(u) BY DEF Tracked
  <2>2. /\ job'[<<u, "run">>] = job[<<u, "run">>] /\ job'[<<u, "accept">>] = job[<<u, "accept">>]
        /\ job'[<<u, "drop">>] = job[<<u, "drop">>] /\ job'[<<u, "reply">>] = job[<<u, "reply">>]
        /\ job'[<<u, "live">>] = job[<<u, "live">>]
    BY DEF Claimants
  <2>3. task'[u].state = task[u].state /\ task'[u].pending = task[u].pending BY DEF OthersKept
  <2> QED BY <2>1, <2>2, <2>3 DEF TaskJobs
<1> QED BY <1>1 DEF Tracked

(* A step of one job of task t, with its row. *)
LEMMA OwnJob ==
    ASSUME Base, Tracked, NEW t \in Tasks, NEW k \in Kinds, NEW r, job' = [job EXCEPT ![<<t, k>>] = r],
           OthersKept(t), r.pc \in Parking => k \notin Claimants,
           ChainMove(<<t, k>>, r), TaskJobs(t)'
    PROVE  Kept
<1>0. <<t, k>> \in Jobs /\ <<t, k>>[2] = k BY JobNames
<1>1. /\ job'[<<t, k>>] = r
      /\ \A m \in Kinds \ {k} : job'[<<t, m>>] = job[<<t, m>>]
      /\ \A u \in Tasks \ {t}, m \in Kinds : job'[<<u, m>>] = job[<<u, m>>]
  BY OwnJobs
<1>2. \A u \in Tasks \ {t}, m \in Claimants \cup {"live"} : job'[<<u, m>>] = job[<<u, m>>]
  BY <1>1 DEF Claimants, Kinds
<1>3. Parkers'
  <2> SUFFICES ASSUME NEW i \in Jobs, job'[i].pc \in Parking PROVE i[2] \notin Claimants
    BY DEF Parkers
  <2>1. job' \in [Jobs -> {r} \cup JobRow] /\ \A i2 \in Jobs \ {<<t, k>>} : job'[i2] = job[i2]
    BY <1>0 DEF Base, JobRows
  <2>2. CASE i = <<t, k>> BY <1>0, <1>1, <2>2
  <2>3. CASE i # <<t, k>> BY <2>1, <2>3 DEF Tracked, Parkers
  <2> QED BY <2>2, <2>3
<1>4. Tracked' BY <1>2, <1>3, OwnTracked
<1>5. ChainStep BY <1>0, ChainMoves
<1> QED BY <1>4, <1>5 DEF Kept

(* ... with a second job of the task queued on the pool lock. *)
LEMMA TwoJobs ==
    ASSUME Base, Tracked, NEW t \in Tasks, NEW k \in Kinds, NEW m \in Kinds \ ({k} \cup Claimants \cup {"live"}),
           NEW r, NEW s, job' = [job EXCEPT ![<<t, k>>] = r, ![<<t, m>>] = s],
           OthersKept(t), TaskJobs(t)',
           job[<<t, k>>].pc \notin LockSteps, r.pc \notin LockSteps,
           job[<<t, m>>].pc \notin LockSteps, s.pc \in LockSteps \ Locked, s.at \in Workers,
           poolLock' = Enter(s.at, <<t, m>>)
    PROVE  Kept
<1>0. /\ <<t, k>> \in Jobs /\ <<t, m>> \in Jobs /\ <<t, k>> # <<t, m>>
      /\ <<t, k>>[2] = k /\ <<t, m>>[2] = m
  BY JobNames
<1>1. /\ job'[<<t, k>>] = r /\ job'[<<t, m>>] = s
      /\ \A i \in Jobs \ {<<t, k>>, <<t, m>>} : job'[i] = job[i]
  BY <1>0 DEF Base, JobRows
<1>2. \A u \in Tasks \ {t}, c \in Claimants \cup {"live"} : job'[<<u, c>>] = job[<<u, c>>]
  <2> SUFFICES ASSUME NEW u \in Tasks \ {t}, NEW c \in Claimants \cup {"live"}
               PROVE  job'[<<u, c>>] = job[<<u, c>>]
    OBVIOUS
  <2>1. <<u, c>> \in Jobs \ {<<t, k>>, <<t, m>>} BY JobNames DEF Claimants, Kinds
  <2> QED BY <1>1, <2>1
<1>3. Parkers'
  <2> SUFFICES ASSUME NEW i \in Jobs, job'[i].pc \in Parking PROVE i[2] \notin Claimants
    BY DEF Parkers
  <2>1. CASE i = <<t, k>> BY <1>1, <2>1 DEF Parking, LockSteps
  <2>2. CASE i = <<t, m>> BY <1>0, <2>2
  <2>3. CASE i # <<t, k>> /\ i # <<t, m>> BY <1>1, <2>3 DEF Tracked, Parkers
  <2> QED BY <2>1, <2>2, <2>3
<1>4. Tracked' BY <1>2, <1>3, OwnTracked
<1>5. \A i \in Jobs \ {<<t, m>>} : Bystander(i)
  <2> SUFFICES ASSUME NEW i \in Jobs \ {<<t, m>>} PROVE Bystander(i) OBVIOUS
  <2>1. CASE i = <<t, k>> BY <1>1, <2>1 DEF Bystander, Off
  <2>2. CASE i # <<t, k>> BY <1>1, <2>2 DEF Bystander
  <2> QED BY <2>1, <2>2
<1>6. Joins(<<t, m>>) BY <1>1 DEF Joins, Off
<1>7. ChainStep BY <1>0, <1>5, <1>6 DEF ChainStep
<1> QED BY <1>4, <1>7 DEF Kept

(* A move outside the lock, as a move of the chains. *)
LEMMA OffMove ==
    ASSUME NEW j \in Jobs, NEW r, job[j].pc \notin LockSteps, r.pc \notin LockSteps, UNCHANGED poolLock
    PROVE  ChainMove(j, r)
BY DEF ChainMove, Off

(* A job that joins a chain, as a move of the chains. *)
LEMMA JoinMove ==
    ASSUME NEW j \in Jobs, NEW r, job[j].pc \notin LockSteps, r.pc \in LockSteps \ Locked,
           r.at \in Workers, poolLock' = Enter(r.at, j)
    PROVE  ChainMove(j, r)
BY DEF ChainMove, Off

(* createTask: the row is queued in the step that starts its run. *)
LEMMA CreateCarries == ASSUME Base, Tracked, NEW t \in Tasks, createTask(t) PROVE Kept
<1> DEFINE j == <<t, "run">>
           r == At("pick", NoWorker)
<1>0. j \in Jobs /\ "run" \in Kinds BY JobsOf DEF Kinds
<1>1. task[t].state = "none" /\ task' = [task EXCEPT ![t].state = "queued"] /\ UNCHANGED poolLock
      /\ job' = [job EXCEPT ![j] = r]
  BY DEF createTask
<1>2. r.pc = "pick" BY Fields
<1>3. OthersKept(t) /\ task'[t].state = "queued" /\ task'[t].pending = task[t].pending
  BY <1>1, OwnFields
<1>4. job'[j] = r /\ \A m \in Kinds \ {"run"} : job'[<<t, m>>] = job[<<t, m>>]
  BY <1>0, <1>1, JobNames DEF Base, JobRows
<1>5. TaskJobs(t) /\ job[j].pc = "idle" BY <1>1 DEF Tracked, TaskJobs
<1>6. TaskJobs(t)' BY <1>1, <1>2, <1>3, <1>4, <1>5 DEF TaskJobs, Kinds
<1>7. ChainMove(j, r) BY <1>0, <1>1, <1>2, <1>5, OffMove DEF LockSteps
<1> QED BY <1>0, <1>1, <1>2, <1>3, <1>6, <1>7, OwnJob DEF Parking

(* runTask started again by recoverInterruptedTasks. *)
LEMMA ResumeCarries == ASSUME Base, Tracked, NEW t \in Tasks, RunResume(t) PROVE Kept
<1> DEFINE j == <<t, "run">>
           w == task[t].worker
<1>0. j \in Jobs /\ "run" \in Kinds /\ job[j].pc = "resume" BY JobsOf DEF Kinds, RunResume
<1>1. TaskJobs(t) BY DEF Tracked
<1>2. CASE task[t].state # "queued" \/ (w # NoWorker /\ \E n \in 1..MaxSessions : <<t, n>> \in rows)
  <2>1. PICK r : r = Idle OBVIOUS
  <2>2. job' = [job EXCEPT ![j] = r] /\ UNCHANGED poolLock /\ r.pc = "idle"
    BY <1>2, <2>1, Fields DEF RunResume
  <2>3. OthersKept(t) /\ task'[t].state # "queued" /\ task'[t].pending = task[t].pending
        /\ (task'[t].state = "none" => task[t].state = "none")
    <3>1. CASE task[t].state # "queued"
      <4>1. UNCHANGED task BY <1>2, <3>1 DEF RunResume
      <4> QED BY <3>1, <4>1, OwnFields
    <3>2. CASE task[t].state = "queued"
      <4>1. PICK n : task' = [task EXCEPT ![t] = Row(t, "running", task[t].pending, n)]
        BY <1>2, <3>2 DEF RunResume
      <4> QED BY <3>2, <4>1 DEF Base, TaskRows, TaskRow, OthersKept, Row
    <3> QED BY <3>1, <3>2
  <2>4. job'[j] = r /\ \A m \in Kinds \ {"run"} : job'[<<t, m>>] = job[<<t, m>>]
    BY <1>0, <2>2, JobNames DEF Base, JobRows
  <2>5. TaskJobs(t)' BY <1>0, <1>1, <2>2, <2>3, <2>4 DEF TaskJobs, Kinds
  <2>6. ChainMove(j, r) BY <1>0, <2>2, OffMove DEF LockSteps
  <2> QED BY <1>0, <2>2, <2>3, <2>5, <2>6, OwnJob DEF Parking
<1>3. CASE task[t].state = "queued" /\ w = NoWorker
  <2>1. job' = [job EXCEPT ![j] = At("pick", NoWorker)] /\ UNCHANGED <<task, poolLock>>
    BY <1>3 DEF RunResume
  <2>2. At("pick", NoWorker).pc = "pick" BY Fields
  <2> QED BY <1>0, <2>1, <2>2, RowsSame, Walks DEF LockSteps
<1>4. CASE task[t].state = "queued" /\ w # NoWorker /\ ~\E n \in 1..MaxSessions : <<t, n>> \in rows
  <2>1. PICK r : /\ job' = [job EXCEPT ![j] = r]
                 /\ r = Step("wakeQ", w, 0, IF w \in older[t] THEN "recycled" ELSE "")
    BY <1>4 DEF RunResume
  <2>2. poolLock' = Enter(w, j) /\ UNCHANGED task BY <1>4 DEF RunResume
  <2>3. r.pc = "wakeQ" /\ r.at = w BY <2>1 DEF Step
  <2>4. w \in Workers BY <1>4, TaskFields DEF Refs
  <2>5. RowsKept BY <2>2, RowsSame
  <2> QED BY <1>0, <2>1, <2>2, <2>3, <2>4, <2>5, Queues DEF LockSteps
<1> QED BY <1>2, <1>3, <1>4

(* The row of a started run is written, or the run unwinds. *)
LEMMA RecordCarries == ASSUME Base, Tracked, NEW t \in Tasks PROVE
   /\ RunRecord(t) => Kept
   /\ RunUnwind(t) => Kept
   /\ ReplyRecord(t) => Kept
   /\ LiveRecord(t) => Kept
<1>0. TaskJobs(t) BY DEF Tracked
<1>1. ASSUME RunRecord(t) PROVE Kept
  <2> DEFINE j == <<t, "run">>
  <2>0. j \in Jobs /\ "run" \in Kinds /\ job[j].pc = "record" /\ UNCHANGED poolLock
    BY <1>1, JobsOf DEF Kinds, RunRecord
  <2>1. PICK r : job' = [job EXCEPT ![j] = r] /\ r = (IF stillQueued(t) THEN Idle ELSE Now(j, "unwind"))
    BY <1>1 DEF RunRecord
  <2>2. r.pc = IF stillQueued(t) THEN "idle" ELSE "unwind" BY <2>1, Fields
  <2>3. OthersKept(t) /\ task'[t].pending = task[t].pending
        /\ task'[t].state = IF stillQueued(t) THEN "running" ELSE task[t].state
    <3>1. CASE stillQueued(t)
      <4>1. task' = [task EXCEPT ![t] = Row(t, "running", task[t].pending, job[j].seen)]
        BY <1>1, <3>1 DEF RunRecord
      <4> QED BY <3>1, <4>1 DEF Base, TaskRows, TaskRow, OthersKept, Row
    <3>2. CASE ~stillQueued(t)
      <4>1. UNCHANGED task BY <1>1, <3>2 DEF RunRecord
      <4> QED BY <3>2, <4>1, OwnFields
    <3> QED BY <3>1, <3>2
  <2>4. job'[j] = r /\ \A m \in Kinds \ {"run"} : job'[<<t, m>>] = job[<<t, m>>]
    BY <2>0, <2>1, JobNames DEF Base, JobRows
  <2>5. TaskJobs(t)' BY <1>0, <2>0, <2>2, <2>3, <2>4 DEF TaskJobs, Kinds, stillQueued
  <2>6. ChainMove(j, r) BY <2>0, <2>2, OffMove DEF LockSteps
  <2> QED BY <2>0, <2>1, <2>2, <2>3, <2>5, <2>6, OwnJob DEF Parking
<1>2. ASSUME RunUnwind(t) PROVE Kept
  <2> DEFINE j == <<t, "run">>
  <2>0. /\ j \in Jobs /\ "run" \in Kinds /\ job[j].pc = "unwind"
        /\ UNCHANGED <<task, poolLock>> /\ job' = [job EXCEPT ![j] = Idle]
    BY <1>2, JobsOf DEF Kinds, RunUnwind
  <2>1. Idle.pc = "idle" BY Fields
  <2>3. OthersKept(t) /\ task'[t].pending = task[t].pending /\ task'[t].state = task[t].state
    BY <2>0, OwnFields
  <2>4. job'[j] = Idle /\ \A m \in Kinds \ {"run"} : job'[<<t, m>>] = job[<<t, m>>]
    BY <2>0, JobNames DEF Base, JobRows
  <2>5. TaskJobs(t)' BY <1>0, <2>0, <2>1, <2>3, <2>4 DEF TaskJobs, Kinds
  <2>6. ChainMove(j, Idle) BY <2>0, <2>1, OffMove DEF LockSteps
  <2> QED BY <2>0, <2>1, <2>3, <2>5, <2>6, OwnJob DEF Parking
<1>3. ASSUME ReplyRecord(t) PROVE Kept
  <2> DEFINE j == <<t, "reply">>
  <2>0. /\ j \in Jobs /\ "reply" \in Kinds /\ job[j].pc = "record"
        /\ UNCHANGED poolLock /\ job' = [job EXCEPT ![j] = Idle]
    BY <1>3, JobsOf DEF Kinds, ReplyRecord
  <2>1. Idle.pc = "idle" BY Fields
  <2>3. OthersKept(t) /\ task'[t].pending = cleared(t, "replying")
        /\ task'[t].state = IF stillInReview(t) THEN "running" ELSE task[t].state
    <3>1. PICK s, n : /\ task' = [task EXCEPT ![t] = Row(t, s, cleared(t, "replying"), n)]
                      /\ s = IF stillInReview(t) THEN "running" ELSE task[t].state
      <4>1. CASE stillInReview(t) BY <1>3, <4>1 DEF ReplyRecord
      <4>2. CASE ~stillInReview(t) BY <1>3, <4>2 DEF ReplyRecord
      <4> QED BY <4>1, <4>2
    <3> QED BY <3>1 DEF Base, TaskRows, TaskRow, OthersKept, Row
  <2>4. job'[j] = Idle /\ \A m \in Kinds \ {"reply"} : job'[<<t, m>>] = job[<<t, m>>]
    BY <2>0, JobNames DEF Base, JobRows
  <2>5. TaskJobs(t)'
    BY <1>0, <2>0, <2>1, <2>3, <2>4 DEF TaskJobs, Kinds, stillInReview, cleared
  <2>6. ChainMove(j, Idle) BY <2>0, <2>1, OffMove DEF LockSteps
  <2> QED BY <2>0, <2>1, <2>3, <2>5, <2>6, OwnJob DEF Parking
<1>4. ASSUME LiveRecord(t) PROVE Kept
  <2> DEFINE j == <<t, "live">>
  <2>0. /\ j \in Jobs /\ "live" \in Kinds /\ job[j].pc = "answered"
        /\ UNCHANGED poolLock /\ job' = [job EXCEPT ![j] = Idle]
        /\ task' = [task EXCEPT ![t].state = "running"]
    BY <1>4, JobsOf DEF Kinds, LiveRecord
  <2>1. Idle.pc = "idle" BY Fields
  <2>3. OthersKept(t) /\ task'[t].pending = task[t].pending /\ task'[t].state = "running"
    BY <2>0, OwnFields
  <2>4. job'[j] = Idle /\ \A m \in Kinds \ {"live"} : job'[<<t, m>>] = job[<<t, m>>]
    BY <2>0, JobNames DEF Base, JobRows
  <2>5. TaskJobs(t)' BY <1>0, <2>0, <2>1, <2>3, <2>4 DEF TaskJobs, Kinds
  <2>6. ChainMove(j, Idle) BY <2>0, <2>1, OffMove DEF LockSteps
  <2> QED BY <2>0, <2>1, <2>3, <2>5, <2>6, OwnJob DEF Parking
<1> QED BY <1>1, <1>2, <1>3, <1>4

(* A machine is ready: the job that waited goes on, unless its run has lost *)
(* its task.                                                                *)
LEMMA WaitCarries == ASSUME Base, Tracked, NEW j \in Jobs, WaitReady(j) PROVE Kept
<1> DEFINE w == job[j].at
<1>0. PICK t \in Tasks, k \in Kinds : j = <<t, k>> BY JobNames
<1>1. job[j].pc = "wait" /\ w \in Workers /\ UNCHANGED task BY JobFields DEF WaitReady, Nowhere
<1>2. RowsKept BY <1>1, RowsSame
<1>3. CASE j[2] = "run" /\ task[j[1]].state # "queued"
  <2>1. job' = [job EXCEPT ![j] = Idle] /\ UNCHANGED poolLock BY <1>3 DEF WaitReady
  <2>2. Idle.pc = "idle" BY Fields
  <2>3. k = "run" /\ j = <<t, "run">> /\ "run" \in Kinds /\ task[t].state # "queued" BY <1>0, <1>3 DEF Kinds
  <2>4. OthersKept(t) /\ task'[t].pending = task[t].pending /\ task'[t].state = task[t].state
    BY <1>1, OwnFields
  <2>5. job'[j] = Idle /\ \A m \in Kinds \ {"run"} : job'[<<t, m>>] = job[<<t, m>>]
    BY <2>1, <2>3, JobNames DEF Base, JobRows
  <2>6. TaskJobs(t) BY DEF Tracked
  <2>7. TaskJobs(t)' BY <2>2, <2>3, <2>4, <2>5, <2>6 DEF TaskJobs, Kinds
  <2>8. ChainMove(j, Idle) BY <1>1, <2>1, <2>2, OffMove DEF LockSteps
  <2> QED BY <2>1, <2>2, <2>3, <2>4, <2>7, <2>8, OwnJob DEF Parking
<1>4. CASE ~(j[2] = "run" /\ task[j[1]].state # "queued") /\ j[2] # "release"
  <2>1. job' = [job EXCEPT ![j] = Now(j, AfterWait(j))] /\ UNCHANGED poolLock BY <1>4 DEF WaitReady
  <2>2. AfterWait(j) \in {"reset", "launch", "exec"} BY <1>4 DEF AfterWait
  <2>3. Now(j, AfterWait(j)).pc \in {"reset", "launch", "exec"} BY <2>2, Fields
  <2> QED BY <1>1, <1>2, <2>1, <2>3, Walks DEF LockSteps
<1>5. CASE j[2] = "release"
  <2>1. job' = [job EXCEPT ![j] = Now(j, AfterWait(j))] /\ poolLock' = Enter(w, j) BY <1>5 DEF WaitReady
  <2>2. AfterWait(j) = "parkQ" BY <1>5 DEF AfterWait
  <2>3. Now(j, AfterWait(j)).pc = "parkQ" /\ Now(j, AfterWait(j)).at = w BY <2>2, Fields
  <2> QED BY <1>1, <1>2, <1>5, <2>1, <2>3, Queues DEF LockSteps, Claimants
<1> QED BY <1>3, <1>4, <1>5

(* A job that ends queues the task's release. *)
LEMMA ReleaseQueues ==
    ASSUME Base, Tracked, NEW t \in Tasks, NEW k \in Kinds \ {"release"},
           job' = [job EXCEPT ![<<t, k>>] = Idle, ![<<t, "release">>] = At("tidyQ", task[t].worker)],
           poolLock' = Enter(task[t].worker, <<t, "release">>), Releasable(t),
           OthersKept(t), TaskJobs(t)', job[<<t, k>>].pc \notin LockSteps
    PROVE  Kept
<1>1. "release" \in Kinds \ ({k} \cup Claimants \cup {"live"}) BY DEF Kinds, Claimants
<1>2. task[t].worker \in Workers /\ job[<<t, "release">>].pc = "idle"
  BY TaskFields DEF Releasable, Refs
<1>3. PICK s : s = At("tidyQ", task[t].worker) OBVIOUS
<1>4. s.pc = "tidyQ" /\ s.at = task[t].worker BY <1>3, Fields
<1>5. Idle.pc = "idle" BY Fields
<1>6. s.at \in Workers /\ s.pc \in LockSteps \ Locked BY <1>2, <1>4 DEF LockSteps, Locked
<1>7. job' = [job EXCEPT ![<<t, k>>] = Idle, ![<<t, "release">>] = s] /\ poolLock' = Enter(s.at, <<t, "release">>)
  BY <1>3, <1>4
<1>8. Idle.pc \notin LockSteps /\ job[<<t, "release">>].pc \notin LockSteps BY <1>2, <1>5 DEF LockSteps
<1> QED BY <1>1, <1>6, <1>7, <1>8, TwoJobs

(* failTask: the row fails in the step that ends its job. *)
LEMMA FailCarries ==
    ASSUME Base, Tracked, NEW t \in Tasks, NEW k \in {"run", "drop"}, FailTask(t, <<t, k>>),
           job[<<t, k>>].pc \notin LockSteps
    PROVE  Kept
<1> DEFINE p == IF k = "drop" THEN cleared(t, "dropping") ELSE task[t].pending
<1>0. /\ <<t, k>> \in Jobs /\ <<t, "release">> \in Jobs /\ <<t, k>>[2] = k
      /\ k \in Kinds \ {"release"} /\ <<t, k>> # <<t, "release">>
  BY JobsOf DEF Kinds
<1>1. task' = [task EXCEPT ![t] = Row(t, "failed", p, task[t].session)] BY DEF FailTask
<1>2. OthersKept(t) /\ task'[t].pending = p /\ task'[t].state = "failed"
  BY <1>1 DEF Base, TaskRows, TaskRow, OthersKept, Row
<1>3. TaskJobs(t) BY DEF Tracked
<1>4. ASSUME job'[<<t, k>>].pc = "idle",
             \A m \in Kinds \ {k, "release"} : job'[<<t, m>>] = job[<<t, m>>]
      PROVE  TaskJobs(t)'
  BY <1>2, <1>3, <1>4 DEF TaskJobs, Kinds, cleared
<1>5. Idle.pc = "idle" BY Fields
<1>6. CASE Releasable(t)
  <2>1. /\ job' = [job EXCEPT ![<<t, k>>] = Idle, ![<<t, "release">>] = At("tidyQ", task[t].worker)]
        /\ poolLock' = Enter(task[t].worker, <<t, "release">>)
    BY <1>6 DEF FailTask
  <2>2. job'[<<t, k>>] = Idle /\ \A m \in Kinds \ {k, "release"} : job'[<<t, m>>] = job[<<t, m>>]
    BY <1>0, <2>1, JobNames DEF Base, JobRows
  <2>3. TaskJobs(t)' BY <1>4, <1>5, <2>2
  <2> QED BY <1>0, <1>2, <1>6, <2>1, <2>3, ReleaseQueues
<1>7. CASE ~Releasable(t)
  <2>1. job' = [job EXCEPT ![<<t, k>>] = Idle] /\ UNCHANGED poolLock BY <1>7 DEF FailTask
  <2>2. job'[<<t, k>>] = Idle /\ \A m \in Kinds \ {k} : job'[<<t, m>>] = job[<<t, m>>]
    BY <1>0, <2>1, JobNames DEF Base, JobRows
  <2>3. TaskJobs(t)' BY <1>4, <1>5, <2>2
  <2>4. ChainMove(<<t, k>>, Idle) BY <1>0, <1>5, <2>1, OffMove DEF LockSteps
  <2> QED BY <1>0, <1>2, <1>5, <2>1, <2>3, <2>4, OwnJob DEF Parking
<1> QED BY <1>6, <1>7

(* A job that gave up says so on the row it answers for. *)
LEMMA JobFailsCarries == ASSUME Base, Tracked, NEW j \in Jobs, JobFails(j) PROVE Kept
<1>0. PICK t \in Tasks, k \in Kinds : j = <<t, k>> /\ j[1] = t /\ j[2] = k BY JobNames
<1>1. job[j].pc = "failed" BY DEF JobFails
<1>2. CASE k \in {"run", "drop"}
  <2>1. FailTask(t, <<t, k>>) BY <1>0, <1>2 DEF JobFails
  <2> QED BY <1>0, <1>1, <1>2, <2>1, FailCarries DEF LockSteps
<1>3. CASE k \in {"accept", "reply"}
  <2> DEFINE p == cleared(t, IF k = "accept" THEN "accepting" ELSE "replying")
  <2>1. task' = [task EXCEPT ![t].pending = p] /\ job' = [job EXCEPT ![j] = Idle] /\ UNCHANGED poolLock
    BY <1>0, <1>3 DEF JobFails
  <2>2. OthersKept(t) /\ task'[t].pending = p /\ task'[t].state = task[t].state
    BY <2>1 DEF Base, TaskRows, TaskRow, OthersKept
  <2>3. job'[<<t, k>>] = Idle /\ \A m \in Kinds \ {k} : job'[<<t, m>>] = job[<<t, m>>]
    BY <1>0, <2>1, JobNames DEF Base, JobRows
  <2>4. TaskJobs(t) /\ Idle.pc = "idle" BY Fields DEF Tracked
  <2>5. TaskJobs(t)' BY <1>0, <1>1, <1>3, <2>2, <2>3, <2>4 DEF TaskJobs, Kinds, cleared
  <2>6. ChainMove(j, Idle) BY <1>1, <2>1, <2>4, OffMove DEF LockSteps
  <2> QED BY <1>0, <2>1, <2>2, <2>4, <2>5, <2>6, OwnJob DEF Parking
<1>4. CASE k \notin {"run", "drop", "accept", "reply"}
  <2>1. job' = [job EXCEPT ![j] = Idle] /\ UNCHANGED <<task, poolLock>>
    BY <1>0, <1>4 DEF JobFails
  <2>2. Idle.pc = "idle" /\ RowsKept BY <2>1, Fields, RowsSame
  <2> QED BY <1>0, <1>1, <1>4, <2>1, <2>2, Rests DEF LockSteps, Claimants
<1> QED BY <1>2, <1>3, <1>4

(* decideTask: the row is done and the acceptance over in one step. *)
LEMMA DecideCarries ==
    ASSUME Base, Tracked, NEW t \in Tasks, NEW p, p = "none" \/ p = cleared(t, "accepting"),
           Decide(t, p), job[<<t, "accept">>].pc \notin LockSteps
    PROVE  Kept
<1> DEFINE now == IF stillInReview(t) THEN "done" ELSE task[t].state
           j == <<t, "accept">>
<1>0. /\ j \in Jobs /\ <<t, "release">> \in Jobs
      /\ "accept" \in Kinds \ {"release"} /\ j # <<t, "release">>
  BY JobsOf DEF Kinds
<1>1. task' = [task EXCEPT ![t] = Row(t, now, p, task[t].session)] BY DEF Decide
<1>2. OthersKept(t) /\ task'[t].pending = p /\ task'[t].state = now
  BY <1>1 DEF Base, TaskRows, TaskRow, OthersKept, Row
<1>3. TaskJobs(t) BY DEF Tracked
<1>4. ASSUME job'[j].pc = "idle",
             \A m \in Kinds \ {"accept", "release"} : job'[<<t, m>>] = job[<<t, m>>]
      PROVE  TaskJobs(t)'
  BY <1>2, <1>3, <1>4 DEF TaskJobs, Kinds, cleared, stillInReview
<1>5. Idle.pc = "idle" BY Fields
<1>6. CASE Releasable(t) /\ now \notin LiveStates
  <2>1. /\ job' = [job EXCEPT ![j] = Idle, ![<<t, "release">>] = At("tidyQ", task[t].worker)]
        /\ poolLock' = Enter(task[t].worker, <<t, "release">>)
    BY <1>6 DEF Decide
  <2>2. job'[j] = Idle /\ \A m \in Kinds \ {"accept", "release"} : job'[<<t, m>>] = job[<<t, m>>]
    BY <1>0, <2>1, JobNames DEF Base, JobRows
  <2>3. TaskJobs(t)' BY <1>4, <1>5, <2>2
  <2> QED BY <1>0, <1>2, <1>6, <2>1, <2>3, ReleaseQueues
<1>7. CASE ~(Releasable(t) /\ now \notin LiveStates)
  <2>1. job' = [job EXCEPT ![j] = Idle] /\ UNCHANGED poolLock BY <1>7 DEF Decide
  <2>2. job'[j] = Idle /\ \A m \in Kinds \ {"accept"} : job'[<<t, m>>] = job[<<t, m>>]
    BY <1>0, <2>1, JobNames DEF Base, JobRows
  <2>3. TaskJobs(t)' BY <1>4, <1>5, <2>2
  <2>4. ChainMove(j, Idle) BY <1>0, <1>5, <2>1, OffMove DEF LockSteps
  <2> QED BY <1>0, <1>2, <1>5, <2>1, <2>3, <2>4, OwnJob DEF Parking
<1> QED BY <1>6, <1>7

(* validateTask, its command and its decision. *)
LEMMA AcceptCarries == ASSUME Base, Tracked, NEW t \in Tasks PROVE
   /\ validateTask(t) => Kept
   /\ AcceptRan(t) => Kept
<1> DEFINE j == <<t, "accept">>
<1>0. j \in Jobs /\ "accept" \in Kinds /\ TaskJobs(t) BY JobsOf DEF Kinds, Tracked
<1>1. ASSUME validateTask(t) PROVE Kept
  <2>0. job[j].pc = "idle" /\ task[t].state = "in-review" BY <1>1 DEF validateTask
  <2>1. CASE ~AcceptCommand
    <3>1. Decide(t, "none") BY <1>1, <2>1 DEF validateTask
    <3> QED BY <2>0, <3>1, DecideCarries DEF LockSteps
  <2>2. CASE AcceptCommand
    <3>1. task' = [task EXCEPT ![t].pending = "accepting"] BY <1>1, <2>2 DEF validateTask
    <3>2. PICK r : /\ job' = [job EXCEPT ![j] = r]
                   /\ \/ r = Now(j, "failed") /\ UNCHANGED poolLock
                      \/ /\ r = At("wakeQ", task[t].worker) /\ task[t].worker # NoWorker
                         /\ poolLock' = Enter(task[t].worker, j)
      BY <1>1, <2>2 DEF validateTask
    <3>3. \/ r.pc = "failed" /\ UNCHANGED poolLock
          \/ /\ r.pc = "wakeQ" /\ r.at = task[t].worker /\ r.at \in Workers
             /\ poolLock' = Enter(r.at, j)
      BY <3>2, Fields, TaskFields DEF Refs
    <3>4. OthersKept(t) /\ task'[t].pending = "accepting" /\ task'[t].state = "in-review"
      BY <2>0, <3>1 DEF Base, TaskRows, TaskRow, OthersKept
    <3>5. job'[j] = r /\ \A m \in Kinds \ {"accept"} : job'[<<t, m>>] = job[<<t, m>>]
      BY <1>0, <3>2, JobNames DEF Base, JobRows
    <3>6. TaskJobs(t)' BY <1>0, <2>0, <3>3, <3>4, <3>5 DEF TaskJobs, Kinds
    <3>7. ChainMove(j, r) BY <1>0, <2>0, <3>3, OffMove, JoinMove DEF LockSteps, Locked
    <3> QED BY <1>0, <3>2, <3>3, <3>4, <3>6, <3>7, OwnJob DEF Parking
  <2> QED BY <2>1, <2>2
<1>2. ASSUME AcceptRan(t) PROVE Kept
  <2>0. job[j].pc = "exec" BY <1>2 DEF AcceptRan
  <2>1. CASE Decide(t, cleared(t, "accepting")) BY <2>0, <2>1, DecideCarries DEF LockSteps
  <2>2. CASE /\ task' = [task EXCEPT ![t].pending = cleared(t, "accepting")]
             /\ job' = [job EXCEPT ![j] = Idle] /\ UNCHANGED poolLock
    <3>1. OthersKept(t) /\ task'[t].pending = cleared(t, "accepting") /\ task'[t].state = task[t].state
      BY <2>2 DEF Base, TaskRows, TaskRow, OthersKept
    <3>2. job'[j] = Idle /\ \A m \in Kinds \ {"accept"} : job'[<<t, m>>] = job[<<t, m>>]
      BY <1>0, <2>2, JobNames DEF Base, JobRows
    <3>3. Idle.pc = "idle" BY Fields
    <3>4. TaskJobs(t)' BY <1>0, <3>1, <3>2, <3>3 DEF TaskJobs, Kinds, cleared
    <3>5. ChainMove(j, Idle) BY <1>0, <2>0, <2>2, <3>3, OffMove DEF LockSteps
    <3> QED BY <1>0, <2>2, <3>1, <3>3, <3>4, <3>5, OwnJob DEF Parking
  <2> QED BY <1>2, <2>1, <2>2 DEF AcceptRan
<1> QED BY <1>1, <1>2

(* cancelTask past the kill: the command's machine, or the failure at once. *)
LEMMA DropNextCarries ==
    ASSUME Base, Tracked, NEW t \in Tasks, DropNext(t, <<t, "drop">>), job[<<t, "drop">>].pc \in {"idle", "kill"}
    PROVE  Kept
<1> DEFINE j == <<t, "drop">>
           w == task[t].worker
           p == IF job[j].pc = "idle" THEN "dropping" ELSE task[t].pending
<1>0. j \in Jobs /\ "drop" \in Kinds /\ TaskJobs(t) BY JobsOf DEF Kinds, Tracked
<1>1. CASE ~(DropCommand /\ w # NoWorker)
  <2>1. FailTask(t, j) BY <1>1 DEF DropNext
  <2> QED BY <2>1, FailCarries DEF LockSteps
<1>2. CASE DropCommand /\ w # NoWorker
  <2>1. job' = [job EXCEPT ![j] = At("wakeQ", w)] /\ poolLock' = Enter(w, j) BY <1>2 DEF DropNext
  <2>2. OthersKept(t) /\ task'[t].pending = p /\ task'[t].state = task[t].state
    BY <1>2 DEF DropNext, Base, TaskRows, TaskRow, OthersKept
  <2>3. PICK r : r = At("wakeQ", w) OBVIOUS
  <2>4. r.pc = "wakeQ" /\ r.at = w /\ w \in Workers BY <1>2, <2>3, Fields, TaskFields DEF Refs
  <2>5. job'[j] = r /\ \A m \in Kinds \ {"drop"} : job'[<<t, m>>] = job[<<t, m>>]
    BY <1>0, <2>1, <2>3, JobNames DEF Base, JobRows
  <2>6. TaskJobs(t)' BY <1>0, <2>2, <2>4, <2>5 DEF TaskJobs, Kinds
  <2>7. ChainMove(j, r) BY <1>0, <2>1, <2>4, JoinMove DEF LockSteps, Locked
  <2>8. job' = [job EXCEPT ![j] = r] BY <2>1, <2>3
  <2> QED BY <1>0, <2>2, <2>4, <2>6, <2>7, <2>8, OwnJob DEF Parking
<1> QED BY <1>1, <1>2

(* cancelTask, its kill and its command. *)
LEMMA DropCarries == ASSUME Base, Tracked, NEW t \in Tasks PROVE
   /\ cancelTask(t) => Kept
   /\ DropKill(t) => Kept
   /\ DropRan(t) => Kept
<1> DEFINE j == <<t, "drop">>
<1>0. j \in Jobs /\ "drop" \in Kinds /\ TaskJobs(t) BY JobsOf DEF Kinds, Tracked
<1>1. ASSUME cancelTask(t) PROVE Kept
  <2>0. job[j].pc = "idle" BY <1>1 DEF cancelTask
  <2>1. CASE task[t].session = 0
    <3>1. DropNext(t, j) BY <1>1, <2>1 DEF cancelTask
    <3> QED BY <2>0, <3>1, DropNextCarries
  <2>2. CASE task[t].session # 0
    <3>1. PICK r : /\ r = Step("kill", NoWorker, task[t].session, "")
                   /\ job' = [job EXCEPT ![j] = r]
                   /\ task' = [task EXCEPT ![t].pending = "dropping"] /\ UNCHANGED poolLock
      BY <1>1, <2>2 DEF cancelTask
    <3>2. r.pc = "kill" BY <3>1 DEF Step
    <3>3. OthersKept(t) /\ task'[t].pending = "dropping" /\ task'[t].state = task[t].state
      BY <3>1 DEF Base, TaskRows, TaskRow, OthersKept
    <3>4. job'[j] = r /\ \A m \in Kinds \ {"drop"} : job'[<<t, m>>] = job[<<t, m>>]
      BY <1>0, <3>1, JobNames DEF Base, JobRows
    <3>5. TaskJobs(t)' BY <1>0, <3>2, <3>3, <3>4 DEF TaskJobs, Kinds
    <3>6. ChainMove(j, r) BY <1>0, <2>0, <3>1, <3>2, OffMove DEF LockSteps
    <3> QED BY <1>0, <3>1, <3>2, <3>3, <3>5, <3>6, OwnJob DEF Parking
  <2> QED BY <2>1, <2>2
<1>2. ASSUME DropKill(t) PROVE Kept
  BY <1>2, DropNextCarries DEF DropKill
<1>3. ASSUME DropRan(t) PROVE Kept
  <2>1. job[j].pc = "exec" /\ FailTask(t, j) BY <1>3 DEF DropRan
  <2> QED BY <2>1, FailCarries DEF LockSteps
<1> QED BY <1>1, <1>2, <1>3

(* followUpTask and the row of the session it resumes. *)
LEMMA ReplyCarries == ASSUME Base, Tracked, NEW t \in Tasks PROVE
   /\ followUpLive(t) => Kept
   /\ followUpTask(t) => Kept
<1>0. TaskJobs(t) BY DEF Tracked
<1>1. ASSUME followUpLive(t) PROVE Kept
  <2> DEFINE j == <<t, "live">>
  <2>0. /\ j \in Jobs /\ "live" \in Kinds /\ job[j].pc = "idle" /\ UNCHANGED <<task, poolLock>>
        /\ task[t].state \in {"running", "in-review"}
    BY <1>1, JobsOf DEF Kinds, followUpLive
  <2>1. PICK r, pc : /\ job' = [job EXCEPT ![j] = r] /\ pc \in {"interject", "answer"}
                     /\ r = Step(pc, task[t].worker, task[t].session, "")
    BY <1>1 DEF followUpLive
  <2>2. r.pc \in {"interject", "answer"} BY <2>1 DEF Step
  <2>3. OthersKept(t) /\ task'[t].pending = task[t].pending /\ task'[t].state = task[t].state
    BY <2>0, OwnFields
  <2>4. job'[j] = r /\ \A m \in Kinds \ {"live"} : job'[<<t, m>>] = job[<<t, m>>]
    BY <2>0, <2>1, JobNames DEF Base, JobRows
  <2>5. TaskJobs(t)' BY <1>0, <2>0, <2>2, <2>3, <2>4 DEF TaskJobs, Kinds
  <2>6. ChainMove(j, r) BY <2>0, <2>2, OffMove DEF LockSteps
  <2> QED BY <2>0, <2>1, <2>2, <2>3, <2>5, <2>6, OwnJob DEF Parking
<1>2. ASSUME followUpTask(t) PROVE Kept
  <2> DEFINE j == <<t, "reply">>
             w == task[t].worker
  <2>0. /\ j \in Jobs /\ "reply" \in Kinds /\ job[j].pc = "idle"
        /\ task[t].state = "in-review" /\ w \in Workers
    BY <1>2, JobsOf, TaskFields DEF Kinds, followUpTask, Refs
  <2>1. PICK r : /\ r = At("wakeQ", w) /\ job' = [job EXCEPT ![j] = r] /\ poolLock' = Enter(w, j)
                 /\ task' = [task EXCEPT ![t].pending = "replying"]
    BY <1>2 DEF followUpTask
  <2>2. r.pc = "wakeQ" /\ r.at = w BY <2>1, Fields
  <2>3. OthersKept(t) /\ task'[t].pending = "replying" /\ task'[t].state = "in-review"
    BY <2>0, <2>1 DEF Base, TaskRows, TaskRow, OthersKept
  <2>4. job'[j] = r /\ \A m \in Kinds \ {"reply"} : job'[<<t, m>>] = job[<<t, m>>]
    BY <2>0, <2>1, JobNames DEF Base, JobRows
  <2>5. TaskJobs(t)' BY <1>0, <2>0, <2>2, <2>3, <2>4 DEF TaskJobs, Kinds
  <2>6. ChainMove(j, r) BY <2>0, <2>1, <2>2, JoinMove DEF LockSteps, Locked
  <2> QED BY <2>0, <2>1, <2>2, <2>3, <2>5, <2>6, OwnJob DEF Parking
<1> QED BY <1>1, <1>2

(* refreshTask: a conclusion moves only a running task, and starts at most *)
(* one job.                                                                *)
LEMMA RefreshCarries ==
    ASSUME Base, Tracked, NEW t \in Tasks, NEW reads \in BOOLEAN, refreshTask(t, reads)
    PROVE  Kept
<1> DEFINE j == <<t, "refresh">>
           w == task[t].worker
<1>0. /\ j \in Jobs /\ TaskJobs(t) /\ {"refresh", "settle", "release"} \subseteq Kinds
      /\ job[j].pc = "derive"
  BY JobsOf DEF Kinds, Tracked, refreshTask
<1>1. PICK v : /\ v \in {"failed", "in-review", "running"} /\ Conclude(t, v)
  BY DEF refreshTask, Verdicts
<1> DEFINE moves == stillRunning(t) /\ v # "running"
<1>2. task' = [task EXCEPT ![t].state = IF moves THEN v ELSE @] BY <1>1 DEF Conclude
<1>3. /\ OthersKept(t) /\ task'[t].pending = task[t].pending
      /\ task'[t].state = IF moves THEN v ELSE task[t].state
  BY <1>2 DEF Base, TaskRows, TaskRow, OthersKept
<1>4. ASSUME \A m \in Claimants \cup {"live"} : job'[<<t, m>>] = job[<<t, m>>] PROVE TaskJobs(t)'
  BY <1>0, <1>1, <1>3, <1>4 DEF TaskJobs, Claimants, stillRunning
<1>5. Idle.pc = "idle" BY Fields
<1>6. CASE job' = [job EXCEPT ![j] = Idle] /\ UNCHANGED poolLock
  <2>1. \A m \in Kinds \ {"refresh"} : job'[<<t, m>>] = job[<<t, m>>]
    BY <1>0, <1>6, JobNames DEF Base, JobRows
  <2>2. TaskJobs(t)' BY <1>4, <2>1 DEF Claimants, Kinds
  <2>3. ChainMove(j, Idle) BY <1>0, <1>5, <1>6, OffMove DEF LockSteps
  <2> QED BY <1>0, <1>3, <1>5, <1>6, <2>2, <2>3, OwnJob DEF Parking
<1>7. ASSUME NEW k \in {"settle", "release"}, NEW pc \in {"parkQ", "tidyQ"}, w \in Workers,
             job[<<t, k>>].pc = "idle",
             job' = [job EXCEPT ![j] = Idle, ![<<t, k>>] = At(pc, w)], poolLock' = Enter(w, <<t, k>>)
      PROVE  Kept
  <2>1. \A m \in Kinds \ {"refresh", k} : job'[<<t, m>>] = job[<<t, m>>]
    BY <1>0, <1>7, JobNames DEF Base, JobRows
  <2>2. TaskJobs(t)' BY <1>4, <2>1 DEF Claimants, Kinds
  <2>3. PICK s : s = At(pc, w) OBVIOUS
  <2>4. s.pc = pc /\ s.at = w BY <2>3, Fields
  <2>5. job' = [job EXCEPT ![j] = Idle, ![<<t, k>>] = s] /\ poolLock' = Enter(s.at, <<t, k>>)
    BY <1>7, <2>3, <2>4
  <2>6. k \in Kinds \ ({"refresh"} \cup Claimants \cup {"live"}) BY DEF Kinds, Claimants
  <2>7. /\ s.pc \in LockSteps \ Locked /\ s.at \in Workers /\ Idle.pc \notin LockSteps
        /\ job[j].pc \notin LockSteps /\ job[<<t, k>>].pc \notin LockSteps
    BY <1>0, <1>5, <1>7, <2>4 DEF LockSteps, Locked
  <2> QED BY <1>0, <1>3, <2>2, <2>5, <2>6, <2>7, TwoJobs
<1>8. \/ /\ job' = [job EXCEPT ![j] = Idle, ![<<t, "release">>] = At("tidyQ", w)]
         /\ poolLock' = Enter(w, <<t, "release">>) /\ Releasable(t)
      \/ /\ job' = [job EXCEPT ![j] = Idle, ![<<t, "settle">>] = At("parkQ", w)]
         /\ poolLock' = Enter(w, <<t, "settle">>) /\ job[<<t, "settle">>].pc = "idle" /\ w # NoWorker
      \/ job' = [job EXCEPT ![j] = Idle] /\ UNCHANGED poolLock
  BY <1>1 DEF Conclude
<1> QED BY <1>6, <1>7, <1>8, TaskFields DEF Releasable, Refs

(* recoverInterruptedTasks: the queued runs start again, every pending is *)
(* cleared with the jobs it named.                                        *)
LEMMA RestartCarries ==
    ASSUME Base, Tracked, Restart
    PROVE  Tracked' /\ LockHasHolder'
<1> DEFINE dropped == {t \in Tasks : task[t].pending = "dropping" /\ isLive(t)}
           resumed == {t \in Tasks : interrupted(t)} \ dropped
<1>1. \A t \in Tasks : /\ task'[t].pending = "none"
                       /\ task'[t].state = IF t \in dropped THEN "failed" ELSE task[t].state
  BY DEF Restart, Row, recovered
<1>2. \A j \in Jobs : job'[j] = CASE j[2] = "run" /\ j[1] \in resumed -> At(resumesAt(j[1]), NoWorker)
                                  [] j[2] = "release" /\ j[1] \in dropped -> At("resume", NoWorker)
                                  [] OTHER -> Idle
  BY DEF Restart
<1>3. ASSUME NEW j \in Jobs
      PROVE  /\ job'[j].pc \in {"pick", "resume", "idle"}
             /\ j[2] = "run" /\ j[1] \in resumed => job'[j].pc # "idle"
             /\ j[2] \in {"run", "live", "reply"} /\ ~(j[2] = "run" /\ j[1] \in resumed) => job'[j].pc = "idle"
  <2>1. CASE j[2] = "run" /\ j[1] \in resumed
    <3>1. PICK pc : pc = resumesAt(j[1]) /\ pc \in {"pick", "resume"} BY DEF resumesAt
    <3>2. job'[j] = At(pc, NoWorker) BY <1>2, <2>1, <3>1
    <3> QED BY <2>1, <3>1, <3>2, Fields
  <2>2. CASE j[2] = "release" /\ j[1] \in dropped
    <3>1. job'[j] = At("resume", NoWorker) BY <1>2, <2>2
    <3> QED BY <2>2, <3>1, Fields
  <2>3. CASE ~(j[2] = "run" /\ j[1] \in resumed) /\ ~(j[2] = "release" /\ j[1] \in dropped)
    <3>1. job'[j] = Idle BY <1>2, <2>3
    <3> QED BY <2>3, <3>1, Fields
  <2> QED BY <2>1, <2>2, <2>3
<1>4. ASSUME NEW t \in Tasks PROVE TaskJobs(t)'
  <2>1. t \in resumed => task'[t].state = "queued" /\ task[t].state = "queued"
    BY <1>1 DEF interrupted
  <2>2. task'[t].state = "queued" => t \in resumed
    BY <1>1 DEF interrupted, isLive, LiveStates
  <2>3. /\ t \in resumed <=> job'[<<t, "run">>].pc # "idle"
        /\ job'[<<t, "run">>].pc # "unwind"
        /\ job'[<<t, "live">>].pc = "idle" /\ job'[<<t, "reply">>].pc = "idle"
    BY <1>3, JobsOf
  <2> QED BY <1>1, <2>1, <2>2, <2>3 DEF TaskJobs
<1>5. Parkers' BY <1>3 DEF Parkers, Parking
<1>6. poolLock' = [w \in Workers |-> <<>>] BY DEF Restart
<1>7. LockHasHolder' BY <1>3, <1>6 DEF LockHasHolder, LockSteps
<1> QED BY <1>4, <1>5, <1>7 DEF Tracked

-----------------------------------------------------------------------------
(* The inductive invariant of the jobs: that of the machines, the rows that *)
(* follow their jobs, and the chains that hold them.                        *)
JobsInv == Inv /\ Tracked /\ LockHasHolder

(* Agents, containers and readers touch no job. *)
LEMMA WorldCarries == ASSUME Base, Tracked, World PROVE Kept
BY RowsSame, Resting DEF World, TurnEnds, SessionTimesOut, Built, BecomesReady, Poll

(* Nor do the faults, but for the stop that fails, the wait that ends and the *)
(* restart.                                                                   *)
LEMMA FaultCarries == ASSUME Base, Tracked PROVE
   /\ \A s \in Sessions : SessionDies(s) => Kept
   /\ \A w \in Workers : SetupFails(w) \/ MachineFalls(w) \/ MachinePruned(w) \/ deleteWorker(w) => Kept
   /\ projectEdited => Kept
<1>1. ASSUME NEW s \in Sessions, SessionDies(s) PROVE Kept
  BY <1>1, RowsSame, Resting DEF SessionDies
<1>2. ASSUME NEW w \in Workers, SetupFails(w) \/ MachineFalls(w) \/ MachinePruned(w) PROVE Kept
  BY <1>2, RowsSame, Resting DEF SetupFails, MachineFalls, MachinePruned
<1>3. ASSUME NEW w \in Workers, deleteWorker(w) PROVE Kept
  <2>1. RowsKept BY <1>3 DEF deleteWorker, RowsKept
  <2> QED BY <1>3, <2>1, Resting DEF deleteWorker
<1>4. ASSUME projectEdited PROVE Kept
  BY <1>4, RowsSame, Resting DEF projectEdited
<1> QED BY <1>1, <1>2, <1>3, <1>4

(* Every step of every job, fault or click. *)
LEMMA EveryStepCarries ==
    ASSUME Base, Tracked, Next
    PROVE  Kept \/ (Tracked' /\ LockHasHolder')
<1>1. ASSUME NEW t \in Tasks, Click(t) PROVE Kept
  BY <1>1, CreateCarries, AcceptCarries, DropCarries, ReplyCarries, HandCarries DEF Click
<1>2. ASSUME NEW t \in Tasks, RunStep(t) PROVE Kept
  <2>1. ASSUME NEW w \in Workers, RunChoose(t, w) \/ RunSpawn(t, w) PROVE Kept
    BY <2>1, RunCarries
  <2>2. ASSUME NEW k \in {"run", "reply"}, Launch(t, k) \/ Started(t, k) \/ StdinFails(t, k) PROVE Kept
    BY <2>2, LaunchCarries
  <2>3. ASSUME RunPick(t) \/ RunClaim(t) \/ RunRebuild(t) \/ RunReset(t) PROVE Kept
    BY <2>3, RunCarries
  <2>4. ASSUME RunResume(t) \/ RunRecord(t) \/ RunUnwind(t) PROVE Kept
    BY <2>4, ResumeCarries, RecordCarries
  <2> QED BY <1>2, <2>1, <2>2, <2>3, <2>4 DEF RunStep
<1>3. ASSUME NEW t \in Tasks, TaskStep(t) PROVE Kept
  BY <1>3, RecordCarries, AcceptCarries, DropCarries, LiveCarries, HandCarries, ReleaseCarries DEF TaskStep
<1>4. ASSUME NEW t \in Tasks, Tick(t) PROVE Kept
  BY <1>4, ReleaseCarries, HandCarries DEF Tick
<1>5. ASSUME NEW t \in Tasks, NEW reads \in BOOLEAN, refreshTask(t, reads) PROVE Kept
  BY <1>5, RefreshCarries
<1>6. ASSUME NEW j \in Jobs, MachineStep(j) PROVE Kept
  BY <1>6, WakeCarries, WaitCarries, JobFailsCarries, ParkCarries DEF MachineStep
<1>7. ASSUME World PROVE Kept BY <1>7, WorldCarries
<1>8. ASSUME Disturbance PROVE Kept \/ (Tracked' /\ LockHasHolder')
  <2>1. ASSUME NEW j \in Jobs, StopFails(j) \/ WaitTimesOut(j) PROVE Kept
    BY <2>1, WakeCarries, ParkCarries
  <2> QED BY <1>8, <2>1, FaultCarries, RestartCarries DEF Disturbance
<1> QED BY <1>1, <1>2, <1>3, <1>4, <1>5, <1>6, <1>7, <1>8 DEF Next

(* At boot nothing is in flight. *)
LEMMA JobsStart == Init => JobsInv
<1> SUFFICES ASSUME Init PROVE JobsInv OBVIOUS
<1>1. \A j \in Jobs : job[j].pc = "idle" BY Fields DEF Init
<1>2. \A t \in Tasks : task[t].state = "none" /\ task[t].pending = "none" BY DEF Init
<1>3. \A t \in Tasks : TaskJobs(t) BY <1>1, <1>2, JobsOf DEF TaskJobs
<1>4. Parkers BY <1>1 DEF Parkers, Parking
<1>5. poolLock = [w \in Workers |-> <<>>] BY DEF Init
<1>6. LockHasHolder BY <1>1, <1>5 DEF LockHasHolder, LockSteps
<1> QED BY <1>3, <1>4, <1>6, Initially DEF JobsInv, Tracked

(* Every step keeps the invariant. *)
LEMMA JobsPreserved == JobsInv /\ [Next]_vars => JobsInv'
<1> SUFFICES ASSUME JobsInv, [Next]_vars PROVE JobsInv' OBVIOUS
<1>1. Base /\ Tracked /\ LockHasHolder BY DEF JobsInv, Inv
<1>2. Inv' /\ job' \in JobRows
  <2>1. Inv' BY Preserved DEF JobsInv
  <2> QED BY <2>1 DEF Inv, Base
<1>3. CASE UNCHANGED vars
  <2>1. Kept BY <1>1, <1>3, RowsSame, Resting DEF vars
  <2> QED BY <1>1, <1>2, <2>1, ChainKept DEF Kept, JobsInv
<1>4. CASE Next
  <2>1. Kept \/ (Tracked' /\ LockHasHolder') BY <1>1, <1>4, EveryStepCarries
  <2> QED BY <1>1, <1>2, <2>1, ChainKept DEF Kept, JobsInv
<1> QED BY <1>3, <1>4

(* The invariant of the jobs holds in every behaviour. *)
LEMMA JobsInvariant == Spec => []JobsInv
BY JobsStart, JobsPreserved, PTL DEF Spec

(* withPoolLock: whoever waits for a machine, or works in it under the lock, *)
(* is in its chain, once, and only the head is inside an await: nobody is    *)
(* forgotten, and nobody moves a machine under another.                      *)
THEOREM Chained == Spec => []LockHasHolder
<1>1. JobsInv => LockHasHolder BY DEF JobsInv
<1> QED BY <1>1, JobsInvariant, PTL

(* No path loses a queued task: not a drop that fails, a machine deleted *)
(* under it, nor a restart at any point of its run.                      *)
THEOREM NeverLost == Spec => []QueuedHasRun
<1>1. JobsInv => QueuedHasRun BY DEF JobsInv, Tracked, TaskJobs, QueuedHasRun
<1> QED BY <1>1, JobsInvariant, PTL

(* Nothing says "accepting...", "dropping..." or "replying..." without the    *)
(* job that will say how it ended, whatever fails and whenever Lite restarts. *)
THEOREM NeverStuck == Spec => []PendingHasJob
<1>1. JobsInv => PendingHasJob BY DEF JobsInv, Tracked, TaskJobs, PendingHasJob
<1> QED BY <1>1, JobsInvariant, PTL

-----------------------------------------------------------------------------
(* A task that is over changes state only by a reply on its way to a live *)
(* session, or by a Drop that lands late.                                 *)
Reopens(t) ==
    task[t].state \in {"done", "failed"} /\ task'[t].state # task[t].state
      => \/ job[<<t, "live">>].pc = "answered"
         \/ task'[t].state = "failed" /\ job[<<t, "drop">>].pc # "idle"
(* ... and so for every task. *)
Closed == \A t \in Tasks : Reopens(t)

(* Updates of the other columns move no state. *)
LEMMA StatesKept ==
    ASSUME Base, \/ UNCHANGED task
                 \/ \E t \in Tasks : \E w : task' = [task EXCEPT ![t].worker = w]
                 \/ \E t \in Tasks : \E p : task' = [task EXCEPT ![t].pending = p]
    PROVE  Closed
<1>1. \A t \in Tasks : task'[t].state = task[t].state BY DEF Base, TaskRows, TaskRow
<1> QED BY <1>1 DEF Closed, Reopens

(* A step of one task's row has only that task to answer for. *)
LEMMA OwnRowCloses ==
    ASSUME Base, NEW t \in Tasks, OthersKept(t), Reopens(t)
    PROVE  Closed
BY DEF Closed, Reopens, OthersKept

(* failTask re-opens nothing. *)
LEMMA FailCloses ==
    ASSUME Base, NEW t \in Tasks, NEW k \in {"run", "drop"}, FailTask(t, <<t, k>>),
           \/ task[t].state \notin {"done", "failed"}
           \/ k = "drop" /\ job[<<t, "drop">>].pc # "idle"
           \/ k = "run" /\ task[t].state = "failed"
    PROVE  Closed
<1>1. task' = [task EXCEPT ![t] = Row(t, "failed", task'[t].pending, task[t].session)]
  BY DEF FailTask, Base, TaskRows, Row
<1>2. OthersKept(t) /\ task'[t].state = "failed"
  BY DEF FailTask, Base, TaskRows, TaskRow, OthersKept, Row
<1>3. Reopens(t) BY <1>2 DEF Reopens
<1> QED BY <1>2, <1>3, OwnRowCloses

(* Clicks: only a task still to be judged is decided, dropped or replied to. *)
LEMMA ClickCloses == ASSUME Base, Tracked, NEW t \in Tasks, Click(t) PROVE Closed
<1>1. ASSUME createTask(t) PROVE Closed
  <2>1. task[t].state = "none" /\ task' = [task EXCEPT ![t].state = "queued"] BY <1>1 DEF createTask
  <2>2. OthersKept(t) BY <2>1, OwnFields
  <2> QED BY <2>1, <2>2, OwnRowCloses DEF Reopens
<1>2. ASSUME validateTask(t) PROVE Closed
  <2>1. task[t].state = "in-review" BY <1>2 DEF validateTask
  <2>2. OthersKept(t)
    BY <1>2 DEF validateTask, Decide, Base, TaskRows, TaskRow, OthersKept, Row
  <2> QED BY <2>1, <2>2, OwnRowCloses DEF Reopens
<1>3. ASSUME cancelTask(t) PROVE Closed
  <2>1. task[t].state \notin {"done", "failed"} BY <1>3 DEF cancelTask, isLive, LiveStates
  <2>2. OthersKept(t)
    BY <1>3 DEF cancelTask, DropNext, FailTask, Base, TaskRows, TaskRow, OthersKept, Row
  <2> QED BY <2>1, <2>2, OwnRowCloses DEF Reopens
<1>4. ASSUME followUpTask(t) PROVE Closed
  <2>1. task' = [task EXCEPT ![t].pending = "replying"] BY <1>4 DEF followUpTask
  <2> QED BY <2>1, StatesKept
<1>5. ASSUME followUpLive(t) \/ handPark(t) \/ keepTaskAwake(t) \/ wakeTask(t) PROVE Closed
  BY <1>5, StatesKept DEF followUpLive, handPark, keepTaskAwake, wakeTask
<1> QED BY <1>1, <1>2, <1>3, <1>4, <1>5 DEF Click

(* A run moves the row of a queued task only (stillQueued). *)
LEMMA RunCloses == ASSUME Base, Tracked, NEW t \in Tasks, RunStep(t) PROVE Closed
<1>1. ASSUME RunClaim(t) PROVE Closed
  <2>1. UNCHANGED task \/ \E w : task' = [task EXCEPT ![t].worker = w] BY <1>1 DEF RunClaim
  <2> QED BY <2>1, StatesKept
<1>2. ASSUME RunResume(t) PROVE Closed
  <2>1. CASE UNCHANGED task BY <2>1, StatesKept
  <2>2. CASE ~UNCHANGED task
    <3>1. PICK n : task[t].state = "queued" /\ task' = [task EXCEPT ![t] = Row(t, "running", task[t].pending, n)]
      BY <1>2, <2>2 DEF RunResume
    <3>2. OthersKept(t) BY <3>1 DEF Base, TaskRows, OthersKept
    <3> QED BY <3>1, <3>2, OwnRowCloses DEF Reopens
  <2> QED BY <2>1, <2>2
<1>3. ASSUME RunRecord(t) PROVE Closed
  <2>1. CASE UNCHANGED task BY <2>1, StatesKept
  <2>2. CASE ~UNCHANGED task
    <3>1. /\ task[t].state = "queued"
          /\ task' = [task EXCEPT ![t] = Row(t, "running", task[t].pending, job[<<t, "run">>].seen)]
      BY <1>3, <2>2 DEF RunRecord, stillQueued
    <3>2. OthersKept(t) BY <3>1 DEF Base, TaskRows, OthersKept
    <3> QED BY <3>1, <3>2, OwnRowCloses DEF Reopens
  <2> QED BY <2>1, <2>2
<1>4. ASSUME RunPick(t) \/ RunRebuild(t) \/ RunReset(t) \/ RunUnwind(t) PROVE Closed
  BY <1>4, StatesKept DEF RunPick, RunRebuild, RunReset, RunUnwind
<1>5. ASSUME NEW w \in Workers, RunChoose(t, w) \/ RunSpawn(t, w) PROVE Closed
  BY <1>5, StatesKept DEF RunChoose, RunSpawn
<1>6. ASSUME NEW k \in {"run", "reply"}, Launch(t, k) \/ Started(t, k) \/ StdinFails(t, k) PROVE Closed
  BY <1>6, StatesKept DEF Launch, Started, StdinFails
<1> QED BY <1>1, <1>2, <1>3, <1>4, <1>5, <1>6 DEF RunStep

(* The jobs of clicks move the row they guard (stillInReview), or say it *)
(* failed.                                                               *)
LEMMA TaskCloses == ASSUME Base, Tracked, NEW t \in Tasks, TaskStep(t) PROVE Closed
<1>1. ASSUME ReplyRecord(t) PROVE Closed
  <2>1. OthersKept(t) BY <1>1 DEF ReplyRecord, Base, TaskRows, OthersKept
  <2>2. stillInReview(t) \/ task'[t].state = task[t].state
    BY <1>1 DEF ReplyRecord, Base, TaskRows, Row
  <2> QED BY <2>1, <2>2, OwnRowCloses DEF Reopens, stillInReview
<1>2. ASSUME AcceptRan(t) PROVE Closed
  <2>1. OthersKept(t) BY <1>2 DEF AcceptRan, Decide, Base, TaskRows, TaskRow, OthersKept
  <2>2. stillInReview(t) \/ task'[t].state = task[t].state
    BY <1>2 DEF AcceptRan, Decide, Base, TaskRows, TaskRow, Row
  <2> QED BY <2>1, <2>2, OwnRowCloses DEF Reopens, stillInReview
<1>3. ASSUME DropKill(t) PROVE Closed
  <2>1. job[<<t, "drop">>].pc = "kill" BY <1>3 DEF DropKill
  <2>2. FailTask(t, <<t, "drop">>) \/ \E p : task' = [task EXCEPT ![t].pending = p]
    BY <1>3 DEF DropKill, DropNext
  <2> QED BY <2>1, <2>2, FailCloses, StatesKept
<1>4. ASSUME DropRan(t) PROVE Closed
  <2>1. job[<<t, "drop">>].pc = "exec" /\ FailTask(t, <<t, "drop">>) BY <1>4 DEF DropRan
  <2> QED BY <2>1, FailCloses
<1>5. ASSUME LiveRecord(t) PROVE Closed
  <2>1. job[<<t, "live">>].pc = "answered" /\ task' = [task EXCEPT ![t].state = "running"]
    BY <1>5 DEF LiveRecord
  <2>2. OthersKept(t) BY <2>1, OwnFields
  <2> QED BY <2>1, <2>2, OwnRowCloses DEF Reopens
<1>6. ASSUME LiveSend(t) \/ HandCheck(t) \/ ReleaseTidy(t) \/ ReleaseResume(t) PROVE Closed
  BY <1>6, StatesKept DEF LiveSend, HandCheck, ReleaseTidy, ReleaseResume
<1> QED BY <1>1, <1>2, <1>3, <1>4, <1>5, <1>6 DEF TaskStep

(* A job that fails fails a task its run still had, or one being dropped. *)
LEMMA MachineCloses == ASSUME Base, Tracked, NEW j \in Jobs, MachineStep(j) PROVE Closed
<1>1. ASSUME JobFails(j) PROVE Closed
  <2>0. PICK t \in Tasks, k \in Kinds : j = <<t, k>> /\ j[1] = t /\ j[2] = k BY JobNames
  <2>1. job[j].pc = "failed" BY <1>1 DEF JobFails
  <2>2. CASE k \in {"run", "drop"}
    <3>1. FailTask(t, <<t, k>>) BY <1>1, <2>0, <2>2 DEF JobFails
    <3>2. k = "run" => task[t].state \in {"queued", "failed"}
      BY <2>0, <2>1 DEF Tracked, TaskJobs
    <3>3. k = "drop" => job[<<t, "drop">>].pc # "idle" BY <2>0, <2>1
    <3> QED BY <2>2, <3>1, <3>2, <3>3, FailCloses
  <2>3. CASE k \notin {"run", "drop"}
    <3>1. UNCHANGED task \/ \E p : task' = [task EXCEPT ![t].pending = p]
      BY <1>1, <2>0, <2>3 DEF JobFails
    <3> QED BY <3>1, StatesKept
  <2> QED BY <2>2, <2>3
<1>2. ASSUME WakeDecide(j) \/ WakeDone(j) \/ WaitReady(j) \/ WaitFails(j) \/ ParkDecide(j) \/ StopDone(j)
      PROVE Closed
  BY <1>2, StatesKept DEF WakeDecide, WakeDone, WaitReady, WaitFails, ParkDecide, StopDone
<1> QED BY <1>1, <1>2 DEF MachineStep

(* Faults and restarts end tasks, and re-open none. *)
LEMMA DisturbanceCloses == ASSUME Base, Tracked, Disturbance PROVE Closed
<1>1. ASSUME NEW s \in Sessions, SessionDies(s) PROVE Closed BY <1>1, StatesKept DEF SessionDies
<1>2. ASSUME NEW w \in Workers, SetupFails(w) \/ MachineFalls(w) \/ MachinePruned(w) PROVE Closed
  BY <1>2, StatesKept DEF SetupFails, MachineFalls, MachinePruned
<1>3. ASSUME NEW w \in Workers, deleteWorker(w) PROVE Closed
  BY <1>3 DEF deleteWorker, Closed, Reopens
<1>4. ASSUME NEW j \in Jobs, StopFails(j) \/ WaitTimesOut(j) PROVE Closed
  BY <1>4, StatesKept DEF StopFails, WaitTimesOut
<1>5. ASSUME projectEdited PROVE Closed BY <1>5, StatesKept DEF projectEdited
<1>6. ASSUME Restart PROVE Closed
  <2>1. \A t \in Tasks : task'[t].state = task[t].state \/ isLive(t)
    BY <1>6 DEF Restart, Row
  <2> QED BY <2>1 DEF Closed, Reopens, isLive, LiveStates
<1> QED BY <1>1, <1>2, <1>3, <1>4, <1>5, <1>6 DEF Disturbance

(* Every step. *)
LEMMA EveryStepCloses == ASSUME Base, Tracked, [Next]_vars PROVE Closed
<1>1. CASE UNCHANGED vars BY <1>1, StatesKept DEF vars
<1>2. ASSUME NEW t \in Tasks, Tick(t) PROVE Closed
  BY <1>2, StatesKept DEF Tick, RefreshBegin, parkDue
<1>3. ASSUME NEW t \in Tasks, NEW reads \in BOOLEAN, refreshTask(t, reads) PROVE Closed
  <2>1. PICK s : /\ task' = [task EXCEPT ![t].state = s]
                 /\ task[t].state = "running" \/ s = task[t].state
    BY <1>3 DEF refreshTask, Conclude, stillRunning
  <2>2. OthersKept(t) /\ task'[t].state = s BY <2>1, OwnFields
  <2> QED BY <2>1, <2>2, OwnRowCloses DEF Reopens
<1>4. CASE World
  BY <1>4, StatesKept DEF World, TurnEnds, SessionTimesOut, Built, BecomesReady, Poll
<1>5. CASE Next
  BY <1>2, <1>3, <1>4, <1>5, ClickCloses, RunCloses, TaskCloses, MachineCloses, DisturbanceCloses DEF Next
<1> QED BY <1>1, <1>5

(* No background read, retry, late job or restart brings back a task that is *)
(* done or failed.                                                           *)
THEOREM NobodyReopens == Spec => OnlyPeopleReopen
<1>1. JobsInv /\ [Next]_vars => Closed BY EveryStepCloses DEF JobsInv, Inv
<1>2. Closed => [\A t \in Tasks :
          task[t].state \in {"done", "failed"} /\ task'[t].state # task[t].state
            => \/ job[<<t, "live">>].pc = "answered"
               \/ task'[t].state = "failed" /\ job[<<t, "drop">>].pc # "idle"]_vars
  BY DEF Closed, Reopens
<1> QED BY <1>1, <1>2, JobsInvariant, PTL DEF Spec, OnlyPeopleReopen

-----------------------------------------------------------------------------
(* Where the runs and the replies are at work. *)

(* The steps of a run or a reply that are bound for, or already in, the *)
(* workspace of their machine.                                          *)
Placed == {"rebuild", "wakeQ", "waking", "wait", "reset", "launch"}
(* The machine was deleted, for good. *)
Gone(w) == machine[w].state = "deleted"

(* A run or a reply is at work in the machine its task's row names, or in one *)
(* that is gone (the strengthening ReviewedWorkspaceKept needs).              *)
AtOwn ==
    \A t \in Tasks, k \in {"run", "reply"} :
        job[<<t, k>>].pc \in Placed => task[t].worker = job[<<t, k>>].at \/ Gone(job[<<t, k>>].at)

(* What a step must keep for that: deleted machines stay so, *)
GoneKept == \A w \in Workers : Gone(w) => Gone(w)'
(* ... no row changes machine, *)
WorkersKept == \A t \in Tasks : task'[t].worker = task[t].worker
(* ... a job that is placed was, in the same machine, *)
Follows(j) == job'[j].pc \in Placed => job[j].pc \in Placed /\ job'[j].at = job[j].at
(* ... for every run and reply. *)
AtsKept == \A t \in Tasks, k \in {"run", "reply"} : Follows(<<t, k>>)

(* Then every run and reply is still at its task's machine. *)
LEMMA PlacesKept ==
    ASSUME Base, AtOwn, GoneKept, WorkersKept, AtsKept
    PROVE  AtOwn'
<1> SUFFICES ASSUME NEW t \in Tasks, NEW k \in {"run", "reply"}, job'[<<t, k>>].pc \in Placed
             PROVE  task'[t].worker = job'[<<t, k>>].at \/ Gone(job[<<t, k>>].at)'
  BY DEF AtOwn
<1>1. job[<<t, k>>].pc \in Placed /\ job'[<<t, k>>].at = job[<<t, k>>].at
  BY DEF AtsKept, Follows
<1>2. <<t, k>> \in Jobs BY JobsOf
<1>3. job[<<t, k>>].at \in Workers BY <1>1, <1>2, JobFields DEF Placed, Nowhere
<1> QED BY <1>1, <1>3 DEF AtOwn, WorkersKept, GoneKept, Gone

(* One job moves: no run or reply becomes placed by it. *)
LEMMA OneFollows ==
    ASSUME Base, NEW j \in Jobs, NEW r, job' = [job EXCEPT ![j] = r],
           j[2] \in {"run", "reply"} /\ r.pc \in Placed => job[j].pc \in Placed /\ r.at = job[j].at
    PROVE  AtsKept
<1>1. job'[j] = r /\ \A i \in Jobs \ {j} : job'[i] = job[i] BY DEF Base, JobRows
<1> SUFFICES ASSUME NEW t \in Tasks, NEW k \in {"run", "reply"} PROVE Follows(<<t, k>>)
  BY DEF AtsKept
<1>2. <<t, k>> \in Jobs /\ <<t, k>>[2] = k BY JobsOf
<1>3. CASE j = <<t, k>> BY <1>1, <1>2, <1>3 DEF Follows
<1>4. CASE j # <<t, k>> BY <1>1, <1>2, <1>4 DEF Follows
<1> QED BY <1>3, <1>4

(* One ends and queues another kind of job. *)
LEMMA TwoFollow ==
    ASSUME Base, NEW j \in Jobs, NEW t \in Tasks, NEW m \in Kinds \ {"run", "reply"}, NEW s,
           job' = [job EXCEPT ![j] = Idle, ![<<t, m>>] = s]
    PROVE  AtsKept
<1>0. <<t, m>> \in Jobs BY JobNames
<1>1. /\ \A i \in Jobs \ {j, <<t, m>>} : job'[i] = job[i]
      /\ j # <<t, m>> => job'[j] = Idle
  BY <1>0 DEF Base, JobRows
<1> SUFFICES ASSUME NEW u \in Tasks, NEW k \in {"run", "reply"} PROVE Follows(<<u, k>>)
  BY DEF AtsKept
<1>2. <<u, k>> \in Jobs /\ <<u, k>> # <<t, m>> BY JobNames DEF Kinds
<1>3. CASE j = <<u, k>>
  <2>1. job'[<<u, k>>] = Idle /\ Idle.pc = "idle" BY <1>1, <1>2, <1>3, Fields
  <2> QED BY <2>1 DEF Follows, Placed
<1>4. CASE j # <<u, k>> BY <1>1, <1>2, <1>4 DEF Follows
<1> QED BY <1>3, <1>4

(* Nothing moves. *)
LEMMA Standing ==
    /\ UNCHANGED job => AtsKept
    /\ UNCHANGED task => WorkersKept
BY DEF AtsKept, Follows, WorkersKept

(* The updates of a row name no other worker, but for the two that place a run. *)
LEMMA RowWorkers ==
    ASSUME Base, NEW t \in Tasks
    PROVE  /\ \A s : task' = [task EXCEPT ![t].state = s] => WorkersKept
           /\ \A p : task' = [task EXCEPT ![t].pending = p] => WorkersKept
BY DEF Base, TaskRows, TaskRow, WorkersKept

(* ... nor does the update of its state, action and session together. *)
LEMMA UpdateWorkers ==
    ASSUME Base, NEW t \in Tasks, NEW s, NEW p, NEW n, task' = [task EXCEPT ![t] = Row(t, s, p, n)]
    PROVE  WorkersKept
BY DEF Base, TaskRows, TaskRow, WorkersKept, Row

(* A step that changes no row's machine and places no run nor reply. *)
Sits == WorkersKept /\ AtsKept

(* Clicks. *)
LEMMA ClickSits == ASSUME Base, NEW t \in Tasks, Click(t), ~followUpTask(t) PROVE Sits
<1>2. WorkersKept
  <2>1. CASE createTask(t)
    <3>1. task' = [task EXCEPT ![t].state = "queued"] BY <2>1 DEF createTask
    <3> QED BY <3>1, RowWorkers
  <2>2. CASE validateTask(t)
    <3>1. \/ task' = [task EXCEPT ![t].pending = "accepting"]
          \/ \E s, p, n : task' = [task EXCEPT ![t] = Row(t, s, p, n)]
      BY <2>2 DEF validateTask, Decide
    <3> QED BY <3>1, RowWorkers, UpdateWorkers
  <2>3. CASE cancelTask(t)
    <3>1. FailTask(t, <<t, "drop">>) \/ \E p : task' = [task EXCEPT ![t].pending = p]
      BY <2>3 DEF cancelTask, DropNext
    <3>2. FailTask(t, <<t, "drop">>) => \E s, p, n : task' = [task EXCEPT ![t] = Row(t, s, p, n)]
      BY DEF FailTask
    <3> QED BY <3>1, <3>2, RowWorkers, UpdateWorkers
  <2>4. CASE UNCHANGED task BY <2>4, Standing
  <2> QED BY <2>1, <2>2, <2>3, <2>4 DEF Click, followUpLive, handPark, keepTaskAwake, wakeTask
<1>3. AtsKept
  <2>0. /\ <<t, "run">> \in Jobs /\ <<t, "accept">> \in Jobs /\ <<t, "drop">> \in Jobs
        /\ <<t, "live">> \in Jobs /\ <<t, "hand">> \in Jobs /\ <<t, "wake">> \in Jobs
        /\ "release" \in Kinds \ {"run", "reply"}
    BY JobsOf DEF Kinds
  <2>1. CASE UNCHANGED job BY <2>1, Standing
  <2>2. CASE createTask(t)
    <3>1. job' = [job EXCEPT ![<<t, "run">>] = At("pick", NoWorker)] BY <2>2 DEF createTask
    <3>2. At("pick", NoWorker).pc = "pick" BY Fields
    <3> QED BY <2>0, <3>1, <3>2, OneFollows DEF Placed
  <2>3. CASE validateTask(t) \/ cancelTask(t)
    <3>1. PICK k \in {"accept", "drop"} : 
            \/ \E r : job' = [job EXCEPT ![<<t, k>>] = r]
            \/ \E s : job' = [job EXCEPT ![<<t, k>>] = Idle, ![<<t, "release">>] = s]
      BY <2>3 DEF validateTask, Decide, cancelTask, DropNext, FailTask
    <3>2. <<t, k>> \in Jobs /\ <<t, k>>[2] = k BY <2>0
    <3> QED BY <2>0, <3>1, <3>2, OneFollows, TwoFollow
  <2>4. CASE followUpLive(t) \/ handPark(t) \/ wakeTask(t)
    <3>1. PICK k \in {"live", "hand", "wake"} : \E r : job' = [job EXCEPT ![<<t, k>>] = r]
      BY <2>4 DEF followUpLive, handPark, wakeTask
    <3> QED BY <2>0, <3>1, OneFollows
  <2> QED BY <2>1, <2>2, <2>3, <2>4 DEF Click, keepTaskAwake
<1> QED BY <1>2, <1>3 DEF Sits

(* The steps of a run past its claim. *)
LEMMA RunSits ==
    ASSUME Base, NEW t \in Tasks, RunStep(t), ~RunResume(t), ~RunClaim(t),
           \A w \in Workers : ~RunSpawn(t, w)
    PROVE  Sits
<1>0. <<t, "run">> \in Jobs BY JobsOf
<1>1. ASSUME RunPick(t) \/ RunReset(t) \/ RunUnwind(t) PROVE Sits
  <2>1. UNCHANGED <<task, machine>> BY <1>1 DEF RunPick, RunReset, RunUnwind
  <2>2. \/ \E pc : job' = [job EXCEPT ![<<t, "run">>] = Now(<<t, "run">>, pc)] /\ job[<<t, "run">>].pc \in Placed
        \/ job' = [job EXCEPT ![<<t, "run">>] = Now(<<t, "run">>, "choose")]
        \/ job' = [job EXCEPT ![<<t, "run">>] = Idle]
    BY <1>1 DEF RunPick, RunReset, RunUnwind, Placed
  <2>3. PICK r : /\ job' = [job EXCEPT ![<<t, "run">>] = r]
                 /\ r.pc \in Placed => job[<<t, "run">>].pc \in Placed /\ r.at = job[<<t, "run">>].at
    BY <2>2, Fields DEF Placed
  <2>4. AtsKept BY <1>0, <2>3, OneFollows
  <2> QED BY <2>1, <2>4, Standing DEF Sits
<1>2. ASSUME NEW w \in Workers, RunChoose(t, w) PROVE Sits
  <2>1. UNCHANGED <<task, machine>> /\ job' = [job EXCEPT ![<<t, "run">>] = At("claim", w)]
    BY <1>2 DEF RunChoose
  <2>2. At("claim", w).pc = "claim" BY Fields
  <2>3. AtsKept BY <1>0, <2>1, <2>2, OneFollows DEF Placed
  <2> QED BY <2>1, <2>3, Standing DEF Sits
<1>3. ASSUME RunRebuild(t) PROVE Sits
  <2> DEFINE j == <<t, "run">>
  <2>1. UNCHANGED task /\ job[j].pc = "rebuild" /\ job' = [job EXCEPT ![j] = Now(j, "wait")]
    BY <1>3 DEF RunRebuild
  <2>2. Now(j, "wait").at = job[j].at BY Fields
  <2>3. AtsKept BY <1>0, <2>1, <2>2, OneFollows DEF Placed
  <2> QED BY <2>1, <2>3, Standing DEF Sits
<1>4. ASSUME RunRecord(t) PROVE Sits
  <2> DEFINE j == <<t, "run">>
  <2>1. UNCHANGED machine BY <1>4 DEF RunRecord
  <2>2. UNCHANGED task \/ \E s, p, n : task' = [task EXCEPT ![t] = Row(t, s, p, n)]
    BY <1>4 DEF RunRecord
  <2>3. PICK r : job' = [job EXCEPT ![j] = r] /\ (r = Idle \/ r = Now(j, "unwind")) BY <1>4 DEF RunRecord
  <2>4. r.pc \in {"idle", "unwind"} BY <2>3, Fields
  <2>5. AtsKept BY <1>0, <2>3, <2>4, OneFollows DEF Placed
  <2> QED BY <2>1, <2>2, <2>5, Standing, UpdateWorkers DEF Sits
<1>5. ASSUME NEW k \in {"run", "reply"}, Launch(t, k) \/ Started(t, k) \/ StdinFails(t, k) PROVE Sits
  <2> DEFINE j == <<t, k>>
  <2>0. j \in Jobs BY JobsOf
  <2>1. UNCHANGED <<task, machine>> BY <1>5 DEF Launch, Started, StdinFails
  <2>2. PICK r : /\ job' = [job EXCEPT ![j] = r]
                 /\ \/ r = Step("started", job[j].at, launched[t] + 1, job[j].was)
                    \/ r = Now(j, "failed") \/ r = Now(j, "record")
    BY <1>5 DEF Launch, Started, StdinFails
  <2>3. r.pc \in {"started", "failed", "record"} BY <2>2, Fields
  <2>4. AtsKept BY <2>0, <2>2, <2>3, OneFollows DEF Placed
  <2> QED BY <2>1, <2>4, Standing DEF Sits
<1> QED BY <1>1, <1>2, <1>3, <1>4, <1>5 DEF RunStep

(* The jobs of clicks. *)
LEMMA TaskSits == ASSUME Base, NEW t \in Tasks, TaskStep(t) PROVE Sits
<1>0. /\ <<t, "accept">> \in Jobs /\ <<t, "drop">> \in Jobs /\ <<t, "reply">> \in Jobs
      /\ <<t, "live">> \in Jobs /\ <<t, "hand">> \in Jobs /\ <<t, "release">> \in Jobs
      /\ "release" \in Kinds \ {"run", "reply"}
  BY JobsOf DEF Kinds
<1>1. WorkersKept
  <2>1. \/ UNCHANGED task \/ (\E s : task' = [task EXCEPT ![t].state = s])
        \/ (\E p : task' = [task EXCEPT ![t].pending = p])
        \/ (\E s, p, n : task' = [task EXCEPT ![t] = Row(t, s, p, n)])
    BY DEF TaskStep, ReplyRecord, AcceptRan, Decide, DropKill, DropRan, DropNext, FailTask, LiveSend,
           LiveRecord, HandCheck, ReleaseTidy, ReleaseResume
  <2> QED BY <2>1, Standing, RowWorkers, UpdateWorkers
<1>3. AtsKept
  <2>1. CASE ReplyRecord(t)
    <3>1. job' = [job EXCEPT ![<<t, "reply">>] = Idle] /\ Idle.pc = "idle" BY <2>1, Fields DEF ReplyRecord
    <3> QED BY <1>0, <3>1, OneFollows DEF Placed
  <2>2. CASE ~ReplyRecord(t)
    <3>1. PICK k \in {"accept", "drop", "live", "hand", "release"} :
            \/ \E r : job' = [job EXCEPT ![<<t, k>>] = r]
            \/ \E s : job' = [job EXCEPT ![<<t, k>>] = Idle, ![<<t, "release">>] = s]
      BY <2>2 DEF TaskStep, AcceptRan, Decide, DropKill, DropRan, DropNext, FailTask, LiveSend,
           LiveRecord, HandCheck, ReleaseTidy, ReleaseResume
    <3>2. <<t, k>> \in Jobs /\ <<t, k>>[2] = k BY <1>0
    <3> QED BY <1>0, <3>1, <3>2, OneFollows, TwoFollow
  <2> QED BY <2>1, <2>2
<1> QED BY <1>1, <1>3 DEF Sits

(* The scheduler and the readers. *)
LEMMA TickSits == ASSUME Base, NEW t \in Tasks PROVE
   /\ Tick(t) => Sits
   /\ \A reads \in BOOLEAN : refreshTask(t, reads) => Sits
<1>0. /\ <<t, "refresh">> \in Jobs /\ <<t, "due">> \in Jobs
      /\ "release" \in Kinds \ {"run", "reply"} /\ "settle" \in Kinds \ {"run", "reply"}
  BY JobsOf DEF Kinds
<1>1. ASSUME Tick(t) PROVE Sits
  <2>1. UNCHANGED <<task, machine>> BY <1>1 DEF Tick, RefreshBegin, parkDue
  <2>2. \/ UNCHANGED job
        \/ \E k \in {"refresh", "due"} : \E r : job' = [job EXCEPT ![<<t, k>>] = r]
    BY <1>1 DEF Tick, RefreshBegin, parkDue
  <2>3. AtsKept BY <1>0, <2>2, OneFollows, Standing
  <2> QED BY <2>1, <2>3, Standing DEF Sits
<1>2. ASSUME NEW reads \in BOOLEAN, refreshTask(t, reads) PROVE Sits
  <2>1. UNCHANGED machine BY <1>2 DEF refreshTask
  <2>2. \E s : task' = [task EXCEPT ![t].state = s] BY <1>2 DEF refreshTask, Conclude
  <2>3. \/ job' = [job EXCEPT ![<<t, "refresh">>] = Idle]
        \/ \E k \in {"settle", "release"} :
              \E s : job' = [job EXCEPT ![<<t, "refresh">>] = Idle, ![<<t, k>>] = s]
    BY <1>2 DEF refreshTask, Conclude
  <2>4. AtsKept BY <1>0, <2>3, OneFollows, TwoFollow
  <2> QED BY <2>1, <2>2, <2>4, Standing, RowWorkers DEF Sits
<1> QED BY <1>1, <1>2

(* The jobs in their machines: waking, waiting, failing, parking, stopping. *)
LEMMA MachineSits == ASSUME Base, NEW j \in Jobs, MachineStep(j) \/ StopFails(j) \/ WaitTimesOut(j) PROVE Sits
<1> DEFINE w == job[j].at
<1>1. ASSUME WakeDecide(j) PROVE Sits
  <2>1. UNCHANGED task /\ job[j].pc = "wakeQ" /\ w \in Workers
    BY <1>1, JobFields DEF WakeDecide, Nowhere
  <2>2. PICK r : /\ job' = [job EXCEPT ![j] = r]
                 /\ r = Idle \/ \E pc : r = Now(j, pc)
    BY <1>1 DEF WakeDecide
  <2>3. r.pc = "idle" \/ r.at = w BY <2>2, Fields
  <2>4. AtsKept BY <2>1, <2>2, <2>3, OneFollows DEF Placed
  <2> QED BY <2>1, <2>4, Standing DEF Sits
<1>2. ASSUME WakeDone(j) PROVE Sits
  <2>1. UNCHANGED task /\ job[j].pc = "waking" /\ w \in Workers
    BY <1>2, JobFields DEF WakeDone, Nowhere
  <2>2. PICK r : /\ job' = [job EXCEPT ![j] = r]
                 /\ r = Idle \/ \E pc : r = Now(j, pc)
    BY <1>2 DEF WakeDone
  <2>3. r.pc = "idle" \/ r.at = w BY <2>2, Fields
  <2>4. AtsKept BY <2>1, <2>2, <2>3, OneFollows DEF Placed
  <2> QED BY <2>1, <2>4, Standing DEF Sits
<1>3. ASSUME WaitReady(j) PROVE Sits
  <2>1. UNCHANGED <<task, machine>> /\ job[j].pc = "wait" BY <1>3 DEF WaitReady
  <2>2. PICK r : /\ job' = [job EXCEPT ![j] = r]
                 /\ r = Idle \/ r = Now(j, AfterWait(j))
    BY <1>3 DEF WaitReady
  <2>3. r.pc = "idle" \/ r.at = w BY <2>2, Fields
  <2>4. AtsKept BY <2>1, <2>2, <2>3, OneFollows DEF Placed
  <2> QED BY <2>1, <2>4, Standing DEF Sits
<1>4. ASSUME WaitFails(j) \/ WaitTimesOut(j) PROVE Sits
  <2>1. UNCHANGED <<task, machine>> /\ job[j].pc = "wait" /\ job' = [job EXCEPT ![j] = Now(j, "failed")]
    BY <1>4 DEF WaitFails, WaitTimesOut
  <2>2. Now(j, "failed").pc = "failed" BY Fields
  <2>3. AtsKept BY <2>1, <2>2, OneFollows DEF Placed
  <2> QED BY <2>1, <2>3, Standing DEF Sits
<1>5. ASSUME JobFails(j) PROVE Sits
  <2>0. PICK t \in Tasks, k \in Kinds : j = <<t, k>> /\ j[1] = t /\ j[2] = k BY JobNames
  <2>2. FailTask(t, j) \/ UNCHANGED task \/ \E p : task' = [task EXCEPT ![t].pending = p]
    BY <1>5, <2>0 DEF JobFails
  <2>3. ASSUME FailTask(t, j) PROVE \E s, p, n : task' = [task EXCEPT ![t] = Row(t, s, p, n)]
    <3>1. PICK p : p = IF j[2] = "drop" THEN cleared(t, "dropping") ELSE task[t].pending OBVIOUS
    <3>2. task' = [task EXCEPT ![t] = Row(t, "failed", p, task[t].session)] BY <2>3, <3>1 DEF FailTask
    <3> QED BY <3>2
  <2>4. WorkersKept BY <2>2, <2>3, RowWorkers, UpdateWorkers, Standing
  <2>5. \/ job' = [job EXCEPT ![j] = Idle]
        \/ \E s : job' = [job EXCEPT ![j] = Idle, ![<<t, "release">>] = s]
    BY <1>5, <2>0 DEF JobFails, FailTask
  <2>6. Idle.pc = "idle" /\ "release" \in Kinds \ {"run", "reply"} BY Fields DEF Kinds
  <2>7. AtsKept BY <2>5, <2>6, OneFollows, TwoFollow DEF Placed
  <2> QED BY <2>4, <2>7 DEF Sits
<1>6. ASSUME ParkDecide(j) PROVE Sits
  <2>1. UNCHANGED task /\ job[j].pc = "parkQ" /\ w \in Workers
    BY <1>6, JobFields DEF ParkDecide, Nowhere
  <2>2. PICK r : /\ job' = [job EXCEPT ![j] = r]
                 /\ r = Idle \/ r = Step("stopping", w, job[j].seen, machine[w].state)
    BY <1>6 DEF ParkDecide
  <2>3. r.pc \in {"idle", "stopping"} BY <2>2, Fields
  <2>4. AtsKept BY <2>1, <2>2, <2>3, OneFollows DEF Placed
  <2> QED BY <2>1, <2>4, Standing DEF Sits
<1>7. ASSUME StopDone(j) \/ StopFails(j) PROVE Sits
  <2>1. /\ UNCHANGED task /\ job[j].pc = "stopping" /\ w \in Workers
        /\ job' = [job EXCEPT ![j] = Idle] /\ Idle.pc = "idle"
    BY <1>7, JobFields, Fields DEF StopDone, StopFails, Nowhere
  <2>2. AtsKept BY <2>1, OneFollows DEF Placed
  <2> QED BY <2>1, <2>2, Standing DEF Sits
<1> QED BY <1>1, <1>2, <1>3, <1>4, <1>5, <1>6, <1>7 DEF MachineStep

-----------------------------------------------------------------------------
(* The steps that move neither a job nor a row. *)
LEMMA WorldSits == ASSUME World PROVE Sits
BY Standing DEF Sits, World, TurnEnds, SessionTimesOut, Built, BecomesReady, Poll

(* The faults that touch no row and no job. *)
LEMMA FaultSits ==
    /\ \A s \in Sessions : SessionDies(s) => Sits
    /\ \A w \in Workers : SetupFails(w) \/ MachineFalls(w) \/ MachinePruned(w) => Sits
    /\ projectEdited => Sits
BY Standing DEF Sits, SessionDies, SetupFails, MachineFalls, MachinePruned, projectEdited

(* A run that takes a machine is at work in the one its task names then. *)
LEMMA TakenPlaces ==
    ASSUME Base, Tracked, AtOwn, GoneKept, NEW t \in Tasks, NEW w \in Workers, NEW r,
           task' = [task EXCEPT ![t].worker = w], job' = [job EXCEPT ![<<t, "run">>] = r], r.at = w,
           job[<<t, "run">>].pc # "idle"
    PROVE  AtOwn'
<1> DEFINE j == <<t, "run">>
<1>0. j \in Jobs /\ <<t, "reply">> \in Jobs BY JobsOf
<1>1. job'[j] = r /\ \A i \in Jobs \ {j} : job'[i] = job[i] BY <1>0 DEF Base, JobRows
<1>2. task'[t].worker = w /\ \A u \in Tasks \ {t} : task'[u].worker = task[u].worker
  BY DEF Base, TaskRows, TaskRow
<1>3. job[<<t, "reply">>].pc = "idle" BY DEF Tracked, TaskJobs
<1> SUFFICES ASSUME NEW u \in Tasks, NEW k \in {"run", "reply"}, job'[<<u, k>>].pc \in Placed
             PROVE  task'[u].worker = job'[<<u, k>>].at \/ Gone(job[<<u, k>>].at)'
  BY DEF AtOwn
<1>4. <<u, k>> \in Jobs /\ (<<u, k>> = j => u = t) /\ (u = t => k = "run" \/ k = "reply")
  BY JobNames DEF Kinds
<1>5. CASE <<u, k>> = j BY <1>1, <1>2, <1>4, <1>5
<1>6. CASE <<u, k>> # j /\ u = t
  <2>1. job'[<<u, k>>].pc = "idle" BY <1>0, <1>1, <1>3, <1>4, <1>6
  <2> QED BY <2>1 DEF Placed
<1>7. CASE u # t
  <2>1. job'[<<u, k>>] = job[<<u, k>>] BY <1>1, <1>4, <1>7
  <2>2. job[<<u, k>>].at \in Workers BY <1>4, <2>1, JobFields DEF Placed, Nowhere
  <2>3. task[u].worker = job[<<u, k>>].at \/ Gone(job[<<u, k>>].at) BY <2>1 DEF AtOwn
  <2>4. machine[job[<<u, k>>].at].state = "deleted" => machine'[job[<<u, k>>].at].state = "deleted"
    BY <2>2 DEF GoneKept, Gone
  <2> QED BY <1>2, <1>7, <2>1, <2>3, <2>4 DEF Gone
<1> QED BY <1>5, <1>6, <1>7

(* A run that claims a machine names it in the step that goes there. *)
LEMMA ClaimPlaces ==
    ASSUME Base, Tracked, AtOwn, GoneKept, NEW t \in Tasks, RunClaim(t)
    PROVE  AtOwn'
<1> DEFINE j == <<t, "run">>
           w == job[j].at
<1>0. j \in Jobs /\ job[j].pc = "claim" /\ w \in Workers BY JobsOf, JobFields DEF RunClaim, Nowhere
<1>1. \/ /\ task' = [task EXCEPT ![t].worker = w]
         /\ \E pc : job' = [job EXCEPT ![j] = Step(pc, w, 0, "recycled")]
      \/ UNCHANGED task /\ job' = [job EXCEPT ![j] = Now(j, "choose")]
  BY DEF RunClaim
<1>2. CASE UNCHANGED task /\ job' = [job EXCEPT ![j] = Now(j, "choose")]
  <2>1. Now(j, "choose").pc = "choose" BY Fields
  <2>2. AtsKept BY <1>0, <1>2, <2>1, OneFollows DEF Placed
  <2> QED BY <1>2, <2>2, Standing, PlacesKept
<1>3. CASE /\ task' = [task EXCEPT ![t].worker = w]
           /\ \E pc : job' = [job EXCEPT ![j] = Step(pc, w, 0, "recycled")]
  <2>1. PICK pc : job' = [job EXCEPT ![j] = Step(pc, w, 0, "recycled")] BY <1>3
  <2>2. Step(pc, w, 0, "recycled").at = w BY Fields
  <2> QED BY <1>0, <1>3, <2>1, <2>2, TakenPlaces
<1> QED BY <1>1, <1>2, <1>3

(* So does one that creates a machine. *)
LEMMA SpawnPlaces ==
    ASSUME Base, Tracked, AtOwn, GoneKept, NEW t \in Tasks, NEW w \in Workers, RunSpawn(t, w)
    PROVE  AtOwn'
<1>1. /\ task' = [task EXCEPT ![t].worker = w] /\ job[<<t, "run">>].pc # "idle"
      /\ job' = [job EXCEPT ![<<t, "run">>] = At("wait", w)]
  BY DEF RunSpawn
<1>2. At("wait", w).at = w BY Fields
<1> QED BY <1>1, <1>2, TakenPlaces

(* A job that starts at its task's machine is at its own. *)
LEMMA StartPlaces ==
    ASSUME Base, AtOwn, GoneKept, WorkersKept, NEW t \in Tasks, NEW k \in Kinds, NEW r,
           job' = [job EXCEPT ![<<t, k>>] = r], r.pc \in Placed => r.at = task[t].worker
    PROVE  AtOwn'
<1> DEFINE j == <<t, k>>
<1>0. j \in Jobs BY JobNames
<1>1. job'[j] = r /\ \A i \in Jobs \ {j} : job'[i] = job[i] BY <1>0 DEF Base, JobRows
<1> SUFFICES ASSUME NEW u \in Tasks, NEW m \in {"run", "reply"}, job'[<<u, m>>].pc \in Placed
             PROVE  task'[u].worker = job'[<<u, m>>].at \/ Gone(job[<<u, m>>].at)'
  BY DEF AtOwn
<1>2. <<u, m>> \in Jobs /\ task'[u].worker = task[u].worker BY JobNames DEF Kinds, WorkersKept
<1>3. CASE <<u, m>> = j
  <2>1. u = t BY <1>3
  <2> QED BY <1>1, <1>2, <1>3, <2>1
<1>4. CASE <<u, m>> # j
  <2>1. job'[<<u, m>>] = job[<<u, m>>] BY <1>1, <1>2, <1>4
  <2>2. job[<<u, m>>].at \in Workers BY <1>2, <2>1, JobFields DEF Placed, Nowhere
  <2>3. task[u].worker = job[<<u, m>>].at \/ Gone(job[<<u, m>>].at) BY <2>1 DEF AtOwn
  <2>4. machine[job[<<u, m>>].at].state = "deleted" => machine'[job[<<u, m>>].at].state = "deleted"
    BY <2>2 DEF GoneKept, Gone
  <2> QED BY <1>2, <2>1, <2>3, <2>4 DEF Gone
<1> QED BY <1>3, <1>4

(* A run that a restart resumed goes back to its own machine, or allocates. *)
LEMMA ResumePlaces ==
    ASSUME Base, AtOwn, GoneKept, NEW t \in Tasks, RunResume(t)
    PROVE  AtOwn'
<1>1. WorkersKept
  <2>1. CASE UNCHANGED task BY <2>1, Standing
  <2>2. CASE ~UNCHANGED task
    <3>1. PICK n : task' = [task EXCEPT ![t] = Row(t, "running", task[t].pending, n)]
      BY <2>2 DEF RunResume
    <3> QED BY <3>1, UpdateWorkers
  <2> QED BY <2>1, <2>2
<1>2. PICK r : /\ job' = [job EXCEPT ![<<t, "run">>] = r]
               /\ \/ r = Idle \/ r = At("pick", NoWorker)
                  \/ \E s : r = Step("wakeQ", task[t].worker, 0, s)
  BY DEF RunResume
<1>3. r.pc \in {"idle", "pick"} \/ r.at = task[t].worker BY <1>2, Fields
<1>4. "run" \in Kinds BY DEF Kinds
<1> QED BY <1>1, <1>2, <1>3, <1>4, StartPlaces DEF Placed

(* A reply goes to the machine of its task. *)
LEMMA ReplyPlaces ==
    ASSUME Base, AtOwn, GoneKept, NEW t \in Tasks, followUpTask(t)
    PROVE  AtOwn'
<1>1. task' = [task EXCEPT ![t].pending = "replying"] BY DEF followUpTask
<1>2. WorkersKept BY <1>1, RowWorkers
<1>3. job' = [job EXCEPT ![<<t, "reply">>] = At("wakeQ", task[t].worker)] BY DEF followUpTask
<1>4. At("wakeQ", task[t].worker).at = task[t].worker BY Fields
<1>5. "reply" \in Kinds BY DEF Kinds
<1> QED BY <1>2, <1>3, <1>4, <1>5, StartPlaces

(* deleteWorker: whoever was at work in the machine finds it gone. *)
LEMMA DeletePlaces ==
    ASSUME Base, AtOwn, NEW w \in Workers, deleteWorker(w)
    PROVE  AtOwn'
<1>1. /\ machine' = [machine EXCEPT ![w] = Box(w, "deleted", "none")] /\ UNCHANGED job
      /\ \A t \in Tasks : task'[t].worker = IF task[t].worker = w THEN NoWorker ELSE task[t].worker
  BY DEF deleteWorker
<1>2. machine'[w].state = "deleted" /\ \A v \in Workers \ {w} : machine'[v] = machine[v]
  BY <1>1 DEF Base, MachineRows, Box
<1> SUFFICES ASSUME NEW u \in Tasks, NEW m \in {"run", "reply"}, job'[<<u, m>>].pc \in Placed
             PROVE  task'[u].worker = job'[<<u, m>>].at \/ Gone(job[<<u, m>>].at)'
  BY DEF AtOwn
<1>3. <<u, m>> \in Jobs /\ job'[<<u, m>>] = job[<<u, m>>] BY <1>1, JobNames DEF Kinds
<1>4. job[<<u, m>>].at \in Workers BY <1>3, JobFields DEF Placed, Nowhere
<1>5. task[u].worker = job[<<u, m>>].at \/ Gone(job[<<u, m>>].at) BY <1>3 DEF AtOwn
<1>6. CASE job[<<u, m>>].at = w BY <1>2, <1>3, <1>6 DEF Gone
<1>7. CASE job[<<u, m>>].at # w
  <2>1. machine'[job[<<u, m>>].at] = machine[job[<<u, m>>].at] BY <1>2, <1>4, <1>7
  <2>2. task[u].worker = job[<<u, m>>].at => task'[u].worker = task[u].worker BY <1>1, <1>7
  <2> QED BY <1>3, <1>5, <2>1, <2>2 DEF Gone
<1> QED BY <1>6, <1>7

(* After a restart no run is in a machine yet. *)
LEMMA RestartPlaces == ASSUME Restart PROVE AtOwn'
<1>1. \A t \in Tasks, k \in {"run", "reply"} : job'[<<t, k>>].pc \in {"idle", "pick", "resume"}
  <2> SUFFICES ASSUME NEW t \in Tasks, NEW k \in {"run", "reply"}
               PROVE  job'[<<t, k>>].pc \in {"idle", "pick", "resume"}
    OBVIOUS
  <2>1. <<t, k>> \in Jobs /\ <<t, k>>[2] = k BY JobNames DEF Kinds
  <2>2. PICK r : job'[<<t, k>>] = r /\ (r = Idle \/ \E pc \in {"pick", "resume"} : r = At(pc, NoWorker))
    BY <2>1 DEF Restart, resumesAt
  <2> QED BY <2>2, Fields
<1> QED BY <1>1 DEF AtOwn, Placed

-----------------------------------------------------------------------------
(* A deleted machine stays deleted, whatever happens. *)
LEMMA EveryGone == ASSUME Inv, [Next]_vars PROVE GoneKept
<1>1. CASE UNCHANGED vars BY <1>1 DEF vars, GoneKept, Gone
<1>2. CASE Next
  <2>1. machine' \in NextMachines
    BY <1>2, EveryStep DEF Effects, Calm, Taking, Answering, Stopping, NextMachines
  <2> QED BY <2>1 DEF NextMachines, GoneKept, Gone
<1> QED BY <1>1, <1>2

(* Every step keeps every reset and launch at its own task's machine. *)
LEMMA EveryPlaces == ASSUME JobsInv, AtOwn, [Next]_vars PROVE AtOwn'
<1>0. Base /\ Tracked /\ GoneKept BY EveryGone DEF JobsInv, Inv
<1>1. Sits => AtOwn' BY <1>0, PlacesKept DEF Sits
<1>2. CASE UNCHANGED vars BY <1>1, <1>2, Standing DEF vars, Sits
<1>3. ASSUME NEW t \in Tasks, Click(t) PROVE AtOwn' BY <1>0, <1>1, <1>3, ClickSits, ReplyPlaces
<1>4. ASSUME NEW t \in Tasks, RunStep(t) PROVE AtOwn'
  BY <1>0, <1>1, <1>4, RunSits, ResumePlaces, ClaimPlaces, SpawnPlaces
<1>5. ASSUME NEW t \in Tasks, TaskStep(t) \/ Tick(t) \/ \E reads \in BOOLEAN : refreshTask(t, reads)
      PROVE  AtOwn'
  BY <1>0, <1>1, <1>5, TaskSits, TickSits
<1>6. ASSUME NEW j \in Jobs, MachineStep(j) PROVE AtOwn' BY <1>0, <1>1, <1>6, MachineSits
<1>7. CASE World BY <1>1, <1>7, WorldSits
<1>8. CASE Disturbance
  BY <1>0, <1>1, <1>8, FaultSits, MachineSits, DeletePlaces, RestartPlaces DEF Disturbance
<1> QED BY <1>2, <1>3, <1>4, <1>5, <1>6, <1>7, <1>8 DEF Next

(* Every run and every reply works in the machine of its own task, or in one *)
(* deleted under it, in every behaviour.                                     *)
THEOREM PlacesInvariant == Spec => [](JobsInv /\ AtOwn)
<1>1. Init => AtOwn
  <2> SUFFICES ASSUME Init, NEW t \in Tasks, NEW k \in {"run", "reply"} PROVE job[<<t, k>>].pc \notin Placed
    BY DEF AtOwn
  <2>1. <<t, k>> \in Jobs BY JobNames DEF Kinds
  <2>2. job[<<t, k>>] = Idle /\ Idle.pc = "idle" BY <2>1, Fields DEF Init
  <2> QED BY <2>2 DEF Placed
<1>2. JobsInv /\ AtOwn /\ [Next]_vars => AtOwn' BY EveryPlaces
<1> QED BY <1>1, <1>2, JobsInvariant, PTL DEF Spec

-----------------------------------------------------------------------------
(* Only a reset or a launch touches a workspace. *)
Touches(w) == \E u \in Tasks, k \in {"run", "reply"} :
                /\ job[<<u, k>>].pc \in {"reset", "launch"}
                /\ job[<<u, k>>].at = w /\ machine[w].box = "up"
(* A workspace that changes hands was reset or launched into. *)
Touched == \A w \in Workers : trace'[w] = trace[w] \/ Touches(w)

(* Of a run's steps, only those two. *)
LEMMA RunTouches == ASSUME Base, NEW t \in Tasks, RunStep(t) PROVE Touched
<1>0. <<t, "run">> \in Jobs /\ <<t, "reply">> \in Jobs BY JobsOf
<1>1. CASE UNCHANGED trace BY <1>1 DEF Touched
<1>2. ASSUME NEW k \in {"run", "reply"}, job[<<t, k>>].pc \in {"reset", "launch"},
             machine[job[<<t, k>>].at].box = "up",
             \E v : trace' = [trace EXCEPT ![job[<<t, k>>].at] = v]
      PROVE Touched
  <2>1. PICK v : trace' = [trace EXCEPT ![job[<<t, k>>].at] = v] BY <1>2
  <2>2. \A w \in Workers \ {job[<<t, k>>].at} : trace'[w] = trace[w] BY <2>1 DEF Base, Agents
  <2> QED BY <1>2, <2>2 DEF Touched, Touches
<1>3. ASSUME RunReset(t) PROVE Touched
  BY <1>1, <1>2, <1>3 DEF RunReset
<1>4. ASSUME NEW k \in {"run", "reply"}, Launch(t, k) PROVE Touched
  BY <1>1, <1>2, <1>4 DEF Launch
<1>5. ASSUME NEW k \in {"run", "reply"}, Started(t, k) \/ StdinFails(t, k) PROVE Touched
  BY <1>1, <1>5 DEF Started, StdinFails, agentVars
<1>6. ASSUME NEW w \in Workers, RunChoose(t, w) \/ RunSpawn(t, w) PROVE Touched
  BY <1>1, <1>6 DEF RunChoose, RunSpawn, agentVars
<1>7. ASSUME \/ RunPick(t) \/ RunClaim(t) \/ RunRebuild(t) \/ RunResume(t) \/ RunRecord(t) \/ RunUnwind(t)
      PROVE Touched
  BY <1>1, <1>7 DEF RunPick, RunClaim, RunRebuild, RunResume, RunRecord, RunUnwind, agentVars, agentRows
<1> QED BY <1>3, <1>4, <1>5, <1>6, <1>7 DEF RunStep

(* Nothing else touches one. *)
LEMMA OthersTouch ==
    /\ \A t \in Tasks : Click(t) \/ TaskStep(t) \/ Tick(t) => UNCHANGED trace
    /\ \A t \in Tasks : (\E reads \in BOOLEAN : refreshTask(t, reads)) => UNCHANGED trace
    /\ \A j \in Jobs : MachineStep(j) => UNCHANGED trace
    /\ World \/ Disturbance => UNCHANGED trace
<1>1. ASSUME NEW t \in Tasks, Click(t) PROVE UNCHANGED trace
  BY <1>1 DEF Click, createTask, validateTask, cancelTask, followUpLive, followUpTask, handPark,
              keepTaskAwake, wakeTask, agentVars
<1>2. ASSUME NEW t \in Tasks, TaskStep(t) PROVE UNCHANGED trace
  BY <1>2 DEF TaskStep, ReplyRecord, AcceptRan, DropKill, DropRan, LiveSend, LiveRecord, HandCheck,
              ReleaseTidy, ReleaseResume, agentVars, agentRows
<1>3. ASSUME NEW t \in Tasks, Tick(t) PROVE UNCHANGED trace
  BY <1>3 DEF Tick, RefreshBegin, parkDue, agentVars
<1>4. ASSUME NEW t \in Tasks, NEW reads \in BOOLEAN, refreshTask(t, reads) PROVE UNCHANGED trace
  BY <1>4 DEF refreshTask
<1>5. ASSUME NEW j \in Jobs, MachineStep(j) PROVE UNCHANGED trace
  BY <1>5 DEF MachineStep, WakeDecide, WakeDone, WaitReady, WaitFails, JobFails, ParkDecide, StopDone,
              agentVars, agentRows
<1>6. ASSUME World PROVE UNCHANGED trace
  BY <1>6 DEF World, TurnEnds, SessionTimesOut, Built, BecomesReady, Poll, agentVars, agentRows
<1>7. ASSUME Disturbance PROVE UNCHANGED trace
  BY <1>7 DEF Disturbance, SessionDies, SetupFails, MachineFalls, MachinePruned, deleteWorker, StopFails,
              WaitTimesOut, projectEdited, Restart, agentVars, agentRows
<1> QED BY <1>1, <1>2, <1>3, <1>4, <1>5, <1>6, <1>7

(* ... so for every step. *)
LEMMA EveryTouch == ASSUME Base, [Next]_vars PROVE Touched
<1>1. UNCHANGED trace => Touched BY DEF Touched
<1>2. CASE UNCHANGED vars BY <1>1, <1>2 DEF vars
<1>3. CASE Next BY <1>1, <1>3, RunTouches, OthersTouch DEF Next
<1> QED BY <1>2, <1>3

(* findFreePoolWorker: the workspace of a task still to be judged is never  *)
(* reset, nor launched into, for another live task.  What touches it is its *)
(* own run or reply, or the rest of one whose task was dropped or accepted  *)
(* meanwhile: from exclusive holding, and from every run being at its own   *)
(* task's machine.                                                          *)
THEOREM WorkspaceKept == Spec => ReviewedWorkspaceKept
<1> DEFINE Judged ==
      \A w \in Workers, t \in Tasks :
          trace[w] = t /\ trace'[w] # t
            => \/ ~isLive(t) \/ task[t].worker # w \/ t \in revived
               \/ \E u \in Tasks, k \in {"run", "reply"} :
                     /\ u = t \/ ~isLive(u) \/ u \in revived
                     /\ job[<<u, k>>].at = w /\ job[<<u, k>>].pc \in {"reset", "launch"}
<1>1. ASSUME JobsInv, AtOwn, [Next]_vars PROVE Judged
  <2> SUFFICES ASSUME NEW w \in Workers, NEW t \in Tasks, trace[w] = t, trace'[w] # t,
                      isLive(t), task[t].worker = w, t \notin revived
               PROVE  \E u \in Tasks, k \in {"run", "reply"} :
                         /\ u = t \/ ~isLive(u) \/ u \in revived
                         /\ job[<<u, k>>].at = w /\ job[<<u, k>>].pc \in {"reset", "launch"}
    OBVIOUS
  <2>0. Base /\ ExclusiveHold BY <1>1 DEF JobsInv, Inv
  <2>1. Touches(w) BY <1>1, <2>0, EveryTouch DEF Touched
  <2>2. PICK u \in Tasks, k \in {"run", "reply"} :
               /\ job[<<u, k>>].pc \in {"reset", "launch"}
               /\ job[<<u, k>>].at = w /\ machine[w].box = "up"
    BY <2>1 DEF Touches
  <2>3. task[u].worker = w
    <3>1. ~Gone(w) BY <2>0, <2>2 DEF Base, Bare, Rowless, Gone
    <3> QED BY <1>1, <2>2, <3>1 DEF AtOwn, Placed
  <2>4. u = t \/ ~isLive(u) \/ u \in revived
    BY <2>0, <2>3, NullsAssumption DEF ExclusiveHold
  <2> QED BY <2>2, <2>4
<1>2. Judged /\ [Next]_vars => [Judged]_vars OBVIOUS
<1> HIDE DEF Judged
<1>3. JobsInv /\ AtOwn /\ [Next]_vars => [Judged]_vars BY <1>1, <1>2
<1>4. Spec => [][Judged]_vars BY <1>3, PlacesInvariant, PTL DEF Spec
<1> QED BY <1>4 DEF Judged, ReviewedWorkspaceKept
===============================================================================
