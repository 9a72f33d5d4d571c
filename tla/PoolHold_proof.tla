--------------------------- MODULE PoolHold_proof ---------------------------
(***************************************************************************)
(* What follows from the abstract pool alone, for any tasks and machines.  *)
(***************************************************************************)
EXTENDS PoolHold, TLAPS

(* Holders are tasks, and nobody shares a machine but through a re-opened task. *)
Inv == TypeOK /\ Exclusive

(* Each way a holding changes keeps it so (the claim of findFreePoolWorker, the *)
(* release, a live reply to a task that is over).                               *)
LEMMA PoolStep == Inv /\ [Next]_vars => Inv'
<1> SUFFICES ASSUME Inv, [Next]_vars PROVE Inv' OBVIOUS
<1>1. ASSUME NEW t \in Tasks, NEW w \in Workers, Take(t, w) PROVE Inv'
  <2>1. TypeOK' BY <1>1 DEF Inv, TypeOK, Take
  <2>2. Exclusive' BY <1>1 DEF Inv, TypeOK, Exclusive, Take
  <2> QED BY <2>1, <2>2 DEF Inv
<1>2. ASSUME NEW t \in Tasks, NEW w \in Workers, Reopen(t, w) PROVE Inv'
  <2>1. TypeOK' BY <1>2 DEF Inv, TypeOK, Reopen
  <2>2. Exclusive' BY <1>2 DEF Inv, TypeOK, Exclusive, Reopen
  <2> QED BY <2>1, <2>2 DEF Inv
<1>3. ASSUME NEW over \in SUBSET Tasks, GiveBack(over) PROVE Inv'
  <2>1. TypeOK' BY <1>3 DEF Inv, TypeOK, GiveBack
  <2>2. Exclusive' BY <1>3 DEF Inv, TypeOK, Exclusive, GiveBack
  <2> QED BY <2>1, <2>2 DEF Inv
<1>4. ASSUME NEW t \in Tasks, ReopenNowhere(t) PROVE Inv'
  <2>1. TypeOK' BY <1>4 DEF Inv, TypeOK, ReopenNowhere
  <2>2. Exclusive' BY <1>4 DEF Inv, TypeOK, Exclusive, ReopenNowhere
  <2> QED BY <2>1, <2>2 DEF Inv
<1>5. CASE UNCHANGED vars BY <1>5 DEF Inv, TypeOK, Exclusive, vars
<1> QED BY <1>1, <1>2, <1>3, <1>4, <1>5 DEF Next

(* No two tasks hold a machine together, unless a person re-opened one of them *)
(* (the promise findFreePoolWorker's comment makes, services/tasks.ts).        *)
THEOREM PoolExclusive == Spec => []Exclusive
<1>1. Init => Inv BY DEF Init, Inv, TypeOK, Exclusive
<1>2. Inv => Exclusive BY DEF Inv
<1> QED BY <1>1, <1>2, PoolStep, PTL DEF Spec
=============================================================================
