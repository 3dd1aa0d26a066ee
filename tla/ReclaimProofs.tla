--------------------------- MODULE ReclaimProofs ---------------------------
(* StepsBounded for every size of file and step: a reclaim makes at most as    *)
(* many steps as there were free pages when it began, whatever inserts and     *)
(* deletes do between two of them.                                             *)
EXTENDS Reclaim, TLAPS

(* A turn of the loop that goes on has shortened the freelist it knows of, so  *)
(* the steps made and the pages still known never add up to more than there    *)
(* were at first.                                                              *)
Progress ==
  \A t \in Tasks :
    /\ pc[t] \in {"idle", "begin"} => steps[t] = 0
    /\ pc[t] = "loop" => steps[t] + known[t] <= before[t]
    /\ steps[t] <= before[t]

RInv == TypeOK /\ Progress

(* A step releases some of the free pages and no more than there are.          *)
LEMMA ReleasedBound ==
  ASSUME free \in Nat
  PROVE  Released \in Nat /\ Released <= free
BY ReclaimAssumption DEF Released

(* At the start no task has made a step.                                       *)
LEMMA InitRInv == Init => RInv
BY ReclaimAssumption DEF Init, RInv, TypeOK, Progress, Zero, Tasks

(* Mail that comes and goes moves pages and no task.                           *)
LEMMA MailKeepsRInv ==
  ASSUME RInv, NEW n \in 1..MaxPages, Insert(n) \/ Delete(n)
  PROVE  RInv'
<1>1. TypeOK'
  <2>1. CASE Insert(n)
    BY <2>1, ReclaimAssumption DEF RInv, TypeOK, Insert
  <2>2. CASE Delete(n)
    BY <2>2, ReclaimAssumption DEF RInv, TypeOK, Delete
  <2> QED BY <2>1, <2>2
<1>2. Progress'
  BY DEF RInv, Progress, Insert, Delete
<1> QED BY <1>1, <1>2 DEF RInv

(* A delete-all or a sweep starts a task that has made no step yet.            *)
LEMMA StartKeepsRInv ==
  ASSUME RInv, Sweep \/ \E t \in Clears : DeleteAll(t)
  PROVE  RInv'
<1>1. CASE \E t \in Clears : DeleteAll(t)
  BY <1>1, ReclaimAssumption DEF RInv, TypeOK, Progress, DeleteAll, Tasks
<1>2. CASE Sweep
  BY <1>2, ReclaimAssumption DEF RInv, TypeOK, Progress, Sweep, Tasks
<1> QED BY <1>1, <1>2

(* The loop: a turn adds one step, and goes on only with fewer known pages.    *)
LEMMA VacuumKeepsRInv ==
  ASSUME RInv, NEW t \in Tasks, Vacuum(t)
  PROVE  RInv'
<1>1. free' \in Nat /\ free' <= free
  BY ReleasedBound, ReclaimAssumption DEF RInv, TypeOK, Vacuum
<1>2. TypeOK'
  BY <1>1, ReclaimAssumption DEF RInv, TypeOK, Vacuum, Counted
<1>3. steps'[t] = steps[t] + 1 /\ known'[t] = free'
  BY DEF RInv, TypeOK, Progress, Vacuum, Counted
<1>4. steps'[t] <= before[t]
  BY <1>3 DEF RInv, TypeOK, Progress, Vacuum
<1>5. pc'[t] = "loop" => steps'[t] + known'[t] <= before[t]
  BY <1>1, <1>3 DEF RInv, TypeOK, Progress, Vacuum
<1>6. pc'[t] \in {"loop", "checkpoint"}
  BY DEF RInv, TypeOK, Vacuum
<1>7. \A u \in Tasks \ {t} :
        pc'[u] = pc[u] /\ steps'[u] = steps[u] /\ known'[u] = known[u]
  BY DEF RInv, TypeOK, Vacuum
<1>8. before' = before
  BY DEF Vacuum
<1>9. Progress'
  BY <1>4, <1>5, <1>6, <1>7, <1>8 DEF RInv, Progress
<1> QED BY <1>2, <1>9 DEF RInv

(* What a task does around the loop: it counts the freelist, runs out of       *)
(* budget, leaves, and forgets its counts at the end.                          *)
LEMMA TaskKeepsRInv ==
  ASSUME RInv, NEW t \in Tasks,
         Begin(t) \/ Expire(t) \/ LeaveLoop(t) \/ Finish(t)
  PROVE  RInv'
<1>1. CASE Begin(t)
  BY <1>1, ReclaimAssumption DEF RInv, TypeOK, Progress, Begin, Tasks
<1>2. CASE Expire(t)
  BY <1>2, ReclaimAssumption DEF RInv, TypeOK, Progress, Expire
<1>3. CASE LeaveLoop(t)
  BY <1>3, ReclaimAssumption DEF RInv, TypeOK, Progress, LeaveLoop
<1>4. CASE Finish(t)
  BY <1>4, ReclaimAssumption DEF RInv, TypeOK, Progress, Finish
<1> QED BY <1>1, <1>2, <1>3, <1>4

(* The loop of reclaim.rs is bounded by the freelist it found, not by its      *)
(* budget: steps never outnumber the pages that were free when it began.       *)
THEOREM ReclaimIsBounded ==
  Spec => [](TypeOK /\ StepsBounded)
<1>1. Init => RInv
  BY InitRInv
<1>2. RInv /\ [Next]_vars => RInv'
  <2> SUFFICES ASSUME RInv, [Next]_vars PROVE RInv'
    OBVIOUS
  <2>1. CASE \E n \in 1..MaxPages : Insert(n) \/ Delete(n)
    BY <2>1, MailKeepsRInv
  <2>2. CASE Sweep \/ \E t \in Clears : DeleteAll(t)
    BY <2>2, StartKeepsRInv
  <2>3. CASE \E t \in Tasks : Reclaiming(t) \/ Expire(t) \/ Finish(t)
    <3>1. PICK t \in Tasks : Reclaiming(t) \/ Expire(t) \/ Finish(t)
      BY <2>3
    <3>2. Vacuum(t) \/ Begin(t) \/ Expire(t) \/ LeaveLoop(t) \/ Finish(t)
      BY <3>1 DEF Reclaiming
    <3> QED BY <3>2, VacuumKeepsRInv, TaskKeepsRInv
  <2>4. CASE UNCHANGED vars
    BY <2>4 DEF RInv, TypeOK, Progress, vars
  <2> QED BY <2>1, <2>2, <2>3, <2>4 DEF Next
<1>3. RInv => TypeOK /\ StepsBounded
  BY DEF RInv, Progress, StepsBounded
<1> QED BY <1>1, <1>2, <1>3, PTL DEF Spec
============================================================================
