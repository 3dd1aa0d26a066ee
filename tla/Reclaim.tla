------------------------------ MODULE Reclaim ------------------------------
(* Giving free pages back to the filesystem: the loop of bounded              *)
(* incremental_vacuum steps that a delete-all and a retention sweep run on    *)
(* the one writer connection, while inserts and deletes use it between two    *)
(* steps.  A statement on the writer is one action.                           *)
EXTENDS Naturals

CONSTANTS
  StepPages,   \* RECLAIM_STEP_PAGES
  MinFree,     \* RETENTION_MIN_FREE_BYTES, in pages
  MinPercent,  \* RETENTION_MIN_FREE_PERCENT
  MaxPages,    \* bound: pages of the database
  Clears       \* bound: the delete-all requests that may be under way at once

ASSUME ReclaimAssumption ==
  /\ StepPages \in Nat \ {0} /\ MinFree \in Nat /\ MaxPages \in Nat
  /\ MinPercent \in 0..99
  /\ "retention" \notin Clears

(* The reclaim of each delete-all and the one of the retention task: they may *)
(* all run at the same time.                                                  *)
Tasks == Clears \cup {"retention"}

VARIABLES
  used, free,   \* pages holding mail and pages on the freelist
  pc,           \* of each task: "idle", "begin", "loop" or "checkpoint"
  before,       \* freelist_count when the task began
  known,        \* its free_pages: the freelist its last step left
  spent,        \* its budget has run out
  steps         \* ghost: steps it ran

vars == <<used, free, pc, before, known, spent, steps>>

TypeOK ==
  /\ used \in 0..MaxPages /\ free \in 0..MaxPages /\ used + free <= MaxPages
  /\ pc \in [Tasks -> {"idle", "begin", "loop", "checkpoint"}]
  /\ before \in [Tasks -> Nat] /\ known \in [Tasks -> Nat]
  /\ steps \in [Tasks -> Nat]
  /\ spent \in [Tasks -> BOOLEAN]

Zero == [t \in Tasks |-> 0]

Init ==
  /\ used \in 0..MaxPages /\ free = 0
  /\ pc = [t \in Tasks |-> "idle"]
  /\ before = Zero /\ known = Zero /\ steps = Zero
  /\ spent = [t \in Tasks |-> FALSE]

(* PageStats::warrants_retention_reclaim: more than both floors.              *)
Warrants(f, u) == f > MinFree /\ f * 100 > (f + u) * MinPercent

(* New mail takes free pages before the file grows.                           *)
Insert(n) ==
  /\ used' = used + n
  /\ free' = IF n < free THEN free - n ELSE 0
  /\ used' + free' <= MaxPages
  /\ UNCHANGED <<pc, before, known, spent, steps>>

Delete(n) ==
  /\ n <= used
  /\ used' = used - n /\ free' = free + n
  /\ UNCHANGED <<pc, before, known, spent, steps>>

(* delete_all_messages, in one request of several: the delete, then           *)
(* reclaim_after_delete_all.                                                  *)
DeleteAll(t) ==
  /\ pc[t] = "idle"
  /\ used' = 0 /\ free' = free + used
  /\ pc' = [pc EXCEPT ![t] = "begin"]
  /\ UNCHANGED <<before, known, spent, steps>>

(* reclaim_after_retention, once a minute: reads the counts and goes on only  *)
(* when they warrant it.                                                      *)
Sweep ==
  /\ pc["retention"] = "idle" /\ Warrants(free, used)
  /\ pc' = [pc EXCEPT !["retention"] = "begin"]
  /\ UNCHANGED <<used, free, before, known, spent, steps>>

Begin(t) ==
  /\ pc[t] = "begin"
  /\ pc' = [pc EXCEPT ![t] = "loop"]
  /\ before' = [before EXCEPT ![t] = free]
  /\ known' = [known EXCEPT ![t] = free]
  /\ UNCHANGED <<used, free, spent, steps>>

Expire(t) ==
  /\ pc[t] = "loop" /\ ~spent[t]
  /\ spent' = [spent EXCEPT ![t] = TRUE]
  /\ UNCHANGED <<used, free, pc, before, known, steps>>

(* The ghost counts one step past the bound StepsBounded states.              *)
Counted(t) == IF steps[t] <= before[t] THEN steps[t] + 1 ELSE steps[t]

Released == IF StepPages < free THEN StepPages ELSE free

(* Mutant: the loop runs until the freelist is empty *)
VacuumUntilEmpty(t) ==
  /\ pc[t] = "loop" /\ known[t] > 0 /\ ~spent[t]
  /\ free' = free - Released
  /\ known' = [known EXCEPT ![t] = free']
  /\ steps' = [steps EXCEPT ![t] = Counted(t)]
  /\ UNCHANGED <<used, pc, before, spent>>

(* One turn of the loop: a bounded incremental_vacuum and the freelist it     *)
(* leaves, on the same connection; no progress ends the loop.                 *)
Vacuum(t) ==
  /\ pc[t] = "loop" /\ known[t] > 0 /\ ~spent[t]
  /\ free' = free - Released
  /\ known' = [known EXCEPT ![t] = free']
  /\ steps' = [steps EXCEPT ![t] = Counted(t)]
  /\ pc' = [pc EXCEPT ![t] = IF free' < known[t] THEN "loop" ELSE "checkpoint"]
  /\ UNCHANGED <<used, before, spent>>

LeaveLoop(t) ==
  /\ pc[t] = "loop" /\ (known[t] = 0 \/ spent[t])
  /\ pc' = [pc EXCEPT ![t] = "checkpoint"]
  /\ UNCHANGED <<used, free, before, known, spent, steps>>

(* wal_checkpoint(TRUNCATE), busy or not; or a step that stayed contended     *)
(* after its retries, or failed: the error is logged by the caller.           *)
Finish(t) ==
  /\ pc[t] \in {"begin", "loop", "checkpoint"}
  /\ pc' = [pc EXCEPT ![t] = "idle"]
  /\ before' = [before EXCEPT ![t] = 0]
  /\ known' = [known EXCEPT ![t] = 0]
  /\ steps' = [steps EXCEPT ![t] = 0]
  /\ spent' = [spent EXCEPT ![t] = FALSE]
  /\ UNCHANGED <<used, free>>

Reclaiming(t) == Begin(t) \/ Vacuum(t) \/ LeaveLoop(t) \/ (pc[t] = "checkpoint" /\ Finish(t))

Next ==
  \/ \E n \in 1..MaxPages : Insert(n) \/ Delete(n)
  \/ Sweep \/ \E t \in Clears : DeleteAll(t)
  \/ \E t \in Tasks : Reclaiming(t) \/ Expire(t) \/ Finish(t)

Spec == Init /\ [][Next]_vars

(* A reclaim's next statement gets the writer in the end (the pool is first   *)
(* come, first served), and nothing is assumed of the budget.                 *)
Fairness == \A t \in Tasks : WF_vars(Reclaiming(t))

(* The retention task keeps ticking, and not every one of its reclaims runs   *)
(* out of time, or fails, before its first step.                              *)
FairSpec ==
  /\ Spec /\ Fairness
  /\ WF_vars(Sweep) /\ SF_vars(Begin("retention")) /\ SF_vars(Vacuum("retention"))

----------------------------------------------------------------------------

(* The loop runs at most as many steps as there were free pages when it       *)
(* began, whatever other connections and other reclaims free or use           *)
(* meanwhile: the progress test, not the budget, bounds it.                   *)
StepsBounded == \A t \in Tasks : steps[t] <= before[t]

(* So every reclaim ends, even if its budget never runs out and mail is       *)
(* deleted as fast as pages are released.                                     *)
ReclaimEnds == \A t \in Tasks : (pc[t] # "idle") ~> (pc[t] = "idle")

(* The threshold the docs give: more than 64 MiB and a quarter of the file.   *)
PastThreshold == free > MinFree /\ free * 100 > (used + free) * MinPercent

(* "Whatever it leaves on the freelist is picked up by a later sweep": when   *)
(* the mailbox comes to rest, the freelist ends below the threshold.          *)
FreelistSettles == <>[][used' = used]_used => <>[]~PastThreshold
============================================================================
