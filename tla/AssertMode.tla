----------------------------- MODULE AssertMode -----------------------------
(* `rustmail assert`: an SMTP server over an in-memory store, a checker that   *)
(* stores what arrives and counts the matching mail after each batch, and a    *)
(* timeout; whichever ends first gives the exit code.                          *)
EXTENDS Naturals, Sequences, FiniteSets

CONSTANTS
  MinCount,    \* --min-count
  MaxBatch,    \* MAX_BATCH_MESSAGES
  Mails,       \* bound: messages sent
  Faults       \* whether binding, storing and counting may fail

AssertAssumption ==
  /\ MinCount \in Nat /\ MaxBatch \in Nat \ {0} /\ Mails \in Nat /\ Faults \in BOOLEAN

(* A message matches every filter given, or does not, or cannot be stored.     *)
Kinds == {"match", "other", "bad"}

VARIABLES
  smtp,      \* the SMTP task: "starting", "listening" or "ended"
  queue,     \* deliveries handed off
  sent,      \* how many messages were sent
  checker,   \* "receive", "store", "count", "met" or "gone"
  batch,     \* what it received
  stored,    \* matching and other messages in the store
  timeUp,    \* the timeout has elapsed
  code       \* the exit code, or "none"

vars == <<smtp, queue, sent, checker, batch, stored, timeUp, code>>

TypeOK ==
  /\ smtp \in {"starting", "listening", "ended"}
  /\ queue \in Seq(Kinds) /\ batch \in Seq(Kinds) /\ Len(batch) <= MaxBatch
  /\ sent \in 0..Mails
  /\ checker \in {"receive", "store", "count", "met", "gone"}
  /\ stored \in [{"match", "other"} -> 0..Mails]
  /\ timeUp \in BOOLEAN /\ code \in {"none", "pass", "fail"}

Init ==
  /\ smtp = "starting" /\ queue = <<>> /\ sent = 0
  /\ checker = "receive" /\ batch = <<>>
  /\ stored = [k \in {"match", "other"} |-> 0]
  /\ timeUp = FALSE /\ code = "none"

Up == code = "none"

(* SmtpServer::run binds; if it cannot, the task logs the error and drops the  *)
(* server, and with it the queue's sender.                                     *)
BindSmtp ==
  /\ Up /\ smtp = "starting"
  /\ smtp' = "listening" \/ (Faults /\ smtp' = "ended")
  /\ UNCHANGED <<queue, sent, checker, batch, stored, timeUp, code>>

Deliver(k) ==
  /\ Up /\ smtp = "listening" /\ sent < Mails
  /\ sent' = sent + 1 /\ queue' = Append(queue, k)
  /\ UNCHANGED <<smtp, checker, batch, stored, timeUp, code>>

(* next_batch, never asked to stop: what is queued, or the end of the queue.   *)
NextBatch ==
  /\ Up /\ checker = "receive"
  /\ LET n == IF Len(queue) < MaxBatch THEN Len(queue) ELSE MaxBatch
     IN \/ n > 0 /\ batch' = SubSeq(queue, 1, n) /\ checker' = "store"
                 /\ queue' = SubSeq(queue, n + 1, Len(queue))
        \/ n = 0 /\ smtp = "ended" /\ checker' = "gone" /\ UNCHANGED <<queue, batch>>
  /\ UNCHANGED <<smtp, sent, stored, timeUp, code>>

(* Of batch, the messages at ok are stored and the others refused.             *)
Counted(ok, k) == stored[k] + Cardinality({i \in ok : batch[i] = k})

(* Mutant: the batch is counted whole, whatever became of its messages *)
StoreBatchHandedOff ==
  /\ Up /\ checker = "store"
  /\ stored' = [k \in {"match", "other"} |-> Counted({}, k)]
  /\ checker' = IF Cardinality({i \in DOMAIN batch : batch[i] = "match"}) >= MinCount
                THEN "met" ELSE "receive"
  /\ batch' = <<>>
  /\ UNCHANGED <<smtp, queue, sent, timeUp, code>>

(* store_batch answers every delivery; nothing stored, nothing to count.       *)
StoreBatch ==
  /\ Up /\ checker = "store"
  /\ \E ok \in SUBSET {i \in DOMAIN batch : batch[i] # "bad"} :
       /\ Faults \/ \A i \in DOMAIN batch : batch[i] # "bad" => i \in ok
       /\ stored' = [k \in {"match", "other"} |-> Counted(ok, k)]
       /\ checker' = IF ok = {} THEN "receive" ELSE "count"
  /\ batch' = <<>>
  /\ UNCHANGED <<smtp, queue, sent, timeUp, code>>

(* count_matching over the whole store; an error counts as none.               *)
CountMatching ==
  /\ Up /\ checker = "count"
  /\ \E n \in {stored["match"]} \cup (IF Faults THEN {0} ELSE {}) :
       checker' = IF n >= MinCount THEN "met" ELSE "receive"
  /\ UNCHANGED <<smtp, queue, sent, batch, stored, timeUp, code>>

Elapse ==
  /\ Up /\ ~timeUp
  /\ timeUp' = TRUE
  /\ UNCHANGED <<smtp, queue, sent, checker, batch, stored, code>>

(* The select!: the checker's verdict, or the timeout; then the process exits. *)
Exit ==
  /\ Up
  /\ \/ checker = "met" /\ code' = "pass"
     \/ checker = "gone" /\ code' = "fail"
     \/ timeUp /\ code' = "fail"
  /\ UNCHANGED <<smtp, queue, sent, checker, batch, stored, timeUp>>

Check == NextBatch \/ StoreBatch \/ CountMatching

Next == BindSmtp \/ (\E k \in Kinds : Deliver(k)) \/ Check \/ Elapse \/ Exit

Spec == Init /\ [][Next]_vars

(* The tasks run and the timer fires.                                          *)
FairSpec == Spec /\ WF_vars(BindSmtp) /\ WF_vars(Check) /\ WF_vars(Exit)

----------------------------------------------------------------------------

(* "0: required emails were received": no failure, refusal or race makes a run *)
(* pass without the mail.                                                      *)
PassIsEarned == code = "pass" => stored["match"] >= MinCount

(* "Exits 0 as soon as --min-count matching emails arrive": in whatever        *)
(* batches they came, they are noticed unless time runs out first.             *)
PassIsNoticed ==
  (MinCount > 0 /\ stored["match"] >= MinCount) ~> (code = "pass" \/ timeUp)

(* A port that cannot be bound fails the run at once, without the timeout.     *)
BindFailureIsFatal == (smtp = "ended") ~> ~Up
============================================================================
