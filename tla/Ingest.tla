------------------------------- MODULE Ingest -------------------------------
(***************************************************************************)
(* The path of a captured mail from the end of its DATA phase to the SMTP  *)
(* reply: concurrent sessions hand a Delivery over a bounded channel to    *)
(* one message processor, which commits batches of them to the store and   *)
(* answers each over the oneshot channel its session waits on.             *)
(*                                                                         *)
(*   session.rs    deliver                 the sessions' side              *)
(*   message.rs    Delivery, DeliveryAck   the oneshot carrying a verdict  *)
(*   main.rs       next_batch, transactions, prepare, store_group,         *)
(*                 store_one_by_one        the processor                   *)
(*   main.rs       run_serve               stop, drain, abort, failure     *)
(*                                                                         *)
(* A delivery is named by its ticket: the n-th one accepted by the channel *)
(* is ticket n.  What it holds is abstracted to its size in bytes.         *)
(***************************************************************************)
EXTENDS Integers, Sequences, FiniteSets, Functions

CONSTANTS
    Sessions,         \* SMTP sessions, one per permit of the accept loop
    QueueCapacity,    \* capacity of the mpsc channel (256 in run_serve)
    MaxBatchMessages, \* deliveries one recv_many may take (32)
    MaxBatchBytes,    \* bytes of raw mail in one transaction (4 MiB)
    Sizes,            \* the message sizes senders use
    MaxDeliveries     \* model bound: deliveries handed over in one run

ASSUME IngestAssumption ==
    /\ QueueCapacity \in Nat \ {0}
    /\ MaxBatchMessages \in Nat \ {0}
    /\ MaxBatchBytes \in Nat
    /\ Sizes \subseteq Nat
    /\ MaxDeliveries \in Nat

Tickets == 1 .. MaxDeliveries

VARIABLES
    phase,    \* session -> where it is in deliver()
    ticket,   \* session -> the delivery whose verdict it awaits
    handed,   \* deliveries the channel has accepted so far
    size,     \* ticket -> raw.len()
    ack,      \* ticket -> state of its oneshot
    reply,    \* ticket -> what its sender was told
    queue,    \* the mpsc channel's contents
    rx,       \* "open" until the receiver is closed or dropped
    stopping, \* stop_processor has been sent
    pc,       \* where the message processor is
    rest,     \* deliveries of the batch not yet in a group
    group,    \* deliveries of the current group not yet prepared
    messages, \* prepared messages whose acks the processor still holds
    expired,  \* fallback_deadline of the current batch has passed
    log       \* committed tickets, in commit order

sessionVars == <<phase, ticket, reply>>
channelVars == <<handed, size, queue, rx>>
processorVars == <<pc, rest, group, messages, expired>>
vars == <<phase, ticket, handed, size, ack, reply, queue, rx, stopping,
          pc, rest, group, messages, expired, log>>

Phases == {"idle", "sending", "waiting", "dead"}
Acks == {"none", "pending", "stored", "rejected", "dropped"}
Replies == {"none", "250", "451", "timeout"}
AwaitPoints == {"next_batch", "prepare", "insert_batch", "batch_committed",
                "insert_prepared", "one_committed"}
PCs == AwaitPoints \cup {"next_group", "one_by_one", "ended", "aborted"}
Gone == {"ended", "aborted"}

Init ==
    /\ phase = [s \in Sessions |-> "idle"]
    /\ ticket = [s \in Sessions |-> 0]
    /\ handed = 0
    /\ size = [t \in Tickets |-> 0]
    /\ ack = [t \in Tickets |-> "none"]
    /\ reply = [t \in Tickets |-> "none"]
    /\ queue = <<>>
    /\ rx = "open"
    /\ stopping = FALSE
    /\ pc = "next_batch"
    /\ rest = <<>>
    /\ group = <<>>
    /\ messages = <<>>
    /\ expired = FALSE
    /\ log = <<>>

\* The oneshots of the tickets in T carry v: one send, or one drop, each.
Settle(T, v) == ack' = [t \in Tickets |-> IF t \in T THEN v ELSE ack[t]]

\* DeliveryAck::is_abandoned: no session holds the receiving end any more.
IsAbandoned(t) == \A s \in Sessions : phase[s] = "waiting" => ticket[s] # t

-----------------------------------------------------------------------------
(***************************************************************************)
(* Sessions.  A sender that was told 451 may come back with the same mail: *)
(* that is a new delivery.                                                 *)
(***************************************************************************)

Sending == {s \in Sessions : phase[s] = "sending"}

\* The terminating dot arrived: deliver() awaits a slot in the channel.
\* Bounded by MaxDeliveries, counting the hand-offs already under way.
BeginDeliver(s) ==
    /\ phase[s] = "idle"
    /\ handed + Cardinality(Sending) < MaxDeliveries
    /\ phase' = [phase EXCEPT ![s] = "sending"]
    /\ UNCHANGED <<ticket, reply, ack, channelVars, stopping, processorVars, log>>

\* sender.send(delivery).await succeeds: there is a slot and a receiver.
HandOff(s, bytes) ==
    /\ phase[s] = "sending"
    /\ handed < MaxDeliveries
    /\ rx = "open"
    /\ Len(queue) < QueueCapacity
    /\ handed' = handed + 1
    /\ size' = [size EXCEPT ![handed + 1] = bytes]
    /\ ack' = [ack EXCEPT ![handed + 1] = "pending"]
    /\ queue' = Append(queue, handed + 1)
    /\ phase' = [phase EXCEPT ![s] = "waiting"]
    /\ ticket' = [ticket EXCEPT ![s] = handed + 1]
    /\ UNCHANGED <<reply, rx, stopping, processorVars, log>>

\* The channel is closed: 451, and the message was never a delivery.
HandOffRefused(s) ==
    /\ phase[s] = "sending"
    /\ rx = "closed"
    /\ phase' = [phase EXCEPT ![s] = "idle"]
    /\ UNCHANGED <<ticket, reply, ack, channelVars, stopping, processorVars, log>>

\* Variant: any verdict but a refusal is taken for success.
AnswerTrustingDrop(s) ==
    /\ phase[s] = "waiting"
    /\ ack[ticket[s]] # "pending"
    /\ reply' = [reply EXCEPT ![ticket[s]] =
                   IF ack[ticket[s]] # "rejected" THEN "250" ELSE "451"]
    /\ phase' = [phase EXCEPT ![s] = "idle"]
    /\ ticket' = [ticket EXCEPT ![s] = 0]
    /\ UNCHANGED <<ack, channelVars, stopping, processorVars, log>>

\* The verdict arrived, or its sender was dropped, before the timeout.
Answer(s) ==
    /\ phase[s] = "waiting"
    /\ ack[ticket[s]] # "pending"
    /\ reply' = [reply EXCEPT ![ticket[s]] =
                   IF ack[ticket[s]] = "stored" THEN "250" ELSE "451"]
    /\ phase' = [phase EXCEPT ![s] = "idle"]
    /\ ticket' = [ticket EXCEPT ![s] = 0]
    /\ UNCHANGED <<ack, channelVars, stopping, processorVars, log>>

\* STORE_ACK_TIMEOUT passes without a verdict: 451, the receiver is dropped.
GiveUp(s) ==
    /\ phase[s] = "waiting"
    /\ ack[ticket[s]] = "pending"
    /\ reply' = [reply EXCEPT ![ticket[s]] = "timeout"]
    /\ phase' = [phase EXCEPT ![s] = "idle"]
    /\ ticket' = [ticket EXCEPT ![s] = 0]
    /\ UNCHANGED <<ack, channelVars, stopping, processorVars, log>>

-----------------------------------------------------------------------------
(***************************************************************************)
(* The message processor: next_batch.                                      *)
(***************************************************************************)

\* Whatever is queued, up to MAX_BATCH_MESSAGES; fallback_deadline starts.
TakeBatch ==
    /\ pc = "next_batch"
    /\ queue # <<>>
    /\ LET n == IF Len(queue) < MaxBatchMessages THEN Len(queue) ELSE MaxBatchMessages
       IN  /\ rest' = SubSeq(queue, 1, n)
           /\ queue' = SubSeq(queue, n + 1, Len(queue))
    /\ expired' = FALSE
    /\ pc' = "next_group"
    /\ UNCHANGED <<sessionVars, handed, size, ack, rx, stopping, group, messages, log>>

\* Variant: the receiver is dropped instead of closed, and its queue with it.
CloseQueueDropping ==
    /\ pc = "next_batch"
    /\ stopping
    /\ rx = "open"
    /\ rx' = "closed"
    /\ Settle(Range(queue), "dropped")
    /\ queue' = <<>>
    /\ UNCHANGED <<sessionVars, handed, size, stopping, processorVars, log>>

\* The stop signal wins the select: no further hand-off is accepted.
CloseQueue ==
    /\ pc = "next_batch"
    /\ stopping
    /\ rx = "open"
    /\ rx' = "closed"
    /\ UNCHANGED <<sessionVars, handed, size, ack, queue, stopping, processorVars, log>>

\* The closed queue is empty: next_batch returns false and the task ends.
EndProcessor ==
    /\ pc = "next_batch"
    /\ rx = "closed"
    /\ queue = <<>>
    /\ pc' = "ended"
    /\ UNCHANGED <<sessionVars, channelVars, ack, stopping, rest, group, messages,
                   expired, log>>

-----------------------------------------------------------------------------
(***************************************************************************)
(* transactions and store_group.  The groups are cut from the batch one at *)
(* a time, each being the longest run of deliveries that fits.             *)
(***************************************************************************)

Bytes(seq) == SumFunction([i \in DOMAIN seq |-> size[seq[i]]])

\* A prefix of the batch that transactions() would put in one group.
Fits(n) == n = 1 \/ Bytes(SubSeq(rest, 1, n)) <= MaxBatchBytes

\* The first group of the deliveries left, or the end of the batch.
NextGroup ==
    /\ pc = "next_group"
    /\ \/ /\ rest = <<>>
          /\ pc' = "next_batch"
          /\ UNCHANGED <<rest, group>>
       \/ \E n \in 1 .. Len(rest) :
            /\ Fits(n)
            /\ n < Len(rest) => ~Fits(n + 1)
            /\ group' = SubSeq(rest, 1, n)
            /\ rest' = SubSeq(rest, n + 1, Len(rest))
            /\ pc' = "prepare"
    /\ UNCHANGED <<sessionVars, channelVars, ack, stopping, messages, expired, log>>

\* Variant: is_abandoned is not consulted.
PrepareUnchecked ==
    /\ pc = "prepare"
    /\ group # <<>>
    /\ group' = Tail(group)
    /\ messages' = Append(messages, Head(group))
    /\ UNCHANGED <<sessionVars, channelVars, ack, stopping, pc, rest, expired, log>>

\* One delivery of the group: skipped when its session gave up, else parsed.
Prepare ==
    /\ pc = "prepare"
    /\ group # <<>>
    /\ group' = Tail(group)
    /\ \/ /\ IsAbandoned(Head(group))
          /\ Settle({Head(group)}, "dropped")
          /\ UNCHANGED messages
       \/ /\ ~IsAbandoned(Head(group))
          /\ messages' = Append(messages, Head(group))
          /\ UNCHANGED ack
       \/ /\ ~IsAbandoned(Head(group))
          /\ Settle({Head(group)}, "rejected")
          /\ UNCHANGED messages
    /\ UNCHANGED <<sessionVars, channelVars, stopping, pc, rest, expired, log>>

\* The group is prepared: insert it, unless nothing of it is left.
Prepared ==
    /\ pc = "prepare"
    /\ group = <<>>
    /\ pc' = IF messages = <<>> THEN "next_group" ELSE "insert_batch"
    /\ UNCHANGED <<sessionVars, channelVars, ack, stopping, rest, group, messages,
                   expired, log>>

\* insert_batch commits: all of the messages, in one transaction.
BatchCommits ==
    /\ pc = "insert_batch"
    /\ log' = log \o messages
    /\ pc' = "batch_committed"
    /\ UNCHANGED <<sessionVars, channelVars, ack, stopping, rest, group, messages, expired>>

\* Back from the insert: every session of the group hears that it is stored.
BatchStored ==
    /\ pc = "batch_committed"
    /\ Settle(Range(messages), "stored")
    /\ messages' = <<>>
    /\ pc' = "next_group"
    /\ UNCHANGED <<sessionVars, channelVars, stopping, rest, group, expired, log>>

\* Variant: the failed transaction is not rolled back.
BatchFailsPartially(storeWide) ==
    /\ pc = "insert_batch"
    /\ log' = Append(log, Head(messages))
    /\ IF storeWide \/ Len(messages) = 1
         THEN /\ Settle(Range(messages), "rejected")
              /\ messages' = <<>>
              /\ pc' = "next_group"
         ELSE /\ pc' = "one_by_one"
              /\ UNCHANGED <<ack, messages>>
    /\ UNCHANGED <<sessionVars, channelVars, stopping, rest, group, expired>>

\* insert_batch fails.  Nothing was written.  A failure of the whole store, or
\* of a lone message, refuses the group; another one is tried message by message.
BatchFails(storeWide) ==
    /\ pc = "insert_batch"
    /\ IF storeWide \/ Len(messages) = 1
         THEN /\ Settle(Range(messages), "rejected")
              /\ messages' = <<>>
              /\ pc' = "next_group"
         ELSE /\ pc' = "one_by_one"
              /\ UNCHANGED <<ack, messages>>
    /\ UNCHANGED <<sessionVars, channelVars, stopping, rest, group, expired, log>>

-----------------------------------------------------------------------------
(***************************************************************************)
(* store_one_by_one: `messages` is the iterator `pending`, and its head    *)
(* the message in hand.                                                    *)
(***************************************************************************)

\* One turn of the loop up to the insert: done, skipped, out of time, or try.
OneByOne ==
    /\ pc = "one_by_one"
    /\ \/ /\ messages = <<>>
          /\ pc' = "next_group"
          /\ UNCHANGED <<ack, messages>>
       \/ /\ messages # <<>>
          /\ IsAbandoned(Head(messages))
          /\ Settle({Head(messages)}, "dropped")
          /\ messages' = Tail(messages)
          /\ UNCHANGED pc
       \/ /\ messages # <<>>
          /\ ~IsAbandoned(Head(messages))
          /\ expired
          /\ Settle(Range(messages), "rejected")
          /\ messages' = <<>>
          /\ pc' = "next_group"
       \/ /\ messages # <<>>
          /\ ~IsAbandoned(Head(messages))
          /\ ~expired
          /\ pc' = "insert_prepared"
          /\ UNCHANGED <<ack, messages>>
    /\ UNCHANGED <<sessionVars, channelVars, stopping, rest, group, expired, log>>

\* insert_prepared commits the message in hand.
OneCommits ==
    /\ pc = "insert_prepared"
    /\ log' = Append(log, Head(messages))
    /\ pc' = "one_committed"
    /\ UNCHANGED <<sessionVars, channelVars, ack, stopping, rest, group, messages, expired>>

OneStored ==
    /\ pc = "one_committed"
    /\ Settle({Head(messages)}, "stored")
    /\ messages' = Tail(messages)
    /\ pc' = "one_by_one"
    /\ UNCHANGED <<sessionVars, channelVars, stopping, rest, group, expired, log>>

\* Variant: a refused message is tried again instead of refused.
OneFailsRetrying(storeWide) ==
    /\ pc = "insert_prepared"
    /\ IF storeWide
         THEN /\ Settle(Range(messages), "rejected")
              /\ messages' = <<>>
              /\ pc' = "next_group"
         ELSE /\ pc' = "one_by_one"
              /\ UNCHANGED <<ack, messages>>
    /\ UNCHANGED <<sessionVars, channelVars, stopping, rest, group, expired, log>>

\* insert_prepared fails: for this message, or for the store and all the rest.
OneFails(storeWide) ==
    /\ pc = "insert_prepared"
    /\ IF storeWide
         THEN /\ Settle(Range(messages), "rejected")
              /\ messages' = <<>>
              /\ pc' = "next_group"
         ELSE /\ Settle({Head(messages)}, "rejected")
              /\ messages' = Tail(messages)
              /\ pc' = "one_by_one"
    /\ UNCHANGED <<sessionVars, channelVars, stopping, rest, group, expired, log>>

\* FALLBACK_BUDGET runs out for the batch being stored.
BudgetRunsOut ==
    /\ pc \notin Gone \cup {"next_batch"}
    /\ ~expired
    /\ expired' = TRUE
    /\ UNCHANGED <<sessionVars, channelVars, ack, stopping, pc, rest, group, messages, log>>

-----------------------------------------------------------------------------
(***************************************************************************)
(* run_serve: stopping.                                                    *)
(***************************************************************************)

\* SIGTERM or Ctrl-C: the accept loop is dropped and stop_processor is sent.
Stop ==
    /\ ~stopping
    /\ pc \notin Gone
    /\ stopping' = TRUE
    /\ UNCHANGED <<sessionVars, channelVars, ack, processorVars, log>>

\* What the store may hold once the task awaiting an insert is dropped: the
\* statement runs on SQLite's own thread, which may have reached the commit.
LogAfterDrop ==
    CASE pc = "insert_batch" -> {log, log \o messages}
      [] pc = "insert_prepared" -> {log, Append(log, Head(messages))}
      [] OTHER -> {log}

\* The processor is dropped at an await, and with it every ack it holds.
DropProcessor ==
    /\ pc \in AwaitPoints
    /\ log' \in LogAfterDrop
    /\ Settle(Range(queue) \cup Range(rest) \cup Range(group) \cup Range(messages),
              "dropped")
    /\ queue' = <<>>
    /\ rx' = "closed"
    /\ rest' = <<>>
    /\ group' = <<>>
    /\ messages' = <<>>
    /\ pc' = "aborted"
    /\ UNCHANGED <<ticket, handed, size, reply, stopping, expired>>

\* SHUTDOWN_DRAIN_DEADLINE passes with work in flight: processor.abort().
Abort ==
    /\ stopping
    /\ DropProcessor
    /\ UNCHANGED phase

\* A server fails: run_serve returns at once, and everything goes with it.
Bail ==
    /\ ~stopping
    /\ DropProcessor
    /\ phase' = [s \in Sessions |-> "dead"]

\* run_serve returns after a stop: sessions still open end without a reply.
Exit ==
    /\ stopping
    /\ pc \in Gone
    /\ \E s \in Sessions : phase[s] # "dead"
    /\ phase' = [s \in Sessions |-> "dead"]
    /\ UNCHANGED <<ticket, reply, ack, channelVars, stopping, processorVars, log>>

\* The process is gone.
Exited ==
    /\ \A s \in Sessions : phase[s] = "dead"
    /\ UNCHANGED vars

-----------------------------------------------------------------------------

SessionStep(s) ==
    \/ \E bytes \in Sizes : HandOff(s, bytes)
    \/ HandOffRefused(s)
    \/ Answer(s)

InsertReturns ==
    \/ BatchCommits
    \/ \E storeWide \in BOOLEAN : BatchFails(storeWide)
    \/ OneCommits
    \/ \E storeWide \in BOOLEAN : OneFails(storeWide)

ProcessorStep ==
    \/ TakeBatch
    \/ CloseQueue
    \/ EndProcessor
    \/ NextGroup
    \/ Prepare
    \/ Prepared
    \/ BatchStored
    \/ OneByOne
    \/ OneStored

Next ==
    \/ \E s \in Sessions : BeginDeliver(s) \/ SessionStep(s) \/ GiveUp(s)
    \/ ProcessorStep
    \/ InsertReturns
    \/ BudgetRunsOut
    \/ Stop
    \/ Abort
    \/ Bail
    \/ Exit
    \/ Exited

Spec == Init /\ [][Next]_vars

(***************************************************************************)
(* Fairness.  Tasks that can run do run (tokio schedules every woken       *)
(* task), an insert returns (busy_timeout bounds each attempt, the         *)
(* repository bounds the attempts), and run_serve reaches its end.  No     *)
(* sender has to send, no timer has to fire first and nobody has to stop.  *)
(***************************************************************************)
SessionFairness == \A s \in Sessions : WF_vars(SessionStep(s))

Fairness ==
    /\ SessionFairness
    /\ WF_vars(ProcessorStep)
    /\ WF_vars(InsertReturns)
    /\ WF_vars(Exit)

FairSpec == Spec /\ Fairness

(***************************************************************************)
(* The same with a store that may stop answering: every task runs and      *)
(* every timer fires, but an insert need not return.                       *)
(***************************************************************************)
StalledStoreSpec ==
    /\ Spec
    /\ SessionFairness
    /\ \A s \in Sessions : WF_vars(GiveUp(s))
    /\ WF_vars(ProcessorStep)
    /\ WF_vars(Abort)
    /\ WF_vars(Exit)

-----------------------------------------------------------------------------
(***************************************************************************)
(* Properties.                                                             *)
(***************************************************************************)

\* Every variable has its type, and a session that waits, waits on a delivery
\* the channel has accepted.
TypeOK ==
    /\ phase \in [Sessions -> Phases]
    /\ ticket \in [Sessions -> 0 .. MaxDeliveries]
    /\ handed \in 0 .. MaxDeliveries
    /\ size \in [Tickets -> Nat]
    /\ ack \in [Tickets -> Acks]
    /\ reply \in [Tickets -> Replies]
    /\ queue \in Seq(Tickets)
    /\ rx \in {"open", "closed"}
    /\ stopping \in BOOLEAN
    /\ pc \in PCs
    /\ rest \in Seq(Tickets)
    /\ group \in Seq(Tickets)
    /\ messages \in Seq(Tickets)
    /\ expired \in BOOLEAN
    /\ log \in Seq(Tickets)
    /\ \A s \in Sessions : phase[s] = "waiting" => ticket[s] \in 1 .. handed

\* A 250 means stored: deliver() answers it only for a delivery whose
\* transaction has committed, whatever the batch, the fallback, the abort or
\* the timeout did in between.
StoredBeforeOk == \A t \in Tickets : reply[t] = "250" => t \in Range(log)

\* No delivery is stored twice, and mail is stored in the order the channel
\* took it: groups, the one-by-one fallback and skipped messages keep both.
StoredOnceInOrder == \A i, j \in DOMAIN log : i < j => log[i] < log[j]

\* A sender told 451 for a reason other than the timeout can retry without
\* its mail being captured twice, unless the processor was dropped mid-write.
RetryIsHonest ==
    \A t \in Tickets : reply[t] = "451" /\ t \in Range(log) => pc = "aborted"

\* Shutting down within the deadline loses no verdict: what was queued when
\* the stop arrived is stored or refused, never dropped, unless its session
\* had given up on it.
DrainDropsNothing ==
    \A t \in Tickets : ack[t] = "dropped" => reply[t] = "timeout" \/ pc = "aborted"

\* A delivery whose session gave up before the processor looked at it is never
\* stored: is_abandoned is consulted before every write that could take it.
AbandonedIsNotStored ==
    \A t \in Tickets :
        [](reply[t] = "timeout" /\ t \in Range(queue) \cup Range(rest) \cup Range(group)
             => [](t \notin Range(log)))

\* Every delivery the channel accepts gets a verdict, or is dropped with the
\* processor: no path of store_group or store_one_by_one forgets one.
EveryDeliverySettles == \A t \in Tickets : ack[t] = "pending" ~> ack[t] # "pending"

\* A session waiting for a slot in the channel gets one or is refused.
HandOffEnds == \A s \in Sessions : phase[s] = "sending" ~> phase[s] # "sending"

\* A stop ends the processor although sessions still hold senders.
StopEndsProcessor == stopping ~> pc \in Gone

\* Every await inside a session carries a deadline of its own, so a session
\* does not depend on the consumer to get past its hand-off.
SessionNeverHangs == HandOffEnds

-----------------------------------------------------------------------------
(***************************************************************************)
(* The ingest path implements Capture: `down` is a processor that was      *)
(* dropped rather than one that ended.                                     *)
(***************************************************************************)
Promise == INSTANCE Capture WITH down <- (pc = "aborted")

\* Every step of sessions, channel and processor is a step the promise to the
\* senders allows, or changes nothing they can see.
ImplementsPromise == Promise!Spec

-----------------------------------------------------------------------------
(***************************************************************************)
(* The inductive invariant.  The deliveries not yet looked at are a run of *)
(* consecutive tickets that ends with the newest: the group in hand, then  *)
(* the rest of the batch, then the queue.  All others are at most Front.   *)
(***************************************************************************)
Front == handed - Len(queue) - Len(rest) - Len(group)

Run(seq, first) == \A i \in 1 .. Len(seq) : seq[i] = first + i

Sorted(seq) == \A i, j \in 1 .. Len(seq) : i < j => seq[i] < seq[j]

UpTo(seq, n) == \A i \in 1 .. Len(seq) : seq[i] <= n

Arrivals ==
    /\ Front >= 0
    /\ Run(group, Front)
    /\ Run(rest, Front + Len(group))
    /\ Run(queue, Front + Len(group) + Len(rest))

\* What is prepared comes after what is committed, but for the messages of a
\* commit the processor has not heard back from yet.
Writes ==
    /\ Sorted(messages) /\ UpTo(messages, Front)
    /\ Sorted(log) /\ UpTo(log, Front)
    /\ pc \notin {"batch_committed", "one_committed"} =>
         \A i \in 1 .. Len(log), j \in 1 .. Len(messages) : log[i] < messages[j]
    /\ pc = "one_committed" =>
         /\ UpTo(log, messages[1])
         /\ \E i \in 1 .. Len(log) : log[i] = messages[1]
    /\ pc = "batch_committed" =>
         \A j \in 1 .. Len(messages) : \E i \in 1 .. Len(log) : log[i] = messages[j]

\* Which parts of the batch exist at each point of the processor.
Control ==
    /\ pc \in {"next_batch"} \cup Gone => rest = <<>>
    /\ pc # "prepare" => group = <<>>
    /\ pc \in {"next_batch", "next_group"} \cup Gone => messages = <<>>
    /\ pc \in {"insert_batch", "batch_committed", "insert_prepared", "one_committed"}
         => messages # <<>>
    /\ pc \in Gone => queue = <<>> /\ rx = "closed"
    /\ pc \notin Gone => \A s \in Sessions : phase[s] # "dead"

\* The acks the processor holds are the pending ones.
Held ==
    /\ \A i \in 1 .. Len(messages) : ack[messages[i]] = "pending"
    /\ \A t \in Tickets : Front < t /\ t <= handed => ack[t] = "pending"
    /\ \A t \in Tickets : handed < t => ack[t] = "none" /\ reply[t] = "none"
    /\ \A t \in Tickets : t <= handed => ack[t] # "none"
    /\ \A t \in Tickets : ack[t] = "pending" =>
         Front < t \/ \E i \in 1 .. Len(messages) : messages[i] = t

\* What a verdict says, what a reply was based on, and who still waits.
Verdicts ==
    /\ \A t \in Tickets : ack[t] = "stored" => \E i \in 1 .. Len(log) : log[i] = t
    /\ \A t \in Tickets : ack[t] = "rejected" => \A i \in 1 .. Len(log) : log[i] # t
    /\ \A t \in Tickets : ack[t] = "dropped" =>
         \/ pc = "aborted"
         \/ reply[t] = "timeout" /\ \A i \in 1 .. Len(log) : log[i] # t
    /\ \A t \in Tickets : reply[t] = "250" => ack[t] = "stored"
    /\ \A t \in Tickets : reply[t] = "451" => ack[t] \in {"rejected", "dropped"}
    /\ \A t \in Tickets :
         ack[t] = "pending" /\ reply[t] # "timeout" =>
           \E s \in Sessions : phase[s] = "waiting" /\ ticket[s] = t
    /\ \A s \in Sessions : phase[s] = "waiting" => reply[ticket[s]] = "none"
    /\ \A r, s \in Sessions :
         phase[r] = "waiting" /\ phase[s] = "waiting" /\ ticket[r] = ticket[s] => r = s

\* The invariant all the safety properties of the ingest path rest on: each
\* accepted delivery is held in exactly one place until it has its verdict,
\* in arrival order from the log to the queue, and each verdict is true.
IInv == TypeOK /\ Arrivals /\ Writes /\ Control /\ Held /\ Verdicts
=============================================================================
