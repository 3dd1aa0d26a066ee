---------------------------- MODULE IngestProofs ----------------------------
(***************************************************************************)
(* Proofs about Ingest.                                                    *)
(***************************************************************************)
EXTENDS Ingest, TLAPS

-----------------------------------------------------------------------------
(***************************************************************************)
(* Sequences, element by element: what the steps of the pipeline need.     *)
(***************************************************************************)

\* A sequence extended at its end by one element.
LEMMA AppendFacts ==
    ASSUME NEW S, NEW seq \in Seq(S), NEW e \in S
    PROVE  /\ Append(seq, e) \in Seq(S)
           /\ Len(Append(seq, e)) = Len(seq) + 1
           /\ \A i \in 1 .. Len(seq) : Append(seq, e)[i] = seq[i]
           /\ Append(seq, e)[Len(seq) + 1] = e
OBVIOUS

\* A non-empty sequence without its first element.
LEMMA TailFacts ==
    ASSUME NEW S, NEW seq \in Seq(S), seq # <<>>
    PROVE  /\ Len(seq) \in Nat \ {0}
           /\ Head(seq) = seq[1]
           /\ Head(seq) \in S
           /\ Tail(seq) \in Seq(S)
           /\ Len(Tail(seq)) = Len(seq) - 1
           /\ \A i \in 1 .. Len(seq) - 1 : Tail(seq)[i] = seq[i + 1]
OBVIOUS

\* Two sequences joined.
LEMMA ConcatFacts ==
    ASSUME NEW S, NEW a \in Seq(S), NEW b \in Seq(S)
    PROVE  /\ a \o b \in Seq(S)
           /\ Len(a \o b) = Len(a) + Len(b)
           /\ \A i \in 1 .. Len(a) : (a \o b)[i] = a[i]
           /\ \A i \in 1 .. Len(b) : (a \o b)[Len(a) + i] = b[i]
OBVIOUS

\* A sequence cut in two.
LEMMA CutFacts ==
    ASSUME NEW S, NEW seq \in Seq(S), NEW n \in 1 .. Len(seq)
    PROVE  /\ SubSeq(seq, 1, n) \in Seq(S)
           /\ Len(SubSeq(seq, 1, n)) = n
           /\ \A i \in 1 .. n : SubSeq(seq, 1, n)[i] = seq[i]
           /\ SubSeq(seq, n + 1, Len(seq)) \in Seq(S)
           /\ Len(SubSeq(seq, n + 1, Len(seq))) = Len(seq) - n
           /\ \A i \in 1 .. Len(seq) - n : SubSeq(seq, n + 1, Len(seq))[i] = seq[n + i]
OBVIOUS

\* The range of a sequence, by position.
LEMMA RangeFacts ==
    ASSUME NEW S, NEW seq \in Seq(S)
    PROVE  \A x : x \in Range(seq) <=> \E i \in 1 .. Len(seq) : seq[i] = x
BY DEF Range

\* What a commit does to the log: a sorted sequence joined to one that comes
\* after it is sorted, and holds the elements of both.
LEMMA JoinSorted ==
    ASSUME NEW a \in Seq(Tickets), NEW b \in Seq(Tickets), NEW n \in Int,
           Sorted(a), Sorted(b), UpTo(a, n), UpTo(b, n),
           \A i \in 1 .. Len(a), j \in 1 .. Len(b) : a[i] < b[j]
    PROVE  /\ a \o b \in Seq(Tickets)
           /\ Sorted(a \o b)
           /\ UpTo(a \o b, n)
           /\ \A j \in 1 .. Len(b) : \E i \in 1 .. Len(a \o b) : (a \o b)[i] = b[j]
           /\ \A t : (\E i \in 1 .. Len(a) : a[i] = t) =>
                \E i \in 1 .. Len(a \o b) : (a \o b)[i] = t
           /\ \A i \in 1 .. Len(a \o b) :
                \/ \E j \in 1 .. Len(a) : a[j] = (a \o b)[i]
                \/ \E j \in 1 .. Len(b) : b[j] = (a \o b)[i]
<1> DEFINE c == a \o b
<1>1. /\ c \in Seq(Tickets) /\ Len(c) = Len(a) + Len(b)
      /\ \A i \in 1 .. Len(a) : c[i] = a[i]
      /\ \A i \in 1 .. Len(b) : c[Len(a) + i] = b[i]
      /\ Len(a) \in Nat /\ Len(b) \in Nat
  BY ConcatFacts
<1> HIDE DEF c
<1>2. \A i \in 1 .. Len(c) : i \notin 1 .. Len(a) =>
        i - Len(a) \in 1 .. Len(b) /\ c[i] = b[i - Len(a)]
  BY <1>1
<1>3. Sorted(c)
  <2> SUFFICES ASSUME NEW i \in 1 .. Len(c), NEW j \in 1 .. Len(c), i < j
               PROVE  c[i] < c[j]
    BY DEF Sorted
  <2>1. CASE j \in 1 .. Len(a)
    BY <1>1, <2>1 DEF Sorted
  <2>2. CASE i \in 1 .. Len(a) /\ j \notin 1 .. Len(a)
    BY <1>1, <1>2, <2>2
  <2>3. CASE i \notin 1 .. Len(a)
    <3>1. j \notin 1 .. Len(a) /\ i - Len(a) < j - Len(a)
      BY <1>1, <2>3
    <3> QED BY <1>2, <2>3, <3>1 DEF Sorted
  <2> QED BY <2>1, <2>2, <2>3
<1>4. UpTo(c, n)
  BY <1>1, <1>2 DEF UpTo
<1>5. \A j \in 1 .. Len(b) : \E i \in 1 .. Len(c) : c[i] = b[j]
  <2> SUFFICES ASSUME NEW j \in 1 .. Len(b) PROVE \E i \in 1 .. Len(c) : c[i] = b[j]
    OBVIOUS
  <2>1. Len(a) + j \in 1 .. Len(c)
    BY <1>1
  <2> QED BY <1>1, <2>1
<1>6. \A t : (\E i \in 1 .. Len(a) : a[i] = t) => \E i \in 1 .. Len(c) : c[i] = t
  BY <1>1
<1>7. \A i \in 1 .. Len(c) : \/ \E j \in 1 .. Len(a) : a[j] = c[i]
                             \/ \E j \in 1 .. Len(b) : b[j] = c[i]
  <2> TAKE i \in 1 .. Len(c)
  <2>1. CASE i \in 1 .. Len(a)
    BY <1>1, <2>1
  <2>2. CASE i \notin 1 .. Len(a)
    <3> DEFINE k == i - Len(a)
    <3>1. k \in 1 .. Len(b) /\ b[k] = c[i]
      BY <1>2, <2>2
    <3> HIDE DEF k
    <3>2. \E j \in 1 .. Len(b) : b[j] = c[i]
      BY <3>1
    <3> QED BY <3>2
  <2> QED BY <2>1, <2>2
<1> QED BY <1>1, <1>3, <1>4, <1>5, <1>6, <1>7 DEF c

\* The same for one message.
LEMMA AppendSorted ==
    ASSUME NEW a \in Seq(Tickets), NEW e \in Tickets, NEW n \in Int,
           Sorted(a), UpTo(a, n), e <= n, \A i \in 1 .. Len(a) : a[i] < e
    PROVE  /\ Append(a, e) \in Seq(Tickets)
           /\ Sorted(Append(a, e))
           /\ UpTo(Append(a, e), n)
           /\ UpTo(Append(a, e), e)
           /\ \E i \in 1 .. Len(Append(a, e)) : Append(a, e)[i] = e
           /\ \A t : (\E i \in 1 .. Len(a) : a[i] = t) =>
                \E i \in 1 .. Len(Append(a, e)) : Append(a, e)[i] = t
           /\ \A i \in 1 .. Len(Append(a, e)) :
                Append(a, e)[i] = e \/ \E j \in 1 .. Len(a) : a[j] = Append(a, e)[i]
<1> DEFINE c == Append(a, e)
<1>1. /\ c \in Seq(Tickets) /\ Len(c) = Len(a) + 1
      /\ \A i \in 1 .. Len(a) : c[i] = a[i]
      /\ c[Len(a) + 1] = e
      /\ Len(a) \in Nat
  BY AppendFacts
<1>2. e \in Int /\ \A i \in 1 .. Len(a) : a[i] \in Int
  <2>1. \A i \in 1 .. Len(a) : a[i] \in Tickets
    OBVIOUS
  <2> QED BY <2>1 DEF Tickets
<1> HIDE DEF c
<1>3. \A i \in 1 .. Len(c) : i \in 1 .. Len(a) \/ c[i] = e
  BY <1>1
<1>4. Sorted(c)
  <2> SUFFICES ASSUME NEW i \in 1 .. Len(c), NEW j \in 1 .. Len(c), i < j
               PROVE  c[i] < c[j]
    BY DEF Sorted
  <2>1. i \in 1 .. Len(a)
    BY <1>1
  <2>2. CASE j \in 1 .. Len(a)
    BY <1>1, <2>1, <2>2 DEF Sorted
  <2>3. CASE c[j] = e
    BY <1>1, <2>1, <2>3
  <2> QED BY <1>3, <2>2, <2>3
<1>5. UpTo(c, n) /\ UpTo(c, e)
  BY <1>1, <1>2, <1>3 DEF UpTo
<1>6. \E i \in 1 .. Len(c) : c[i] = e
  <2>1. Len(a) + 1 \in 1 .. Len(c)
    BY <1>1
  <2> QED BY <1>1, <2>1
<1>7. \A t : (\E i \in 1 .. Len(a) : a[i] = t) => \E i \in 1 .. Len(c) : c[i] = t
  BY <1>1
<1>8. \A i \in 1 .. Len(c) : c[i] = e \/ \E j \in 1 .. Len(a) : a[j] = c[i]
  BY <1>1, <1>3
<1> QED BY <1>1, <1>4, <1>5, <1>6, <1>7, <1>8 DEF c

-----------------------------------------------------------------------------
(***************************************************************************)
(* The inductive invariant.                                                *)
(***************************************************************************)

\* The invariant holds before the first connection.
LEMMA InitIInv == Init => IInv
<1> SUFFICES ASSUME Init PROVE IInv
  OBVIOUS
<1> USE IngestAssumption DEF Init
<1>1. <<>> \in Seq(Tickets) /\ Len(<<>>) = 0
  OBVIOUS
<1>2. TypeOK
  <2>1. /\ phase \in [Sessions -> Phases]
        /\ ticket \in [Sessions -> 0 .. MaxDeliveries]
        /\ handed \in 0 .. MaxDeliveries
    BY DEF Phases
  <2>2. /\ size \in [Tickets -> Nat]
        /\ ack \in [Tickets -> Acks]
        /\ reply \in [Tickets -> Replies]
    BY DEF Acks, Replies
  <2>3. stopping \in BOOLEAN /\ expired \in BOOLEAN
    OBVIOUS
  <2>4. pc \in PCs /\ rx \in {"open", "closed"}
    BY DEF PCs, AwaitPoints
  <2> QED BY <1>1, <2>1, <2>2, <2>3, <2>4 DEF TypeOK
<1>3. Arrivals /\ Writes
  BY <1>1 DEF Arrivals, Writes, Front, Run, Sorted, UpTo
<1>4. Control
  BY DEF Control, Gone
<1>5. Held
  BY <1>1 DEF Held, Front, Tickets
<1>6. Verdicts
  BY DEF Verdicts
<1> QED BY <1>2, <1>3, <1>4, <1>5, <1>6 DEF IInv

\* A session about to hand a message over disturbs nothing.
LEMMA BeginDeliverIInv == ASSUME IInv, NEW s \in Sessions, BeginDeliver(s) PROVE IInv'
<1> USE DEF IInv, BeginDeliver, channelVars, processorVars
<1>1. TypeOK'
  BY DEF TypeOK, Phases
<1>2. Arrivals' /\ Writes'
  BY DEF Arrivals, Writes, Front, Run, Sorted, UpTo
<1>3. Control'
  BY DEF Control, TypeOK
<1>4. Held'
  BY DEF Held, Front
<1>5. Verdicts'
  BY DEF Verdicts, TypeOK
<1> QED BY <1>1, <1>2, <1>3, <1>4, <1>5

\* Neither does one that finds the channel closed.
LEMMA HandOffRefusedIInv == ASSUME IInv, NEW s \in Sessions, HandOffRefused(s) PROVE IInv'
<1> USE DEF IInv, HandOffRefused, channelVars, processorVars
<1>1. TypeOK'
  BY DEF TypeOK, Phases
<1>2. Arrivals' /\ Writes'
  BY DEF Arrivals, Writes, Front, Run, Sorted, UpTo
<1>3. Control'
  BY DEF Control, TypeOK
<1>4. Held'
  BY DEF Held, Front
<1>5. Verdicts'
  BY DEF Verdicts, TypeOK
<1> QED BY <1>1, <1>2, <1>3, <1>4, <1>5

\* The channel takes a delivery: the run of consecutive tickets grows by one.
LEMMA HandOffIInv ==
    ASSUME IInv, NEW s \in Sessions, NEW bytes \in Sizes, HandOff(s, bytes)
    PROVE  IInv'
<1> USE IngestAssumption DEF IInv, HandOff, processorVars
<1> DEFINE t == handed + 1
<1>1. t \in Tickets /\ bytes \in Nat
  BY DEF TypeOK, Tickets
<1>2. /\ queue' \in Seq(Tickets)
      /\ Len(queue') = Len(queue) + 1
      /\ \A i \in 1 .. Len(queue) : queue'[i] = queue[i]
      /\ queue'[Len(queue) + 1] = t
  BY <1>1, AppendFacts DEF TypeOK
<1>3. Len(queue) \in Nat /\ Len(rest) \in Nat /\ Len(group) \in Nat
  BY DEF TypeOK
<1>4. Front' = Front
  BY <1>2, <1>3 DEF Front, TypeOK
<1>5. TypeOK'
  BY <1>1, <1>2 DEF TypeOK, Phases, Acks, Tickets
<1>6. Arrivals'
  <2>1. Run(group, Front)' /\ Run(rest, Front + Len(group))'
    BY <1>4 DEF Arrivals, Run
  <2>2. Run(queue, Front + Len(group) + Len(rest))'
    <3> SUFFICES ASSUME NEW i \in 1 .. Len(queue')
                 PROVE  queue'[i] = (Front + Len(group) + Len(rest) + i)'
      BY DEF Run
    <3>1. CASE i \in 1 .. Len(queue)
      BY <1>2, <1>3, <1>4, <3>1 DEF Arrivals, Run
    <3>2. CASE i = Len(queue) + 1
      BY <1>2, <1>3, <1>4, <3>2 DEF Front, TypeOK
    <3> QED BY <1>2, <1>3, <3>1, <3>2
  <2> QED BY <1>4, <2>1, <2>2 DEF Arrivals
<1>7. Writes'
  BY <1>4 DEF Writes, Sorted, UpTo
<1>8. Control'
  BY DEF Control, TypeOK
<1>9. Held'
  <2>1. \A i \in 1 .. Len(messages) : messages[i] # t
    BY <1>3 DEF Writes, UpTo, Front, TypeOK, Tickets
  <2>2. \A i \in 1 .. Len(messages) : messages[i] \in Tickets
    BY DEF TypeOK
  <2>3. ack'[t] = "pending" /\ \A x \in Tickets : x # t => ack'[x] = ack[x]
    BY <1>1 DEF TypeOK
  <2>4. \A x \in Tickets : x # t => (x <= handed' <=> x <= handed)
    BY DEF TypeOK, Tickets
  <2>5. Front' < t
    BY <1>3, <1>4 DEF Front, TypeOK
  <2>6. (\A i \in 1 .. Len(messages) : ack[messages[i]] = "pending")'
    BY <2>1, <2>2, <2>3 DEF Held
  <2>7. (\A x \in Tickets : Front < x /\ x <= handed => ack[x] = "pending")'
    BY <1>4, <2>3, <2>4 DEF Held
  <2>8. (\A x \in Tickets : handed < x => ack[x] = "none" /\ reply[x] = "none")'
    BY <2>3 DEF Held, TypeOK, Tickets
  <2>9. (\A x \in Tickets : x <= handed => ack[x] # "none")'
    BY <2>3, <2>4 DEF Held
  <2>10. (\A x \in Tickets : ack[x] = "pending" =>
            Front < x \/ \E i \in 1 .. Len(messages) : messages[i] = x)'
    BY <1>4, <2>3, <2>5 DEF Held
  <2> QED BY <2>6, <2>7, <2>8, <2>9, <2>10 DEF Held
<1>10. Verdicts'
  <2>1. ack'[t] = "pending" /\ \A x \in Tickets : x # t => ack'[x] = ack[x]
    BY <1>1 DEF TypeOK
  <2>2. reply[t] = "none"
    BY <1>1 DEF Held, TypeOK
  <2>3. \A r \in Sessions : phase[r] = "waiting" => ticket[r] # t
    BY DEF TypeOK
  <2>4. /\ phase'[s] = "waiting" /\ ticket'[s] = t
        /\ \A r \in Sessions : r # s => phase'[r] = phase[r] /\ ticket'[r] = ticket[r]
    BY DEF TypeOK
  <2>5. (\A x \in Tickets :
          ack[x] = "pending" /\ reply[x] # "timeout" =>
            \E r \in Sessions : phase[r] = "waiting" /\ ticket[r] = x)'
    BY <2>1, <2>4 DEF Verdicts
  <2>6. (\A r \in Sessions : phase[r] = "waiting" => reply[ticket[r]] = "none")'
    BY <2>2, <2>4 DEF Verdicts
  <2>7. (\A q, r \in Sessions :
          phase[q] = "waiting" /\ phase[r] = "waiting" /\ ticket[q] = ticket[r] => q = r)'
    BY <2>3, <2>4 DEF Verdicts
  <2> QED BY <1>1, <2>1, <2>2, <2>5, <2>6, <2>7 DEF Verdicts
<1> QED BY <1>5, <1>6, <1>7, <1>8, <1>9, <1>10

\* A session that hears its verdict passes it on.
LEMMA AnswerIInv == ASSUME IInv, NEW s \in Sessions, Answer(s) PROVE IInv'
<1> USE DEF IInv, Answer, channelVars, processorVars
<1>1. ticket[s] \in Tickets /\ ticket[s] <= handed
  BY DEF TypeOK, Tickets
<1>2. TypeOK'
  <2>1. phase' \in [Sessions -> Phases] /\ reply' \in [Tickets -> Replies]
    BY DEF TypeOK, Phases, Replies
  <2>2. ticket' \in [Sessions -> 0 .. MaxDeliveries]
    BY IngestAssumption DEF TypeOK
  <2>3. \A r \in Sessions : phase'[r] = "waiting" => ticket'[r] \in 1 .. handed
    BY DEF TypeOK
  <2> QED BY <2>1, <2>2, <2>3 DEF TypeOK
<1>3. Arrivals' /\ Writes'
  BY DEF Arrivals, Writes, Front, Run, Sorted, UpTo
<1>4. Control'
  BY DEF Control, TypeOK
<1>5. Held'
  BY <1>1 DEF Held, Front, TypeOK, Tickets
<1>6. Verdicts'
  BY <1>1 DEF Verdicts, Held, TypeOK, Acks
<1> QED BY <1>2, <1>3, <1>4, <1>5, <1>6

\* A session that gives up leaves its delivery abandoned, and marked so.
LEMMA GiveUpIInv == ASSUME IInv, NEW s \in Sessions, GiveUp(s) PROVE IInv'
<1> USE DEF IInv, GiveUp, channelVars, processorVars
<1>1. ticket[s] \in Tickets /\ ticket[s] <= handed
  BY DEF TypeOK, Tickets
<1>2. TypeOK'
  <2>1. phase' \in [Sessions -> Phases] /\ reply' \in [Tickets -> Replies]
    BY DEF TypeOK, Phases, Replies
  <2>2. ticket' \in [Sessions -> 0 .. MaxDeliveries]
    BY IngestAssumption DEF TypeOK
  <2>3. \A r \in Sessions : phase'[r] = "waiting" => ticket'[r] \in 1 .. handed
    BY DEF TypeOK
  <2> QED BY <2>1, <2>2, <2>3 DEF TypeOK
<1>3. Arrivals' /\ Writes'
  BY DEF Arrivals, Writes, Front, Run, Sorted, UpTo
<1>4. Control'
  BY DEF Control, TypeOK
<1>5. Held'
  BY <1>1 DEF Held, Front, TypeOK, Tickets
<1>6. Verdicts'
  BY <1>1 DEF Verdicts, Held, TypeOK
<1> QED BY <1>2, <1>3, <1>4, <1>5, <1>6
-----------------------------------------------------------------------------
(***************************************************************************)
(* The processor's steps.                                                  *)
(***************************************************************************)

\* The elements of the processor's sequences are tickets, and so integers.
LEMMA Elements ==
    ASSUME TypeOK
    PROVE  /\ \A t \in Tickets : t \in Int
           /\ Len(log) \in Nat /\ \A i \in 1 .. Len(log) : log[i] \in Tickets
           /\ Len(messages) \in Nat
           /\ \A i \in 1 .. Len(messages) : messages[i] \in Tickets
<1>1. \A t \in Tickets : t \in Int
  BY DEF Tickets
<1>2. Len(log) \in Nat /\ \A i \in 1 .. Len(log) : log[i] \in Tickets
  BY DEF TypeOK
<1>3. Len(messages) \in Nat /\ \A i \in 1 .. Len(messages) : messages[i] \in Tickets
  BY DEF TypeOK
<1> QED BY <1>1, <1>2, <1>3

\* Verdicts survive a step of the processor that settles only pending acks,
\* and each of them truthfully.
LEMMA VerdictsStep ==
    ASSUME TypeOK, Verdicts, UNCHANGED sessionVars, ack' \in [Tickets -> Acks],
           \A t \in Tickets : ack'[t] # ack[t] => ack[t] = "pending" /\ ack'[t] # "pending",
           \A t \in Tickets : ack'[t] = "stored" => \E i \in 1 .. Len(log') : log'[i] = t,
           \A t \in Tickets : ack'[t] = "rejected" => \A i \in 1 .. Len(log') : log'[i] # t,
           \A t \in Tickets : ack'[t] = "dropped" =>
              \/ pc' = "aborted"
              \/ reply[t] = "timeout" /\ \A i \in 1 .. Len(log') : log'[i] # t
    PROVE  Verdicts'
BY DEF Verdicts, sessionVars

\* A batch moves from the queue to the processor.
LEMMA TakeBatchIInv == ASSUME IInv, TakeBatch PROVE IInv'
<1> USE DEF IInv
<1>1. rest = <<>> /\ group = <<>> /\ messages = <<>>
  BY DEF Control, TakeBatch
<1>2. Len(queue) \in Nat \ {0} /\ Len(rest) = 0 /\ Len(group) = 0
  BY <1>1 DEF TypeOK, TakeBatch
<1> DEFINE n == IF Len(queue) < MaxBatchMessages THEN Len(queue) ELSE MaxBatchMessages
<1>n. n \in 1 .. Len(queue)
  BY <1>2, IngestAssumption
<1>3. /\ rest' = SubSeq(queue, 1, n) /\ queue' = SubSeq(queue, n + 1, Len(queue))
      /\ expired' = FALSE /\ pc = "next_batch" /\ pc' = "next_group"
      /\ UNCHANGED <<phase, ticket, reply, handed, size, ack, rx, stopping, group, messages, log>>
  BY DEF TakeBatch, sessionVars
<1> HIDE DEF n
<1>4. /\ rest' \in Seq(Tickets) /\ Len(rest') = n
      /\ \A i \in 1 .. n : rest'[i] = queue[i]
      /\ queue' \in Seq(Tickets) /\ Len(queue') = Len(queue) - n
      /\ \A i \in 1 .. Len(queue) - n : queue'[i] = queue[n + i]
  BY <1>n, <1>3, CutFacts DEF TypeOK
<1>5. Front' = Front /\ Front \in Int
  <2>1. handed' = handed /\ handed \in Int /\ Len(group') = 0
    BY <1>1, <1>3 DEF TypeOK
  <2> QED BY <1>n, <1>2, <1>4, <2>1 DEF Front
<1>6. TypeOK'
  BY <1>3, <1>4 DEF TypeOK, PCs
<1>7. Arrivals'
  <2>1. \A i \in 1 .. Len(queue) : queue[i] = Front + i
    BY <1>2, <1>5 DEF Arrivals, Run
  <2>2. Run(group, Front)'
    BY <1>1, <1>2, <1>3, <1>5 DEF Run
  <2>3. Run(rest, Front + Len(group))'
    BY <1>n, <1>1, <1>2, <1>3, <1>4, <1>5, <2>1 DEF Run
  <2>4. Run(queue, Front + Len(group) + Len(rest))'
    BY <1>n, <1>2, <1>3, <1>4, <1>5, <2>1 DEF Run
  <2> QED BY <1>5, <2>2, <2>3, <2>4 DEF Arrivals
<1>8. Writes'
  BY <1>1, <1>3, <1>5 DEF Writes, Sorted, UpTo
<1>9. Control'
  BY <1>1, <1>3 DEF Control, Gone
<1>10. Held'
  BY <1>3, <1>5 DEF Held
<1>11. Verdicts'
  BY <1>3 DEF Verdicts
<1> QED BY <1>6, <1>7, <1>8, <1>9, <1>10, <1>11

\* The steps that only move the processor or the channel's state.
LEMMA QuietIInv ==
    ASSUME IInv, CloseQueue \/ EndProcessor \/ Prepared \/ BudgetRunsOut \/ Stop
    PROVE  IInv'
<1> USE DEF IInv, CloseQueue, EndProcessor, Prepared, BudgetRunsOut, Stop, sessionVars,
            channelVars, processorVars
<1>1. /\ UNCHANGED <<phase, ticket, handed, size, ack, reply, queue, rest, group, messages, log>>
      /\ pc' \in PCs
      /\ rx' \in {"open", "closed"}
  BY DEF TypeOK, PCs, AwaitPoints
<1>2. stopping' \in BOOLEAN /\ expired' \in BOOLEAN
  BY DEF TypeOK
<1>3. TypeOK'
  BY <1>1, <1>2 DEF TypeOK
<1>4. Front' = Front
  BY <1>1 DEF Front
<1>5. Arrivals' /\ Held'
  BY <1>1, <1>4 DEF Arrivals, Run, Held
<1>6. Writes'
  BY <1>1, <1>4 DEF Writes, Sorted, UpTo
<1>7. Control'
  BY <1>1 DEF Control, Gone
<1>8. \/ pc' # "aborted" /\ (pc = "aborted" => pc' = "aborted")
      \/ pc' = pc
  OBVIOUS
<1>9. Verdicts'
  BY <1>1, <1>8 DEF Verdicts
<1> QED BY <1>3, <1>5, <1>6, <1>7, <1>9

\* The next group is cut from the batch, or the batch is done.
LEMMA NextGroupIInv == ASSUME IInv, NextGroup PROVE IInv'
<1> USE DEF IInv, NextGroup, sessionVars, channelVars
<1>1. group = <<>> /\ messages = <<>> /\ Len(group) = 0
  BY DEF Control
<1>2. CASE rest = <<>> /\ pc' = "next_batch" /\ UNCHANGED <<rest, group>>
  <2>1. TypeOK'
    BY <1>2 DEF TypeOK, PCs, AwaitPoints
  <2>2. Arrivals' /\ Writes' /\ Held'
    BY <1>2 DEF Arrivals, Writes, Held, Front, Run, Sorted, UpTo
  <2>3. Control' /\ Verdicts'
    BY <1>1, <1>2 DEF Control, Verdicts, Gone
  <2> QED BY <2>1, <2>2, <2>3
<1>3. CASE \E n \in 1 .. Len(rest) :
             /\ group' = SubSeq(rest, 1, n)
             /\ rest' = SubSeq(rest, n + 1, Len(rest))
             /\ pc' = "prepare"
  <2>1. PICK n \in 1 .. Len(rest) :
             /\ group' = SubSeq(rest, 1, n)
             /\ rest' = SubSeq(rest, n + 1, Len(rest))
             /\ pc' = "prepare"
    BY <1>3
  <2>2. /\ group' \in Seq(Tickets) /\ Len(group') = n
        /\ \A i \in 1 .. n : group'[i] = rest[i]
        /\ rest' \in Seq(Tickets) /\ Len(rest') = Len(rest) - n
        /\ \A i \in 1 .. Len(rest) - n : rest'[i] = rest[n + i]
    BY <2>1, CutFacts DEF TypeOK
  <2>3. Len(rest) \in Nat /\ Len(queue) \in Nat
    BY DEF TypeOK
  <2>4. Front' = Front /\ Front \in Int
    BY <1>1, <2>2, <2>3 DEF Front, TypeOK
  <2>5. TypeOK'
    BY <2>1, <2>2 DEF TypeOK, PCs, AwaitPoints
  <2>6. Arrivals'
    <3>1. \A i \in 1 .. Len(rest) : rest[i] = Front + i
      BY <1>1, <2>3, <2>4 DEF Arrivals, Run
    <3>2. \A i \in 1 .. Len(queue) : queue[i] = Front + Len(rest) + i
      BY <1>1, <2>3, <2>4 DEF Arrivals, Run
    <3>3. Run(group, Front)'
      BY <2>2, <2>3, <2>4, <3>1 DEF Run
    <3>4. Run(rest, Front + Len(group))'
      BY <2>2, <2>3, <2>4, <3>1 DEF Run
    <3>5. Run(queue, Front + Len(group) + Len(rest))'
      BY <2>2, <2>3, <2>4, <3>2 DEF Run
    <3> QED BY <2>4, <3>3, <3>4, <3>5 DEF Arrivals
  <2>7. Writes'
    BY <1>1, <2>1, <2>4 DEF Writes, Sorted, UpTo
  <2>8. Control'
    BY <1>1, <2>1 DEF Control, Gone
  <2>9. Held'
    BY <2>4 DEF Held
  <2>10. Verdicts'
    BY <2>1 DEF Verdicts
  <2> QED BY <2>5, <2>6, <2>7, <2>8, <2>9, <2>10
<1> QED BY <1>2, <1>3

\* One delivery of the group is skipped, prepared or refused.
LEMMA PrepareIInv == ASSUME IInv, Prepare PROVE IInv'
<1> USE DEF IInv
<1> DEFINE h == Head(group)
<1>1. /\ pc = "prepare" /\ group # <<>> /\ group' = Tail(group)
      /\ UNCHANGED <<phase, ticket, reply, handed, size, queue, rx, stopping, pc, rest,
                     expired, log>>
  BY DEF Prepare, sessionVars, channelVars
<1>2. /\ Len(group) \in Nat \ {0}
      /\ h = group[1] /\ h \in Tickets
      /\ group' \in Seq(Tickets) /\ Len(group') = Len(group) - 1
      /\ \A i \in 1 .. Len(group) - 1 : group'[i] = group[i + 1]
  BY <1>1, TailFacts DEF TypeOK
<1>3. /\ Len(queue) \in Nat /\ Len(rest) \in Nat /\ Len(messages) \in Nat
      /\ handed \in Int /\ Front \in Int
  BY <1>2 DEF TypeOK, Front
<1>4. Front' = Front + 1
  BY <1>1, <1>2, <1>3 DEF Front
<1>5. h = Front + 1 /\ h <= handed
  BY <1>2, <1>3 DEF Arrivals, Run, Front
<1>6. ack[h] = "pending"
  BY <1>2, <1>3, <1>5 DEF Held
<1>7. \A i \in 1 .. Len(messages) : messages[i] < h
  BY <1>3, <1>5, Elements DEF Writes, UpTo
<1>8. \A i \in 1 .. Len(log) : log[i] < h
  BY <1>3, <1>5, Elements DEF Writes, UpTo
<1> HIDE DEF h
<1>9. Arrivals'
  <2>1. Run(group, Front)'
    BY <1>1, <1>2, <1>3, <1>4 DEF Arrivals, Run
  <2>2. Run(rest, Front + Len(group))' /\ Run(queue, Front + Len(group) + Len(rest))'
    BY <1>1, <1>2, <1>3, <1>4 DEF Arrivals, Run
  <2> QED BY <1>3, <1>4, <2>1, <2>2 DEF Arrivals
<1>10. CASE /\ Settle({h}, IF IsAbandoned(h) THEN "dropped" ELSE "rejected")
            /\ UNCHANGED messages
  <2>1. /\ ack' \in [Tickets -> Acks]
        /\ ack'[h] = IF IsAbandoned(h) THEN "dropped" ELSE "rejected"
        /\ \A t \in Tickets : t # h => ack'[t] = ack[t]
    BY <1>2, <1>10 DEF Settle, TypeOK, Acks
  <2>2. TypeOK'
    BY <1>1, <1>2, <1>10, <2>1 DEF TypeOK
  <2>3. Writes'
    BY <1>1, <1>3, <1>4, <1>10, Elements DEF Writes, Sorted, UpTo
  <2>4. Control'
    BY <1>1, <1>10 DEF Control
  <2>5. Held'
    <3>1. \A i \in 1 .. Len(messages) : messages[i] \in Tickets /\ messages[i] # h
      BY <1>2, <1>7, Elements
    <3>2. (\A i \in 1 .. Len(messages) : ack[messages[i]] = "pending")'
      BY <1>10, <2>1, <3>1 DEF Held
    <3>3. (\A t \in Tickets : Front < t /\ t <= handed => ack[t] = "pending")'
      BY <1>1, <1>3, <1>4, <1>5, <2>1 DEF Held, Tickets
    <3>4. (\A t \in Tickets : handed < t => ack[t] = "none" /\ reply[t] = "none")'
      BY <1>1, <1>3, <1>5, <2>1 DEF Held, Tickets
    <3>5. (\A t \in Tickets : t <= handed => ack[t] # "none")'
      BY <1>1, <2>1 DEF Held
    <3>6. (\A t \in Tickets : ack[t] = "pending" =>
             Front < t \/ \E i \in 1 .. Len(messages) : messages[i] = t)'
      BY <1>3, <1>4, <1>5, <1>10, <2>1, Elements DEF Held
    <3> QED BY <3>2, <3>3, <3>4, <3>5, <3>6 DEF Held
  <2>6. IsAbandoned(h) => reply[h] = "timeout"
    BY <1>2, <1>6 DEF Verdicts, IsAbandoned
  <2>7. \A i \in 1 .. Len(log) : log[i] # h
    BY <1>2, <1>8, Elements
  <2>8. Verdicts'
    BY <1>1, <1>2, <1>6, <2>1, <2>6, <2>7, VerdictsStep DEF Verdicts, sessionVars
  <2> QED BY <1>9, <2>2, <2>3, <2>4, <2>5, <2>8
<1>11. CASE messages' = Append(messages, h) /\ UNCHANGED ack
  <2>1. /\ messages' \in Seq(Tickets)
        /\ Len(messages') = Len(messages) + 1
        /\ \A i \in 1 .. Len(messages) : messages'[i] = messages[i]
        /\ messages'[Len(messages) + 1] = h
    BY <1>2, <1>11, AppendFacts DEF TypeOK
  <2>2. TypeOK'
    BY <1>1, <1>2, <1>11, <2>1 DEF TypeOK
  <2>3. Writes'
    <3>1. Sorted(messages)' /\ UpTo(messages, Front)'
      <4>1. \A i \in 1 .. Len(messages') : i \in 1 .. Len(messages) \/ messages'[i] = h
        BY <1>3, <2>1
      <4>2. UpTo(messages, Front)'
        BY <1>3, <1>4, <1>5, <1>7, <2>1, <4>1, Elements DEF UpTo
      <4>3. Sorted(messages)'
        <5> SUFFICES ASSUME NEW i \in 1 .. Len(messages'), NEW j \in 1 .. Len(messages'), i < j
                     PROVE  messages'[i] < messages'[j]
          BY DEF Sorted
        <5>1. i \in 1 .. Len(messages)
          BY <1>3, <2>1
        <5>2. CASE j \in 1 .. Len(messages)
          BY <2>1, <5>1, <5>2 DEF Writes, Sorted
        <5>3. CASE messages'[j] = h
          BY <1>7, <2>1, <5>1, <5>3
        <5> QED BY <4>1, <5>2, <5>3
      <4> QED BY <4>2, <4>3
    <3>2. Sorted(log)' /\ UpTo(log, Front)'
      BY <1>1, <1>3, <1>4, Elements DEF Writes, Sorted, UpTo
    <3>3. (\A i \in 1 .. Len(log), j \in 1 .. Len(messages) : log[i] < messages[j])'
      BY <1>1, <1>3, <1>8, <2>1 DEF Writes
    <3> QED BY <1>1, <3>1, <3>2, <3>3 DEF Writes
  <2>4. Control'
    BY <1>1 DEF Control, Gone
  <2>5. Held'
    <3>1. (\A i \in 1 .. Len(messages) : ack[messages[i]] = "pending")'
      BY <1>3, <1>6, <1>11, <2>1 DEF Held
    <3>2. /\ (\A t \in Tickets : Front < t /\ t <= handed => ack[t] = "pending")'
          /\ (\A t \in Tickets : handed < t => ack[t] = "none" /\ reply[t] = "none")'
          /\ (\A t \in Tickets : t <= handed => ack[t] # "none")'
      BY <1>1, <1>3, <1>4, <1>11, Elements DEF Held
    <3>3. (\A t \in Tickets : ack[t] = "pending" =>
             Front < t \/ \E i \in 1 .. Len(messages) : messages[i] = t)'
      <4> SUFFICES ASSUME NEW t \in Tickets, ack[t] = "pending", ~(Front + 1 < t)
                   PROVE  \E i \in 1 .. Len(messages') : messages'[i] = t
        BY <1>4, <1>11
      <4>1. CASE t = h
        <5>1. Len(messages) + 1 \in 1 .. Len(messages')
          BY <1>3, <2>1
        <5> QED BY <2>1, <4>1, <5>1
      <4>2. CASE t # h
        <5>1. PICK i \in 1 .. Len(messages) : messages[i] = t
          BY <1>3, <1>5, <4>2, Elements DEF Held
        <5>2. i \in 1 .. Len(messages') /\ messages'[i] = t
          BY <1>3, <2>1, <5>1
        <5> QED BY <5>2
      <4> QED BY <4>1, <4>2
    <3> QED BY <3>1, <3>2, <3>3 DEF Held
  <2>6. Verdicts'
    BY <1>1, <1>11 DEF Verdicts
  <2> QED BY <1>9, <2>2, <2>3, <2>4, <2>5, <2>6
<1> QED BY <1>10, <1>11 DEF Prepare, h

\* The insert of the group commits.
LEMMA BatchCommitsIInv == ASSUME IInv, BatchCommits PROVE IInv'
<1> USE DEF IInv
<1>1. /\ pc = "insert_batch" /\ pc' = "batch_committed" /\ log' = log \o messages
      /\ UNCHANGED <<phase, ticket, reply, handed, size, queue, rx, ack, stopping, rest,
                     group, messages, expired>>
  BY DEF BatchCommits, sessionVars, channelVars
<1>2. Front' = Front /\ Front \in Int
  BY <1>1 DEF Front, TypeOK
<1>3. /\ log' \in Seq(Tickets) /\ Sorted(log') /\ UpTo(log', Front)
      /\ \A j \in 1 .. Len(messages) : \E i \in 1 .. Len(log') : log'[i] = messages[j]
      /\ \A t : (\E i \in 1 .. Len(log) : log[i] = t) => \E i \in 1 .. Len(log') : log'[i] = t
      /\ \A i \in 1 .. Len(log') : \/ \E j \in 1 .. Len(log) : log[j] = log'[i]
                                   \/ \E j \in 1 .. Len(messages) : messages[j] = log'[i]
  <2>1. /\ log \in Seq(Tickets) /\ messages \in Seq(Tickets)
        /\ Sorted(log) /\ Sorted(messages) /\ UpTo(log, Front) /\ UpTo(messages, Front)
        /\ \A i \in 1 .. Len(log), j \in 1 .. Len(messages) : log[i] < messages[j]
    BY <1>1 DEF Writes, TypeOK
  <2>2. log' = log \o messages
    BY <1>1
  <2> HIDE DEF IInv
  <2>3. /\ log' \in Seq(Tickets) /\ Sorted(log') /\ UpTo(log', Front)
        /\ \A j \in 1 .. Len(messages) : \E i \in 1 .. Len(log') : log'[i] = messages[j]
    BY <1>2, <2>1, <2>2, JoinSorted
  <2>4. \A t : (\E i \in 1 .. Len(log) : log[i] = t) => \E i \in 1 .. Len(log') : log'[i] = t
    BY <1>2, <2>1, <2>2, JoinSorted
  <2>5. \A i \in 1 .. Len(log') : \/ \E j \in 1 .. Len(log) : log[j] = log'[i]
                                  \/ \E j \in 1 .. Len(messages) : messages[j] = log'[i]
    BY <1>2, <2>1, <2>2, JoinSorted
  <2> QED BY <2>3, <2>4, <2>5
<1>5. TypeOK'
  BY <1>1, <1>3 DEF TypeOK, PCs, AwaitPoints
<1>6. Arrivals' /\ Control'
  BY <1>1, <1>2 DEF Arrivals, Run, Control, Gone
<1>7. Writes'
  BY <1>1, <1>2, <1>3 DEF Writes, Sorted, UpTo
<1>8. Held'
  BY <1>1, <1>2 DEF Held
<1>9. Verdicts'
  <2>1. \A t \in Tickets : ack[t] # "pending" /\ (\A i \in 1 .. Len(log) : log[i] # t) =>
          \A i \in 1 .. Len(log') : log'[i] # t
    BY <1>3 DEF Held
  <2>2. /\ \A t \in Tickets : ack'[t] = "stored" => \E i \in 1 .. Len(log') : log'[i] = t
        /\ \A t \in Tickets : ack'[t] = "rejected" => \A i \in 1 .. Len(log') : log'[i] # t
        /\ \A t \in Tickets : ack'[t] = "dropped" =>
              reply[t] = "timeout" /\ \A i \in 1 .. Len(log') : log'[i] # t
    BY <1>1, <1>3, <2>1 DEF Verdicts
  <2> QED BY <1>1, <1>5, <2>2, VerdictsStep DEF TypeOK, sessionVars
<1> QED BY <1>5, <1>6, <1>7, <1>8, <1>9

\* The acks of a whole sequence of messages, settled together.
LEMMA SettleAll ==
    ASSUME TypeOK, NEW seq \in Seq(Tickets), NEW v \in Acks, Settle(Range(seq), v)
    PROVE  /\ ack' \in [Tickets -> Acks]
           /\ \A i \in 1 .. Len(seq) : ack'[seq[i]] = v
           /\ \A t \in Tickets : ack'[t] # ack[t] =>
                ack'[t] = v /\ \E i \in 1 .. Len(seq) : seq[i] = t
           /\ \A t \in Tickets : (\A i \in 1 .. Len(seq) : seq[i] # t) => ack'[t] = ack[t]
<1>1. \A x : x \in Range(seq) <=> \E i \in 1 .. Len(seq) : seq[i] = x
  BY RangeFacts
<1>2. ack' = [t \in Tickets |-> IF t \in Range(seq) THEN v ELSE ack[t]]
  BY DEF Settle
<1>3. ack' \in [Tickets -> Acks]
  BY <1>2 DEF TypeOK
<1>4. \A i \in 1 .. Len(seq) : seq[i] \in Tickets /\ seq[i] \in Range(seq)
  BY <1>1
<1> QED BY <1>1, <1>2, <1>3, <1>4

\* All the messages in hand get one verdict and the processor goes on to the
\* next group: after a commit, a refusal by the store, or a missed deadline.
LEMMA SettleGroupIInv ==
    ASSUME IInv, NEW v \in {"stored", "rejected"}, Settle(Range(messages), v),
           messages' = <<>>, pc \notin Gone \cup {"prepare"}, pc' = "next_group",
           UNCHANGED <<phase, ticket, reply, handed, size, queue, rx, stopping, rest,
                       group, expired, log>>,
           v = "stored" => pc = "batch_committed",
           v = "rejected" => pc \notin {"batch_committed", "one_committed"}
    PROVE  IInv'
<1> USE DEF IInv
<1>1. messages \in Seq(Tickets) /\ v \in Acks /\ Len(messages') = 0
  BY DEF TypeOK, Acks
<1>2. /\ ack' \in [Tickets -> Acks]
      /\ \A i \in 1 .. Len(messages) : ack'[messages[i]] = v
      /\ \A t \in Tickets : ack'[t] # ack[t] =>
           ack'[t] = v /\ \E i \in 1 .. Len(messages) : messages[i] = t
      /\ \A t \in Tickets : (\A i \in 1 .. Len(messages) : messages[i] # t) => ack'[t] = ack[t]
  BY <1>1, SettleAll
<1>3. Front' = Front /\ Front \in Int /\ Front <= handed
  BY DEF Front, TypeOK
<1>4. TypeOK'
  BY <1>1, <1>2 DEF TypeOK, PCs
<1>5. Arrivals'
  BY <1>3 DEF Arrivals, Run
<1>6. Writes'
  BY <1>1, <1>3 DEF Writes, Sorted, UpTo
<1>7. Control'
  BY DEF Control, Gone
<1>8. Held'
  <2>1. \A i \in 1 .. Len(messages) : messages[i] <= Front
    BY DEF Writes, UpTo
  <2>2. \A t \in Tickets : ack'[t] # ack[t] => ack'[t] = v /\ t <= Front
    BY <1>2, <2>1
  <2>3. (\A t \in Tickets : Front < t /\ t <= handed => ack[t] = "pending")'
    BY <1>3, <2>2, Elements DEF Held
  <2>4. (\A t \in Tickets : handed < t => ack[t] = "none" /\ reply[t] = "none")'
    BY <1>3, <2>2, Elements DEF Held, TypeOK
  <2>5. (\A t \in Tickets : t <= handed => ack[t] # "none")'
    BY <2>2 DEF Held
  <2>6. (\A t \in Tickets : ack[t] = "pending" =>
           Front < t \/ \E i \in 1 .. Len(messages) : messages[i] = t)'
    BY <1>2, <1>3 DEF Held
  <2> QED BY <1>1, <2>3, <2>4, <2>5, <2>6 DEF Held
<1>9. Verdicts'
  <2>1. \A t \in Tickets : ack'[t] # ack[t] => ack[t] = "pending" /\ ack'[t] # "pending"
    BY <1>2 DEF Held
  <2>2. \A t \in Tickets : ack'[t] = "stored" => \E i \in 1 .. Len(log') : log'[i] = t
    BY <1>2 DEF Verdicts, Writes
  <2>3. \A t \in Tickets : ack'[t] = "rejected" => \A i \in 1 .. Len(log') : log'[i] # t
    <3> SUFFICES ASSUME NEW t \in Tickets, ack'[t] = "rejected", ack'[t] # ack[t],
                        NEW i \in 1 .. Len(log)
                 PROVE  log[i] # t
      BY DEF Verdicts
    <3>1. v = "rejected"
      BY <1>2
    <3>2. PICK j \in 1 .. Len(messages) : messages[j] = t
      BY <1>2
    <3>3. log[i] < messages[j]
      BY <3>1 DEF Writes
    <3> QED BY <3>2, <3>3, Elements
  <2>4. \A t \in Tickets : ack'[t] = "dropped" =>
           reply[t] = "timeout" /\ \A i \in 1 .. Len(log') : log'[i] # t
    BY <1>2 DEF Verdicts, Gone
  <2> QED BY <1>2, <2>1, <2>2, <2>3, <2>4, VerdictsStep DEF sessionVars
<1> QED BY <1>4, <1>5, <1>6, <1>7, <1>8, <1>9

\* The message in hand gets its verdict and the fallback goes on with the rest.
LEMMA SettleHeadIInv ==
    ASSUME IInv, messages # <<>>, NEW v \in {"stored", "rejected", "dropped"},
           Settle({Head(messages)}, v), messages' = Tail(messages),
           pc \in {"one_by_one", "insert_prepared", "one_committed"}, pc' = "one_by_one",
           UNCHANGED <<phase, ticket, reply, handed, size, queue, rx, stopping, rest,
                       group, expired, log>>,
           v = "stored" <=> pc = "one_committed",
           v = "dropped" => IsAbandoned(Head(messages))
    PROVE  IInv'
<1> USE DEF IInv
<1> DEFINE h == Head(messages)
<1>1. /\ Len(messages) \in Nat \ {0}
      /\ h = messages[1] /\ h \in Tickets
      /\ messages' \in Seq(Tickets) /\ Len(messages') = Len(messages) - 1
      /\ \A i \in 1 .. Len(messages) - 1 : messages'[i] = messages[i + 1]
  BY TailFacts DEF TypeOK
<1>2. /\ ack' \in [Tickets -> Acks] /\ ack'[h] = v
      /\ \A t \in Tickets : t # h => ack'[t] = ack[t]
  BY <1>1 DEF Settle, TypeOK, Acks
<1> HIDE DEF h
<1>3. Front' = Front /\ Front \in Int /\ Front <= handed
  BY DEF Front, TypeOK
<1>4. ack[h] = "pending" /\ h <= Front
  BY <1>1 DEF Held, Writes, UpTo
<1>5. TypeOK'
  BY <1>1, <1>2 DEF TypeOK, PCs
<1>6. Arrivals'
  BY <1>3 DEF Arrivals, Run
<1>7. \A i \in 1 .. Len(messages) - 1 : i + 1 \in 1 .. Len(messages) /\ h < messages[i + 1]
  BY <1>1 DEF Writes, Sorted
<1>8. \A i \in 1 .. Len(log), j \in 1 .. Len(messages') : log[i] < messages'[j]
  <2> SUFFICES ASSUME NEW i \in 1 .. Len(log), NEW j \in 1 .. Len(messages')
               PROVE  log[i] < messages'[j]
    OBVIOUS
  <2>1. messages'[j] = messages[j + 1] /\ j + 1 \in 1 .. Len(messages) /\ h < messages[j + 1]
    BY <1>1, <1>7
  <2>2. CASE pc = "one_committed"
    <3>1. log[i] <= h
      BY <1>1, <2>2 DEF Writes, UpTo
    <3> QED BY <1>1, <2>1, <3>1, Elements
  <2>3. CASE pc # "one_committed"
    BY <2>1, <2>3 DEF Writes
  <2> QED BY <2>2, <2>3
<1>9. Writes'
  <2>1. Sorted(messages)' /\ UpTo(messages, Front)'
    BY <1>1, <1>3, <1>7 DEF Writes, Sorted, UpTo
  <2>2. Sorted(log)' /\ UpTo(log, Front)'
    BY <1>3 DEF Writes, Sorted, UpTo
  <2> QED BY <1>8, <2>1, <2>2 DEF Writes
<1>10. Control'
  BY DEF Control, Gone
<1>11. Held'
  <2>1. (\A i \in 1 .. Len(messages) : ack[messages[i]] = "pending")'
    BY <1>1, <1>2, <1>7, Elements DEF Held
  <2>2. (\A t \in Tickets : Front < t /\ t <= handed => ack[t] = "pending")'
    BY <1>1, <1>2, <1>3, <1>4, Elements DEF Held
  <2>3. (\A t \in Tickets : handed < t => ack[t] = "none" /\ reply[t] = "none")'
    BY <1>1, <1>2, <1>3, <1>4, Elements DEF Held, TypeOK
  <2>4. (\A t \in Tickets : t <= handed => ack[t] # "none")'
    BY <1>2 DEF Held
  <2>5. (\A t \in Tickets : ack[t] = "pending" =>
           Front < t \/ \E i \in 1 .. Len(messages) : messages[i] = t)'
    <3> SUFFICES ASSUME NEW t \in Tickets, ack'[t] = "pending", ~(Front < t)
                 PROVE  \E i \in 1 .. Len(messages') : messages'[i] = t
      BY <1>3
    <3>1. t # h /\ ack[t] = "pending"
      BY <1>2
    <3>2. PICK i \in 1 .. Len(messages) : messages[i] = t
      BY <3>1 DEF Held
    <3>3. i # 1
      BY <1>1, <3>1, <3>2
    <3>4. i - 1 \in 1 .. Len(messages') /\ messages'[i - 1] = t
      BY <1>1, <3>2, <3>3
    <3> QED BY <3>4
  <2> QED BY <2>1, <2>2, <2>3, <2>4, <2>5 DEF Held
<1>12. Verdicts'
  <2>1. v = "stored" => \E i \in 1 .. Len(log) : log[i] = h
    BY <1>1 DEF Writes
  <2>2. v # "stored" => \A i \in 1 .. Len(log) : log[i] # h
    <3> SUFFICES ASSUME v # "stored", NEW i \in 1 .. Len(log) PROVE log[i] # h
      OBVIOUS
    <3>1. log[i] < messages[1]
      BY <1>1 DEF Writes
    <3> QED BY <1>1, <3>1, Elements
  <2>3. v = "dropped" => reply[h] = "timeout"
    BY <1>1, <1>4 DEF Verdicts, IsAbandoned, h
  <2>4. /\ \A t \in Tickets : ack'[t] = "stored" => \E i \in 1 .. Len(log') : log'[i] = t
        /\ \A t \in Tickets : ack'[t] = "rejected" => \A i \in 1 .. Len(log') : log'[i] # t
        /\ \A t \in Tickets : ack'[t] = "dropped" =>
              reply[t] = "timeout" /\ \A i \in 1 .. Len(log') : log'[i] # t
    BY <1>1, <1>2, <2>1, <2>2, <2>3 DEF Verdicts
  <2> QED BY <1>1, <1>2, <1>4, <2>4, VerdictsStep DEF sessionVars
<1> QED BY <1>5, <1>6, <1>9, <1>10, <1>11, <1>12

\* The steps of store_group and store_one_by_one that settle acks.
LEMMA SettlingIInv ==
    ASSUME IInv,
           \/ BatchStored \/ OneStored \/ OneByOne
           \/ \E storeWide \in BOOLEAN : BatchFails(storeWide) \/ OneFails(storeWide)
    PROVE  IInv'
<1> USE DEF sessionVars, channelVars
<1> DEFINE same == UNCHANGED <<phase, ticket, reply, handed, size, queue, rx, stopping, rest,
                               group, expired, log>>
           moved(from, to) == pc = from /\ pc' = to /\ same /\ UNCHANGED <<ack, messages>>
<1>1. CASE BatchStored
  BY <1>1, SettleGroupIInv DEF BatchStored, Gone
<1>2. CASE OneStored
  <2>1. messages # <<>>
    BY <1>2 DEF OneStored, IInv, Control
  <2> QED BY <1>2, <2>1, SettleHeadIInv DEF OneStored
<1>3. ASSUME NEW from \in {"insert_batch", "one_by_one"},
             NEW to \in {"one_by_one", "insert_prepared", "next_group"},
             moved(from, to), to = "insert_prepared" => messages # <<>>,
             to = "next_group" => messages = <<>>
      PROVE  IInv'
  <2> USE DEF IInv
  <2>1. TypeOK'
    BY <1>3 DEF TypeOK, PCs, AwaitPoints
  <2>2. Front' = Front
    BY <1>3 DEF Front
  <2>3. Arrivals' /\ Held'
    BY <1>3, <2>2 DEF Arrivals, Run, Held
  <2>4. Writes'
    BY <1>3, <2>2 DEF Writes, Sorted, UpTo
  <2>5. Control' /\ Verdicts'
    BY <1>3 DEF Control, Verdicts, Gone
  <2> QED BY <2>1, <2>3, <2>4, <2>5
<1>4. CASE OneByOne
  <2>1. CASE messages = <<>> /\ moved("one_by_one", "next_group")
    BY <1>3, <2>1
  <2>2. CASE /\ messages # <<>> /\ IsAbandoned(Head(messages))
             /\ Settle({Head(messages)}, "dropped") /\ messages' = Tail(messages)
             /\ pc' = "one_by_one" /\ pc = "one_by_one" /\ same
    BY <2>2, SettleHeadIInv
  <2>3. CASE /\ Settle(Range(messages), "rejected") /\ messages' = <<>>
             /\ pc' = "next_group" /\ pc = "one_by_one" /\ same
    BY <2>3, SettleGroupIInv DEF Gone
  <2>4. CASE messages # <<>> /\ moved("one_by_one", "insert_prepared")
    BY <1>3, <2>4
  <2> QED BY <1>4, <2>1, <2>2, <2>3, <2>4 DEF OneByOne
<1>5. ASSUME NEW storeWide \in BOOLEAN, BatchFails(storeWide) PROVE IInv'
  <2>1. CASE storeWide \/ Len(messages) = 1
    BY <1>5, <2>1, SettleGroupIInv DEF BatchFails, Gone
  <2>2. CASE ~(storeWide \/ Len(messages) = 1)
    BY <1>3, <1>5, <2>2 DEF BatchFails
  <2> QED BY <2>1, <2>2
<1>6. ASSUME NEW storeWide \in BOOLEAN, OneFails(storeWide) PROVE IInv'
  <2>1. messages # <<>>
    BY <1>6 DEF OneFails, IInv, Control
  <2>2. CASE storeWide
    BY <1>6, <2>2, SettleGroupIInv DEF OneFails, Gone
  <2>3. CASE ~storeWide
    BY <1>6, <2>1, <2>3, SettleHeadIInv DEF OneFails
  <2> QED BY <2>2, <2>3
<1> QED BY <1>1, <1>2, <1>4, <1>5, <1>6

\* The insert of the message in hand commits.
LEMMA OneCommitsIInv == ASSUME IInv, OneCommits PROVE IInv'
<1> USE DEF IInv
<1> DEFINE h == Head(messages)
<1>1. /\ pc = "insert_prepared" /\ pc' = "one_committed" /\ log' = Append(log, h)
      /\ UNCHANGED <<phase, ticket, reply, handed, size, queue, rx, ack, stopping, rest,
                     group, messages, expired>>
  BY DEF OneCommits, sessionVars, channelVars
<1>2. messages # <<>> /\ h = messages[1] /\ h \in Tickets /\ 1 \in 1 .. Len(messages)
  BY <1>1, TailFacts DEF TypeOK, Control
<1> HIDE DEF h
<1>3. /\ Front' = Front /\ Front \in Int /\ h <= Front /\ ack[h] = "pending"
      /\ \A i \in 1 .. Len(log) : log[i] < h
  BY <1>1, <1>2 DEF Front, TypeOK, Writes, UpTo, Held
<1>4. /\ log' \in Seq(Tickets) /\ Sorted(log') /\ UpTo(log', Front) /\ UpTo(log', h)
      /\ \E i \in 1 .. Len(log') : log'[i] = h
      /\ \A t : (\E i \in 1 .. Len(log) : log[i] = t) => \E i \in 1 .. Len(log') : log'[i] = t
      /\ \A i \in 1 .. Len(log') : log'[i] = h \/ \E j \in 1 .. Len(log) : log[j] = log'[i]
  <2>1. log \in Seq(Tickets) /\ Sorted(log) /\ UpTo(log, Front)
    BY DEF Writes, TypeOK
  <2>2. log' = Append(log, h)
    BY <1>1
  <2> HIDE DEF IInv
  <2> QED BY <1>2, <1>3, <2>1, <2>2, AppendSorted
<1>7. TypeOK'
  BY <1>1, <1>4 DEF TypeOK, PCs, AwaitPoints
<1>8. Arrivals' /\ Control' /\ Held'
  BY <1>1, <1>3 DEF Arrivals, Run, Control, Gone, Held
<1>9. Writes'
  BY <1>1, <1>2, <1>3, <1>4 DEF Writes, Sorted, UpTo
<1>10. Verdicts'
  <2>1. \A t \in Tickets : ack[t] # "pending" /\ (\A i \in 1 .. Len(log) : log[i] # t) =>
          \A i \in 1 .. Len(log') : log'[i] # t
    BY <1>3, <1>4
  <2>2. /\ \A t \in Tickets : ack'[t] = "stored" => \E i \in 1 .. Len(log') : log'[i] = t
        /\ \A t \in Tickets : ack'[t] = "rejected" => \A i \in 1 .. Len(log') : log'[i] # t
        /\ \A t \in Tickets : ack'[t] = "dropped" =>
              reply[t] = "timeout" /\ \A i \in 1 .. Len(log') : log'[i] # t
    BY <1>1, <1>4, <2>1 DEF Verdicts
  <2> QED BY <1>1, <1>7, <2>2, VerdictsStep DEF TypeOK, sessionVars
<1> QED BY <1>7, <1>8, <1>9, <1>10

-----------------------------------------------------------------------------
(***************************************************************************)
(* Stopping.                                                               *)
(***************************************************************************)

\* What the store may hold after the processor was dropped: still in order,
\* and nothing but what it was writing is new.
LEMMA LogAfterDropFacts ==
    ASSUME IInv, log' \in LogAfterDrop
    PROVE  /\ log' \in Seq(Tickets) /\ Sorted(log') /\ UpTo(log', Front)
           /\ \A t : (\E i \in 1 .. Len(log) : log[i] = t) =>
                \E i \in 1 .. Len(log') : log'[i] = t
           /\ \A i \in 1 .. Len(log') : \/ \E j \in 1 .. Len(log) : log[j] = log'[i]
                                        \/ \E j \in 1 .. Len(messages) : messages[j] = log'[i]
<1>1. /\ log \in Seq(Tickets) /\ messages \in Seq(Tickets) /\ Front \in Int
      /\ Sorted(log) /\ Sorted(messages) /\ UpTo(log, Front) /\ UpTo(messages, Front)
  BY DEF IInv, Writes, TypeOK, Front
<1>2. CASE log' = log
  BY <1>1, <1>2
<1>3. CASE pc = "insert_batch" /\ log' = log \o messages
  <2>1. \A i \in 1 .. Len(log), j \in 1 .. Len(messages) : log[i] < messages[j]
    BY <1>3 DEF IInv, Writes
  <2>2. /\ log' \in Seq(Tickets) /\ Sorted(log') /\ UpTo(log', Front)
        /\ \A t : (\E i \in 1 .. Len(log) : log[i] = t) => \E i \in 1 .. Len(log') : log'[i] = t
    BY <1>1, <1>3, <2>1, JoinSorted
  <2>3. \A i \in 1 .. Len(log') : \/ \E j \in 1 .. Len(log) : log[j] = log'[i]
                                  \/ \E j \in 1 .. Len(messages) : messages[j] = log'[i]
    BY <1>1, <1>3, <2>1, JoinSorted
  <2> QED BY <2>2, <2>3
<1>4. CASE pc = "insert_prepared" /\ log' = Append(log, Head(messages))
  <2> DEFINE h == Head(messages)
  <2>1. h = messages[1] /\ h \in Tickets /\ 1 \in 1 .. Len(messages)
    BY <1>1, <1>4, TailFacts DEF IInv, Control
  <2>2. h <= Front /\ \A i \in 1 .. Len(log) : log[i] < h
    BY <1>1, <1>4, <2>1 DEF IInv, Writes, UpTo
  <2> HIDE DEF h
  <2>3. log' = Append(log, h)
    BY <1>4 DEF h
  <2>4. /\ log' \in Seq(Tickets) /\ Sorted(log') /\ UpTo(log', Front)
        /\ \A t : (\E i \in 1 .. Len(log) : log[i] = t) => \E i \in 1 .. Len(log') : log'[i] = t
    BY <1>1, <2>1, <2>2, <2>3, AppendSorted
  <2>5. \A i \in 1 .. Len(log') : log'[i] = h \/ \E j \in 1 .. Len(log) : log[j] = log'[i]
    BY <1>1, <2>1, <2>2, <2>3, AppendSorted
  <2> QED BY <2>1, <2>4, <2>5
<1>5. \/ log' = log
      \/ pc = "insert_batch" /\ log' = log \o messages
      \/ pc = "insert_prepared" /\ log' = Append(log, Head(messages))
  BY DEF LogAfterDrop
<1> QED BY <1>2, <1>3, <1>4, <1>5

\* The processor is dropped: every ack it held is dropped with it, whether or
\* not the write it awaited has committed.
LEMMA DropIInv ==
    ASSUME IInv, DropProcessor, phase' = phase \/ phase' = [s \in Sessions |-> "dead"]
    PROVE  IInv'
<1> USE DEF IInv
<1> DEFINE U == Range(queue) \cup Range(rest) \cup Range(group) \cup Range(messages)
<1>1. /\ queue' = <<>> /\ rest' = <<>> /\ group' = <<>> /\ messages' = <<>>
      /\ rx' = "closed" /\ pc' = "aborted" /\ pc \notin Gone
      /\ UNCHANGED <<ticket, handed, size, reply, stopping, expired>>
      /\ ack' = [t \in Tickets |-> IF t \in U THEN "dropped" ELSE ack[t]]
      /\ log' \in LogAfterDrop
  BY DEF DropProcessor, Settle, AwaitPoints, Gone
<1>2. /\ log' \in Seq(Tickets) /\ Sorted(log') /\ UpTo(log', Front)
      /\ \A t : (\E i \in 1 .. Len(log) : log[i] = t) => \E i \in 1 .. Len(log') : log'[i] = t
      /\ \A i \in 1 .. Len(log') : \/ \E j \in 1 .. Len(log) : log[j] = log'[i]
                                   \/ \E j \in 1 .. Len(messages) : messages[j] = log'[i]
  BY <1>1, LogAfterDropFacts
<1>3. /\ Len(queue) \in Nat /\ Len(rest) \in Nat /\ Len(group) \in Nat /\ handed \in Int
      /\ Front \in Int /\ Front <= handed
      /\ Front + Len(group) + Len(rest) + Len(queue) = handed
  BY DEF TypeOK, Front
<1>4. \A t : t \in U <=> \/ \E i \in 1 .. Len(queue) : queue[i] = t
                         \/ \E i \in 1 .. Len(rest) : rest[i] = t
                         \/ \E i \in 1 .. Len(group) : group[i] = t
                         \/ \E i \in 1 .. Len(messages) : messages[i] = t
  BY RangeFacts DEF TypeOK
<1> HIDE DEF U
<1>5. \A t \in Tickets : t \in U => ack[t] = "pending"
  <2> SUFFICES ASSUME NEW t \in Tickets, t \in U PROVE ack[t] = "pending"
    OBVIOUS
  <2>1. CASE \E i \in 1 .. Len(messages) : messages[i] = t
    BY <2>1 DEF Held
  <2>2. CASE \E i \in 1 .. Len(group) : group[i] = t
    <3>1. PICK i \in 1 .. Len(group) : group[i] = t
      BY <2>2
    <3>2. Front < t /\ t <= handed
      BY <1>3, <3>1 DEF Arrivals, Run
    <3> QED BY <3>2 DEF Held
  <2>3. CASE \E i \in 1 .. Len(rest) : rest[i] = t
    BY <1>3, <2>3 DEF Held, Arrivals, Run
  <2>4. CASE \E i \in 1 .. Len(queue) : queue[i] = t
    BY <1>3, <2>4 DEF Held, Arrivals, Run
  <2> QED BY <1>4, <2>1, <2>2, <2>3, <2>4
<1>6. \A t \in Tickets : ack[t] = "pending" => t \in U
  <2> SUFFICES ASSUME NEW t \in Tickets, ack[t] = "pending", Front < t PROVE t \in U
    BY <1>4 DEF Held
  <2>1. t \in Int /\ t <= handed
    BY <1>3, Elements DEF Held
  <2>2. CASE t <= Front + Len(group)
    <3>1. t - Front \in 1 .. Len(group) /\ group[t - Front] = t
      BY <1>3, <2>1, <2>2 DEF Arrivals, Run
    <3> QED BY <1>4, <3>1
  <2>3. CASE Front + Len(group) < t /\ t <= Front + Len(group) + Len(rest)
    <3> DEFINE k == t - Front - Len(group)
    <3>1. k \in 1 .. Len(rest) /\ rest[k] = t
      BY <1>3, <2>1, <2>3 DEF Arrivals, Run
    <3> QED BY <1>4, <3>1
  <2>4. CASE Front + Len(group) + Len(rest) < t
    <3> DEFINE k == t - Front - Len(group) - Len(rest)
    <3>1. k \in 1 .. Len(queue) /\ queue[k] = t
      BY <1>3, <2>1, <2>4 DEF Arrivals, Run
    <3> QED BY <1>4, <3>1
  <2> QED BY <1>3, <2>1, <2>2, <2>3, <2>4
<1>7. /\ ack' \in [Tickets -> Acks]
      /\ \A t \in Tickets : ack[t] # "pending" => ack'[t] = ack[t]
      /\ \A t \in Tickets : ack[t] = "pending" => ack'[t] = "dropped"
  BY <1>1, <1>5, <1>6 DEF TypeOK, Acks
<1>8. Front' = handed /\ Len(<<>>) = 0 /\ <<>> \in Seq(Tickets)
  BY <1>1, <1>3 DEF Front
<1>9. /\ phase' \in [Sessions -> Phases]
      /\ \A s \in Sessions : phase'[s] = "waiting" => phase[s] = "waiting"
  BY DEF TypeOK, Phases
<1>10. TypeOK'
  BY <1>1, <1>2, <1>7, <1>8, <1>9 DEF TypeOK, PCs
<1>11. Arrivals'
  BY <1>1, <1>3, <1>8 DEF Arrivals, Run, TypeOK
<1>12. Writes'
  <2>1. UpTo(log', handed)
    <3>1. \A i \in 1 .. Len(log') : log'[i] \in Int
      BY <1>2, <1>10, Elements
    <3> QED BY <1>2, <1>3, <3>1 DEF UpTo
  <2> QED BY <1>1, <1>2, <1>8, <2>1 DEF Writes, Sorted, UpTo
<1>13. Control'
  BY <1>1 DEF Control, Gone
<1>14. Held'
  BY <1>1, <1>3, <1>7, <1>8, Elements DEF Held
<1>15. Verdicts'
  <2>1. \A t \in Tickets : ack'[t] = "stored" => \E i \in 1 .. Len(log') : log'[i] = t
    BY <1>2, <1>7 DEF Verdicts
  <2>2. \A t \in Tickets : ack'[t] = "rejected" => \A i \in 1 .. Len(log') : log'[i] # t
    <3> SUFFICES ASSUME NEW t \in Tickets, ack[t] = "rejected", NEW i \in 1 .. Len(log'),
                        log'[i] = t
                 PROVE  FALSE
      BY <1>7
    <3>1. \A j \in 1 .. Len(log) : log[j] # t
      BY DEF Verdicts
    <3>2. \E j \in 1 .. Len(messages) : messages[j] = t
      BY <1>2, <3>1
    <3> QED BY <3>2 DEF Held
  <2>3. /\ \A t \in Tickets : reply[t] = "250" => ack'[t] = "stored"
        /\ \A t \in Tickets : reply[t] = "451" => ack'[t] \in {"rejected", "dropped"}
        /\ \A t \in Tickets : ack'[t] # "pending"
    BY <1>7 DEF Verdicts
  <2>4. /\ \A s \in Sessions : phase'[s] = "waiting" => reply[ticket[s]] = "none"
        /\ \A r, s \in Sessions :
             phase'[r] = "waiting" /\ phase'[s] = "waiting" /\ ticket[r] = ticket[s] => r = s
    BY <1>9 DEF Verdicts
  <2> QED BY <1>1, <2>1, <2>2, <2>3, <2>4 DEF Verdicts
<1> QED BY <1>10, <1>11, <1>12, <1>13, <1>14, <1>15

\* run_serve returns: nothing is held by then.
LEMMA ExitIInv == ASSUME IInv, Exit PROVE IInv'
<1> USE DEF IInv, Exit, channelVars, processorVars
<1>1. TypeOK'
  BY DEF TypeOK, Phases
<1>2. Front' = Front
  BY DEF Front
<1>3. Arrivals' /\ Writes' /\ Held'
  BY <1>2 DEF Arrivals, Writes, Held, Run, Sorted, UpTo
<1>4. Control'
  BY DEF Control
<1>5. \A t \in Tickets : ack[t] # "pending"
  <2>1. Front = handed /\ messages = <<>> /\ Len(messages) = 0
    <3>1. queue = <<>> /\ rest = <<>> /\ group = <<>> /\ messages = <<>>
      BY DEF Control, Gone
    <3>2. Len(queue) = 0 /\ Len(rest) = 0 /\ Len(group) = 0 /\ handed \in Int
      BY <3>1 DEF TypeOK
    <3> QED BY <3>1, <3>2 DEF Front
  <2> QED BY <2>1, Elements DEF Held, TypeOK
<1>6. Verdicts'
  BY <1>5 DEF Verdicts
<1> QED BY <1>1, <1>3, <1>4, <1>6

-----------------------------------------------------------------------------
(***************************************************************************)
(* The theorems.                                                           *)
(***************************************************************************)

\* Every step of the ingest path preserves the invariant.
LEMMA NextIInv == IInv /\ [Next]_vars => IInv'
<1> SUFFICES ASSUME IInv, [Next]_vars PROVE IInv'
  OBVIOUS
<1>1. ASSUME NEW s \in Sessions, BeginDeliver(s) \/ SessionStep(s) \/ GiveUp(s) PROVE IInv'
  BY <1>1, BeginDeliverIInv, HandOffIInv, HandOffRefusedIInv, AnswerIInv, GiveUpIInv
     DEF SessionStep
<1>2. CASE ProcessorStep
  BY <1>2, TakeBatchIInv, QuietIInv, NextGroupIInv, PrepareIInv, SettlingIInv
     DEF ProcessorStep
<1>3. CASE InsertReturns
  BY <1>3, BatchCommitsIInv, OneCommitsIInv, SettlingIInv DEF InsertReturns
<1>4. CASE BudgetRunsOut \/ Stop
  BY <1>4, QuietIInv
<1>5. CASE Abort \/ Bail
  BY <1>5, DropIInv DEF Abort, Bail
<1>6. CASE Exit
  BY <1>6, ExitIInv
<1>7. CASE UNCHANGED vars
  BY <1>7 DEF vars, IInv, TypeOK, Arrivals, Writes, Control, Held, Verdicts, Front, Run,
              Sorted, UpTo
<1> QED BY <1>1, <1>2, <1>3, <1>4, <1>5, <1>6, <1>7 DEF Next, Exited

\* The inductive invariant holds throughout, for any number of sessions, any
\* channel capacity, batch limits and message sizes.
THEOREM IngestInvariant == Spec => []IInv
<1>1. Init => IInv
  BY InitIInv
<1>2. IInv /\ [Next]_vars => IInv'
  BY NextIInv
<1> QED BY <1>1, <1>2, PTL DEF Spec

\* Every variable keeps its type: in particular a waiting session waits on a
\* delivery the channel has accepted.
THEOREM IngestTypes == Spec => []TypeOK
<1>1. IInv => TypeOK
  BY DEF IInv
<1> QED BY <1>1, IngestInvariant, PTL

\* deliver() answers 250 only for a message whose transaction has committed.
THEOREM OkMeansStored == Spec => []StoredBeforeOk
<1>1. IInv => StoredBeforeOk
  <2> SUFFICES ASSUME IInv, NEW t \in Tickets, reply[t] = "250" PROVE t \in Range(log)
    BY DEF StoredBeforeOk
  <2>1. \E i \in 1 .. Len(log) : log[i] = t
    BY DEF IInv, Verdicts
  <2> QED BY <2>1, RangeFacts DEF IInv, TypeOK
<1> QED BY <1>1, IngestInvariant, PTL

\* No delivery is stored twice, and the store keeps the order of arrival.
THEOREM StoredInOrder == Spec => []StoredOnceInOrder
<1>1. IInv => StoredOnceInOrder
  <2> SUFFICES ASSUME IInv PROVE StoredOnceInOrder
    OBVIOUS
  <2>1. DOMAIN log = 1 .. Len(log)
    BY DEF IInv, TypeOK
  <2> QED BY <2>1 DEF IInv, Writes, Sorted, StoredOnceInOrder
<1> QED BY <1>1, IngestInvariant, PTL

\* A 451 that is not a timeout is never given for a message that is stored,
\* unless the processor was cut off.
THEOREM RefusalsAreHonest == Spec => []RetryIsHonest
<1>1. IInv => RetryIsHonest
  <2> SUFFICES ASSUME IInv, NEW t \in Tickets, reply[t] = "451", t \in Range(log)
               PROVE  pc = "aborted"
    BY DEF RetryIsHonest
  <2>1. PICK i \in 1 .. Len(log) : log[i] = t
    BY RangeFacts DEF IInv, TypeOK
  <2> QED BY <2>1 DEF IInv, Verdicts
<1> QED BY <1>1, IngestInvariant, PTL

\* A shutdown that ends within its deadline drops no queued message that a
\* session still waits for.
THEOREM DrainKeepsVerdicts == Spec => []DrainDropsNothing
<1>1. IInv => DrainDropsNothing
  BY DEF IInv, Verdicts, DrainDropsNothing
<1> QED BY <1>1, IngestInvariant, PTL

-----------------------------------------------------------------------------
(***************************************************************************)
(* The ingest path keeps the promise stated by Capture: the refinement     *)
(* proof.  Sessions' replies are the promise's replies, a commit (or the   *)
(* loss of the processor) is its Store, and every other step is invisible. *)
(***************************************************************************)

\* A step that leaves log, replies and the fate of the processor alone.
LEMMA Invisible ==
    ASSUME UNCHANGED <<log, reply>>, pc = "aborted" <=> pc' = "aborted"
    PROVE  UNCHANGED Promise!vars
BY DEF Promise!vars

\* A sender's mail whose verdict is pending has been told neither 250 nor a
\* 451 other than the timeout's.
LEMMA PendingReply ==
    ASSUME IInv, NEW t \in Tickets, ack[t] = "pending"
    PROVE  reply[t] \in {"none", "timeout"}
BY DEF IInv, TypeOK, Verdicts, Replies

\* Growing the log by messages the processor holds is the promise's Store.
LEMMA StoreStep ==
    ASSUME IInv, pc # "aborted", UNCHANGED reply,
           log' \in Seq(Tickets), Sorted(log'), Len(log) <= Len(log'),
           \A i \in 1 .. Len(log) : log'[i] = log[i],
           \A i \in 1 .. Len(log') : \/ \E j \in 1 .. Len(log) : log[j] = log'[i]
                                     \/ \E j \in 1 .. Len(messages) : messages[j] = log'[i]
    PROVE  Promise!Store
<1>1. DOMAIN log = 1 .. Len(log) /\ DOMAIN log' = 1 .. Len(log')
  BY DEF IInv, TypeOK
<1>2. Promise!IsPrefixOf(log, log')
  BY <1>1 DEF Promise!IsPrefixOf
<1>3. Promise!InOrder(log')
  BY <1>1 DEF Promise!InOrder, Sorted
<1>4. \A t \in Range(log') \ Range(log) : reply[t] \in {"none", "timeout"}
  <2> SUFFICES ASSUME NEW t \in Range(log'), t \notin Range(log)
               PROVE  reply[t] \in {"none", "timeout"}
    OBVIOUS
  <2>1. PICK i \in 1 .. Len(log') : log'[i] = t
    BY RangeFacts
  <2>2. ~\E j \in 1 .. Len(log) : log[j] = t
    BY RangeFacts DEF IInv, TypeOK
  <2>3. PICK j \in 1 .. Len(messages) : messages[j] = t
    BY <2>1, <2>2
  <2>4. t \in Tickets /\ ack[t] = "pending"
    BY <2>3, Elements DEF IInv, Held
  <2> QED BY <2>4, PendingReply
<1> QED BY <1>2, <1>3, <1>4 DEF Promise!Store, Promise!Range, Range

\* A commit of the group, of one message, or of whatever was being written
\* when the processor was dropped.
LEMMA CommitStep ==
    ASSUME IInv, pc # "aborted", UNCHANGED reply, log' \in LogAfterDrop
    PROVE  Promise!Store
<1>1. /\ log' \in Seq(Tickets) /\ Sorted(log')
      /\ \A i \in 1 .. Len(log') : \/ \E j \in 1 .. Len(log) : log[j] = log'[i]
                                   \/ \E j \in 1 .. Len(messages) : messages[j] = log'[i]
  BY LogAfterDropFacts
<1>2. Len(log) <= Len(log') /\ \A i \in 1 .. Len(log) : log'[i] = log[i]
  <2>1. log \in Seq(Tickets) /\ messages \in Seq(Tickets)
    BY DEF IInv, TypeOK
  <2>2. CASE log' = log
    BY <2>1, <2>2
  <2>3. CASE log' = log \o messages
    BY <2>1, <2>3, ConcatFacts
  <2>4. CASE pc = "insert_prepared" /\ log' = Append(log, Head(messages))
    <3>1. Head(messages) \in Tickets
      BY <2>1, <2>4, TailFacts DEF IInv, Control
    <3> QED BY <2>1, <2>4, <3>1, AppendFacts
  <2> QED BY <2>2, <2>3, <2>4 DEF LogAfterDrop
<1> QED BY <1>1, <1>2, StoreStep

\* Every step of the ingest path is a step of the promise, or invisible to it.
LEMMA NextImplements == IInv /\ [Next]_vars => [Promise!Next]_(Promise!vars)
<1> SUFFICES ASSUME IInv, [Next]_vars PROVE Promise!Next \/ UNCHANGED Promise!vars
  OBVIOUS
<1>1. ASSUME NEW s \in Sessions, Answer(s) PROVE Promise!Next
  <2> DEFINE t == ticket[s]
  <2>1. t \in Tickets /\ t <= handed /\ reply[t] = "none"
    BY <1>1 DEF Answer, IInv, TypeOK, Tickets, Verdicts
  <2>2. ack[t] \in {"stored", "rejected", "dropped"}
    BY <1>1, <2>1 DEF Answer, IInv, TypeOK, Held, Acks
  <2>3. UNCHANGED <<log, pc>>
    BY <1>1 DEF Answer, processorVars
  <2>4. CASE ack[t] = "stored"
    <3>1. \E i \in 1 .. Len(log) : log[i] = t
      BY <2>1, <2>4 DEF IInv, Verdicts
    <3>2. t \in Range(log)
      BY <3>1, RangeFacts DEF IInv, TypeOK
    <3>3. Promise!Accept(t)
      BY <1>1, <2>1, <2>3, <2>4, <3>2 DEF Answer, Promise!Accept, Promise!Range, Range
    <3> QED BY <2>1, <3>3 DEF Promise!Next
  <2>5. CASE ack[t] # "stored"
    <3>1. pc = "aborted" \/ \A i \in 1 .. Len(log) : log[i] # t
      BY <2>1, <2>2, <2>5 DEF IInv, Verdicts
    <3>2. t \notin Range(log) \/ pc = "aborted"
      BY <3>1, RangeFacts DEF IInv, TypeOK
    <3>3. Promise!Refuse(t)
      BY <1>1, <2>1, <2>3, <2>5, <3>2 DEF Answer, Promise!Refuse, Promise!Range, Range
    <3> QED BY <2>1, <3>3 DEF Promise!Next
  <2> QED BY <2>4, <2>5
<1>2. ASSUME NEW s \in Sessions, GiveUp(s) PROVE Promise!Next
  <2>1. ticket[s] \in Tickets /\ reply[ticket[s]] = "none"
    BY <1>2 DEF GiveUp, IInv, TypeOK, Tickets, Verdicts
  <2>2. Promise!GiveUp(ticket[s])
    BY <1>2, <2>1 DEF GiveUp, Promise!GiveUp, processorVars
  <2> QED BY <2>1, <2>2 DEF Promise!Next
<1>3. ASSUME NEW s \in Sessions, BeginDeliver(s) \/ HandOffRefused(s) \/ \E b \in Sizes : HandOff(s, b)
      PROVE  UNCHANGED Promise!vars
  BY <1>3, Invisible DEF BeginDeliver, HandOffRefused, HandOff, processorVars
<1>4. CASE ProcessorStep
  BY <1>4, Invisible
     DEF ProcessorStep, TakeBatch, CloseQueue, EndProcessor, NextGroup, Prepare, Prepared,
         BatchStored, OneByOne, OneStored, sessionVars, processorVars
<1>5. CASE InsertReturns
  <2>1. CASE BatchCommits \/ OneCommits
    <3>1. log' \in LogAfterDrop /\ pc # "aborted" /\ UNCHANGED reply
      BY <2>1 DEF BatchCommits, OneCommits, LogAfterDrop, sessionVars
    <3> QED BY <3>1, CommitStep DEF Promise!Next
  <2>2. ASSUME NEW w \in BOOLEAN, BatchFails(w) \/ OneFails(w) PROVE UNCHANGED Promise!vars
    BY <2>2, Invisible DEF BatchFails, OneFails, sessionVars
  <2> QED BY <1>5, <2>1, <2>2 DEF InsertReturns
<1>6. CASE BudgetRunsOut \/ Stop \/ Exit
  BY <1>6, Invisible DEF BudgetRunsOut, Stop, Exit, sessionVars, processorVars
<1>7. CASE Abort \/ Bail
  <2>1. log' \in LogAfterDrop /\ pc # "aborted" /\ UNCHANGED reply
    BY <1>7 DEF Abort, Bail, DropProcessor, AwaitPoints
  <2> QED BY <2>1, CommitStep DEF Promise!Next
<1>8. CASE UNCHANGED vars
  BY <1>8, Invisible DEF vars
<1> QED BY <1>1, <1>2, <1>3, <1>4, <1>5, <1>6, <1>7, <1>8 DEF Next, SessionStep, Exited

\* The ingest path implements the promise to the senders of mail, for every
\* number of sessions and every limit of channel and batches.
THEOREM IngestKeepsPromise == Spec => ImplementsPromise
<1>1. Init => Promise!Init
  BY DEF Init, Promise!Init
<1>2. IInv /\ [Next]_vars => [Promise!Next]_(Promise!vars)
  BY NextImplements
<1> QED BY <1>1, <1>2, IngestInvariant, PTL DEF Spec, ImplementsPromise, Promise!Spec
-----------------------------------------------------------------------------
(***************************************************************************)
(* A delivery whose session gave up before it was prepared is never        *)
(* stored.  From then on it is neither in the log nor among the messages   *)
(* that are about to be, and no step can take it there: Prepare asks       *)
(* is_abandoned, and nothing else adds to `messages`.                      *)
(***************************************************************************)

Absent(t, seq) == \A i \in 1 .. Len(seq) : seq[i] # t

Doomed(t) == reply[t] = "timeout" /\ Absent(t, log) /\ Absent(t, messages)

\* What is not in a sequence is not in a part of it, and comes in only by name.
LEMMA AbsentFacts ==
    ASSUME NEW t, NEW a \in Seq(Tickets), Absent(t, a)
    PROVE  /\ \A b \in Seq(Tickets) : Absent(t, b) => Absent(t, a \o b)
           /\ \A e \in Tickets : e # t => Absent(t, Append(a, e))
           /\ a # <<>> => Absent(t, Tail(a)) /\ Head(a) # t /\ Head(a) \in Tickets
           /\ Absent(t, <<>>)
<1>1. ASSUME NEW b \in Seq(Tickets), Absent(t, b) PROVE Absent(t, a \o b)
  <2>1. ASSUME NEW i \in 1 .. Len(a \o b) PROVE (a \o b)[i] # t
    <3>1. CASE i \in 1 .. Len(a)
      BY <3>1, ConcatFacts DEF Absent
    <3>2. CASE i \notin 1 .. Len(a)
      <4>1. i - Len(a) \in 1 .. Len(b) /\ i = Len(a) + (i - Len(a))
        BY <3>2, ConcatFacts
      <4> QED BY <1>1, <4>1, ConcatFacts DEF Absent
    <3> QED BY <3>1, <3>2
  <2> QED BY <2>1 DEF Absent
<1>2. ASSUME NEW e \in Tickets, e # t PROVE Absent(t, Append(a, e))
  BY <1>2, AppendFacts DEF Absent
<1>3. ASSUME a # <<>> PROVE Absent(t, Tail(a)) /\ Head(a) # t /\ Head(a) \in Tickets
  BY <1>3, TailFacts DEF Absent
<1> QED BY <1>1, <1>2, <1>3 DEF Absent

\* No session waits for a delivery whose sender was told of the timeout.
LEMMA NobodyWaitsForDoomed ==
    ASSUME IInv, NEW t \in Tickets, reply[t] = "timeout", NEW s \in Sessions, phase[s] = "waiting"
    PROVE  ticket[s] # t /\ ticket[s] \in Tickets
BY DEF IInv, Verdicts, TypeOK, Tickets

LEMMA DoomedStaysDoomed ==
    ASSUME IInv, [Next]_vars, NEW t \in Tickets, Doomed(t)
    PROVE  Doomed(t)'
<1>1. /\ log \in Seq(Tickets) /\ messages \in Seq(Tickets) /\ reply \in [Tickets -> Replies]
      /\ group \in Seq(Tickets)
      /\ reply[t] = "timeout" /\ Absent(t, log) /\ Absent(t, messages)
  BY DEF Doomed, IInv, TypeOK
<1>2. SUFFICES reply'[t] = "timeout" /\ Absent(t, log') /\ Absent(t, messages')
  BY DEF Doomed, Absent
<1>3. ASSUME NEW s \in Sessions, Answer(s) \/ GiveUp(s)
      PROVE  reply'[t] = "timeout" /\ UNCHANGED <<log, messages>>
  <2>1. ticket[s] # t
    BY <1>1, <1>3, NobodyWaitsForDoomed DEF Answer, GiveUp
  <2> QED BY <1>1, <1>3, <2>1 DEF Answer, GiveUp, processorVars
<1>4. ASSUME NEW s \in Sessions, BeginDeliver(s) \/ HandOffRefused(s) \/ (\E bytes \in Sizes : HandOff(s, bytes))
      PROVE  UNCHANGED <<reply, log, messages>>
  BY <1>4 DEF BeginDeliver, HandOffRefused, HandOff, processorVars
<1>5. ASSUME Prepare PROVE reply' = reply /\ log' = log /\ Absent(t, messages')
  <2>1. group # <<>> /\ reply' = reply /\ log' = log
    BY <1>5 DEF Prepare, sessionVars
  <2>2. Head(group) \in Tickets
    BY <1>1, <2>1, TailFacts
  <2>3. CASE messages' = messages
    BY <1>1, <2>1, <2>3
  <2>4. CASE ~ IsAbandoned(Head(group)) /\ messages' = Append(messages, Head(group))
    <3>1. PICK s \in Sessions : phase[s] = "waiting" /\ ticket[s] = Head(group)
      BY <2>4 DEF IsAbandoned
    <3>2. Head(group) # t
      BY <1>1, <3>1, NobodyWaitsForDoomed
    <3> QED BY <1>1, <2>1, <2>2, <2>4, <3>2, AbsentFacts
  <2> QED BY <1>5, <2>3, <2>4 DEF Prepare
<1>6. ASSUME BatchCommits PROVE reply' = reply /\ messages' = messages /\ Absent(t, log')
  BY <1>1, <1>6, AbsentFacts DEF BatchCommits, sessionVars
<1>7. ASSUME OneCommits PROVE reply' = reply /\ messages' = messages /\ Absent(t, log')
  <2>1. messages # <<>>
    BY <1>7 DEF OneCommits, IInv, Control
  <2> QED BY <1>1, <1>7, <2>1, AbsentFacts DEF OneCommits, sessionVars
<1>8. ASSUME \/ TakeBatch \/ CloseQueue \/ EndProcessor \/ NextGroup \/ Prepared
             \/ BudgetRunsOut \/ Stop \/ Exit \/ UNCHANGED vars
      PROVE  UNCHANGED <<reply, log, messages>>
  BY <1>8 DEF TakeBatch, CloseQueue, EndProcessor, NextGroup, Prepared, BudgetRunsOut, Stop, Exit,
              sessionVars, processorVars, vars
<1>9. ASSUME \/ BatchStored \/ (\E w \in BOOLEAN : BatchFails(w)) \/ OneByOne
             \/ OneStored \/ (\E w \in BOOLEAN : OneFails(w))
      PROVE  reply' = reply /\ log' = log /\ Absent(t, messages')
  <2>1. reply' = reply /\ log' = log /\ messages' \in {messages, <<>>, Tail(messages)}
    BY <1>9 DEF BatchStored, BatchFails, OneByOne, OneStored, OneFails, sessionVars
  <2>2. messages' = messages \/ messages' = <<>> \/ (messages # <<>> /\ messages' = Tail(messages))
    BY <1>9 DEF BatchStored, BatchFails, OneByOne, OneStored, OneFails, IInv, Control
  <2>3. CASE messages # <<>> /\ messages' = Tail(messages)
    BY <1>1, <2>1, <2>3, AbsentFacts
  <2>4. Absent(t, <<>>)
    BY DEF Absent
  <2> QED BY <1>1, <2>1, <2>2, <2>3, <2>4
<1>10. ASSUME Abort \/ Bail PROVE reply' = reply /\ messages' = <<>> /\ Absent(t, log')
  <2>1. reply' = reply /\ messages' = <<>> /\ log' \in LogAfterDrop
    BY <1>10 DEF Abort, Bail, DropProcessor
  <2>2. \/ log' = log \/ log' = log \o messages
        \/ pc = "insert_prepared" /\ log' = Append(log, Head(messages))
    BY <2>1 DEF LogAfterDrop
  <2>3. pc = "insert_prepared" => messages # <<>>
    BY DEF IInv, Control
  <2>4. Absent(t, log \o messages)
    BY <1>1, AbsentFacts
  <2>5. pc = "insert_prepared" => Absent(t, Append(log, Head(messages)))
    BY <1>1, <2>3, AbsentFacts
  <2> QED BY <1>1, <2>1, <2>2, <2>4, <2>5
<1>11. Absent(t, <<>>)
  BY DEF Absent
<1> QED
  BY <1>1, <1>3, <1>4, <1>5, <1>6, <1>7, <1>8, <1>9, <1>10, <1>11
     DEF Next, SessionStep, ProcessorStep, InsertReturns, Exited

\* is_abandoned is consulted before every write that could take a message: what
\* its sender gave up on before the processor looked at it is never stored.
THEOREM AbandonedIsNeverStored == Spec => AbandonedIsNotStored
<1> SUFFICES ASSUME NEW t \in Tickets
             PROVE  Spec => []((reply[t] = "timeout" /\ t \in Range(queue) \cup Range(rest) \cup Range(group))
                                 => [](t \notin Range(log)))
  BY DEF AbandonedIsNotStored
<1>1. IInv /\ reply[t] = "timeout" /\ t \in Range(queue) \cup Range(rest) \cup Range(group)
        => Doomed(t)
  <2> SUFFICES ASSUME IInv, reply[t] = "timeout", t \in Range(queue) \cup Range(rest) \cup Range(group)
               PROVE  Doomed(t)
    OBVIOUS
  <2>1. t > Front
    <3>1. /\ queue \in Seq(Tickets) /\ rest \in Seq(Tickets) /\ group \in Seq(Tickets)
          /\ Front \in Int /\ Len(group) \in Nat /\ Len(rest) \in Nat /\ Len(queue) \in Nat
      BY DEF IInv, TypeOK, Front
    <3>2. /\ \A i \in 1 .. Len(group) : group[i] = Front + i
          /\ \A i \in 1 .. Len(rest) : rest[i] = Front + Len(group) + i
          /\ \A i \in 1 .. Len(queue) : queue[i] = Front + Len(group) + Len(rest) + i
      BY DEF IInv, Arrivals, Run
    <3>3. \/ \E i \in 1 .. Len(queue) : queue[i] = t
          \/ \E i \in 1 .. Len(rest) : rest[i] = t
          \/ \E i \in 1 .. Len(group) : group[i] = t
      BY <3>1, RangeFacts
    <3> QED BY <3>1, <3>2, <3>3
  <2> QED BY <2>1 DEF IInv, TypeOK, Writes, UpTo, Doomed, Absent, Front, Tickets
<1>2. IInv /\ [Next]_vars /\ Doomed(t) => Doomed(t)'
  BY DoomedStaysDoomed
<1>3. IInv /\ Doomed(t) => t \notin Range(log)
  BY RangeFacts DEF IInv, TypeOK, Doomed, Absent
<1> QED BY <1>1, <1>2, <1>3, IngestInvariant, PTL DEF Spec
=============================================================================
