----------------------------- MODULE TasksProofs -----------------------------
(***************************************************************************)
(* Proofs about the tasks of a server, for any number of peers, clients,   *)
(* slots and messages and any timings: an envelope belongs to one          *)
(* transaction on one layer, the semaphores of the accept loop,            *)
(* the WebSockets and the webhooks neither leak nor are overdrawn, a       *)
(* WebSocket peer that answers is never closed as idle, and assert mode    *)
(* passes only on enough matching mail.                                    *)
(***************************************************************************)
EXTENDS MCTasks, FiniteSetTheorems, TLAPS

----------------------------------------------------------------------------
(* An SMTP session: its types, and that an envelope belongs to one         *)
(* transaction on one layer, for any caps and any number of commands.      *)

\* The invariant the proofs rest on: the transaction state is well typed, its
\* sender is the MAIL command in effect, its recipients are its own, and what is
\* in the buffer came over the layer in use.
SessionInv == TypeOK /\ EnvelopeIsOneTransaction /\ NothingCrossesStartTls

\* A buffer that holds nothing.
LEMMA NothingBuffered == <<>> \in Seq(BOOLEAN) /\ Len(<<>>) = 0 /\ 0 <= MaxAhead
<1>1. ASSUME NEW D PROVE <<>> \in Seq(D)
  OBVIOUS
<1>2. Len(<<>>) = 0 /\ 0 <= MaxAhead
  BY SmtpSessionAssumption
<1> QED BY <1>1, <1>2

\* The invariant holds at first.
LEMMA InitSession == Init => SessionInv
<1> SUFFICES ASSUME Init PROVE SessionInv
  OBVIOUS
<1>1. mode \in Modes /\ mode \notin {"data", "deliver"}
  BY DEF Init, Modes, Reading
<1>2. /\ rcpt_to \in Seq(Origins)
      /\ Len(rcpt_to) = 0
      /\ mail_from \in {<<>>} \cup {<<o>> : o \in Origins}
  BY DEF Init
<1>3. TypeOK
  <2>1. /\ peer \in {"talking", "silent", "gone"}
        /\ greeted \in BOOLEAN
        /\ tls \in BOOLEAN
    BY DEF Init
  <2>3. buffered \in Seq(BOOLEAN) /\ Len(buffered) <= MaxAhead
    BY NothingBuffered DEF Init
  <2>2. /\ Len(rcpt_to) <= MaxRecipients
        /\ command_count \in 0 .. MaxCommands + 1
        /\ mails \in 0 .. Tags - 1
        /\ unproductive \in 0 .. MaxCommands + 1
    BY <1>2, SmtpSessionAssumption DEF Init
  <2> QED BY <1>1, <1>2, <2>1, <2>2, <2>3 DEF TypeOK
<1>4. EnvelopeIsOneTransaction
  BY <1>1, <1>2 DEF EnvelopeIsOneTransaction
<1>5. NothingCrossesStartTls
  BY DEF Init, NothingCrossesStartTls
<1> QED BY <1>3, <1>4, <1>5 DEF SessionInv

\* Every line of b came over the layer in use, and b is no longer than a buffer.
OfThisLayer(b) ==
    b \in Seq(BOOLEAN) /\ Len(b) <= MaxAhead /\ \A i \in 1 .. Len(b) : b[i] = tls

\* What a read of the stream leaves is.
LEMMA FillsAreOfThisLayer ==
    ASSUME SessionInv, NEW b \in Fills
    PROVE  OfThisLayer(b)
<1>1. PICK n \in 0 .. MaxAhead : b \in [1 .. n -> {tls}]
  BY DEF Fills
<1>2. tls \in BOOLEAN
  BY DEF SessionInv, TypeOK
<1>3. n \in Nat /\ n <= MaxAhead
  BY SmtpSessionAssumption
<1>4. b \in Seq(BOOLEAN) /\ Len(b) = n
  BY <1>1, <1>2, <1>3
<1> QED BY <1>1, <1>3, <1>4 DEF OfThisLayer

\* So is what is left of the buffer once lines were taken from its front.
LEMMA RestIsOfThisLayer ==
    ASSUME SessionInv, NEW b \in Rest(buffered)
    PROVE  OfThisLayer(b)
<1>1. PICK i \in 2 .. Len(buffered) + 1 : b = SubSeq(buffered, i, Len(buffered))
  BY DEF Rest
<1>2. /\ buffered \in Seq(BOOLEAN) /\ Len(buffered) \in Nat
      /\ Len(buffered) <= MaxAhead /\ \A k \in 1 .. Len(buffered) : buffered[k] = tls
  BY DEF SessionInv, TypeOK, NothingCrossesStartTls
<1>3. /\ b \in Seq(BOOLEAN) /\ Len(b) = Len(buffered) - i + 1
      /\ \A k \in 1 .. Len(b) : b[k] = buffered[i + k - 1]
  BY <1>1, <1>2
<1>4. \A k \in 1 .. Len(b) : i + k - 1 \in 1 .. Len(buffered)
  BY <1>2, <1>3
<1>5. \A k \in 1 .. Len(b) : b[k] = tls
  BY <1>2, <1>3, <1>4
<1>6. Len(b) <= MaxAhead
  BY <1>2, <1>3, SmtpSessionAssumption
<1> QED BY <1>3, <1>5, <1>6 DEF OfThisLayer

\* A read takes a line of the layer in use and leaves lines of it.
LEMMA LinesAreOfThisLayer ==
    ASSUME SessionInv
    PROVE  /\ LineLayer = tls
           /\ OfThisLayer(buffered) /\ OfThisLayer(<<>>)
           /\ ReadLine => OfThisLayer(buffered')
<1>1. /\ buffered \in Seq(BOOLEAN) /\ Len(buffered) \in Nat
      /\ Len(buffered) <= MaxAhead /\ \A k \in 1 .. Len(buffered) : buffered[k] = tls
  BY DEF SessionInv, TypeOK, NothingCrossesStartTls
<1>2. LineLayer = tls
  BY <1>1 DEF LineLayer
<1>3. OfThisLayer(buffered) /\ OfThisLayer(<<>>)
  BY <1>1, SmtpSessionAssumption DEF OfThisLayer
<1>4. CASE buffered # <<>> /\ buffered' = Tail(buffered)
  <2>1. /\ buffered' \in Seq(BOOLEAN) /\ Len(buffered') = Len(buffered) - 1
        /\ \A k \in 1 .. Len(buffered') : buffered'[k] = buffered[k + 1]
    BY <1>1, <1>4
  <2>2. \A k \in 1 .. Len(buffered') : k + 1 \in 1 .. Len(buffered)
    BY <1>1, <2>1
  <2> QED BY <1>1, <1>2, <1>3, <2>1, <2>2, SmtpSessionAssumption DEF OfThisLayer
<1>5. CASE buffered' \in Fills
  BY <1>2, <1>3, <1>5, FillsAreOfThisLayer
<1> QED BY <1>2, <1>3, <1>4, <1>5 DEF ReadLine

\* A command that leaves the transaction alone keeps the invariant.
LEMMA CommandKeeps ==
    ASSUME SessionInv, ReadCommand, UNCHANGED <<tls, transactionVars>>,
           mode' \in Modes, mode' = "handshake" => buffered' = <<>>,
           mode' \in {"data", "deliver"} => rcpt_to # <<>>
    PROVE  SessionInv'
<1>1. OfThisLayer(buffered') /\ UNCHANGED peer
  BY LinesAreOfThisLayer DEF ReadCommand
<1>2. command_count' \in 0 .. MaxCommands + 1 /\ unproductive' \in 0 .. MaxCommands + 1
  BY SmtpSessionAssumption DEF SessionInv, TypeOK, ReadCommand
<1>3. TypeOK'
  BY <1>1, <1>2 DEF SessionInv, TypeOK, OfThisLayer, transactionVars, Origins
<1>4. EnvelopeIsOneTransaction'
  BY DEF SessionInv, EnvelopeIsOneTransaction, transactionVars
<1>5. NothingCrossesStartTls'
  BY <1>1 DEF SessionInv, NothingCrossesStartTls, OfThisLayer, transactionVars
<1> QED BY <1>3, <1>4, <1>5 DEF SessionInv

\* A step that neither counts a command nor touches the transaction keeps it.
LEMMA OtherKeeps ==
    ASSUME SessionInv, UNCHANGED <<tls, transactionVars>>,
           command_count' \in 0 .. MaxCommands + 1,
           unproductive' \in 0 .. MaxCommands + 1,
           peer' \in {"talking", "silent", "gone"}, OfThisLayer(buffered'),
           mode' \in Modes, mode' = "handshake" => buffered' = <<>>,
           mode' \in {"data", "deliver"} => rcpt_to # <<>>
    PROVE  SessionInv'
<1>1. TypeOK'
  BY DEF SessionInv, TypeOK, OfThisLayer, transactionVars, Origins
<1>2. EnvelopeIsOneTransaction'
  BY DEF SessionInv, EnvelopeIsOneTransaction, transactionVars
<1>3. NothingCrossesStartTls'
  BY DEF SessionInv, NothingCrossesStartTls, OfThisLayer, transactionVars
<1> QED BY <1>1, <1>2, <1>3 DEF SessionInv

\* A step that ends the transaction keeps the invariant.
LEMMA ResetKeeps ==
    ASSUME SessionInv, ResetTransaction, mails' = mails,
           greeted' \in BOOLEAN, tls' \in BOOLEAN,
           command_count' \in 0 .. MaxCommands + 1,
           unproductive' \in 0 .. MaxCommands + 1,
           peer' \in {"talking", "silent", "gone"},
           buffered' = <<>> \/ (tls' = tls /\ OfThisLayer(buffered')),
           mode' \in Modes \ {"data", "deliver", "handshake"}
    PROVE  SessionInv'
<1>1. buffered' \in Seq(BOOLEAN) /\ Len(buffered') <= MaxAhead
  BY NothingBuffered DEF OfThisLayer
<1>2. \A i \in 1 .. Len(buffered') : buffered'[i] = tls'
  BY DEF OfThisLayer
<1>3. TypeOK'
  BY <1>1, SmtpSessionAssumption DEF SessionInv, TypeOK, ResetTransaction, Origins
<1>4. EnvelopeIsOneTransaction'
  BY DEF EnvelopeIsOneTransaction, ResetTransaction
<1>5. NothingCrossesStartTls'
  BY <1>2 DEF NothingCrossesStartTls, ResetTransaction
<1> QED BY <1>3, <1>4, <1>5 DEF SessionInv

\* Reading a command keeps both counts within their cap.
LEMMA CountsInRange ==
    ASSUME SessionInv, ReadCommand
    PROVE  /\ command_count' \in 0 .. MaxCommands + 1
           /\ unproductive' \in 0 .. MaxCommands + 1
           /\ peer' \in {"talking", "silent", "gone"}
           /\ mode = "command" /\ OfThisLayer(buffered') /\ LineLayer = tls
<1>1. OfThisLayer(buffered') /\ LineLayer = tls
  BY LinesAreOfThisLayer DEF ReadCommand
<1> QED BY <1>1, SmtpSessionAssumption DEF SessionInv, TypeOK, ReadCommand

\* MAIL FROM begins a transaction with no recipient, or changes nothing.
LEMMA MailFromKeeps ==
    ASSUME SessionInv, MailFrom
    PROVE  SessionInv'
<1>1. ReadCommand
  BY DEF MailFrom
<1>2. CASE UNCHANGED transactionVars
  BY <1>1, <1>2, CommandKeeps DEF MailFrom, SessionInv, TypeOK, ReadCommand
<1>3. CASE /\ greeted
           /\ mails' = (mails + 1) % Tags
           /\ mail_from' = <<[mail |-> mails', tls |-> LineLayer]>>
           /\ rcpt_to' = <<>>
           /\ UNCHANGED greeted
  <2>0. LineLayer = tls /\ OfThisLayer(buffered')
    BY <1>1, CountsInRange
  <2>1. mails' \in 0 .. Tags - 1
    BY <1>3, SmtpSessionAssumption DEF SessionInv, TypeOK
  <2>2. [mail |-> mails', tls |-> tls] \in Origins
    BY <2>1 DEF Origins, SessionInv, TypeOK
  <2>3. TypeOK'
    BY <1>1, <1>3, <2>0, <2>1, <2>2, CountsInRange, SmtpSessionAssumption
    DEF SessionInv, TypeOK, MailFrom, OfThisLayer
  <2>4. EnvelopeIsOneTransaction'
    BY <1>1, <1>3 DEF EnvelopeIsOneTransaction, MailFrom, ReadCommand
  <2>5. NothingCrossesStartTls'
    BY <1>1, <1>3, <2>0 DEF NothingCrossesStartTls, MailFrom, ReadCommand, OfThisLayer
  <2> QED BY <2>3, <2>4, <2>5 DEF SessionInv
<1> QED BY <1>2, <1>3 DEF MailFrom

\* RCPT TO adds a recipient of the transaction in effect, or changes nothing.
LEMMA RcptToKeeps ==
    ASSUME SessionInv, RcptTo
    PROVE  SessionInv'
<1>1. ReadCommand
  BY DEF RcptTo
<1>2. CASE mail_from = <<>> \/ Len(rcpt_to) >= MaxRecipients
  BY <1>1, <1>2, CommandKeeps DEF RcptTo, transactionVars, SessionInv, TypeOK, ReadCommand
<1>3. CASE ~(mail_from = <<>> \/ Len(rcpt_to) >= MaxRecipients)
  <2>0. LineLayer = tls /\ OfThisLayer(buffered')
    BY <1>1, CountsInRange
  <2> DEFINE o == [mail |-> mails, tls |-> tls]
  <2>1. o \in Origins /\ rcpt_to \in Seq(Origins)
    BY DEF Origins, SessionInv, TypeOK
  <2>2. rcpt_to' = Append(rcpt_to, o)
    BY <1>3, <2>0 DEF RcptTo
  <2>3. mail_from = <<o>>
    BY <1>3 DEF SessionInv, TypeOK, NothingCrossesStartTls
  <2> HIDE DEF o
  <2>4. /\ rcpt_to' \in Seq(Origins)
        /\ Len(rcpt_to') = Len(rcpt_to) + 1
        /\ \A i \in 1 .. Len(rcpt_to) : rcpt_to'[i] = rcpt_to[i]
        /\ rcpt_to'[Len(rcpt_to) + 1] = o
    BY <2>1, <2>2
  <2>5. TypeOK'
    BY <1>1, <1>3, <2>0, <2>4, CountsInRange, SmtpSessionAssumption
    DEF SessionInv, TypeOK, RcptTo, OfThisLayer
  <2>6. EnvelopeIsOneTransaction'
    <3>1. ASSUME NEW i \in 1 .. Len(rcpt_to')
          PROVE  mail_from' = <<rcpt_to'[i]>>
      <4>0. Len(rcpt_to) \in Nat
        BY <2>1
      <4>1. CASE i \in 1 .. Len(rcpt_to)
        BY <4>1, <2>4 DEF SessionInv, EnvelopeIsOneTransaction, RcptTo
      <4>2. CASE i = Len(rcpt_to) + 1
        BY <4>2, <2>3, <2>4 DEF RcptTo
      <4> QED BY <4>0, <4>1, <4>2, <2>4
    <3>2. mode' \notin {"data", "deliver"}
      BY <1>1 DEF RcptTo, ReadCommand
    <3> QED BY <3>1, <3>2 DEF EnvelopeIsOneTransaction
  <2>7. NothingCrossesStartTls'
    BY <1>1, <2>0 DEF SessionInv, NothingCrossesStartTls, RcptTo, ReadCommand, OfThisLayer
  <2> QED BY <2>5, <2>6, <2>7 DEF SessionInv
<1> QED BY <1>2, <1>3

\* Every step keeps the invariant: one case per command.
LEMMA NextSession == SessionInv /\ [Next]_vars => SessionInv'
<1> SUFFICES ASSUME SessionInv, [Next]_vars PROVE SessionInv'
  OBVIOUS
<1> USE SmtpSessionAssumption DEF AfterData
<1>0. OfThisLayer(buffered) /\ OfThisLayer(<<>>) /\ (ReadLine => OfThisLayer(buffered'))
  BY LinesAreOfThisLayer
<1>1. CASE Ehlo
  BY <1>1, ResetKeeps, CountsInRange DEF Ehlo, SessionInv, TypeOK, Modes, Reading
<1>2. CASE StartTls
  BY <1>2, CommandKeeps DEF StartTls, ReadCommand, Modes, Reading
<1>3. CASE MailFrom
  BY <1>3, MailFromKeeps
<1>4. CASE RcptTo
  BY <1>4, RcptToKeeps
<1>5. CASE Data
  BY <1>5, CommandKeeps DEF Data, ReadCommand, Modes, Reading
<1>6. CASE Quit
  BY <1>6, CommandKeeps DEF Quit, Modes
<1>7. CASE Rset
  BY <1>7, ResetKeeps, CountsInRange DEF Rset, SessionInv, TypeOK, Modes, Reading
<1>8. CASE Answered
  BY <1>8, CommandKeeps DEF Answered, ReadCommand, Modes, Reading
<1>9. CASE Auth
  BY <1>9, CommandKeeps DEF Auth, Modes, Reading
<1>10. CASE TooManyCommands
  BY <1>0, <1>10, OtherKeeps DEF TooManyCommands, SessionInv, TypeOK, Modes
<1>11. CASE Upgrade
  BY <1>11, ResetKeeps DEF Upgrade, SessionInv, TypeOK, Modes, Reading
<1>12. CASE AuthLine
  BY <1>0, <1>12, OtherKeeps DEF AuthLine, SessionInv, TypeOK, Modes, Reading
<1>13. ASSUME NEW outcome \in DataOutcomes, DataEnds(outcome)
       PROVE  SessionInv'
  <2>1. CASE outcome = "none"
    BY <1>13, <2>1, ResetKeeps DEF DataEnds, SessionInv, TypeOK, Modes, Reading
  <2>2. CASE outcome # "none"
    <3>1. \A b \in AfterReads : OfThisLayer(b)
      BY FillsAreOfThisLayer, RestIsOfThisLayer DEF AfterReads
    <3>2. OfThisLayer(buffered')
      BY <1>0, <1>13, <2>2, <3>1 DEF DataEnds, DataOutcomes
    <3> QED
    BY <1>13, <2>2, <3>2, OtherKeeps
    DEF DataEnds, DataOutcomes, SessionInv, TypeOK, EnvelopeIsOneTransaction, Modes,
        Reading, transactionVars
  <2> QED BY <2>1, <2>2
<1>14. ASSUME NEW took \in BOOLEAN, Delivered(took)
       PROVE  SessionInv'
  <2>0. unproductive' \in 0 .. MaxCommands + 1
    BY <1>14 DEF Delivered, SessionInv, TypeOK
  <2>1. CASE mode' = "command" /\ ResetTransaction /\ command_count' = 0
    BY <1>0, <1>14, <2>0, <2>1, ResetKeeps DEF Delivered, SessionInv, TypeOK, Modes, Reading
  <2>2. CASE mode' = "closed" /\ UNCHANGED <<mail_from, rcpt_to, command_count>>
    BY <1>0, <1>14, <2>0, <2>2, OtherKeeps
    DEF Delivered, SessionInv, TypeOK, Modes, transactionVars
  <2> QED BY <1>14, <2>1, <2>2 DEF Delivered
<1>15. CASE BreakOff
  BY <1>0, <1>15, OtherKeeps DEF BreakOff, SessionInv, TypeOK, Modes
<1>16. CASE Falls
  BY <1>0, <1>16, OtherKeeps
  DEF Falls, SessionInv, TypeOK, EnvelopeIsOneTransaction, NothingCrossesStartTls
<1>17. CASE Closed \/ UNCHANGED vars
  BY <1>0, <1>17, OtherKeeps
  DEF Closed, vars, SessionInv, TypeOK, EnvelopeIsOneTransaction, NothingCrossesStartTls,
      transactionVars
<1> QED
  BY <1>1, <1>2, <1>3, <1>4, <1>5, <1>6, <1>7, <1>8, <1>9, <1>10, <1>11, <1>12,
     <1>13, <1>14, <1>15, <1>16, <1>17
  DEF Next, SessionStep, Command

\* The invariant holds in every reachable state of Session::handle.
THEOREM SessionInvariant == Spec => []SessionInv
BY InitSession, NextSession, PTL DEF Spec

\* The session's state keeps its types, and recipients and commands stay
\* within MAX_RECIPIENTS and MAX_COMMANDS_PER_TRANSACTION.
THEOREM SessionTypes == Spec => []TypeOK
BY SessionInvariant, PTL DEF SessionInv

\* Whatever a client sends, a message is handed over with the recipients of
\* its own MAIL command and no others.
THEOREM EnvelopesDoNotMix == Spec => []EnvelopeIsOneTransaction
BY SessionInvariant, PTL DEF SessionInv

\* Whatever was said before STARTTLS plays no part in a transaction after it.
THEOREM StartTlsForgets == Spec => []NothingCrossesStartTls
BY SessionInvariant, PTL DEF SessionInv

----------------------------------------------------------------------------
(* Finite sets.                                                            *)

\* An instance's copies of the operators on finite sets are the operators.
LEMMA SameFiniteSets ==
    ASSUME NEW D
    PROVE  /\ V!IsFiniteSet(D) <=> IsFiniteSet(D)
           /\ S!IsFiniteSet(D) <=> IsFiniteSet(D)
           /\ V!Cardinality(D) = Cardinality(D)
           /\ S!Cardinality(D) = Cardinality(D)
           /\ A!Cardinality(D) = Cardinality(D)
           /\ B!Cardinality(D) = Cardinality(D)
<1>1. (V!IsFiniteSet(D) <=> IsFiniteSet(D)) /\ (S!IsFiniteSet(D) <=> IsFiniteSet(D))
  BY DEF V!IsFiniteSet, S!IsFiniteSet, IsFiniteSet
<1>2. V!Cardinality(D) = Cardinality(D) /\ S!Cardinality(D) = Cardinality(D)
  BY DEF V!Cardinality, S!Cardinality, Cardinality
<1>3. A!Cardinality(D) = Cardinality(D) /\ B!Cardinality(D) = Cardinality(D)
  BY DEF A!Cardinality, B!Cardinality, Cardinality
<1> QED
  BY <1>1, <1>2, <1>3

\* A finite set that grows by an element counts one more.
LEMMA GrowsByOne ==
    ASSUME NEW F, IsFiniteSet(F), NEW e, e \notin F, NEW G, G = F \cup {e}
    PROVE  Cardinality(G) = Cardinality(F) + 1
BY FS_AddElement

----------------------------------------------------------------------------
(* The life of a process: Serve.                                           *)

\* What the constants of Serve are.
LEMMA ServeConstants ==
    /\ IsFiniteSet(Peers) /\ Sessions \in Nat /\ HookSlots \in Nat /\ HookSlots > 0
    /\ Batches \in Nat /\ HookMails \in Nat
    /\ BackoffInitial \in Nat /\ BackoffMax \in Nat /\ BackoffInitial <= BackoffMax
    /\ BackoffInitial > 0
<1>1. V!ServeAssumption
  BY TasksAssumption, Zenon
<1>2. IsFiniteSet(Peers)
  BY <1>1, SameFiniteSets DEF V!ServeAssumption
<1> QED
  BY <1>1, <1>2 DEF V!ServeAssumption

\* The webhook tasks are finitely many.
LEMMA HooksFinite == IsFiniteSet(1 .. HookMails)
BY ServeConstants, FS_Interval

\* What the two accounts say.
LEMMA ServeCounts ==
    /\ V!SlotsAccountedFor <=> permits + Cardinality(V!InSession) = Sessions
    /\ V!HooksLimited <=> Cardinality(V!Posting) <= HookSlots
BY SameFiniteSets DEF V!SlotsAccountedFor, V!HooksLimited

\* The accept loop's semaphore and the webhooks' neither leak nor are overdrawn.
ServeInv == V!TypeOK /\ V!SlotsAccountedFor /\ V!HooksLimited

\* All slots are free at first.
LEMMA InitServe == V!Init => ServeInv
<1> SUFFICES ASSUME V!Init PROVE ServeInv
  OBVIOUS
<1>1. V!TypeOK
  <2>1. /\ phase \in V!Phases /\ exit = "none" /\ (exit = "none") = V!Alive
        /\ signalled \in BOOLEAN /\ stop \in BOOLEAN /\ asleep \in BOOLEAN
    BY DEF V!Init, V!Phases, V!Alive
  <2>2. /\ caller \in [Peers -> {"away", "waiting", "session", "refused"}]
        /\ hooks \in [1 .. HookMails -> {"none", "waiting", "posting", "done"}]
    BY DEF V!Init
  <2>3. /\ batches \in 0 .. Batches /\ permits \in Nat
        /\ backoff \in BackoffInitial .. BackoffMax /\ mail \in 0 .. HookMails
    BY ServeConstants DEF V!Init
  <2> QED
    BY <2>1, <2>2, <2>3 DEF V!TypeOK
<1>2. V!InSession = {} /\ V!Posting = {}
  BY DEF V!Init, V!InSession, V!Posting
<1>3. Cardinality(V!InSession) = 0 /\ Cardinality(V!Posting) = 0
  BY <1>2, FS_EmptySet
<1> QED
  BY <1>1, <1>3, ServeConstants, ServeCounts DEF ServeInv, V!Init

\* A step that leaves sessions and webhooks as they are.
LEMMA ServeUntouched ==
    ASSUME ServeInv, V!TypeOK', UNCHANGED <<caller, permits, hooks>>
    PROVE  ServeInv'
<1>1. V!InSession' = V!InSession /\ V!Posting' = V!Posting
  BY DEF V!InSession, V!Posting
<1> QED
  BY <1>1 DEF ServeInv, V!SlotsAccountedFor, V!HooksLimited

\* A step that leaves the webhooks as they are and keeps the session slots.
LEMMA ServePeers ==
    ASSUME ServeInv, V!TypeOK', UNCHANGED hooks,
           permits' + Cardinality(V!InSession') = Sessions
    PROVE  ServeInv'
<1>1. V!Posting' = V!Posting
  BY DEF V!Posting
<1>2. V!SlotsAccountedFor'
  BY SameFiniteSets DEF V!SlotsAccountedFor
<1> QED
  BY <1>1, <1>2 DEF ServeInv, V!HooksLimited

\* A step that leaves the sessions as they are and keeps the webhooks limited.
LEMMA ServeHooks ==
    ASSUME ServeInv, V!TypeOK', UNCHANGED <<caller, permits>>,
           Cardinality(V!Posting') <= HookSlots
    PROVE  ServeInv'
<1>1. V!InSession' = V!InSession
  BY DEF V!InSession
<1>2. V!HooksLimited'
  BY SameFiniteSets DEF V!HooksLimited
<1> QED
  BY <1>1, <1>2 DEF ServeInv, V!SlotsAccountedFor

\* The steps of the main task move only the phase and the migration's batches.
LEMMA MainKeeps ==
    ASSUME ServeInv, V!Main \/ V!Signal \/ V!Hear \/ V!TaskEnds
    PROVE  ServeInv'
<1> USE ServeConstants DEF V!Phases, V!Alive, V!Go, V!Exit, V!startup, V!accepts, V!webhooks
<1>1. V!TypeOK
  BY DEF ServeInv
<1>2. UNCHANGED <<caller, permits, backoff, asleep, mail, hooks>>
  BY DEF V!Main, V!Configure, V!Listen, V!Prepare, V!Open, V!Spawn, V!Bind, V!StopSeen,
         V!Drained, V!Close, V!Signal, V!Hear, V!TaskEnds
<1>3. phase' \in V!Phases /\ exit' \in {"none", "ok", "error", "killed"}
      /\ (exit' = "none") = (phase' # "exited")
  BY <1>1 DEF V!TypeOK, V!Main, V!Configure, V!Listen, V!Prepare, V!Open, V!Spawn, V!Bind,
              V!StopSeen, V!Drained, V!Close, V!Signal, V!Hear, V!TaskEnds
<1>4. batches' \in 0 .. Batches
  BY <1>1 DEF V!TypeOK, V!Main, V!Configure, V!Listen, V!Prepare, V!Open, V!Spawn, V!Bind,
              V!StopSeen, V!Drained, V!Close, V!Signal, V!Hear, V!TaskEnds
<1>5. signalled' \in BOOLEAN /\ stop' \in BOOLEAN
  BY <1>1 DEF V!TypeOK, V!Main, V!Configure, V!Listen, V!Prepare, V!Open, V!Spawn, V!Bind,
              V!StopSeen, V!Drained, V!Close, V!Signal, V!Hear, V!TaskEnds
<1>6. V!TypeOK'
  BY <1>1, <1>2, <1>3, <1>4, <1>5 DEF V!TypeOK
<1> QED
  BY <1>2, <1>6, ServeUntouched

\* A connection takes the slot it is counted for, or is refused; it gives the
\* slot back when it ends, whichever of the two it was.
LEMMA PeersKeep ==
    ASSUME ServeInv, NEW p \in Peers, V!Connect(p) \/ V!Accept(p) \/ V!SessionEnds(p)
    PROVE  ServeInv'
<1> USE ServeConstants DEF V!startup, V!webhooks
<1>1. V!TypeOK /\ permits + Cardinality(V!InSession) = Sessions
  BY ServeCounts DEF ServeInv
<1> DEFINE T == {"away", "waiting", "session", "refused"}
<1>2. /\ caller \in [Peers -> T] /\ caller' \in [Peers -> T]
      /\ permits \in Nat /\ permits' \in Nat
      /\ \A q \in Peers : q # p => caller'[q] = caller[q]
  BY <1>1 DEF V!TypeOK, V!Connect, V!Accept, V!SessionEnds
<1>3. V!TypeOK'
  BY <1>1, <1>2 DEF V!TypeOK, V!Connect, V!Accept, V!SessionEnds, V!Accepting, V!Alive
<1>4. UNCHANGED hooks
  BY DEF V!Connect, V!Accept, V!SessionEnds
<1>5. /\ V!InSession = {q \in Peers : caller[q] = "session"}
      /\ V!InSession' = {q \in Peers : caller'[q] = "session"}
      /\ Cardinality(V!InSession) \in Nat /\ Cardinality(V!InSession') \in Nat
      /\ IsFiniteSet(V!InSession) /\ IsFiniteSet(V!InSession')
  <2>1. V!InSession = {q \in Peers : caller[q] = "session"}
    BY DEF V!InSession
  <2>2. V!InSession' = {q \in Peers : caller'[q] = "session"}
    BY DEF V!InSession
  <2>3. V!InSession \in SUBSET Peers /\ V!InSession' \in SUBSET Peers
    BY <2>1, <2>2
  <2>4. IsFiniteSet(V!InSession) /\ IsFiniteSet(V!InSession')
    BY <2>3, FS_Subset
  <2> QED
    BY <2>1, <2>2, <2>4, FS_CardinalityType
<1> HIDE DEF T
<1>9. /\ Cardinality(V!InSession) \in Nat /\ Cardinality(V!InSession') \in Nat
      /\ permits \in Nat /\ permits' \in Nat
      /\ permits + Cardinality(V!InSession) = Sessions
  BY <1>1, <1>2, <1>5, Zenon
<1>6. CASE (caller[p] = "session") <=> (caller'[p] = "session")
  <2>1. V!InSession' = V!InSession
    BY <1>2, <1>6 DEF V!InSession
  <2>2. permits' = permits
    BY <1>2, <1>6 DEF V!Connect, V!Accept, V!SessionEnds, T
  <2> QED
    BY <1>1, <1>3, <1>4, <2>1, <2>2, ServePeers
<1>7. CASE caller[p] # "session" /\ caller'[p] = "session"
  <2>0. V!InSession' = V!InSession \cup {p} /\ p \notin V!InSession
    <3>1. \A q \in Peers : caller'[q] = "session" <=> caller[q] = "session" \/ q = p
      BY <1>2, <1>7
    <3>2. V!InSession' = V!InSession \cup {p}
      BY <1>5, <3>1, Zenon
    <3>3. p \notin V!InSession
      BY <1>5, <1>7
    <3> QED
      BY <3>2, <3>3
  <2>1. Cardinality(V!InSession') = Cardinality(V!InSession) + 1
    BY <1>5, <2>0, GrowsByOne
  <2>2. permits' = permits - 1
    <3>1. V!Accept(p) /\ permits > 0
      BY <1>2, <1>7 DEF V!Connect, V!Accept, V!SessionEnds
    <3> QED
      BY <3>1 DEF V!Accept
  <2>3. permits' + Cardinality(V!InSession') = Sessions
    BY <1>9, <2>1, <2>2
  <2> QED
    BY <1>3, <1>4, <2>3, ServePeers
<1>8. CASE caller[p] = "session" /\ caller'[p] # "session"
  <2>0. V!InSession = V!InSession' \cup {p} /\ p \notin V!InSession'
    BY <1>2, <1>5, <1>8
  <2>1. Cardinality(V!InSession) = Cardinality(V!InSession') + 1
    BY <1>5, <2>0, GrowsByOne
  <2>2. permits' = permits + 1
    BY <1>2, <1>8 DEF V!Connect, V!Accept, V!SessionEnds, T
  <2>3. permits' + Cardinality(V!InSession') = Sessions
    BY <1>9, <2>1, <2>2
  <2> QED
    BY <1>3, <1>4, <2>3, ServePeers
<1> QED
  BY <1>6, <1>7, <1>8

\* The backoff stays between its limits.
LEMMA BackoffKeeps ==
    ASSUME ServeInv, V!AcceptFails \/ V!Wakes
    PROVE  ServeInv'
<1> USE ServeConstants DEF V!startup, V!webhooks
<1>1. V!TypeOK
  BY DEF ServeInv
<1>2. backoff' \in BackoffInitial .. BackoffMax
  BY <1>1 DEF V!TypeOK, V!AcceptFails, V!Wakes, V!NextBackoff
<1>3. V!TypeOK'
  BY <1>1, <1>2 DEF V!TypeOK, V!AcceptFails, V!Wakes, V!Alive
<1> QED
  BY <1>3, ServeUntouched DEF V!AcceptFails, V!Wakes

\* A webhook posts only with a permit, and a new one does not post.
LEMMA HooksKeep ==
    ASSUME ServeInv, V!Store \/ \E m \in 1 .. HookMails : V!HookPosts(m) \/ V!HookEnds(m)
    PROVE  ServeInv'
<1> USE ServeConstants DEF V!startup, V!accepts
<1> DEFINE T == {"none", "waiting", "posting", "done"}
<1>1. V!TypeOK /\ Cardinality(V!Posting) <= HookSlots
  BY ServeCounts DEF ServeInv
<1>2. mail \in Nat /\ mail <= HookMails /\ hooks \in [1 .. HookMails -> T]
  BY <1>1 DEF V!TypeOK
<1>3. UNCHANGED <<caller, permits>>
  BY DEF V!Store, V!HookPosts, V!HookEnds
<1>4. PICK m \in 1 .. HookMails : \E s \in T :
        /\ hooks' = [hooks EXCEPT ![m] = s]
        /\ s = "posting" => hooks[m] = "waiting" /\ Cardinality(V!Posting) < HookSlots
  BY <1>2, SameFiniteSets DEF V!Store, V!HookPosts, V!HookEnds
<1>5. PICK s \in T :
        /\ hooks' = [hooks EXCEPT ![m] = s]
        /\ s = "posting" => hooks[m] = "waiting" /\ Cardinality(V!Posting) < HookSlots
  BY <1>4
<1>6. mail' \in 0 .. HookMails
  BY <1>2 DEF V!Store, V!HookPosts, V!HookEnds
<1>7. /\ hooks' \in [1 .. HookMails -> T]
      /\ \A n \in 1 .. HookMails : n # m => hooks'[n] = hooks[n]
      /\ hooks'[m] = s
  BY <1>2, <1>5
<1>8. V!TypeOK'
  BY <1>1, <1>6, <1>7 DEF V!TypeOK, V!Store, V!HookPosts, V!HookEnds, V!Alive
<1>9. /\ V!Posting = {n \in 1 .. HookMails : hooks[n] = "posting"}
      /\ V!Posting' = {n \in 1 .. HookMails : hooks'[n] = "posting"}
      /\ Cardinality(V!Posting) \in Nat /\ Cardinality(V!Posting') \in Nat
      /\ IsFiniteSet(V!Posting)
  <2>1. V!Posting = {n \in 1 .. HookMails : hooks[n] = "posting"}
    BY DEF V!Posting
  <2>2. V!Posting' = {n \in 1 .. HookMails : hooks'[n] = "posting"}
    BY DEF V!Posting
  <2>3. V!Posting \in SUBSET (1 .. HookMails) /\ V!Posting' \in SUBSET (1 .. HookMails)
    BY <2>1, <2>2
  <2>4. IsFiniteSet(V!Posting) /\ IsFiniteSet(V!Posting')
    BY <2>3, FS_Subset, HooksFinite
  <2> QED
    BY <2>1, <2>2, <2>4, FS_CardinalityType
<1> HIDE DEF T
<1>10. CASE s = "posting"
  <2>0. V!Posting' = V!Posting \cup {m} /\ m \notin V!Posting
    BY <1>5, <1>7, <1>9, <1>10
  <2>1. Cardinality(V!Posting') = Cardinality(V!Posting) + 1
    BY <1>9, <2>0, GrowsByOne
  <2>2. Cardinality(V!Posting') <= HookSlots
    BY <1>5, <1>9, <1>10, <2>1
  <2> QED
    BY <1>3, <1>8, <2>2, ServeHooks
<1>11. CASE s # "posting"
  <2>1. V!Posting' \in SUBSET V!Posting
    BY <1>7, <1>9, <1>11
  <2>2. Cardinality(V!Posting') <= Cardinality(V!Posting)
    BY <1>9, <2>1, FS_Subset
  <2>3. Cardinality(V!Posting') <= HookSlots
    BY <1>1, <1>9, <2>2
  <2> QED
    BY <1>3, <1>8, <2>3, ServeHooks
<1> QED
  BY <1>10, <1>11

\* Every step of the process keeps its slots.
LEMMA NextServe == ServeInv /\ V!Next => ServeInv'
BY MainKeeps, PeersKeep, BackoffKeeps, HooksKeep DEF V!Next

----------------------------------------------------------------------------
(* The WebSockets: Sockets.                                                *)

\* What the constants of Sockets are.
LEMMA SocketsConstants ==
    /\ IsFiniteSet(Clients) /\ Slots \in Nat
    /\ PingInterval \in Nat /\ SendTimeout \in Nat /\ IdleTimeout \in Nat
    /\ PingInterval > 0 /\ PingInterval < IdleTimeout
    /\ Buffer \in Nat /\ Rate \in Nat
    /\ PeerKinds \subseteq {"prompt", "slow", "mute"}
<1>1. S!SocketsAssumption
  BY TasksAssumption, Zenon
<1>2. IsFiniteSet(Clients)
  BY <1>1, SameFiniteSets DEF S!SocketsAssumption
<1> QED
  BY <1>1, <1>2 DEF S!SocketsAssumption

\* The WebSockets' semaphore neither leaks nor is overdrawn.
SocketsInv == S!TypeOK /\ S!SlotsAccountedFor

\* All slots are free at first.
LEMMA InitSockets == S!Init => SocketsInv
<1> SUFFICES ASSUME S!Init PROVE SocketsInv
  OBVIOUS
<1> USE SocketsConstants DEF S!Init
<1>1. S!TypeOK
  <2>1. /\ conn \in [Clients -> {"none", "upgrading", "open", "sending"}]
        /\ sending \in [Clients -> {"ping", "event", "close"}]
        /\ inbox \in [Clients -> {"empty", "frame", "bye"}]
        /\ why \in [Clients -> {"none", "lagged", "idle"}]
    OBVIOUS
  <2>2. kind \in [Clients -> {"prompt", "slow", "mute"}]
    OBVIOUS
  <2>3. /\ left \in [Clients -> 0 .. SendTimeout]
        /\ ping \in [Clients -> 0 .. PingInterval]
        /\ idle \in [Clients -> 0 .. IdleTimeout]
        /\ rx \in [Clients -> 0 .. Buffer + 1]
    OBVIOUS
  <2>4. slots \in Nat /\ work \in 0 .. Rate
    OBVIOUS
  <2> QED
    BY <2>1, <2>2, <2>3, <2>4 DEF S!TypeOK
<1>2. S!Held = {}
  BY DEF S!Held
<1>3. Cardinality(S!Held) = 0
  BY <1>2, FS_EmptySet
<1>4. S!SlotsAccountedFor
  BY <1>3, SameFiniteSets DEF S!SlotsAccountedFor
<1> QED
  BY <1>1, <1>4 DEF SocketsInv

\* A step during which every connection keeps its slot.
LEMMA HeldStays ==
    ASSUME SocketsInv, S!TypeOK', UNCHANGED slots,
           \A c \in Clients : (conn'[c] = "none") <=> (conn[c] = "none")
    PROVE  SocketsInv'
<1>1. S!Held' = S!Held
  BY DEF S!Held
<1> QED
  BY <1>1 DEF SocketsInv, S!SlotsAccountedFor

\* What the count of the slots that are held says before and after a step.
LEMMA HeldCounts ==
    ASSUME SocketsInv, S!TypeOK'
    PROVE  /\ S!Held = {c \in Clients : conn[c] # "none"}
           /\ S!Held' = {c \in Clients : conn'[c] # "none"}
           /\ IsFiniteSet(S!Held) /\ IsFiniteSet(S!Held')
           /\ Cardinality(S!Held) \in Nat /\ Cardinality(S!Held') \in Nat
           /\ slots \in Nat /\ slots' \in Nat
           /\ slots + Cardinality(S!Held) = Slots
<1>1. S!Held = {c \in Clients : conn[c] # "none"}
  BY DEF S!Held
<1>2. S!Held' = {c \in Clients : conn'[c] # "none"}
  BY DEF S!Held
<1>3. S!Held \in SUBSET Clients /\ S!Held' \in SUBSET Clients
  BY <1>1, <1>2
<1>4. IsFiniteSet(S!Held) /\ IsFiniteSet(S!Held')
  BY <1>3, FS_Subset, SocketsConstants
<1>5. Cardinality(S!Held) \in Nat /\ Cardinality(S!Held') \in Nat
  BY <1>4, FS_CardinalityType
<1>6. slots \in Nat /\ slots' \in Nat
  BY DEF SocketsInv, S!TypeOK
<1>7. slots + Cardinality(S!Held) = Slots
  BY SameFiniteSets DEF SocketsInv, S!SlotsAccountedFor
<1> QED
  BY <1>1, <1>2, <1>4, <1>5, <1>6, <1>7, Zenon

\* A handshake takes one slot.
LEMMA HandshakeKeeps ==
    ASSUME SocketsInv, NEW c \in Clients, S!Handshake(c)
    PROVE  SocketsInv'
<1>1. S!TypeOK
  BY DEF SocketsInv
<1>2. PICK k \in PeerKinds : kind' = [kind EXCEPT ![c] = k]
  BY DEF S!Handshake
<1>3. /\ kind' \in [Clients -> {"prompt", "slow", "mute"}]
      /\ conn' \in [Clients -> {"none", "upgrading", "open", "sending"}]
      /\ slots' \in Nat /\ work' \in 0 .. Rate
  BY <1>1, <1>2, SocketsConstants DEF S!TypeOK, S!Handshake
<1>4. S!TypeOK'
  BY <1>1, <1>3 DEF S!TypeOK, S!Handshake
<1>5. /\ conn[c] = "none" /\ conn'[c] # "none"
      /\ \A d \in Clients : d # c => conn'[d] = conn[d]
  BY <1>1 DEF S!TypeOK, S!Handshake
<1>6. S!Held' = S!Held \cup {c} /\ c \notin S!Held
  BY <1>4, <1>5, HeldCounts, Zenon
<1>7. Cardinality(S!Held') = Cardinality(S!Held) + 1
  BY <1>4, <1>6, HeldCounts, GrowsByOne, Zenon
<1>8. slots' = slots - 1
  BY DEF S!Handshake
<1>9. slots' + Cardinality(S!Held') = Slots
  BY <1>4, <1>7, <1>8, HeldCounts
<1>10. S!SlotsAccountedFor'
  BY <1>9, SameFiniteSets DEF S!SlotsAccountedFor
<1> QED
  BY <1>4, <1>10 DEF SocketsInv

\* The end of a task gives its slot back.
LEMMA EndKeeps ==
    ASSUME SocketsInv, NEW c \in Clients, conn[c] # "none", S!End(c)
    PROVE  SocketsInv'
<1>1. S!TypeOK
  BY DEF SocketsInv
<1>3. /\ conn' \in [Clients -> {"none", "upgrading", "open", "sending"}]
      /\ sending' \in [Clients -> {"ping", "event", "close"}]
      /\ inbox' \in [Clients -> {"empty", "frame", "bye"}]
      /\ why' \in [Clients -> {"none", "lagged", "idle"}]
  BY <1>1 DEF S!TypeOK, S!End
<1>2. /\ left' \in [Clients -> 0 .. SendTimeout]
      /\ ping' \in [Clients -> 0 .. PingInterval]
      /\ idle' \in [Clients -> 0 .. IdleTimeout]
      /\ rx' \in [Clients -> 0 .. Buffer + 1]
      /\ slots' \in Nat
  BY <1>1, SocketsConstants DEF S!TypeOK, S!End
<1>4. S!TypeOK'
  BY <1>1, <1>2, <1>3 DEF S!TypeOK, S!End
<1>5. /\ conn[c] # "none" /\ conn'[c] = "none"
      /\ \A d \in Clients : d # c => conn'[d] = conn[d]
  BY <1>1 DEF S!TypeOK, S!End
<1>6. S!Held = S!Held' \cup {c} /\ c \notin S!Held'
  BY <1>4, <1>5, HeldCounts, Zenon
<1>7. Cardinality(S!Held) = Cardinality(S!Held') + 1
  BY <1>4, <1>6, HeldCounts, GrowsByOne, Zenon
<1>8. slots' = slots + 1
  BY DEF S!End
<1>9. slots' + Cardinality(S!Held') = Slots
  BY <1>4, <1>7, <1>8, HeldCounts
<1>10. S!SlotsAccountedFor'
  BY <1>9, SameFiniteSets DEF S!SlotsAccountedFor
<1> QED
  BY <1>4, <1>10 DEF SocketsInv

\* The steps of a task that goes on.
GoesOn(c) ==
    \/ S!Subscribe(c) \/ S!PingDue(c) \/ S!EventDue(c) \/ S!LaggedDue(c) \/ S!IdleDue(c)
    \/ S!FrameRead(c) \/ (S!SendDone(c) /\ sending[c] # "close")
    \/ S!GoesMute(c) \/ S!GoesAway(c)

\* A task that goes on keeps its slot.
LEMMA GoesOnKeeps ==
    ASSUME SocketsInv, NEW c \in Clients, GoesOn(c)
    PROVE  SocketsInv'
<1> USE SocketsConstants DEF S!Send, S!Closing
<1>1. S!TypeOK
  BY DEF SocketsInv
<1>2. CASE S!Subscribe(c)
  <2>1. S!TypeOK'
    BY <1>1, <1>2 DEF S!Subscribe, S!TypeOK
  <2> QED
    BY <1>1, <1>2, <2>1, HeldStays DEF S!Subscribe, S!TypeOK
<1>3. CASE S!PingDue(c)
  <2>1. S!TypeOK'
    BY <1>1, <1>3 DEF S!PingDue, S!TypeOK
  <2> QED
    BY <1>1, <1>3, <2>1, HeldStays DEF S!PingDue, S!TypeOK
<1>4. CASE S!EventDue(c)
  <2>1. S!TypeOK'
    BY <1>1, <1>4 DEF S!EventDue, S!TypeOK
  <2> QED
    BY <1>1, <1>4, <2>1, HeldStays DEF S!EventDue, S!TypeOK
<1>5. CASE S!LaggedDue(c)
  <2>1. S!TypeOK'
    BY <1>1, <1>5 DEF S!LaggedDue, S!TypeOK
  <2> QED
    BY <1>1, <1>5, <2>1, HeldStays DEF S!LaggedDue, S!TypeOK
<1>6. CASE S!IdleDue(c)
  <2>1. S!TypeOK'
    BY <1>1, <1>6 DEF S!IdleDue, S!TypeOK
  <2> QED
    BY <1>1, <1>6, <2>1, HeldStays DEF S!IdleDue, S!TypeOK
<1>7. CASE S!FrameRead(c)
  <2>1. S!TypeOK'
    BY <1>1, <1>7 DEF S!FrameRead, S!TypeOK
  <2> QED
    BY <1>1, <1>7, <2>1, HeldStays DEF S!FrameRead, S!TypeOK
<1>8. CASE S!SendDone(c) /\ sending[c] # "close"
  <2>1. S!TypeOK'
    BY <1>1, <1>8 DEF S!SendDone, S!TypeOK
  <2> QED
    BY <1>1, <1>8, <2>1, HeldStays DEF S!SendDone, S!TypeOK
<1>9. CASE S!GoesMute(c) \/ S!GoesAway(c)
  <2>1. S!TypeOK'
    BY <1>1, <1>9 DEF S!GoesMute, S!GoesAway, S!TypeOK
  <2> QED
    BY <1>1, <1>9, <2>1, HeldStays DEF S!GoesMute, S!GoesAway, S!TypeOK
<1> QED
  BY <1>2, <1>3, <1>4, <1>5, <1>6, <1>7, <1>8, <1>9 DEF GoesOn

\* An event reaches receivers or makes them lag; no slot moves.
LEMMA BroadcastKeeps ==
    ASSUME SocketsInv, S!Broadcast
    PROVE  SocketsInv'
<1>1. S!TypeOK
  BY DEF SocketsInv
<1>2. \A c \in Clients : rx[c] \in 0 .. Buffer + 1
  BY <1>1 DEF S!TypeOK
<1>3. rx' \in [Clients -> 0 .. Buffer + 1]
  <2>1. \A c \in Clients :
          (IF conn[c] \in {"open", "sending"} /\ rx[c] <= Buffer THEN rx[c] + 1 ELSE rx[c])
            \in 0 .. Buffer + 1
    BY <1>2, SocketsConstants
  <2> QED
    BY <2>1 DEF S!Broadcast
<1>4. S!TypeOK'
  BY <1>1, <1>3, SocketsConstants DEF S!TypeOK, S!Broadcast
<1> QED
  BY <1>1, <1>4, HeldStays DEF S!Broadcast

\* A tick counts every timer down to zero.
LEMMA LessTyped ==
    ASSUME NEW n \in Nat, NEW t \in [Clients -> 0 .. n]
    PROVE  S!Less(t) \in [Clients -> 0 .. n]
<1>1. \A c \in Clients : (IF t[c] > 0 THEN t[c] - 1 ELSE 0) \in 0 .. n
  <2> SUFFICES ASSUME NEW c \in Clients
               PROVE  (IF t[c] > 0 THEN t[c] - 1 ELSE 0) \in 0 .. n
    OBVIOUS
  <2>1. t[c] \in 0 .. n
    OBVIOUS
  <2> QED
    BY <2>1
<1> QED
  BY <1>1 DEF S!Less

\* Time moves no slot.
LEMMA TickKeeps ==
    ASSUME SocketsInv, S!Tick
    PROVE  SocketsInv'
<1>1. S!TypeOK
  BY DEF SocketsInv
<1>2. /\ ping' \in [Clients -> 0 .. PingInterval]
      /\ idle' \in [Clients -> 0 .. IdleTimeout]
      /\ left' \in [Clients -> 0 .. SendTimeout]
  BY <1>1, SocketsConstants, LessTyped DEF S!TypeOK, S!Tick
<1>3. work' \in 0 .. Rate
  BY SocketsConstants DEF S!Tick
<1>4. S!TypeOK'
  BY <1>1, <1>2, <1>3 DEF S!TypeOK, S!Tick
<1> QED
  BY <1>1, <1>4, HeldStays DEF S!Tick

\* Every step is a handshake, the end of a task, a step of a task that goes on,
\* a broadcast or a tick.
LEMMA SocketsSteps ==
    ASSUME S!Next
    PROVE  \/ \E c \in Clients : \/ S!Handshake(c) \/ GoesOn(c)
                                 \/ conn[c] # "none" /\ S!End(c)
           \/ S!Broadcast
           \/ S!Tick
<1>1. CASE S!Broadcast \/ S!Tick
  BY <1>1
<1>2. ASSUME NEW c \in Clients,
             S!Handshake(c) \/ S!Serve(c) \/ S!GoesMute(c) \/ S!GoesAway(c)
      PROVE  S!Handshake(c) \/ GoesOn(c) \/ (conn[c] # "none" /\ S!End(c))
  <2>1. ASSUME S!SendDone(c) /\ sending[c] = "close"
        PROVE  conn[c] # "none" /\ S!End(c)
    BY <2>1 DEF S!SendDone
  <2>2. ASSUME S!UpgradeFails(c) \/ S!PeerClosed(c) \/ S!SendFails(c)
        PROVE  conn[c] # "none" /\ S!End(c)
    BY <2>2 DEF S!UpgradeFails, S!PeerClosed, S!SendFails
  <2> QED
    BY <1>2, <2>1, <2>2 DEF S!Serve, GoesOn
<1> QED
  BY <1>1, <1>2 DEF S!Next

\* Every step of the WebSockets keeps their slots.
LEMMA NextSockets == SocketsInv /\ S!Next => SocketsInv'
BY SocketsSteps, HandshakeKeeps, GoesOnKeeps, EndKeeps, BroadcastKeeps, TickKeeps

\* What the peer of a connection has to do with its timers.  A peer that
\* answers keeps the idle deadline ahead of the next ping, except while the
\* ping is being sent or its answer waits to be read.
Answers(c) ==
    /\ kind[c] \in {"prompt", "mute"}
    /\ conn[c] \in {"none", "upgrading"} => ping[c] = 0
    /\ why[c] # "none" => conn[c] = "sending" /\ sending[c] = "close"
    /\ why[c] = "idle" => kind[c] = "mute"
    /\ (conn[c] \in {"open", "sending"} /\ why[c] = "none" /\ kind[c] = "prompt") =>
         /\ idle[c] > 0
         /\ \/ ping[c] < idle[c]
            \/ conn[c] = "sending" /\ sending[c] = "ping"
            \/ inbox[c] # "empty"

AnswersInv == S!TypeOK /\ \A c \in Clients : Answers(c)

\* It holds at first.
LEMMA InitAnswers ==
    ASSUME "slow" \notin PeerKinds
    PROVE  S!Init => AnswersInv
<1> SUFFICES ASSUME S!Init PROVE AnswersInv
  OBVIOUS
<1>1. S!TypeOK
  BY InitSockets DEF SocketsInv
<1>2. ASSUME NEW c \in Clients PROVE Answers(c)
  BY SocketsConstants DEF S!Init, Answers
<1> QED
  BY <1>1, <1>2 DEF AnswersInv

\* What belongs to a connection that a step leaves alone stays as it was.
LEMMA AnswersStays ==
    ASSUME NEW c, Answers(c),
           UNCHANGED <<conn[c], sending[c], ping[c], idle[c], inbox[c], kind[c], why[c]>>
    PROVE  Answers(c)'
BY DEF Answers

\* A step of one connection's task leaves the others alone.
LEMMA OthersAnswer ==
    ASSUME AnswersInv, NEW c \in Clients, NEW d \in Clients, d # c,
           S!Handshake(c) \/ S!End(c) \/ GoesOn(c)
    PROVE  Answers(d)'
<1>1. S!TypeOK /\ Answers(d)
  BY DEF AnswersInv
<1>2. UNCHANGED <<conn[d], sending[d], ping[d], idle[d], inbox[d], kind[d], why[d]>>
  <2>1. CASE S!Handshake(c)
    BY <1>1, <2>1 DEF S!TypeOK, S!Handshake
  <2>2. CASE S!End(c)
    BY <1>1, <2>2 DEF S!TypeOK, S!End
  <2>3. CASE GoesOn(c)
    BY <1>1, <2>3 DEF GoesOn, S!TypeOK, S!Subscribe, S!PingDue, S!EventDue, S!LaggedDue,
         S!IdleDue, S!FrameRead, S!SendDone, S!GoesMute, S!GoesAway, S!Send, S!Closing
  <2> QED
    BY <2>1, <2>2, <2>3
<1> QED
  BY <1>1, <1>2, AnswersStays

\* A handshake and the end of a task leave a connection without timers.
LEMMA EdgesAnswer ==
    ASSUME "slow" \notin PeerKinds, AnswersInv, NEW c \in Clients,
           S!Handshake(c) \/ (conn[c] # "none" /\ S!End(c))
    PROVE  Answers(c)'
<1>1. S!TypeOK /\ Answers(c)
  BY DEF AnswersInv
<1>2. CASE S!Handshake(c)
  BY <1>1, <1>2, SocketsConstants DEF S!TypeOK, S!Handshake, Answers
<1>3. CASE S!End(c)
  BY <1>1, <1>3 DEF S!TypeOK, S!End, Answers
<1> QED
  BY <1>2, <1>3

\* A task arms its deadline a whole timeout ahead, sends its pings before the
\* deadline and reads the answers before it; only a peer that does not answer
\* lets the deadline pass.
LEMMA GoesOnAnswers ==
    ASSUME AnswersInv, NEW c \in Clients, GoesOn(c)
    PROVE  Answers(c)'
<1> USE SocketsConstants DEF S!Send, S!Closing
<1>1. S!TypeOK /\ Answers(c)
  BY DEF AnswersInv
<1>2. /\ ping[c] \in 0 .. PingInterval /\ idle[c] \in 0 .. IdleTimeout
      /\ c \in DOMAIN conn /\ c \in DOMAIN sending /\ c \in DOMAIN left /\ c \in DOMAIN ping
      /\ c \in DOMAIN idle /\ c \in DOMAIN rx /\ c \in DOMAIN inbox /\ c \in DOMAIN kind
      /\ c \in DOMAIN why
  BY <1>1 DEF S!TypeOK
<1>3. CASE S!Subscribe(c)
  BY <1>1, <1>2, <1>3 DEF S!Subscribe, Answers
<1>4. CASE S!PingDue(c)
  BY <1>1, <1>2, <1>4 DEF S!PingDue, Answers
<1>5. CASE S!EventDue(c)
  BY <1>1, <1>2, <1>5 DEF S!EventDue, Answers
<1>6. CASE S!LaggedDue(c)
  BY <1>1, <1>2, <1>6 DEF S!LaggedDue, Answers
<1>7. CASE S!IdleDue(c)
  BY <1>1, <1>2, <1>7 DEF S!IdleDue, Answers
<1>8. CASE S!FrameRead(c)
  BY <1>1, <1>2, <1>8 DEF S!FrameRead, Answers
<1>9. CASE S!SendDone(c) /\ sending[c] # "close"
  BY <1>1, <1>2, <1>9 DEF S!SendDone, Answers
<1>10. CASE S!GoesMute(c)
  BY <1>1, <1>2, <1>10 DEF S!GoesMute, Answers
<1>11. CASE S!GoesAway(c)
  BY <1>1, <1>2, <1>11 DEF S!GoesAway, Answers
<1> QED
  BY <1>3, <1>4, <1>5, <1>6, <1>7, <1>8, <1>9, <1>10, <1>11 DEF GoesOn

\* Time passes only while no task has anything to do, so never between a ping
\* and the reading of a prompt answer: the deadline stays ahead of the ping.
LEMMA TickAnswers ==
    ASSUME AnswersInv, S!Tick, NEW c \in Clients
    PROVE  Answers(c)'
<1>1. S!TypeOK /\ Answers(c)
  BY DEF AnswersInv
<1>2. /\ ping[c] \in 0 .. PingInterval /\ idle[c] \in 0 .. IdleTimeout
      /\ inbox[c] \in {"empty", "frame", "bye"}
  BY <1>1 DEF S!TypeOK
<1>3. /\ ping'[c] = IF ping[c] > 0 THEN ping[c] - 1 ELSE 0
      /\ idle'[c] = IF idle[c] > 0 THEN idle[c] - 1 ELSE 0
      /\ UNCHANGED <<conn[c], sending[c], inbox[c], kind[c], why[c]>>
  BY DEF S!Tick, S!Less
<1>4. /\ conn[c] = "open" => ping[c] > 0 /\ idle[c] > 0 /\ inbox[c] = "empty"
      /\ ~(conn[c] = "sending" /\ kind[c] = "prompt")
  <2>1. ~S!Ready(c)
    BY DEF S!Tick
  <2> QED
    BY <1>2, <2>1, SocketsConstants DEF S!Ready
<1>5. conn[c] \in {"none", "upgrading"} => ping'[c] = 0
  BY <1>1, <1>3 DEF Answers
<1>6. ASSUME conn[c] = "open", why[c] = "none", kind[c] = "prompt"
      PROVE  idle'[c] > 0 /\ ping'[c] < idle'[c]
  <2>1. ping[c] < idle[c] /\ ping[c] > 0 /\ idle[c] > 0
    BY <1>1, <1>4, <1>6 DEF Answers
  <2> QED
    BY <1>2, <1>3, <2>1, SocketsConstants
<1> QED
  BY <1>1, <1>3, <1>4, <1>5, <1>6 DEF Answers

\* Every step of the WebSockets keeps the deadline ahead for who answers.
LEMMA NextAnswers ==
    ASSUME "slow" \notin PeerKinds, SocketsInv, AnswersInv, S!Next
    PROVE  AnswersInv'
<1>1. S!TypeOK'
  BY NextSockets DEF SocketsInv
<1>2. CASE S!Broadcast
  <2>1. UNCHANGED <<conn, sending, ping, idle, inbox, kind, why>>
    BY <1>2 DEF S!Broadcast
  <2>2. ASSUME NEW d \in Clients PROVE Answers(d)'
    BY <2>1, AnswersStays DEF AnswersInv
  <2> QED
    BY <1>1, <2>2 DEF AnswersInv
<1>3. CASE S!Tick
  BY <1>1, <1>3, TickAnswers DEF AnswersInv
<1>4. ASSUME NEW c \in Clients,
             S!Handshake(c) \/ GoesOn(c) \/ (conn[c] # "none" /\ S!End(c))
      PROVE  AnswersInv'
  <2>1. Answers(c)'
    BY <1>4, EdgesAnswer, GoesOnAnswers
  <2>2. ASSUME NEW d \in Clients, d # c PROVE Answers(d)'
    BY <1>4, <2>2, OthersAnswer
  <2> QED
    BY <1>1, <2>1, <2>2 DEF AnswersInv
<1> QED
  BY <1>2, <1>3, <1>4, SocketsSteps

----------------------------------------------------------------------------
(* Assert mode: AssertMode.                                                *)

\* What the constants of AssertMode are.
LEMMA AssertConstants ==
    MinCount \in Nat /\ MaxBatch \in Nat /\ MaxBatch > 0 /\ Mails \in Nat
<1>1. A!AssertAssumption
  BY TasksAssumption, Zenon
<1> QED
  BY <1>1 DEF A!AssertAssumption

\* No message is counted twice: what is stored, in the checker's hands and in
\* the queue was sent.  A verdict is given only on enough matching mail.
AssertInv ==
    /\ A!TypeOK
    /\ \A k \in {"match", "other"} : stored[k] + Len(batch) + Len(queue) <= sent
    /\ checker = "met" \/ code = "pass" => stored["match"] >= MinCount

\* It holds at first.
LEMMA InitAssert == A!Init => AssertInv
<1> SUFFICES ASSUME A!Init PROVE AssertInv
  OBVIOUS
<1> USE AssertConstants DEF A!Init
<1>1. /\ queue \in Seq(A!Kinds) /\ batch \in Seq(A!Kinds)
      /\ Len(batch) = 0 /\ Len(queue) = 0
  OBVIOUS
<1>2. \A k \in {"match", "other"} : stored[k] = 0
  OBVIOUS
<1>3. stored \in [{"match", "other"} -> 0 .. Mails] /\ sent \in 0 .. Mails
  OBVIOUS
<1>4. A!TypeOK
  <2>1. Len(batch) <= MaxBatch
    BY <1>1
  <2>2. /\ smtp \in {"starting", "listening", "ended"} /\ timeUp \in BOOLEAN
        /\ checker \in {"receive", "store", "count", "met", "gone"}
        /\ code \in {"none", "pass", "fail"}
    OBVIOUS
  <2> HIDE DEF A!Init
  <2> QED
    BY <1>1, <1>3, <2>1, <2>2, Zenon DEF A!TypeOK
<1> QED
  BY <1>1, <1>2, <1>4 DEF AssertInv

\* Without failures nothing happens that may not happen with them.
LEMMA FaultsAllow == B!Next => A!Next
<1> SUFFICES ASSUME B!Next PROVE A!Next
  OBVIOUS
<1>1. ASSUME B!StoreBatch PROVE A!StoreBatch
  <2>1. \A ok, k : B!Counted(ok, k) = A!Counted(ok, k)
    BY SameFiniteSets DEF A!Counted, B!Counted
  <2> QED
    BY <1>1, <2>1 DEF A!StoreBatch, B!StoreBatch, A!Up, B!Up
<1>2. ASSUME B!CountMatching PROVE A!CountMatching
  BY <1>2 DEF A!CountMatching, B!CountMatching, A!Up, B!Up
<1>3. ASSUME B!NextBatch PROVE A!NextBatch
  BY <1>3 DEF A!NextBatch, B!NextBatch, A!Up, B!Up
<1>4. ASSUME B!BindSmtp PROVE A!BindSmtp
  BY <1>4 DEF A!BindSmtp, B!BindSmtp, A!Up, B!Up
<1>5. ASSUME NEW k \in B!Kinds, B!Deliver(k) PROVE k \in A!Kinds /\ A!Deliver(k)
  BY <1>5 DEF A!Deliver, B!Deliver, A!Up, B!Up, A!Kinds, B!Kinds
<1>6. ASSUME B!Elapse \/ B!Exit PROVE A!Elapse \/ A!Exit
  BY <1>6 DEF A!Elapse, B!Elapse, A!Exit, B!Exit, A!Up, B!Up
<1> QED
  BY <1>1, <1>2, <1>3, <1>4, <1>5, <1>6 DEF A!Next, B!Next, A!Check, B!Check

\* A delivery joins the queue as it is sent.
LEMMA DeliverCounts ==
    ASSUME AssertInv, NEW k \in A!Kinds, A!Deliver(k)
    PROVE  AssertInv'
<1>1. A!TypeOK
  BY DEF AssertInv
<1>2. /\ queue \in Seq(A!Kinds) /\ sent \in 0 .. Mails /\ batch \in Seq(A!Kinds)
      /\ stored \in [{"match", "other"} -> 0 .. Mails]
  BY <1>1 DEF A!TypeOK
<1>3. queue' \in Seq(A!Kinds) /\ Len(queue') = Len(queue) + 1 /\ Len(queue) \in Nat
  BY <1>2 DEF A!Deliver
<1>4. sent' = sent + 1 /\ sent' \in 0 .. Mails
  BY <1>2, AssertConstants DEF A!Deliver
<1>5. A!TypeOK'
  BY <1>1, <1>3, <1>4 DEF A!TypeOK, A!Deliver
<1>6. ASSUME NEW j \in {"match", "other"}
      PROVE  stored'[j] + Len(batch') + Len(queue') <= sent'
  <2>1. stored[j] + Len(batch) + Len(queue) <= sent /\ stored[j] \in Nat /\ Len(batch) \in Nat
    BY <1>2 DEF AssertInv
  <2>2. stored' = stored /\ batch' = batch
    BY DEF A!Deliver
  <2> QED
    BY <1>2, <1>3, <1>4, <2>1, <2>2
<1> QED
  BY <1>5, <1>6 DEF AssertInv, A!Deliver

\* A batch is the front of the queue, which loses it.
LEMMA BatchCounts ==
    ASSUME AssertInv, A!NextBatch
    PROVE  AssertInv'
<1> USE AssertConstants
<1>1. A!TypeOK
  BY DEF AssertInv
<1>2. /\ queue \in Seq(A!Kinds) /\ batch \in Seq(A!Kinds)
      /\ Len(queue) \in Nat /\ Len(batch) \in Nat
  BY <1>1 DEF A!TypeOK
<1> DEFINE n == IF Len(queue) < MaxBatch THEN Len(queue) ELSE MaxBatch
<1>3. n \in 0 .. Len(queue) /\ n <= MaxBatch
  BY <1>2
<1>4. \/ n > 0 /\ batch' = SubSeq(queue, 1, n) /\ checker' = "store"
               /\ queue' = SubSeq(queue, n + 1, Len(queue))
      \/ checker' = "gone" /\ UNCHANGED <<queue, batch>>
  BY DEF A!NextBatch
<1>5. UNCHANGED <<smtp, sent, stored, timeUp, code>>
  BY DEF A!NextBatch
<1> HIDE DEF n
<1>6. CASE n > 0 /\ batch' = SubSeq(queue, 1, n) /\ checker' = "store"
             /\ queue' = SubSeq(queue, n + 1, Len(queue))
  <2>1. /\ batch' \in Seq(A!Kinds) /\ Len(batch') = n
        /\ queue' \in Seq(A!Kinds) /\ Len(queue') = Len(queue) - n
    BY <1>2, <1>3, <1>6
  <2>2. A!TypeOK'
    BY <1>1, <1>3, <1>5, <1>6, <2>1 DEF A!TypeOK
  <2>3. ASSUME NEW j \in {"match", "other"}
        PROVE  stored'[j] + Len(batch') + Len(queue') <= sent'
    <3>1. stored[j] \in Nat /\ sent \in Nat
      BY <1>1 DEF A!TypeOK
    <3>2. stored[j] + Len(batch) + Len(queue) <= sent
      BY DEF AssertInv
    <3> QED
      BY <1>2, <1>3, <1>5, <2>1, <3>1, <3>2
  <2> QED
    BY <1>5, <1>6, <2>2, <2>3 DEF AssertInv
<1>7. CASE checker' = "gone" /\ UNCHANGED <<queue, batch>>
  <2>1. A!TypeOK'
    BY <1>1, <1>5, <1>7 DEF A!TypeOK
  <2> QED
    BY <1>5, <1>7, <2>1 DEF AssertInv
<1> QED
  BY <1>4, <1>6, <1>7

\* Of a batch at most its messages are stored.
LEMMA StoreCounts ==
    ASSUME AssertInv, A!StoreBatch
    PROVE  AssertInv'
<1> USE AssertConstants
<1>1. A!TypeOK
  BY DEF AssertInv
<1>2. /\ queue \in Seq(A!Kinds) /\ batch \in Seq(A!Kinds)
      /\ Len(queue) \in Nat /\ Len(batch) \in Nat /\ sent \in 0 .. Mails
      /\ \A k \in {"match", "other"} : stored[k] \in Nat
      /\ DOMAIN batch = 1 .. Len(batch)
  BY <1>1 DEF A!TypeOK
<1>3. PICK ok \in SUBSET DOMAIN batch :
        /\ stored' = [k \in {"match", "other"} |-> A!Counted(ok, k)]
        /\ checker' = IF ok = {} THEN "receive" ELSE "count"
  BY DEF A!StoreBatch
<1>4. batch' = <<>> /\ UNCHANGED <<smtp, queue, sent, timeUp, code>> /\ code = "none"
  BY DEF A!StoreBatch, A!Up
<1>5. batch' \in Seq(A!Kinds) /\ Len(batch') = 0
  BY <1>4
<1>6. ASSUME NEW k \in {"match", "other"}
      PROVE  /\ stored'[k] \in Nat
             /\ stored'[k] <= stored[k] + Len(batch)
  <2> DEFINE H == {i \in ok : batch[i] = k}
  <2>1. H \in SUBSET (1 .. Len(batch))
    BY <1>2, <1>3
  <2>2. stored'[k] = stored[k] + Cardinality(H)
    BY <1>3, SameFiniteSets DEF A!Counted
  <2> HIDE DEF H
  <2>3. IsFiniteSet(1 .. Len(batch)) /\ Cardinality(1 .. Len(batch)) = Len(batch)
    <3>0. 1 \in Int /\ Len(batch) \in Int
      BY <1>2
    <3>1. /\ IsFiniteSet(1 .. Len(batch))
          /\ Cardinality(1 .. Len(batch)) = IF 1 > Len(batch) THEN 0 ELSE Len(batch) - 1 + 1
      BY <3>0, FS_Interval, Zenon
    <3> QED
      BY <1>2, <3>1
  <2>4. IsFiniteSet(H) /\ Cardinality(H) <= Len(batch)
    BY <2>1, <2>3, FS_Subset
  <2>5. Cardinality(H) \in Nat
    BY <2>4, FS_CardinalityType
  <2> QED
    BY <1>2, <2>2, <2>4, <2>5
<1>7. ASSUME NEW k \in {"match", "other"}
      PROVE  stored'[k] + Len(batch') + Len(queue') <= sent'
  <2>1. stored[k] + Len(batch) + Len(queue) <= sent
    BY DEF AssertInv
  <2>2. stored'[k] \in Nat /\ stored'[k] <= stored[k] + Len(batch) /\ stored[k] \in Nat
    BY <1>2, <1>6
  <2>3. queue' = queue /\ sent' = sent
    BY <1>4
  <2> QED
    BY <1>2, <1>5, <2>1, <2>2, <2>3
<1>8. stored' \in [{"match", "other"} -> 0 .. Mails]
  <2>1. \A k \in {"match", "other"} : stored'[k] \in 0 .. Mails
    <3> SUFFICES ASSUME NEW k \in {"match", "other"} PROVE stored'[k] \in 0 .. Mails
      OBVIOUS
    <3>1. stored'[k] \in Nat /\ stored'[k] + Len(batch') + Len(queue') <= sent'
      BY <1>6, <1>7
    <3> QED
      BY <1>2, <1>4, <1>5, <3>1
  <2>2. stored' = [k \in {"match", "other"} |-> A!Counted(ok, k)]
    BY <1>3
  <2> QED
    BY <2>1, <2>2
<1>9. checker' \in {"receive", "count"}
  BY <1>3
<1>10. A!TypeOK'
  BY <1>1, <1>4, <1>5, <1>8, <1>9 DEF A!TypeOK
<1> QED
  BY <1>4, <1>7, <1>9, <1>10 DEF AssertInv

\* The other steps: only a count of enough matching mail leads to a pass.
LEMMA VerdictCounts ==
    ASSUME AssertInv, A!BindSmtp \/ A!CountMatching \/ A!Elapse \/ A!Exit
    PROVE  AssertInv'
<1> USE AssertConstants
<1>1. A!TypeOK /\ stored["match"] \in Nat
  BY DEF AssertInv, A!TypeOK
<1>2. UNCHANGED <<queue, sent, batch, stored>>
  BY DEF A!BindSmtp, A!CountMatching, A!Elapse, A!Exit
<1>3. /\ smtp' \in {"starting", "listening", "ended"}
      /\ checker' \in {"receive", "store", "count", "met", "gone"}
      /\ timeUp' \in BOOLEAN /\ code' \in {"none", "pass", "fail"}
  BY <1>1 DEF A!TypeOK, A!BindSmtp, A!CountMatching, A!Elapse, A!Exit
<1>4. A!TypeOK'
  BY <1>1, <1>2, <1>3 DEF A!TypeOK
<1>5. checker' = "met" \/ code' = "pass" => stored["match"] >= MinCount
  <2>1. CASE A!CountMatching
    <3>1. checker' = "met" => stored["match"] >= MinCount
      BY <1>1, <2>1 DEF A!CountMatching
    <3>2. code' = "none"
      BY <2>1 DEF A!CountMatching, A!Up
    <3> QED
      BY <3>1, <3>2
  <2>2. CASE A!BindSmtp \/ A!Elapse \/ A!Exit
    BY <2>2 DEF AssertInv, A!BindSmtp, A!Elapse, A!Exit
  <2> QED
    BY <2>1, <2>2
<1> QED
  BY <1>2, <1>4, <1>5 DEF AssertInv

\* Every step of assert mode keeps the account of its mail.
LEMMA NextAssert == AssertInv /\ A!Next => AssertInv'
BY DeliverCounts, BatchCounts, StoreCounts, VerdictCounts DEF A!Next, A!Check

----------------------------------------------------------------------------
(* The tasks together.                                                     *)

\* Every part's invariant, whichever runs.
TasksInv == SessionInv /\ ServeInv /\ SocketsInv /\ AssertInv

\* A session that does not run keeps what it has.
LEMMA SessionRests == ASSUME SessionInv, UNCHANGED vars PROVE SessionInv'
BY NextSession

\* So do the process's slots,
LEMMA ServeRests == ASSUME ServeInv, UNCHANGED serveVars PROVE ServeInv'
<1>1. V!TypeOK'
  BY DEF ServeInv, V!TypeOK, V!Alive, serveVars
<1> QED
  BY <1>1, ServeUntouched DEF serveVars

\* the WebSockets' slots
LEMMA SocketsRest == ASSUME SocketsInv, UNCHANGED socketsVars PROVE SocketsInv'
<1>1. S!TypeOK'
  BY DEF SocketsInv, S!TypeOK, socketsVars
<1> QED
  BY <1>1, HeldStays DEF socketsVars

\* and assert mode's account.
LEMMA AssertRests == ASSUME AssertInv, UNCHANGED assertVars PROVE AssertInv'
<1>1. A!TypeOK'
  BY DEF AssertInv, A!TypeOK, assertVars
<1> QED
  BY <1>1 DEF AssertInv, assertVars

\* The invariant holds at first.
LEMMA InitTasks == TasksInit => TasksInv
BY InitSession, InitServe, InitSockets, InitAssert DEF TasksInit, TasksInv

\* Every step of a part keeps it.
LEMMA NextTasks == TasksInv /\ [TasksNext]_tasksVars => TasksInv'
<1> SUFFICES ASSUME TasksInv, [TasksNext]_tasksVars PROVE TasksInv'
  OBVIOUS
<1>1. SessionInv /\ ServeInv /\ SocketsInv /\ AssertInv
  BY DEF TasksInv
<1>2. CASE Next /\ UNCHANGED otherVars
  <2>1. SessionInv'
    BY <1>1, <1>2, NextSession
  <2> QED
    BY <1>1, <1>2, <2>1, ServeRests, SocketsRest, AssertRests DEF TasksInv, otherVars
<1>3. CASE V!Next /\ UNCHANGED <<vars, socketsVars, assertVars>>
  BY <1>1, <1>3, NextServe, SessionRests, SocketsRest, AssertRests DEF TasksInv
<1>4. CASE S!Next /\ UNCHANGED <<vars, serveVars, assertVars>>
  BY <1>1, <1>4, NextSockets, SessionRests, ServeRests, AssertRests DEF TasksInv
<1>5. CASE (A!Next \/ B!Next) /\ UNCHANGED <<vars, serveVars, socketsVars>>
  BY <1>1, <1>5, NextAssert, FaultsAllow, SessionRests, ServeRests, SocketsRest DEF TasksInv
<1>6. CASE UNCHANGED tasksVars
  <2>1. UNCHANGED vars /\ UNCHANGED serveVars /\ UNCHANGED socketsVars /\ UNCHANGED assertVars
    BY <1>6 DEF tasksVars, otherVars
  <2> QED
    BY <1>1, <2>1, SessionRests, ServeRests, SocketsRest, AssertRests DEF TasksInv
<1> QED
  BY <1>2, <1>3, <1>4, <1>5, <1>6 DEF TasksNext

\* The invariant of the tasks.
LEMMA TasksInvariant == TasksSpec => []TasksInv
BY InitTasks, NextTasks, PTL DEF TasksSpec

\* SMTP sessions, WebSockets and webhook requests: however each begins and
\* ends, the permits of their semaphores add up, for any limits and any number
\* of peers, clients and messages.
THEOREM SlotsAreAccountedFor == TasksSpec => []SlotsAccountedFor
<1>1. TasksInv => SlotsAccountedFor
  BY DEF TasksInv, SessionInv, ServeInv, SocketsInv, AssertInv, SlotsAccountedFor
<1> QED
  BY <1>1, TasksInvariant, PTL

\* Assert mode exits 0 only when at least --min-count matching messages are
\* stored, for any count, batch size and number of messages, with failures of
\* the port, the store and the count and without.
THEOREM PassIsAlwaysEarned == TasksSpec => []PassIsEarned
<1>1. TasksInv => PassIsEarned
  BY DEF TasksInv, AssertInv, PassIsEarned, A!PassIsEarned
<1> QED
  BY <1>1, TasksInvariant, PTL

\* An idle WebSocket keeps what it has while another part runs.
LEMMA AnswersRest == ASSUME AnswersInv, UNCHANGED socketsVars PROVE AnswersInv'
<1>1. S!TypeOK'
  BY DEF AnswersInv, S!TypeOK, socketsVars
<1>2. UNCHANGED <<conn, sending, ping, idle, inbox, kind, why>>
  BY DEF socketsVars
<1>3. ASSUME NEW c \in Clients PROVE Answers(c)'
  BY <1>2, AnswersStays DEF AnswersInv
<1> QED
  BY <1>1, <1>3 DEF AnswersInv

\* A WebSocket peer that takes its frames within the same tick and answers its
\* pings is never closed as idle, for any timings with a ping interval below
\* the idle timeout, any buffer and any number of clients: a peer the task
\* closes as idle has stopped answering.  (A peer that is slow to take a frame
\* can be closed although it answers: the task reads nothing while it sends.)
THEOREM IdlePeersAreSilent ==
    ASSUME "slow" \notin PeerKinds
    PROVE  TasksSpec => []IdleMeansSilent
<1>1. TasksInit => AnswersInv
  BY InitAnswers DEF TasksInit
<1>2. TasksInv /\ AnswersInv /\ [TasksNext]_tasksVars => AnswersInv'
  <2> SUFFICES ASSUME TasksInv, AnswersInv, [TasksNext]_tasksVars PROVE AnswersInv'
    OBVIOUS
  <2>1. CASE S!Next
    BY <2>1, NextAnswers DEF TasksInv
  <2>2. CASE UNCHANGED socketsVars
    BY <2>2, AnswersRest
  <2> QED
    BY <2>1, <2>2 DEF TasksNext, tasksVars, otherVars
<1>3. AnswersInv => IdleMeansSilent
  BY DEF AnswersInv, Answers, IdleMeansSilent, S!IdleMeansSilent
<1> QED
  BY <1>1, <1>2, <1>3, TasksInvariant, PTL DEF TasksSpec
==============================================================================
