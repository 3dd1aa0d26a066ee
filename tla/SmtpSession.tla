---------------------------- MODULE SmtpSession -----------------------------
(***************************************************************************)
(* One SMTP session, line by line: the command loop of Session::handle     *)
(* with its transaction state, STARTTLS, AUTH, the command cap and the     *)
(* deadlines of its awaits.                                                *)
(*                                                                         *)
(*   session.rs    handle, upgrade_to_tls, handle_auth_plain,              *)
(*                 handle_auth_login, reset_transaction, deliver           *)
(*                                                                         *)
(* How the DATA phase reads its bytes is module DataPhase: here it has one *)
(* of that module's outcomes.  What happens to a delivery is module        *)
(* Ingest: here it is stored or not.  An address is abstracted to where it *)
(* was given: the MAIL command in effect and the layer it came over.  The  *)
(* reader's buffer holds lines the peer pipelined, each with its layer.    *)
(***************************************************************************)
EXTENDS Integers, Sequences

CONSTANTS
    TlsConfigured, \* the server has a certificate
    MaxRecipients, \* MAX_RECIPIENTS (100)
    MaxCommands,   \* MAX_COMMANDS_PER_TRANSACTION (1000)
    Tags,          \* model bound: MAIL commands told apart, in turn
    MaxAhead       \* model bound: lines one read of the stream leaves in the buffer

ASSUME SmtpSessionAssumption ==
    /\ TlsConfigured \in BOOLEAN
    /\ MaxRecipients \in Nat \ {0}
    /\ MaxCommands \in Nat \ {0}
    /\ Tags \in Nat \ {0}
    /\ MaxAhead \in Nat

VARIABLES
    mode,          \* which read or wait the session is in
    peer,          \* what the next read meets: "talking", "silent" or "gone"
    greeted,       \* EHLO or HELO was said on this layer
    tls,           \* the stream is SmtpStream::Tls
    buffered,      \* the lines in the BufReader: for each, whether it came over TLS
    mail_from,     \* the sender of the transaction, as <<origin>>, or <<>>
    rcpt_to,       \* the origins of its recipients
    command_count, \* commands counted against the cap
    mails,         \* the MAIL command in effect (history)
    unproductive   \* commands since a message was last stored (history)

transactionVars == <<greeted, mail_from, rcpt_to, mails>>
vars == <<mode, peer, greeted, tls, buffered, mail_from, rcpt_to, command_count, mails,
          unproductive>>

Reading == {"command", "auth_plain", "auth_user", "auth_password"}
Modes == Reading \cup {"handshake", "data", "deliver", "closed"}
Origins == [mail : 0 .. Tags - 1, tls : BOOLEAN]
DataOutcomes == {"message", "too_large", "none", "error"}
AfterData == [message |-> "deliver", too_large |-> "command", none |-> "command",
              error |-> "closed"]

Init ==
    /\ mode = "command"
    /\ peer = "talking"
    /\ greeted = FALSE
    /\ tls = FALSE
    /\ buffered = <<>>
    /\ mail_from = <<>>
    /\ rcpt_to = <<>>
    /\ command_count = 0
    /\ mails = 0
    /\ unproductive = 0

ResetTransaction == mail_from' = <<>> /\ rcpt_to' = <<>>

\* What a read of the stream may leave in the buffer, besides the line asked for.
Fills == UNION {[1 .. n -> {tls}] : n \in 0 .. MaxAhead}

\* read_bounded_line: the next line of the buffer, or of the stream.
ReadLine ==
    \/ buffered # <<>> /\ buffered' = Tail(buffered)
    \/ buffered = <<>> /\ peer = "talking" /\ buffered' \in Fills

\* The layer that line came over.
LineLayer == IF buffered = <<>> THEN tls ELSE Head(buffered)

\* A line arrives in time and within the cap: it is a command, and it counts.
\* The history saturates one past the cap.
ReadCommand ==
    /\ mode = "command"
    /\ ReadLine
    /\ command_count < MaxCommands
    /\ command_count' = command_count + 1
    /\ unproductive' = IF unproductive <= MaxCommands THEN unproductive + 1 ELSE unproductive
    /\ UNCHANGED peer

\* One command too many: 421, and the session ends.
TooManyCommands ==
    /\ mode = "command"
    /\ ReadLine
    /\ command_count = MaxCommands
    /\ command_count' = command_count + 1
    /\ mode' = "closed"
    /\ UNCHANGED <<peer, tls, transactionVars, unproductive>>

-----------------------------------------------------------------------------
(***************************************************************************)
(* Commands.                                                               *)
(***************************************************************************)

Ehlo ==
    /\ ReadCommand
    /\ greeted' = TRUE
    /\ ResetTransaction
    /\ UNCHANGED <<mode, tls, mails>>

\* Variant: lines left in the buffer do not stand in the way.
StartTlsUnchecked ==
    /\ ReadCommand
    /\ mode' = IF TlsConfigured /\ ~tls THEN "handshake" ELSE mode
    /\ UNCHANGED <<tls, transactionVars>>

\* Not available, already active, or go ahead: but a session whose buffer still
\* holds plaintext ends.
StartTls ==
    /\ ReadCommand
    /\ mode' = IF ~TlsConfigured \/ tls THEN mode
               ELSE IF buffered' = <<>> THEN "handshake" ELSE "closed"
    /\ UNCHANGED <<tls, transactionVars>>

\* Variant: the transaction begun in the clear goes on over TLS.
UpgradeKeeping ==
    /\ mode = "handshake"
    /\ peer = "talking"
    /\ tls' = TRUE
    /\ buffered' = <<>>
    /\ mode' = "command"
    /\ UNCHANGED <<peer, transactionVars, command_count, unproductive>>

\* The handshake completes: into_inner drops the old reader with its buffer, and
\* everything said before is forgotten.
Upgrade ==
    /\ mode = "handshake"
    /\ peer = "talking"
    /\ tls' = TRUE
    /\ buffered' = <<>>
    /\ greeted' = FALSE
    /\ ResetTransaction
    /\ mode' = "command"
    /\ UNCHANGED <<peer, command_count, mails, unproductive>>

\* Variant: the recipients of an earlier transaction stay.
MailFromKeeping ==
    /\ ReadCommand
    /\ \/ UNCHANGED transactionVars
       \/ /\ greeted
          /\ mails' = (mails + 1) % Tags
          /\ mail_from' = <<[mail |-> mails', tls |-> LineLayer]>>
          /\ UNCHANGED <<greeted, rcpt_to>>
    /\ UNCHANGED <<mode, tls>>

\* Refused out of turn or for its declared SIZE, or the sender of a new
\* transaction.
MailFrom ==
    /\ ReadCommand
    /\ \/ UNCHANGED transactionVars
       \/ /\ greeted
          /\ mails' = (mails + 1) % Tags
          /\ mail_from' = <<[mail |-> mails', tls |-> LineLayer]>>
          /\ rcpt_to' = <<>>
          /\ UNCHANGED greeted
    /\ UNCHANGED <<mode, tls>>

RcptTo ==
    /\ ReadCommand
    /\ IF mail_from = <<>> \/ Len(rcpt_to) >= MaxRecipients
         THEN UNCHANGED rcpt_to
         ELSE rcpt_to' = Append(rcpt_to, [mail |-> mails, tls |-> LineLayer])
    /\ UNCHANGED <<mode, greeted, tls, mail_from, mails>>

Data ==
    /\ ReadCommand
    /\ mode' = IF mail_from = <<>> \/ rcpt_to = <<>> THEN mode ELSE "data"
    /\ UNCHANGED <<tls, transactionVars>>

Quit ==
    /\ ReadCommand
    /\ mode' = "closed"
    /\ UNCHANGED <<tls, transactionVars>>

Rset ==
    /\ ReadCommand
    /\ ResetTransaction
    /\ UNCHANGED <<mode, greeted, tls, mails>>

\* AUTH PLAIN with its credentials, an unknown mechanism, NOOP, or anything
\* else: an answer and nothing more.
Answered ==
    /\ ReadCommand
    /\ UNCHANGED <<mode, tls, transactionVars>>

\* AUTH PLAIN without credentials, and AUTH LOGIN, ask for more lines.
Auth ==
    /\ ReadCommand
    /\ mode' \in {"auth_plain", "auth_user"}
    /\ UNCHANGED <<tls, transactionVars>>

\* A line of credentials, or the end of the stream: neither counts as a
\* command, and anything is accepted.
AuthLine ==
    /\ mode \in Reading \ {"command"}
    /\ ReadLine \/ (buffered = <<>> /\ peer = "gone" /\ UNCHANGED buffered)
    /\ mode' = IF mode = "auth_user" THEN "auth_password" ELSE "command"
    /\ UNCHANGED <<peer, tls, transactionVars, command_count, unproductive>>

-----------------------------------------------------------------------------
(***************************************************************************)
(* The end of the DATA phase, and the verdict.                             *)
(***************************************************************************)

\* What is left in the buffer after lines of it, or all and more of the stream.
Rest(b) == {SubSeq(b, i, Len(b)) : i \in 2 .. Len(b) + 1}
AfterReads == Rest(buffered) \cup (IF peer = "talking" THEN Fills ELSE {})

\* A message, which a dot without its line ending completes at the end of the
\* stream; 552 and the transaction as it was; a peer that hung up; or a timeout,
\* an I/O error or a hang-up while draining, which end the session.
DataEnds(outcome) ==
    /\ mode = "data"
    /\ CASE outcome = "message" ->
              buffered' \in AfterReads \cup (IF peer = "gone" THEN {<<>>} ELSE {})
         [] outcome = "too_large" -> buffered' \in AfterReads
         [] outcome = "none" -> peer = "gone" /\ buffered' = <<>>
         [] outcome = "error" -> UNCHANGED buffered
    /\ mode' = AfterData[outcome]
    /\ IF outcome = "none" THEN ResetTransaction ELSE UNCHANGED <<mail_from, rcpt_to>>
    /\ command_count' = IF outcome = "none" THEN 0 ELSE command_count
    /\ UNCHANGED <<peer, greeted, tls, mails, unproductive>>

\* deliver answers 250 or 451; either way the transaction is over and the
\* count starts again.  The answer may not get through to a peer that left.
Delivered(stored) ==
    /\ mode = "deliver"
    /\ \/ /\ mode' = "command"
          /\ ResetTransaction
          /\ command_count' = 0
       \/ /\ peer # "talking"
          /\ mode' = "closed"
          /\ UNCHANGED <<mail_from, rcpt_to, command_count>>
    /\ unproductive' = IF stored THEN 0 ELSE unproductive
    /\ UNCHANGED <<peer, greeted, tls, buffered, mails>>

-----------------------------------------------------------------------------
(***************************************************************************)
(* The peer, and the ways a session ends that are not its choice.          *)
(***************************************************************************)

Falls ==
    /\ peer = "talking"
    /\ peer' \in {"silent", "gone"}
    /\ UNCHANGED <<mode, tls, buffered, transactionVars, command_count, unproductive>>

\* IO_TIMEOUT, the end of the stream, a line too long, or a failed read,
\* write or handshake: the session returns.
BreakOff ==
    /\ mode \in Reading \cup {"handshake"}
    /\ mode' = "closed"
    /\ UNCHANGED <<peer, tls, buffered, transactionVars, command_count, unproductive>>

Closed ==
    /\ mode = "closed"
    /\ UNCHANGED vars

-----------------------------------------------------------------------------

Command ==
    \/ Ehlo \/ StartTls \/ MailFrom \/ RcptTo \/ Data
    \/ Quit \/ Rset \/ Answered \/ Auth \/ TooManyCommands

SessionStep ==
    \/ Command
    \/ Upgrade
    \/ AuthLine
    \/ \E outcome \in DataOutcomes : DataEnds(outcome)
    \/ \E stored \in BOOLEAN : Delivered(stored)
    \/ BreakOff

Next == SessionStep \/ Falls \/ Closed

Spec == Init /\ [][Next]_vars

(***************************************************************************)
(* Fairness: every wait of a session ends, in a line, a verdict or its     *)
(* deadline.  The verdict's is module Ingest's to show.                    *)
(***************************************************************************)
FairSpec == Spec /\ WF_vars(SessionStep)

-----------------------------------------------------------------------------
(***************************************************************************)
(* Properties.                                                             *)
(***************************************************************************)

\* Every variable has its type; the recipients and the commands are capped.
TypeOK ==
    /\ mode \in Modes
    /\ peer \in {"talking", "silent", "gone"}
    /\ greeted \in BOOLEAN
    /\ tls \in BOOLEAN
    /\ buffered \in Seq(BOOLEAN)
    /\ Len(buffered) <= MaxAhead
    /\ mail_from \in {<<>>} \cup {<<o>> : o \in Origins}
    /\ rcpt_to \in Seq(Origins)
    /\ Len(rcpt_to) <= MaxRecipients
    /\ command_count \in 0 .. MaxCommands + 1
    /\ mails \in 0 .. Tags - 1
    /\ unproductive \in 0 .. MaxCommands + 1

\* A transaction never mixes two: every recipient was given after the MAIL
\* that named the sender, and a message is only read for a full envelope.
EnvelopeIsOneTransaction ==
    /\ \A i \in 1 .. Len(rcpt_to) : mail_from = <<rcpt_to[i]>>
    /\ mode \in {"data", "deliver"} => rcpt_to # <<>>

\* STARTTLS forgets what was said in the clear: the sender of a transaction,
\* the greeting before it and every line still to be read came over the layer
\* in use; and no line a client pipelined behind STARTTLS is dropped unanswered
\* by a handshake that starts on top of it.
NothingCrossesStartTls ==
    /\ mail_from # <<>> => greeted /\ mail_from[1] = [mail |-> mails, tls |-> tls]
    /\ \A i \in 1 .. Len(buffered) : buffered[i] = tls
    /\ mode = "handshake" => buffered = <<>>

\* A peer that goes silent is cut off, whatever the session waits for.
StalledPeerIsCutOff == peer = "silent" ~> mode = "closed"

\* A peer that from some moment on hands over no message is cut off: commands,
\* oversized and unfinished mail do not keep its session.  A message that was
\* handed over does, whatever the verdict on it (CapCountsUnproductive).
ChatterIsCutOff == []<>(mode = "deliver") \/ <>(mode = "closed")

\* The cap counts every command since a message was last stored: only a
\* successful DATA resets it.
CapCountsUnproductive == unproductive <= MaxCommands
=============================================================================
