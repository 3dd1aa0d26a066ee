------------------------------ MODULE MCTasks ------------------------------
(* The tasks of a server for TLC: an SMTP session (whose module this one       *)
(* extends), startup, accept loop and webhooks, the WebSockets, and assert     *)
(* mode.  They meet in the mail they handle and in nothing these modules speak *)
(* of, so all stand in an initial state and the one `part` names runs.         *)
EXTENDS SmtpSession, Sequences, FiniteSets

CONSTANTS
  Peers, Sessions, BackoffInitial, BackoffMax,      \* Serve
  HookSlots, HookMails, Batches, Ephemeral,
  Clients, Slots, Buffer, Rate,                     \* Sockets
  PingInterval, IdleTimeout, SendTimeout, PeerKinds,
  MinCount, MaxBatch, Mails                         \* AssertMode

VARIABLES
  part,                                             \* the part that runs
  phase, exit, batches, signalled, stop, caller,
  permits, backoff, asleep, mail, hooks,            \* Serve
  slots, conn, sending, left, ping, idle, rx,
  inbox, kind, work, why,                           \* Sockets
  smtp, queue, sent, checker, batch, stored, timeUp, code   \* AssertMode

serveVars ==
  <<phase, exit, batches, signalled, stop, caller, permits, backoff, asleep, mail, hooks>>
socketsVars == <<slots, conn, sending, left, ping, idle, rx, inbox, kind, work, why>>
assertVars == <<smtp, queue, sent, checker, batch, stored, timeUp, code>>
otherVars == <<serveVars, socketsVars, assertVars>>
tasksVars == <<part, vars, otherVars>>

----------------------------------------------------------------------------
V == INSTANCE Serve WITH peer <- caller, Mails <- HookMails, Faults <- TRUE
S == INSTANCE Sockets WITH permits <- slots, sent <- sending, peer <- kind,
                             Kinds <- PeerKinds

(* With failures and without.                                                  *)
A == INSTANCE AssertMode WITH Faults <- TRUE
B == INSTANCE AssertMode WITH Faults <- FALSE

ASSUME TasksAssumption ==
  V!ServeAssumption /\ S!SocketsAssumption /\ A!AssertAssumption

----------------------------------------------------------------------------

TasksInit ==
  /\ Init
  /\ part \in {"session", "serve", "sockets", "assert", "assert without faults"}
  /\ V!Init /\ (part = "serve" \/ batches = 0)
  /\ S!Init /\ (part = "sockets" \/ \A c \in Clients : kind[c] = "prompt")
  /\ A!Init

TasksNext ==
  /\ UNCHANGED part
  /\ \/ part = "session" /\ Next /\ UNCHANGED otherVars
     \/ part = "serve" /\ V!Next /\ UNCHANGED <<vars, socketsVars, assertVars>>
     \/ part = "sockets" /\ S!Next /\ UNCHANGED <<vars, serveVars, assertVars>>
     \/ part = "assert" /\ A!Next /\ UNCHANGED <<vars, serveVars, socketsVars>>
     \/ /\ part = "assert without faults"
        /\ B!Next /\ UNCHANGED <<vars, serveVars, socketsVars>>

(* The fairness of each part, while it runs.                                   *)
Fairness ==
  /\ WF_vars(part = "session" /\ SessionStep)
  /\ WF_serveVars(part = "serve" /\ V!Main)
  /\ WF_serveVars(part = "serve" /\ V!Hear)
  /\ WF_serveVars(part = "serve" /\ V!Wakes)
  /\ \A p \in Peers : SF_serveVars(part = "serve" /\ V!Accept(p))
  /\ \A m \in 1..HookMails : /\ SF_serveVars(part = "serve" /\ V!HookPosts(m))
                             /\ WF_serveVars(part = "serve" /\ V!HookEnds(m))
  /\ WF_socketsVars(part = "sockets" /\ S!Tick)
  /\ \A c \in Clients :
       /\ WF_socketsVars(part = "sockets" /\ (S!Subscribe(c) \/ S!UpgradeFails(c)))
       /\ WF_socketsVars(part = "sockets" /\ S!Serve(c))
       /\ SF_socketsVars(part = "sockets" /\ S!IdleDue(c))
       /\ SF_socketsVars(part = "sockets" /\ S!LaggedDue(c))
  /\ WF_assertVars(part = "assert" /\ A!BindSmtp)
  /\ WF_assertVars(part = "assert" /\ A!Check)
  /\ WF_assertVars(part = "assert" /\ A!Exit)
  /\ WF_assertVars(part = "assert without faults" /\ B!BindSmtp)
  /\ WF_assertVars(part = "assert without faults" /\ B!Check)
  /\ WF_assertVars(part = "assert without faults" /\ B!Exit)

TasksSpec == TasksInit /\ [][TasksNext]_tasksVars /\ Fairness

----------------------------------------------------------------------------

(* Every SMTP session, WebSocket and webhook request holds one slot of its     *)
(* semaphore and gives it back however it ends, so none has more than its      *)
(* limit and none shrinks.                                                     *)
SlotsAccountedFor ==
  /\ TypeOK /\ V!TypeOK /\ S!TypeOK /\ A!TypeOK
  /\ V!SlotsAccountedFor /\ S!SlotsAccountedFor /\ V!HooksLimited

(* Only a peer that stopped answering is closed as idle.                       *)
IdleMeansSilent == S!IdleMeansSilent

(* Assert mode passes only on enough matching mail.                            *)
PassIsEarned == A!PassIsEarned

(* No peer keeps a session or a slot for nothing: one that goes silent, one    *)
(* that goes on with commands, oversized or unfinished mail and hands over no  *)
(* further message, a WebSocket that stopped answering and one that lost an    *)
(* event are all cut off.  (A session whose every message is refused with 451  *)
(* lives on: the count starts again whatever the verdict.)                     *)
DeadPeersAreCutOff ==
  /\ StalledPeerIsCutOff
  /\ (part = "session") => ChatterIsCutOff
  /\ S!SilentPeerLosesItsSlot
  /\ S!LaggedPeerIsClosed

(* Nobody is forgotten while the server serves: a peer that connects is taken  *)
(* or refused, and a stored message's webhook is tried.                        *)
WaitersAreServed == V!PeerAnswered /\ V!HookTried

(* A process that should end does: by a stop at whatever moment, by enough     *)
(* matching mail (unless a count failed or time ran out), and by a port that   *)
(* cannot be bound.                                                            *)
ProcessEnds ==
  /\ V!StopIsHonoured
  /\ (part # "assert") => B!PassIsNoticed
  /\ A!BindFailureIsFatal
============================================================================
