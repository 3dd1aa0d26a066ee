------------------------------ MODULE Sockets ------------------------------
(* The WebSocket connections of the HTTP API: the handshake's slot, the task  *)
(* that serves one connection (ping interval, idle deadline, events, frames   *)
(* from the peer) and the timeout around every send.                          *)
(*                                                                            *)
(* Time is a number of ticks.  Tick is disabled while some task has a branch  *)
(* ready, so a task is as fast as its peer lets it be; which of several ready *)
(* branches select! takes is a free choice.                                   *)
EXTENDS Naturals, FiniteSets

CONSTANTS
  Clients,       \* connections that may be asked for at the same time
  Slots,         \* MAX_WS_CONNECTIONS
  Buffer,        \* events the broadcast channel keeps for a slow receiver
  PingInterval, IdleTimeout, SendTimeout,   \* WsTimings, in ticks
  Rate,          \* bound: handshakes and broadcasts within one tick
  Kinds          \* kinds of peer: a subset of {"prompt", "slow", "mute"}

SocketsAssumption ==
  /\ Slots \in Nat /\ IsFiniteSet(Clients)
  /\ PingInterval \in Nat \ {0} /\ SendTimeout \in Nat \ {0}
  /\ IdleTimeout \in Nat /\ PingInterval < IdleTimeout
  /\ Buffer \in Nat \ {0} /\ Rate \in Nat
  /\ Kinds \subseteq {"prompt", "slow", "mute"}

VARIABLES
  permits,   \* free permits of ws_semaphore
  conn,      \* "none", "upgrading", "open" (in select!) or "sending"
  sent,      \* what the send in progress carries: "ping", "event" or "close"
  left,      \* ticks until that send times out
  ping, idle,\* ticks until the next ping is due and until the idle deadline
  rx,        \* events waiting in this receiver; Buffer + 1: it lagged
  inbox,     \* what the peer has sent and the task has not read
  peer,      \* the peer's kind
  work,      \* handshakes and broadcasts since the last tick
  why        \* ghost: why the task decided to close ("none" while it has not)

vars == <<permits, conn, sent, left, ping, idle, rx, inbox, peer, work, why>>

Held == {c \in Clients : conn[c] # "none"}
Lagged(c) == rx[c] > Buffer

TypeOK ==
  /\ permits \in Nat
  /\ conn \in [Clients -> {"none", "upgrading", "open", "sending"}]
  /\ sent \in [Clients -> {"ping", "event", "close"}]
  /\ left \in [Clients -> 0..SendTimeout]
  /\ ping \in [Clients -> 0..PingInterval]
  /\ idle \in [Clients -> 0..IdleTimeout]
  /\ rx \in [Clients -> 0..Buffer + 1]
  /\ inbox \in [Clients -> {"empty", "frame", "bye"}]
  /\ peer \in [Clients -> {"prompt", "slow", "mute"}]
  /\ work \in 0..Rate
  /\ why \in [Clients -> {"none", "lagged", "idle"}]

Init ==
  /\ permits = Slots
  /\ conn = [c \in Clients |-> "none"]
  /\ sent = [c \in Clients |-> "ping"]
  /\ left = [c \in Clients |-> 0]
  /\ ping = [c \in Clients |-> 0]
  /\ idle = [c \in Clients |-> 0]
  /\ rx = [c \in Clients |-> 0]
  /\ inbox = [c \in Clients |-> "empty"]
  /\ peer \in [Clients -> Kinds]
  /\ work = 0
  /\ why = [c \in Clients |-> "none"]

(* The handshake takes a permit or is answered 503 (no change of state).     *)
Handshake(c) ==
  /\ conn[c] = "none" /\ permits > 0 /\ work < Rate
  /\ work' = work + 1
  /\ permits' = permits - 1
  /\ conn' = [conn EXCEPT ![c] = "upgrading"]
  /\ \E k \in Kinds : peer' = [peer EXCEPT ![c] = k]
  /\ UNCHANGED <<sent, left, ping, idle, rx, inbox, why>>

(* The task, or the closure of an upgrade that failed, is dropped and the     *)
(* permit with it.  What the connection held is forgotten.                    *)
End(c) ==
  /\ permits' = permits + 1
  /\ conn' = [conn EXCEPT ![c] = "none"]
  /\ sent' = [sent EXCEPT ![c] = "ping"]
  /\ left' = [left EXCEPT ![c] = 0]
  /\ ping' = [ping EXCEPT ![c] = 0]
  /\ idle' = [idle EXCEPT ![c] = 0]
  /\ rx' = [rx EXCEPT ![c] = 0]
  /\ inbox' = [inbox EXCEPT ![c] = "empty"]
  /\ why' = [why EXCEPT ![c] = "none"]
  /\ UNCHANGED <<peer, work>>

(* Mutant: the permit is dropped when the upgrade is handed over, not by its closure *)
UpgradeFailsLeaks(c) ==
  /\ conn[c] = "upgrading"
  /\ conn' = [conn EXCEPT ![c] = "none"]
  /\ UNCHANGED <<permits, sent, left, ping, idle, rx, inbox, peer, why, work>>

UpgradeFails(c) == conn[c] = "upgrading" /\ End(c)

(* handle_socket begins: it subscribes, arms the idle deadline, and the first *)
(* tick of a tokio interval is due at once.                                   *)
Subscribe(c) ==
  /\ conn[c] = "upgrading"
  /\ conn' = [conn EXCEPT ![c] = "open"]
  /\ idle' = [idle EXCEPT ![c] = IdleTimeout]
  /\ UNCHANGED <<permits, sent, left, ping, rx, inbox, peer, why, work>>

(* A branch of select! that sends: the task is inside send_within and polls   *)
(* no other branch until it returns.                                          *)
Send(c, what) ==
  /\ conn' = [conn EXCEPT ![c] = "sending"]
  /\ sent' = [sent EXCEPT ![c] = what]
  /\ left' = [left EXCEPT ![c] = SendTimeout]

(* MissedTickBehavior::Delay: the next ping is a whole interval away.         *)
PingDue(c) ==
  /\ conn[c] = "open" /\ ping[c] = 0
  /\ Send(c, "ping")
  /\ ping' = [ping EXCEPT ![c] = PingInterval]
  /\ UNCHANGED <<permits, idle, rx, inbox, peer, why, work>>

EventDue(c) ==
  /\ conn[c] = "open" /\ rx[c] \in 1..Buffer
  /\ Send(c, "event")
  /\ rx' = [rx EXCEPT ![c] = @ - 1]
  /\ UNCHANGED <<permits, ping, idle, inbox, peer, why, work>>

Closing(c, reason) ==
  /\ Send(c, "close")
  /\ why' = [why EXCEPT ![c] = reason]
  /\ UNCHANGED <<permits, ping, idle, rx, inbox, peer, work>>

(* Mutant: the surviving events are served to a receiver that lagged *)
LaggedDueGoesOn(c) ==
  /\ conn[c] = "open" /\ Lagged(c)
  /\ rx' = [rx EXCEPT ![c] = Buffer]
  /\ UNCHANGED <<permits, conn, sent, left, ping, idle, inbox, peer, why, work>>

LaggedDue(c) == conn[c] = "open" /\ Lagged(c) /\ Closing(c, "lagged")
IdleDue(c) == conn[c] = "open" /\ idle[c] = 0 /\ Closing(c, "idle")

(* Mutant: every frame is read but only data refreshes the deadline *)
FrameReadKeepsDeadline(c) ==
  /\ conn[c] = "open" /\ inbox[c] = "frame"
  /\ inbox' = [inbox EXCEPT ![c] = "empty"]
  /\ UNCHANGED <<permits, conn, sent, left, ping, idle, rx, peer, why, work>>

(* Any frame but Close refreshes the idle deadline.                           *)
FrameRead(c) ==
  /\ conn[c] = "open" /\ inbox[c] = "frame"
  /\ inbox' = [inbox EXCEPT ![c] = "empty"]
  /\ idle' = [idle EXCEPT ![c] = IdleTimeout]
  /\ UNCHANGED <<permits, conn, sent, left, ping, rx, peer, why, work>>

PeerClosed(c) == conn[c] = "open" /\ inbox[c] = "bye" /\ End(c)

(* send_within: the peer took the frame.  One that answers has answered a     *)
(* ping by the time it has read it.                                           *)
SendDone(c) ==
  /\ conn[c] = "sending"
  /\ IF sent[c] = "close" THEN End(c)
     ELSE /\ conn' = [conn EXCEPT ![c] = "open"]
          /\ left' = [left EXCEPT ![c] = 0]
          /\ inbox' = [inbox EXCEPT ![c] =
               IF sent[c] = "ping" /\ peer[c] # "mute" /\ @ = "empty" THEN "frame" ELSE @]
          /\ UNCHANGED <<permits, sent, ping, idle, rx, peer, why, work>>

(* ... or did not within the limit, or the connection failed under it.        *)
SendFails(c) ==
  /\ conn[c] = "sending" /\ (left[c] = 0 \/ inbox[c] = "bye")
  /\ End(c)

(* What the peer does on its own: it stops answering, or goes away.           *)
GoesMute(c) ==
  /\ conn[c] \in {"open", "sending"} /\ peer[c] # "mute"
  /\ peer' = [peer EXCEPT ![c] = "mute"]
  /\ UNCHANGED <<permits, conn, sent, left, ping, idle, rx, inbox, why, work>>

GoesAway(c) ==
  /\ conn[c] \in {"open", "sending"} /\ peer[c] # "mute"
  /\ inbox' = [inbox EXCEPT ![c] = "bye"]
  /\ UNCHANGED <<permits, conn, sent, left, ping, idle, rx, peer, why, work>>

(* AppState::broadcast: every receiver gets the event or has lost one.        *)
Broadcast ==
  /\ work < Rate /\ work' = work + 1
  /\ rx' = [c \in Clients |->
       IF conn[c] \in {"open", "sending"} /\ rx[c] <= Buffer THEN rx[c] + 1 ELSE rx[c]]
  /\ rx' # rx
  /\ UNCHANGED <<permits, conn, sent, left, ping, idle, inbox, peer, why>>

(* A task with something to do at this instant.                               *)
Ready(c) ==
  \/ conn[c] = "open" /\ (ping[c] = 0 \/ idle[c] = 0 \/ rx[c] > 0 \/ inbox[c] # "empty")
  \/ conn[c] = "sending" /\ (peer[c] = "prompt" \/ left[c] = 0)

Less(t) == [c \in Clients |-> IF t[c] > 0 THEN t[c] - 1 ELSE 0]

Tick ==
  /\ \A c \in Clients : ~Ready(c)
  /\ ping' = Less(ping) /\ idle' = Less(idle) /\ left' = Less(left)
  /\ work' = 0
  /\ UNCHANGED <<permits, conn, sent, rx, inbox, peer, why>>

Serve(c) ==
  \/ UpgradeFails(c) \/ Subscribe(c)
  \/ PingDue(c) \/ EventDue(c) \/ LaggedDue(c) \/ IdleDue(c)
  \/ FrameRead(c) \/ PeerClosed(c) \/ SendDone(c) \/ SendFails(c)

Next ==
  \/ \E c \in Clients :
       \/ Handshake(c) \/ Serve(c)
       \/ GoesMute(c) \/ GoesAway(c)
  \/ Broadcast
  \/ Tick

Spec == Init /\ [][Next]_vars

(* Time passes; a task with a ready branch runs; select! picks at random, so  *)
(* a branch that is ready again and again is taken.                           *)
Fairness ==
  /\ WF_vars(Tick)
  /\ \A c \in Clients :
       /\ WF_vars(Subscribe(c) \/ UpgradeFails(c))
       /\ WF_vars(Serve(c))
       /\ SF_vars(IdleDue(c)) /\ SF_vars(LaggedDue(c))

FairSpec == Spec /\ Fairness

----------------------------------------------------------------------------

(* Every slot is either free or held by one connection: whichever way a       *)
(* connection ends (failed upgrade, close, lag, silence, blocked send), its   *)
(* permit comes back exactly once.                                            *)
SlotsAccountedFor == permits + Cardinality(Held) = Slots

(* ws.rs: "reaching WS_IDLE_TIMEOUT means the peer stopped answering".        *)
IdleMeansSilent == \A c \in Clients : why[c] = "idle" => peer[c] = "mute"

(* A peer that stopped answering, reading or not, does not keep its slot.     *)
SilentPeerLosesItsSlot ==
  \A c \in Clients :
    (conn[c] \in {"open", "sending"} /\ peer[c] = "mute") ~> (conn[c] = "none")

(* A receiver that lost an event is disconnected, never served the rest.      *)
LaggedPeerIsClosed ==
  \A c \in Clients : (conn[c] \in {"open", "sending"} /\ Lagged(c)) ~> (conn[c] = "none")

============================================================================
