------------------------------ MODULE Release ------------------------------
(* POST /messages/{id}/release: a captured message is sent on to the one relay *)
(* the server was configured with, while other clients delete messages, the    *)
(* relay refuses or fails at any step, and callers go away and ask again.      *)
EXTENDS Naturals, Sequences, SequencesExt

CONSTANTS
  Requests,    \* release requests
  Mail,        \* id -> [sender, recipients]: what was captured
  Options,     \* values of --release-host, each cut at its colons
  PortOf,      \* the port a segment of digits stands for
  Asked,       \* [host, port] bodies callers send
  Good,        \* addresses a relay accepts; any other does not parse
  NoPort, NoSender, Unset,
  Unreadable   \* a recipients column that is not a JSON list

ReleaseAssumption ==
  /\ NoPort \notin Nat /\ Unset \notin Options /\ Options \subseteq Seq(STRING)
  /\ \A s \in DOMAIN PortOf : PortOf[s] \in Nat
  /\ \A id \in DOMAIN Mail : DOMAIN Mail[id] = {"sender", "recipients"}

AllowedSmtpPorts == {25, 465, 587, 2525}
ImplicitTlsSmtpPort == 465
DefaultPort == 587

VARIABLES
  option,     \* the --release-host given, or Unset
  stored,     \* ids in the store
  req,        \* per request: [pc, id, body, status]
  relay,      \* per request, its connection: [to, mode, tls, from, rcpts, raw]
  accepted    \* what the relay took: [req, from, to, raw]

vars == <<option, stored, req, relay, accepted>>

NoRelay == [to |-> <<>>, mode |-> "none", tls |-> FALSE, from |-> NoSender,
            rcpts |-> <<>>, raw |-> <<>>]
Idle == [pc |-> "idle", id |-> "none", body |-> <<>>, status |-> 0]

TypeOK ==
  /\ option \in Options \cup {Unset} /\ stored \subseteq DOMAIN Mail
  /\ \A r \in Requests :
       /\ req[r].pc \in {"idle", "policy", "raw", "get", "envelope", "connect",
                         "secure", "rcpt", "data", "done", "gone"}
       /\ req[r].status \in {0, 200, 400, 403, 404, 500, 502}
       /\ req[r].status # 0 <=> req[r].pc = "done"
       /\ relay[r].to # <<>> => relay[r].to \in {<<b.host, p>> : b \in Asked, p \in AllowedSmtpPorts}

Init ==
  /\ option \in Options \cup {Unset} /\ stored = DOMAIN Mail
  /\ req = [r \in Requests |-> Idle]
  /\ relay = [r \in Requests |-> NoRelay]
  /\ accepted = {}

----------------------------------------------------------------------------

(* rsplit_once(':'): a last segment that is a port is the port.                *)
ParseReleaseHost(s) ==
  IF Len(s) > 1 /\ Last(s) \in DOMAIN PortOf
  THEN [host |-> Front(s), port |-> PortOf[Last(s)]]
  ELSE [host |-> s, port |-> NoPort]

Allowed == ParseReleaseHost(option)

Port(body) ==
  IF body.port # NoPort THEN body.port
  ELSE IF Allowed.port # NoPort THEN Allowed.port ELSE DefaultPort

(* The checks before the store is read: the status refused with, or 0.         *)
Policy(body) ==
  CASE option = Unset -> 403
    [] option # Unset /\ body.host # Allowed.host -> 403
    [] option # Unset /\ body.host = Allowed.host ->
         IF Allowed.port # NoPort /\ Port(body) # Allowed.port THEN 403
         ELSE IF Port(body) \notin AllowedSmtpPorts THEN 400 ELSE 0

Security(port) == IF port = ImplicitTlsSmtpPort THEN "implicit" ELSE "starttls"

(* Mutant: STARTTLS is used only when the relay offers it *)
RelayTransportOpportunistic(security) ==
  IF security = "implicit" THEN "wrapper" ELSE "opportunistic"

(* relay(host) speaks TLS from the first byte; starttls_relay(host) upgrades   *)
(* and gives up when it cannot.  The library also knows "opportunistic".       *)
RelayTransport(security) == IF security = "implicit" THEN "wrapper" ELSE "required"

(* Mutant: an address that does not parse is left out *)
ReleaseEnvelopeLenient(m) ==
  LET to == IF m.recipients = Unreadable THEN <<>>
            ELSE SelectSeq(m.recipients, LAMBDA a : a \in Good)
  IN [ok |-> to # <<>>, from |-> m.sender, to |-> to]

(* Every address carries over or the release is refused; Envelope::new wants   *)
(* at least one recipient.                                                     *)
ReleaseEnvelope(m) ==
  LET ok == /\ m.sender = NoSender \/ m.sender \in Good
            /\ m.recipients \notin {Unreadable, <<>>}
            /\ \A i \in DOMAIN m.recipients : m.recipients[i] \in Good
  IN [ok |-> ok, from |-> m.sender, to |-> m.recipients]

----------------------------------------------------------------------------

Step(r, from, to) == req[r].pc = from /\ req' = [req EXCEPT ![r].pc = to]

Answer(r, from, s) ==
  /\ req[r].pc = from
  /\ req' = [req EXCEPT ![r].pc = "done", ![r].status = s]

Ask(r, id, body) ==
  /\ req[r].pc = "idle"
  /\ req' = [req EXCEPT ![r] = [pc |-> "policy", id |-> id, body |-> body, status |-> 0]]
  /\ UNCHANGED <<option, stored, relay, accepted>>

CheckPolicy(r) ==
  /\ req[r].pc = "policy"
  /\ LET s == Policy(req[r].body)
     IN IF s = 0 THEN Step(r, "policy", "raw") ELSE Answer(r, "policy", s)
  /\ UNCHANGED <<option, stored, relay, accepted>>

(* repo.get_raw: the source, NotFound, or an error of the database or the frame *)
GetRaw(r) ==
  /\ \/ /\ req[r].id \in stored /\ Step(r, "raw", "get")
        /\ relay' = [relay EXCEPT ![r].raw = <<req[r].id>>]
     \/ req[r].id \notin stored /\ Answer(r, "raw", 404) /\ UNCHANGED relay
     \/ Answer(r, "raw", 500) /\ UNCHANGED relay
  /\ UNCHANGED <<option, stored, accepted>>

(* repo.get, a read of its own                                                 *)
Get(r) ==
  /\ \/ req[r].id \in stored /\ Step(r, "get", "envelope")
     \/ req[r].id \notin stored /\ Answer(r, "get", 404)
     \/ Answer(r, "get", 500)
  /\ UNCHANGED <<option, stored, relay, accepted>>

(* release_envelope and relay_transport, which may not find its TLS roots      *)
BuildMailer(r) ==
  /\ req[r].pc = "envelope"
  /\ LET env == ReleaseEnvelope(Mail[req[r].id])
     IN IF ~env.ok THEN Answer(r, "envelope", 400) /\ UNCHANGED relay
        ELSE \/ Answer(r, "envelope", 502) /\ UNCHANGED relay
             \/ /\ Step(r, "envelope", "connect")
                /\ relay' = [relay EXCEPT ![r].to = <<req[r].body.host, Port(req[r].body)>>,
                                ![r].mode = RelayTransport(Security(Port(req[r].body))),
                                ![r].from = env.from, ![r].rcpts = env.to]
  /\ UNCHANGED <<option, stored, accepted>>

----------------------------------------------------------------------------
(* The SMTP client library and the relay.                                      *)

(* A wrapper begins with the handshake, any other mode with a plain greeting.  *)
Connect(r) ==
  /\ Step(r, "connect", "secure")
  /\ relay' = [relay EXCEPT ![r].tls = (relay[r].mode = "wrapper")]
  /\ UNCHANGED <<option, stored, accepted>>

(* EHLO, then STARTTLS where the relay offers it; a required upgrade that is   *)
(* not offered ends the send.                                                  *)
Secure(r) ==
  /\ \E offered \in BOOLEAN :
       \/ /\ relay[r].tls \/ offered \/ relay[r].mode = "opportunistic"
          /\ Step(r, "secure", "rcpt")
          /\ relay' = [relay EXCEPT ![r].tls = @ \/ offered]
       \/ /\ ~(relay[r].tls \/ offered \/ relay[r].mode = "opportunistic")
          /\ Answer(r, "secure", 502) /\ UNCHANGED relay
  /\ UNCHANGED <<option, stored, accepted>>

(* MAIL and every RCPT taken: one refused ends the send.                       *)
Envelope(r) ==
  /\ Step(r, "rcpt", "data")
  /\ UNCHANGED <<option, stored, relay, accepted>>

Take(r) == accepted' = accepted \cup {[req |-> r, from |-> relay[r].from,
                                       to |-> relay[r].rcpts, raw |-> relay[r].raw]}

(* The relay takes the message and says so, or its answer is lost.             *)
Data(r) ==
  /\ Take(r)
  /\ Answer(r, "data", 200) \/ Answer(r, "data", 502)
  /\ UNCHANGED <<option, stored, relay>>

(* A refusal, an error or the library's timeout at any step.                   *)
SendFails(r) ==
  /\ \E s \in {"connect", "secure", "rcpt", "data"} : Answer(r, s, 502)
  /\ UNCHANGED <<option, stored, relay, accepted>>

(* The caller disconnects: the handler is dropped where it awaits, and the     *)
(* relay may have taken the message all the same.                              *)
Abandon(r) ==
  /\ req[r].pc \in {"raw", "get", "connect", "secure", "rcpt", "data"}
  /\ req' = [req EXCEPT ![r].pc = "gone"]
  /\ (req[r].pc = "data" /\ Take(r)) \/ UNCHANGED accepted
  /\ UNCHANGED <<option, stored, relay>>

(* Another client, or retention, deletes a message.                            *)
Delete(id) ==
  /\ id \in stored /\ stored' = stored \ {id}
  /\ UNCHANGED <<option, req, relay, accepted>>

ReleaseMessage(r) ==
  \/ CheckPolicy(r) \/ GetRaw(r) \/ Get(r) \/ BuildMailer(r)
  \/ Connect(r) \/ Secure(r) \/ Envelope(r) \/ Data(r) \/ SendFails(r)

Next ==
  \/ \E r \in Requests : ReleaseMessage(r) \/ Abandon(r)
  \/ \E r \in Requests, id \in DOMAIN Mail, b \in Asked : Ask(r, id, b)
  \/ \E id \in DOMAIN Mail : Delete(id)

Spec == Init /\ [][Next]_vars

----------------------------------------------------------------------------

(* "Only this exact host (and port, if specified) can be used": whatever the   *)
(* bodies ask for, a connection goes to the option as the operator wrote it,   *)
(* or, when it names no port, to its host on an SMTP port.                     *)
OnlyConfiguredTarget ==
  \A r \in Requests : relay[r].to # <<>> =>
    LET host == relay[r].to[1]
        port == relay[r].to[2]
    IN /\ port \in AllowedSmtpPorts
       /\ \/ option = host /\ (Len(host) > 1 => Last(host) \notin DOMAIN PortOf)
          \/ \E s \in DOMAIN PortOf : PortOf[s] = port /\ option = Append(host, s)

(* "The captured envelope a release sends again, exactly as captured": no      *)
(* recipient and no sender is left out of what a relay takes.                  *)
SentAsCaptured ==
  \A a \in accepted :
    LET id == req[a.req].id
    IN a.raw = <<id>> /\ a.from = Mail[id].sender /\ a.to = Mail[id].recipients

(* `released: true` is told only of a message the relay took.                  *)
ReleasedIsTrue ==
  \A r \in Requests : req[r].status = 200 => \E a \in accepted : a.req = r

(* A release refused for the request or the message, or that could not read    *)
(* it, left no copy anywhere.                                                  *)
RefusedSentNothing ==
  \A r \in Requests : req[r].status \in {400, 403, 404, 500} =>
    \A a \in accepted : a.req # r

(* "The message is never sent if the relay cannot upgrade": whatever port the  *)
(* body and the option name and whatever the relay offers, the envelope and    *)
(* the text only ever travel over TLS.                                         *)
NeverInTheClear == \A r \in Requests : req[r].pc \in {"rcpt", "data"} => relay[r].tls
============================================================================
