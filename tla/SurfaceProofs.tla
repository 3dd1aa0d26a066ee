---------------------------- MODULE SurfaceProofs ----------------------------
(***************************************************************************)
(* Proofs about what operators and callers touch, for any messages,        *)
(* requests, names, options and builds: release, the message handlers, the *)
(* static files, the guard, the settings and the assert filter.            *)
(***************************************************************************)
EXTENDS Surface, SequenceTheorems, WellFoundedInduction, TLAPS

\* A step of the whole is a step of one part, and leaves the others alone.
LEMMA OnePart ==
    ASSUME [SurfaceNext]_surfaceVars
    PROVE  /\ C!Next \/ UNCHANGED configVars
           /\ G!Next \/ UNCHANGED gateVars
           /\ R!Next \/ UNCHANGED readsVars
           /\ M!Next \/ UNCHANGED matchingVars
           /\ L!Next \/ UNCHANGED releaseVars
           /\ F!Next \/ UNCHANGED filesVars
BY Zenon DEF SurfaceNext, surfaceVars, otherVars

-----------------------------------------------------------------------------
(* Release *)

\* What the constants of Release are.
LEMMA ReleaseConstants ==
    /\ Unset \notin ReleaseHosts /\ ReleaseHosts \subseteq Seq(STRING)
    /\ \A s \in DOMAIN PortOf : PortOf[s] \in Nat
<1>1. L!ReleaseAssumption
  BY SurfaceAssumption, Zenon
<1> QED
  BY <1>1 DEF L!ReleaseAssumption

\* The bodies that pass the policy check, and where each is sent.
Cleared == {b \in Asked : L!Policy(b) = 0}
Target == [b \in Asked |-> <<b.host, L!Port(b)>>]

Stages == {"idle", "policy", "raw", "get", "envelope", "connect", "secure", "rcpt", "data",
           "done", "gone"}
Sending == {"connect", "secure", "rcpt", "data"}
Statuses == {0, 200, 400, 403, 404, 500, 502}
Ticket == [pc : Stages, id : DOMAIN Mail \cup {"none"}, body : Asked \cup {<<>>}, status : Statuses]
Targets == {<<b.host, p>> : b \in Asked, p \in L!AllowedSmtpPorts}
\* A connection of the library's: no mode is "opportunistic".
Wire == [to : Targets \cup {<<>>}, mode : {"none", "wrapper", "required"}, tls : BOOLEAN,
         from : {Mail[id].sender : id \in DOMAIN Mail} \cup {NoSender},
         rcpts : {Mail[id].recipients : id \in DOMAIN Mail} \cup {<<>>},
         raw : {<<id>> : id \in DOMAIN Mail} \cup {<<>>}]

\* A request q with the connection l: past the policy check only a body that
\* was cleared, on the wire only what was captured, and the connection only
\* to what was cleared; c and t are the clearance and the target of q's body.
TicketOK(q, l, c, t) ==
  /\ q.status # 0 <=> q.pc = "done"
  /\ q.pc # "idle" => q.id \in DOMAIN Mail /\ q.body \in Asked
  /\ q.pc \in {"idle", "policy", "raw"} => l.to = <<>>
  /\ q.pc \in {"raw", "get", "envelope"} \cup Sending => c
  /\ l.to # <<>> => c /\ l.to = t
  /\ q.pc \in {"get", "envelope"} \cup Sending => l.raw = <<q.id>>
  /\ q.pc \in Sending => /\ l.to # <<>> /\ l.from = Mail[q.id].sender
                         /\ l.rcpts = Mail[q.id].recipients
  /\ q.pc \in {"rcpt", "data"} => l.tls

\* What the relay took of request a.req is what was captured, and that request
\* is over and was not refused.
TakenOK(a, q) ==
  /\ q.pc \in {"done", "gone"} /\ q.status \in {0, 200, 502}
  /\ a.raw = <<q.id>> /\ a.from = Mail[q.id].sender /\ a.to = Mail[q.id].recipients

ReleaseInv ==
  /\ option \in ReleaseHosts \cup {Unset} /\ stored \subseteq DOMAIN Mail
  /\ release \in [Releases -> Ticket] /\ relay \in [Releases -> Wire]
  /\ \A r \in Releases : TicketOK(release[r], relay[r], release[r].body \in Cleared,
                                  Target[release[r].body])
  /\ \A a \in accepted : a.req \in Releases /\ TakenOK(a, release[a.req])
  /\ \A r \in Releases : release[r].status = 200 => \E a \in accepted : a.req = r

LEMMA ReleaseInitial ==
    ASSUME L!Init
    PROVE  ReleaseInv
<1>1. L!Idle \in Ticket /\ L!NoRelay \in Wire
  BY DEF L!Idle, L!NoRelay, Ticket, Wire, Stages, Statuses
<1>2. release \in [Releases -> Ticket] /\ relay \in [Releases -> Wire]
  BY <1>1 DEF L!Init
<1>3. \A r \in Releases : release[r] = L!Idle /\ relay[r] = L!NoRelay
  BY DEF L!Init
<1>4. ASSUME NEW c, NEW t PROVE TicketOK(L!Idle, L!NoRelay, c, t)
  BY DEF TicketOK, L!Idle, L!NoRelay, Sending
<1>5. \A r \in Releases : release[r].status # 200
  BY <1>3 DEF L!Idle
<1> QED BY <1>2, <1>3, <1>4, <1>5 DEF ReleaseInv, L!Init

\* The option is never written, so neither is what a body is cleared for.
LEMMA SameOption ==
    ASSUME option' = option
    PROVE  Cleared' = Cleared /\ Target' = Target
BY DEF Cleared, Target, L!Policy, L!Port, L!Allowed, L!ParseReleaseHost

\* A step of request r alone, nothing of which the relay has yet.
LEMMA ReleaseStep ==
    ASSUME ReleaseInv, NEW r \in Releases, NEW q \in Ticket, NEW l \in Wire, option' = option,
           release' = [release EXCEPT ![r] = q], relay' = [relay EXCEPT ![r] = l],
           release[r].pc \notin {"done", "gone"},
           TicketOK(q, l, q.body \in Cleared, Target[q.body])
    PROVE  /\ release' \in [Releases -> Ticket] /\ relay' \in [Releases -> Wire]
           /\ \A s \in Releases : TicketOK(release'[s], relay'[s], release'[s].body \in Cleared',
                                           Target'[release'[s].body])
           /\ \A s \in Releases \ {r} : release'[s] = release[s]
           /\ release'[r] = q
           /\ \A a \in accepted : a.req \in Releases /\ TakenOK(a, release'[a.req])
<1>1. release' \in [Releases -> Ticket] /\ relay' \in [Releases -> Wire]
  BY DEF ReleaseInv
<1>2. /\ release'[r] = q /\ relay'[r] = l
      /\ \A s \in Releases \ {r} : release'[s] = release[s] /\ relay'[s] = relay[s]
  BY DEF ReleaseInv
<1>3. ASSUME NEW s \in Releases
      PROVE  TicketOK(release'[s], relay'[s], release'[s].body \in Cleared', Target'[release'[s].body])
  <2>1. TicketOK(release'[s], relay'[s], release'[s].body \in Cleared, Target[release'[s].body])
    BY <1>2 DEF ReleaseInv
  <2> QED BY <2>1, SameOption
<1>4. \A a \in accepted : a.req # r
  BY DEF ReleaseInv, TakenOK
<1>5. \A a \in accepted : a.req \in Releases /\ TakenOK(a, release'[a.req])
  BY <1>2, <1>4 DEF ReleaseInv
<1> QED BY <1>1, <1>2, <1>3, <1>5

\* The relay takes nothing in this step.
LEMMA ReleaseMoves ==
    ASSUME ReleaseInv, NEW r \in Releases, NEW q \in Ticket, NEW l \in Wire,
           option' = option, stored' = stored, accepted' = accepted,
           release' = [release EXCEPT ![r] = q], relay' = [relay EXCEPT ![r] = l],
           release[r].pc \notin {"done", "gone"}, q.status # 200,
           TicketOK(q, l, q.body \in Cleared, Target[q.body])
    PROVE  ReleaseInv'
<1>1. /\ release' \in [Releases -> Ticket] /\ relay' \in [Releases -> Wire]
      /\ \A s \in Releases : TicketOK(release'[s], relay'[s], release'[s].body \in Cleared',
                                      Target'[release'[s].body])
      /\ \A s \in Releases \ {r} : release'[s] = release[s]
      /\ release'[r] = q
      /\ \A a \in accepted : a.req \in Releases /\ TakenOK(a, release'[a.req])
  BY ReleaseStep
<1>2. \A s \in Releases : release'[s].status = 200 => \E a \in accepted' : a.req = s
  BY <1>1 DEF ReleaseInv
<1> QED BY <1>1, <1>2 DEF ReleaseInv

\* The same, when the connection is left alone too.
LEMMA ReleaseWaits ==
    ASSUME ReleaseInv, NEW r \in Releases, NEW q \in Ticket,
           option' = option, stored' = stored, accepted' = accepted, relay' = relay,
           release' = [release EXCEPT ![r] = q],
           release[r].pc \notin {"done", "gone"}, q.status # 200,
           TicketOK(q, relay[r], q.body \in Cleared, Target[q.body])
    PROVE  ReleaseInv'
<1>1. relay[r] \in Wire /\ relay' = [relay EXCEPT ![r] = relay[r]]
  BY DEF ReleaseInv
<1> QED BY <1>1, ReleaseMoves

\* The connection is left alone, whatever the relay takes.
LEMMA ReleaseStays ==
    ASSUME ReleaseInv, NEW r \in Releases, NEW q \in Ticket, option' = option, relay' = relay,
           release' = [release EXCEPT ![r] = q],
           release[r].pc \notin {"done", "gone"},
           TicketOK(q, relay[r], q.body \in Cleared, Target[q.body])
    PROVE  /\ release' \in [Releases -> Ticket] /\ relay' \in [Releases -> Wire]
           /\ \A s \in Releases : TicketOK(release'[s], relay'[s], release'[s].body \in Cleared',
                                           Target'[release'[s].body])
           /\ \A s \in Releases \ {r} : release'[s] = release[s]
           /\ release'[r] = q
           /\ \A a \in accepted : a.req \in Releases /\ TakenOK(a, release'[a.req])
<1>1. relay[r] \in Wire /\ relay' = [relay EXCEPT ![r] = relay[r]]
  BY DEF ReleaseInv
<1> QED BY <1>1, ReleaseStep

\* The relay takes the message of request r, which ends.
LEMMA ReleaseTakes ==
    ASSUME ReleaseInv, NEW r \in Releases, NEW q \in Ticket,
           option' = option, stored' = stored, relay' = relay, L!Take(r),
           release' = [release EXCEPT ![r] = q], release[r].pc = "data",
           q.pc \in {"done", "gone"}, q.status \in {0, 200, 502}, q.id = release[r].id,
           TicketOK(q, relay[r], q.body \in Cleared, Target[q.body])
    PROVE  ReleaseInv'
<1> DEFINE a == [req |-> r, from |-> relay[r].from, to |-> relay[r].rcpts, raw |-> relay[r].raw]
<1>1. accepted' = accepted \cup {a} /\ a.req = r
  BY DEF L!Take
<1>2. TicketOK(release[r], relay[r], release[r].body \in Cleared, Target[release[r].body])
  BY DEF ReleaseInv
<1>3. TakenOK(a, q)
  BY <1>2 DEF TakenOK, TicketOK, Sending
<1> HIDE DEF a
<1>4. release[r].pc \notin {"done", "gone"}
  OBVIOUS
<1>5. /\ release' \in [Releases -> Ticket] /\ relay' \in [Releases -> Wire]
      /\ \A s \in Releases : TicketOK(release'[s], relay'[s], release'[s].body \in Cleared',
                                      Target'[release'[s].body])
      /\ \A s \in Releases \ {r} : release'[s] = release[s]
      /\ release'[r] = q
      /\ \A b \in accepted : b.req \in Releases /\ TakenOK(b, release'[b.req])
  BY <1>4, ReleaseStays
<1>6. \A s \in Releases : release'[s].status = 200 => \E b \in accepted' : b.req = s
  BY <1>1, <1>5 DEF ReleaseInv
<1>7. \A b \in accepted' : b.req \in Releases /\ TakenOK(b, release'[b.req])
  BY <1>1, <1>3, <1>5
<1> QED BY <1>5, <1>6, <1>7 DEF ReleaseInv

LEMMA AnswerTicket ==
    ASSUME ReleaseInv, NEW r \in Releases, NEW from, NEW s \in Statuses, L!Answer(r, from, s)
    PROVE  /\ release[r].pc = from
           /\ \E q \in Ticket : /\ release' = [release EXCEPT ![r] = q]
                                /\ q.pc = "done" /\ q.status = s
                                /\ q.id = release[r].id /\ q.body = release[r].body
<1> DEFINE q == [release[r] EXCEPT !.pc = "done", !.status = s]
<1>1. release[r] \in Ticket
  BY DEF ReleaseInv
<1>2. q \in Ticket /\ q.pc = "done" /\ q.status = s /\ q.id = release[r].id /\ q.body = release[r].body
  BY <1>1 DEF Ticket, Stages
<1>3. release' = [release EXCEPT ![r] = q]
  BY <1>1 DEF ReleaseInv, L!Answer, Ticket
<1> HIDE DEF q
<1> QED BY <1>2, <1>3 DEF L!Answer

LEMMA StepTicket ==
    ASSUME ReleaseInv, NEW r \in Releases, NEW to \in Stages,
           release' = [release EXCEPT ![r].pc = to]
    PROVE  \E q \in Ticket : /\ release' = [release EXCEPT ![r] = q]
                             /\ q.pc = to /\ q.status = release[r].status
                             /\ q.id = release[r].id /\ q.body = release[r].body
<1> DEFINE q == [release[r] EXCEPT !.pc = to]
<1>1. release[r] \in Ticket
  BY DEF ReleaseInv
<1>2. /\ q \in Ticket /\ q.pc = to /\ q.status = release[r].status
      /\ q.id = release[r].id /\ q.body = release[r].body
  BY <1>1 DEF Ticket
<1>3. release' = [release EXCEPT ![r] = q]
  BY <1>1 DEF ReleaseInv, Ticket
<1> HIDE DEF q
<1> QED BY <1>2, <1>3

LEMMA ReleaseFails ==
    ASSUME ReleaseInv, NEW r \in Releases, NEW from \in Stages \ {"idle", "done", "gone"},
           NEW s \in Statuses \ {0, 200}, L!Answer(r, from, s),
           UNCHANGED <<option, stored, relay, accepted>>
    PROVE  ReleaseInv'
<1>1. PICK q \in Ticket : /\ release' = [release EXCEPT ![r] = q]
                          /\ q.pc = "done" /\ q.status = s
                          /\ q.id = release[r].id /\ q.body = release[r].body
  BY AnswerTicket
<1>2. release[r].pc = from
  BY AnswerTicket
<1>3. TicketOK(q, relay[r], q.body \in Cleared, Target[q.body])
  BY <1>1, <1>2 DEF ReleaseInv, TicketOK, Sending
<1> QED BY <1>1, <1>2, <1>3, ReleaseWaits

LEMMA ReleaseActions ==
    ASSUME ReleaseInv, NEW r \in Releases, L!ReleaseMessage(r) \/ L!Abandon(r)
    PROVE  ReleaseInv'
<1>0. /\ TicketOK(release[r], relay[r], release[r].body \in Cleared, Target[release[r].body])
      /\ release[r] \in Ticket /\ relay[r] \in Wire
  BY DEF ReleaseInv
<1>1. CASE L!CheckPolicy(r)
  <2>1. CASE L!Policy(release[r].body) = 0
    <3>1. /\ release' = [release EXCEPT ![r].pc = "raw"] /\ release[r].pc = "policy"
          /\ UNCHANGED <<option, stored, relay, accepted>>
      BY <1>1, <2>1 DEF L!CheckPolicy, L!Step
    <3>2. PICK q \in Ticket : /\ release' = [release EXCEPT ![r] = q]
                              /\ q.pc = "raw" /\ q.status = release[r].status
                              /\ q.id = release[r].id /\ q.body = release[r].body
      BY <3>1, StepTicket DEF Stages
    <3>3. q.body \in Cleared
      BY <1>0, <2>1, <3>1, <3>2 DEF Cleared, TicketOK
    <3>4. TicketOK(q, relay[r], q.body \in Cleared, Target[q.body])
      BY <1>0, <3>1, <3>2, <3>3 DEF TicketOK, Sending
    <3>5. q.status # 200
      BY <1>0, <3>1, <3>2 DEF TicketOK
    <3> QED BY <3>1, <3>2, <3>4, <3>5, ReleaseWaits
  <2>2. CASE L!Policy(release[r].body) # 0
    <3>1. L!Policy(release[r].body) \in {400, 403}
      BY <2>2 DEF L!Policy
    <3> QED BY <1>1, <2>2, <3>1, ReleaseFails DEF L!CheckPolicy, Stages, Statuses
  <2> QED BY <2>1, <2>2
<1>2. CASE L!GetRaw(r)
  <2>1. CASE L!Step(r, "raw", "get") /\ relay' = [relay EXCEPT ![r].raw = <<release[r].id>>]
    <3>1. /\ release' = [release EXCEPT ![r].pc = "get"] /\ release[r].pc = "raw"
          /\ relay' = [relay EXCEPT ![r].raw = <<release[r].id>>]
          /\ UNCHANGED <<option, stored, accepted>>
      BY <1>2, <2>1 DEF L!GetRaw, L!Step
    <3>2. PICK q \in Ticket : /\ release' = [release EXCEPT ![r] = q]
                              /\ q.pc = "get" /\ q.status = release[r].status
                              /\ q.id = release[r].id /\ q.body = release[r].body
      BY <3>1, StepTicket DEF Stages
    <3> DEFINE l == [relay[r] EXCEPT !.raw = <<release[r].id>>]
    <3>3. /\ l \in Wire /\ relay' = [relay EXCEPT ![r] = l]
          /\ l.to = relay[r].to /\ l.raw = <<release[r].id>>
      <4>1. release[r].id \in DOMAIN Mail
        BY <1>0, <3>1 DEF TicketOK
      <4>2. relay \in [Releases -> Wire]
        BY DEF ReleaseInv
      <4> QED BY <1>0, <3>1, <4>1, <4>2 DEF Wire
    <3> HIDE DEF l
    <3>4. TicketOK(q, l, q.body \in Cleared, Target[q.body])
      BY <1>0, <3>1, <3>2, <3>3 DEF TicketOK, Sending
    <3>5. q.status # 200
      BY <1>0, <3>1, <3>2 DEF TicketOK
    <3>6. /\ option' = option /\ stored' = stored /\ accepted' = accepted
          /\ release[r].pc \notin {"done", "gone"}
          /\ release' = [release EXCEPT ![r] = q]
      BY <3>1, <3>2
    <3>7. l \in Wire /\ relay' = [relay EXCEPT ![r] = l]
      BY <3>3
    <3> QED BY <3>4, <3>5, <3>6, <3>7, ReleaseMoves
  <2>2. CASE \E s \in {404, 500} : L!Answer(r, "raw", s) /\ UNCHANGED relay
    BY <1>2, <2>2, ReleaseFails DEF L!GetRaw, Stages, Statuses
  <2> QED BY <1>2, <2>1, <2>2 DEF L!GetRaw
<1>3. CASE L!Get(r)
  <2>1. CASE L!Step(r, "get", "envelope")
    <3>1. /\ release' = [release EXCEPT ![r].pc = "envelope"] /\ release[r].pc = "get"
          /\ UNCHANGED <<option, stored, relay, accepted>>
      BY <1>3, <2>1 DEF L!Get, L!Step
    <3>2. PICK q \in Ticket : /\ release' = [release EXCEPT ![r] = q]
                              /\ q.pc = "envelope" /\ q.status = release[r].status
                              /\ q.id = release[r].id /\ q.body = release[r].body
      BY <3>1, StepTicket DEF Stages
    <3>3. TicketOK(q, relay[r], q.body \in Cleared, Target[q.body])
      BY <1>0, <3>1, <3>2 DEF TicketOK, Sending
    <3>4. q.status # 200
      BY <1>0, <3>1, <3>2 DEF TicketOK
    <3> QED BY <3>1, <3>2, <3>3, <3>4, ReleaseWaits
  <2>2. CASE \E s \in {404, 500} : L!Answer(r, "get", s)
    BY <1>3, <2>2, ReleaseFails DEF L!Get, Stages, Statuses
  <2> QED BY <1>3, <2>1, <2>2 DEF L!Get
<1>4. CASE L!BuildMailer(r)
  <2> DEFINE made == L!ReleaseEnvelope(Mail[release[r].id])
  <2>1. CASE \E s \in {400, 502} : L!Answer(r, "envelope", s) /\ UNCHANGED relay
    BY <1>4, <2>1, ReleaseFails DEF L!BuildMailer, Stages, Statuses
  <2>2. CASE /\ L!Step(r, "envelope", "connect")
             /\ relay' = [relay EXCEPT ![r].to = <<release[r].body.host, L!Port(release[r].body)>>,
                             ![r].mode = L!RelayTransport(L!Security(L!Port(release[r].body))),
                             ![r].from = made.from, ![r].rcpts = made.to]
    <3>1. /\ release' = [release EXCEPT ![r].pc = "connect"] /\ release[r].pc = "envelope"
          /\ UNCHANGED <<option, stored, accepted>>
      BY <1>4, <2>2 DEF L!BuildMailer, L!Step
    <3>2. PICK q \in Ticket : /\ release' = [release EXCEPT ![r] = q]
                              /\ q.pc = "connect" /\ q.status = release[r].status
                              /\ q.id = release[r].id /\ q.body = release[r].body
      BY <3>1, StepTicket DEF Stages
    <3>3. /\ release[r].id \in DOMAIN Mail /\ release[r].body \in Asked
          /\ release[r].body \in Cleared
      BY <1>0, <3>1 DEF TicketOK
    <3>4. /\ made.from = Mail[release[r].id].sender
          /\ made.to = Mail[release[r].id].recipients
      BY DEF L!ReleaseEnvelope
    <3>5. L!Port(release[r].body) \in L!AllowedSmtpPorts
      BY <3>3 DEF Cleared, L!Policy
    <3> DEFINE to == <<release[r].body.host, L!Port(release[r].body)>>
    <3>6. to \in Targets /\ to # <<>> /\ to = Target[release[r].body]
      BY <3>3, <3>5 DEF Targets, Target
    <3> DEFINE how == L!RelayTransport(L!Security(L!Port(release[r].body)))
    <3>12. how \in {"wrapper", "required"}
      BY DEF L!RelayTransport
    <3> HIDE DEF to, made, how
    <3> DEFINE l == [relay[r] EXCEPT !.to = to, !.mode = how, !.from = made.from,
                                     !.rcpts = made.to]
    <3>7. l \in Wire
      BY <1>0, <3>3, <3>4, <3>6, <3>12 DEF Wire
    <3>8. /\ l.to = to /\ l.raw = relay[r].raw
          /\ l.from = Mail[release[r].id].sender /\ l.rcpts = Mail[release[r].id].recipients
      BY <1>0, <3>4 DEF Wire
    <3>9. relay' = [relay EXCEPT ![r] = l]
      <4>1. relay \in [Releases -> Wire]
        BY DEF ReleaseInv
      <4>2. relay' = [relay EXCEPT ![r].to = to, ![r].mode = how, ![r].from = made.from,
                                   ![r].rcpts = made.to]
        BY <2>2 DEF to, how
      <4> QED BY <1>0, <4>1, <4>2 DEF Wire
    <3> HIDE DEF l
    <3>10. TicketOK(q, l, q.body \in Cleared, Target[q.body])
      BY <1>0, <3>1, <3>2, <3>3, <3>6, <3>8 DEF TicketOK, Sending
    <3>11. q.status # 200
      BY <1>0, <3>1, <3>2 DEF TicketOK
    <3> QED BY <3>1, <3>2, <3>7, <3>9, <3>10, <3>11, ReleaseMoves
  <2> QED BY <1>4, <2>1, <2>2 DEF L!BuildMailer
<1>5. ASSUME NEW to \in {"secure", "rcpt", "data"}, NEW t \in BOOLEAN,
             release[r].pc \in Sending,
             release' = [release EXCEPT ![r].pc = to],
             relay' = [relay EXCEPT ![r].tls = t], to \in {"rcpt", "data"} => t,
             UNCHANGED <<option, stored, accepted>>
      PROVE  ReleaseInv'
  <2>1. PICK q \in Ticket : /\ release' = [release EXCEPT ![r] = q]
                            /\ q.pc = to /\ q.status = release[r].status
                            /\ q.id = release[r].id /\ q.body = release[r].body
    <3>1. to \in Stages
      BY DEF Stages
    <3> QED BY <1>5, <3>1, StepTicket
  <2> DEFINE l == [relay[r] EXCEPT !.tls = t]
  <2>2. /\ l \in Wire /\ l.tls = t /\ l.to = relay[r].to /\ l.raw = relay[r].raw
        /\ l.from = relay[r].from /\ l.rcpts = relay[r].rcpts
    BY <1>0 DEF Wire
  <2>3. relay' = [relay EXCEPT ![r] = l]
    <3>1. relay \in [Releases -> Wire]
      BY DEF ReleaseInv
    <3> QED BY <1>0, <1>5, <3>1 DEF Wire
  <2> HIDE DEF l
  <2>4. TicketOK(q, l, q.body \in Cleared, Target[q.body])
    BY <1>0, <1>5, <2>1, <2>2 DEF TicketOK, Sending
  <2>5. q.status # 200 /\ release[r].pc \notin {"done", "gone"}
    BY <1>0, <1>5, <2>1 DEF TicketOK, Sending
  <2>6. /\ option' = option /\ stored' = stored /\ accepted' = accepted
        /\ release' = [release EXCEPT ![r] = q] /\ l \in Wire
    BY <1>5, <2>1, <2>2
  <2> QED BY <2>3, <2>4, <2>5, <2>6, ReleaseMoves
<1>6. CASE L!Connect(r)
  BY <1>5, <1>6 DEF L!Connect, L!Step, Sending
<1>7. CASE L!Secure(r)
  <2>1. relay[r].mode # "opportunistic" /\ relay[r].tls \in BOOLEAN
    BY <1>0 DEF Wire
  <2>2. CASE L!Answer(r, "secure", 502) /\ UNCHANGED relay
    BY <1>7, <2>2, ReleaseFails DEF L!Secure, Stages, Statuses
  <2>3. ASSUME NEW offered \in BOOLEAN, relay[r].tls \/ offered, L!Step(r, "secure", "rcpt"),
               relay' = [relay EXCEPT ![r].tls = @ \/ offered]
        PROVE  ReleaseInv'
    <3>1. (relay[r].tls \/ offered) = TRUE
      BY <2>1, <2>3
    <3>2. relay' = [relay EXCEPT ![r].tls = relay[r].tls \/ offered]
      BY <2>3
    <3>3. relay' = [relay EXCEPT ![r].tls = TRUE]
      BY <3>1, <3>2
    <3> QED BY <1>5, <1>7, <2>3, <3>3 DEF L!Secure, L!Step, Sending
  <2> QED BY <1>7, <2>1, <2>2, <2>3 DEF L!Secure
<1>8. CASE L!Envelope(r)
  <2>1. relay[r].tls = TRUE /\ release[r].pc = "rcpt"
    BY <1>0, <1>8 DEF L!Envelope, L!Step, TicketOK, Wire
  <2>2. relay' = [relay EXCEPT ![r].tls = TRUE]
    <3>1. relay \in [Releases -> Wire] /\ relay' = relay
      BY <1>8 DEF ReleaseInv, L!Envelope
    <3> QED BY <1>0, <2>1, <3>1 DEF Wire
  <2> QED BY <1>5, <1>8, <2>1, <2>2 DEF L!Envelope, L!Step, Sending
<1>9. ASSUME NEW s \in {200, 502}, L!Take(r), L!Answer(r, "data", s),
             UNCHANGED <<option, stored, relay>>
      PROVE  ReleaseInv'
  <2>1. PICK q \in Ticket : /\ release' = [release EXCEPT ![r] = q]
                            /\ q.pc = "done" /\ q.status = s
                            /\ q.id = release[r].id /\ q.body = release[r].body
    BY <1>9, AnswerTicket DEF Statuses
  <2>2. release[r].pc = "data"
    BY <1>9 DEF L!Answer
  <2>3. TicketOK(q, relay[r], q.body \in Cleared, Target[q.body])
    BY <1>0, <2>1, <2>2 DEF TicketOK, Sending
  <2> QED BY <1>9, <2>1, <2>2, <2>3, ReleaseTakes
<1>10. CASE L!Data(r)
  BY <1>9, <1>10 DEF L!Data
<1>11. CASE L!SendFails(r)
  BY <1>11, ReleaseFails DEF L!SendFails, Stages, Statuses
<1>12. CASE L!Abandon(r)
  <2>1. PICK q \in Ticket : /\ release' = [release EXCEPT ![r] = q]
                            /\ q.pc = "gone" /\ q.status = release[r].status
                            /\ q.id = release[r].id /\ q.body = release[r].body
    BY <1>12, StepTicket DEF L!Abandon, Stages
  <2>2. /\ release[r].pc \in {"raw", "get"} \cup Sending
        /\ UNCHANGED <<option, stored, relay>>
        /\ (release[r].pc = "data" /\ L!Take(r)) \/ accepted' = accepted
    BY <1>12 DEF L!Abandon, Sending
  <2>3. TicketOK(q, relay[r], q.body \in Cleared, Target[q.body]) /\ q.status = 0
    BY <1>0, <2>1, <2>2 DEF TicketOK, Sending
  <2>4. release[r].pc \notin {"done", "gone"}
    BY <2>2 DEF Sending
  <2>5. CASE release[r].pc = "data" /\ L!Take(r)
    BY <2>1, <2>2, <2>3, <2>5, ReleaseTakes
  <2>6. CASE accepted' = accepted
    <3>1. /\ option' = option /\ stored' = stored /\ relay' = relay
          /\ release' = [release EXCEPT ![r] = q] /\ q.status # 200
      BY <2>1, <2>2, <2>3
    <3> QED BY <2>3, <2>4, <2>6, <3>1, ReleaseWaits
  <2> QED BY <2>2, <2>5, <2>6
<1> QED BY <1>1, <1>2, <1>3, <1>4, <1>6, <1>7, <1>8, <1>10, <1>11, <1>12 DEF L!ReleaseMessage

LEMMA ReleaseNext ==
    ASSUME ReleaseInv, L!Next \/ UNCHANGED releaseVars
    PROVE  ReleaseInv'
<1>1. ASSUME NEW r \in Releases, NEW id \in DOMAIN Mail, NEW b \in Asked, L!Ask(r, id, b)
      PROVE  ReleaseInv'
  <2> DEFINE q == [pc |-> "policy", id |-> id, body |-> b, status |-> 0]
  <2>1. /\ release' = [release EXCEPT ![r] = q] /\ release[r].pc = "idle"
        /\ UNCHANGED <<option, stored, relay, accepted>>
    BY <1>1 DEF L!Ask
  <2>2. q \in Ticket
    BY DEF Ticket, Stages, Statuses
  <2>3. relay[r].to = <<>>
    BY <2>1 DEF ReleaseInv, TicketOK
  <2>4. TicketOK(q, relay[r], q.body \in Cleared, Target[q.body])
    BY <2>3 DEF TicketOK, Sending
  <2>5. q.status # 200
    OBVIOUS
  <2> HIDE DEF q
  <2> QED BY <2>1, <2>2, <2>4, <2>5, ReleaseWaits
<1>2. ASSUME NEW id \in DOMAIN Mail, L!Delete(id)
      PROVE  ReleaseInv'
  BY <1>2, SameOption DEF ReleaseInv, L!Delete
<1>3. CASE UNCHANGED releaseVars
  BY <1>3, SameOption DEF ReleaseInv, releaseVars
<1> QED BY <1>1, <1>2, <1>3, ReleaseActions DEF L!Next

\* A cleared body is sent to the option as it was written, or to its host.
LEMMA ClearedTarget ==
    ASSUME option \in ReleaseHosts \cup {Unset}, NEW b \in Cleared
    PROVE  LET host == b.host
               port == L!Port(b)
           IN /\ port \in L!AllowedSmtpPorts
              /\ \/ option = host /\ (Len(host) > 1 => L!Last(host) \notin DOMAIN PortOf)
                 \/ \E s \in DOMAIN PortOf : PortOf[s] = port /\ option = Append(host, s)
<1>1. /\ option # Unset /\ b.host = L!Allowed.host
      /\ L!Allowed.port # -1 => L!Port(b) = L!Allowed.port
      /\ L!Port(b) \in L!AllowedSmtpPorts
  BY DEF Cleared, L!Policy
<1>2. option \in Seq(STRING)
  BY <1>1, ReleaseConstants
<1>3. CASE Len(option) > 1 /\ L!Last(option) \in DOMAIN PortOf
  <2>1. L!Allowed = [host |-> L!Front(option), port |-> PortOf[L!Last(option)]]
    BY <1>3 DEF L!Allowed, L!ParseReleaseHost
  <2>2. PortOf[L!Last(option)] \in Nat
    BY <1>3, ReleaseConstants
  <2>3. b.host = L!Front(option) /\ L!Port(b) = PortOf[L!Last(option)]
    BY <1>1, <2>1, <2>2
  <2>4. option = Append(L!Front(option), L!Last(option))
    BY <1>2, <1>3 DEF L!Front, L!Last
  <2> QED BY <1>1, <1>3, <2>3, <2>4
<1>4. CASE ~(Len(option) > 1 /\ L!Last(option) \in DOMAIN PortOf)
  <2>1. L!Allowed.host = option
    BY <1>4 DEF L!Allowed, L!ParseReleaseHost
  <2> QED BY <1>1, <1>4, <2>1
<1> QED BY <1>3, <1>4

LEMMA ReleaseHolds ==
    ASSUME ReleaseInv
    PROVE  ReleaseIsTrue
<1>1. L!OnlyConfiguredTarget
  <2> SUFFICES ASSUME NEW r \in Releases, relay[r].to # <<>>
               PROVE  LET host == relay[r].to[1]
                          port == relay[r].to[2]
                      IN /\ port \in L!AllowedSmtpPorts
                         /\ \/ option = host /\ (Len(host) > 1 => L!Last(host) \notin DOMAIN PortOf)
                            \/ \E s \in DOMAIN PortOf : PortOf[s] = port /\ option = Append(host, s)
    BY DEF L!OnlyConfiguredTarget
  <2>1. release[r].body \in Cleared /\ relay[r].to = Target[release[r].body]
    BY DEF ReleaseInv, TicketOK
  <2>2. relay[r].to = <<release[r].body.host, L!Port(release[r].body)>>
    BY <2>1 DEF Cleared, Target
  <2>3. relay[r].to[1] = release[r].body.host /\ relay[r].to[2] = L!Port(release[r].body)
    BY <2>2
  <2>4. option \in ReleaseHosts \cup {Unset}
    BY DEF ReleaseInv
  <2> QED BY <2>1, <2>3, <2>4, ClearedTarget
<1>3. L!SentAsCaptured
  BY DEF ReleaseInv, TakenOK, L!SentAsCaptured
<1>4. L!ReleasedIsTrue
  BY DEF ReleaseInv, L!ReleasedIsTrue
<1>5. L!RefusedSentNothing
  BY DEF ReleaseInv, TakenOK, L!RefusedSentNothing
<1>6. L!TypeOK
  <2>1. \A r \in Releases : release[r] \in Ticket /\ relay[r] \in Wire
    BY DEF ReleaseInv
  <2>2. \A r \in Releases : /\ release[r].pc \in Stages /\ release[r].status \in Statuses
                            /\ relay[r].to # <<>> => relay[r].to \in Targets
    BY <2>1 DEF Ticket, Wire
  <2>3. \A r \in Releases : release[r].status # 0 <=> release[r].pc = "done"
    BY DEF ReleaseInv, TicketOK
  <2> QED BY <2>2, <2>3 DEF ReleaseInv, L!TypeOK, Stages, Statuses, Targets
<1>7. L!NeverInTheClear
  BY DEF ReleaseInv, TicketOK, L!NeverInTheClear
<1> QED BY <1>1, <1>3, <1>4, <1>5, <1>6, <1>7 DEF ReleaseIsTrue

LEMMA ReleaseAlways == SurfaceSpec => []ReleaseInv
<1>1. SurfaceInit => ReleaseInv
  BY ReleaseInitial DEF SurfaceInit
<1>2. ReleaseInv /\ [SurfaceNext]_surfaceVars => ReleaseInv'
  BY OnePart, ReleaseNext
<1> QED BY <1>1, <1>2, PTL DEF SurfaceSpec

\* Whatever bodies ask for, whenever messages are deleted, the relay refuses or
\* fails and callers go away: mail leaves for the configured relay alone, as it
\* was captured, on any allowed port over TLS only whether or not the relay offers
\* STARTTLS, and its release is reported as it went.
THEOREM ReleaseIsAlwaysTrue == SurfaceSpec => []ReleaseIsTrue
<1>1. ReleaseInv => ReleaseIsTrue
  BY ReleaseHolds
<1> QED BY <1>1, ReleaseAlways, PTL

-----------------------------------------------------------------------------
(* Static files *)

Icons == {IconOf[b] : b \in Builds}
Files == F!Routes \cup F!Scripts \cup {"favicon"}

\* What the constants of StaticFiles are.
LEMMA FilesConstants ==
    /\ DOMAIN ScriptOf = F!Pages
    /\ F!Pages \cap (F!Scripts \cup Icons) = {} /\ "none" \notin F!Pages
    /\ F!Scripts \cap F!Routes = {} /\ {"favicon", "api", "none"} \cap F!Scripts = {}
    /\ {"favicon", "api"} \cap F!Routes = {} /\ F!AnyEtag \notin F!Pages
<1>1. F!StaticFilesAssumption
  BY SurfaceAssumption, Zenon
<1> QED
  BY <1>1 DEF F!StaticFilesAssumption, F!Routes, Icons

\* What the browser may keep under path p: a page under a route, which it
\* always asks about again; a script under its own name, for ever.
CopyOK(p, c) ==
  \/ c = F!Nothing
  \/ /\ c \in [content : F!Pages \cup F!Scripts \cup Icons, immutable : BOOLEAN]
     /\ p \in F!Routes => c.content \in F!Pages /\ c.immutable = FALSE
     /\ p \in F!Scripts => c.content = p /\ c.immutable = TRUE
     /\ p = "favicon" => c.content \in Icons /\ c.immutable = FALSE

TabOK(t, b, m) ==
  /\ DOMAIN t = {"page", "at", "script"}
  /\ t = [page |-> t.page, at |-> t.at, script |-> t.script]
  /\ t.page = "none" => t.script = "none"
  /\ t.page # "none" =>
       /\ t.page \in F!Pages /\ t.at \in Builds /\ t.page = IndexOf[t.at]
       /\ m \/ t.at = b
       /\ \/ t.script = "none" \/ t.script = ScriptOf[t.page]
          \/ t.script = "missing" /\ m

FilesInv ==
  /\ build \in Builds /\ moved \in BOOLEAN /\ api \in {"none", "404"}
  /\ DOMAIN kept = Files /\ kept = [p \in Files |-> kept[p]]
  /\ \A p \in Files : CopyOK(p, kept[p])
  /\ TabOK(page, build, moved)

LEMMA FilesInitial ==
    ASSUME F!Init
    PROVE  FilesInv
<1>1. DOMAIN kept = Files /\ kept = [p \in Files |-> kept[p]] /\ \A p \in Files : kept[p] = F!Nothing
  BY DEF F!Init, Files
<1>2. TabOK(page, build, moved)
  BY DEF F!Init, F!NoTab, TabOK
<1> QED BY <1>1, <1>2 DEF F!Init, FilesInv, CopyOK

\* A route is answered with the page the server has, asked for or confirmed.
LEMMA FetchedRoute ==
    ASSUME FilesInv, NEW p \in F!Routes
    PROVE  F!Fetched(p) = [content |-> IndexOf[build],
                           kept |-> [content |-> IndexOf[build], immutable |-> FALSE]]
<1>1. /\ p \in Files /\ CopyOK(p, kept[p]) /\ p \notin F!Scripts
      /\ p # "favicon" /\ p # "api"
  BY FilesConstants DEF FilesInv, Files
<1>2. F!AssetsGet(p) = {}
  BY <1>1 DEF F!AssetsGet
<1>3. F!StaticHandler(p, F!Sent(p)) = F!Revalidated(IndexOf[build], F!Sent(p))
  BY <1>1, <1>2 DEF F!StaticHandler
<1>4. CASE kept[p] = F!Nothing
  <2>1. F!StaticHandler(p, F!Sent(p)) = [status |-> 200, content |-> IndexOf[build], immutable |-> FALSE]
    BY <1>3, <1>4 DEF F!Revalidated, F!HoldsCurrent, F!Sent, F!Answer
  <2>2. ~kept[p].immutable
    BY <1>4 DEF F!Nothing
  <2> QED BY <2>1, <2>2 DEF F!Fetched
<1>5. CASE kept[p] # F!Nothing
  <2>1. kept[p] = [content |-> kept[p].content, immutable |-> FALSE] /\ ~kept[p].immutable
    BY <1>1, <1>5 DEF CopyOK
  <2>2. CASE kept[p].content = IndexOf[build]
    <3>1. F!StaticHandler(p, F!Sent(p)) = [status |-> 304, content |-> "none", immutable |-> FALSE]
      BY <1>3, <1>5, <2>2 DEF F!Revalidated, F!HoldsCurrent, F!Sent, F!Answer, F!EtagOf
    <3>2. F!Fetched(p) = [content |-> kept[p].content, kept |-> kept[p]]
      BY <2>1, <3>1 DEF F!Fetched
    <3> QED BY <2>1, <2>2, <3>2
  <2>3. CASE kept[p].content # IndexOf[build]
    <3>1. F!StaticHandler(p, F!Sent(p)) = [status |-> 200, content |-> IndexOf[build], immutable |-> FALSE]
      <4>1. F!Sent(p) = {kept[p].content} /\ kept[p].content \in F!Pages
        BY <1>1, <1>5 DEF F!Sent, F!EtagOf, CopyOK
      <4>2. ~F!HoldsCurrent(F!Sent(p), IndexOf[build])
        BY <2>3, <4>1, FilesConstants DEF F!HoldsCurrent, F!EtagOf
      <4> QED BY <1>3, <4>2 DEF F!Revalidated, F!Answer
    <3> QED BY <2>1, <3>1 DEF F!Fetched
  <2> QED BY <2>2, <2>3
<1> QED BY <1>4, <1>5

\* A script's name gives that script or, when the server has it no more, 404.
LEMMA FetchedScript ==
    ASSUME FilesInv, NEW p \in F!Scripts
    PROVE  /\ CopyOK(p, F!Fetched(p).kept)
           /\ \/ F!Fetched(p).content = p
              \/ F!Fetched(p).content = "missing" /\ p # ScriptOf[IndexOf[build]]
<1>1. p \in Files /\ CopyOK(p, kept[p]) /\ p # "favicon" /\ p # "api" /\ p \notin F!Routes
  BY FilesConstants DEF FilesInv, Files
<1>2. CASE kept[p] # F!Nothing
  <2>1. kept[p].immutable /\ kept[p].content = p
    BY <1>1, <1>2 DEF CopyOK
  <2> QED BY <1>1, <2>1 DEF F!Fetched
<1>3. CASE kept[p] = F!Nothing
  <2>1. ~kept[p].immutable
    BY <1>3 DEF F!Nothing
  <2>2. CASE p = ScriptOf[IndexOf[build]]
    <3>1. F!AssetsGet(p) = {p}
      BY <1>1, <2>2 DEF F!AssetsGet
    <3>2. F!StaticHandler(p, F!Sent(p)) = [status |-> 200, content |-> p, immutable |-> TRUE]
      BY <1>1, <3>1 DEF F!StaticHandler, F!Answer
    <3>3. F!Fetched(p) = [content |-> p, kept |-> [content |-> p, immutable |-> TRUE]]
      BY <2>1, <3>2 DEF F!Fetched
    <3>4. CopyOK(p, [content |-> p, immutable |-> TRUE])
      BY <1>1 DEF CopyOK
    <3> QED BY <3>3, <3>4
  <2>3. CASE p # ScriptOf[IndexOf[build]]
    <3>1. F!AssetsGet(p) = {}
      BY <1>1, <2>3 DEF F!AssetsGet
    <3>2. F!StaticHandler(p, F!Sent(p)) = [status |-> 404, content |-> "none", immutable |-> FALSE]
      BY <1>1, <3>1 DEF F!StaticHandler, F!Answer
    <3>3. F!Fetched(p) = [content |-> "missing", kept |-> kept[p]]
      BY <2>1, <3>2 DEF F!Fetched
    <3> QED BY <1>1, <2>3, <3>3
  <2> QED BY <2>2, <2>3
<1> QED BY <1>2, <1>3

\* The icon is only ever an icon.
LEMMA FetchedIcon ==
    ASSUME FilesInv
    PROVE  CopyOK("favicon", F!Fetched("favicon").kept)
<1> DEFINE p == "favicon"
<1>1. /\ p \in Files /\ CopyOK(p, kept[p]) /\ p \notin F!Scripts /\ p \notin F!Routes
      /\ IconOf[build] \in Icons
  BY FilesConstants DEF FilesInv, Files, Icons
<1>2. F!AssetsGet(p) = {IconOf[build]}
  BY <1>1 DEF F!AssetsGet
<1>3. F!StaticHandler(p, F!Sent(p)) = F!Revalidated(IconOf[build], F!Sent(p))
  BY <1>1, <1>2 DEF F!StaticHandler
<1>4. \/ F!StaticHandler(p, F!Sent(p)) = [status |-> 304, content |-> "none", immutable |-> FALSE]
      \/ F!StaticHandler(p, F!Sent(p)) = [status |-> 200, content |-> IconOf[build], immutable |-> FALSE]
  BY <1>3 DEF F!Revalidated, F!Answer
<1>5. CopyOK(p, [content |-> IconOf[build], immutable |-> FALSE])
  BY <1>1 DEF CopyOK
<1>6. \/ F!Fetched(p).kept = kept[p]
      \/ F!Fetched(p).kept = [content |-> IconOf[build], immutable |-> FALSE]
  <2>1. CASE kept[p].immutable
    BY <2>1 DEF F!Fetched
  <2>2. CASE /\ ~kept[p].immutable
             /\ F!StaticHandler(p, F!Sent(p)) = [status |-> 304, content |-> "none", immutable |-> FALSE]
    BY <2>2 DEF F!Fetched
  <2>3. CASE /\ ~kept[p].immutable
             /\ F!StaticHandler(p, F!Sent(p))
                  = [status |-> 200, content |-> IconOf[build], immutable |-> FALSE]
    <3> DEFINE c == [content |-> IconOf[build], immutable |-> FALSE]
    <3>1. F!Fetched(p) = [content |-> IconOf[build], kept |-> c]
      <4> HIDE DEF p
      <4> QED BY <2>3 DEF F!Fetched
    <3>2. F!Fetched(p).kept = c
      <4> HIDE DEF c
      <4> QED BY <3>1
    <3> QED BY <3>2
  <2> QED BY <1>4, <2>1, <2>2, <2>3
<1> QED BY <1>1, <1>5, <1>6

\* A copy that is replaced by one that may be kept.
LEMMA FilesKeep ==
    ASSUME FilesInv, NEW p \in Files, NEW c, CopyOK(p, c), kept' = [kept EXCEPT ![p] = c]
    PROVE  /\ DOMAIN kept' = Files /\ kept' = [q \in Files |-> kept'[q]]
           /\ \A q \in Files : CopyOK(q, kept'[q])
<1>1. DOMAIN kept' = Files /\ kept' = [q \in Files |-> kept'[q]]
  BY DEF FilesInv
<1>2. \A q \in Files : kept'[q] = IF q = p THEN c ELSE kept[q]
  BY DEF FilesInv
<1> QED BY <1>1, <1>2 DEF FilesInv

LEMMA FilesNext ==
    ASSUME FilesInv, F!Next \/ UNCHANGED filesVars
    PROVE  FilesInv'
<1>0. /\ build \in Builds /\ IndexOf[build] \in F!Pages /\ "none" \notin F!Pages
      /\ moved \in BOOLEAN /\ api \in {"none", "404"} /\ TabOK(page, build, moved)
  BY FilesConstants DEF FilesInv, F!Pages
<1>1. ASSUME NEW p \in F!Routes, F!Navigate(p) PROVE FilesInv'
  <2> DEFINE c == [content |-> IndexOf[build], immutable |-> FALSE]
  <2>1. F!Fetched(p) = [content |-> IndexOf[build], kept |-> c]
    BY FetchedRoute
  <2>2. p \in Files /\ p \notin F!Scripts /\ p # "favicon"
    BY FilesConstants DEF Files
  <2>3. CopyOK(p, c)
    BY <1>0, <2>2 DEF CopyOK
  <2> HIDE DEF c
  <2>4. /\ kept' = [kept EXCEPT ![p] = c]
        /\ page' = [page |-> IndexOf[build], at |-> build, script |-> "none"]
        /\ moved' = FALSE /\ UNCHANGED <<build, api>>
    BY <1>1, <2>1 DEF F!Navigate, F!Fetch
  <2>5. TabOK(page', build', moved')
    BY <1>0, <2>4 DEF TabOK
  <2>6. /\ DOMAIN kept' = Files /\ kept' = [q \in Files |-> kept'[q]]
        /\ \A q \in Files : CopyOK(q, kept'[q])
    BY <2>2, <2>3, <2>4, FilesKeep
  <2> QED BY <1>0, <2>4, <2>5, <2>6 DEF FilesInv
<1>2. ASSUME F!LoadScript PROVE FilesInv'
  <2> DEFINE p == ScriptOf[page.page]
  <2>1. page.page \in F!Pages /\ p \in F!Scripts
    BY <1>2, FilesConstants DEF F!LoadScript, F!Scripts, F!Pages
  <2>2. p \in Files
    BY <2>1 DEF Files
  <2>3. /\ CopyOK(p, F!Fetched(p).kept)
        /\ \/ F!Fetched(p).content = p
           \/ F!Fetched(p).content = "missing" /\ p # ScriptOf[IndexOf[build]]
    BY <2>1, FetchedScript
  <2>4. /\ kept' = [kept EXCEPT ![p] = F!Fetched(p).kept]
        /\ page' = [page EXCEPT !.script = F!Fetched(p).content]
        /\ UNCHANGED <<build, moved, api>>
    BY <1>2 DEF F!LoadScript, F!Fetch
  <2>5. /\ DOMAIN kept' = Files /\ kept' = [q \in Files |-> kept'[q]]
        /\ \A q \in Files : CopyOK(q, kept'[q])
    BY <2>2, <2>3, <2>4, FilesKeep
  <2>6. page' = [page |-> page.page, at |-> page.at, script |-> F!Fetched(p).content]
    BY <1>0, <2>4 DEF TabOK
  <2>7. /\ page.page # "none" /\ page.page = IndexOf[page.at] /\ page.at \in Builds
        /\ moved \/ page.at = build
    BY <1>0, <2>1 DEF TabOK
  <2>8. F!Fetched(p).content = p \/ (F!Fetched(p).content = "missing" /\ moved)
    BY <2>3, <2>7
  <2>9. TabOK(page', build', moved')
    BY <2>1, <2>4, <2>6, <2>7, <2>8 DEF TabOK
  <2> QED BY <1>0, <2>4, <2>5, <2>9 DEF FilesInv
<1>3. ASSUME F!LoadIcon PROVE FilesInv'
  <2>1. "favicon" \in Files
    BY DEF Files
  <2>2. /\ DOMAIN kept' = Files /\ kept' = [q \in Files |-> kept'[q]]
        /\ \A q \in Files : CopyOK(q, kept'[q])
    BY <1>3, <2>1, FetchedIcon, FilesKeep DEF F!LoadIcon, F!Fetch
  <2> QED BY <1>0, <1>3, <2>2 DEF FilesInv, F!LoadIcon
<1>4. ASSUME F!CallApi PROVE FilesInv'
  <2>1. F!StaticHandler("api", {}).status = 404
    BY DEF F!StaticHandler, F!Answer
  <2> QED BY <1>4, <2>1 DEF F!CallApi, FilesInv
<1>5. ASSUME NEW p \in DOMAIN kept, F!Evict(p) PROVE FilesInv'
  <2>1. p \in Files /\ CopyOK(p, F!Nothing) /\ kept' = [kept EXCEPT ![p] = F!Nothing]
        /\ UNCHANGED <<build, page, moved, api>>
    BY <1>5 DEF FilesInv, CopyOK, F!Evict
  <2>2. /\ DOMAIN kept' = Files /\ kept' = [q \in Files |-> kept'[q]]
        /\ \A q \in Files : CopyOK(q, kept'[q])
    BY <2>1, FilesKeep
  <2> QED BY <1>0, <2>1, <2>2 DEF FilesInv
<1>6. ASSUME NEW b \in Builds, F!Upgrade(b) PROVE FilesInv'
  <2>1. TabOK(page, b, TRUE)
    BY <1>0 DEF TabOK
  <2> QED BY <1>6, <2>1 DEF F!Upgrade, FilesInv
<1>7. CASE UNCHANGED filesVars
  BY <1>7 DEF filesVars, FilesInv
<1> QED BY <1>1, <1>2, <1>3, <1>4, <1>5, <1>6, <1>7 DEF F!Next

LEMMA FilesHold ==
    ASSUME FilesInv
    PROVE  PagesAreWhole
<1>1. F!TypeOK
  <2>1. ASSUME NEW p \in Files
        PROVE  kept[p].immutable <=> p \in F!Scripts /\ kept[p] # F!Nothing
    <3>1. CopyOK(p, kept[p])
      BY DEF FilesInv
    <3>2. p \in F!Scripts \/ p \in F!Routes \/ p = "favicon"
      BY DEF Files
    <3>3. p \in F!Scripts => p \notin F!Routes /\ p # "favicon"
      BY FilesConstants
    <3> QED BY <3>1, <3>2, <3>3 DEF CopyOK, F!Nothing
  <2> QED BY <2>1 DEF FilesInv, TabOK, F!TypeOK
<1>2. F!PageIsCurrent
  BY DEF FilesInv, TabOK, F!PageIsCurrent
<1>3. F!ScriptIsThePages
  BY DEF FilesInv, TabOK, F!ScriptIsThePages
<1>4. F!HtmlOnlyForRoutes
  <2>1. ASSUME NEW p \in Files \ F!Routes PROVE kept[p].content \notin F!Pages
    <3>1. CopyOK(p, kept[p])
      BY DEF FilesInv
    <3>2. p \in F!Scripts \/ p = "favicon"
      BY DEF Files
    <3> QED BY <3>1, <3>2, FilesConstants DEF CopyOK, F!Nothing
  <2> QED BY <2>1 DEF FilesInv, F!HtmlOnlyForRoutes
<1> QED BY <1>1, <1>2, <1>3, <1>4 DEF PagesAreWhole

\* However often the server is upgraded or rolled back and whatever the browser
\* keeps or drops: the page loaded is the one the server has, it runs its own
\* script or none, and nothing but a client-side route is answered with it.
THEOREM PagesAreAlwaysWhole == SurfaceSpec => []PagesAreWhole
<1>1. SurfaceInit => FilesInv
  BY FilesInitial DEF SurfaceInit
<1>2. FilesInv /\ [SurfaceNext]_surfaceVars => FilesInv'
  BY OnePart, FilesNext
<1>3. FilesInv => PagesAreWhole
  BY FilesHold
<1> QED BY <1>1, <1>2, <1>3, PTL DEF SurfaceSpec

-----------------------------------------------------------------------------
(* Requests for one message *)

Operations == R!Immutable \cup R!Mutable \cup R!Writes
Sizes == 0 .. MaxLen
Marks == 0 .. MaxVer
Phases == {"idle", "read", "more", "write", "applied", "done"}
Bounds == Limits \cup {0}
Codes == {0, 200, 204, 400, 404, 500, 503}
Query == [pc : Phases, op : Operations \cup {"none"}, id : Ids \cup {"none"}, limit : Bounds,
          status : Codes, bytes : Sizes, intact : BOOLEAN, ver : Marks]
Result == [status : {200, 404, 500}, bytes : Sizes, intact : BOOLEAN, ver : Marks]
Whole == {"raw", "eml", "message", "json"}

\* What the constants of Reads are.
LEMMA ReadsConstants ==
    /\ MaxLen \in Nat /\ MaxLen >= 1 /\ HeaderPrefix \in Nat /\ HeaderPrefix > 0 /\ MaxVer \in Nat
    /\ Bounds \subseteq Int
<1>1. R!ReadsAssumption
  BY SurfaceAssumption, Zenon
<1> QED
  BY <1>1 DEF R!ReadsAssumption, Bounds

LEMMA SizesAndMarks ==
    /\ \A n \in Nat : n <= MaxLen => n \in Sizes
    /\ \A n \in Nat : n <= MaxVer => n \in Marks
    /\ \A n \in Marks : n \in Nat /\ n <= MaxVer
    /\ \A n \in Sizes : n \in Nat /\ n <= MaxLen
    /\ 0 \in Sizes /\ 1 \in Sizes /\ 0 \in Marks
BY ReadsConstants DEF Sizes, Marks

\* The header section does not end within the prefix that is read first.
Longer(cap, id) ==
  HeaderPrefix <= cap[id].len /\ ~(cap[id].head # 0 /\ cap[id].head <= HeaderPrefix)

\* The length of an immutable answer about a stored message that is not damaged.
Fact(cap, op, id, limit) ==
  CASE op \in {"raw", "eml"} -> cap[id].len
    [] op = "prefix" -> R!Least(limit, cap[id].len)
    [] op \in {"attachments", "attachment"} -> IF cap[id].att = "none" THEN 0 ELSE 1
    [] op = "headers" -> IF Longer(cap, id) THEN cap[id].len ELSE R!Least(HeaderPrefix, cap[id].len)

\* An answer of n bytes to a request, `ok` when they are the captured ones: of
\* the recorded size, and the captured ones unless the message is damaged.
SizeOK(op, id, limit, n, ok, cap, dam) ==
  /\ op \in Whole => n = cap[id].len
  /\ op = "attachment" => cap[id].att # "none" /\ (cap[id].att = "located" => n = 1)
  /\ op = "prefix" => n <= limit
  /\ dam[id] = "none" => ok = TRUE
  /\ op = "headers" /\ dam[id] = "none" => n = Fact(cap, op, id, limit)

\* A request q against what was captured, what lives and what is damaged: it is
\* for a message that was stored, and a 200 has the right size.
QueryOK(q, cap, lives, dam) ==
  /\ q.pc = "done" <=> q.status # 0
  /\ q.pc # "idle" => q.id \in Ids /\ q.op \in Operations /\ lives[q.id] # "coming"
  /\ q.pc \in {"read", "more"} => q.op \notin R!Writes /\ (q.op = "prefix" => q.limit > 0)
  /\ q.pc = "more" => q.op = "headers" /\ (dam[q.id] = "none" => Longer(cap, q.id))
  /\ q.pc \in {"write", "applied"} => q.op \in R!Writes
  /\ q.status = 200 => q.op \notin R!Writes /\ SizeOK(q.op, q.id, q.limit, q.bytes, q.intact, cap, dam)

\* A kept answer c: about a message that was stored, and what a fresh read gives
\* while it is and is not damaged.
KeptOK(c, cap, lives, dam) ==
  /\ c.op \in R!Immutable /\ c.id \in Ids /\ c.limit \in Int /\ lives[c.id] # "coming"
  /\ c.op = "prefix" => c.limit > 0
  /\ c.op = "attachment" => cap[c.id].att # "none"
  /\ lives[c.id] = "stored" /\ dam[c.id] = "none" =>
       c = [op |-> c.op, id |-> c.id, limit |-> c.limit,
            bytes |-> Fact(cap, c.op, c.id, c.limit), intact |-> TRUE, ver |-> 0]

ReadsInv ==
  /\ captured \in [Ids -> R!Message]
  /\ life \in [Ids -> {"coming", "stored", "deleted"}]
  /\ ver \in [Ids -> Marks] /\ damage \in [Ids -> {"none", "frame", "row"}]
  /\ req \in [Requests -> Query]
  /\ \A r \in Requests : QueryOK(req[r], captured, life, damage)
  /\ landed \subseteq Requests
  /\ \A r \in landed : req[r].pc = "applied" \/ req[r].status = 204
  /\ \A c \in cache : KeptOK(c, captured, life, damage)

LEMMA ReadsInitial ==
    ASSUME R!Init
    PROVE  ReadsInv
<1>1. R!NoRequest \in Query
  BY SizesAndMarks DEF R!NoRequest, Query, Phases, Bounds, Codes
<1>2. ver \in [Ids -> Marks] /\ req \in [Requests -> Query]
  BY <1>1, SizesAndMarks DEF R!Init
<1>3. \A r \in Requests : req[r] = R!NoRequest
  BY DEF R!Init
<1>4. QueryOK(R!NoRequest, captured, life, damage)
  BY DEF QueryOK, R!NoRequest
<1> QED BY <1>2, <1>3, <1>4 DEF R!Init, ReadsInv

LEMMA MessageFacts ==
    ASSUME ReadsInv, NEW id \in Ids
    PROVE  /\ captured[id].len \in Nat /\ captured[id].len <= MaxLen /\ captured[id].len \in Sizes
           /\ captured[id].head \in Nat /\ captured[id].head <= captured[id].len
           /\ captured[id].att \in {"none", "inline", "located"}
           /\ damage[id] \in {"none", "frame", "row"} /\ ver[id] \in Marks
<1>1. captured[id] \in R!Message /\ damage[id] \in {"none", "frame", "row"} /\ ver[id] \in Marks
  BY DEF ReadsInv
<1> QED BY <1>1, ReadsConstants DEF R!Message, Sizes

-----------------------------------------------------------------------------
(* What the storage calls return *)

IsError(g) == g \in Result /\ g.status # 200
IsAnswer(g, n, ok, v) == g \in Result /\ g.status = 200 /\ g.bytes = n /\ g.intact = ok /\ g.ver = v

LEMMA ErrorsAreResults ==
    ASSUME NEW e \in {"NotFound", "Database", "ContentCorrupt", "AttachmentCorrupt"}
    PROVE  IsError(R!Error(e))
<1>1. R!StatusOf(e) \in {404, 500}
  BY DEF R!StatusOf
<1> QED BY <1>1, SizesAndMarks DEF R!Error, R!Got, IsError, Result

LEMMA GotIsAnswer ==
    ASSUME NEW n \in Sizes, NEW ok \in BOOLEAN, NEW v \in Marks
    PROVE  IsAnswer(R!Got(200, n, ok, v), n, ok, v)
BY DEF IsAnswer, Result, R!Got

\* A frame is answered at its recorded size or not at all.
LEMMA DecompressAnswers ==
    ASSUME ReadsInv, NEW id \in Ids, NEW g \in R!Decompress(id)
    PROVE  \/ IsError(g) /\ damage[id] = "frame"
           \/ IsAnswer(g, captured[id].len, damage[id] # "frame", 0)
<1>1. CASE g \in {R!Error("ContentCorrupt")} /\ damage[id] = "frame"
  BY <1>1, ErrorsAreResults
<1>2. CASE \E n \in R!Unpacked(id) :
             g = IF n = captured[id].len THEN R!Got(200, n, damage[id] # "frame", 0)
                 ELSE R!Error("ContentCorrupt")
  <2>1. PICK n \in R!Unpacked(id) :
             g = IF n = captured[id].len THEN R!Got(200, n, damage[id] # "frame", 0)
                 ELSE R!Error("ContentCorrupt")
    BY <1>2
  <2>2. CASE n = captured[id].len
    <3>1. captured[id].len \in Sizes /\ (damage[id] # "frame") \in BOOLEAN /\ 0 \in Marks
      BY MessageFacts, SizesAndMarks
    <3> QED BY <2>1, <2>2, <3>1, GotIsAnswer
  <2>3. CASE n # captured[id].len
    <3>1. damage[id] = "frame"
      BY <2>1, <2>3 DEF R!Unpacked
    <3> QED BY <2>1, <2>3, <3>1, ErrorsAreResults
  <2> QED BY <2>2, <2>3
<1> QED BY <1>1, <1>2 DEF R!Decompress

LEMMA RawAnswers ==
    ASSUME ReadsInv, NEW id \in Ids, NEW g \in R!GetRaw(id)
    PROVE  IsError(g) \/ IsAnswer(g, captured[id].len, damage[id] # "frame", 0)
BY ErrorsAreResults, DecompressAnswers DEF R!GetRaw

\* A prefix is within its limit, and the captured one unless the frame is damaged.
LEMMA PrefixAnswers ==
    ASSUME ReadsInv, NEW id \in Ids, NEW n \in Int, n > 0, NEW g \in R!GetRawPrefix(id, n)
    PROVE  \/ IsError(g)
           \/ /\ IsAnswer(g, g.bytes, damage[id] # "frame", 0) /\ g.bytes <= n
              /\ damage[id] # "frame" => g.bytes = R!Least(n, captured[id].len)
<1>1. CASE g = R!Error("ContentCorrupt") \/ g = R!Error("NotFound")
  BY <1>1, ErrorsAreResults
<1>2. CASE \E k \in R!Unpacked(id) : g = R!Got(200, R!Least(n, k), damage[id] # "frame", 0)
  <2>1. PICK k \in R!Unpacked(id) : g = R!Got(200, R!Least(n, k), damage[id] # "frame", 0)
    BY <1>2
  <2>2. k \in Nat /\ k <= MaxLen /\ (damage[id] # "frame" => k = captured[id].len)
    BY <2>1, MessageFacts, ReadsConstants DEF R!Unpacked
  <2>3. R!Least(n, k) \in Sizes /\ R!Least(n, k) <= n
    <3>1. R!Least(n, k) \in Nat /\ R!Least(n, k) <= MaxLen /\ R!Least(n, k) <= n
      BY <2>2, ReadsConstants DEF R!Least
    <3> QED BY <3>1, SizesAndMarks
  <2>4. IsAnswer(g, R!Least(n, k), damage[id] # "frame", 0)
    BY <2>1, <2>3, GotIsAnswer, SizesAndMarks
  <2> QED BY <2>2, <2>3, <2>4 DEF IsAnswer
<1> QED BY <1>1, <1>2 DEF R!GetRawPrefix, R!DecompressPrefix

LEMMA MessageAnswers ==
    ASSUME ReadsInv, NEW id \in Ids, NEW g \in R!GetMessage(id)
    PROVE  IsError(g) \/ IsAnswer(g, captured[id].len, damage[id] # "frame", ver[id])
<1>1. CASE ~R!Stored(id)
  BY <1>1, ErrorsAreResults DEF R!GetMessage
<1>2. CASE R!Stored(id)
  <2>1. PICK h \in R!Decompress(id) : g = [h EXCEPT !.ver = ver[id]]
    BY <1>2 DEF R!GetMessage
  <2>2. h \in Result /\ (IsError(h) \/ IsAnswer(h, captured[id].len, damage[id] # "frame", 0))
    BY DecompressAnswers DEF IsError, IsAnswer
  <2>3. /\ g \in Result /\ g.bytes = h.bytes /\ g.status = h.status /\ g.intact = h.intact
        /\ g.ver = ver[id]
    BY <2>1, <2>2, MessageFacts DEF Result
  <2> QED BY <2>2, <2>3 DEF IsError, IsAnswer
<1> QED BY <1>1, <1>2

LEMMA AttachmentsAnswer ==
    ASSUME ReadsInv, NEW id \in Ids, NEW g \in R!GetAttachments(id)
    PROVE  /\ IsAnswer(g, g.bytes, damage[id] # "row", 0)
           /\ R!Stored(id) => g.bytes = IF captured[id].att = "none" THEN 0 ELSE 1
<1> DEFINE n == IF R!Stored(id) /\ captured[id].att # "none" THEN 1 ELSE 0
<1>1. n \in Sizes /\ (damage[id] # "row") \in BOOLEAN /\ 0 \in Marks
  BY SizesAndMarks
<1>2. g = R!Got(200, n, damage[id] # "row", 0)
  BY DEF R!GetAttachments
<1>3. n = IF R!Stored(id) /\ captured[id].att # "none" THEN 1 ELSE 0
  OBVIOUS
<1> HIDE DEF n
<1>4. IsAnswer(g, n, damage[id] # "row", 0)
  BY <1>1, <1>2, GotIsAnswer
<1> QED BY <1>3, <1>4 DEF IsAnswer

\* A located part has its recorded size.
LEMMA AttachmentAnswers ==
    ASSUME ReadsInv, NEW id \in Ids, NEW g \in R!GetAttachment(id)
    PROVE  \/ IsError(g)
           \/ /\ IsAnswer(g, g.bytes, g.intact, 0) /\ captured[id].att # "none"
              /\ captured[id].att = "located" => g.bytes = 1
              /\ damage[id] = "none" => g.bytes = 1 /\ g.intact = TRUE
<1>1. R!PartSize = 1 /\ 1 \in Sizes /\ 0 \in Marks
  BY SizesAndMarks DEF R!PartSize
<1>2. CASE ~(R!Stored(id) /\ captured[id].att # "none")
  BY <1>2, ErrorsAreResults DEF R!GetAttachment
<1>3. CASE R!Stored(id) /\ captured[id].att = "inline"
  <2>1. PICK n \in IF damage[id] \in {"row"} THEN 0 .. MaxLen ELSE {R!PartSize} :
          g = R!Got(200, n, damage[id] # "row", 0)
    BY <1>3 DEF R!GetAttachment, R!IntoAttachment
  <2>2. n \in Sizes /\ (damage[id] # "row") \in BOOLEAN /\ (damage[id] = "none" => n = 1)
    BY <1>1, <2>1 DEF Sizes
  <2>3. IsAnswer(g, n, damage[id] # "row", 0)
    BY <1>1, <2>1, <2>2, GotIsAnswer
  <2> QED BY <1>3, <2>2, <2>3 DEF IsAnswer
<1>4. CASE R!Stored(id) /\ captured[id].att = "located"
  <2>1. \/ \E n \in IF damage[id] \in {"frame", "row"} THEN 0 .. MaxLen ELSE {R!PartSize} :
              g = IF n = R!PartSize THEN R!Got(200, n, damage[id] = "none", 0)
                  ELSE R!Error("AttachmentCorrupt")
        \/ g \in R!Decompress(id) /\ g.status # 200
    BY <1>4 DEF R!GetAttachment, R!IntoAttachment
  <2>2. \/ g = R!Got(200, 1, damage[id] = "none", 0)
        \/ g = R!Error("AttachmentCorrupt")
        \/ g \in R!Decompress(id) /\ g.status # 200
    BY <1>1, <2>1
  <2>3. CASE g = R!Got(200, 1, damage[id] = "none", 0)
    <3>1. IsAnswer(g, 1, damage[id] = "none", 0)
      BY <1>1, <2>3, GotIsAnswer
    <3> QED BY <1>4, <3>1 DEF IsAnswer
  <2>4. CASE g = R!Error("AttachmentCorrupt")
    BY <2>4, ErrorsAreResults
  <2>5. CASE g \in R!Decompress(id) /\ g.status # 200
    BY <2>5, DecompressAnswers DEF IsAnswer
  <2> QED BY <2>2, <2>3, <2>4, <2>5
<1> QED BY <1>2, <1>3, <1>4, MessageFacts

\* What the handler of q reads first, when it is no error: of the right size and,
\* of a message that is not damaged, the truth.
FirstOK(q, g) ==
  /\ g \in Result
  /\ q.op # "headers" => SizeOK(q.op, q.id, q.limit, g.bytes, g.intact, captured, damage)
  /\ q.op = "headers" /\ damage[q.id] = "none" =>
       g.intact = TRUE /\ g.bytes = R!Least(HeaderPrefix, captured[q.id].len)
  /\ q.op \in R!Immutable => g.ver = 0
  /\ q.op \in R!Immutable \ {"headers"} /\ R!Stored(q.id) /\ damage[q.id] = "none" =>
       g.bytes = Fact(captured, q.op, q.id, q.limit)

LEMMA FirstReadAnswers ==
    ASSUME ReadsInv, NEW q \in Query, q.id \in Ids, q.op \in R!Immutable \cup R!Mutable,
           q.op = "prefix" => q.limit > 0, NEW g \in R!FirstRead(q), g.status = 200
    PROVE  FirstOK(q, g)
<1> USE DEF FirstOK
<1> USE DEF SizeOK
<1>0. damage[q.id] \in {"none", "frame", "row"} /\ q.limit \in Int
  <2>1. q.limit \in Bounds
    BY DEF Query
  <2> QED BY <2>1, MessageFacts, ReadsConstants
<1>1. CASE q.op \in {"raw", "eml"}
  <2>1. g \in R!GetRaw(q.id) /\ Fact(captured, q.op, q.id, q.limit) = captured[q.id].len
    BY <1>1 DEF R!FirstRead, R!GetRawMessage, R!ExportMessage, Fact
  <2>2. IsAnswer(g, captured[q.id].len, damage[q.id] # "frame", 0)
    BY <2>1, RawAnswers DEF IsError
  <2> QED BY <1>1, <2>1, <2>2 DEF IsAnswer
<1>2. CASE q.op = "prefix"
  <2>1. /\ g \in R!GetRawPrefix(q.id, q.limit)
        /\ Fact(captured, q.op, q.id, q.limit) = R!Least(q.limit, captured[q.id].len)
    BY <1>2 DEF R!FirstRead, R!GetRawMessage, Fact
  <2>2. /\ IsAnswer(g, g.bytes, damage[q.id] # "frame", 0) /\ g.bytes <= q.limit
        /\ damage[q.id] # "frame" => g.bytes = R!Least(q.limit, captured[q.id].len)
    BY <1>0, <1>2, <2>1, PrefixAnswers DEF IsError
  <2> QED BY <1>2, <2>1, <2>2 DEF IsAnswer, Whole
<1>3. CASE q.op = "headers"
  <2>1. g \in R!GetRawPrefix(q.id, HeaderPrefix)
    BY <1>3 DEF R!FirstRead
  <2>2. /\ IsAnswer(g, g.bytes, damage[q.id] # "frame", 0)
        /\ damage[q.id] # "frame" => g.bytes = R!Least(HeaderPrefix, captured[q.id].len)
    BY <2>1, PrefixAnswers, ReadsConstants DEF IsError
  <2> QED BY <1>3, <2>2 DEF IsAnswer
<1>4. CASE q.op \in R!Mutable
  <2>1. g \in R!GetMessage(q.id) /\ q.op \in {"message", "json"}
    BY <1>4 DEF R!FirstRead, R!ExportMessage, R!Mutable
  <2>2. IsAnswer(g, captured[q.id].len, damage[q.id] # "frame", ver[q.id])
    BY <2>1, MessageAnswers DEF IsError
  <2> QED BY <2>1, <2>2 DEF IsAnswer, R!Immutable
<1>5. CASE q.op = "attachments"
  <2>1. /\ g \in R!GetAttachments(q.id)
        /\ Fact(captured, q.op, q.id, q.limit) = IF captured[q.id].att = "none" THEN 0 ELSE 1
    BY <1>5 DEF R!FirstRead, Fact
  <2>2. /\ IsAnswer(g, g.bytes, damage[q.id] # "row", 0)
        /\ R!Stored(q.id) => g.bytes = IF captured[q.id].att = "none" THEN 0 ELSE 1
    BY <2>1, AttachmentsAnswer
  <2> QED BY <1>5, <2>1, <2>2 DEF IsAnswer, Whole
<1>6. CASE q.op = "attachment"
  <2>1. /\ g \in R!GetAttachment(q.id)
        /\ Fact(captured, q.op, q.id, q.limit) = IF captured[q.id].att = "none" THEN 0 ELSE 1
    BY <1>6 DEF R!FirstRead, Fact
  <2>2. /\ IsAnswer(g, g.bytes, g.intact, 0) /\ captured[q.id].att # "none"
        /\ captured[q.id].att = "located" => g.bytes = 1
        /\ damage[q.id] = "none" => g.bytes = 1 /\ g.intact = TRUE
    BY <2>1, AttachmentAnswers DEF IsError
  <2> QED BY <1>6, <2>1, <2>2 DEF IsAnswer, Whole
<1> QED BY <1>1, <1>2, <1>3, <1>4, <1>5, <1>6 DEF R!Immutable

\* ... and whatever it reads is a result.
LEMMA FirstReadResults ==
    ASSUME ReadsInv, NEW q \in Query, q.id \in Ids, q.op \in R!Immutable \cup R!Mutable,
           q.op = "prefix" => q.limit > 0, NEW g \in R!FirstRead(q)
    PROVE  g \in Result
<1>0. q.limit \in Int
  <2>1. q.limit \in Bounds
    BY DEF Query
  <2> QED BY <2>1, ReadsConstants
<1>1. CASE q.op \in {"raw", "eml"}
  BY <1>1, RawAnswers DEF R!FirstRead, R!GetRawMessage, R!ExportMessage, IsError, IsAnswer
<1>2. CASE q.op = "prefix"
  BY <1>0, <1>2, PrefixAnswers DEF R!FirstRead, R!GetRawMessage, IsError, IsAnswer
<1>3. CASE q.op = "headers"
  BY <1>3, PrefixAnswers, ReadsConstants DEF R!FirstRead, IsError, IsAnswer
<1>4. CASE q.op \in {"message", "json"}
  BY <1>4, MessageAnswers DEF R!FirstRead, R!ExportMessage, IsError, IsAnswer
<1>5. CASE q.op = "attachments"
  BY <1>5, AttachmentsAnswer DEF R!FirstRead, IsAnswer
<1>6. CASE q.op = "attachment"
  BY <1>6, AttachmentAnswers DEF R!FirstRead, IsError, IsAnswer
<1> QED BY <1>1, <1>2, <1>3, <1>4, <1>5, <1>6 DEF R!Immutable, R!Mutable

-----------------------------------------------------------------------------
(* The steps of a request *)

\* Request r moves to q while the messages, the changes made and the kept
\* answers stay as they are.
LEMMA QueryStep ==
    ASSUME ReadsInv, NEW r \in Requests, NEW q \in Query, QueryOK(q, captured, life, damage),
           req' = [req EXCEPT ![r] = q], r \in landed => q.pc = "applied" \/ q.status = 204,
           UNCHANGED <<captured, life, ver, damage, landed>>,
           \A c \in cache' : c \in cache \/ KeptOK(c, captured, life, damage)
    PROVE  ReadsInv'
<1>1. /\ req' \in [Requests -> Query] /\ req'[r] = q
      /\ \A s \in Requests \ {r} : req'[s] = req[s]
  BY DEF ReadsInv
<1>2. \A s \in Requests : QueryOK(req'[s], captured', life', damage')
  BY <1>1 DEF ReadsInv
<1>3. \A s \in landed' : req'[s].pc = "applied" \/ req'[s].status = 204
  BY <1>1 DEF ReadsInv
<1>4. \A c \in cache' : KeptOK(c, captured, life, damage)
  BY DEF ReadsInv
<1>5. \A c \in cache' : KeptOK(c, captured', life', damage')
  BY <1>4
<1> QED BY <1>1, <1>2, <1>3, <1>5 DEF ReadsInv

\* What a request becomes when it is answered with the status s.
LEMMA QueryMoved ==
    ASSUME ReadsInv, NEW r \in Requests, NEW s \in Codes,
           req' = [req EXCEPT ![r].pc = "done", ![r].status = s]
    PROVE  \E q \in Query :
             /\ req' = [req EXCEPT ![r] = q] /\ q.pc = "done" /\ q.status = s
             /\ q.op = req[r].op /\ q.id = req[r].id /\ q.limit = req[r].limit
<1> DEFINE q == [req[r] EXCEPT !.pc = "done", !.status = s]
<1>1. req[r] \in Query /\ req \in [Requests -> Query]
  BY DEF ReadsInv
<1>2. /\ q \in Query /\ q.pc = "done" /\ q.status = s
      /\ q.op = req[r].op /\ q.id = req[r].id /\ q.limit = req[r].limit
  BY <1>1 DEF Query, Phases
<1>3. req' = [req EXCEPT ![r] = q]
  BY <1>1 DEF Query
<1> HIDE DEF q
<1> QED BY <1>2, <1>3

\* Request r is answered with g.
LEMMA RespondStep ==
    ASSUME ReadsInv, NEW r \in Requests, NEW g \in Result, req[r].pc \in {"read", "more"},
           R!Respond(r, g), UNCHANGED <<captured, life, ver, damage, landed>>,
           g.status = 200 =>
             /\ SizeOK(req[r].op, req[r].id, req[r].limit, g.bytes, g.intact, captured, damage)
             /\ req[r].op \in R!Immutable => g.ver = 0
             /\ req[r].op \in R!Immutable /\ R!Stored(req[r].id) /\ damage[req[r].id] = "none" =>
                  g.bytes = Fact(captured, req[r].op, req[r].id, req[r].limit)
    PROVE  ReadsInv'
<1> DEFINE q == [req[r] EXCEPT !.pc = "done", !.status = g.status, !.bytes = g.bytes,
                               !.intact = g.intact, !.ver = g.ver]
<1>1. req[r] \in Query /\ req \in [Requests -> Query] /\ QueryOK(req[r], captured, life, damage)
  BY DEF ReadsInv
<1>2. /\ q \in Query /\ q.pc = "done" /\ q.status = g.status /\ q.bytes = g.bytes
      /\ q.intact = g.intact /\ q.op = req[r].op /\ q.id = req[r].id /\ q.limit = req[r].limit
  <2>1. /\ "done" \in Phases /\ g.status \in Codes /\ g.bytes \in Sizes /\ g.ver \in Marks
        /\ g.intact \in BOOLEAN
    BY DEF Phases, Codes, Result
  <2> QED BY <1>1, <2>1 DEF Query
<1>3. req' = [req EXCEPT ![r] = q]
  BY <1>1 DEF Query, R!Respond
<1>4. g.status \in {200, 404, 500}
  BY DEF Result
<1> HIDE DEF q
<1>5. QueryOK(q, captured, life, damage)
  BY <1>1, <1>2, <1>4 DEF QueryOK
<1>6. r \notin landed
  BY <1>1 DEF ReadsInv, QueryOK
<1>7. \A c \in cache' : c \in cache \/ KeptOK(c, captured, life, damage)
  <2>1. CASE g.status = 200 /\ req[r].op \in R!Immutable
    <3> DEFINE c == R!Entry(req[r], g)
    <3>1. cache' = cache \cup {c}
      BY <2>1 DEF R!Respond, R!Keeps
    <3>2. req[r].limit \in Int
      <4>1. req[r].limit \in Bounds
        BY <1>1 DEF Query
      <4> QED BY <4>1, ReadsConstants
    <3>3. /\ req[r].id \in Ids /\ life[req[r].id] # "coming"
          /\ req[r].op = "prefix" => req[r].limit > 0
          /\ req[r].op = "attachment" => captured[req[r].id].att # "none"
      BY <1>1, <2>1 DEF QueryOK, SizeOK
    <3>4. c.op = req[r].op /\ c.id = req[r].id /\ c.limit = req[r].limit
      BY DEF R!Entry
    <3>5. ASSUME life[req[r].id] = "stored", damage[req[r].id] = "none"
          PROVE  c = [op |-> c.op, id |-> c.id, limit |-> c.limit,
                      bytes |-> Fact(captured, c.op, c.id, c.limit), intact |-> TRUE, ver |-> 0]
      <4>1. g.ver = 0 /\ g.intact = TRUE
            /\ g.bytes = Fact(captured, req[r].op, req[r].id, req[r].limit)
        BY <2>1, <3>5 DEF SizeOK, R!Stored
      <4> QED BY <3>4, <4>1 DEF R!Entry
    <3> HIDE DEF c
    <3>6. KeptOK(c, captured, life, damage)
      BY <2>1, <3>2, <3>3, <3>4, <3>5 DEF KeptOK
    <3> QED BY <3>1, <3>6
  <2>2. CASE ~(g.status = 200 /\ req[r].op \in R!Immutable)
    BY <2>2 DEF R!Respond, R!Keeps
  <2> QED BY <2>1, <2>2
<1> QED BY <1>2, <1>3, <1>5, <1>6, <1>7, QueryStep

\* Request r ends with an error, or goes on to another stage.
LEMMA StatusStep ==
    ASSUME ReadsInv, NEW r \in Requests, NEW q \in Query,
           req[r].pc \in {"read", "more", "write", "applied"},
           req' = [req EXCEPT ![r] = q], q.pc = "done", q.status \in {204, 404, 500, 503},
           req[r].pc = "applied" => q.status = 204,
           q.op = req[r].op, q.id = req[r].id, q.limit = req[r].limit,
           UNCHANGED <<captured, life, ver, damage, landed, cache>>
    PROVE  ReadsInv'
<1>1. QueryOK(req[r], captured, life, damage)
  BY DEF ReadsInv
<1>2. QueryOK(q, captured, life, damage)
  BY <1>1 DEF QueryOK
<1>3. r \in landed => q.pc = "applied" \/ q.status = 204
  BY <1>1 DEF ReadsInv, QueryOK
<1> QED BY <1>2, <1>3, QueryStep

\* What a prefix that is enough, and one that is not, say of the header section.
LEMMA PrefixIsEnough ==
    ASSUME ReadsInv, NEW id \in Ids, NEW g, g.intact = TRUE, NEW ends \in BOOLEAN,
           g.bytes = R!Least(HeaderPrefix, captured[id].len), R!Says(id, g, ends)
    PROVE  R!Complete(g, ends) <=> ~Longer(captured, id)
<1>1. ends <=> R!EndsHeaderSection(id, g.bytes)
  BY DEF R!Says
<1>2. R!Complete(g, ends) <=> g.bytes < HeaderPrefix \/ R!EndsHeaderSection(id, g.bytes)
  BY <1>1 DEF R!Complete
<1> QED BY <1>2, MessageFacts, ReadsConstants DEF R!EndsHeaderSection, R!Least, Longer

LEMMA ReadStep ==
    ASSUME ReadsInv, NEW r \in Requests, R!Read(r)
    PROVE  ReadsInv'
<1>1. /\ req[r] \in Query /\ req \in [Requests -> Query] /\ QueryOK(req[r], captured, life, damage)
      /\ req[r].pc = "read" /\ UNCHANGED <<captured, life, ver, damage, landed>>
  BY DEF ReadsInv, R!Read
<1>2. /\ req[r].id \in Ids /\ req[r].op \in R!Immutable \cup R!Mutable
      /\ req[r].op = "prefix" => req[r].limit > 0
  BY <1>1 DEF QueryOK, Operations
<1>3. PICK g \in R!FirstRead(req[r]) \cup {R!Error("Database")}, ends \in BOOLEAN :
        /\ R!Says(req[r].id, g, ends)
        /\ IF req[r].op = "headers" /\ g.status = 200 /\ ~R!Complete(g, ends)
           THEN req' = [req EXCEPT ![r].pc = "more"] /\ UNCHANGED cache
           ELSE R!Respond(r, g)
  BY DEF R!Read
<1>4. CASE g.status # 200
  <2>1. g \in Result
    <3>1. CASE g = R!Error("Database")
      BY <3>1, ErrorsAreResults DEF IsError
    <3>2. CASE g \in R!FirstRead(req[r])
      BY <1>1, <1>2, <3>2, FirstReadResults
    <3> QED BY <1>3, <3>1, <3>2
  <2>2. R!Respond(r, g)
    BY <1>3, <1>4
  <2> QED BY <1>1, <1>4, <2>1, <2>2, RespondStep
<1>5. CASE g.status = 200
  <2>1. g \in R!FirstRead(req[r])
    BY <1>3, <1>5, ErrorsAreResults DEF IsError
  <2>2. FirstOK(req[r], g)
    BY <1>1, <1>2, <1>5, <2>1, FirstReadAnswers
  <2>3. /\ g \in Result
        /\ req[r].op # "headers" =>
             SizeOK(req[r].op, req[r].id, req[r].limit, g.bytes, g.intact, captured, damage)
        /\ req[r].op = "headers" /\ damage[req[r].id] = "none" =>
             g.intact = TRUE /\ g.bytes = R!Least(HeaderPrefix, captured[req[r].id].len)
        /\ req[r].op \in R!Immutable => g.ver = 0
        /\ req[r].op \in R!Immutable \ {"headers"} /\ R!Stored(req[r].id)
             /\ damage[req[r].id] = "none" =>
                g.bytes = Fact(captured, req[r].op, req[r].id, req[r].limit)
    BY <2>2, Zenon DEF FirstOK
  <2>4. req[r].op = "headers" /\ damage[req[r].id] = "none" =>
          (R!Complete(g, ends) <=> ~Longer(captured, req[r].id))
    BY <1>2, <1>3, <2>3, PrefixIsEnough
  <2>5. CASE R!Respond(r, g) /\ (req[r].op = "headers" => R!Complete(g, ends))
    <3>1. req[r].op = "headers" /\ damage[req[r].id] = "none" =>
            g.bytes = Fact(captured, req[r].op, req[r].id, req[r].limit)
      BY <2>3, <2>4, <2>5 DEF Fact
    <3>2. SizeOK(req[r].op, req[r].id, req[r].limit, g.bytes, g.intact, captured, damage)
      BY <2>3, <3>1 DEF SizeOK, Whole
    <3>3. req[r].op \in R!Immutable /\ R!Stored(req[r].id) /\ damage[req[r].id] = "none" =>
            g.bytes = Fact(captured, req[r].op, req[r].id, req[r].limit)
      BY <2>3, <3>1
    <3> QED BY <1>1, <2>3, <2>5, <3>2, <3>3, RespondStep
  <2>6. CASE /\ req[r].op = "headers" /\ ~R!Complete(g, ends)
             /\ req' = [req EXCEPT ![r].pc = "more"] /\ UNCHANGED cache
    <3> DEFINE q == [req[r] EXCEPT !.pc = "more"]
    <3>1. /\ q \in Query /\ q.pc = "more" /\ q.status = req[r].status
          /\ q.op = req[r].op /\ q.id = req[r].id /\ q.limit = req[r].limit
      BY <1>1 DEF Query, Phases
    <3>2. req' = [req EXCEPT ![r] = q] /\ UNCHANGED cache
      BY <1>1, <2>6 DEF Query
    <3> HIDE DEF q
    <3>3. QueryOK(q, captured, life, damage)
      BY <1>1, <2>4, <2>6, <3>1 DEF QueryOK, R!Writes
    <3>4. r \notin landed
      BY <1>1 DEF ReadsInv, QueryOK
    <3> QED BY <1>1, <3>1, <3>2, <3>3, <3>4, QueryStep
  <2> QED BY <1>3, <1>5, <2>5, <2>6
<1> QED BY <1>4, <1>5

LEMMA ReadMoreStep ==
    ASSUME ReadsInv, NEW r \in Requests, R!ReadMore(r)
    PROVE  ReadsInv'
<1>1. /\ QueryOK(req[r], captured, life, damage)
      /\ req[r].pc = "more" /\ UNCHANGED <<captured, life, ver, damage, landed>>
  BY DEF ReadsInv, R!ReadMore
<1>2. /\ req[r].id \in Ids /\ req[r].op = "headers"
      /\ damage[req[r].id] = "none" => Longer(captured, req[r].id)
  BY <1>1 DEF QueryOK
<1>3. PICK g \in R!GetRaw(req[r].id) \cup {R!Error("Database")} : R!Respond(r, g)
  BY DEF R!ReadMore
<1>4. IsError(g) \/ IsAnswer(g, captured[req[r].id].len, damage[req[r].id] # "frame", 0)
  BY <1>2, <1>3, RawAnswers, ErrorsAreResults
<1>5. g \in Result
  BY <1>4 DEF IsError, IsAnswer
<1>6. ASSUME g.status = 200
      PROVE  /\ SizeOK(req[r].op, req[r].id, req[r].limit, g.bytes, g.intact, captured, damage)
             /\ g.ver = 0
             /\ damage[req[r].id] = "none" =>
                  g.bytes = Fact(captured, req[r].op, req[r].id, req[r].limit)
  <2>1. IsAnswer(g, captured[req[r].id].len, damage[req[r].id] # "frame", 0)
    BY <1>4, <1>6 DEF IsError
  <2>2. damage[req[r].id] = "none" =>
          g.bytes = Fact(captured, req[r].op, req[r].id, req[r].limit)
    BY <1>2, <2>1 DEF Fact, IsAnswer
  <2> QED BY <1>2, <2>1, <2>2 DEF SizeOK, Whole, IsAnswer
<1> QED BY <1>1, <1>3, <1>5, <1>6, RespondStep

LEMMA ReadsAsk ==
    ASSUME ReadsInv, NEW r \in Requests, NEW op \in Operations, NEW id \in Ids, NEW n \in Limits,
           R!Ask(r, op, id, n)
    PROVE  ReadsInv'
<1> DEFINE refused == op = "prefix" /\ n <= 0
<1>1. R!StatusOf("BadRequest") = 400
  BY DEF R!StatusOf
<1>2. /\ req[r].pc = "idle" /\ life[id] # "coming"
      /\ UNCHANGED <<captured, life, ver, damage, landed, cache>>
  BY DEF R!Ask
<1>3. r \notin landed
  BY <1>2 DEF ReadsInv, QueryOK
<1>4. ASSUME NEW p \in Phases, NEW s \in Codes,
             req' = [req EXCEPT ![r] = R!NewRequest(op, id, n, p, s)],
             QueryOK(R!NewRequest(op, id, n, p, s), captured, life, damage)
      PROVE  ReadsInv'
  <2>1. R!NewRequest(op, id, n, p, s) \in Query
    BY SizesAndMarks DEF Query, Bounds, R!NewRequest
  <2> QED BY <1>2, <1>3, <1>4, <2>1, QueryStep
<1>5. CASE refused
  <2>1. req' = [req EXCEPT ![r] = R!NewRequest(op, id, n, "done", 400)]
    BY <1>1, <1>5 DEF R!Ask
  <2>2. QueryOK(R!NewRequest(op, id, n, "done", 400), captured, life, damage)
    BY <1>2 DEF QueryOK, R!NewRequest
  <2>3. "done" \in Phases /\ 400 \in Codes
    BY DEF Phases, Codes
  <2> QED BY <1>4, <2>1, <2>2, <2>3
<1>6. CASE ~refused /\ op \in R!Writes
  <2>1. req' = [req EXCEPT ![r] = R!NewRequest(op, id, n, "write", 0)]
    BY <1>6 DEF R!Ask
  <2>2. QueryOK(R!NewRequest(op, id, n, "write", 0), captured, life, damage)
    BY <1>2, <1>6 DEF QueryOK, R!NewRequest
  <2>3. "write" \in Phases /\ 0 \in Codes
    BY DEF Phases, Codes
  <2> QED BY <1>4, <2>1, <2>2, <2>3
<1>7. CASE ~refused /\ op \notin R!Writes
  <2>1. req' = [req EXCEPT ![r] = R!NewRequest(op, id, n, "read", 0)]
    BY <1>7 DEF R!Ask
  <2>2. n \in Int
    BY ReadsConstants DEF Bounds
  <2>3. QueryOK(R!NewRequest(op, id, n, "read", 0), captured, life, damage)
    BY <1>2, <1>7, <2>2 DEF QueryOK, R!NewRequest
  <2>4. "read" \in Phases /\ 0 \in Codes
    BY DEF Phases, Codes
  <2> QED BY <1>4, <2>1, <2>3, <2>4
<1> QED BY <1>5, <1>6, <1>7

LEMMA ReadsApply ==
    ASSUME ReadsInv, NEW r \in Requests, R!Apply(r)
    PROVE  ReadsInv'
<1> DEFINE id == req[r].id
<1>1. /\ req[r] \in Query /\ req \in [Requests -> Query] /\ QueryOK(req[r], captured, life, damage)
      /\ req[r].pc = "write" /\ UNCHANGED <<captured, damage, cache>>
  BY DEF ReadsInv, R!Apply
<1>2. id \in Ids /\ req[r].op \in R!Writes /\ req[r].status = 0
  BY <1>1 DEF QueryOK
<1>3. CASE /\ req' = [req EXCEPT ![r].pc = "done",
                         ![r].status = R!StatusOf(IF R!Stored(id) THEN "Database" ELSE "NotFound")]
           /\ UNCHANGED <<life, ver, landed>>
  <2>1. R!StatusOf(IF R!Stored(id) THEN "Database" ELSE "NotFound") \in {404, 500}
    BY DEF R!StatusOf
  <2>2. PICK s \in Codes : s = R!StatusOf(IF R!Stored(id) THEN "Database" ELSE "NotFound")
    BY <2>1 DEF Codes
  <2>3. req' = [req EXCEPT ![r].pc = "done", ![r].status = s]
    BY <1>3, <2>2
  <2>4. PICK q \in Query :
          /\ req' = [req EXCEPT ![r] = q] /\ q.pc = "done" /\ q.status = s
          /\ q.op = req[r].op /\ q.id = req[r].id /\ q.limit = req[r].limit
    BY <2>3, QueryMoved
  <2>5. q.status \in {204, 404, 500, 503}
    BY <2>1, <2>2, <2>4
  <2>6. req[r].pc = "write" /\ UNCHANGED <<captured, life, ver, damage, landed, cache>>
    BY <1>1, <1>3
  <2> QED BY <2>4, <2>5, <2>6, StatusStep
<1>4. CASE /\ R!Stored(id) /\ req[r].op = "update" => ver[id] < MaxVer
           /\ R!Stored(id) /\ landed' = landed \cup {r}
           /\ req' = [req EXCEPT ![r].pc = "applied"]
           /\ IF req[r].op = "update"
              THEN ver' = [ver EXCEPT ![id] = @ + 1] /\ UNCHANGED life
              ELSE life' = [life EXCEPT ![id] = "deleted"] /\ UNCHANGED ver
  <2>1. ver' \in [Ids -> Marks]
    <3>1. ver \in [Ids -> Marks] /\ ver[id] \in Marks
      BY <1>2 DEF ReadsInv
    <3>2. req[r].op = "update" => ver[id] + 1 \in Marks
      BY <1>4, <3>1, SizesAndMarks, ReadsConstants
    <3> HIDE DEF id
    <3> QED BY <1>2, <1>4, <3>1, <3>2
  <2>2. /\ life' \in [Ids -> {"coming", "stored", "deleted"}]
        /\ \A i \in Ids : /\ life'[i] = "coming" <=> life[i] = "coming"
                          /\ life'[i] = "stored" => life[i] = "stored"
    <3>1. life \in [Ids -> {"coming", "stored", "deleted"}] /\ life[id] = "stored"
      BY <1>4 DEF ReadsInv, R!Stored
    <3>2. CASE UNCHANGED life
      BY <3>1, <3>2
    <3>3. CASE life' = [life EXCEPT ![id] = "deleted"]
      <4> HIDE DEF id
      <4> QED BY <1>2, <3>1, <3>3
    <3> QED BY <1>4, <3>2, <3>3
  <2> DEFINE q == [req[r] EXCEPT !.pc = "applied"]
  <2>3. /\ q \in Query /\ q.pc = "applied" /\ q.status = 0
        /\ q.op = req[r].op /\ q.id = req[r].id /\ q.limit = req[r].limit
    BY <1>1, <1>2 DEF Query, Phases
  <2>4. /\ req' \in [Requests -> Query] /\ req'[r] = q
        /\ \A s \in Requests \ {r} : req'[s] = req[s]
    BY <1>1, <1>4, <2>3 DEF Query
  <2> HIDE DEF q
  <2>5. ASSUME NEW s \in Requests PROVE QueryOK(req'[s], captured', life', damage')
    <3>1. CASE s = r
      BY <1>1, <1>2, <2>2, <2>3, <2>4, <3>1 DEF QueryOK
    <3>2. CASE s # r
      <4>1. /\ QueryOK(req[s], captured, life, damage) /\ req'[s] = req[s]
            /\ captured' = captured /\ damage' = damage
        BY <1>1, <2>4, <3>2 DEF ReadsInv
      <4> QED BY <2>2, <4>1 DEF QueryOK
    <3> QED BY <3>1, <3>2
  <2>6. \A s \in landed' : s \in Requests /\ (req'[s].pc = "applied" \/ req'[s].status = 204)
    BY <1>4, <2>3, <2>4 DEF ReadsInv
  <2>7. ASSUME NEW c \in cache' PROVE KeptOK(c, captured', life', damage')
    <3>1. KeptOK(c, captured, life, damage) /\ captured' = captured /\ damage' = damage
      BY <1>1 DEF ReadsInv
    <3> QED BY <2>2, <3>1 DEF KeptOK
  <2> QED BY <1>1, <2>1, <2>2, <2>4, <2>5, <2>6, <2>7 DEF ReadsInv
<1> QED BY <1>3, <1>4 DEF R!Apply

LEMMA ReadsNext ==
    ASSUME ReadsInv, R!Next \/ UNCHANGED readsVars
    PROVE  ReadsInv'
<1>1. ASSUME NEW id \in Ids, R!Store(id) PROVE ReadsInv'
  <2>1. /\ life \in [Ids -> {"coming", "stored", "deleted"}] /\ life[id] = "coming"
        /\ life' = [life EXCEPT ![id] = "stored"]
        /\ UNCHANGED <<captured, ver, damage, req, landed, cache>>
    BY <1>1 DEF ReadsInv, R!Store
  <2>2. /\ life' \in [Ids -> {"coming", "stored", "deleted"}]
        /\ \A i \in Ids : life[i] # "coming" => life'[i] = life[i]
    BY <2>1
  <2>3. ASSUME NEW s \in Requests PROVE QueryOK(req'[s], captured', life', damage')
    <3>1. QueryOK(req[s], captured, life, damage)
      BY DEF ReadsInv
    <3> QED BY <2>1, <2>2, <3>1 DEF QueryOK
  <2>4. ASSUME NEW c \in cache' PROVE KeptOK(c, captured', life', damage')
    <3>1. KeptOK(c, captured, life, damage)
      BY <2>1 DEF ReadsInv
    <3> QED BY <2>1, <2>2, <3>1 DEF KeptOK
  <2> QED BY <2>1, <2>2, <2>3, <2>4 DEF ReadsInv
<1>2. ASSUME NEW id \in Ids, R!Damage(id) PROVE ReadsInv'
  <2>1. /\ damage' \in [Ids -> {"none", "frame", "row"}]
        /\ \A i \in Ids : damage'[i] = "none" => damage[i] = "none"
        /\ UNCHANGED <<captured, life, ver, req, landed, cache>>
    BY <1>2 DEF R!Damage, ReadsInv
  <2>2. ASSUME NEW s \in Requests PROVE QueryOK(req'[s], captured', life', damage')
    <3>1. QueryOK(req[s], captured, life, damage)
      BY DEF ReadsInv
    <3> QED BY <2>1, <3>1 DEF QueryOK, SizeOK
  <2>3. ASSUME NEW c \in cache' PROVE KeptOK(c, captured', life', damage')
    <3>1. KeptOK(c, captured, life, damage)
      BY <2>1 DEF ReadsInv
    <3> QED BY <2>1, <3>1 DEF KeptOK
  <2> QED BY <2>1, <2>2, <2>3 DEF ReadsInv
<1>3. ASSUME NEW r \in Requests, R!TimeOutReads(r) PROVE ReadsInv'
  <2>1. R!StatusOf("TimedOut") = 503
    BY DEF R!StatusOf
  <2>2. PICK s \in Codes : s = R!StatusOf("TimedOut")
    BY <2>1 DEF Codes
  <2>3. /\ req[r].pc \in {"read", "more"}
        /\ req' = [req EXCEPT ![r].pc = "done", ![r].status = s]
        /\ UNCHANGED <<captured, life, ver, damage, landed, cache>>
    BY <1>3, <2>2 DEF R!TimeOutReads
  <2>4. PICK q \in Query :
          /\ req' = [req EXCEPT ![r] = q] /\ q.pc = "done" /\ q.status = s
          /\ q.op = req[r].op /\ q.id = req[r].id /\ q.limit = req[r].limit
    BY <2>3, QueryMoved
  <2>5. q.status \in {204, 404, 500, 503}
    BY <2>1, <2>2, <2>4
  <2>6. /\ req[r].pc \in {"read", "more"} /\ req[r].pc # "applied"
        /\ UNCHANGED <<captured, life, ver, damage, landed, cache>>
    BY <2>3
  <2> QED BY <2>4, <2>5, <2>6, StatusStep
<1>4. ASSUME NEW r \in Requests, R!Confirm(r) PROVE ReadsInv'
  <2>1. PICK s \in Codes : s = 204
    BY DEF Codes
  <2>2. /\ req[r].pc = "applied"
        /\ req' = [req EXCEPT ![r].pc = "done", ![r].status = s]
        /\ UNCHANGED <<captured, life, ver, damage, landed, cache>>
    BY <1>4, <2>1 DEF R!Confirm
  <2>3. PICK q \in Query :
          /\ req' = [req EXCEPT ![r] = q] /\ q.pc = "done" /\ q.status = s
          /\ q.op = req[r].op /\ q.id = req[r].id /\ q.limit = req[r].limit
    BY <2>2, QueryMoved
  <2>4. q.status = 204 /\ q.status \in {204, 404, 500, 503}
    BY <2>1, <2>3
  <2>5. req[r].pc = "applied" /\ UNCHANGED <<captured, life, ver, damage, landed, cache>>
    BY <2>2
  <2> QED BY <2>3, <2>4, <2>5, StatusStep
<1>5. CASE UNCHANGED readsVars
  <2>1. ASSUME NEW c \in cache' PROVE KeptOK(c, captured', life', damage')
    BY <1>5 DEF ReadsInv, readsVars
  <2> QED BY <1>5, <2>1 DEF ReadsInv, readsVars
<1> QED BY <1>1, <1>2, <1>3, <1>4, <1>5, ReadStep, ReadMoreStep, ReadsAsk, ReadsApply
        DEF R!Next, Operations

\* While its message is stored and not damaged, a kept answer can be had again.
LEMMA KeptCanBeHad ==
    ASSUME ReadsInv, NEW c \in cache, R!Stored(c.id), damage[c.id] = "none"
    PROVE  \E g \in R!Fresh(c) : g.status = 200 /\ c = R!Entry(c, g)
<1> DEFINE n == Fact(captured, c.op, c.id, c.limit)
           g == R!Got(200, n, TRUE, 0)
<1>1. KeptOK(c, captured, life, damage)
  BY DEF ReadsInv
<1>2. /\ c.op \in R!Immutable /\ c.id \in Ids /\ c.limit \in Int
      /\ c.op = "prefix" => c.limit > 0
      /\ c = [op |-> c.op, id |-> c.id, limit |-> c.limit, bytes |-> n, intact |-> TRUE, ver |-> 0]
  BY <1>1 DEF KeptOK, R!Stored
<1>3. g.status = 200 /\ g.bytes = n /\ g.intact = TRUE /\ g.ver = 0
  BY DEF R!Got
<1>4. c = R!Entry(c, g)
  <2> HIDE DEF g, n
  <2> QED BY <1>2, <1>3 DEF R!Entry
<1>5. captured[c.id].len \in Nat /\ captured[c.id].att \in {"none", "inline", "located"}
  BY <1>2, MessageFacts
<1>6. /\ R!GetRaw(c.id) = {R!Got(200, captured[c.id].len, TRUE, 0)}
      /\ \A k : R!GetRawPrefix(c.id, k) = {R!Got(200, R!Least(k, captured[c.id].len), TRUE, 0)}
  <2>1. R!Unpacked(c.id) = {captured[c.id].len} /\ (damage[c.id] # "frame") = TRUE
    BY DEF R!Unpacked
  <2>2. R!Decompress(c.id) = {R!Got(200, captured[c.id].len, TRUE, 0)}
    BY <2>1 DEF R!Decompress
  <2>3. \A k : R!DecompressPrefix(c.id, k) = {R!Got(200, R!Least(k, captured[c.id].len), TRUE, 0)}
    BY <2>1 DEF R!DecompressPrefix
  <2> QED BY <2>2, <2>3 DEF R!GetRaw, R!GetRawPrefix
<1>7. CASE c.op # "headers" /\ ~(c.op = "attachment" /\ captured[c.id].att = "none")
  <2>1. g \in R!FirstRead(c)
    <3>1. CASE c.op \in {"raw", "eml"}
      BY <1>6, <3>1 DEF R!FirstRead, R!GetRawMessage, R!ExportMessage, Fact
    <3>2. CASE c.op = "prefix"
      <4>1. n = R!Least(c.limit, captured[c.id].len)
        BY <3>2 DEF Fact
      <4>2. R!FirstRead(c) = R!GetRawPrefix(c.id, c.limit)
        BY <3>2 DEF R!FirstRead, R!GetRawMessage
      <4>3. R!GetRawPrefix(c.id, c.limit) = {R!Got(200, R!Least(c.limit, captured[c.id].len), TRUE, 0)}
        BY <1>6, Zenon
      <4> HIDE DEF n
      <4> QED BY <4>1, <4>2, <4>3
    <3>3. CASE c.op = "attachments"
      <4>1. (damage[c.id] # "row") = TRUE /\ n = IF captured[c.id].att # "none" THEN 1 ELSE 0
        BY <3>3 DEF Fact
      <4> QED BY <3>3, <4>1 DEF R!FirstRead, R!GetAttachments
    <3>4. CASE c.op = "attachment"
      <4>1. /\ (damage[c.id] # "row") = TRUE /\ (damage[c.id] = "none") = TRUE
            /\ n = R!PartSize /\ damage[c.id] \notin {"row"} /\ damage[c.id] \notin {"frame", "row"}
        BY <1>7, <3>4 DEF Fact, R!PartSize
      <4>2. R!FirstRead(c) = R!IntoAttachment(c.id)
        BY <1>7, <3>4 DEF R!FirstRead, R!GetAttachment
      <4> HIDE DEF n
      <4> QED BY <4>1, <4>2 DEF R!IntoAttachment
    <3> QED BY <1>2, <1>7, <3>1, <3>2, <3>3, <3>4 DEF R!Immutable
  <2>2. g \in R!Fresh(c)
    <3> DEFINE e == R!EndsHeaderSection(c.id, g.bytes)
    <3>1. e \in BOOLEAN /\ R!Says(c.id, g, e)
      BY DEF R!EndsHeaderSection, R!Says
    <3> HIDE DEF g, e
    <3> QED BY <1>7, <2>1, <3>1 DEF R!Fresh
  <2> HIDE DEF g
  <2> QED BY <1>3, <1>4, <2>2
<1>8. CASE c.op = "headers"
  <2> DEFINE p == R!Got(200, R!Least(HeaderPrefix, captured[c.id].len), TRUE, 0)
             e == R!EndsHeaderSection(c.id, p.bytes)
  <2>1. e \in BOOLEAN /\ R!Says(c.id, p, e)
    BY DEF R!EndsHeaderSection, R!Says
  <2>2. /\ p.status = 200 /\ p.bytes = R!Least(HeaderPrefix, captured[c.id].len)
        /\ p.intact = TRUE
    BY DEF R!Got
  <2>3. p \in R!FirstRead(c)
    BY <1>6, <1>8 DEF R!FirstRead
  <2> HIDE DEF e
  <2>4. R!Complete(p, e) <=> ~Longer(captured, c.id)
    <3> HIDE DEF p
    <3>1. c.id \in Ids /\ e \in BOOLEAN /\ R!Says(c.id, p, e)
      BY <1>2, <2>1
    <3>2. p.intact = TRUE /\ p.bytes = R!Least(HeaderPrefix, captured[c.id].len)
      BY <2>2
    <3> HIDE DEF n, g
    <3> QED BY <3>1, <3>2, PrefixIsEnough
  <2>5. CASE ~Longer(captured, c.id)
    <3>1. g = p
      BY <1>8, <2>5 DEF Fact
    <3>2. g \in R!Fresh(c)
      <4> HIDE DEF g, p
      <4> QED BY <2>1, <2>3, <2>4, <2>5, <3>1 DEF R!Fresh
    <3> HIDE DEF g
    <3> QED BY <1>3, <1>4, <3>2
  <2>6. CASE Longer(captured, c.id)
    <3>1. n = captured[c.id].len
      BY <1>8, <2>6 DEF Fact
    <3>2. g \in R!GetRaw(c.id)
      BY <1>6, <3>1
    <3>3. g \in R!Fresh(c)
      <4> HIDE DEF g, p
      <4> QED BY <1>8, <2>1, <2>2, <2>3, <2>4, <2>6, <3>2 DEF R!Fresh
    <3> HIDE DEF g
    <3> QED BY <1>3, <1>4, <3>3
  <2> QED BY <2>5, <2>6
<1>9. ~(c.op = "attachment" /\ captured[c.id].att = "none")
  BY <1>1 DEF KeptOK
<1> QED BY <1>7, <1>8, <1>9

LEMMA ReadsHold ==
    ASSUME ReadsInv
    PROVE  AnswersAreTrue
<1>1. \A r \in Requests : req[r] \in Query /\ QueryOK(req[r], captured, life, damage)
  BY DEF ReadsInv
<1>2. R!TypeOK
  <2>1. \A r \in Requests : /\ req[r].pc \in {"idle", "read", "more", "write", "applied", "done"}
                            /\ req[r].pc = "done" <=> req[r].status \in {200, 204, 400, 404, 500, 503}
                            /\ req[r].bytes \in Sizes
    BY <1>1 DEF Query, QueryOK, Phases, Codes
  <2> QED BY <2>1 DEF ReadsInv, R!TypeOK, Marks, Sizes
<1>3. R!KeptIsCurrent
  BY KeptCanBeHad DEF R!KeptIsCurrent
<1>4. R!HeadersAreWhole
  <2> SUFFICES ASSUME NEW r \in Requests, req[r].op = "headers", req[r].status = 200,
                      damage[req[r].id] = "none"
               PROVE  \/ req[r].bytes = captured[req[r].id].len
                      \/ R!EndsHeaderSection(req[r].id, req[r].bytes)
    BY DEF R!HeadersAreWhole
  <2>1. req[r].id \in Ids /\ req[r].bytes = Fact(captured, "headers", req[r].id, req[r].limit)
    BY <1>1 DEF QueryOK, SizeOK
  <2> QED BY <2>1, MessageFacts, ReadsConstants DEF Fact, Longer, R!Least, R!EndsHeaderSection
<1>5. R!SizeAsRecorded
  <2> SUFFICES ASSUME NEW r \in Requests, req[r].status = 200
               PROVE  /\ req[r].op \in {"raw", "eml"} \cup R!Mutable =>
                           req[r].bytes = captured[req[r].id].len
                      /\ req[r].op = "attachment" /\ captured[req[r].id].att = "located" =>
                           req[r].bytes = R!PartSize
                      /\ req[r].op = "prefix" => req[r].bytes <= req[r].limit
                      /\ ~req[r].intact => damage[req[r].id] # "none"
    BY DEF R!SizeAsRecorded
  <2>1. SizeOK(req[r].op, req[r].id, req[r].limit, req[r].bytes, req[r].intact, captured, damage)
    BY <1>1 DEF QueryOK
  <2> QED BY <2>1 DEF SizeOK, Whole, R!Mutable, R!PartSize
<1>6. R!ErrorMeansNoChange
  BY <1>1 DEF ReadsInv, QueryOK, R!ErrorMeansNoChange
<1> QED BY <1>2, <1>3, <1>4, <1>5, <1>6 DEF AnswersAreTrue

LEMMA ReadsAlways ==
    SurfaceSpec => []ReadsInv
<1>1. SurfaceInit => ReadsInv
  BY ReadsInitial DEF SurfaceInit
<1>2. ReadsInv /\ [SurfaceNext]_surfaceVars => ReadsInv'
  BY OnePart, ReadsNext
<1> QED BY <1>1, <1>2, PTL DEF SurfaceSpec

\* Whenever messages are stored, damaged, changed or deleted while requests for
\* them are read, timed out or applied: an answer a browser keeps is, flags and
\* tags included, one that asking again could give, and a header section is
\* served whole, as long as the message is stored and the disk keeps it.  Whatever
\* damage does to a frame or a row, which no checksum would notice, a source, a
\* message and a located part are served at their recorded size or not at all, a
\* prefix within its limit, and a message that is not damaged as it was captured.
\* No error a write is answered with, a timeout least of all, stands for a change
\* that was made.
THEOREM AnswersAreAlwaysTrue == SurfaceSpec => []AnswersAreTrue
<1>1. ReadsInv => AnswersAreTrue
  BY ReadsHold
<1> QED BY <1>1, ReadsAlways, PTL

-----------------------------------------------------------------------------
(* The guard *)

\* What the constants of Gate are.
LEMMA GateConstants ==
    /\ \A p \in Ports : p \in Int /\ p >= 1
    /\ HostTexts \subseteq G!HostText /\ OriginTexts \subseteq G!OriginText
<1>1. G!GateAssumption
  BY SurfaceAssumption, Zenon
<1>2. /\ Ports \subseteq 1 .. G!MaxPort
      /\ HostTexts \subseteq G!HostText /\ OriginTexts \subseteq G!OriginText
  BY <1>1, Zenon DEF G!GateAssumption
<1>3. ASSUME NEW p \in Ports PROVE p \in Int /\ p >= 1
  <2>1. p \in 1 .. G!MaxPort
    BY <1>2, Zenon
  <2> QED BY <2>1 DEF G!MaxPort
<1> QED
  BY <1>2, <1>3

\* The one spelling of a name and a port that a browser sends.
Canon(scheme, name, port) ==
  [name |-> name, upper |-> FALSE, port |-> IF port = G!DefaultPort(scheme) THEN -1 ELSE port,
   clean |-> TRUE]

Readable(a) == a.clean /\ a.name # G!NoName /\ a.port \notin {-2, 0}

\* Reading an authority gives that spelling of it, or nothing.
LEMMA NormalizeIsCanon ==
    ASSUME NEW a \in G!Authority, NEW scheme
    PROVE  G!NormalizeAuthority(a, scheme) =
             IF Readable(a) THEN {Canon(scheme, a.name, a.port)} ELSE {}
<1>1. CASE ~Readable(a)
  BY <1>1 DEF Readable, G!NormalizeAuthority, G!BadPort
<1>2. CASE Readable(a)
  BY <1>2 DEF Canon, Readable, G!NormalizeAuthority, G!BadPort, G!IsDefaultPort, G!NoPort
<1> QED BY <1>1, <1>2

LEMMA Defaults ==
    \A scheme : G!DefaultPort(scheme) \in {80, 443}
BY DEF G!DefaultPort

\* Two ports have one spelling exactly when they mean the same port.
LEMMA CanonMeans ==
    ASSUME NEW scheme, NEW n, NEW m, NEW p \in Ports \cup {-1}, NEW q \in Ports \cup {-1}
    PROVE  /\ Canon(scheme, n, p) = Canon(scheme, m, q) <=>
                /\ n = m
                /\ (IF p = -1 THEN G!DefaultPort(scheme) ELSE p)
                     = (IF q = -1 THEN G!DefaultPort(scheme) ELSE q)
           /\ G!Effective(scheme, Canon(scheme, n, p))
                = <<n, IF p = -1 THEN G!DefaultPort(scheme) ELSE p>>
           /\ Canon(scheme, n, p).port \in Ports \cup {-1}
           /\ Canon(scheme, n, p).port # G!DefaultPort(scheme)
<1>1. /\ p \in Int /\ q \in Int /\ p # 0 /\ q # 0 /\ G!DefaultPort(scheme) \in Int
      /\ G!DefaultPort(scheme) > 0
  BY GateConstants, Defaults
<1>2. Canon(scheme, n, p) = Canon(scheme, m, q) <=>
        n = m /\ Canon(scheme, n, p).port = Canon(scheme, m, q).port
  BY DEF Canon
<1>3. /\ Canon(scheme, n, p).port = (IF p = G!DefaultPort(scheme) THEN -1 ELSE p)
      /\ Canon(scheme, m, q).port = (IF q = G!DefaultPort(scheme) THEN -1 ELSE q)
      /\ Canon(scheme, n, p).name = n
  BY DEF Canon
<1> QED BY <1>1, <1>2, <1>3 DEF G!Effective, G!NoPort

\* A proxy's spelling of Host is read as the browser's own.
LEMMA RespelledIsCanon ==
    ASSUME NEW d \in G!Dials, NEW h \in G!Respelled(d)
    PROVE  /\ h \in G!Authority /\ h.name = d.name /\ Readable(h)
           /\ G!BrowserAuthority(d) = Canon(d.scheme, d.name, d.port)
           /\ G!BrowserAuthority(d) \in G!Authority /\ Readable(G!BrowserAuthority(d))
           /\ h.port \in Ports \cup {-1}
           /\ Canon(d.scheme, h.name, h.port) = Canon(d.scheme, d.name, d.port)
<1> DEFINE b == G!BrowserAuthority(d)
<1>1. /\ d.scheme \in G!Schemes /\ d.name \in Names /\ d.name # G!NoName /\ d.port \in Ports
      /\ d.port \in Int /\ d.port >= 1
  BY GateConstants DEF G!Dials
<1>2. b = Canon(d.scheme, d.name, d.port)
  BY DEF G!BrowserAuthority, Canon, G!IsDefaultPort, G!NoPort
<1>3. b.port \in Ports \cup {-1}
  BY <1>1, <1>2, CanonMeans
<1>4. b.name = d.name /\ b.upper = FALSE /\ b.clean = TRUE
  BY <1>2 DEF Canon
<1>5. b = [name |-> d.name, upper |-> FALSE, port |-> b.port, clean |-> TRUE]
  BY <1>2 DEF Canon
<1>6. b \in G!Authority /\ Readable(b)
  <2>1. b.port # -2 /\ b.port # 0
    BY <1>3, GateConstants
  <2> HIDE DEF b
  <2> QED BY <1>1, <1>3, <1>4, <1>5, <2>1 DEF G!Authority, Readable, G!NoPort
<1>7. \/ h = b
      \/ h = [name |-> d.name, upper |-> FALSE, port |-> d.port, clean |-> TRUE]
      \/ h = [name |-> d.name, upper |-> TRUE, port |-> b.port, clean |-> TRUE]
  <2>1. h \in {b, [b EXCEPT !.port = d.port], [b EXCEPT !.upper = TRUE]}
    BY DEF G!Respelled
  <2> HIDE DEF b
  <2> QED BY <1>5, <2>1
<1>8. h.name = d.name /\ h.clean = TRUE /\ h.port \in {b.port, d.port}
  <2> HIDE DEF b
  <2> QED BY <1>4, <1>7
<1>9. h \in G!Authority
  <2>1. ASSUME NEW u \in BOOLEAN, NEW p \in Ports \cup {-1}
        PROVE  [name |-> d.name, upper |-> u, port |-> p, clean |-> TRUE] \in G!Authority
    BY <1>1 DEF G!Authority, G!NoPort
  <2>2. b.port \in Ports \cup {-1} /\ d.port \in Ports \cup {-1}
    BY <1>1, <1>3
  <2> HIDE DEF b
  <2> QED BY <1>6, <1>7, <2>1, <2>2
<1>10. h.port \in Ports \cup {-1} /\ h.port # -2 /\ h.port # 0
  BY <1>1, <1>3, <1>8, GateConstants
<1>11. Canon(d.scheme, h.name, h.port) = Canon(d.scheme, d.name, d.port)
  <2>1. Canon(d.scheme, d.name, b.port) = Canon(d.scheme, d.name, d.port)
    <3>1. b.port = IF d.port = G!DefaultPort(d.scheme) THEN -1 ELSE d.port
      BY <1>2 DEF Canon
    <3>2. G!DefaultPort(d.scheme) \in {80, 443}
      BY Defaults
    <3> HIDE DEF b
    <3> QED BY <1>1, <3>1, <3>2 DEF Canon
  <2> QED BY <1>8, <2>1
<1> QED BY <1>1, <1>2, <1>6, <1>8, <1>9, <1>10, <1>11 DEF Readable

\* The settings as they were read: every flag, in the one spelling.
HostOf(t) == [name |-> t.name, upper |-> FALSE]
OriginOf(o) == [scheme |-> o.scheme, authority |-> Canon(o.scheme, o.authority.name, o.authority.port)]

AllRead(tx, al) ==
  /\ \A t \in tx.hosts : t.bare /\ t.name # G!NoName
  /\ \A o \in tx.origins : o.scheme \in G!Schemes /\ Readable(o.authority)
  /\ al.hosts = {HostOf(t) : t \in tx.hosts}
  /\ al.origins = {OriginOf(o) : o \in tx.origins}

NameOK(n, tx) ==
  \/ KindOf[n] \in {"ip", "localhost"}
  \/ \E t \in tx.hosts : t.name = n
  \/ \E t \in tx.origins : t.authority.name = n

OriginOK(o, h, al) ==
  \E parsed \in G!ParseOrigin(o) :
    \/ parsed \in al.origins
    \/ G!NormalizeAuthority(h, parsed.scheme) = {parsed.authority}

Origins == {G!BrowserOrigin(d) : d \in G!Dials} \cup {G!Null}
Addresses == G!Dials \cup {G!NoDial}
Spellings == G!Authority \cup {G!Null.authority}
Feeds == {"none", "open", "refused"}
Tab == [origin : Origins, own : BOOLEAN, dial : Addresses, host : Spellings, ws : Feeds]

\* A tab t under the flags tx, read as al: a page handed out was asked for at a
\* name that is answered, and a feed is open exactly where name and origin are.
TabSound(t, tx, al) ==
  /\ t.own => /\ t.dial \in G!Dials /\ t.origin = G!BrowserOrigin(t.dial)
              /\ NameOK(t.dial.name, tx)
  /\ t.ws # "none" =>
       /\ t.dial \in G!Dials /\ t.host \in G!Respelled(t.dial)
       /\ t.ws = "open" <=> NameOK(t.dial.name, tx) /\ OriginOK(t.origin, t.host, al)

GateInv ==
  /\ texts \in [hosts : SUBSET HostTexts, origins : SUBSET OriginTexts]
  /\ up \in {"starting", "up", "refused"}
  /\ up = "up" => AllRead(G!Given, allowed)
  /\ up # "up" => allowed = [hosts |-> {}, origins |-> {}] /\ tab = G!NoTab
  /\ tab \in Tab /\ TabSound(tab, G!Given, allowed)

LEMMA NoTabSound ==
    G!NoTab \in Tab /\ \A tx, al : TabSound(G!NoTab, tx, al)
<1>1. /\ G!Null \in Origins /\ FALSE \in BOOLEAN /\ G!NoDial \in Addresses
      /\ G!Null.authority \in Spellings /\ "none" \in Feeds
  BY DEF Origins, Addresses, Spellings, Feeds
<1> QED BY <1>1 DEF G!NoTab, Tab, TabSound

LEMMA GateInitial ==
    ASSUME G!Init
    PROVE  GateInv
BY NoTabSound DEF G!Init, GateInv

LEMMA HostTextRead ==
    ASSUME NEW t \in G!HostText
    PROVE  G!ParseHostname(t) = IF t.bare /\ t.name # G!NoName THEN {HostOf(t)} ELSE {}
BY DEF G!ParseHostname, G!Lower, HostOf

LEMMA OriginRead ==
    ASSUME NEW o, o.authority \in G!Authority
    PROVE  G!ParseOrigin(o) =
             IF o.scheme \in G!Schemes /\ Readable(o.authority) THEN {OriginOf(o)} ELSE {}
<1>1. CASE o.scheme \notin G!Schemes
  BY <1>1 DEF G!ParseOrigin
<1>2. CASE o.scheme \in G!Schemes
  <2>1. G!ParseOrigin(o) = {[scheme |-> o.scheme, authority |-> a] :
                              a \in G!NormalizeAuthority(o.authority, o.scheme)}
    BY <1>2 DEF G!ParseOrigin
  <2> QED BY <1>2, <2>1, NormalizeIsCanon DEF OriginOf
<1> QED BY <1>1, <1>2

\* What a flag of the command line is.
LEMMA FlagFacts ==
    ASSUME GateInv
    PROVE  /\ \A t \in G!Given.hosts : t \in G!HostText
           /\ \A o \in G!Given.origins : /\ o.authority \in G!Authority
                                         /\ Readable(o.authority) => o.authority.port \in Ports \cup {-1}
<1>1. G!Given.hosts \subseteq HostTexts /\ G!Given.origins \subseteq OriginTexts
  BY DEF GateInv, G!Given
<1>2. \A t \in G!Given.hosts : t \in G!HostText
  BY <1>1, GateConstants
<1>3. \A o \in G!Given.origins : o \in G!OriginText
  BY <1>1, GateConstants
<1>4. \A o \in G!Given.origins : o.authority \in G!Authority
  BY <1>3 DEF G!OriginText
<1>5. ASSUME NEW o \in G!Given.origins, Readable(o.authority)
      PROVE  o.authority.port \in Ports \cup {-1}
  BY <1>4, <1>5 DEF Readable, G!Authority, G!NoPort, G!BadPort
<1> QED BY <1>2, <1>4, <1>5

LEMMA GateStart ==
    ASSUME GateInv, G!Start
    PROVE  GateInv'
<1>1. UNCHANGED <<texts, tab>> /\ tab = G!NoTab /\ G!Given' = G!Given
  BY DEF GateInv, G!Start, G!Given
<1>2. CASE up' = "refused" /\ UNCHANGED allowed
  BY <1>1, <1>2 DEF GateInv, G!Start
<1>3. CASE up' # "refused"
  <2>1. /\ \A t \in G!Given.hosts : G!ParseHostname(t) # {}
        /\ \A o \in G!Given.origins : G!ParseOrigin(o) # {}
        /\ up' = "up"
        /\ allowed' = [hosts |-> UNION {G!ParseHostname(t) : t \in G!Given.hosts},
                       origins |-> UNION {G!ParseOrigin(o) : o \in G!Given.origins}]
    BY <1>3 DEF G!Start
  <2>2. \A t \in G!Given.hosts : t.bare /\ t.name # G!NoName /\ G!ParseHostname(t) = {HostOf(t)}
    BY <2>1, FlagFacts, HostTextRead
  <2>3. ASSUME NEW o \in G!Given.origins
        PROVE  /\ o.scheme \in G!Schemes /\ Readable(o.authority)
               /\ G!ParseOrigin(o) = {OriginOf(o)}
    <3>1. o.authority \in G!Authority
      BY FlagFacts
    <3>2. G!ParseOrigin(o) # {}
      BY <2>1, Zenon
    <3> QED BY <3>1, <3>2, OriginRead
  <2>4. UNION {G!ParseHostname(t) : t \in G!Given.hosts} = {HostOf(t) : t \in G!Given.hosts}
    BY <2>2
  <2>5. UNION {G!ParseOrigin(o) : o \in G!Given.origins} = {OriginOf(o) : o \in G!Given.origins}
    BY <2>3
  <2>6. AllRead(G!Given, allowed')
    BY <2>1, <2>2, <2>3, <2>4, <2>5 DEF AllRead
  <2> QED BY <1>1, <2>1, <2>6, NoTabSound DEF GateInv
<1> QED BY <1>2, <1>3 DEF G!Start

\* A name is answered exactly when the flags, or what it is, say so.
LEMMA HostAllowedIsNameOK ==
    ASSUME GateInv, up = "up", NEW h, h.name # G!NoName
    PROVE  G!HostAllowed(h) <=> NameOK(h.name, G!Given)
<1> DEFINE host == [name |-> h.name, upper |-> FALSE]
<1>2. host.name = h.name
  OBVIOUS
<1>3. AllRead(G!Given, allowed)
  BY DEF GateInv
<1>a. ASSUME NEW m PROVE [name |-> m, upper |-> FALSE] = host <=> m = h.name
  OBVIOUS
<1>6. G!HostAllowed(h) <=>
        /\ host.name # G!NoName
        /\ \/ KindOf[host.name] \in {"ip", "localhost"}
           \/ host \in allowed.hosts
           \/ \E o \in allowed.origins : G!HostnameOf(o.authority) = host
  BY DEF G!HostAllowed, G!Lower, G!HostnameOf
<1>b. \A t : G!HostnameOf(OriginOf(t).authority) = [name |-> t.authority.name, upper |-> FALSE]
  BY DEF G!HostnameOf, OriginOf, Canon
<1> HIDE DEF host
<1>4. host \in allowed.hosts <=> \E t \in G!Given.hosts : t.name = h.name
  <2>1. ASSUME NEW t PROVE HostOf(t) = host <=> t.name = h.name
    BY <1>a DEF HostOf
  <2> QED BY <1>3, <2>1 DEF AllRead
<1>5. (\E o \in allowed.origins : G!HostnameOf(o.authority) = host)
         <=> \E t \in G!Given.origins : t.authority.name = h.name
  <2>2. ASSUME NEW t PROVE G!HostnameOf(OriginOf(t).authority) = host <=> t.authority.name = h.name
    BY <1>a, <1>b
  <2> QED BY <1>3, <2>2 DEF AllRead
<1> QED BY <1>2, <1>4, <1>5, <1>6 DEF NameOK

\* The origin of a page is read as it is.
LEMMA BrowserOriginRead ==
    ASSUME NEW d \in G!Dials
    PROVE  /\ G!BrowserOrigin(d).scheme = d.scheme /\ d.scheme \in G!Schemes
           /\ G!BrowserOrigin(d).authority = Canon(d.scheme, d.name, d.port)
           /\ d.port \in Ports /\ d.name # G!NoName
           /\ G!ParseOrigin(G!BrowserOrigin(d)) = {G!BrowserOrigin(d)}
<1> DEFINE o == G!BrowserOrigin(d)
           b == G!BrowserAuthority(d)
<1>1. b \in G!Respelled(d)
  BY DEF G!Respelled
<1>2. /\ b = Canon(d.scheme, d.name, d.port) /\ b \in G!Authority /\ Readable(b)
      /\ b.name = d.name /\ Canon(d.scheme, b.name, b.port) = Canon(d.scheme, d.name, d.port)
  BY <1>1, RespelledIsCanon
<1>3. o = [scheme |-> d.scheme, authority |-> b] /\ o.scheme = d.scheme /\ o.authority = b
  BY DEF G!BrowserOrigin
<1>4. d.scheme \in G!Schemes /\ d.port \in Ports /\ d.name # G!NoName
  BY DEF G!Dials
<1>5. OriginOf(o) = o
  <2>1. OriginOf(o) = [scheme |-> o.scheme, authority |-> Canon(o.scheme, o.authority.name, o.authority.port)]
    BY DEF OriginOf
  <2> HIDE DEF o, b
  <2> QED BY <1>2, <1>3, <2>1
<1>6. G!ParseOrigin(o) = {o}
  <2> HIDE DEF o, b
  <2> QED BY <1>2, <1>3, <1>4, <1>5, OriginRead
<1> QED BY <1>2, <1>3, <1>4, <1>6

\* A page may open the feed at the address it came from.
LEMMA OwnOriginOK ==
    ASSUME NEW d \in G!Dials, NEW h \in G!Respelled(d), NEW al
    PROVE  OriginOK(G!BrowserOrigin(d), h, al)
<1> DEFINE o == G!BrowserOrigin(d)
<1>1. /\ o.scheme = d.scheme /\ o.authority = Canon(d.scheme, d.name, d.port)
      /\ G!ParseOrigin(o) = {o}
  BY BrowserOriginRead
<1>2. G!NormalizeAuthority(h, d.scheme) = {Canon(d.scheme, d.name, d.port)}
  BY RespelledIsCanon, NormalizeIsCanon
<1> HIDE DEF o
<1> QED BY <1>1, <1>2 DEF OriginOK, o

\* Every request of a browser is guarded.
LEMMA BrowserGuarded ==
    ASSUME NEW marks, "mozilla" \in marks, NEW h
    PROVE  G!Guard(marks, h) <=> G!HostAllowed(h)
BY DEF G!Guard, G!IsBrowserRequest

LEMMA DialFacts ==
    ASSUME NEW d \in G!Dials, NEW h \in G!Respelled(d)
    PROVE  /\ h.name = d.name /\ h.name # G!NoName /\ h \in Spellings /\ d \in Addresses
           /\ G!BrowserOrigin(d) \in Origins
BY RespelledIsCanon, BrowserOriginRead DEF Spellings, Addresses, Origins

\* What stays when only the tab changes.
LEMMA GateFrame ==
    ASSUME GateInv, up = "up", UNCHANGED <<texts, up, allowed>>,
           tab' \in Tab, TabSound(tab', G!Given, allowed)
    PROVE  GateInv'
<1>1. G!Given' = G!Given
  BY DEF G!Given
<1> QED BY <1>1 DEF GateInv

LEMMA GateLoadPage ==
    ASSUME GateInv, NEW d \in G!Dials, NEW h \in G!Respelled(d), G!LoadPage(d, h)
    PROVE  GateInv'
<1>1. /\ up = "up" /\ UNCHANGED <<texts, up, allowed>>
      /\ tab' = [origin |-> G!BrowserOrigin(d), own |-> TRUE, dial |-> d, host |-> h, ws |-> "none"]
  BY DEF G!LoadPage
<1>2. PICK marks \in {{"sec-fetch", "mozilla"}, {"mozilla"}} : G!Guard(marks, h)
  BY DEF G!LoadPage
<1>3. NameOK(d.name, G!Given)
  BY <1>1, <1>2, BrowserGuarded, DialFacts, HostAllowedIsNameOK
<1>4. tab' \in Tab
  <2>1. "none" \in Feeds
    BY DEF Feeds
  <2> QED BY <1>1, <2>1, DialFacts DEF Tab
<1>5. /\ tab'.own = TRUE /\ tab'.dial = d /\ tab'.origin = G!BrowserOrigin(d) /\ tab'.ws = "none"
  BY <1>1
<1>6. TabSound(tab', G!Given, allowed)
  BY <1>3, <1>5 DEF TabSound
<1> QED BY <1>1, <1>4, <1>6, GateFrame

LEMMA GateOtherPage ==
    ASSUME GateInv, NEW o \in Origins, G!OtherPage(o)
    PROVE  GateInv'
<1>1. up = "up" /\ UNCHANGED <<texts, up, allowed>> /\ tab' = [G!NoTab EXCEPT !.origin = o]
  BY DEF G!OtherPage
<1>2. /\ tab' \in Tab /\ tab'.own = FALSE /\ tab'.ws = "none"
  <2>1. G!NoTab \in Tab
    BY NoTabSound
  <2>2. G!NoTab.own = FALSE /\ G!NoTab.ws = "none"
    BY DEF G!NoTab
  <2> QED BY <1>1, <2>1, <2>2 DEF Tab
<1>3. TabSound(tab', G!Given, allowed)
  BY <1>2 DEF TabSound
<1> QED BY <1>1, <1>2, <1>3, GateFrame

LEMMA GateHandshake ==
    ASSUME GateInv, NEW d \in G!Dials, NEW h \in G!Respelled(d), G!Handshake(d, h)
    PROVE  GateInv'
<1> DEFINE result == IF G!Guard({"sec-fetch", "origin", "mozilla"}, h) /\ G!OriginAllowed(tab.origin, h)
                     THEN "open" ELSE "refused"
<1>1. /\ up = "up" /\ UNCHANGED <<texts, up, allowed>> /\ (tab.own => d = tab.dial)
      /\ tab' = [tab EXCEPT !.dial = d, !.host = h, !.ws = result]
  BY DEF G!Handshake
<1>2. result \in Feeds /\ result # "none"
  BY DEF Feeds
<1>3. result = "open" <=> NameOK(d.name, G!Given) /\ OriginOK(tab.origin, h, allowed)
  <2>1. G!OriginAllowed(tab.origin, h) <=> OriginOK(tab.origin, h, allowed)
    BY DEF G!OriginAllowed, OriginOK
  <2>2. G!Guard({"sec-fetch", "origin", "mozilla"}, h) <=> NameOK(d.name, G!Given)
    <3>1. G!Guard({"sec-fetch", "origin", "mozilla"}, h) <=> G!HostAllowed(h)
      BY BrowserGuarded
    <3>2. h.name = d.name /\ h.name # G!NoName
      BY DialFacts
    <3> QED BY <1>1, <3>1, <3>2, HostAllowedIsNameOK
  <2>3. result = "open" <=> /\ G!Guard({"sec-fetch", "origin", "mozilla"}, h)
                            /\ G!OriginAllowed(tab.origin, h)
    OBVIOUS
  <2> HIDE DEF result
  <2> QED BY <2>1, <2>2, <2>3
<1> HIDE DEF result
<1>4. tab \in Tab /\ TabSound(tab, G!Given, allowed)
  BY DEF GateInv
<1>5. /\ tab' \in Tab /\ tab'.own = tab.own /\ tab'.origin = tab.origin
      /\ tab'.dial = d /\ tab'.host = h /\ tab'.ws = result
  <2>1. d \in Addresses /\ h \in Spellings
    BY DialFacts
  <2> QED BY <1>1, <1>2, <1>4, <2>1 DEF Tab
<1>6. TabSound(tab', G!Given, allowed)
  BY <1>1, <1>2, <1>3, <1>4, <1>5 DEF TabSound
<1> QED BY <1>1, <1>5, <1>6, GateFrame

LEMMA GateNext ==
    ASSUME GateInv, G!Next \/ UNCHANGED gateVars
    PROVE  GateInv'
<1>1. CASE UNCHANGED gateVars
  <2>1. G!Given' = G!Given
    BY <1>1 DEF gateVars, G!Given
  <2> QED BY <1>1, <2>1 DEF gateVars, GateInv
<1>2. CASE G!Start
  BY <1>2, GateStart
<1>3. ASSUME NEW d \in G!Dials, NEW h \in G!Respelled(d), G!LoadPage(d, h) \/ G!Handshake(d, h)
      PROVE  GateInv'
  BY <1>3, GateLoadPage, GateHandshake, Zenon
<1>4. ASSUME NEW o \in {G!BrowserOrigin(d) : d \in G!Dials} \cup {G!Null}, G!OtherPage(o)
      PROVE  GateInv'
  <2>1. o \in Origins
    BY DEF Origins
  <2> QED BY <1>4, <2>1, GateOtherPage
<1> QED BY <1>1, <1>2, <1>3, <1>4, Zenon DEF G!Next

\* Reading an origin keeps what it means, and gives one that is fit to compare.
LEMMA OriginMeans ==
    ASSUME GateInv, up = "up", NEW t \in G!Given.origins
    PROVE  /\ t.scheme \in G!Schemes /\ Readable(t.authority)
           /\ t.authority.port \in Ports \cup {-1}
           /\ G!Means(OriginOf(t)) = G!Means(t)
           /\ OriginOf(t).authority.upper = FALSE
           /\ OriginOf(t).authority.port \in Ports \cup {-1}
           /\ OriginOf(t).authority.port # G!DefaultPort(OriginOf(t).scheme)
           /\ OriginOf(t) \in allowed.origins
<1> DEFINE a == t.authority
           c == Canon(t.scheme, a.name, a.port)
<1>1. AllRead(G!Given, allowed)
  BY DEF GateInv
<1>2. t.scheme \in G!Schemes /\ Readable(a) /\ a.port \in Ports \cup {-1}
  <2>1. t.scheme \in G!Schemes /\ Readable(a)
    BY <1>1, Zenon DEF AllRead
  <2>2. Readable(a) => a.port \in Ports \cup {-1}
    BY FlagFacts
  <2> QED BY <2>1, <2>2, Zenon
<1>3. OriginOf(t).scheme = t.scheme /\ OriginOf(t).authority = c
  BY DEF OriginOf
<1>4. /\ G!Effective(t.scheme, c) = <<a.name, IF a.port = -1 THEN G!DefaultPort(t.scheme) ELSE a.port>>
      /\ c.port \in Ports \cup {-1} /\ c.port # G!DefaultPort(t.scheme)
  BY <1>2, CanonMeans
<1>5. c.upper = FALSE
  BY DEF Canon
<1>6. OriginOf(t) \in allowed.origins
  BY <1>1 DEF AllRead
<1>7. G!Effective(t.scheme, c) = G!Effective(t.scheme, a)
  <2> HIDE DEF c
  <2> QED BY <1>4 DEF G!Effective, G!NoPort
<1> HIDE DEF c
<1>8. G!Means(OriginOf(t)) = G!Means(t)
  BY <1>3, <1>7 DEF G!Means
<1> QED BY <1>2, <1>3, <1>4, <1>5, <1>6, <1>8

\* An origin the browser sends is allowed by the flags exactly when one means it.
LEMMA ConfiguredIsAllowed ==
    ASSUME GateInv, up = "up", NEW o \in Origins
    PROVE  G!Configured(o) <=> o \in allowed.origins /\ o # G!Null
<1>1. AllRead(G!Given, allowed)
  BY DEF GateInv
<1>2. CASE o = G!Null
  <2>1. G!Means(o) = <<"null", G!Effective("null", o.authority)>>
    BY <1>2 DEF G!Means, G!Null
  <2>2. ASSUME NEW t \in G!Given.origins PROVE G!Means(t) # G!Means(o)
    <3>1. t.scheme \in G!Schemes
      BY OriginMeans
    <3> QED BY <2>1, <3>1 DEF G!Means, G!Schemes
  <2> QED BY <1>2, <2>2 DEF G!Configured
<1>3. CASE o # G!Null
  <2>1. PICK d \in G!Dials : o = G!BrowserOrigin(d)
    BY <1>3 DEF Origins
  <2>2. /\ o.scheme = d.scheme /\ o.authority = Canon(d.scheme, d.name, d.port) /\ d.port \in Ports
        /\ o = [scheme |-> d.scheme, authority |-> Canon(d.scheme, d.name, d.port)]
    <3>1. o = [scheme |-> d.scheme, authority |-> G!BrowserAuthority(d)]
      BY <2>1 DEF G!BrowserOrigin
    <3>2. o.authority = G!BrowserAuthority(d)
      BY <3>1
    <3> QED BY <2>1, <3>1, <3>2, BrowserOriginRead
  <2>3. G!Means(o) = <<d.scheme, <<d.name, d.port>>>>
    <3>1. G!Effective(d.scheme, o.authority) = <<d.name, d.port>>
      <4>1. d.port # -1
        BY <2>2, GateConstants
      <4> QED BY <2>2, <4>1, CanonMeans
    <3> QED BY <2>2, <3>1 DEF G!Means
  <2>4. ASSUME NEW t \in G!Given.origins PROVE G!Means(t) = G!Means(o) <=> OriginOf(t) = o
    <3>1. t.authority.port \in Ports \cup {-1} /\ G!Means(OriginOf(t)) = G!Means(t)
      BY OriginMeans
    <3>2. SUFFICES ASSUME G!Means(t) = G!Means(o) PROVE OriginOf(t) = o
      BY <3>1
    <3> DEFINE p == IF t.authority.port = -1 THEN G!DefaultPort(t.scheme) ELSE t.authority.port
    <3>3. G!Means(t) = <<t.scheme, <<t.authority.name, p>>>>
      BY DEF G!Means, G!Effective, G!NoPort
    <3>4. t.scheme = d.scheme /\ t.authority.name = d.name /\ p = d.port
      <4> HIDE DEF p
      <4> QED BY <2>3, <3>2, <3>3
    <3>5. d.port # -1
      BY <2>2, GateConstants
    <3>6. Canon(d.scheme, t.authority.name, t.authority.port) = Canon(d.scheme, d.name, d.port)
      BY <2>2, <3>1, <3>4, <3>5, CanonMeans
    <3> QED BY <2>2, <3>4, <3>6 DEF OriginOf
  <2>5. allowed.origins = {OriginOf(t) : t \in G!Given.origins}
    BY <1>1 DEF AllRead
  <2> QED BY <1>3, <2>4, <2>5 DEF G!Configured
<1> QED BY <1>2, <1>3

\* An origin that is let in is a configured one or the one that was dialled, and
\* a configured one is let in.
LEMMA OriginOKMeans ==
    ASSUME GateInv, up = "up", NEW o \in Origins, NEW d \in G!Dials, NEW h \in G!Respelled(d)
    PROVE  /\ OriginOK(o, h, allowed) =>
                G!Configured(o) \/ G!Effective(o.scheme, o.authority) = G!Effective(o.scheme, h)
           /\ G!Configured(o) => OriginOK(o, h, allowed)
<1>1. CASE o = G!Null
  <2>1. G!ParseOrigin(o) = {}
    BY <1>1 DEF G!ParseOrigin, G!Null, G!Schemes
  <2> QED BY <1>1, <2>1, ConfiguredIsAllowed DEF OriginOK
<1>2. CASE o # G!Null
  <2>1. PICK e \in G!Dials : o = G!BrowserOrigin(e)
    BY <1>2 DEF Origins
  <2>2. /\ o.scheme = e.scheme /\ o.authority = Canon(e.scheme, e.name, e.port) /\ e.port \in Ports
        /\ G!ParseOrigin(o) = {o}
    BY <2>1, BrowserOriginRead
  <2>3. OriginOK(o, h, allowed) <=>
          o \in allowed.origins \/ G!NormalizeAuthority(h, o.scheme) = {o.authority}
    BY <2>2 DEF OriginOK
  <2>4. ASSUME G!NormalizeAuthority(h, o.scheme) = {o.authority}
        PROVE  G!Effective(o.scheme, o.authority) = G!Effective(o.scheme, h)
    <3>1. h \in G!Authority /\ Readable(h) /\ h.port \in Ports \cup {-1}
      BY RespelledIsCanon
    <3>2. G!NormalizeAuthority(h, o.scheme) = {Canon(o.scheme, h.name, h.port)}
      BY <3>1, NormalizeIsCanon
    <3>3. Canon(o.scheme, h.name, h.port) = o.authority
      BY <2>4, <3>2
    <3>4. G!Effective(o.scheme, Canon(o.scheme, h.name, h.port))
            = <<h.name, IF h.port = -1 THEN G!DefaultPort(o.scheme) ELSE h.port>>
      BY <3>1, CanonMeans
    <3>5. G!Effective(o.scheme, h)
            = <<h.name, IF h.port = -1 THEN G!DefaultPort(o.scheme) ELSE h.port>>
      BY DEF G!Effective, G!NoPort
    <3> QED BY <3>3, <3>4, <3>5
  <2> QED BY <1>2, <2>3, <2>4, ConfiguredIsAllowed
<1> QED BY <1>1, <1>2

LEMMA GateTypes ==
    ASSUME GateInv
    PROVE  G!TypeOK
<1>1. CASE up # "up"
  <2>1. allowed = [hosts |-> {}, origins |-> {}] /\ tab = G!NoTab
    BY <1>1 DEF GateInv
  <2>2. tab.ws = "none"
    BY <2>1 DEF G!NoTab
  <2> QED BY <2>1, <2>2 DEF G!TypeOK, GateInv
<1>2. CASE up = "up"
  <2>1. AllRead(G!Given, allowed)
    BY <1>2 DEF GateInv
  <2>2. ASSUME NEW o \in allowed.origins
        PROVE  /\ ~o.authority.upper /\ o.authority.port \in Ports \cup {-1}
               /\ o.authority.port # G!DefaultPort(o.scheme)
    <3>1. PICK t \in G!Given.origins : o = OriginOf(t)
      BY <2>1 DEF AllRead
    <3> QED BY <1>2, <3>1, OriginMeans
  <2>3. ASSUME NEW h \in allowed.hosts PROVE ~h.upper
    BY <2>1 DEF AllRead, HostOf
  <2>4. tab.ws \in {"none", "open", "refused"}
    BY DEF GateInv, Tab, Feeds
  <2> QED BY <1>2, <2>2, <2>3, <2>4 DEF G!TypeOK, G!IsDefaultPort, G!NoPort
<1> QED BY <1>1, <1>2

LEMMA GateHolds ==
    ASSUME GateInv
    PROVE  GuardIsRight
<1>1. TabSound(tab, G!Given, allowed) /\ tab.origin \in Origins
  BY DEF GateInv, Tab
<1>2. ASSUME tab.ws # "none" \/ tab.own PROVE up = "up"
  BY <1>2 DEF GateInv, G!NoTab
<1>3. \A n : G!Answerable(n) <=> NameOK(n, G!Given)
  BY DEF G!Answerable, NameOK
<1>4. G!OwnPageMaySubscribe
  BY <1>1, OwnOriginOK DEF TabSound, G!OwnPageMaySubscribe
<1>5. G!OnlyOwnOrConfigured
  <2>1. SUFFICES ASSUME tab.ws = "open"
                 PROVE  \/ G!Configured(tab.origin)
                        \/ G!Effective(tab.origin.scheme, tab.origin.authority)
                             = G!Effective(tab.origin.scheme, tab.host)
    BY DEF G!OnlyOwnOrConfigured
  <2>2. tab.dial \in G!Dials /\ tab.host \in G!Respelled(tab.dial) /\ OriginOK(tab.origin, tab.host, allowed)
    BY <1>1, <2>1 DEF TabSound
  <2> QED BY <1>1, <1>2, <2>1, <2>2, OriginOKMeans
<1>6. G!AnsweredByName
  <2>1. ASSUME tab.own \/ tab.ws = "open" PROVE NameOK(tab.dial.name, G!Given)
    BY <1>1, <2>1 DEF TabSound
  <2>2. ASSUME tab.ws = "refused", G!Configured(tab.origin) PROVE ~NameOK(tab.dial.name, G!Given)
    <3>1. /\ tab.dial \in G!Dials /\ tab.host \in G!Respelled(tab.dial)
          /\ ~(NameOK(tab.dial.name, G!Given) /\ OriginOK(tab.origin, tab.host, allowed))
      BY <1>1, <2>2 DEF TabSound
    <3>2. OriginOK(tab.origin, tab.host, allowed)
      BY <1>1, <1>2, <2>2, <3>1, OriginOKMeans
    <3> QED BY <3>1, <3>2
  <2> QED BY <1>3, <2>1, <2>2 DEF G!AnsweredByName
<1>7. G!EveryFlagCounts
  <2>1. SUFFICES ASSUME up = "up"
                 PROVE  /\ \A t \in G!Given.hosts : t.bare
                        /\ \A o \in G!Given.origins : \E a \in allowed.origins : G!Means(a) = G!Means(o)
    BY DEF G!EveryFlagCounts
  <2>2. \A t \in G!Given.hosts : t.bare
    BY <2>1 DEF GateInv, AllRead
  <2>3. ASSUME NEW o \in G!Given.origins PROVE \E a \in allowed.origins : G!Means(a) = G!Means(o)
    BY <2>1, OriginMeans
  <2> QED BY <2>2, <2>3
<1> QED BY <1>4, <1>5, <1>6, <1>7, GateTypes DEF GuardIsRight

\* A page the server handed out can open its feed however the Host was spelled on
\* the way, no page but that one or one of a configured origin can, browsers are
\* answered at the names given and only there, and no flag is dropped: the Host
\* guard, the origin check and the reading of the two flags, for any names, ports
\* and flags.
THEOREM GuardIsAlwaysRight == SurfaceSpec => []GuardIsRight
<1>1. SurfaceInit => GateInv
  BY GateInitial DEF SurfaceInit
<1>2. GateInv /\ [SurfaceNext]_surfaceVars => GateInv'
  BY GateNext, OnePart, Zenon
<1>3. GateInv => GuardIsRight
  BY GateHolds
<1> QED BY <1>1, <1>2, <1>3, PTL DEF SurfaceSpec

-----------------------------------------------------------------------------
(* The settings *)

\* What the constants of Config are.
LEMMA ConfigConstants ==
    /\ Unset \notin Scalars /\ Unset # "datadir" /\ Unset # "1025"
    /\ Unset # <<>> /\ Unset # <<"blank">> /\ Unset \notin Lists
    /\ \A v \in Varied : v \subseteq C!Options
<1>1. C!ConfigAssumption
  BY SurfaceAssumption, Zenon
<1> QED BY <1>1 DEF C!ConfigAssumption, C!Blank

\* The value that counts among what flag fl, environment en and file fi say of o.
Best(o, fl, en, fi) ==
  IF fl # Unset THEN fl ELSE IF en # Unset THEN en ELSE IF fi # Unset THEN fi ELSE C!Default(o)

BestOf(o, gv) == Best(o, gv.flag[o], gv.env[o], gv.file[o])

\* The least source that sets an option is the one that counts.
LEMMA WantedIsBest ==
    ASSUME NEW o
    PROVE  C!Wanted(o) = BestOf(o, given)
<1> DEFINE S == C!SetBy(o)
           least == CHOOSE i \in S : \A j \in S : j >= i
<1>1. /\ C!Sources[1] = "flag" /\ C!Sources[2] = "env" /\ C!Sources[3] = "file"
      /\ DOMAIN C!Sources = {1, 2, 3}
  BY DEF C!Sources
<1>2. /\ 1 \in S <=> given.flag[o] # Unset
      /\ 2 \in S <=> given.env[o] # Unset
      /\ 3 \in S <=> given.file[o] # Unset
      /\ S \subseteq {1, 2, 3}
  BY <1>1 DEF C!SetBy
<1>3. C!Wanted(o) = IF S = {} THEN C!Default(o) ELSE given[C!Sources[least]][o]
  BY DEF C!Wanted
<1>4. ASSUME NEW i \in S, \A j \in S : j >= i PROVE least = i
  <2>1. \A k \in S : (\A j \in S : j >= k) => k = i
    BY <1>2, <1>4
  <2>2. least \in S /\ \A j \in S : j >= least
    <3> HIDE DEF S
    <3> QED BY <1>4, Zenon
  <2> HIDE DEF S, least
  <2> QED BY <2>1, <2>2
<1> HIDE DEF S, least
<1>5. CASE given.flag[o] # Unset
  <2>1. least = 1
    BY <1>2, <1>4, <1>5
  <2> QED BY <1>1, <1>2, <1>3, <1>5, <2>1 DEF BestOf, Best
<1>6. CASE given.flag[o] = Unset /\ given.env[o] # Unset
  <2>1. least = 2
    BY <1>2, <1>4, <1>6
  <2> QED BY <1>1, <1>2, <1>3, <1>6, <2>1 DEF BestOf, Best
<1>7. CASE given.flag[o] = Unset /\ given.env[o] = Unset /\ given.file[o] # Unset
  <2>1. least = 3
    BY <1>2, <1>4, <1>7
  <2> QED BY <1>1, <1>2, <1>3, <1>7, <2>1 DEF BestOf, Best
<1>8. CASE given.flag[o] = Unset /\ given.env[o] = Unset /\ given.file[o] = Unset
  <2>1. S = {}
    BY <1>2, <1>8
  <2> QED BY <1>3, <1>8, <2>1 DEF BestOf, Best
<1> QED BY <1>5, <1>6, <1>7, <1>8

Halves == {"smtp_tls_cert", "smtp_tls_key"}

\* What the environment says of o once the file gv.file was handed over to it.
Merged(o, gv) ==
  IF gv.env[o] = Unset /\ gv.file[o] # Unset THEN C!Joined(o, gv.file[o]) ELSE gv.env[o]

\* The value read for o: the one that counts, an empty list perhaps in the
\* spelling it has in the environment.
ReadAs(v, o, gv) ==
  \/ v = BestOf(o, gv)
  \/ o = C!Listed /\ BestOf(o, gv) = <<>> /\ v = <<"blank">>

Reason(gv) ==
  \/ \E o \in Halves : BestOf(o, gv) = "bad"
  \/ (BestOf("smtp_tls_cert", gv) = Unset) # (BestOf("smtp_tls_key", gv) = Unset)
  \/ \E i \in DOMAIN BestOf(C!Listed, gv) : BestOf(C!Listed, gv)[i] = "bad"

RunsAs(us, tl, cmd, gv) ==
  /\ \A o \in C!Known[cmd] :
       us[o] = IF o = C!Listed THEN C!Entries(BestOf(o, gv)) ELSE BestOf(o, gv)
  /\ cmd = "serve" => (tl <=> \A o \in Halves : BestOf(o, gv) \notin {Unset, "bad"})

ConfigInv ==
  /\ command \in {"serve", "restore"} /\ broken \in BOOLEAN
  /\ pc \in {"load", "parse", "check", "run", "exit"}
  /\ \A o \in C!Single : /\ given.env[o] \in Scalars \cup {Unset}
                         /\ given.file[o] \in Scalars \cup {Unset}
  /\ pc = "load" => \A o \in C!Options : env[o] = given.env[o]
  /\ pc \notin {"load", "exit"} => \A o \in C!Options : env[o] = Merged(o, given)
  /\ \A o \in C!Single : env[o] \in Scalars \cup {Unset}
  /\ DOMAIN used = C!Options /\ used = [o \in C!Options |-> used[o]]
  /\ pc = "check" => \A o \in C!Known[command] : ReadAs(used[o], o, given)
  /\ pc = "run" => RunsAs(used, tls, command, given)
  /\ pc = "exit" => broken \/ Reason(given)

LEMMA KnownOptions ==
    /\ C!Known["serve"] = C!Options /\ C!Known["restore"] = {"db_path"}
    /\ "db_path" \in C!Options /\ C!Listed \in C!Options /\ C!Listed \notin C!Single
    /\ C!Single \subseteq C!Options /\ Halves \subseteq C!Single
    /\ \A o \in C!Options : o \in C!Single \/ o = C!Listed
    /\ "db_path" # C!Listed /\ C!Listed \notin Halves
BY DEF C!Known, C!Options, C!Listed, C!Single, Halves

\* What one source says of a single-valued option is a value or nothing.
LEMMA SettingsAreValues ==
    ASSUME NEW vary, NEW s \in C!Settings(vary), NEW o \in C!Single
    PROVE  s[o] \in Scalars \cup {Unset}
<1>1. PICK single \in [vary \ {C!Listed} -> Scalars \cup {Unset}], list \in Lists \cup {Unset} :
        s = [q \in C!Options |-> IF q \notin vary THEN Unset ELSE IF q = C!Listed THEN list ELSE single[q]]
  BY DEF C!Settings
<1>2. o \in C!Options /\ o # C!Listed
  BY KnownOptions
<1> QED BY <1>1, <1>2

LEMMA ConfigInitial ==
    ASSUME IF part = "config" THEN C!Init
           ELSE /\ given = [flag |-> C!None, env |-> C!None, file |-> C!None]
                /\ command = "serve" /\ broken = FALSE /\ pc = "load"
                /\ env = C!None /\ used = C!None /\ tls = FALSE
    PROVE  ConfigInv
<1>1. /\ command \in {"serve", "restore"} /\ broken \in BOOLEAN /\ pc = "load"
      /\ env = given.env /\ used = C!None
  <2>1. CASE part = "config"
    BY <2>1, Zenon DEF C!Init
  <2>2. CASE part # "config"
    <3>1. /\ given = [flag |-> C!None, env |-> C!None, file |-> C!None]
          /\ command = "serve" /\ broken = FALSE /\ pc = "load" /\ env = C!None /\ used = C!None
      BY <2>2, Zenon
    <3>2. given.env = C!None
      BY <3>1
    <3> QED BY <3>1, <3>2
  <2> QED BY <2>1, <2>2
<1>2. \A o \in C!Single : /\ given.env[o] \in Scalars \cup {Unset}
                          /\ given.file[o] \in Scalars \cup {Unset}
  <2>1. CASE part = "config"
    <3>1. PICK vary \in Varied :
            given \in [flag : C!Settings(vary), env : C!Settings(vary), file : C!Settings(vary)]
      BY <2>1 DEF C!Init
    <3>2. given.env \in C!Settings(vary) /\ given.file \in C!Settings(vary)
      BY <3>1
    <3> QED BY <3>2, SettingsAreValues
  <2>2. CASE part # "config"
    BY <2>2, KnownOptions DEF C!None
  <2> QED BY <2>1, <2>2
<1>3. DOMAIN used = C!Options /\ used = [o \in C!Options |-> used[o]]
  BY <1>1 DEF C!None
<1> QED BY <1>1, <1>2, <1>3 DEF ConfigInv

LEMMA ConfigLoad ==
    ASSUME ConfigInv, C!PreLoadTomlConfig
    PROVE  ConfigInv'
<1>1. pc = "load" /\ UNCHANGED <<broken, given, command, used, tls>>
  BY DEF C!PreLoadTomlConfig
<1>2. CASE broken
  <2>1. pc' = "exit" /\ UNCHANGED env
    BY <1>2 DEF C!PreLoadTomlConfig
  <2> QED BY <1>1, <1>2, <2>1 DEF ConfigInv
<1>3. CASE ~broken
  <2>1. pc' = "parse" /\ env' = [o \in C!Options |-> C!SetIfAbsent(o)]
    BY <1>3 DEF C!PreLoadTomlConfig
  <2>2. \A o \in C!Options : env'[o] = Merged(o, given)
    BY <1>1, <2>1 DEF C!SetIfAbsent, Merged, ConfigInv
  <2>3. ASSUME NEW o \in C!Single PROVE env'[o] \in Scalars \cup {Unset}
    <3>1. o \in C!Options /\ o # C!Listed
      BY KnownOptions
    <3> QED BY <2>2, <3>1 DEF Merged, C!Joined, ConfigInv
  <2> QED BY <1>1, <2>1, <2>2, <2>3 DEF ConfigInv
<1> QED BY <1>2, <1>3

LEMMA ConfigParse ==
    ASSUME ConfigInv, C!Parse
    PROVE  ConfigInv'
<1>1. /\ pc = "parse" /\ pc' = "check" /\ UNCHANGED <<broken, given, env, command, tls>>
      /\ used' = [o \in C!Options |-> IF o \in C!Known[command] THEN C!Resolved(o) ELSE Unset]
  BY DEF C!Parse
<1>2. DOMAIN used' = C!Options /\ used' = [o \in C!Options |-> used'[o]]
  BY <1>1
<1>3. ASSUME NEW o \in C!Known[command] PROVE ReadAs(used'[o], o, given)
  <2>1. o \in C!Options
    BY KnownOptions DEF ConfigInv
  <2>2. used'[o] = C!Resolved(o)
    BY <1>1, <2>1
  <2>3. env[o] = Merged(o, given)
    BY <1>1, <2>1 DEF ConfigInv
  <2>4. C!Resolved(o) = IF given.flag[o] # Unset THEN given.flag[o]
                        ELSE IF Merged(o, given) # Unset THEN Merged(o, given) ELSE C!Default(o)
    BY <2>3 DEF C!Resolved
  <2>5. CASE o = C!Listed /\ given.env[o] = Unset /\ given.file[o] = <<>>
    BY <2>2, <2>4, <2>5, ConfigConstants DEF ReadAs, BestOf, Best, Merged, C!Joined, C!Blank
  <2>6. CASE ~(o = C!Listed /\ given.env[o] = Unset /\ given.file[o] = <<>>)
    <3>1. Merged(o, given) = IF given.env[o] = Unset /\ given.file[o] # Unset THEN given.file[o]
                             ELSE given.env[o]
      BY <2>6 DEF Merged, C!Joined
    <3> QED BY <2>2, <2>4, <3>1 DEF ReadAs, BestOf, Best
  <2> QED BY <2>5, <2>6
<1> QED BY <1>1, <1>2, <1>3 DEF ConfigInv

\* However an empty list is spelled, it has no entries.
LEMMA NoEntries ==
    C!Entries(<<>>) = {} /\ C!Entries(<<"blank">>) = {}
BY DEF C!Entries, C!Blank

LEMMA ConfigCheck ==
    ASSUME ConfigInv, C!Check
    PROVE  ConfigInv'
<1> DEFINE cert == used["smtp_tls_cert"]
           key == used["smtp_tls_key"]
           origins == C!Entries(used[C!Listed])
           offered == C!BuildSmtpTlsConfig(cert, key)
<1>1. pc = "check" /\ UNCHANGED <<broken, given, env, command>>
  BY DEF C!Check
<1>2. \A o \in C!Known[command] : ReadAs(used[o], o, given)
  BY <1>1 DEF ConfigInv
<1>3. CASE command = "restore"
  <2>1. pc' = "run" /\ UNCHANGED <<used, tls>>
    BY <1>3 DEF C!Check
  <2>2. RunsAs(used, tls, command, given)
    BY <1>2, <1>3, KnownOptions DEF RunsAs, ReadAs
  <2> QED BY <1>1, <2>1, <2>2 DEF ConfigInv
<1>4. CASE command = "serve"
  <2>1. \A o \in C!Single : used[o] = BestOf(o, given)
    BY <1>2, <1>4, KnownOptions DEF ReadAs
  <2>2. origins = C!Entries(BestOf(C!Listed, given))
    <3>1. ReadAs(used[C!Listed], C!Listed, given)
      BY <1>2, <1>4, KnownOptions
    <3> QED BY <3>1, NoEntries DEF ReadAs
  <2>3. cert = BestOf("smtp_tls_cert", given) /\ key = BestOf("smtp_tls_key", given)
    BY <2>1, KnownOptions DEF Halves
  <2>4. offered = IF (cert = Unset) # (key = Unset) \/ cert = "bad" \/ key = "bad" THEN {}
                  ELSE {cert # Unset}
    BY DEF C!BuildSmtpTlsConfig
  <2>5. IF offered = {} \/ "bad" \in origins
        THEN pc' = "exit" /\ UNCHANGED <<used, tls>>
        ELSE /\ pc' = "run"
             /\ used' = [used EXCEPT ![C!Listed] = origins]
             /\ tls' \in offered
    BY <1>4 DEF C!Check
  <2> HIDE DEF cert, key, origins, offered
  <2>6. CASE offered = {} \/ "bad" \in origins
    <3>1. pc' = "exit" /\ UNCHANGED <<used, tls>>
      BY <2>5, <2>6
    <3>2. Reason(given)
      <4>1. CASE offered = {}
        BY <2>3, <2>4, <4>1 DEF Reason, Halves
      <4>2. CASE "bad" \in origins
        BY <2>2, <4>2 DEF Reason, C!Entries
      <4> QED BY <2>6, <4>1, <4>2
    <3> QED BY <1>1, <3>1, <3>2 DEF ConfigInv
  <2>7. CASE ~(offered = {} \/ "bad" \in origins)
    <3>1. pc' = "run" /\ used' = [used EXCEPT ![C!Listed] = origins] /\ tls' \in offered
      BY <2>5, <2>7
    <3>2. /\ DOMAIN used' = C!Options /\ used' = [o \in C!Options |-> used'[o]]
          /\ used'[C!Listed] = origins /\ \A o \in C!Single : used'[o] = used[o]
      BY <3>1, KnownOptions DEF ConfigInv
    <3>3. tls' <=> cert \notin {Unset, "bad"} /\ key \notin {Unset, "bad"}
      BY <2>4, <2>7, <3>1
    <3>4. RunsAs(used', tls', command, given)
      <4>1. ASSUME NEW o \in C!Known[command]
            PROVE  used'[o] = IF o = C!Listed THEN C!Entries(BestOf(o, given)) ELSE BestOf(o, given)
        BY <1>4, <2>1, <2>2, <3>2, KnownOptions
      <4>2. tls' <=> \A o \in Halves : BestOf(o, given) \notin {Unset, "bad"}
        BY <2>3, <3>3 DEF Halves
      <4> QED BY <4>1, <4>2 DEF RunsAs
    <3> QED BY <1>1, <3>1, <3>2, <3>4 DEF ConfigInv
  <2> QED BY <2>6, <2>7
<1> QED BY <1>3, <1>4 DEF ConfigInv

LEMMA ConfigNext ==
    ASSUME ConfigInv, C!Next \/ UNCHANGED configVars
    PROVE  ConfigInv'
<1>1. CASE UNCHANGED configVars
  BY <1>1 DEF configVars, ConfigInv
<1>2. CASE C!Next
  BY <1>2, ConfigLoad, ConfigParse, ConfigCheck DEF C!Next
<1> QED BY <1>1, <1>2

LEMMA ConfigHolds ==
    ASSUME ConfigInv
    PROVE  SettingsAreRight
<1>1. \A o : C!Wanted(o) = BestOf(o, given)
  BY WantedIsBest
<1>2. C!TypeOK
  <2>1. ASSUME NEW o \in C!Options PROVE o = C!Listed \/ env[o] \in C!ValuesOf(o)
    BY KnownOptions DEF ConfigInv, C!ValuesOf
  <2>2. ASSUME pc = "check", NEW o \in C!Known[command] \ {"smtp_tls_cert", "smtp_tls_key"}
        PROVE  used[o] # Unset
    <3>1. o \in {"smtp_port", "db_path", C!Listed}
      BY KnownOptions DEF ConfigInv, C!Options, C!Single
    <3>2. C!Default(o) # Unset
      BY <3>1, ConfigConstants DEF C!Default, C!Listed
    <3>3. BestOf(o, given) # Unset
      BY <3>2 DEF BestOf, Best
    <3> QED BY <2>2, <3>3, ConfigConstants DEF ConfigInv, ReadAs
  <2> QED BY <2>1, <2>2 DEF ConfigInv, C!TypeOK
<1>3. C!Precedence
  BY <1>1 DEF ConfigInv, RunsAs, C!Precedence
<1>4. C!RefusedForAReason
  BY <1>1 DEF ConfigInv, Reason, C!RefusedForAReason, Halves
<1>5. C!TlsAsGiven
  BY <1>1 DEF ConfigInv, RunsAs, C!TlsAsGiven, Halves
<1> QED BY <1>2, <1>3, <1>4, <1>5 DEF SettingsAreRight

\* Flags go before the environment, that before the file and that before the
\* defaults, for both commands and however an empty list is spelled on its way
\* through the environment; a start is refused only for a broken file, half a TLS
\* pair or a value that counts and is not valid; and STARTTLS is offered exactly
\* when both halves were given and are good: for any values and any options set.
THEOREM SettingsAreAlwaysRight == SurfaceSpec => []SettingsAreRight
<1>1. SurfaceInit => ConfigInv
  BY ConfigInitial DEF SurfaceInit
<1>2. ConfigInv /\ [SurfaceNext]_surfaceVars => ConfigInv'
  BY ConfigNext, OnePart, Zenon
<1>3. ConfigInv => SettingsAreRight
  BY ConfigHolds
<1> QED BY <1>1, <1>2, <1>3, PTL DEF SurfaceSpec

-----------------------------------------------------------------------------
(* The assert filter.  Both of its walks over a text, str::replace's and       *)
(* LIKE's, are recursive functions: that they are defined, and what they       *)
(* compute, is shown by induction on the length of the text.                   *)

Filed(t) == t \in Seq(M!Alphabet)

\* A set of numbers that is not empty has a least one.
LEMMA LeastNumber ==
  ASSUME NEW T \in SUBSET Nat, T # {}
  PROVE  \E m \in T : \A k \in T : m <= k
<1> DEFINE Less == {ss \in Nat \X Nat : ss[1] < ss[2]}
<1>0. OpToRel(<, Nat) = Less
  BY Zenon DEF OpToRel
<1>1. IsWellFoundedOn(Less, Nat)
  BY <1>0, NatLessThanWellFounded, Zenon
<1>2. PICK x \in T : \A y \in T : <<y, x>> \notin Less
  <2> HIDE DEF Less
  <2> QED BY <1>1, WFMin, Zenon
<1>3. \A y \in T : ~(y < x)
  <2> SUFFICES ASSUME NEW y \in T, y < x PROVE FALSE OBVIOUS
  <2>1. <<y, x>> \in Less OBVIOUS
  <2> QED BY <2>1, <1>2
<1>4. \A y \in T : x <= y
  BY <1>3
<1> QED BY <1>4

\* Induction over the numbers, for a set of them.
LEMMA Induct ==
  ASSUME NEW T \in SUBSET Nat, 0 \in T, \A n \in T : n + 1 \in T
  PROVE  T = Nat
<1> SUFFICES ASSUME T # Nat PROVE FALSE OBVIOUS
<1>1. PICK m \in Nat \ T : \A k \in Nat \ T : m <= k
  <2>1. Nat \ T # {} OBVIOUS
  <2> QED BY <2>1, LeastNumber
<1>2. m - 1 \in Nat /\ m - 1 \in T
  BY <1>1
<1> QED BY <1>2, <1>1

\* Letter by letter, a value for each prefix.
Steps(X, x0, Step, n, f) ==
  f \in [0 .. n -> X] /\ f[0] = x0 /\ \A i \in 1 .. n : f[i] = Step[i][f[i - 1]]

\* A walk can be taken.
LEMMA StepsExist ==
  ASSUME NEW X, NEW x0 \in X, NEW n \in Nat, NEW Step \in [1 .. n -> [X -> X]]
  PROVE  \E f : Steps(X, x0, Step, n, f)
<1> DEFINE T == {k \in Nat : k <= n => \E f : Steps(X, x0, Step, k, f)}
<1>1. 0 \in T
  <2> DEFINE g == [i \in 0 .. 0 |-> x0]
  <2>1. Steps(X, x0, Step, 0, g)
    BY DEF Steps
  <2> QED BY <2>1
<1>2. ASSUME NEW k \in T PROVE k + 1 \in T
  <2> SUFFICES ASSUME k + 1 <= n PROVE \E f : Steps(X, x0, Step, k + 1, f)
    OBVIOUS
  <2>1. PICK f : Steps(X, x0, Step, k, f)
    BY <1>2
  <2> DEFINE g == [i \in 0 .. (k + 1) |-> IF i = k + 1 THEN Step[k + 1][f[k]] ELSE f[i]]
  <2>2. k \in Nat /\ f[k] \in X /\ Step[k + 1] \in [X -> X]
    BY <2>1 DEF Steps
  <2>3. g \in [0 .. (k + 1) -> X]
    BY <2>1, <2>2 DEF Steps
  <2>4. g[0] = x0
    BY <2>1, <2>2 DEF Steps
  <2>5. ASSUME NEW i \in 1 .. (k + 1) PROVE g[i] = Step[i][g[i - 1]]
    <3>1. CASE i = k + 1
      BY <3>1, <2>2
    <3>2. CASE i # k + 1
      BY <3>2, <2>1, <2>2 DEF Steps
    <3> QED BY <3>1, <3>2
  <2> HIDE DEF g
  <2>6. Steps(X, x0, Step, k + 1, g)
    BY <2>3, <2>4, <2>5 DEF Steps
  <2> QED BY <2>6
<1>3. T = Nat
  <2> HIDE DEF T
  <2>1. T \in SUBSET Nat BY DEF T
  <2> QED BY <1>1, <1>2, <2>1, Induct
<1>4. n \in T
  BY <1>3
<1> QED BY <1>4

\* Two walks that take the same steps are at the same place.
LEMMA StepsAgree ==
  ASSUME NEW n \in Nat, NEW f, NEW g, f[0] = g[0],
         \A i \in 1 .. n : f[i - 1] = g[i - 1] => f[i] = g[i]
  PROVE  f[n] = g[n]
<1> DEFINE T == {k \in Nat : k <= n => f[k] = g[k]}
<1>1. 0 \in T OBVIOUS
<1>2. ASSUME NEW k \in T PROVE k + 1 \in T
  <2> SUFFICES ASSUME k + 1 <= n PROVE f[k + 1] = g[k + 1] OBVIOUS
  <2>1. k + 1 \in 1 .. n /\ (k + 1) - 1 = k /\ f[k] = g[k] OBVIOUS
  <2> QED BY <2>1
<1>3. T = Nat
  <2> HIDE DEF T
  <2>1. T \in SUBSET Nat BY DEF T
  <2> QED BY <1>1, <1>2, <2>1, Induct
<1> QED BY <1>3

\* str::replace's output after each letter.
Walk(s, c, by, f) ==
  /\ f \in [0 .. Len(s) -> Seq(M!Alphabet)] /\ f[0] = <<>>
  /\ \A i \in 1 .. Len(s) : f[i] = f[i - 1] \o (IF s[i] = c THEN by ELSE <<s[i]>>)

LEMMA ReplaceWalks ==
  ASSUME NEW s \in Seq(M!Alphabet), NEW c, NEW by \in Seq(M!Alphabet)
  PROVE  \E f : Walk(s, c, by, f) /\ M!Replace(s, c, by) = f[Len(s)]
<1> DEFINE X == Seq(M!Alphabet)
           n == Len(s)
           to(i) == IF s[i] = c THEN by ELSE <<s[i]>>
           Step == [i \in 1 .. n |-> [x \in X |-> x \o to(i)]]
           Eq(g) == g = [k \in 0 .. n |-> IF k = 0 THEN <<>> ELSE g[k - 1] \o to(k)]
           out == CHOOSE g : Eq(g)
<1>1. n \in Nat /\ <<>> \in X /\ \A i \in 1 .. n : to(i) \in X
  OBVIOUS
<1>2. Step \in [1 .. n -> [X -> X]]
  BY <1>1
<1>3. PICK f : Steps(X, <<>>, Step, n, f)
  <2> HIDE DEF X, Step, n
  <2> QED BY <1>1, <1>2, StepsExist
<1>4. f \in [0 .. n -> X] /\ f[0] = <<>> /\ \A i \in 1 .. n : f[i] = Step[i][f[i - 1]]
  BY <1>3 DEF Steps
<1>5. \A i \in 1 .. n : i \in 0 .. n /\ i - 1 \in 0 .. n /\ f[i - 1] \in X
  <2> HIDE DEF X, Step, n
  <2>1. f \in [0 .. n -> X] /\ n \in Nat
    BY <1>1, <1>4
  <2>2. \A i \in 1 .. n : i \in 0 .. n /\ i - 1 \in 0 .. n
    BY <2>1
  <2> QED BY <2>1, <2>2
<1>6. \A i \in 1 .. n : f[i] = f[i - 1] \o to(i)
  BY <1>4, <1>5
<1>7. Eq(f)
  <2> HIDE DEF to, Step, X, n
  <2>1. \A k \in 0 .. n : k # 0 => k \in 1 .. n
    BY <1>1
  <2>2. f = [k \in 0 .. n |-> f[k]]
    BY <1>4
  <2>3. \A k \in 0 .. n : f[k] = IF k = 0 THEN <<>> ELSE f[k - 1] \o to(k)
    BY <1>4, <1>6, <2>1
  <2> QED BY <2>2, <2>3
<1>8. Eq(out)
  <2> HIDE DEF Eq
  <2> QED BY <1>7
<1>9. M!Replace(s, c, by) = out[n]
  BY DEF M!Replace
<1> HIDE DEF out
<1>10. out[0] = <<>> /\ \A i \in 1 .. n : out[i] = out[i - 1] \o to(i)
  <2> HIDE DEF to, Step, X, n
  <2>1. 0 \in 0 .. n /\ \A k \in 1 .. n : k \in 0 .. n /\ k # 0
    BY <1>1
  <2>2. \A k \in 0 .. n : out[k] = IF k = 0 THEN <<>> ELSE out[k - 1] \o to(k)
    BY <1>8, Zenon
  <2> QED BY <2>1, <2>2
<1>11. out[n] = f[n]
  <2> HIDE DEF to, Step, X, n
  <2>1. out[0] = f[0] /\ \A i \in 1 .. n : out[i - 1] = f[i - 1] => out[i] = f[i]
    BY <1>4, <1>6, <1>10
  <2> QED BY <1>1, <2>1, StepsAgree
<1>12. Walk(s, c, by, f)
  BY <1>4, <1>6 DEF Walk
<1> QED BY <1>9, <1>11, <1>12

LEMMA ReplaceEmpty ==
  ASSUME NEW c, NEW by \in Seq(M!Alphabet)
  PROVE  M!Replace(<<>>, c, by) = <<>>
<1>1. <<>> \in Seq(M!Alphabet) /\ Len(<<>>) = 0
  OBVIOUS
<1>2. PICK f : Walk(<<>>, c, by, f) /\ M!Replace(<<>>, c, by) = f[Len(<<>>)]
  BY <1>1, ReplaceWalks, Zenon
<1> QED BY <1>1, <1>2 DEF Walk

LEMMA ReplaceAppend ==
  ASSUME NEW s \in Seq(M!Alphabet), NEW x \in M!Alphabet, NEW c, NEW by \in Seq(M!Alphabet)
  PROVE  /\ M!Replace(s, c, by) \in Seq(M!Alphabet)
         /\ M!Replace(Append(s, x), c, by)
              = M!Replace(s, c, by) \o (IF x = c THEN by ELSE <<x>>)
<1> DEFINE u == Append(s, x)
           n == Len(s)
<1>1. /\ u \in Seq(M!Alphabet) /\ n \in Nat /\ Len(u) = n + 1 /\ u[n + 1] = x
      /\ \A i \in 1 .. n : u[i] = s[i]
  OBVIOUS
<1>2. PICK f : Walk(s, c, by, f) /\ M!Replace(s, c, by) = f[n]
  BY ReplaceWalks, Zenon
<1>3. PICK g : Walk(u, c, by, g) /\ M!Replace(u, c, by) = g[Len(u)]
  BY <1>1, ReplaceWalks, Zenon
<1> HIDE DEF u, n
<1>4. g[n] = f[n]
  <2>1. f[0] = g[0]
    BY <1>2, <1>3 DEF Walk
  <2>2. ASSUME NEW i \in 1 .. n, f[i - 1] = g[i - 1] PROVE f[i] = g[i]
    <3>1. i \in 1 .. Len(u) /\ u[i] = s[i] /\ i \in 1 .. Len(s)
      BY <1>1 DEF n
    <3> QED BY <1>2, <1>3, <2>2, <3>1 DEF Walk
  <2> QED BY <1>1, <2>1, <2>2, StepsAgree
<1>5. g[n + 1] = g[n] \o (IF x = c THEN by ELSE <<x>>)
  <2>1. n + 1 \in 1 .. Len(u) /\ (n + 1) - 1 = n
    BY <1>1
  <2> QED BY <1>1, <1>3, <2>1 DEF Walk
<1>6. f[n] \in Seq(M!Alphabet)
  BY <1>1, <1>2 DEF Walk, n
<1> QED BY <1>1, <1>2, <1>3, <1>4, <1>5, <1>6 DEF u

\* The letters escape_like puts a backslash before.
Special == {"backslash", "percent", "underscore"}

\* One pass leaves a letter that is not its own, and writes another before its own.
LEMMA PassKeeps ==
  ASSUME NEW s \in Seq(M!Alphabet), NEW x \in M!Alphabet, NEW c \in Special, x # c
  PROVE  M!Replace(Append(s, x), c, <<"backslash", c>>)
           = Append(M!Replace(s, c, <<"backslash", c>>), x)
<1> DEFINE by == <<"backslash", c>>
           r == M!Replace(s, c, by)
<1>1. by \in Seq(M!Alphabet)
  BY DEF M!Alphabet, Special
<1> HIDE DEF by
<1>2. r \in Seq(M!Alphabet) /\ M!Replace(Append(s, x), c, by) = r \o (IF x = c THEN by ELSE <<x>>)
  BY <1>1, ReplaceAppend
<1> HIDE DEF r
<1>3. r \o <<x>> = Append(r, x)
  BY <1>2
<1> QED BY <1>2, <1>3 DEF r, by

LEMMA PassEscapes ==
  ASSUME NEW s \in Seq(M!Alphabet), NEW c \in Special
  PROVE  M!Replace(Append(s, c), c, <<"backslash", c>>)
           = Append(Append(M!Replace(s, c, <<"backslash", c>>), "backslash"), c)
<1> DEFINE by == <<"backslash", c>>
           r == M!Replace(s, c, by)
<1>1. by \in Seq(M!Alphabet) /\ c \in M!Alphabet
  BY DEF M!Alphabet, Special
<1> HIDE DEF by
<1>2. r \in Seq(M!Alphabet) /\ M!Replace(Append(s, c), c, by) = r \o (IF c = c THEN by ELSE <<c>>)
  BY <1>1, ReplaceAppend, Zenon
<1> HIDE DEF r
<1>3. r \o by = Append(Append(r, "backslash"), c)
  BY <1>2 DEF by
<1> QED BY <1>2, <1>3 DEF r, by

LEMMA PassTyped ==
  ASSUME NEW s \in Seq(M!Alphabet), NEW c \in Special
  PROVE  M!Replace(s, c, <<"backslash", c>>) \in Seq(M!Alphabet)
<1>1. <<"backslash", c>> \in Seq(M!Alphabet) /\ c \in M!Alphabet
  BY DEF M!Alphabet, Special
<1> QED BY <1>1, ReplaceAppend, Zenon

LEMMA EscapeEmpty == M!EscapeLike(<<>>) = <<>>
<1>1. \A a \in Special : <<"backslash", a>> \in Seq(M!Alphabet)
  BY DEF M!Alphabet, Special
<1>2. \A a \in Special : M!Replace(<<>>, a, <<"backslash", a>>) = <<>>
  BY <1>1, ReplaceEmpty, Zenon
<1>3. "backslash" \in Special /\ "percent" \in Special /\ "underscore" \in Special
  BY DEF Special
<1> QED BY <1>2, <1>3 DEF M!EscapeLike

\* The three passes, each over what the one before wrote, escape letter by letter.
LEMMA EscapeAppend ==
  ASSUME NEW s \in Seq(M!Alphabet), NEW x \in M!Alphabet
  PROVE  /\ M!EscapeLike(s) \in Seq(M!Alphabet)
         /\ M!EscapeLike(Append(s, x)) =
              IF x \in Special THEN Append(Append(M!EscapeLike(s), "backslash"), x)
                               ELSE Append(M!EscapeLike(s), x)
<1> DEFINE P(c, q) == M!Replace(q, c, <<"backslash", c>>)
           s1 == P("backslash", s)
           s2 == P("percent", s1)
           s3 == P("underscore", s2)
<1>0. /\ "backslash" \in Special /\ "percent" \in Special /\ "underscore" \in Special
      /\ "backslash" # "percent" /\ "backslash" # "underscore" /\ "percent" # "underscore"
      /\ "backslash" \in M!Alphabet /\ "percent" \in M!Alphabet /\ "underscore" \in M!Alphabet
      /\ \A d \in Special : d \in {"backslash", "percent", "underscore"}
  BY DEF Special, M!Alphabet
<1>1. M!EscapeLike(s) = s3 /\ M!EscapeLike(Append(s, x))
        = P("underscore", P("percent", P("backslash", Append(s, x))))
  BY DEF M!EscapeLike
<1>2. ASSUME NEW c \in Special, NEW q \in Seq(M!Alphabet)
      PROVE  /\ P(c, q) \in Seq(M!Alphabet)
             /\ \A y \in M!Alphabet : Append(q, y) \in Seq(M!Alphabet)
             /\ \A y \in M!Alphabet : y # c => P(c, Append(q, y)) = Append(P(c, q), y)
             /\ P(c, Append(q, c)) = Append(Append(P(c, q), "backslash"), c)
  <2>1. \A y \in M!Alphabet : Append(q, y) \in Seq(M!Alphabet)
    OBVIOUS
  <2> QED BY <2>1, PassTyped, PassKeeps, PassEscapes, Zenon
<1> HIDE DEF P
<1>3. s1 \in Seq(M!Alphabet)
  BY <1>0, <1>2, Zenon
<1>4. s2 \in Seq(M!Alphabet)
  BY <1>0, <1>2, <1>3, Zenon
<1>5. s3 \in Seq(M!Alphabet)
  BY <1>0, <1>2, <1>4, Zenon
<1>6. CASE x = "backslash"
  <2>1. P("backslash", Append(s, x)) = Append(Append(s1, x), x)
    BY <1>0, <1>2, <1>6, Zenon
  <2>2. Append(s1, x) \in Seq(M!Alphabet) /\ Append(s2, x) \in Seq(M!Alphabet)
    BY <1>3, <1>4
  <2> HIDE DEF s1
  <2>3. P("percent", Append(Append(s1, x), x)) = Append(Append(s2, x), x)
    <3>1. P("percent", Append(s1, x)) = Append(s2, x)
      BY <1>0, <1>2, <1>3, <1>6, Zenon
    <3>2. P("percent", Append(Append(s1, x), x)) = Append(P("percent", Append(s1, x)), x)
      <4>1. "percent" \in Special /\ x # "percent"
        BY <1>0, <1>6, Zenon
      <4>2. \A q \in Seq(M!Alphabet) : P("percent", Append(q, x)) = Append(P("percent", q), x)
        BY <1>2, <4>1, Zenon
      <4> QED BY <2>2, <4>2, Zenon
    <3> QED BY <3>1, <3>2, Zenon
  <2> HIDE DEF s2
  <2>4. P("underscore", Append(Append(s2, x), x)) = Append(Append(s3, x), x)
    <3>1. P("underscore", Append(s2, x)) = Append(s3, x)
      BY <1>0, <1>2, <1>4, <1>6, Zenon
    <3>2. P("underscore", Append(Append(s2, x), x)) = Append(P("underscore", Append(s2, x)), x)
      <4>1. "underscore" \in Special /\ x # "underscore"
        BY <1>0, <1>6, Zenon
      <4>2. \A q \in Seq(M!Alphabet) : P("underscore", Append(q, x)) = Append(P("underscore", q), x)
        BY <1>2, <4>1, Zenon
      <4> QED BY <2>2, <4>2, Zenon
    <3> QED BY <3>1, <3>2, Zenon
  <2> QED BY <1>0, <1>1, <1>5, <1>6, <2>1, <2>3, <2>4, Zenon
<1>7. CASE x = "percent"
  <2>1. P("backslash", Append(s, x)) = Append(s1, x)
    BY <1>0, <1>2, <1>7, Zenon
  <2> HIDE DEF s1
  <2>2. P("percent", Append(s1, x)) = Append(Append(s2, "backslash"), x)
    BY <1>0, <1>2, <1>3, <1>7, Zenon
  <2> HIDE DEF s2
  <2>3. Append(s2, "backslash") \in Seq(M!Alphabet)
    BY <1>0, <1>4
  <2>4. P("underscore", Append(Append(s2, "backslash"), x)) = Append(Append(s3, "backslash"), x)
    <3>1. P("underscore", Append(s2, "backslash")) = Append(s3, "backslash")
      BY <1>0, <1>2, <1>4, Zenon
    <3>2. P("underscore", Append(Append(s2, "backslash"), x))
            = Append(P("underscore", Append(s2, "backslash")), x)
      <4>1. "underscore" \in Special /\ x # "underscore"
        BY <1>0, <1>7, Zenon
      <4>2. \A q \in Seq(M!Alphabet) : P("underscore", Append(q, x)) = Append(P("underscore", q), x)
        BY <1>2, <4>1, Zenon
      <4> QED BY <2>3, <4>2, Zenon
    <3> QED BY <3>1, <3>2, Zenon
  <2> QED BY <1>0, <1>1, <1>5, <1>7, <2>1, <2>2, <2>4, Zenon
<1>8. CASE x = "underscore"
  <2>1. P("backslash", Append(s, x)) = Append(s1, x)
    BY <1>0, <1>2, <1>8, Zenon
  <2> HIDE DEF s1
  <2>2. P("percent", Append(s1, x)) = Append(s2, x)
    BY <1>0, <1>2, <1>3, <1>8, Zenon
  <2> HIDE DEF s2
  <2>3. P("underscore", Append(s2, x)) = Append(Append(s3, "backslash"), x)
    BY <1>0, <1>2, <1>4, <1>8, Zenon
  <2> QED BY <1>0, <1>1, <1>5, <1>8, <2>1, <2>2, <2>3, Zenon
<1>9. CASE x \notin Special
  <2>0. x # "backslash" /\ x # "percent" /\ x # "underscore"
    BY <1>0, <1>9
  <2>1. P("backslash", Append(s, x)) = Append(s1, x)
    BY <1>0, <1>2, <2>0, Zenon
  <2> HIDE DEF s1
  <2>2. P("percent", Append(s1, x)) = Append(s2, x)
    BY <1>0, <1>2, <1>3, <2>0, Zenon
  <2> HIDE DEF s2
  <2>3. P("underscore", Append(s2, x)) = Append(s3, x)
    BY <1>0, <1>2, <1>4, <2>0, Zenon
  <2> QED BY <1>1, <1>5, <1>9, <2>1, <2>2, <2>3, Zenon
<1> QED BY <1>0, <1>6, <1>7, <1>8, <1>9, Zenon

\* Reading a pattern, letter by letter.
Reading(t) == [esc : BOOLEAN, at : SUBSET (0 .. Len(t))]

LEMMA LetterTyped ==
  ASSUME NEW t, Len(t) \in Nat, NEW r \in Reading(t), NEW c
  PROVE  M!ReadLetter(t, r, c) \in Reading(t)
BY DEF Reading, M!ReadLetter

ReadWalk(t, p, f) ==
  /\ f \in [0 .. Len(p) -> Reading(t)] /\ f[0] = M!NothingRead
  /\ \A i \in 1 .. Len(p) : f[i] = M!ReadLetter(t, f[i - 1], p[i])

LEMMA ReadWalks ==
  ASSUME NEW t, Len(t) \in Nat, NEW p \in Seq(M!Alphabet)
  PROVE  \E f : ReadWalk(t, p, f) /\ M!ReadPattern(t, p) = f[Len(p)]
<1> DEFINE X == Reading(t)
           n == Len(p)
           Step == [i \in 1 .. n |-> [x \in X |-> M!ReadLetter(t, x, p[i])]]
           Eq(g) == g = [k \in 0 .. n |->
                           IF k = 0 THEN M!NothingRead ELSE M!ReadLetter(t, g[k - 1], p[k])]
           out == CHOOSE g : Eq(g)
<1>1. n \in Nat /\ M!NothingRead \in X
  BY DEF Reading, M!NothingRead
<1>2. Step \in [1 .. n -> [X -> X]]
  BY LetterTyped
<1>3. PICK f : Steps(X, M!NothingRead, Step, n, f)
  <2> HIDE DEF X, Step, n
  <2> QED BY <1>1, <1>2, StepsExist
<1>4. f \in [0 .. n -> X] /\ f[0] = M!NothingRead /\ \A i \in 1 .. n : f[i] = Step[i][f[i - 1]]
  BY <1>3 DEF Steps
<1>5. \A i \in 1 .. n : i \in 0 .. n /\ i - 1 \in 0 .. n /\ f[i - 1] \in X
  <2> HIDE DEF X, Step, n
  <2>1. f \in [0 .. n -> X] /\ n \in Nat
    BY <1>1, <1>4
  <2>2. \A i \in 1 .. n : i \in 0 .. n /\ i - 1 \in 0 .. n
    BY <2>1
  <2> QED BY <2>1, <2>2
<1>6. \A i \in 1 .. n : f[i] = M!ReadLetter(t, f[i - 1], p[i])
  <2> HIDE DEF X, n
  <2> QED BY <1>4, <1>5
<1>7. Eq(f)
  <2> HIDE DEF Step, X, n
  <2>1. \A k \in 0 .. n : k # 0 => k \in 1 .. n
    BY <1>1
  <2>2. f = [k \in 0 .. n |-> f[k]]
    BY <1>4
  <2>3. \A k \in 0 .. n : f[k] = IF k = 0 THEN M!NothingRead ELSE M!ReadLetter(t, f[k - 1], p[k])
    BY <1>4, <1>6, <2>1
  <2> QED BY <2>2, <2>3
<1>8. Eq(out)
  <2> HIDE DEF Eq
  <2> QED BY <1>7
<1>9. M!ReadPattern(t, p) = out[n]
  BY DEF M!ReadPattern
<1> HIDE DEF out
<1>10. out[0] = M!NothingRead /\ \A i \in 1 .. n : out[i] = M!ReadLetter(t, out[i - 1], p[i])
  <2> HIDE DEF Step, X, n
  <2>1. 0 \in 0 .. n /\ \A k \in 1 .. n : k \in 0 .. n /\ k # 0
    BY <1>1
  <2>2. \A k \in 0 .. n : out[k] = IF k = 0 THEN M!NothingRead ELSE M!ReadLetter(t, out[k - 1], p[k])
    BY <1>8, Zenon
  <2> QED BY <2>1, <2>2
<1>11. out[n] = f[n]
  <2> HIDE DEF Step, X, n
  <2>1. out[0] = f[0] /\ \A i \in 1 .. n : out[i - 1] = f[i - 1] => out[i] = f[i]
    BY <1>4, <1>6, <1>10
  <2> QED BY <1>1, <2>1, StepsAgree
<1>12. ReadWalk(t, p, f)
  BY <1>4, <1>6 DEF ReadWalk
<1> QED BY <1>9, <1>11, <1>12

LEMMA ReadEmpty ==
  ASSUME NEW t, Len(t) \in Nat
  PROVE  M!ReadPattern(t, <<>>) = M!NothingRead
<1>1. <<>> \in Seq(M!Alphabet) /\ Len(<<>>) = 0
  OBVIOUS
<1>2. PICK f : ReadWalk(t, <<>>, f) /\ M!ReadPattern(t, <<>>) = f[Len(<<>>)]
  BY <1>1, ReadWalks, Zenon
<1> QED BY <1>1, <1>2 DEF ReadWalk

LEMMA ReadAppend ==
  ASSUME NEW t, Len(t) \in Nat, NEW p \in Seq(M!Alphabet), NEW x \in M!Alphabet
  PROVE  /\ M!ReadPattern(t, p) \in Reading(t)
         /\ M!ReadPattern(t, Append(p, x)) = M!ReadLetter(t, M!ReadPattern(t, p), x)
<1> DEFINE u == Append(p, x)
           n == Len(p)
<1>1. /\ u \in Seq(M!Alphabet) /\ n \in Nat /\ Len(u) = n + 1 /\ u[n + 1] = x
      /\ \A i \in 1 .. n : u[i] = p[i]
  OBVIOUS
<1>2. PICK f : ReadWalk(t, p, f) /\ M!ReadPattern(t, p) = f[n]
  BY ReadWalks, Zenon
<1>3. PICK g : ReadWalk(t, u, g) /\ M!ReadPattern(t, u) = g[Len(u)]
  BY <1>1, ReadWalks, Zenon
<1> HIDE DEF u, n
<1>4. g[n] = f[n]
  <2>1. f[0] = g[0]
    BY <1>2, <1>3 DEF ReadWalk
  <2>2. ASSUME NEW i \in 1 .. n, f[i - 1] = g[i - 1] PROVE f[i] = g[i]
    <3>1. i \in 1 .. Len(u) /\ u[i] = p[i] /\ i \in 1 .. Len(p)
      BY <1>1 DEF n
    <3> QED BY <1>2, <1>3, <2>2, <3>1 DEF ReadWalk
  <2> QED BY <1>1, <2>1, <2>2, StepsAgree
<1>5. g[n + 1] = M!ReadLetter(t, g[n], x)
  <2>1. n + 1 \in 1 .. Len(u) /\ (n + 1) - 1 = n
    BY <1>1
  <2> QED BY <1>1, <1>3, <2>1 DEF ReadWalk
<1>6. f[n] \in Reading(t)
  BY <1>1, <1>2 DEF ReadWalk, n
<1> QED BY <1>1, <1>2, <1>3, <1>4, <1>5, <1>6 DEF u

\* Where in t a run that reads as f may end.
MatchEnds(t, f) ==
  {q \in Len(f) .. Len(t) :
     \A i \in 1 .. Len(f) : M!SqlLower(t[(q - Len(f)) + i]) = M!SqlLower(f[i])}

LEMMA EndsAppend ==
  ASSUME NEW t, Len(t) \in Nat, NEW f, Filed(f), NEW x \in M!Alphabet
  PROVE  {q \in 1 .. Len(t) : q - 1 \in MatchEnds(t, f) /\ M!Follows(t, x, q - 1)}
           = MatchEnds(t, Append(f, x))
<1> DEFINE n == Len(f)
           u == Append(f, x)
           A == {q \in 1 .. Len(t) : q - 1 \in MatchEnds(t, f) /\ M!Follows(t, x, q - 1)}
<1>1. n \in Nat /\ Len(u) = n + 1 /\ u[n + 1] = x /\ \A i \in 1 .. n : u[i] = f[i]
  BY DEF Filed
<1> HIDE DEF u, n
<1>2. ASSUME NEW q, q \in A PROVE q \in MatchEnds(t, u)
  <2>1. /\ q \in 1 .. Len(t) /\ q - 1 \in n .. Len(t)
        /\ \A i \in 1 .. n : M!SqlLower(t[((q - 1) - n) + i]) = M!SqlLower(f[i])
        /\ M!SqlLower(t[(q - 1) + 1]) = M!SqlLower(x)
    BY <1>2 DEF MatchEnds, M!Follows, n
  <2>2. q \in (n + 1) .. Len(t) /\ (q - 1) + 1 = q
    BY <1>1, <2>1
  <2>3. ASSUME NEW i \in 1 .. (n + 1)
        PROVE  M!SqlLower(t[(q - (n + 1)) + i]) = M!SqlLower(u[i])
    <3>1. CASE i \in 1 .. n
      <4>1. (q - (n + 1)) + i = ((q - 1) - n) + i
        BY <1>1, <2>2
      <4> QED BY <1>1, <2>1, <3>1, <4>1
    <3>2. CASE i = n + 1
      <4>1. (q - (n + 1)) + i = q
        BY <1>1, <2>2, <3>2
      <4> QED BY <1>1, <2>1, <2>2, <3>2, <4>1
    <3> QED BY <1>1, <3>1, <3>2
  <2> QED BY <1>1, <2>2, <2>3 DEF MatchEnds
<1>3. ASSUME NEW q, q \in MatchEnds(t, u) PROVE q \in A
  <2>1. /\ q \in (n + 1) .. Len(t)
        /\ \A i \in 1 .. (n + 1) : M!SqlLower(t[(q - (n + 1)) + i]) = M!SqlLower(u[i])
    BY <1>1, <1>3 DEF MatchEnds
  <2>2. q \in 1 .. Len(t) /\ q - 1 \in n .. Len(t) /\ q - 1 < Len(t) /\ (q - 1) + 1 = q
    BY <1>1, <2>1
  <2>3. M!SqlLower(t[q]) = M!SqlLower(x)
    <3>1. (q - (n + 1)) + (n + 1) = q /\ n + 1 \in 1 .. (n + 1)
      BY <1>1, <2>1
    <3> QED BY <1>1, <2>1, <3>1
  <2>4. ASSUME NEW i \in 1 .. n
        PROVE  M!SqlLower(t[((q - 1) - n) + i]) = M!SqlLower(f[i])
    <3>1. (q - (n + 1)) + i = ((q - 1) - n) + i /\ i \in 1 .. (n + 1)
      BY <1>1, <2>2
    <3> QED BY <1>1, <2>1, <3>1
  <2> QED BY <2>2, <2>3, <2>4 DEF MatchEnds, M!Follows, n
<1> QED BY <1>2, <1>3 DEF u

\* LIKE reads back what escape_like wrote: the letters themselves.
LEMMA ReadEscaped ==
  ASSUME NEW t, Len(t) \in Nat, NEW f, Filed(f)
  PROVE  M!ReadPattern(t, <<"percent">> \o M!EscapeLike(f)) = [esc |-> FALSE, at |-> MatchEnds(t, f)]
<1> DEFINE AsItself(g) ==
             M!ReadPattern(t, <<"percent">> \o M!EscapeLike(g)) = [esc |-> FALSE, at |-> MatchEnds(t, g)]
           T == {k \in Nat : \A g \in Seq(M!Alphabet) : Len(g) = k => AsItself(g)}
<1>0. "percent" \in M!Alphabet /\ "backslash" \in M!Alphabet
  BY DEF M!Alphabet
<1>1. 0 \in T
  <2> SUFFICES ASSUME NEW g \in Seq(M!Alphabet), Len(g) = 0 PROVE AsItself(g)
    OBVIOUS
  <2>1. g = <<>>
    OBVIOUS
  <2>2. <<"percent">> \o M!EscapeLike(g) = Append(<<>>, "percent")
    <3>1. M!EscapeLike(g) = <<>>
      BY <2>1, EscapeEmpty, Zenon
    <3>2. <<"percent">> \o <<>> = Append(<<>>, "percent")
      OBVIOUS
    <3> QED BY <3>1, <3>2, Zenon
  <2>3. <<>> \in Seq(M!Alphabet)
    OBVIOUS
  <2>4. M!ReadPattern(t, Append(<<>>, "percent")) = M!ReadLetter(t, M!NothingRead, "percent")
    BY <1>0, <2>3, ReadAppend, ReadEmpty
  <2>5. M!ReadLetter(t, M!NothingRead, "percent") = [esc |-> FALSE, at |-> 0 .. Len(t)]
    <3>1. M!ReadLetter(t, M!NothingRead, "percent")
            = [esc |-> FALSE, at |-> {q \in 0 .. Len(t) : \E o \in {0} : o <= q}]
      BY DEF M!ReadLetter, M!NothingRead
    <3>2. {q \in 0 .. Len(t) : \E o \in {0} : o <= q} = 0 .. Len(t)
      OBVIOUS
    <3> QED BY <3>1, <3>2, Zenon
  <2>6. MatchEnds(t, g) = 0 .. Len(t)
    BY <2>1 DEF MatchEnds
  <2> QED BY <2>2, <2>4, <2>5, <2>6
<1>2. ASSUME NEW k \in T PROVE k + 1 \in T
  <2> SUFFICES ASSUME NEW g \in Seq(M!Alphabet), Len(g) = k + 1 PROVE AsItself(g)
    OBVIOUS
  <2> DEFINE h == SubSeq(g, 1, k)
             x == g[k + 1]
             e == M!EscapeLike(h)
             p == <<"percent">> \o e
  <2>1. /\ h \in Seq(M!Alphabet) /\ x \in M!Alphabet /\ Len(h) = k
        /\ g = Append(h, x)
    OBVIOUS
  <2> HIDE DEF h, x
  <2>2. e \in Seq(M!Alphabet)
    BY <2>1, EscapeAppend
  <2>3. p \in Seq(M!Alphabet)
    <3> HIDE DEF e
    <3> QED BY <1>0, <2>2
  <2>4. M!ReadPattern(t, p) = [esc |-> FALSE, at |-> MatchEnds(t, h)]
    BY <1>2, <2>1
  <2>5. \A y : <<"percent">> \o Append(e, y) = Append(p, y)
    <3> HIDE DEF e
    <3> QED BY <2>2
  <2>6. MatchEnds(t, g) = {q \in 1 .. Len(t) : q - 1 \in MatchEnds(t, h) /\ M!Follows(t, x, q - 1)}
    BY <2>1, EndsAppend DEF Filed
  <2> HIDE DEF e, p
  <2>7. CASE x \in Special
    <3>1. M!EscapeLike(g) = Append(Append(e, "backslash"), x)
      BY <2>1, <2>7, EscapeAppend DEF e
    <3>2. Append(e, "backslash") \in Seq(M!Alphabet) /\ Append(p, "backslash") \in Seq(M!Alphabet)
      BY <1>0, <2>2, <2>3
    <3>3. <<"percent">> \o M!EscapeLike(g) = Append(Append(p, "backslash"), x)
      BY <2>2, <2>5, <3>1, <3>2 DEF p
    <3>4. M!ReadPattern(t, Append(p, "backslash")) = [esc |-> TRUE, at |-> MatchEnds(t, h)]
      <4>1. M!ReadPattern(t, Append(p, "backslash")) = M!ReadLetter(t, M!ReadPattern(t, p), "backslash")
        BY <1>0, <2>3, ReadAppend
      <4> QED BY <2>4, <4>1 DEF M!ReadLetter
    <3>5. M!ReadPattern(t, Append(Append(p, "backslash"), x))
            = M!ReadLetter(t, [esc |-> TRUE, at |-> MatchEnds(t, h)], x)
      <4>1. M!ReadPattern(t, Append(Append(p, "backslash"), x))
              = M!ReadLetter(t, M!ReadPattern(t, Append(p, "backslash")), x)
        BY <2>1, <3>2, ReadAppend
      <4> QED BY <3>4, <4>1, Zenon
    <3>6. M!ReadLetter(t, [esc |-> TRUE, at |-> MatchEnds(t, h)], x) = [esc |-> FALSE, at |-> MatchEnds(t, g)]
      BY <2>6 DEF M!ReadLetter
    <3> QED BY <3>3, <3>5, <3>6
  <2>8. CASE x \notin Special
    <3>1. M!EscapeLike(g) = Append(e, x)
      BY <2>1, <2>8, EscapeAppend DEF e
    <3>2. <<"percent">> \o M!EscapeLike(g) = Append(p, x)
      BY <2>5, <3>1
    <3>3. M!ReadPattern(t, Append(p, x)) = M!ReadLetter(t, M!ReadPattern(t, p), x)
      BY <2>1, <2>3, ReadAppend
    <3>4. M!ReadLetter(t, [esc |-> FALSE, at |-> MatchEnds(t, h)], x) = [esc |-> FALSE, at |-> MatchEnds(t, g)]
      BY <2>6, <2>8 DEF M!ReadLetter, Special
    <3> QED BY <2>4, <3>2, <3>3, <3>4
  <2> QED BY <2>7, <2>8
<1>3. T = Nat
  <2> HIDE DEF T
  <2>1. T \in SUBSET Nat BY DEF T
  <2> QED BY <1>1, <1>2, <2>1, Induct
<1>4. Len(f) \in T /\ f \in Seq(M!Alphabet)
  BY <1>3 DEF Filed
<1> QED BY <1>4

\* What LIKE compares, letter by letter.
LEMMA MatchesByLetter ==
    ASSUME NEW t, Filed(t), NEW f, Filed(f)
    PROVE  M!Matches(t, f) <=>
             \E at \in 0 .. Len(t) :
               /\ at + Len(f) <= Len(t)
               /\ \A i \in DOMAIN f :
                    M!SqlLower(M!SqlLower(t[at + i])) = M!SqlLower(M!ToLowercase(f[i]))
<1> DEFINE lt == [i \in DOMAIN t |-> M!SqlLower(t[i])]
           lf == [i \in DOMAIN f |-> M!ToLowercase(f[i])]
           e == M!EscapeLike(lf)
           p == <<"percent">> \o e
<1>0. "percent" \in M!Alphabet
  BY DEF M!Alphabet
<1>1. /\ Len(t) \in Nat /\ DOMAIN t = 1 .. Len(t) /\ \A i \in 1 .. Len(t) : t[i] \in M!Alphabet
      /\ Len(f) \in Nat /\ DOMAIN f = 1 .. Len(f) /\ \A i \in 1 .. Len(f) : f[i] \in M!Alphabet
  BY DEF Filed
<1>2. \A c \in M!Alphabet : M!SqlLower(c) \in M!Alphabet /\ M!ToLowercase(c) \in M!Alphabet
  BY DEF M!Alphabet, M!SqlLower, M!ToLowercase
<1>3. lt \in Seq(M!Alphabet) /\ Len(lt) = Len(t) /\ \A i \in 1 .. Len(t) : lt[i] = M!SqlLower(t[i])
  BY <1>1, <1>2
<1>4. lf \in Seq(M!Alphabet) /\ Len(lf) = Len(f) /\ \A i \in 1 .. Len(f) : lf[i] = M!ToLowercase(f[i])
  BY <1>1, <1>2
<1>5. M!Matches(t, f) <=> M!Like(lt, p \o <<"percent">>)
  BY DEF M!Matches, M!Pattern
<1> HIDE DEF lt, lf
<1>6. e \in Seq(M!Alphabet)
  BY <1>0, <1>4, EscapeAppend
<1>7. M!ReadPattern(lt, p) = [esc |-> FALSE, at |-> MatchEnds(lt, lf)]
  BY <1>1, <1>3, <1>4, ReadEscaped DEF Filed
<1> HIDE DEF e
<1>8. p \in Seq(M!Alphabet) /\ p \o <<"percent">> = Append(p, "percent")
  BY <1>0, <1>6
<1> HIDE DEF p
<1>9. M!ReadPattern(lt, Append(p, "percent"))
        = M!ReadLetter(lt, [esc |-> FALSE, at |-> MatchEnds(lt, lf)], "percent")
  BY <1>0, <1>1, <1>3, <1>7, <1>8, ReadAppend
<1>10. M!ReadLetter(lt, [esc |-> FALSE, at |-> MatchEnds(lt, lf)], "percent")
         = [esc |-> FALSE, at |-> {q \in 0 .. Len(lt) : \E o \in MatchEnds(lt, lf) : o <= q}]
  BY DEF M!ReadLetter
<1>11. M!Like(lt, p \o <<"percent">>) <=> \E o \in MatchEnds(lt, lf) : o <= Len(lt)
  <2> DEFINE r == M!ReadPattern(lt, p \o <<"percent">>)
             A == {q \in 0 .. Len(lt) : \E o \in MatchEnds(lt, lf) : o <= q}
  <2>1. r = [esc |-> FALSE, at |-> A]
    BY <1>8, <1>9, <1>10, Zenon
  <2>2. M!Like(lt, p \o <<"percent">>) <=> ~r.esc /\ Len(lt) \in r.at
    BY Zenon DEF M!Like
  <2>3. Len(lt) \in A <=> \E o \in MatchEnds(lt, lf) : o <= Len(lt)
    BY <1>1, <1>3
  <2> HIDE DEF r, A
  <2>4. r.esc = FALSE /\ r.at = A
    BY <2>1
  <2> QED BY <2>2, <2>3, <2>4, Zenon
<1>12. ASSUME NEW o \in MatchEnds(lt, lf)
       PROVE  \E at \in 0 .. Len(t) :
                /\ at + Len(f) <= Len(t)
                /\ \A i \in DOMAIN f :
                     M!SqlLower(M!SqlLower(t[at + i])) = M!SqlLower(M!ToLowercase(f[i]))
  <2> DEFINE at == o - Len(f)
  <2>1. /\ o \in Len(f) .. Len(t)
        /\ \A i \in 1 .. Len(f) : M!SqlLower(lt[at + i]) = M!SqlLower(lf[i])
    BY <1>3, <1>4 DEF MatchEnds
  <2>2. at \in 0 .. Len(t) /\ at + Len(f) <= Len(t) /\ \A i \in 1 .. Len(f) : at + i \in 1 .. Len(t)
    BY <1>1, <2>1
  <2> HIDE DEF at
  <2>3. \A i \in DOMAIN f : M!SqlLower(M!SqlLower(t[at + i])) = M!SqlLower(M!ToLowercase(f[i]))
    BY <1>1, <1>3, <1>4, <2>1, <2>2
  <2> QED BY <2>2, <2>3
<1>13. ASSUME NEW at \in 0 .. Len(t), at + Len(f) <= Len(t),
              \A i \in DOMAIN f :
                M!SqlLower(M!SqlLower(t[at + i])) = M!SqlLower(M!ToLowercase(f[i]))
       PROVE  \E o \in MatchEnds(lt, lf) : o <= Len(lt)
  <2> DEFINE o == at + Len(f)
  <2>1. o \in Len(f) .. Len(t) /\ o - Len(f) = at /\ o <= Len(t)
    BY <1>1, <1>13
  <2>2. \A i \in 1 .. Len(f) : at + i \in 1 .. Len(t)
    BY <1>1, <1>13
  <2>3. \A i \in 1 .. Len(f) : M!SqlLower(lt[at + i]) = M!SqlLower(lf[i])
    BY <1>1, <1>3, <1>4, <1>13, <2>2
  <2> HIDE DEF o
  <2>4. o \in MatchEnds(lt, lf)
    BY <1>3, <1>4, <2>1, <2>3 DEF MatchEnds
  <2> QED BY <1>3, <2>1, <2>4
<1>14. (\E o \in MatchEnds(lt, lf) : o <= Len(lt)) <=>
         \E at \in 0 .. Len(t) :
           /\ at + Len(f) <= Len(t)
           /\ \A i \in DOMAIN f :
                M!SqlLower(M!SqlLower(t[at + i])) = M!SqlLower(M!ToLowercase(f[i]))
  BY <1>12, <1>13
<1> QED BY <1>5, <1>11, <1>14, Zenon

MatchingInv ==
  /\ Filed(text) /\ Filed(filter) /\ answer \in {"none", "counted", "left"}
  /\ answer # "none" => (answer = "counted" <=> M!Matches(text, filter))

\* The two ways to lower a letter agree but for a capital outside ASCII.
LEMMA LetterCases ==
    ASSUME NEW c \in M!Alphabet, NEW d \in M!Alphabet
    PROVE  /\ M!SqlLower(M!SqlLower(c)) = M!SqlLower(M!ToLowercase(d))
                => M!ToLowercase(c) = M!ToLowercase(d)
           /\ c # "EA" /\ M!ToLowercase(c) = M!ToLowercase(d)
                => M!SqlLower(M!SqlLower(c)) = M!SqlLower(M!ToLowercase(d))
BY DEF M!Alphabet, M!SqlLower, M!ToLowercase

LEMMA MatchingInitial ==
    ASSUME IF part = "matching" THEN M!Init ELSE text = <<>> /\ filter = <<>> /\ answer = "none"
    PROVE  MatchingInv
<1>1. M!LettersAssumption
  BY SurfaceAssumption, Zenon
<1>2. ASSUME NEW n \in Nat, NEW s \in M!Strings(n) PROVE Filed(s)
  <2>1. PICK k \in 0 .. n : s \in [1 .. k -> Letters]
    BY DEF M!Strings
  <2>2. k \in Nat /\ s \in [1 .. k -> M!Alphabet]
    BY <1>1, <2>1 DEF M!LettersAssumption
  <2> QED BY <2>2 DEF Filed
<1>3. CASE part = "matching"
  <2>1. text \in M!Strings(MaxText) /\ filter \in M!Strings(MaxFilter) /\ answer = "none"
    BY <1>3, Zenon DEF M!Init
  <2> QED BY <1>1, <1>2, <2>1 DEF M!LettersAssumption, MatchingInv
<1>4. CASE part # "matching"
  <2>1. text = <<>> /\ filter = <<>> /\ answer = "none"
    BY <1>4, Zenon
  <2> QED BY <2>1 DEF MatchingInv, Filed
<1> QED BY <1>3, <1>4

LEMMA MatchingNext ==
    ASSUME MatchingInv, M!Next \/ UNCHANGED matchingVars
    PROVE  MatchingInv'
<1>1. CASE UNCHANGED matchingVars
  BY <1>1 DEF matchingVars, MatchingInv
<1>2. CASE M!Next
  <2>1. /\ UNCHANGED <<text, filter>>
        /\ answer' = IF M!Matches(text, filter) THEN "counted" ELSE "left"
    BY <1>2 DEF M!Next, M!CountMatching
  <2>2. M!Matches(text, filter)' <=> M!Matches(text, filter)
    BY <2>1
  <2> QED BY <2>1, <2>2 DEF MatchingInv
<1> QED BY <1>1, <1>2

LEMMA MatchingHolds ==
    ASSUME MatchingInv
    PROVE  CountedIffItContains
<1>1. Filed(text) /\ Filed(filter)
  BY DEF MatchingInv
<1>2. /\ DOMAIN text = 1 .. Len(text) /\ DOMAIN filter = 1 .. Len(filter)
      /\ Len(text) \in Nat /\ Len(filter) \in Nat
      /\ \A i \in DOMAIN text : text[i] \in M!Alphabet
      /\ \A i \in DOMAIN filter : filter[i] \in M!Alphabet
  BY <1>1 DEF Filed
<1>3. ASSUME NEW at \in 0 .. Len(text), at + Len(filter) <= Len(text), NEW i \in DOMAIN filter
      PROVE  at + i \in DOMAIN text /\ text[at + i] \in M!Alphabet /\ filter[i] \in M!Alphabet
  BY <1>2, <1>3
<1>4. ASSUME answer = "counted" PROVE M!Contains
  <2>1. PICK at \in 0 .. Len(text) :
          /\ at + Len(filter) <= Len(text)
          /\ \A i \in DOMAIN filter :
               M!SqlLower(M!SqlLower(text[at + i])) = M!SqlLower(M!ToLowercase(filter[i]))
    BY <1>1, <1>4, MatchesByLetter DEF MatchingInv
  <2>2. \A i \in DOMAIN filter : M!ToLowercase(text[at + i]) = M!ToLowercase(filter[i])
    BY <1>3, <2>1, LetterCases
  <2> QED BY <2>1, <2>2 DEF M!Contains
<1>5. ASSUME answer = "left", M!Contains PROVE \E i \in DOMAIN text : text[i] = "EA"
  <2>1. SUFFICES ASSUME \A i \in DOMAIN text : text[i] # "EA" PROVE M!Matches(text, filter)
    BY <1>5 DEF MatchingInv
  <2>2. PICK at \in 0 .. Len(text) :
          /\ at + Len(filter) <= Len(text)
          /\ \A i \in DOMAIN filter : M!ToLowercase(text[at + i]) = M!ToLowercase(filter[i])
    BY <1>5 DEF M!Contains
  <2>3. \A i \in DOMAIN filter :
          M!SqlLower(M!SqlLower(text[at + i])) = M!SqlLower(M!ToLowercase(filter[i]))
    BY <1>3, <2>1, <2>2, LetterCases
  <2> QED BY <1>1, <2>2, <2>3, MatchesByLetter
<1> QED BY <1>4, <1>5 DEF CountedIffItContains, M!CountedIffItContains

\* Only a message whose text contains the filter, case apart, is counted, and every
\* such message is unless its text has a capital outside ASCII: to_lowercase, the
\* three passes of escape_like, each over what the one before wrote, SQLite's LOWER
\* and LIKE's reading of the escapes, for texts and filters of any length.
THEOREM CountedAlwaysContains == SurfaceSpec => []CountedIffItContains
<1>1. SurfaceInit => MatchingInv
  BY MatchingInitial DEF SurfaceInit
<1>2. MatchingInv /\ [SurfaceNext]_surfaceVars => MatchingInv'
  BY MatchingNext, OnePart, Zenon
<1>3. MatchingInv => CountedIffItContains
  BY MatchingHolds
<1> QED BY <1>1, <1>2, <1>3, PTL DEF SurfaceSpec

============================================================================
