------------------------------- MODULE Serve -------------------------------
(* The life of one `rustmail serve` process: startup, the stop request that a *)
(* signal makes at any time, the select! that serves until something ends,    *)
(* the drain and the close; and what runs meanwhile: the SMTP accept loop     *)
(* with its session slots and backoff, and the webhook tasks of stored mail.  *)
EXTENDS Naturals, FiniteSets

CONSTANTS
  Peers,          \* SMTP clients that may connect
  Sessions,       \* MAX_CONCURRENT_SESSIONS
  BackoffInitial, BackoffMax,   \* ACCEPT_BACKOFF_INITIAL, ACCEPT_BACKOFF_MAX
  HookSlots,      \* permits of webhook_semaphore
  Batches,        \* bound: batches a storage migration may still have to copy
  Mails,          \* bound: messages stored
  Ephemeral,      \* --ephemeral: no database file to prepare
  Faults          \* whether startup steps and tasks may fail

ServeAssumption ==
  /\ IsFiniteSet(Peers) /\ Sessions \in Nat /\ HookSlots \in Nat \ {0}
  /\ Batches \in Nat /\ Mails \in Nat
  /\ BackoffInitial \in Nat \ {0} /\ BackoffMax \in Nat /\ BackoffInitial <= BackoffMax
  /\ Ephemeral \in BOOLEAN /\ Faults \in BOOLEAN

VARIABLES
  phase,     \* where run_serve is
  exit,      \* how the process ended: "none", "ok", "error" or "killed"
  batches,   \* batches the migration has left
  signalled, \* a signal has reached the installed handlers
  stop,      \* the value of StopRequest's watch channel
  peer,      \* of each SMTP client: "away", "waiting", "session", "refused"
  permits,   \* free permits of the accept loop's semaphore
  backoff, asleep,   \* accept_backoff, and whether the loop sleeps it out
  mail,      \* messages stored
  hooks      \* of each message's webhook task: "none", "waiting", "posting", "done"

startup == <<batches>>
accepts == <<peer, permits, backoff, asleep>>
webhooks == <<mail, hooks>>
vars == <<phase, exit, startup, signalled, stop, accepts, webhooks>>

Phases == {"configure", "listen", "prepare", "open", "spawn", "bind", "serve",
           "drain", "close", "exited"}
InSession == {p \in Peers : peer[p] = "session"}
Posting == {m \in 1..Mails : hooks[m] = "posting"}
Alive == phase # "exited"
Running == phase \in {"bind", "serve", "drain", "close"}   \* the tasks are spawned

TypeOK ==
  /\ phase \in Phases /\ exit \in {"none", "ok", "error", "killed"}
  /\ (exit = "none") = Alive
  /\ batches \in 0..Batches
  /\ signalled \in BOOLEAN /\ stop \in BOOLEAN
  /\ peer \in [Peers -> {"away", "waiting", "session", "refused"}]
  /\ permits \in Nat /\ asleep \in BOOLEAN
  /\ backoff \in BackoffInitial..BackoffMax
  /\ mail \in 0..Mails
  /\ hooks \in [1..Mails -> {"none", "waiting", "posting", "done"}]

Init ==
  /\ phase = "configure" /\ exit = "none"
  /\ batches \in 0..Batches
  /\ signalled = FALSE /\ stop = FALSE
  /\ peer = [p \in Peers |-> "away"]
  /\ permits = Sessions /\ backoff = BackoffInitial /\ asleep = FALSE
  /\ mail = 0 /\ hooks = [m \in 1..Mails |-> "none"]

Exit(how) == phase' = "exited" /\ exit' = how
Go(next) == phase' = next /\ UNCHANGED exit

----------------------------------------------------------------------------
(* Startup.                                                                   *)

(* Arguments, origins, hosts and TLS files are read; a bad one refuses.       *)
Configure ==
  /\ phase = "configure"
  /\ Go("listen") \/ (Faults /\ Exit("error"))
  /\ UNCHANGED <<startup, signalled, stop, accepts, webhooks>>

(* StopRequest::listen: one listener for the whole run.                       *)
Listen ==
  /\ phase = "listen"
  /\ Go(IF Ephemeral THEN "open" ELSE "prepare")
  /\ UNCHANGED <<startup, signalled, stop, accepts, webhooks>>

(* SIGTERM or Ctrl-C.  Before the handlers are installed it ends the process  *)
(* (or, as PID 1, is ignored); after, it waits for the listener task.         *)
Signal ==
  /\ Alive
  /\ \/ phase \in {"configure", "listen"} /\ Exit("killed") /\ UNCHANGED signalled
     \/ phase \notin {"configure", "listen"} /\ signalled' = TRUE /\ UNCHANGED <<phase, exit>>
  /\ UNCHANGED <<startup, stop, accepts, webhooks>>

(* Mutant: the task's notification reaches only who waits for it at the time *)
HearUnlatched ==
  /\ Alive /\ signalled /\ ~stop
  /\ IF phase = "serve" THEN stop' = TRUE /\ UNCHANGED signalled
     ELSE signalled' = FALSE /\ UNCHANGED stop
  /\ UNCHANGED <<phase, exit, startup, accepts, webhooks>>

(* The listener task latches the request and ends: later signals do nothing.  *)
Hear ==
  /\ Alive /\ signalled /\ ~stop
  /\ stop' = TRUE
  /\ UNCHANGED <<phase, exit, startup, signalled, accepts, webhooks>>

(* prepare_database_file: a stop pauses the migration after the batch in      *)
(* flight, and ends startup even if nothing was left to copy.                 *)
Prepare ==
  /\ phase = "prepare"
  /\ \/ stop /\ Exit("ok") /\ UNCHANGED batches
     \/ ~stop /\ batches > 0 /\ batches' = batches - 1 /\ UNCHANGED <<phase, exit>>
     \/ ~stop /\ batches = 0 /\ Go("open") /\ UNCHANGED batches
     \/ Faults /\ Exit("error") /\ UNCHANGED batches
  /\ UNCHANGED <<signalled, stop, accepts, webhooks>>

(* open_repository, and the webhook URL, which is looked at only now.         *)
Open ==
  /\ phase = "open"
  /\ Go("spawn") \/ (Faults /\ Exit("error"))
  /\ UNCHANGED <<startup, signalled, stop, accepts, webhooks>>

Spawn ==
  /\ phase = "spawn"
  /\ Go("bind")
  /\ UNCHANGED <<startup, signalled, stop, accepts, webhooks>>

(* The HTTP listener; then select! polls the SMTP server, which binds.        *)
Bind ==
  /\ phase = "bind"
  /\ Go("serve") \/ (Faults /\ Exit("error"))
  /\ UNCHANGED <<startup, signalled, stop, accepts, webhooks>>

----------------------------------------------------------------------------
(* The SMTP accept loop, a branch of the select! (dropped with it).           *)

Accepting == phase = "serve" /\ ~asleep

Connect(p) ==
  /\ phase = "serve" /\ peer[p] = "away"
  /\ peer' = [peer EXCEPT ![p] = "waiting"]
  /\ UNCHANGED <<phase, exit, startup, signalled, stop, permits, backoff, asleep, webhooks>>

(* A session with a slot, or 421 and the connection is dropped.               *)
Accept(p) ==
  /\ Accepting /\ peer[p] = "waiting"
  /\ backoff' = BackoffInitial
  /\ IF permits > 0
     THEN permits' = permits - 1 /\ peer' = [peer EXCEPT ![p] = "session"]
     ELSE peer' = [peer EXCEPT ![p] = "refused"] /\ UNCHANGED permits
  /\ UNCHANGED <<phase, exit, startup, signalled, stop, asleep, webhooks>>

NextBackoff(b) == IF 2 * b < BackoffMax THEN 2 * b ELSE BackoffMax

(* accept() failed, out of descriptors say: sleep, then try again.            *)
AcceptFails ==
  /\ Accepting /\ \E p \in Peers : peer[p] = "waiting"
  /\ asleep' = TRUE
  /\ UNCHANGED <<phase, exit, startup, signalled, stop, peer, permits, backoff, webhooks>>

(* Mutant: the loop goes back to accept() only after a connection came *)
WakesNever ==
  /\ phase = "serve" /\ asleep /\ InSession # {}
  /\ asleep' = FALSE /\ backoff' = NextBackoff(backoff)
  /\ UNCHANGED <<phase, exit, startup, signalled, stop, peer, permits, webhooks>>

Wakes ==
  /\ phase = "serve" /\ asleep
  /\ asleep' = FALSE /\ backoff' = NextBackoff(backoff)
  /\ UNCHANGED <<phase, exit, startup, signalled, stop, peer, permits, webhooks>>

(* A session task ends, in error too; it outlives the accept loop.  Its peer  *)
(* may connect again.                                                         *)
SessionEnds(p) ==
  /\ Running /\ peer[p] \in {"session", "refused"}
  /\ peer' = [peer EXCEPT ![p] = "away"]
  /\ permits' = IF peer[p] = "session" THEN permits + 1 ELSE permits
  /\ UNCHANGED <<phase, exit, startup, signalled, stop, backoff, asleep, webhooks>>

----------------------------------------------------------------------------
(* The message processor's last step for a stored message, and its webhook.   *)

Store ==
  /\ phase \in {"serve", "drain"} /\ mail < Mails
  /\ mail' = mail + 1
  /\ hooks' = [hooks EXCEPT ![mail'] = "waiting"]
  /\ UNCHANGED <<phase, exit, startup, signalled, stop, accepts>>

HookPosts(m) ==
  /\ Running /\ hooks[m] = "waiting" /\ Cardinality(Posting) < HookSlots
  /\ hooks' = [hooks EXCEPT ![m] = "posting"]
  /\ UNCHANGED <<phase, exit, startup, signalled, stop, accepts, mail>>

(* An answer, an error or the 5 s timeout: never a retry.                     *)
HookEnds(m) ==
  /\ Running /\ hooks[m] = "posting"
  /\ hooks' = [hooks EXCEPT ![m] = "done"]
  /\ UNCHANGED <<phase, exit, startup, signalled, stop, accepts, mail>>

----------------------------------------------------------------------------
(* The end of the select!.                                                    *)

StopSeen ==
  /\ phase = "serve" /\ stop
  /\ Go("drain")
  /\ UNCHANGED <<startup, signalled, stop, accepts, webhooks>>

(* The SMTP or HTTP server or the processor ended: an error, without a drain. *)
(* A retention task that ended (it can only panic) leaves by the drain.       *)
TaskEnds ==
  /\ Faults /\ phase = "serve"
  /\ Exit("error") \/ Go("drain")
  /\ UNCHANGED <<startup, signalled, stop, accepts, webhooks>>

(* The queue and the HTTP connections are done, or the deadline elapsed.      *)
Drained ==
  /\ phase = "drain"
  /\ Go("close")
  /\ UNCHANGED <<startup, signalled, stop, accepts, webhooks>>

(* The database is closed, or is not in time; the runtime drops every task.   *)
Close ==
  /\ phase = "close"
  /\ Exit("ok")
  /\ UNCHANGED <<startup, signalled, stop, accepts, webhooks>>

Main == Configure \/ Listen \/ Prepare \/ Open \/ Spawn \/ Bind \/ StopSeen \/ Drained \/ Close

Next ==
  \/ Main \/ Signal \/ Hear \/ TaskEnds \/ Store \/ AcceptFails \/ Wakes
  \/ \E p \in Peers : Connect(p) \/ Accept(p) \/ SessionEnds(p)
  \/ \E m \in 1..Mails : HookPosts(m) \/ HookEnds(m)

Spec == Init /\ [][Next]_vars

(* The main task and the listener run; timers fire; accept() does not fail    *)
(* for ever and hands out every connection of its backlog; the semaphore of   *)
(* the webhooks is first come, first served.                                  *)
Fairness ==
  /\ WF_vars(Main) /\ WF_vars(Hear) /\ WF_vars(Wakes)
  /\ \A p \in Peers : SF_vars(Accept(p))
  /\ \A m \in 1..Mails : SF_vars(HookPosts(m)) /\ WF_vars(HookEnds(m))

FairSpec == Spec /\ Fairness

----------------------------------------------------------------------------

(* A session's slot comes back however the session ends, and no session runs  *)
(* without one.                                                               *)
SlotsAccountedFor == permits + Cardinality(InSession) = Sessions

(* "10 at a time": at most HookSlots deliveries are in flight.                *)
HooksLimited == Cardinality(Posting) <= HookSlots

(* A stop the handlers received, at whatever moment of startup or serving,    *)
(* ends the process: it is not lost between two waits.                        *)
StopIsHonoured == signalled ~> ~Alive

(* No burst of accept() errors and no full house leaves a peer unanswered     *)
(* while the server serves.                                                   *)
PeerAnswered ==
  \A p \in Peers : (peer[p] = "waiting") ~> (peer[p] # "waiting" \/ phase # "serve")

(* A stored message's webhook is tried, whatever became of the others, as     *)
(* long as the process lives.                                                 *)
HookTried == \A m \in 1..Mails : (hooks[m] = "waiting") ~> (hooks[m] = "done" \/ ~Alive)
============================================================================
