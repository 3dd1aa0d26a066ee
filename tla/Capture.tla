------------------------------ MODULE Capture -------------------------------
(***************************************************************************)
(* What the ingest path promises the senders of mail, without sessions,    *)
(* channel, batches or processor.  Deliveries are numbered in the order    *)
(* they arrive; `log` is what the store has committed and `reply` what the *)
(* senders were told.                                                      *)
(***************************************************************************)
EXTENDS Naturals, Sequences, Functions

CONSTANT Tickets

VARIABLES
    log,   \* committed deliveries, in commit order
    reply, \* ticket -> "none", "250", "451" or "timeout" (a 451 as well)
    down   \* the catcher was cut off while it may have been writing

vars == <<log, reply, down>>

InOrder(seq) == \A i, j \in DOMAIN seq : i < j => seq[i] < seq[j]

IsPrefixOf(old, new) ==
    /\ Len(old) <= Len(new)
    /\ \A i \in DOMAIN old : old[i] = new[i]

Init ==
    /\ log = <<>>
    /\ reply = [t \in Tickets |-> "none"]
    /\ down = FALSE

\* Commit more deliveries, after all the earlier ones; none that was refused.
Store ==
    /\ ~down
    /\ IsPrefixOf(log, log')
    /\ InOrder(log')
    /\ \A t \in Range(log') \ Range(log) : reply[t] \in {"none", "timeout"}
    /\ down' \in BOOLEAN
    /\ UNCHANGED reply

\* 250: only for what is stored.
Accept(t) ==
    /\ reply[t] = "none"
    /\ t \in Range(log)
    /\ reply' = [reply EXCEPT ![t] = "250"]
    /\ UNCHANGED <<log, down>>

\* 451: not stored and never going to be, or nobody can tell any more.
Refuse(t) ==
    /\ reply[t] = "none"
    /\ t \notin Range(log) \/ down
    /\ reply' = [reply EXCEPT ![t] = "451"]
    /\ UNCHANGED <<log, down>>

\* 451 because no verdict came in time: the one answer that decides nothing.
GiveUp(t) ==
    /\ reply[t] = "none"
    /\ reply' = [reply EXCEPT ![t] = "timeout"]
    /\ UNCHANGED <<log, down>>

Next ==
    \/ Store
    \/ \E t \in Tickets : Accept(t) \/ Refuse(t) \/ GiveUp(t)

Spec == Init /\ [][Next]_vars
=============================================================================
