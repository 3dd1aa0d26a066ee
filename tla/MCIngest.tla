------------------------------ MODULE MCIngest ------------------------------
(***************************************************************************)
(* Model checking Ingest.                                                  *)
(***************************************************************************)
EXTENDS Ingest

\* Nobody waits for ever: every delivery the channel accepts gets a verdict, a
\* session waiting for a slot gets one or is refused, and a stop ends the
\* processor although sessions still hold senders.
NobodyWaitsForEver == EveryDeliverySettles /\ HandOffEnds /\ StopEndsProcessor
=============================================================================
