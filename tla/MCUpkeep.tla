------------------------------ MODULE MCUpkeep ------------------------------
(* The work on the database that must come to an end, for TLC: the reclaim of  *)
(* free pages (whose module this one extends), a migration or a restore, and   *)
(* the retention task's trim.  A file being migrated is not served yet, and    *)
(* the tables do not see pages, so all stand in an initial state and the one   *)
(* `part` names runs.                                                          *)
EXTENDS Reclaim, Integers, Sequences, FiniteSets

VARIABLES
  part,                                                                   \* the part that runs
  dir, stale, pending, power, run, lock, print, handle, next, live, forked,  \* Migration
  messages, content, attachments, tagRows, fts, minted, clock, sweep, walk   \* Store

migrationVars == <<dir, stale, pending, power, run, lock, print, handle, next, live, forked>>
storeVars == <<messages, content, attachments, tagRows, fts, minted, clock, sweep, walk>>
upkeepVars == <<part, migrationVars, storeVars, vars>>

----------------------------------------------------------------------------
(* One process over every directory an older version may have left.            *)
M == INSTANCE Migration WITH
       pc <- run, Procs <- {"p1"}, Nobody <- "nobody", Seed <- {1}, MaxMail <- 1,
       MaxBatch <- 1, MaxKept <- 1, MaxPending <- 2, StartRaces <- FALSE, OlderRaces <- FALSE

(* One message too many, or three, and a clock on which they expire.           *)
T == INSTANCE Store WITH
       Words <- {"red"}, Cids <- {}, Tags <- {}, MaxTagCount <- 0, MaxInserts <- 2,
       MaxMessages <- 1, Retention <- 1, WriteAttempts <- 2, Queries <- {}, PageLimit <- 1,
       MaxIds <- 4, MaxClock <- 2

----------------------------------------------------------------------------

UpkeepInit ==
  /\ part \in {"migration", "trim", "reclaim"}
  /\ M!Init /\ (part = "migration" \/ dir = M!Nothing)
  /\ T!StoreInit
  /\ Init /\ (part = "reclaim" \/ used = 0)

UpkeepNext ==
  /\ UNCHANGED part
  /\ \/ part = "migration" /\ M!Next /\ UNCHANGED <<storeVars, vars>>
     \/ part = "trim" /\ T!StoreNext /\ UNCHANGED <<migrationVars, vars>>
     \/ part = "reclaim" /\ Next /\ UNCHANGED <<migrationVars, storeVars>>

(* The fairness of each part, while it runs.                                   *)
UpkeepFairness ==
  /\ WF_migrationVars(part = "migration" /\ power /\ M!Run("p1") /\ UNCHANGED power)
  /\ WF_storeVars(part = "trim" /\ T!Retain)
  /\ SF_storeVars(part = "trim" /\ T!CheckTrim) /\ SF_storeVars(part = "trim" /\ T!TrimToMax)
  /\ \A t \in Tasks : WF_vars(part = "reclaim" /\ Reclaiming(t))
  /\ WF_vars(part = "reclaim" /\ Sweep)
  /\ SF_vars(part = "reclaim" /\ Begin("retention"))
  /\ SF_vars(part = "reclaim" /\ Vacuum("retention"))

UpkeepSpec == UpkeepInit /\ [][UpkeepNext]_upkeepVars /\ UpkeepFairness

----------------------------------------------------------------------------

(* A start or a restore that holds the migration lock gives it up.             *)
RunEnds == M!RunEnds

(* Retention does its work in the end: the mailbox is brought down to          *)
(* --max-messages again and again, every reclaim ends, and at rest the         *)
(* freelist comes below the threshold.                                         *)
SweepsSettle == T!MaxIsEnforced /\ ReclaimEnds /\ FreelistSettles
============================================================================
