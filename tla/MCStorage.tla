----------------------------- MODULE MCStorage ------------------------------
(***************************************************************************)
(* The storage crate for TLC.  A file that is migrated or restored is not  *)
(* served yet, so the two halves share no step: either the files of        *)
(* Migration change, or the tables of Store, in one of two instances (mail *)
(* with tags and attachments under retention; a client that walks through  *)
(* a listing or a search while mail comes and goes).  `part` says which.   *)
(***************************************************************************)
EXTENDS MCMigration, Store

VARIABLE part   \* the part that runs

storageVars == <<part, vars, storeVars>>

T == INSTANCE Store WITH
       Words <- {"red"}, Queries <- {}, MaxIds <- 3, WriteAttempts <- 1

W == INSTANCE Store WITH
       Cids <- {}, Tags <- {}, MaxTagCount <- 0, MaxInserts <- 1, Retention <- 0,
       MaxClock <- 0

StorageInit ==
    /\ part \in {"files", "tables", "walk"}
    /\ Init /\ (part = "files" \/ dir = Nothing)
    /\ StoreInit

StorageNext ==
    /\ UNCHANGED part
    /\ \/ part = "files" /\ Next /\ UNCHANGED storeVars
       \/ part = "tables" /\ T!StoreNext /\ UNCHANGED vars
       \/ part = "walk" /\ W!StoreNext /\ UNCHANGED vars

StorageSpec == StorageInit /\ [][StorageNext]_storageVars
=============================================================================
