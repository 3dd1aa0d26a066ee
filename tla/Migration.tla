----------------------------- MODULE Migration ------------------------------
(***************************************************************************)
(* The files beside a database while rustmail upgrades it or goes back:    *)
(* starts that migrate an older file, restores of the backup, processes    *)
(* that die anywhere, power losses that undo renames not yet synced, and   *)
(* an older rustmail using the same path.                                  *)
(*                                                                         *)
(*   migrate.rs          prepare_with, Migration, finish_interrupted_swap  *)
(*   migrate/build.rs    Origin, Target                                    *)
(*   migrate/restore.rs  restore_backup, finish_interrupted_restore        *)
(*   schema.rs           probe, initialize_database                        *)
(*   main.rs             prepare_database_file, open_repository            *)
(*                                                                         *)
(* A message is a number, its seq.  The fingerprint of a database is the   *)
(* set of its messages: what FNV-1a tells apart with no collision.         *)
(***************************************************************************)
EXTENDS Integers, Sequences, FiniteSets

CONSTANTS
    Procs,       \* processes of this rustmail
    Nobody,      \* no process
    Seed,        \* messages in the database before the first start
    MaxMail,     \* model bound: the last message that can arrive
    MaxBatch,    \* messages one batch copies at most (1000)
    MaxKept,     \* model bound: kept schema-2 files, and so restores
    MaxPending,  \* model bound: directory changes an outage can undo
    StartRaces,  \* another run may begin before a prepared start opens its file
    OlderRaces   \* an older rustmail may act between a check and its renames

ASSUME MigrationAssumption ==
    /\ Nobody \notin Procs
    /\ "older" \notin Procs
    /\ MaxMail \in Nat
    /\ Seed \subseteq 1 .. MaxMail
    /\ MaxBatch \in Nat \ {0}
    /\ MaxKept \in 1 .. 2
    /\ MaxPending \in Nat \ {0}
    /\ StartRaces \in BOOLEAN
    /\ OlderRaces \in BOOLEAN

VARIABLES
    dir,     \* the directory: name -> file
    stale,   \* names whose -wal and -shm a dead process left behind
    pending, \* directory changes not synced yet, oldest first
    power,   \* FALSE while an outage decides which of them survive
    pc,      \* process -> where it is
    lock,    \* who holds <db>.migration-lock
    print,   \* the source's fingerprint, while build_locked runs
    handle,  \* process -> name of the database file it has open
    next,    \* the next message to arrive
    live,    \* messages accepted and not deleted since (history)
    forked   \* an older rustmail began anew where a file is missing (history)

vars == <<dir, stale, pending, power, pc, lock, print, handle, next, live, forked>>
mailVars == <<next, live, forked>>

SchemaVersion == 2
KeptNames == SubSeq(<<"kept1", "kept2">>, 1, MaxKept)
Names == {"db", "migrating", "bak0", "bak1"} \cup {KeptNames[i] : i \in 1 .. MaxKept}
Users == Procs \cup {"older"}
Ids == 1 .. MaxMail

\* Paths::backup: where a migration from schema `source` keeps its source.
Backup(source) == IF source = 0 THEN "bak0" ELSE "bak1"

-----------------------------------------------------------------------------
(***************************************************************************)
(* Files.  `version` is user_version; `origin` is the migration_origin     *)
(* row, whose fingerprint is stored bare by 0.8 to 0.10.0.                 *)
(***************************************************************************)

Origin(from, source, target, last, bare) ==
    [print |-> from, source |-> source, target |-> target, last |-> last, bare |-> bare]

NoOrigin == Origin({}, -1, -1, 0, FALSE)

File(layout, version, mail, origin) ==
    [layout |-> layout, version |-> version, mail |-> mail, origin |-> origin]

Absent == File("absent", 0, {}, NoOrigin)
EmptyFile == File("empty", 0, {}, NoOrigin)

Layout(version) == <<"legacy", "previous", "current">>[version + 1]

Database(version, mail, origin) == File(Layout(version), version, mail, origin)

\* A copy being built: the tables of its target schema, user_version not set.
Unfinished(mail, origin) == File(Layout(origin.target), 0, mail, origin)

Exists(d, n) == d[n] # Absent

\* probe, as DbState: what a file is to this rustmail.
State(f) ==
    CASE f.layout = "absent" -> "absent"
      [] f.layout = "empty" -> "empty"
      [] f = Database(f.version, f.mail, f.origin) /\ f.version < SchemaVersion -> "older"
      [] f.version = SchemaVersion -> "current"
      [] OTHER -> "unrecognized"

IsComplete(copy) == copy.version \in {1, SchemaVersion}

\* CopyState::resumable_origin, and Origin::made_from in either form.
IsMadeFrom(copy, from) == copy.origin # NoOrigin /\ copy.origin.print = from

IsResumable(copy, source, from) ==
    /\ IsMadeFrom(copy, from)
    /\ copy.origin.source = source
    /\ copy.origin.target = SchemaVersion

AnyBackup(d) == Exists(d, "bak0") \/ Exists(d, "bak1")

\* Variant: a start does not go on with a swap that was interrupted.
StartDecisionNoFinish(d) ==
    LET db == State(d["db"])
    IN  CASE db \in {"absent", "empty"} /\ ~Exists(d, "migrating") /\ ~AnyBackup(d) -> "ready"
          [] db = "current" /\ ~Exists(d, "migrating") -> "ready"
          [] db = "older" /\ ~Exists(d, Backup(d["db"].version)) -> "migrate"
          [] OTHER -> "refuse"

\* The table of prepare_with: what a start does about the files it finds.
StartDecision(d) ==
    LET db == State(d["db"])
    IN  CASE db \in {"absent", "empty"} /\ ~Exists(d, "migrating") /\ ~AnyBackup(d) -> "ready"
          [] db = "current" /\ ~Exists(d, "migrating") -> "ready"
          [] db = "older" /\ ~Exists(d, Backup(d["db"].version)) -> "migrate"
          [] /\ db = "absent" /\ IsComplete(d["migrating"])
             /\ d["migrating"].origin.source \in {0, 1} -> "finish"
          [] OTHER -> "refuse"

\* finish_interrupted_swap: the copy belongs to the backup of its source.
CanFinishSwap(d) ==
    LET origin == d["migrating"].origin
    IN  /\ Exists(d, Backup(origin.source))
        /\ IsMadeFrom(d["migrating"], d[Backup(origin.source)].mail)

\* kept_files().pop(): the newest kept file, if there is one.
Kept(d) == {i \in 1 .. MaxKept : Exists(d, KeptNames[i])}

Newest(d) == KeptNames[CHOOSE i \in Kept(d) : \A j \in Kept(d) : j <= i]

\* migrated_from and check_backup: `f` names a backup in the right schema.
HasBackup(d, f) ==
    /\ f.origin.source \in {0, 1}
    /\ d[Backup(f.origin.source)].layout = Layout(f.origin.source)
    /\ State(d[Backup(f.origin.source)]) = "older"

\* restore_backup up to its first rename, side files apart.
RestoreDecision(d) ==
    CASE /\ ~Exists(d, "migrating")
         /\ State(d["db"]) = "current" /\ HasBackup(d, d["db"]) -> "restore"
      [] /\ ~Exists(d, "migrating")
         /\ State(d["db"]) = "absent" /\ Kept(d) # {}
         /\ State(d[Newest(d)]) = "current" /\ HasBackup(d, d[Newest(d)])
         /\ IsMadeFrom(d[Newest(d)], d[Backup(d[Newest(d)].origin.source)].mail)
           -> "finish"
      [] OTHER -> "refuse"

-----------------------------------------------------------------------------
(***************************************************************************)
(* Where a process is.                                                     *)
(***************************************************************************)

Building == {"plan", "remove", "create_file", "create_schema", "copy", "verify", "release"}
Renaming == {"swap", "rename_db", "rename_copy", "finish", "finish_rename", "restore_backup"}
Running == Building \cup Renaming \cup
           {"inspect", "lock_source", "sync", "finish_sync",
            "restore", "checkpoint", "keep_db", "restore_sync"}
PCs == Running \cup {"idle", "ready", "init", "serving"}

\* Variant: the source is read without BEGIN IMMEDIATE.
SourceUnlocked == FALSE

SourceLocked == \E p \in Procs : pc[p] \in Building

\* The code's own windows between a check and the renames it allows.
InWindow == \E p \in Procs : pc[p] \in Renaming

\* A -wal or -shm beside a file.  Every user opens its database as <db>.
HasSide(n) == n \in stale \/ (n = "db" /\ \E q \in Users : handle[q] # "none")

Goto(p, place) == pc' = [pc EXCEPT ![p] = place]

\* A change of the directory that is not synced.  The oldest one has reached
\* the disk by the time there are more than MaxPending.
Changes(from, to) ==
    LET op == [from |-> from, to |-> to,
               was |-> IF to = "none" THEN dir[from] ELSE dir[to]]
    IN  Append(IF Len(pending) < MaxPending THEN pending ELSE Tail(pending), op)

\* rename(2): replaces `to`, whose users keep a file without a name.
Rename(from, to) ==
    /\ Exists(dir, from)
    /\ dir' = [dir EXCEPT ![to] = dir[from], ![from] = Absent]
    /\ handle' = [q \in Users |-> CASE handle[q] = to -> "unlinked"
                                    [] handle[q] = from -> to
                                    [] OTHER -> handle[q]]
    /\ pending' = Changes(from, to)

\* The older file, as it was inspected, and the copy made from it.
Source == dir["db"]
Copy == dir["migrating"]

\* The end of a run, whatever it came to: the lock is dropped.
End(p) == Goto(p, "idle") /\ lock' = Nobody

-----------------------------------------------------------------------------
(***************************************************************************)
(* A start: prepare_with.                                                  *)
(***************************************************************************)

\* acquire_lock succeeds; a process that finds it held gives up unchanged.
Begin(p, command) ==
    /\ pc[p] = "idle"
    /\ lock = Nobody
    /\ StartRaces \/ \A q \in Procs : pc[q] # "ready"
    /\ Goto(p, command)
    /\ lock' = p
    /\ UNCHANGED <<dir, stale, pending, print, handle, mailVars>>

\* inspect_db and inspect_copy open and close both files, which clears what a
\* dead process left beside them; the table decides.
Inspect(p) ==
    /\ pc[p] = "inspect"
    /\ stale' = stale \ {"db", "migrating"}
    /\ \/ StartDecision(dir) = "ready" /\ Goto(p, "ready") /\ lock' = Nobody
       \/ StartDecision(dir) = "migrate" /\ Goto(p, "lock_source") /\ UNCHANGED lock
       \/ StartDecision(dir) = "finish" /\ Goto(p, "finish") /\ UNCHANGED lock
       \/ StartDecision(dir) = "refuse" /\ End(p)
    /\ UNCHANGED <<dir, pending, print, handle, mailVars>>

\* finish_interrupted_swap: check, rename the copy into place, sync, look again.
FinishSwap(p) ==
    /\ pc[p] = "finish"
    /\ IF /\ CanFinishSwap(dir)
          /\ \A n \in {Backup(Copy.origin.source), "migrating"} : ~HasSide(n)
         THEN Goto(p, "finish_rename") /\ UNCHANGED lock
         ELSE End(p)
    /\ UNCHANGED <<dir, stale, pending, print, handle, mailVars>>

\* Variant: the copy is never moved into place, and the start looks again.
FinishRenameNothing(p) ==
    /\ pc[p] = "finish_rename"
    /\ Goto(p, "finish_sync")
    /\ UNCHANGED <<dir, stale, pending, handle, lock, print, mailVars>>

FinishRename(p) ==
    /\ pc[p] = "finish_rename"
    /\ Rename("migrating", "db")
    /\ Goto(p, "finish_sync")
    /\ UNCHANGED <<stale, lock, print, mailVars>>

\* sync_parent: every rename so far is durable.
Sync(p, from, to) ==
    /\ pc[p] = from
    /\ Goto(p, to)
    /\ lock' = IF to = "inspect" THEN p ELSE Nobody
    /\ pending' = <<>>
    /\ UNCHANGED <<dir, stale, print, handle, mailVars>>

\* Source::lock: BEGIN IMMEDIATE, from here to release nobody else writes.
LockSource(p) ==
    /\ pc[p] = "lock_source"
    /\ Goto(p, "plan")
    /\ UNCHANGED <<dir, stale, pending, lock, print, handle, mailVars>>

\* Variant: any copy of the right schemas is resumed, whatever it was made from.
PlanAnyCopy(p) ==
    /\ pc[p] = "plan"
    /\ print' = Source.mail
    /\ IF Exists(dir, "migrating") /\ IsResumable(Copy, Source.version, Copy.origin.print)
         THEN /\ dir' = [dir EXCEPT !["migrating"].origin.bare = FALSE]
              /\ Goto(p, IF IsComplete(Copy) THEN "release" ELSE "copy")
         ELSE /\ Goto(p, "remove")
              /\ UNCHANGED dir
    /\ UNCHANGED <<stale, pending, lock, handle, mailVars>>

\* Variant: a copy made from this source counts as complete.
PlanUnfinished(p) ==
    /\ pc[p] = "plan"
    /\ print' = Source.mail
    /\ IF Exists(dir, "migrating") /\ IsResumable(Copy, Source.version, Source.mail)
         THEN /\ dir' = [dir EXCEPT !["migrating"].origin.bare = FALSE]
              /\ Goto(p, "release")
         ELSE /\ Goto(p, "remove")
              /\ UNCHANGED dir
    /\ UNCHANGED <<stale, pending, lock, handle, mailVars>>

\* build_locked up to its first attempt: fingerprint the source, qualify the
\* fingerprint of a copy made from it, and start over, resume or go on.
Plan(p) ==
    /\ pc[p] = "plan"
    /\ print' = Source.mail
    /\ IF Exists(dir, "migrating") /\ IsResumable(Copy, Source.version, Source.mail)
         THEN /\ dir' = [dir EXCEPT !["migrating"].origin.bare = FALSE]
              /\ Goto(p, IF IsComplete(Copy) THEN "release" ELSE "copy")
         ELSE /\ Goto(p, "remove")
              /\ UNCHANGED dir
    /\ UNCHANGED <<stale, pending, lock, handle, mailVars>>

\* remove_copy.
RemoveCopy(p) ==
    /\ pc[p] = "remove"
    /\ dir' = [dir EXCEPT !["migrating"] = Absent]
    /\ pending' = IF Exists(dir, "migrating") THEN Changes("migrating", "none") ELSE pending
    /\ Goto(p, "create_file")
    /\ UNCHANGED <<stale, lock, print, handle, mailVars>>

\* create_with_mode: the copy is an empty file.
CreateFile(p) ==
    /\ pc[p] = "create_file"
    /\ dir' = [dir EXCEPT !["migrating"] = EmptyFile]
    /\ pending' = Changes("none", "migrating")
    /\ Goto(p, "create_schema")
    /\ UNCHANGED <<stale, lock, print, handle, mailVars>>

\* Target::create: tables and origin in one transaction, whose journal SQLite
\* cannot sync without syncing the directory.
CreateSchema(p) ==
    /\ pc[p] = "create_schema"
    /\ dir' = [dir EXCEPT !["migrating"] =
                 Unfinished({}, Origin(print, Source.version, SchemaVersion, 0, FALSE))]
    /\ pending' = <<>>
    /\ Goto(p, "copy")
    /\ UNCHANGED <<stale, lock, print, handle, mailVars>>

Left == {m \in Source.mail : m > Copy.origin.last}

\* next_batch and copy_batch: the next messages in seq order, as many as fit,
\* and last_source_seq with them, in one transaction.
CopyBatch(p) ==
    /\ pc[p] = "copy"
    /\ \E last \in Left :
         LET batch == {m \in Left : m <= last}
         IN  /\ Cardinality(batch) <= MaxBatch
             /\ dir' = [dir EXCEPT !["migrating"].mail = @ \cup batch,
                                   !["migrating"].origin.last = last]
    /\ UNCHANGED <<stale, pending, pc, lock, print, handle, mailVars>>

\* Nothing is left to copy.
CopyFinished(p) ==
    /\ pc[p] = "copy"
    /\ Left = {}
    /\ Goto(p, "verify")
    /\ UNCHANGED <<dir, stale, pending, lock, print, handle, mailVars>>

\* should_stop: Paused, between two batches; the source is released.
Pause(p) ==
    /\ pc[p] = "copy"
    /\ End(p)
    /\ print' = {}
    /\ UNCHANGED <<dir, stale, pending, handle, mailVars>>

\* verify compares counts with the source; finalize sets user_version last.
Finalize(p) ==
    /\ pc[p] = "verify"
    /\ Cardinality(Copy.mail) = Cardinality(Source.mail)
    /\ dir' = [dir EXCEPT !["migrating"].version = SchemaVersion]
    /\ Goto(p, "release")
    /\ UNCHANGED <<stale, pending, lock, print, handle, mailVars>>

\* The second fingerprint agrees with the first and the write lock is dropped.
Release(p) ==
    /\ pc[p] = "release"
    /\ Source.mail = print
    /\ Goto(p, "swap")
    /\ print' = {}
    /\ UNCHANGED <<dir, stale, pending, lock, handle, mailVars>>

\* swap: nobody has either file open and there is no backup yet.
Swap(p) ==
    /\ pc[p] = "swap"
    /\ IF \/ HasSide("db") \/ HasSide("migrating")
          \/ Exists(dir, Backup(Source.version))
         THEN End(p)
         ELSE Goto(p, "rename_db") /\ UNCHANGED lock
    /\ UNCHANGED <<dir, stale, pending, print, handle, mailVars>>

RenameDb(p) ==
    /\ pc[p] = "rename_db"
    /\ Rename("db", Backup(Copy.origin.source))
    /\ Goto(p, "rename_copy")
    /\ UNCHANGED <<stale, lock, print, mailVars>>

RenameCopy(p) ==
    /\ pc[p] = "rename_copy"
    /\ Rename("migrating", "db")
    /\ Goto(p, "sync")
    /\ UNCHANGED <<stale, lock, print, mailVars>>

-----------------------------------------------------------------------------
(***************************************************************************)
(* A prepared start opens its file and serves.                             *)
(***************************************************************************)

\* A stop was requested during startup.
Leave(p) ==
    /\ pc[p] = "ready"
    /\ Goto(p, "idle")
    /\ UNCHANGED <<dir, stale, pending, lock, print, handle, mailVars>>

\* connect_writer with mode=rwc: a missing file is created.
Connect(p) ==
    /\ pc[p] = "ready"
    /\ dir' = IF Exists(dir, "db") THEN dir ELSE [dir EXCEPT !["db"] = EmptyFile]
    /\ pending' = IF Exists(dir, "db") THEN pending ELSE Changes("none", "db")
    /\ handle' = [handle EXCEPT ![p] = "db"]
    /\ stale' = stale \ {"db"}
    /\ Goto(p, "init")
    /\ UNCHANGED <<lock, print, mailVars>>

\* The file a process has open; one without a name is nobody else's.
Opened(p) == IF handle[p] \in Names THEN dir[handle[p]] ELSE Absent

\* initialize_database: create the schema in an empty file, open a current
\* one, refuse anything else.
Initialize(p) ==
    /\ pc[p] = "init"
    /\ \/ /\ State(Opened(p)) = "empty"
          /\ dir' = [dir EXCEPT ![handle[p]] = Database(SchemaVersion, {}, NoOrigin)]
          /\ Goto(p, "serving")
          /\ UNCHANGED handle
       \/ /\ State(Opened(p)) = "current"
          /\ Goto(p, "serving")
          /\ UNCHANGED <<dir, handle>>
       \/ /\ State(Opened(p)) \notin {"empty", "current"}
          /\ Goto(p, "idle")
          /\ handle' = [handle EXCEPT ![p] = "none"]
          /\ UNCHANGED dir
    /\ UNCHANGED <<stale, pending, lock, print, mailVars>>

\* A message is committed to the file a process has open.  What survives an
\* outage of it lies in a synced -wal, and the directory was synced with that.
Store(q) ==
    /\ next <= MaxMail
    /\ dir' = IF handle[q] \in Names
                THEN [dir EXCEPT ![handle[q]].mail = @ \cup {next}] ELSE dir
    /\ next' = next + 1
    /\ live' = live \cup {next}
    /\ pending' = <<>>

\* A message is deleted from it by its user.
Erase(q) ==
    /\ \E m \in Opened(q).mail :
         /\ dir' = [dir EXCEPT ![handle[q]].mail = @ \ {m}]
         /\ live' = live \ {m}
    /\ pending' = <<>>
    /\ UNCHANGED next

Serve(p) ==
    /\ pc[p] = "serving"
    /\ Store(p) \/ Erase(p)
    /\ UNCHANGED <<stale, pc, lock, print, handle, forked>>

Shutdown(p) ==
    /\ pc[p] = "serving"
    /\ Goto(p, "idle")
    /\ handle' = [handle EXCEPT ![p] = "none"]
    /\ UNCHANGED <<dir, stale, pending, lock, print, mailVars>>

-----------------------------------------------------------------------------
(***************************************************************************)
(* restore_backup.                                                         *)
(***************************************************************************)

\* The files a restore begins with, or those of one that was interrupted.  A
\* side file in the way is a refusal too: Fail.
RestoreInspect(p) ==
    /\ pc[p] = "restore"
    /\ stale' = stale \ {"db"}
    /\ \/ /\ RestoreDecision(dir) = "restore"
          /\ ~HasSide(Backup(dir["db"].origin.source))
          /\ Goto(p, "checkpoint")
          /\ UNCHANGED lock
       \/ /\ RestoreDecision(dir) = "finish"
          /\ \A n \in {Newest(dir), "db", Backup(dir[Newest(dir)].origin.source)} : ~HasSide(n)
          /\ Goto(p, "restore_backup")
          /\ UNCHANGED lock
       \/ /\ RestoreDecision(dir) = "refuse"
          /\ End(p)
    /\ UNCHANGED <<dir, pending, print, handle, mailVars>>

\* The database is checkpointed and closed, and nobody else has it open; the
\* name it will be kept under is free, unless two restores share a second.
Checkpoint(p) ==
    /\ pc[p] = "checkpoint"
    /\ \/ /\ ~HasSide("db")
          /\ Goto(p, "keep_db")
          /\ UNCHANGED lock
       \/ /\ HasSide("db") \/ Kept(dir) # {}
          /\ End(p)
    /\ UNCHANGED <<dir, stale, pending, print, handle, mailVars>>

\* Variant: the database is kept under a name that may be taken.
KeepDbAnywhere(p) ==
    /\ pc[p] = "keep_db"
    /\ Rename("db", KeptNames[1])
    /\ Goto(p, "restore_backup")
    /\ UNCHANGED <<stale, lock, print, mailVars>>

\* The first rename, to a name later than every kept file's.  Bounded by MaxKept.
KeepDb(p) ==
    /\ pc[p] = "keep_db"
    /\ \E i \in 1 .. MaxKept :
         /\ \A j \in Kept(dir) : j < i
         /\ \A j \in 1 .. i - 1 : j \in Kept(dir)
         /\ Rename("db", KeptNames[i])
    /\ Goto(p, "restore_backup")
    /\ UNCHANGED <<stale, lock, print, mailVars>>

\* put_backup_in_place: the backup of the migration that made the kept file.
RestoreBackup(p) ==
    /\ pc[p] = "restore_backup"
    /\ Rename(Backup(dir[Newest(dir)].origin.source), "db")
    /\ Goto(p, "restore_sync")
    /\ UNCHANGED <<stale, lock, print, mailVars>>

-----------------------------------------------------------------------------
(***************************************************************************)
(* An older rustmail on the same path.  0.7 knows no lock file; 0.9 opens  *)
(* a schema-1 file only when it could take the lock and saw no copy.       *)
(***************************************************************************)

OlderMay == OlderRaces \/ ~InWindow

\* It opens its own kind of file.
OlderOpens ==
    /\ handle["older"] = "none"
    /\ OlderMay
    /\ State(dir["db"]) = "older"
    /\ dir["db"].version = 1 => lock = Nobody /\ ~Exists(dir, "migrating")
    /\ handle' = [handle EXCEPT !["older"] = "db"]
    /\ stale' = stale \ {"db"}
    /\ UNCHANGED <<dir, pending, pc, lock, print, mailVars>>

\* 0.7 finds no database and begins a new one.
OlderBegins ==
    /\ handle["older"] = "none"
    /\ OlderMay
    /\ State(dir["db"]) \in {"absent", "empty"}
    /\ dir' = [dir EXCEPT !["db"] = Database(0, {}, NoOrigin)]
    /\ pending' = Changes("none", "db")
    /\ handle' = [handle EXCEPT !["older"] = "db"]
    /\ stale' = stale \ {"db"}
    /\ forked' = (forked \/ AnyBackup(dir))
    /\ UNCHANGED <<pc, lock, print, next, live>>

\* It writes, unless a migration holds the file's write lock.
OlderWrites ==
    /\ handle["older"] # "none"
    /\ OlderMay
    /\ ~SourceLocked
    /\ Store("older") \/ Erase("older")
    /\ UNCHANGED <<stale, pc, lock, print, handle, forked>>

OlderCloses ==
    /\ handle["older"] # "none"
    /\ handle' = [handle EXCEPT !["older"] = "none"]
    /\ UNCHANGED <<dir, stale, pending, pc, lock, print, mailVars>>

-----------------------------------------------------------------------------
(***************************************************************************)
(* What goes wrong.                                                        *)
(***************************************************************************)

\* An I/O error, a full disk or a failed check ends a run in good order.
Fail(p) ==
    /\ pc[p] \in Running
    /\ End(p)
    /\ print' = {}
    /\ UNCHANGED <<dir, stale, pending, handle, mailVars>>

\* What a process that dies leaves beside its files.
LeftBy(P) ==
    (IF \E p \in P \cap Procs : pc[p] \in Building THEN {"db", "migrating"} ELSE {})
    \cup (IF \E q \in P : handle[q] # "none" THEN {"db"} ELSE {})

\* A process is killed: its locks go with it, its side files stay.
Crash(p) ==
    /\ pc[p] # "idle"
    /\ stale' = stale \cup LeftBy({p})
    /\ Goto(p, "idle")
    /\ handle' = [handle EXCEPT ![p] = "none"]
    /\ lock' = IF lock = p THEN Nobody ELSE lock
    /\ print' = IF lock = p THEN {} ELSE print
    /\ UNCHANGED <<dir, pending, mailVars>>

\* Power fails: every process dies, and changes not synced may be undone.
PowerFails ==
    /\ power
    /\ power' = FALSE
    /\ stale' = stale \cup LeftBy(Users)
    /\ pc' = [p \in Procs |-> "idle"]
    /\ handle' = [q \in Users |-> "none"]
    /\ lock' = Nobody
    /\ print' = {}
    /\ UNCHANGED <<dir, pending, mailVars>>

\* The newest change left did not reach the disk.
Undo ==
    /\ ~power
    /\ pending # <<>>
    /\ LET op == pending[Len(pending)]
       IN  dir' = [n \in Names |->
                    CASE n = op.from -> IF op.to = "none" THEN op.was ELSE dir[op.to]
                      [] n = op.to -> op.was
                      [] OTHER -> dir[n]]
    /\ pending' = SubSeq(pending, 1, Len(pending) - 1)
    /\ UNCHANGED <<stale, power, pc, lock, print, handle, mailVars>>

PowerReturns ==
    /\ ~power
    /\ power' = TRUE
    /\ pending' = <<>>
    /\ UNCHANGED <<dir, stale, pc, lock, print, handle, mailVars>>

-----------------------------------------------------------------------------
(***************************************************************************)
(* The directory before the first start: any older version may have left a *)
(* database, its backup, and a copy it was building or swapping in.        *)
(***************************************************************************)

Older(source, mail) == Database(source, mail, NoOrigin)

\* A copy of `from`, as 0.8 and 0.9 (target 1) or 0.10.0 (target 2) leave it.
LeftCopies(source, target, from) ==
    {Database(target, from, Origin(from, source, target, MaxMail, TRUE))} \cup
    {Unfinished({m \in from : m <= last}, Origin(from, source, target, last, TRUE)) :
       last \in {0} \cup from}

Targets(source) == {t \in {1, 2} : t > source}

Nothing == [n \in Names |-> Absent]

InitialDirs ==
    {Nothing, [Nothing EXCEPT !["db"] = EmptyFile],
     [Nothing EXCEPT !["db"] = Older(0, Seed)], [Nothing EXCEPT !["db"] = Older(1, Seed)],
     [Nothing EXCEPT !["db"] = Database(1, Seed, Origin(Seed, 0, 1, MaxMail, TRUE)),
                     !["bak0"] = Older(0, Seed)]}
    \cup (UNION {UNION {{[Nothing EXCEPT !["db"] = Older(s, Seed), !["migrating"] = c] :
                           c \in LeftCopies(s, t, Seed) \cup LeftCopies(s, t, {})} :
                         t \in Targets(s)} : s \in {0, 1}})
    \cup (UNION {{[Nothing EXCEPT ![Backup(s)] = Older(s, Seed),
                                  !["migrating"] = Database(t, Seed, Origin(Seed, s, t, MaxMail, TRUE))] :
                    t \in Targets(s)} : s \in {0, 1}})

Init ==
    /\ dir \in InitialDirs
    /\ stale = {}
    /\ pending = <<>>
    /\ power = TRUE
    /\ pc = [p \in Procs |-> "idle"]
    /\ lock = Nobody
    /\ print = {}
    /\ handle = [q \in Users |-> "none"]
    /\ live = UNION {dir[n].mail : n \in Names}
    /\ next = 1 + Cardinality(Seed)
    /\ forked = FALSE

Start(p) ==
    \/ Inspect(p) \/ FinishSwap(p) \/ FinishRename(p) \/ Sync(p, "finish_sync", "inspect")
    \/ LockSource(p) \/ Plan(p) \/ RemoveCopy(p) \/ CreateFile(p) \/ CreateSchema(p)
    \/ CopyBatch(p) \/ CopyFinished(p) \/ Finalize(p) \/ Release(p)
    \/ Swap(p) \/ RenameDb(p) \/ RenameCopy(p) \/ Sync(p, "sync", "ready")

Restore(p) ==
    \/ RestoreInspect(p) \/ Checkpoint(p) \/ KeepDb(p) \/ RestoreBackup(p)
    \/ Sync(p, "restore_sync", "idle")

\* A run goes on, or it fails.
Run(p) == Start(p) \/ Restore(p) \/ Fail(p)

Server(p) == Leave(p) \/ Connect(p) \/ Initialize(p) \/ Serve(p) \/ Shutdown(p)

Step ==
    \/ \E p \in Procs :
         \/ \E command \in {"inspect", "restore"} : Begin(p, command)
         \/ Run(p) \/ Pause(p) \/ Server(p) \/ Crash(p)
    \/ OlderOpens \/ OlderBegins \/ OlderWrites \/ OlderCloses

Next ==
    \/ power /\ Step /\ UNCHANGED power
    \/ PowerFails
    \/ Undo
    \/ PowerReturns

Spec == Init /\ [][Next]_vars

(***************************************************************************)
(* Fairness: a run takes its next step, or fails.                          *)
(***************************************************************************)
FairSpec == Spec /\ \A p \in Procs : WF_vars(power /\ Run(p) /\ UNCHANGED power)

-----------------------------------------------------------------------------
(***************************************************************************)
(* Properties.                                                             *)
(***************************************************************************)

Origins ==
    {NoOrigin} \cup [print : SUBSET Ids, source : {0, 1}, target : {1, 2},
                    last : 0 .. MaxMail, bare : BOOLEAN]

Files == [layout : {"absent", "empty", "legacy", "previous", "current"},
          version : 0 .. SchemaVersion, mail : SUBSET Ids, origin : Origins]

\* Every variable has its type, and exactly the runs in progress hold the lock.
TypeOK ==
    /\ dir \in [Names -> Files]
    /\ stale \subseteq Names
    /\ pending \in Seq([from : Names \cup {"none"}, to : Names \cup {"none"}, was : Files])
    /\ power \in BOOLEAN
    /\ pc \in [Procs -> PCs]
    /\ lock \in Procs \cup {Nobody}
    /\ print \subseteq Ids
    /\ handle \in [Users -> Names \cup {"none", "unlinked"}]
    /\ next \in 1 .. MaxMail + 1
    /\ live \subseteq Ids
    /\ forked \in BOOLEAN
    /\ \A p \in Procs : pc[p] \in Running <=> lock = p

\* No message is lost: whatever was accepted and not deleted is in a file that
\* has a name, through every migration, restore, crash and outage.
NoMailLost == live \subseteq UNION {dir[n].mail : n \in Names}

\* A migrated database and the backup beside it belong together: the backup is
\* the very content it was made from, so a restore puts back the right file.
BackupIsOriginal ==
    State(dir["db"]) = "current" /\ HasBackup(dir, dir["db"])
      => IsMadeFrom(dir["db"], dir[Backup(dir["db"].origin.source)].mail)

\* The copy a start puts in place holds every message of the file it replaces:
\* resumed or complete, it was made from exactly that file.
CopyIsWhole ==
    [][\A p \in Procs :
         pc[p] \in {"rename_copy", "finish_rename"} /\ pc'[p] \in {"sync", "finish_sync"}
           => dir[Backup(Copy.origin.source)].mail \subseteq dir'["db"].mail]_vars

\* However a run was interrupted, the next start or the next restore goes on
\* from there without a manual decision, as long as no older rustmail has
\* begun a new database where one was missing.
AlwaysAWayForward ==
    lock = Nobody /\ power /\ ~forked =>
      \/ StartDecision(dir) \in {"ready", "migrate"}
      \/ StartDecision(dir) = "finish" /\ CanFinishSwap(dir)
      \/ RestoreDecision(dir) # "refuse"

\* The write lock keeps the source still from its fingerprint to its release,
\* so the copy never has to be rebuilt within a run.
SourceStaysStill ==
    \A p \in Procs : pc[p] \in Building \ {"plan"} => Source.mail = print

\* One run at a time touches the files, and what it copies from stands still
\* while it copies: the migration lock and the write transaction on the source.
RunsAreAlone == TypeOK /\ SourceStaysStill

\* restore_backup puts the backup where nobody has a database open: a process
\* still using the file would go on writing to one without a name.
RestoreRefusesOpenFile ==
    [][\A p \in Procs :
         pc[p] = "restore_backup" /\ pc'[p] = "restore_sync"
           => \A q \in Users : handle[q] # "db"]_vars

\* A run that holds the migration lock gives it up: no start goes round its
\* table for ever, no copy is resumed without end.
RunEnds == \A p \in Procs : lock = p ~> lock # p
=============================================================================
