-------------------------- MODULE MigrationProofs ---------------------------
(***************************************************************************)
(* What an upgrade and a way back promise, for every number of processes,  *)
(* messages, batches and unsynced changes: no message is lost, the backup  *)
(* is the database's own, and a start or a restore always has a way on.    *)
(*                                                                         *)
(* Two windows of the code are kept shut here: a run beginning between     *)
(* another start's last look and its opening of the file, and an older     *)
(* rustmail acting between a check and the renames it allows.  The runs    *)
(* that open them are violations.                                          *)
(***************************************************************************)
EXTENDS Migration, FiniteSetTheorems, SequenceTheorems, TLAPS

-----------------------------------------------------------------------------
(* Names and files *)

\* What MigrationAssumption says of the constants.
LEMMA Constants ==
    /\ Nobody \notin Procs /\ "older" \notin Procs
    /\ MaxMail \in Nat /\ Seed \subseteq 1 .. MaxMail
    /\ MaxKept \in 1 .. 2 /\ MaxPending \in Nat /\ MaxPending # 0
BY MigrationAssumption, Zenon

\* The names of a directory: the kept ones are apart from the others and from
\* each other.
LEMMA NamesAre ==
    /\ "db" \in Names /\ "migrating" \in Names /\ "bak0" \in Names /\ "bak1" \in Names
    /\ "none" \notin Names /\ "unlinked" \notin Names
    /\ \A i \in 1 .. MaxKept :
         KeptNames[i] \in Names \ {"db", "migrating", "bak0", "bak1"}
    /\ \A i, j \in 1 .. MaxKept : KeptNames[i] = KeptNames[j] => i = j
    /\ \A source : Backup(source) \in {"bak0", "bak1"}
<1> DEFINE two == <<"kept1", "kept2">>
<1>1. MaxKept \in 1 .. 2 /\ MaxKept \in Int
  BY Constants
<1>2. two[1] = "kept1" /\ two[2] = "kept2"
  OBVIOUS
<1>3. \A i \in 1 .. MaxKept : two[i] \in {"kept1", "kept2"}
  <2> HIDE DEF two
  <2> QED BY <1>1, <1>2
<1>4. \A i \in 1 .. MaxKept : KeptNames[i] = two[i]
  <2>1. \A i \in 1 .. MaxKept - 1 + 1 : SubSeq(two, 1, MaxKept)[i] = two[1 + i - 1]
    <3> HIDE DEF two
    <3> QED BY <1>1, <1>3, SubSeqProperties
  <2>2. \A i \in 1 .. MaxKept : i \in 1 .. MaxKept - 1 + 1 /\ 1 + i - 1 = i
    BY <1>1
  <2> HIDE DEF two
  <2> QED BY <2>1, <2>2 DEF KeptNames, two
<1>5. \A i, j \in 1 .. MaxKept : two[i] = two[j] => i = j
  <2>1. \A i \in 1 .. MaxKept : i = 1 \/ i = 2
    BY <1>1
  <2> HIDE DEF two
  <2> QED BY <1>2, <2>1
<1> HIDE DEF two
<1>6. \A i \in 1 .. MaxKept : KeptNames[i] \in {"kept1", "kept2"}
  BY <1>3, <1>4
<1> QED BY <1>4, <1>5, <1>6 DEF Names, Backup

\* The tables a file of each supported version has.
LEMMA Layouts == Layout(0) = "legacy" /\ Layout(1) = "previous" /\ Layout(2) = "current"
BY DEF Layout

\* A file with tables, of whatever schema and however complete.
HasTables(f) == f.layout \notin {"absent", "empty"}

\* probe: what a file is follows from its tables and its user_version.
LEMMA States ==
    ASSUME NEW f \in Files, ~HasTables(f) => f.version = 0
    PROVE  /\ State(f) = "absent" <=> f.layout = "absent"
           /\ State(f) = "empty" <=> f.layout = "empty"
           /\ State(f) = "older" <=>
                HasTables(f) /\ f.version \in {0, 1} /\ f.layout = Layout(f.version)
           /\ State(f) = "current" <=> HasTables(f) /\ f.version = SchemaVersion
<1>1. f.version \in {0, 1, 2} /\ f.layout \in {"absent", "empty", "legacy", "previous", "current"}
  BY DEF Files, SchemaVersion
<1>2. f = [layout |-> f.layout, version |-> f.version, mail |-> f.mail, origin |-> f.origin]
  BY DEF Files
<1>3. f = Database(f.version, f.mail, f.origin) <=> f.layout = Layout(f.version)
  <2> DEFINE l == Layout(f.version)
  <2> HIDE DEF l
  <2>1. f = [layout |-> l, version |-> f.version, mail |-> f.mail, origin |-> f.origin]
          <=> f.layout = l
    BY <1>2
  <2> QED BY <2>1 DEF Database, File, l
<1>4. f.version < SchemaVersion <=> f.version \in {0, 1}
  BY <1>1 DEF SchemaVersion
<1> DEFINE isDb == f = Database(f.version, f.mail, f.origin)
<1>5. State(f) = CASE f.layout = "absent" -> "absent"
                   [] f.layout = "empty" -> "empty"
                   [] isDb /\ f.version < SchemaVersion -> "older"
                   [] f.version = SchemaVersion -> "current"
                   [] OTHER -> "unrecognized"
  BY DEF State
<1>6. ~(f.version = SchemaVersion /\ f.version \in {0, 1})
  BY DEF SchemaVersion
<1>8. /\ isDb => f.layout = Layout(f.version)
      /\ ~HasTables(f) => f.version # SchemaVersion /\ ~isDb
  BY <1>3, Layouts DEF HasTables, SchemaVersion
<1> HIDE DEF isDb
<1>7. /\ State(f) = "absent" <=> f.layout = "absent"
      /\ State(f) = "empty" <=> f.layout = "empty"
      /\ State(f) = "older" <=> HasTables(f) /\ isDb /\ f.version \in {0, 1}
      /\ State(f) = "current" <=> HasTables(f) /\ f.version = SchemaVersion
  <2>1. CASE f.layout = "absent"
    BY <1>5, <1>8, <2>1 DEF HasTables
  <2>2. CASE f.layout = "empty"
    BY <1>5, <1>8, <2>2 DEF HasTables
  <2>3. CASE HasTables(f) /\ isDb /\ f.version \in {0, 1}
    BY <1>4, <1>5, <1>6, <2>3 DEF HasTables
  <2>4. CASE HasTables(f) /\ f.version = SchemaVersion
    BY <1>4, <1>5, <1>6, <2>4 DEF HasTables
  <2>5. CASE HasTables(f) /\ ~(isDb /\ f.version \in {0, 1}) /\ f.version # SchemaVersion
    BY <1>4, <1>5, <2>5 DEF HasTables
  <2> QED BY <2>1, <2>2, <2>3, <2>4, <2>5 DEF HasTables
<1> QED BY <1>3, <1>7 DEF isDb

\* The files every directory may hold.
LEMMA FilesAre ==
    /\ NoOrigin \in Origins
    /\ Absent \in Files /\ Absent.layout = "absent" /\ Absent.mail = {} /\ Absent.version = 0
    /\ EmptyFile \in Files /\ EmptyFile.layout = "empty" /\ EmptyFile.mail = {}
    /\ EmptyFile.version = 0 /\ EmptyFile # Absent
    /\ \A version \in {0, 1, 2}, mail \in SUBSET Ids, origin \in Origins :
         LET f == Database(version, mail, origin)
         IN  /\ f \in Files /\ f.layout = Layout(version) /\ f.version = version
             /\ f.mail = mail /\ f.origin = origin
<1>1. NoOrigin \in Origins
  BY DEF Origins
<1>2. 0 \in 0 .. SchemaVersion /\ 1 \in 0 .. SchemaVersion /\ 2 \in 0 .. SchemaVersion
  BY DEF SchemaVersion
<1>3. \A version \in {0, 1, 2} : Layout(version) \in {"legacy", "previous", "current"}
  BY Layouts
<1> HIDE DEF NoOrigin
<1>4. Absent \in Files /\ EmptyFile \in Files
  BY <1>1, <1>2 DEF Absent, EmptyFile, File, Files
<1>5. /\ Absent.layout = "absent" /\ Absent.mail = {} /\ Absent.version = 0
      /\ EmptyFile.layout = "empty" /\ EmptyFile.mail = {} /\ EmptyFile.version = 0
  BY DEF Absent, EmptyFile, File
<1>6. EmptyFile # Absent
  BY <1>5
<1>7. ASSUME NEW version \in {0, 1, 2}, NEW mail \in SUBSET Ids, NEW origin \in Origins
      PROVE  LET f == Database(version, mail, origin)
             IN  /\ f \in Files /\ f.layout = Layout(version) /\ f.version = version
                 /\ f.mail = mail /\ f.origin = origin
  <2> DEFINE l == Layout(version)
  <2>1. l \in {"absent", "empty", "legacy", "previous", "current"} /\ version \in 0 .. SchemaVersion
    BY <1>2, <1>3
  <2> HIDE DEF l
  <2>2. [layout |-> l, version |-> version, mail |-> mail, origin |-> origin] \in Files
    BY <2>1 DEF Files
  <2> QED BY <2>2 DEF Database, File, l
<1> QED BY <1>1, <1>4, <1>5, <1>6, <1>7

-----------------------------------------------------------------------------
(***************************************************************************)
(* What a directory must be at any time, since a process can die and power *)
(* can fail at any time: Good.  The copy holds nothing that is not         *)
(* elsewhere, it is as far as its origin says, a current database and its  *)
(* backup belong together, and a copy without its source's database has    *)
(* its backup.                                                             *)
(***************************************************************************)

WellFormed(d) ==
    \A n \in Names :
        /\ d[n].layout = "absent" => d[n] = Absent
        /\ d[n].layout = "empty" => d[n] = EmptyFile

\* Every message is in a file other than the copy being built.
Held(d, alive) == \A m \in alive : \E n \in Names \ {"migrating"} : m \in d[n].mail

CopyFits(f) ==
    HasTables(f) =>
        /\ f.origin # NoOrigin
        /\ f.layout = Layout(f.origin.target)
        /\ \/ f.version = f.origin.target /\ f.mail = f.origin.print
           \/ f.version = 0 /\ f.mail = {m \in f.origin.print : m <= f.origin.last}

BackupFits(d) ==
    State(d["db"]) = "current" /\ HasBackup(d, d["db"])
      => IsMadeFrom(d["db"], d[Backup(d["db"].origin.source)].mail)

CopyFollowed(d) ==
    /\ HasTables(d["migrating"]) /\ ~HasTables(d["db"])
         => Exists(d, Backup(d["migrating"].origin.source))
    /\ d["migrating"].version = 1 => ~Exists(d, "bak1")

WayForward(d) ==
    \/ StartDecision(d) \in {"ready", "migrate"}
    \/ StartDecision(d) = "finish" /\ CanFinishSwap(d)
    \/ RestoreDecision(d) # "refuse"

Good(d, alive, fork) ==
    /\ WellFormed(d)
    /\ Held(d, alive)
    /\ CopyFits(d["migrating"])
    /\ BackupFits(d)
    /\ CopyFollowed(d)
    /\ fork \/ WayForward(d)

(***************************************************************************)
(* An outage may undo any number of the newest unsynced changes: every     *)
(* directory on the way back has to be Good.                               *)
(***************************************************************************)

Dirs == [Names -> Files]
Ops == [from : Names \cup {"none"}, to : Names \cup {"none"}, was : Files]

Undone(d, op) ==
    [n \in Names |->
        CASE n = op.from -> IF op.to = "none" THEN op.was ELSE d[op.to]
          [] n = op.to -> op.was
          [] OTHER -> d[n]]

IsHistory(h, d, ops) ==
    /\ h \in [0 .. Len(ops) -> Dirs]
    /\ h[Len(ops)] = d
    /\ \A k \in 1 .. Len(ops) : h[k - 1] = Undone(h[k], ops[k])

GoodHistory(d, ops, alive, fork) ==
    \E h : /\ IsHistory(h, d, ops)
           /\ \A k \in 0 .. Len(ops) : Good(h[k], alive, fork)

\* Nothing unsynced: the directory itself.
LEMMA SyncedHistory ==
    ASSUME NEW d \in Dirs, NEW alive, NEW fork, Good(d, alive, fork)
    PROVE  GoodHistory(d, << >>, alive, fork)
<1> DEFINE h == [k \in 0 .. 0 |-> d]
<1>1. Len(<< >>) = 0
  BY EmptySeq
<1>2. h[0] = d /\ h \in [0 .. 0 -> Dirs] /\ \A k \in 0 .. 0 : k = 0 /\ h[k] = d
  OBVIOUS
<1>3. \A k \in 1 .. 0 : FALSE
  OBVIOUS
<1> HIDE DEF h
<1>4. IsHistory(h, d, << >>)
  <2> DEFINE l == Len(<< >>)
  <2>1. l = 0
    BY <1>1
  <2> HIDE DEF l
  <2> SUFFICES h \in [0 .. l -> Dirs] /\ h[l] = d /\ \A k \in 1 .. l : h[k - 1] = Undone(h[k], << >>[k])
    BY DEF IsHistory, l
  <2> QED BY <1>2, <1>3, <2>1
<1> QED BY <1>1, <1>2, <1>4 DEF GoodHistory

\* The directory as it is now is the end of its history.
LEMMA HistoryNow ==
    ASSUME NEW d, NEW ops \in Seq(Ops), NEW alive, NEW fork, GoodHistory(d, ops, alive, fork)
    PROVE  d \in Dirs /\ Good(d, alive, fork)
<1>1. PICK h : IsHistory(h, d, ops) /\ \A k \in 0 .. Len(ops) : Good(h[k], alive, fork)
  BY DEF GoodHistory
<1>2. Len(ops) \in Nat
  BY LenProperties
<1>3. Len(ops) \in 0 .. Len(ops)
  BY <1>2
<1> QED BY <1>1, <1>3 DEF IsHistory

\* The latest change can be undone.
LEMMA UndoneHistory ==
    ASSUME NEW d, NEW ops \in Seq(Ops), ops # << >>, NEW alive, NEW fork,
           GoodHistory(d, ops, alive, fork)
    PROVE  GoodHistory(Undone(d, ops[Len(ops)]), SubSeq(ops, 1, Len(ops) - 1), alive, fork)
<1> DEFINE n == Len(ops)
           rest == SubSeq(ops, 1, n - 1)
<1>1. PICK h : IsHistory(h, d, ops) /\ \A k \in 0 .. n : Good(h[k], alive, fork)
  BY DEF GoodHistory
<1>2. n \in Nat /\ n # 0
  BY EmptySeq
<1>3. \A i \in 1 .. n - 1 : i \in 1 .. n /\ ops[i] \in Ops
  BY <1>2, ElementOfSeq
<1>4. Len(rest) = n - 1 /\ \A i \in 1 .. n - 1 : rest[i] = ops[i]
  <2>1. 1 \in Int /\ n - 1 \in Int /\ \A i \in 1 .. n - 1 : ops[i] \in Ops
    BY <1>2, <1>3
  <2>2. /\ Len(rest) = IF 1 <= n - 1 THEN (n - 1) - 1 + 1 ELSE 0
        /\ \A i \in 1 .. (n - 1) - 1 + 1 : rest[i] = ops[1 + i - 1]
    <3> HIDE DEF n
    <3> QED BY <2>1, SubSeqProperties
  <2>3. \A i \in 1 .. n - 1 : i \in 1 .. (n - 1) - 1 + 1 /\ 1 + i - 1 = i
    BY <1>2
  <2>4. (IF 1 <= n - 1 THEN (n - 1) - 1 + 1 ELSE 0) = n - 1
    <3> HIDE DEF n
    <3>1. CASE n = 1
      BY <3>1
    <3>2. CASE n > 1
      BY <1>2, <3>2
    <3> QED BY <1>2, <3>1, <3>2
  <2> HIDE DEF n, rest
  <2> QED BY <2>2, <2>3, <2>4
<1> DEFINE g == [k \in 0 .. n - 1 |-> h[k]]
<1>5. /\ h \in [0 .. n -> Dirs] /\ h[n] = d
      /\ \A k \in 1 .. n : h[k - 1] = Undone(h[k], ops[k])
  BY <1>1 DEF IsHistory
<1> HIDE DEF n, rest
<1>6. \A k \in 0 .. n - 1 : k \in 0 .. n /\ g[k] = h[k]
  BY <1>2
<1>7. g \in [0 .. n - 1 -> Dirs]
  BY <1>5, <1>6
<1>8. g[n - 1] = Undone(d, ops[n])
  <2>1. n - 1 \in 0 .. n - 1 /\ n \in 1 .. n
    BY <1>2
  <2> QED BY <1>5, <1>6, <2>1
<1>9. \A k \in 1 .. n - 1 : g[k - 1] = Undone(g[k], rest[k])
  <2> TAKE k \in 1 .. n - 1
  <2>1. k \in 1 .. n /\ k \in 0 .. n - 1 /\ k - 1 \in 0 .. n - 1
    BY <1>2
  <2> HIDE DEF g
  <2> QED BY <1>4, <1>5, <1>6, <2>1
<1> HIDE DEF g
<1>10. IsHistory(g, Undone(d, ops[n]), rest)
  BY <1>4, <1>7, <1>8, <1>9 DEF IsHistory
<1>11. \A k \in 0 .. Len(rest) : Good(g[k], alive, fork)
  BY <1>1, <1>4, <1>6
<1> QED BY <1>10, <1>11 DEF GoodHistory, n, rest

\* The oldest change has reached the disk.
LEMMA SettledHistory ==
    ASSUME NEW d, NEW ops \in Seq(Ops), ops # << >>, NEW alive, NEW fork,
           GoodHistory(d, ops, alive, fork)
    PROVE  GoodHistory(d, Tail(ops), alive, fork) /\ Tail(ops) \in Seq(Ops)
<1> DEFINE n == Len(ops)
           rest == Tail(ops)
<1>1. PICK h : IsHistory(h, d, ops) /\ \A k \in 0 .. n : Good(h[k], alive, fork)
  BY DEF GoodHistory
<1>2. n \in Nat /\ n # 0
  BY EmptySeq
<1>3. /\ rest \in Seq(Ops) /\ Len(rest) = n - 1
      /\ \A i \in 1 .. n - 1 : rest[i] = ops[i + 1]
  BY HeadTailProperties
<1> DEFINE g == [k \in 0 .. n - 1 |-> h[k + 1]]
<1>4. /\ h \in [0 .. n -> Dirs] /\ h[n] = d
      /\ \A k \in 1 .. n : h[k - 1] = Undone(h[k], ops[k])
  BY <1>1 DEF IsHistory
<1> HIDE DEF n, rest
<1>5. \A k \in 0 .. n - 1 : k + 1 \in 0 .. n /\ g[k] = h[k + 1]
  BY <1>2
<1>6. g \in [0 .. n - 1 -> Dirs] /\ g[n - 1] = d
  <2>1. n - 1 \in 0 .. n - 1 /\ n - 1 + 1 = n
    BY <1>2
  <2>2. g[n - 1] = h[n]
    BY <1>5, <2>1
  <2> QED BY <1>4, <1>5, <2>2
<1>7. \A k \in 1 .. n - 1 : g[k - 1] = Undone(g[k], rest[k])
  <2> TAKE k \in 1 .. n - 1
  <2>1. k + 1 \in 1 .. n /\ k \in 0 .. n - 1 /\ k - 1 \in 0 .. n - 1
        /\ (k + 1) - 1 = k /\ (k - 1) + 1 = k
    BY <1>2
  <2>2. h[(k + 1) - 1] = Undone(h[k + 1], ops[k + 1])
    BY <1>4, <2>1
  <2>3. g[k - 1] = h[(k - 1) + 1] /\ g[k] = h[k + 1]
    BY <1>5, <2>1
  <2> HIDE DEF g
  <2> QED BY <1>3, <2>1, <2>2, <2>3
<1> HIDE DEF g
<1>8. IsHistory(g, d, rest)
  BY <1>3, <1>6, <1>7 DEF IsHistory
<1>9. \A k \in 0 .. Len(rest) : Good(g[k], alive, fork)
  BY <1>1, <1>3, <1>5
<1> QED BY <1>3, <1>8, <1>9 DEF GoodHistory, rest

\* A change adds itself at the end, with the oldest one settled when there
\* are too many.
LEMMA ChangedHistory ==
    ASSUME NEW d, NEW ops \in Seq(Ops), NEW alive, NEW fork, NEW fork2 \in BOOLEAN,
           GoodHistory(d, ops, alive, fork), fork => fork2,
           NEW op \in Ops, NEW d2 \in Dirs, d = Undone(d2, op), Good(d2, alive, fork2)
    PROVE  LET ops2 == Append(IF Len(ops) < MaxPending THEN ops ELSE Tail(ops), op)
           IN  /\ GoodHistory(d2, ops2, alive, fork2)
               /\ ops2 \in Seq(Ops) /\ ops2 # << >> /\ ops2[Len(ops2)] = op
<1> DEFINE kept == IF Len(ops) < MaxPending THEN ops ELSE Tail(ops)
           n == Len(kept)
           ops2 == Append(kept, op)
<1>1. kept \in Seq(Ops) /\ GoodHistory(d, kept, alive, fork)
  <2>1. CASE Len(ops) < MaxPending
    BY <2>1
  <2>2. CASE ~(Len(ops) < MaxPending)
    <3>1. ops # << >>
      BY <2>2, Constants, EmptySeq
    <3> QED BY <2>2, <3>1, SettledHistory
  <2> QED BY <2>1, <2>2
<1> HIDE DEF kept
<1>2. PICK h : IsHistory(h, d, kept) /\ \A k \in 0 .. n : Good(h[k], alive, fork)
  BY <1>1 DEF GoodHistory
<1>3. n \in Nat
  BY <1>1, LenProperties
<1>4. /\ ops2 \in Seq(Ops) /\ Len(ops2) = n + 1 /\ ops2[n + 1] = op
      /\ \A i \in 1 .. n : ops2[i] = kept[i]
  BY <1>1, <1>3, AppendProperties
<1>5. /\ h \in [0 .. n -> Dirs] /\ h[n] = d
      /\ \A k \in 1 .. n : h[k - 1] = Undone(h[k], kept[k])
  BY <1>2 DEF IsHistory
<1>6. ops2 # << >>
  BY <1>3, <1>4, EmptySeq
<1> DEFINE g == [k \in 0 .. n + 1 |-> IF k = n + 1 THEN d2 ELSE h[k]]
<1> HIDE DEF n, ops2
<1>7. /\ \A k \in 0 .. n : g[k] = h[k] /\ k \in 0 .. n + 1
      /\ g[n + 1] = d2 /\ g \in [0 .. n + 1 -> Dirs]
  <2>1. \A k \in 0 .. n : k # n + 1 /\ k \in 0 .. n + 1
    BY <1>3
  <2>2. \A k \in 0 .. n + 1 : k = n + 1 \/ k \in 0 .. n
    BY <1>3
  <2>3. n + 1 \in 0 .. n + 1
    BY <1>3
  <2> QED BY <1>5, <2>1, <2>2, <2>3
<1>8. \A k \in 0 .. n + 1 : k \in 0 .. n \/ k = n + 1
  BY <1>3
<1> HIDE DEF g
<1>9. \A k \in 1 .. n + 1 : g[k - 1] = Undone(g[k], ops2[k])
  <2> TAKE k \in 1 .. n + 1
  <2>1. CASE k = n + 1
    <3>1. k - 1 = n /\ n \in 0 .. n
      BY <1>3, <2>1
    <3> QED BY <1>4, <1>5, <1>7, <2>1, <3>1
  <2>2. CASE k # n + 1
    <3>1. k \in 1 .. n /\ k \in 0 .. n /\ k - 1 \in 0 .. n
      BY <1>3, <2>2
    <3> QED BY <1>4, <1>5, <1>7, <3>1
  <2> QED BY <2>1, <2>2
<1>10. IsHistory(g, d2, ops2)
  BY <1>4, <1>7, <1>9 DEF IsHistory
<1>11. \A k \in 0 .. Len(ops2) : Good(g[k], alive, fork2)
  <2>1. \A x : Good(x, alive, fork) => Good(x, alive, fork2)
    BY DEF Good
  <2> QED BY <1>2, <1>4, <1>7, <1>8, <2>1 DEF n
<1>12. GoodHistory(d2, ops2, alive, fork2)
  BY <1>10, <1>11 DEF GoodHistory
<1> QED BY <1>4, <1>6, <1>12 DEF ops2, kept

\* A file that came with the latest change may be written without a sync: the
\* way back does not lead through what it holds now.
LEMMA RewrittenHistory ==
    ASSUME NEW d, NEW ops \in Seq(Ops), NEW alive, NEW fork,
           GoodHistory(d, ops, alive, fork),
           NEW d2 \in Dirs, Good(d2, alive, fork),
           ops # << >> => Undone(d2, ops[Len(ops)]) = Undone(d, ops[Len(ops)])
    PROVE  GoodHistory(d2, ops, alive, fork)
<1> DEFINE n == Len(ops)
<1>1. PICK h : IsHistory(h, d, ops) /\ \A k \in 0 .. n : Good(h[k], alive, fork)
  BY DEF GoodHistory
<1>2. n \in Nat /\ (ops = << >> => n = 0) /\ (n = 0 => ops = << >>)
  BY LenProperties, EmptySeq
<1>3. /\ h \in [0 .. n -> Dirs] /\ h[n] = d
      /\ \A k \in 1 .. n : h[k - 1] = Undone(h[k], ops[k])
  BY <1>1 DEF IsHistory
<1> DEFINE g == [h EXCEPT ![n] = d2]
<1> HIDE DEF n
<1>4. /\ g \in [0 .. n -> Dirs] /\ g[n] = d2
      /\ \A k \in 0 .. n : k # n => g[k] = h[k]
  <2>1. n \in 0 .. n
    BY <1>2
  <2> QED BY <1>3, <2>1
<1> HIDE DEF g
<1>5. \A k \in 1 .. n : g[k - 1] = Undone(g[k], ops[k])
  <2> TAKE k \in 1 .. n
  <2>1. k - 1 \in 0 .. n /\ k - 1 # n /\ k \in 0 .. n
    BY <1>2
  <2>2. g[k - 1] = Undone(h[k], ops[k])
    BY <1>3, <1>4, <2>1
  <2>3. CASE k = n
    <3>1. ops # << >>
      BY <1>2, <2>3
    <3> QED BY <1>3, <1>4, <2>2, <2>3, <3>1 DEF n
  <2>4. CASE k # n
    BY <1>4, <2>1, <2>2, <2>4
  <2> QED BY <2>3, <2>4
<1>6. IsHistory(g, d2, ops)
  BY <1>4, <1>5 DEF IsHistory, n
<1>7. \A k \in 0 .. n : Good(g[k], alive, fork)
  BY <1>1, <1>4 DEF n
<1> QED BY <1>6, <1>7 DEF GoodHistory, n

-----------------------------------------------------------------------------
(* What a start and a restore decide *)

\* What is known of one file of a well-formed directory.
LEMMA FileAt ==
    ASSUME NEW d \in Dirs, WellFormed(d), NEW n \in Names
    PROVE  /\ d[n] \in Files
           /\ Exists(d, n) <=> d[n].layout # "absent"
           /\ d[n] = EmptyFile <=> d[n].layout = "empty"
           /\ State(d[n]) = "absent" <=> ~Exists(d, n)
           /\ State(d[n]) = "empty" <=> d[n] = EmptyFile
           /\ State(d[n]) = "older" <=>
                HasTables(d[n]) /\ d[n].version \in {0, 1} /\ d[n].layout = Layout(d[n].version)
           /\ State(d[n]) = "current" <=> HasTables(d[n]) /\ d[n].version = SchemaVersion
           /\ ~HasTables(d[n]) => d[n].version = 0 /\ d[n].mail = {}
           /\ HasTables(d[n]) => Exists(d, n)
<1>1. d[n] \in Files
  BY DEF Dirs
<1>2. /\ d[n].layout = "absent" <=> d[n] = Absent
      /\ d[n].layout = "empty" <=> d[n] = EmptyFile
  BY FilesAre DEF WellFormed
<1>3. ~HasTables(d[n]) => d[n].version = 0 /\ d[n].mail = {}
  BY <1>2, FilesAre DEF HasTables
<1>4. /\ State(d[n]) = "absent" <=> d[n].layout = "absent"
      /\ State(d[n]) = "empty" <=> d[n].layout = "empty"
      /\ State(d[n]) = "older" <=>
           HasTables(d[n]) /\ d[n].version \in {0, 1} /\ d[n].layout = Layout(d[n].version)
      /\ State(d[n]) = "current" <=> HasTables(d[n]) /\ d[n].version = SchemaVersion
  BY <1>1, <1>3, States
<1> QED BY <1>1, <1>2, <1>3, <1>4 DEF Exists, HasTables

\* prepare_with's table.
LEMMA StartDecides ==
    ASSUME NEW d \in Dirs, WellFormed(d)
    PROVE  /\ StartDecision(d) \in {"ready", "migrate", "finish", "refuse"}
           /\ StartDecision(d) = "ready" <=>
                /\ ~Exists(d, "migrating")
                /\ State(d["db"]) = "current" \/ (~HasTables(d["db"]) /\ ~AnyBackup(d))
           /\ StartDecision(d) = "migrate" <=>
                State(d["db"]) = "older" /\ ~Exists(d, Backup(d["db"].version))
           /\ StartDecision(d) = "finish" <=>
                /\ ~Exists(d, "db") /\ IsComplete(d["migrating"])
                /\ d["migrating"].origin.source \in {0, 1}
<1> DEFINE db == State(d["db"])
           A == db \in {"absent", "empty"} /\ ~Exists(d, "migrating") /\ ~AnyBackup(d)
           B == db = "current" /\ ~Exists(d, "migrating")
           C == db = "older" /\ ~Exists(d, Backup(d["db"].version))
           D == /\ db = "absent" /\ IsComplete(d["migrating"])
                /\ d["migrating"].origin.source \in {0, 1}
<1>1. StartDecision(d) = CASE A -> "ready" [] B -> "ready" [] C -> "migrate"
                           [] D -> "finish" [] OTHER -> "refuse"
  BY DEF StartDecision
<1>2. db = "absent" <=> ~Exists(d, "db")
  BY FileAt, NamesAre
<1>3. db \in {"absent", "empty"} <=> ~HasTables(d["db"])
  <2>1. /\ db = "absent" <=> d["db"].layout = "absent"
        /\ db = "empty" <=> d["db"].layout = "empty"
    BY FileAt, NamesAre
  <2> QED BY <2>1 DEF HasTables
<1>4. D => Exists(d, "migrating")
  <2>1. IsComplete(d["migrating"]) => d["migrating"].version # 0
    BY DEF IsComplete, SchemaVersion
  <2> QED BY <2>1, FilesAre DEF Exists
<1>5. /\ ~(A /\ C) /\ ~(A /\ D) /\ ~(B /\ C) /\ ~(B /\ D) /\ ~(C /\ D)
  BY <1>4
<1>6. /\ StartDecision(d) \in {"ready", "migrate", "finish", "refuse"}
      /\ StartDecision(d) = "ready" <=> A \/ B
      /\ StartDecision(d) = "migrate" <=> C
      /\ StartDecision(d) = "finish" <=> D
  <2> HIDE DEF A, B, C, D
  <2>1. CASE A \/ B
    BY <1>1, <1>5, <2>1
  <2>2. CASE C
    BY <1>1, <1>5, <2>2
  <2>3. CASE D
    BY <1>1, <1>5, <2>3
  <2>4. CASE ~A /\ ~B /\ ~C /\ ~D
    BY <1>1, <2>4
  <2> QED BY <2>1, <2>2, <2>3, <2>4
<1> HIDE DEF db
<1> QED BY <1>2, <1>3, <1>6 DEF db

\* restore_backup's cases.
LEMMA RestoreDecides ==
    ASSUME NEW d \in Dirs, WellFormed(d)
    PROVE  /\ RestoreDecision(d) \in {"restore", "finish", "refuse"}
           /\ RestoreDecision(d) = "restore" <=>
                ~Exists(d, "migrating") /\ State(d["db"]) = "current" /\ HasBackup(d, d["db"])
           /\ RestoreDecision(d) = "finish" <=>
                /\ ~Exists(d, "migrating") /\ ~Exists(d, "db") /\ Kept(d) # {}
                /\ State(d[Newest(d)]) = "current" /\ HasBackup(d, d[Newest(d)])
                /\ IsMadeFrom(d[Newest(d)], d[Backup(d[Newest(d)].origin.source)].mail)
<1> DEFINE A == ~Exists(d, "migrating") /\ State(d["db"]) = "current" /\ HasBackup(d, d["db"])
           B == /\ ~Exists(d, "migrating") /\ State(d["db"]) = "absent" /\ Kept(d) # {}
                /\ State(d[Newest(d)]) = "current" /\ HasBackup(d, d[Newest(d)])
                /\ IsMadeFrom(d[Newest(d)], d[Backup(d[Newest(d)].origin.source)].mail)
<1>1. RestoreDecision(d) = CASE A -> "restore" [] B -> "finish" [] OTHER -> "refuse"
  BY DEF RestoreDecision
<1>2. ~(A /\ B)
  OBVIOUS
<1>3. State(d["db"]) = "absent" <=> ~Exists(d, "db")
  BY FileAt, NamesAre
<1>4. /\ RestoreDecision(d) \in {"restore", "finish", "refuse"}
      /\ RestoreDecision(d) = "restore" <=> A
      /\ RestoreDecision(d) = "finish" <=> B
  <2> HIDE DEF A, B
  <2>1. CASE A
    BY <1>1, <1>2, <2>1
  <2>2. CASE B
    BY <1>1, <1>2, <2>2
  <2>3. CASE ~A /\ ~B
    BY <1>1, <2>3
  <2> QED BY <2>1, <2>2, <2>3
<1> QED BY <1>3, <1>4

\* A backup in the right schema is an older database of that schema.
LEMMA BackupIsOlder ==
    ASSUME NEW d \in Dirs, WellFormed(d), NEW f, HasBackup(d, f)
    PROVE  LET b == Backup(f.origin.source)
           IN  /\ Exists(d, b) /\ State(d[b]) = "older"
               /\ d[b].version = f.origin.source /\ f.origin.source \in {0, 1}
<1> DEFINE b == Backup(f.origin.source)
<1>1. f.origin.source \in {0, 1} /\ d[b].layout = Layout(f.origin.source) /\ State(d[b]) = "older"
  BY DEF HasBackup
<1>2. b \in Names
  BY NamesAre
<1> HIDE DEF b
<1>3. Exists(d, b) /\ d[b].version \in {0, 1} /\ d[b].layout = Layout(d[b].version)
  BY <1>1, <1>2, FileAt
<1>4. d[b].version = f.origin.source
  BY <1>1, <1>3, Layouts
<1> QED BY <1>1, <1>3, <1>4 DEF b

\* The newest kept file is one of those there are.
LEMMA NewestKept ==
    ASSUME NEW d, NEW i \in Kept(d), \A j \in Kept(d) : j <= i
    PROVE  Newest(d) = KeptNames[i] /\ KeptNames[i] \in Names
<1>1. i \in 1 .. MaxKept /\ \A j \in Kept(d) : j \in 1 .. MaxKept
  BY DEF Kept
<1>2. \A k \in Kept(d) : (\A j \in Kept(d) : j <= k) => k = i
  <2> SUFFICES ASSUME NEW k \in Kept(d), \A j \in Kept(d) : j <= k PROVE k = i
    OBVIOUS
  <2>1. k <= i /\ i <= k /\ k \in Int /\ i \in Int
    BY <1>1
  <2> QED BY <2>1
<1>3. (CHOOSE k \in Kept(d) : \A j \in Kept(d) : j <= k) = i
  BY <1>2
<1> QED BY <1>1, <1>3, NamesAre DEF Newest

\* There is one when there are any.
LEMMA NewestExists ==
    ASSUME NEW d, Kept(d) # {}
    PROVE  \E i \in Kept(d) : /\ \A j \in Kept(d) : j <= i
                              /\ Newest(d) = KeptNames[i]
<1>1. \A j \in Kept(d) : j = 1 \/ j = 2
  BY Constants DEF Kept
<1>2. \E i \in Kept(d) : \A j \in Kept(d) : j <= i
  <2>1. CASE 2 \in Kept(d)
    BY <1>1, <2>1
  <2>2. CASE 2 \notin Kept(d)
    BY <1>1, <2>2
  <2> QED BY <2>1, <2>2
<1> QED BY <1>2, NewestKept

-----------------------------------------------------------------------------
(* What each change does to a good directory *)

\* The source a migration works from.
IsSource(d) == State(d["db"]) = "older" /\ ~Exists(d, Backup(d["db"].version))

\* Building the copy, step by step: only the copy changes.
LEMMA CopyChanges ==
    ASSUME NEW d \in Dirs, NEW alive, NEW fork, Good(d, alive, fork), IsSource(d),
           NEW d2 \in Dirs, \A n \in Names \ {"migrating"} : d2[n] = d[n],
           ~HasTables(d2["migrating"]) => d2["migrating"] \in {Absent, EmptyFile},
           CopyFits(d2["migrating"]), d2["migrating"].version # 1
    PROVE  Good(d2, alive, fork) /\ IsSource(d2)
<1> USE DEF Good
<1>1. d2["db"] = d["db"] /\ d2["bak0"] = d["bak0"] /\ d2["bak1"] = d["bak1"]
  BY NamesAre
<1>2. WellFormed(d2)
  <2> SUFFICES ASSUME NEW n \in Names
               PROVE  /\ d2[n].layout = "absent" => d2[n] = Absent
                      /\ d2[n].layout = "empty" => d2[n] = EmptyFile
    BY DEF WellFormed
  <2>1. CASE n = "migrating"
    BY <2>1, FilesAre DEF HasTables
  <2>2. CASE n # "migrating"
    BY <2>2 DEF WellFormed
  <2> QED BY <2>1, <2>2
<1>3. IsSource(d2)
  BY <1>1, NamesAre DEF IsSource, Exists
<1>4. Held(d2, alive)
  BY DEF Held
<1>5. HasTables(d2["db"]) /\ State(d2["db"]) # "current"
  BY <1>1, FileAt, NamesAre DEF IsSource
<1>6. BackupFits(d2) /\ CopyFollowed(d2)
  BY <1>5 DEF BackupFits, CopyFollowed
<1>7. WayForward(d2)
  BY <1>2, <1>3, StartDecides DEF WayForward, IsSource
<1> QED BY <1>2, <1>3, <1>4, <1>6, <1>7

\* The first rename of a swap: the source becomes the backup.
LEMMA SourceIsKept ==
    ASSUME NEW d \in Dirs, NEW alive, NEW fork, Good(d, alive, fork), IsSource(d),
           IsResumable(d["migrating"], d["db"].version, d["db"].mail),
           IsComplete(d["migrating"]), d["migrating"].version # 1,
           NEW d2 \in Dirs, d2["db"] = Absent,
           d2[Backup(d["migrating"].origin.source)] = d["db"],
           \A n \in Names \ {"db", Backup(d["migrating"].origin.source)} : d2[n] = d[n]
    PROVE  /\ Good(d2, alive, fork) /\ CanFinishSwap(d2)
           /\ ~Exists(d2, "db") /\ IsComplete(d2["migrating"])
<1> USE DEF Good
<1> DEFINE b == Backup(d["migrating"].origin.source)
<1>1. b = Backup(d["db"].version) /\ b \in {"bak0", "bak1"} /\ b \in Names
  BY NamesAre DEF IsResumable
<1>2. d[b] = Absent
  BY <1>1 DEF IsSource, Exists
<1> HIDE DEF b
<1>3. d2["db"] = Absent /\ d2[b] = d["db"] /\ \A n \in Names \ {"db", b} : d2[n] = d[n]
  BY DEF b
<1>4. d2["migrating"] = d["migrating"] /\ b = Backup(d2["migrating"].origin.source)
  BY <1>1, <1>3, NamesAre DEF b
<1>5. WellFormed(d2)
  <2> SUFFICES ASSUME NEW n \in Names
               PROVE  /\ d2[n].layout = "absent" => d2[n] = Absent
                      /\ d2[n].layout = "empty" => d2[n] = EmptyFile
    BY DEF WellFormed
  <2>1. CASE n = "db"
    BY <1>3, <2>1, FilesAre
  <2>2. CASE n = b
    BY <1>3, <2>2, NamesAre DEF WellFormed
  <2>3. CASE n # "db" /\ n # b
    BY <1>3, <2>3 DEF WellFormed
  <2> QED BY <2>1, <2>2, <2>3
<1>6. Held(d2, alive)
  <2> SUFFICES ASSUME NEW m \in alive PROVE \E n \in Names \ {"migrating"} : m \in d2[n].mail
    BY DEF Held
  <2>1. PICK n \in Names \ {"migrating"} : m \in d[n].mail
    BY DEF Held
  <2>2. n # b
    BY <1>2, <2>1, FilesAre
  <2>3. CASE n = "db"
    BY <1>1, <1>3, <2>1, <2>3
  <2>4. CASE n # "db"
    BY <1>3, <2>1, <2>2, <2>4
  <2> QED BY <2>3, <2>4
<1>7. ~Exists(d2, "db") /\ State(d2["db"]) = "absent" /\ ~HasTables(d2["db"])
  BY <1>3, <1>5, FileAt, FilesAre, NamesAre DEF Exists, HasTables
<1>8. BackupFits(d2)
  BY <1>7 DEF BackupFits
<1>9. Exists(d2, b)
  <2>1. HasTables(d["db"])
    BY FileAt, NamesAre DEF IsSource
  <2> QED BY <1>1, <1>3, <1>5, <2>1, FileAt
<1>10. CopyFollowed(d2)
  BY <1>4, <1>9 DEF CopyFollowed
<1>11. CanFinishSwap(d2)
  <2>1. IsMadeFrom(d2["migrating"], d2[b].mail)
    BY <1>3, <1>4 DEF IsResumable
  <2> QED BY <1>4, <1>9, <2>1 DEF CanFinishSwap
<1>12. IsComplete(d2["migrating"]) /\ d2["migrating"].origin.source \in {0, 1}
  <2>1. d["db"].version \in {0, 1}
    BY FileAt, NamesAre DEF IsSource
  <2> QED BY <1>4, <2>1 DEF IsResumable
<1>13. WayForward(d2)
  BY <1>5, <1>7, <1>11, <1>12, StartDecides DEF WayForward
<1> QED BY <1>4, <1>5, <1>6, <1>7, <1>8, <1>10, <1>11, <1>12, <1>13

\* The second: the copy becomes the database.
LEMMA CopyIsPlaced ==
    ASSUME NEW d \in Dirs, NEW alive, NEW fork, Good(d, alive, fork), CanFinishSwap(d),
           IsComplete(d["migrating"]), ~Exists(d, "db"),
           NEW d2 \in Dirs, d2["db"] = d["migrating"], d2["migrating"] = Absent,
           \A n \in Names \ {"db", "migrating"} : d2[n] = d[n]
    PROVE  /\ Good(d2, alive, fork)
           /\ d2["db"] # EmptyFile
           /\ d[Backup(d["migrating"].origin.source)].mail \subseteq d2["db"].mail
<1> USE DEF Good
<1> DEFINE c == d["migrating"]
           b == Backup(c.origin.source)
<1>1. /\ HasTables(c) /\ c.version \in {1, 2} /\ c.version = c.origin.target
      /\ c.layout = Layout(c.version) /\ c.mail = c.origin.print
  <2>1. c.version \in {1, 2} /\ c.version # 0
    BY DEF IsComplete, SchemaVersion
  <2>2. HasTables(c)
    BY <2>1, FileAt, NamesAre
  <2> QED BY <2>1, <2>2 DEF CopyFits
<1>2. b \in {"bak0", "bak1"} /\ b \in Names /\ d2[b] = d[b] /\ c.origin.print = d[b].mail
  BY NamesAre DEF CanFinishSwap, IsMadeFrom
<1>3. WellFormed(d2)
  <2> SUFFICES ASSUME NEW n \in Names
               PROVE  /\ d2[n].layout = "absent" => d2[n] = Absent
                      /\ d2[n].layout = "empty" => d2[n] = EmptyFile
    BY DEF WellFormed
  <2>1. CASE n = "db"
    BY <2>1, NamesAre DEF WellFormed
  <2>2. CASE n = "migrating"
    BY <2>2, FilesAre
  <2>3. CASE n # "db" /\ n # "migrating"
    BY <2>3 DEF WellFormed
  <2> QED BY <2>1, <2>2, <2>3
<1>4. Held(d2, alive)
  <2> SUFFICES ASSUME NEW m \in alive PROVE \E n \in Names \ {"migrating"} : m \in d2[n].mail
    BY DEF Held
  <2>1. PICK n \in Names \ {"migrating"} : m \in d[n].mail
    BY DEF Held
  <2>2. n # "db"
    BY <2>1, FilesAre DEF Exists
  <2> QED BY <2>1, <2>2
<1>5. ~HasTables(d2["migrating"]) /\ ~Exists(d2, "migrating") /\ d2["migrating"].version = 0
  BY FilesAre DEF HasTables, Exists
<1>6. CopyFits(d2["migrating"]) /\ CopyFollowed(d2)
  BY <1>5 DEF CopyFits, CopyFollowed
<1>7. BackupFits(d2)
  <2>1. IsMadeFrom(d2["db"], d2[Backup(d2["db"].origin.source)].mail)
    BY <1>2 DEF CanFinishSwap
  <2> QED BY <2>1 DEF BackupFits
<1>8. WayForward(d2)
  <2>1. CASE c.version = 2
    <3>1. State(d2["db"]) = "current"
      BY <1>1, <1>3, <2>1, FileAt, NamesAre DEF SchemaVersion
    <3> QED BY <1>3, <1>5, <3>1, StartDecides DEF WayForward
  <2>2. CASE c.version = 1
    <3>1. State(d2["db"]) = "older" /\ d2["db"].version = 1
      BY <1>1, <1>3, <2>2, FileAt, NamesAre
    <3>2. ~Exists(d2, "bak1")
      BY <2>2, NamesAre DEF CopyFollowed, Exists
    <3>3. Backup(1) = "bak1"
      BY DEF Backup
    <3> QED BY <1>3, <3>1, <3>2, <3>3, StartDecides DEF WayForward
  <2> QED BY <1>1, <2>1, <2>2
<1>9. d2["db"] # EmptyFile
  BY <1>1, FilesAre DEF HasTables
<1> QED BY <1>1, <1>2, <1>3, <1>4, <1>6, <1>7, <1>8, <1>9

\* The first rename of a restore: the database becomes a kept file.
LEMMA DatabaseIsKept ==
    ASSUME NEW d \in Dirs, NEW alive, NEW fork, Good(d, alive, fork),
           RestoreDecision(d) = "restore",
           NEW i \in 1 .. MaxKept, \A j \in Kept(d) : j < i,
           NEW d2 \in Dirs, d2["db"] = Absent, d2[KeptNames[i]] = d["db"],
           \A n \in Names \ {"db", KeptNames[i]} : d2[n] = d[n]
    PROVE  Good(d2, alive, fork) /\ RestoreDecision(d2) = "finish"
<1> USE DEF Good
<1> DEFINE k == KeptNames[i]
<1>1. k \in Names \ {"db", "migrating", "bak0", "bak1"}
  BY NamesAre
<1>2. d[k] = Absent
  <2>1. i \notin Kept(d) /\ i \in Int
    <3>1. i \in Int /\ ~(i < i)
      BY Constants
    <3> QED BY <3>1
  <2> QED BY <2>1 DEF Kept, Exists
<1>3. ~Exists(d, "migrating") /\ State(d["db"]) = "current" /\ HasBackup(d, d["db"])
  BY RestoreDecides
<1> HIDE DEF k
<1>4. d2["db"] = Absent /\ d2[k] = d["db"] /\ \A n \in Names \ {"db", k} : d2[n] = d[n]
  BY DEF k
<1>5. WellFormed(d2)
  <2> SUFFICES ASSUME NEW n \in Names
               PROVE  /\ d2[n].layout = "absent" => d2[n] = Absent
                      /\ d2[n].layout = "empty" => d2[n] = EmptyFile
    BY DEF WellFormed
  <2>1. CASE n = "db"
    BY <1>4, <2>1, FilesAre
  <2>2. CASE n = k
    BY <1>4, <2>2, NamesAre DEF WellFormed
  <2>3. CASE n # "db" /\ n # k
    BY <1>4, <2>3 DEF WellFormed
  <2> QED BY <2>1, <2>2, <2>3
<1>6. Held(d2, alive)
  <2> SUFFICES ASSUME NEW m \in alive PROVE \E n \in Names \ {"migrating"} : m \in d2[n].mail
    BY DEF Held
  <2>1. PICK n \in Names \ {"migrating"} : m \in d[n].mail
    BY DEF Held
  <2>2. n # k
    BY <1>2, <2>1, FilesAre
  <2>3. CASE n = "db"
    BY <1>1, <1>4, <2>1, <2>3
  <2>4. CASE n # "db"
    BY <1>4, <2>1, <2>2, <2>4
  <2> QED BY <2>3, <2>4
<1>7. /\ d2["migrating"] = Absent /\ ~Exists(d2, "migrating") /\ ~HasTables(d2["migrating"])
      /\ d2["migrating"].version = 0
      /\ ~Exists(d2, "db") /\ State(d2["db"]) # "current"
  <2>1. d2["migrating"] = Absent
    BY <1>1, <1>3, <1>4, NamesAre DEF Exists
  <2>2. State(d2["db"]) = "absent"
    BY <1>4, <1>5, FileAt, NamesAre DEF Exists
  <2> QED BY <1>4, <2>1, <2>2, FilesAre DEF Exists, HasTables
<1>8. CopyFits(d2["migrating"]) /\ CopyFollowed(d2) /\ BackupFits(d2)
  BY <1>7 DEF CopyFits, CopyFollowed, BackupFits
<1>9. Newest(d2) = k /\ Kept(d2) # {}
  <2>1. Exists(d2, k)
    <3>1. HasTables(d["db"])
      BY <1>3, FileAt, NamesAre
    <3> QED BY <1>1, <1>4, <1>5, <3>1, FileAt
  <2>2. i \in Kept(d2)
    BY <2>1 DEF Kept, k
  <2>3. ASSUME NEW j \in Kept(d2) PROVE j <= i
    <3>1. j \in 1 .. MaxKept /\ Exists(d2, KeptNames[j]) /\ i \in Int /\ j \in Int
      BY Constants DEF Kept
    <3>2. CASE j = i
      BY <3>1, <3>2
    <3>3. CASE j # i
      <4>1. KeptNames[j] # k /\ KeptNames[j] # "db" /\ KeptNames[j] \in Names
        BY <3>1, <3>3, NamesAre DEF k
      <4>2. d2[KeptNames[j]] = d[KeptNames[j]]
        BY <1>4, <4>1
      <4>3. j \in Kept(d)
        BY <3>1, <4>2 DEF Kept, Exists
      <4> QED BY <3>1, <4>3
    <3> QED BY <3>2, <3>3
  <2> QED BY <2>2, <2>3, NewestKept DEF k
<1>10. /\ HasBackup(d2, d2[k]) /\ State(d2[k]) = "current"
       /\ IsMadeFrom(d2[k], d2[Backup(d2[k].origin.source)].mail)
  <2> DEFINE b == Backup(d["db"].origin.source)
  <2>1. b \in {"bak0", "bak1"} /\ d2[b] = d[b]
    BY <1>1, <1>4, NamesAre
  <2>2. IsMadeFrom(d["db"], d[b].mail)
    BY <1>3 DEF BackupFits
  <2> QED BY <1>3, <1>4, <2>1, <2>2 DEF HasBackup
<1>11. RestoreDecision(d2) = "finish"
  BY <1>5, <1>7, <1>9, <1>10, RestoreDecides
<1>12. WayForward(d2)
  BY <1>11 DEF WayForward
<1> QED BY <1>5, <1>6, <1>8, <1>11, <1>12

\* The second: the backup becomes the database.
LEMMA BackupIsPlaced ==
    ASSUME NEW d \in Dirs, NEW alive, NEW fork, Good(d, alive, fork),
           RestoreDecision(d) = "finish",
           NEW d2 \in Dirs, d2["db"] = d[Backup(d[Newest(d)].origin.source)],
           d2[Backup(d[Newest(d)].origin.source)] = Absent,
           \A n \in Names \ {"db", Backup(d[Newest(d)].origin.source)} : d2[n] = d[n]
    PROVE  Good(d2, alive, fork) /\ d2["db"] # EmptyFile
<1> USE DEF Good
<1> DEFINE s == d[Newest(d)].origin.source
           b == Backup(s)
<1>1. ~Exists(d, "migrating") /\ ~Exists(d, "db") /\ HasBackup(d, d[Newest(d)])
  BY RestoreDecides
<1>2. Exists(d, b) /\ State(d[b]) = "older" /\ d[b].version = s /\ s \in {0, 1}
  BY <1>1, BackupIsOlder
<1>3. b \in {"bak0", "bak1"} /\ b \in Names
  BY NamesAre
<1>4. d2["db"] = d[b] /\ d2[b] = Absent /\ \A n \in Names \ {"db", b} : d2[n] = d[n]
  OBVIOUS
<1> HIDE DEF b, s
<1>5. WellFormed(d2)
  <2> SUFFICES ASSUME NEW n \in Names
               PROVE  /\ d2[n].layout = "absent" => d2[n] = Absent
                      /\ d2[n].layout = "empty" => d2[n] = EmptyFile
    BY DEF WellFormed
  <2>1. CASE n = b
    BY <1>4, <2>1, FilesAre
  <2>2. CASE n = "db"
    BY <1>3, <1>4, <2>2 DEF WellFormed
  <2>3. CASE n # "db" /\ n # b
    BY <1>4, <2>3 DEF WellFormed
  <2> QED BY <2>1, <2>2, <2>3
<1>6. Held(d2, alive)
  <2> SUFFICES ASSUME NEW m \in alive PROVE \E n \in Names \ {"migrating"} : m \in d2[n].mail
    BY DEF Held
  <2>1. PICK n \in Names \ {"migrating"} : m \in d[n].mail
    BY DEF Held
  <2>2. n # "db"
    BY <1>1, <2>1, FilesAre DEF Exists
  <2>3. CASE n = b
    BY <1>4, <2>1, <2>3, NamesAre
  <2>4. CASE n # b
    BY <1>4, <2>1, <2>2, <2>4
  <2> QED BY <2>3, <2>4
<1>7. /\ d2["migrating"] = Absent /\ ~HasTables(d2["migrating"]) /\ d2["migrating"].version = 0
  <2>1. d2["migrating"] = Absent
    BY <1>1, <1>3, <1>4, NamesAre DEF Exists
  <2> QED BY <2>1, FilesAre DEF HasTables
<1>8. State(d2["db"]) = "older" /\ d2["db"].version = s /\ HasTables(d2["db"])
  <2>1. State(d2["db"]) = "older" /\ d2["db"].version = s
    BY <1>2, <1>4
  <2> QED BY <1>5, <2>1, FileAt, NamesAre
<1>9. CopyFits(d2["migrating"]) /\ CopyFollowed(d2) /\ BackupFits(d2)
  BY <1>7, <1>8 DEF CopyFits, CopyFollowed, BackupFits
<1>10. ~Exists(d2, Backup(d2["db"].version))
  BY <1>4, <1>8 DEF b, Exists
<1>11. WayForward(d2)
  BY <1>5, <1>8, <1>10, StartDecides DEF WayForward
<1>12. d2["db"] # EmptyFile
  BY <1>8, FilesAre DEF HasTables
<1> QED BY <1>5, <1>6, <1>9, <1>11, <1>12

\* One file gets another content, or a name: the rest stays well-formed.
LEMMA StaysWellFormed ==
    ASSUME NEW d \in Dirs, WellFormed(d), NEW d2 \in Dirs, NEW n \in Names,
           \A k \in Names \ {n} : d2[k] = d[k],
           ~HasTables(d2[n]) => d2[n] \in {Absent, EmptyFile}
    PROVE  WellFormed(d2)
<1> SUFFICES ASSUME NEW k \in Names
             PROVE  /\ d2[k].layout = "absent" => d2[k] = Absent
                    /\ d2[k].layout = "empty" => d2[k] = EmptyFile
  BY DEF WellFormed
<1>1. CASE k = n
  BY <1>1, FilesAre DEF HasTables
<1>2. CASE k # n
  BY <1>2 DEF WellFormed
<1> QED BY <1>1, <1>2

\* A missing database is created, where nothing of one is left.
LEMMA DatabaseIsCreated ==
    ASSUME NEW d \in Dirs, NEW alive, NEW fork, Good(d, alive, fork),
           ~Exists(d, "db"), ~Exists(d, "migrating"), ~AnyBackup(d),
           NEW d2 \in Dirs, d2["db"] = EmptyFile, \A n \in Names \ {"db"} : d2[n] = d[n]
    PROVE  Good(d2, alive, fork)
<1> USE DEF Good
<1>1. WellFormed(d2)
  BY StaysWellFormed, NamesAre
<1>2. /\ d2["migrating"] = Absent /\ ~HasTables(d2["migrating"]) /\ d2["migrating"].version = 0
      /\ ~Exists(d2, "migrating")
  BY NamesAre, FilesAre DEF Exists, HasTables
<1>3. ~AnyBackup(d2)
  BY NamesAre DEF AnyBackup, Exists
<1>4. Held(d2, alive)
  <2> SUFFICES ASSUME NEW m \in alive PROVE \E n \in Names \ {"migrating"} : m \in d2[n].mail
    BY DEF Held
  <2>1. PICK n \in Names \ {"migrating"} : m \in d[n].mail
    BY DEF Held
  <2>2. n # "db"
    BY <2>1, FilesAre DEF Exists
  <2> QED BY <2>1, <2>2
<1>5. ~HasTables(d2["db"]) /\ State(d2["db"]) = "empty"
  <2>1. ~HasTables(d2["db"])
    BY FilesAre DEF HasTables
  <2> QED BY <1>1, <2>1, FileAt, NamesAre
<1>6. CopyFits(d2["migrating"]) /\ CopyFollowed(d2) /\ BackupFits(d2)
  BY <1>2, <1>5 DEF CopyFits, CopyFollowed, BackupFits
<1>7. WayForward(d2)
  BY <1>1, <1>2, <1>3, <1>5, StartDecides DEF WayForward
<1> QED BY <1>1, <1>4, <1>6, <1>7

\* A database with tables and no messages takes the place of a file without.
LEMMA TablesAreCreated ==
    ASSUME NEW d \in Dirs, NEW alive, NEW fork, NEW fork2 \in BOOLEAN, Good(d, alive, fork),
           ~HasTables(d["db"]), NEW version \in {0, 2}, fork => fork2,
           version = 0 => fork2 \/ ~AnyBackup(d),
           version = 2 => d["db"] = EmptyFile,
           NEW d2 \in Dirs, d2["db"] = Database(version, {}, NoOrigin),
           \A n \in Names \ {"db"} : d2[n] = d[n]
    PROVE  /\ Good(d2, alive, fork2) /\ HasTables(d2["db"])
           /\ version = 0 => State(d2["db"]) = "older"
           /\ version = 2 => State(d2["db"]) = "current"
<1> USE DEF Good
<1>1. /\ d2["db"].layout = Layout(version) /\ d2["db"].version = version
      /\ d2["db"].origin = NoOrigin
  <2>1. version \in {0, 1, 2} /\ {} \in SUBSET Ids
    OBVIOUS
  <2> HIDE DEF NoOrigin
  <2> QED BY <2>1, FilesAre
<1>2. HasTables(d2["db"])
  BY <1>1, Layouts DEF HasTables
<1>3. WellFormed(d2)
  BY <1>2, StaysWellFormed, NamesAre
<1>4. /\ version = 0 => State(d2["db"]) = "older"
      /\ version = 2 => State(d2["db"]) = "current"
  BY <1>1, <1>2, <1>3, FileAt, NamesAre DEF SchemaVersion
<1>5. Held(d2, alive)
  <2> SUFFICES ASSUME NEW m \in alive PROVE \E n \in Names \ {"migrating"} : m \in d2[n].mail
    BY DEF Held
  <2>1. PICK n \in Names \ {"migrating"} : m \in d[n].mail
    BY DEF Held
  <2>2. n # "db"
    BY <2>1, FileAt, NamesAre
  <2> QED BY <2>1, <2>2
<1>6. d2["migrating"] = d["migrating"] /\ d2["bak0"] = d["bak0"] /\ d2["bak1"] = d["bak1"]
  BY NamesAre
<1>7. CopyFits(d2["migrating"]) /\ CopyFollowed(d2)
  BY <1>2, <1>6 DEF CopyFollowed, Exists
<1>8. BackupFits(d2)
  <2>1. NoOrigin.source \notin {0, 1}
    BY DEF NoOrigin, Origin
  <2> QED BY <1>1, <2>1 DEF BackupFits, HasBackup
<1>9. fork2 \/ WayForward(d2)
  <2>1. CASE version = 0
    <3>1. Backup(0) = "bak0"
      BY DEF Backup
    <3>2. fork2 \/ ~Exists(d2, Backup(d2["db"].version))
      BY <1>1, <1>6, <2>1, <3>1 DEF AnyBackup, Exists
    <3> QED BY <1>3, <1>4, <2>1, <3>2, StartDecides DEF WayForward
  <2>2. CASE version = 2 /\ WayForward(d)
    <3>1. State(d["db"]) = "empty" /\ Exists(d, "db")
      BY <2>2, FileAt, NamesAre, FilesAre DEF Exists
    <3>2. StartDecision(d) = "ready"
      BY <2>2, <3>1, StartDecides, RestoreDecides DEF WayForward
    <3>3. ~Exists(d2, "migrating")
      BY <1>6, <3>2, StartDecides DEF Exists
    <3> QED BY <1>3, <1>4, <2>2, <3>3, StartDecides DEF WayForward
  <2> QED BY <2>1, <2>2
<1> QED BY <1>2, <1>3, <1>4, <1>5, <1>7, <1>8, <1>9

\* Mail comes and goes in the database: nothing else depends on it.
LEMMA MailIsWritten ==
    ASSUME NEW d \in Dirs, NEW alive, NEW fork, Good(d, alive, fork), HasTables(d["db"]),
           NEW alive2, NEW d2 \in Dirs, \A n \in Names \ {"db"} : d2[n] = d[n],
           d2["db"].layout = d["db"].layout, d2["db"].version = d["db"].version,
           d2["db"].origin = d["db"].origin,
           \A m \in alive2 : m \in d2["db"].mail \/ (m \in alive /\ m \notin d["db"].mail)
    PROVE  /\ Good(d2, alive2, fork) /\ State(d2["db"]) = State(d["db"]) /\ HasTables(d2["db"])
           /\ IsSource(d) => IsSource(d2)
           /\ RestoreDecision(d) = "restore" => RestoreDecision(d2) = "restore"
<1> USE DEF Good
<1>1. \A n \in Names \ {"db"} : d2[n] = d[n]
  OBVIOUS
<1>2. /\ d2["db"].layout = d["db"].layout /\ d2["db"].version = d["db"].version
      /\ d2["db"].origin = d["db"].origin
  OBVIOUS
<1>3. HasTables(d2["db"])
  BY <1>2 DEF HasTables
<1>4. WellFormed(d2)
  BY <1>1, <1>3, StaysWellFormed, NamesAre
<1>5. /\ State(d2["db"]) = "older" <=> State(d["db"]) = "older"
      /\ State(d2["db"]) = "current" <=> State(d["db"]) = "current"
  <2> DEFINE Is(f) ==
        /\ State(f) = "older" <=> HasTables(f) /\ f.version \in {0, 1} /\ f.layout = Layout(f.version)
        /\ State(f) = "current" <=> HasTables(f) /\ f.version = SchemaVersion
  <2>1. Is(d["db"])
    BY FileAt, NamesAre
  <2>2. Is(d2["db"])
    BY <1>4, FileAt, NamesAre
  <2> QED BY <1>2, <1>3, <2>1, <2>2
<1>6. State(d2["db"]) = State(d["db"])
  <2>1. State(d2["db"]) \in {"older", "current", "unrecognized"}
    BY <1>3 DEF State, HasTables
  <2>2. State(d["db"]) \in {"older", "current", "unrecognized"}
    BY DEF State, HasTables
  <2> QED BY <1>5, <2>1, <2>2
<1>7. d2["migrating"] = d["migrating"] /\ d2["bak0"] = d["bak0"] /\ d2["bak1"] = d["bak1"]
  BY <1>1, NamesAre
<1>8. \A source : d2[Backup(source)] = d[Backup(source)]
  BY <1>7, NamesAre
<1>9. Held(d2, alive2)
  <2> SUFFICES ASSUME NEW m \in alive2 PROVE \E n \in Names \ {"migrating"} : m \in d2[n].mail
    BY DEF Held
  <2>1. CASE m \in d2["db"].mail
    BY <2>1, NamesAre
  <2>2. CASE m \in alive /\ m \notin d["db"].mail
    <3>1. PICK n \in Names \ {"migrating"} : m \in d[n].mail
      BY <2>2 DEF Held
    <3>2. n # "db"
      BY <2>2, <3>1
    <3> QED BY <1>1, <3>1, <3>2
  <2> QED BY <2>1, <2>2
<1>10. HasBackup(d2, d2["db"]) <=> HasBackup(d, d["db"])
  BY <1>2, <1>8 DEF HasBackup
<1>11. BackupFits(d2)
  BY <1>2, <1>6, <1>8, <1>10 DEF BackupFits, IsMadeFrom
<1>12. CopyFits(d2["migrating"]) /\ CopyFollowed(d2)
  BY <1>3, <1>7 DEF CopyFollowed, Exists
<1>13. IsSource(d) => IsSource(d2)
  BY <1>2, <1>6, <1>8 DEF IsSource, Exists
<1>14. RestoreDecision(d) = "restore" => RestoreDecision(d2) = "restore"
  BY <1>4, <1>6, <1>7, <1>10, RestoreDecides DEF Exists
<1>15. WayForward(d) => WayForward(d2)
  <2>1. Exists(d, "db")
    BY FileAt, NamesAre
  <2>2. WayForward(d) => \/ StartDecision(d) = "ready" \/ StartDecision(d) = "migrate"
                         \/ RestoreDecision(d) = "restore"
    BY <2>1, StartDecides, RestoreDecides DEF WayForward
  <2>3. StartDecision(d) = "ready" => StartDecision(d2) = "ready"
    BY <1>4, <1>6, <1>7, StartDecides DEF Exists
  <2>4. StartDecision(d) = "migrate" => StartDecision(d2) = "migrate"
    BY <1>4, <1>13, StartDecides DEF IsSource
  <2> QED BY <1>14, <2>2, <2>3, <2>4 DEF WayForward
<1> QED BY <1>3, <1>4, <1>6, <1>9, <1>11, <1>12, <1>13, <1>14, <1>15

-----------------------------------------------------------------------------
(***************************************************************************)
(* The inductive invariant.                                                *)
(*                                                                         *)
(* Opens: who has the database open, and what it is to them.               *)
(***************************************************************************)

Opens ==
    /\ \A q \in Users : handle[q] \in {"none", "db"}
    /\ \A q \in Users : handle[q] = "db" => Exists(dir, "db")
    /\ \A p \in Procs : handle[p] = "db" <=> pc[p] \in {"init", "serving"}
    /\ \A p \in Procs : pc[p] = "serving" => State(dir["db"]) = "current"
    /\ handle["older"] = "db" => State(dir["db"]) = "older"

(***************************************************************************)
(* At: what a process at `place` may still rely on, of what it found out   *)
(* on the way there.  d is the directory, ops the unsynced changes, seen   *)
(* the fingerprint, owner the lock's holder and files the open handles.    *)
(***************************************************************************)

Placing == {"release", "swap", "rename_db", "rename_copy", "finish", "finish_rename"}
Copying == {"copy", "verify"}
Anywhere == {"idle", "init", "serving", "inspect", "finish_sync", "restore", "restore_sync"}

At(place, d, ops, seen, owner, files) ==
    /\ place \in Building \cup {"lock_source", "swap", "rename_db"} => IsSource(d)
    /\ place \in Building \ {"plan"} => d["db"].mail = seen
    /\ place \in Copying \cup {"release", "swap", "rename_db"}
         => IsResumable(d["migrating"], d["db"].version, d["db"].mail)
    /\ place \in Copying => d["migrating"].version = 0 /\ ops = << >>
    /\ place = "verify" => \A m \in d["db"].mail : ~(m > d["migrating"].origin.last)
    /\ place \in Placing => IsComplete(d["migrating"])
    /\ place \in {"rename_db", "keep_db"} => \A q \in Users : files[q] = "none"
    /\ place \in {"rename_copy", "finish", "finish_rename"} => ~Exists(d, "db")
    /\ place \in {"rename_copy", "finish_rename"} => CanFinishSwap(d)
    /\ place \in {"checkpoint", "keep_db"} => RestoreDecision(d) = "restore"
    /\ place = "restore_backup" => RestoreDecision(d) = "finish"
    /\ place \in {"sync", "ready"} => ~Exists(d, "migrating")
    /\ place = "sync" => Exists(d, "db")
    /\ place = "ready" => owner = Nobody /\ (~Exists(d, "db") => ~AnyBackup(d))

Places == \A p \in Procs : At(pc[p], dir, pending, print, lock, handle)

\* While a change is unsynced, a copy with tables has its backup, and an empty
\* database came with the latest change.
Waiting(d, ops) ==
    ops # << >> =>
        /\ HasTables(d["migrating"]) => Exists(d, Backup(d["migrating"].origin.source))
        /\ d["db"] = EmptyFile => ops[Len(ops)].from = "none" /\ ops[Len(ops)].to = "db"

Unsynced ==
    /\ power => Waiting(dir, pending)
    /\ ~power => /\ \A p \in Procs : pc[p] = "idle"
                 /\ \A q \in Users : handle[q] = "none"

MInv ==
    /\ TypeOK
    /\ Opens
    /\ Places
    /\ Unsynced
    /\ GoodHistory(dir, pending, live, forked)

\* Some places rely on nothing: a process there knows nothing of the directory.
LEMMA AtAnywhere ==
    ASSUME NEW place \in Anywhere, NEW d, NEW ops, NEW seen, NEW owner, NEW files
    PROVE  At(place, d, ops, seen, owner, files)
BY DEF At, Anywhere, Building, Placing, Copying

\* The kinds of places.
LEMMA PlacesAre ==
    /\ Running \subseteq PCs
    /\ \A place \in PCs : place \in Running <=> place \notin {"idle", "ready", "init", "serving"}
    /\ {"idle", "init", "serving"} \subseteq Anywhere
BY DEF Running, PCs, Building, Renaming, Anywhere

\* What the invariant says of the state, for the leaves of the proofs.
LEMMA Parts ==
    ASSUME MInv
    PROVE  /\ dir \in Dirs /\ pending \in Seq(Ops) /\ power \in BOOLEAN
           /\ pc \in [Procs -> PCs] /\ handle \in [Users -> Names \cup {"none", "unlinked"}]
           /\ \A p \in Procs : pc[p] \in Running <=> lock = p
           /\ live \subseteq Ids /\ forked \in BOOLEAN /\ print \subseteq Ids /\ stale \subseteq Names
           /\ Good(dir, live, forked) /\ WellFormed(dir)
           /\ dir["db"] \in Files /\ dir["migrating"] \in Files
           /\ \A p \in Procs : At(pc[p], dir, pending, print, lock, handle)
           /\ \A p \in Procs : p \in Users
           /\ "older" \in Users
<1>1. pending \in Seq(Ops)
  BY DEF MInv, TypeOK, Ops
<1>2. dir \in Dirs
  BY DEF MInv, TypeOK, Dirs
<1>3. Good(dir, live, forked)
  BY <1>1, HistoryNow DEF MInv
<1>4. dir["db"] \in Files /\ dir["migrating"] \in Files
  BY <1>2, NamesAre DEF Dirs
<1>5. /\ power \in BOOLEAN
      /\ pc \in [Procs -> PCs] /\ handle \in [Users -> Names \cup {"none", "unlinked"}]
      /\ \A p \in Procs : pc[p] \in Running <=> lock = p
      /\ live \subseteq Ids /\ forked \in BOOLEAN /\ print \subseteq Ids /\ stale \subseteq Names
  BY DEF MInv, TypeOK
<1> QED BY <1>1, <1>2, <1>3, <1>4, <1>5 DEF MInv, Places, Good, Users

-----------------------------------------------------------------------------
(* Steps of the run that holds the lock *)

\* While a run holds the lock no other process is prepared to open the file,
\* so a step of the run has only its own place to account for.
LEMMA RunStep ==
    ASSUME MInv, power, UNCHANGED power, NEW p \in Procs, pc[p] \in Running,
           NEW place \in Running \cup {"idle", "ready"}, Goto(p, place),
           lock' = IF place \in Running THEN p ELSE Nobody,
           handle' = handle, UNCHANGED mailVars, stale' \subseteq Names, print' \subseteq Ids,
           pending' \in Seq(Ops), dir' \in Dirs,
           dir'["db"] = dir["db"] \/ \A q \in Users : handle[q] # "db",
           At(place, dir', pending', print', lock', handle'),
           Waiting(dir', pending'),
           GoodHistory(dir', pending', live, forked)
    PROVE  MInv'
<1> USE Parts, PlacesAre, Constants
<1>1. place \in PCs /\ place \notin {"init", "serving"}
  BY DEF PCs, Running, Building, Renaming
<1>2. /\ pc' \in [Procs -> PCs] /\ pc'[p] = place
      /\ \A q \in Procs \ {p} : pc'[q] = pc[q]
  BY <1>1 DEF Goto
<1>3. /\ lock = p /\ Nobody \notin Procs
      /\ \A q \in Procs \ {p} : pc[q] \in Anywhere /\ pc[q] \notin Running
  <2>1. lock = p /\ Nobody \notin Procs
    OBVIOUS
  <2>2. ASSUME NEW q \in Procs \ {p} PROVE pc[q] \in Anywhere /\ pc[q] \notin Running
    <3>1. pc[q] \notin Running /\ pc[q] \in PCs
      BY <2>1
    <3>2. pc[q] # "ready"
      BY <2>1 DEF At
    <3> QED BY <3>1, <3>2
  <2> QED BY <2>1, <2>2
<1>4. live' = live /\ forked' = forked /\ next' = next
  BY DEF mailVars
<1>5. \A q \in Procs : pc'[q] \in Running <=> lock' = q
  BY <1>2, <1>3
<1>6. TypeOK'
  <2>1. lock' \in Procs \cup {Nobody}
    OBVIOUS
  <2>2. next' \in 1 .. MaxMail + 1 /\ live' \subseteq Ids /\ forked' \in BOOLEAN /\ power' \in BOOLEAN
    BY <1>4 DEF MInv, TypeOK
  <2> QED BY <1>2, <1>5, <2>1, <2>2 DEF TypeOK, Dirs, Ops
<1>7. Opens'
  <2>1. \A q \in Procs : pc'[q] \in {"init", "serving"} => pc'[q] = pc[q]
    BY <1>1, <1>2
  <2>2. \A q \in Procs : pc[q] \in {"init", "serving"} => pc'[q] = pc[q]
    <3>1. pc[p] \notin {"init", "serving"}
      OBVIOUS
    <3> QED BY <1>2, <3>1
  <2>3. Opens
    BY DEF MInv
  <2>4. CASE dir'["db"] = dir["db"]
    BY <2>1, <2>2, <2>3, <2>4 DEF Opens, Exists
  <2>5. CASE \A q \in Users : handle[q] # "db"
    BY <2>1, <2>2, <2>3, <2>5 DEF Opens
  <2> QED BY <2>4, <2>5
<1>8. Places'
  <2> SUFFICES ASSUME NEW q \in Procs
               PROVE  At(pc'[q], dir', pending', print', lock', handle')
    BY DEF Places
  <2>1. CASE q = p
    BY <1>2, <2>1
  <2>2. CASE q # p
    BY <1>2, <1>3, <2>2, AtAnywhere
  <2> QED BY <2>1, <2>2
<1>9. Unsynced'
  BY DEF Unsynced
<1> QED BY <1>4, <1>6, <1>7, <1>8, <1>9 DEF MInv

\* A step that leaves the directory alone.
LEMMA LookStep ==
    ASSUME MInv, power, UNCHANGED power, NEW p \in Procs, pc[p] \in Running,
           NEW place \in Running \cup {"idle", "ready"}, Goto(p, place),
           lock' = IF place \in Running THEN p ELSE Nobody,
           handle' = handle, UNCHANGED mailVars, stale' \subseteq Names, print' \subseteq Ids,
           UNCHANGED <<dir, pending>>,
           At(place, dir, pending, print', lock', handle)
    PROVE  MInv'
<1>1. Waiting(dir, pending) /\ GoodHistory(dir, pending, live, forked)
  BY DEF MInv, Unsynced
<1>2. dir' = dir /\ pending' = pending
  OBVIOUS
<1> QED BY <1>1, <1>2, Parts, RunStep

\* The end of a run, in good order or not.
LEMMA EndStep ==
    ASSUME MInv, power, UNCHANGED power, NEW p \in Procs, pc[p] \in Running, End(p),
           UNCHANGED <<dir, pending, handle, mailVars>>,
           stale' \subseteq Names, print' \subseteq Ids
    PROVE  MInv'
<1>1. "idle" \notin Running /\ "idle" \in Anywhere
  BY PlacesAre DEF PCs
<1>2. At("idle", dir, pending, print', lock', handle)
  BY <1>1, AtAnywhere
<1> QED BY <1>1, <1>2, LookStep DEF End

\* A database without side files is open in nobody: opening it makes them.
LEMMA NoSideNoHandle ==
    ASSUME MInv, ~HasSide("db")
    PROVE  \A q \in Users : handle[q] = "none"
BY DEF HasSide

\* The start-up reads the directory and decides; it changes no file.
LEMMA InspectStep ==
    ASSUME MInv, power, UNCHANGED power, NEW p \in Procs, Inspect(p)
    PROVE  MInv'
<1> USE Parts
<1>1. /\ pc[p] = "inspect" /\ pc[p] \in Running /\ lock = p /\ stale' \subseteq Names
      /\ UNCHANGED <<dir, pending, print, handle, mailVars>> /\ print' \subseteq Ids
  BY DEF Inspect, Running
<1>2. CASE StartDecision(dir) = "ready" /\ Goto(p, "ready") /\ lock' = Nobody
  <2>1. ~Exists(dir, "migrating") /\ (~Exists(dir, "db") => ~AnyBackup(dir))
    <3>1. State(dir["db"]) = "current" => Exists(dir, "db")
      BY FileAt, NamesAre
    <3> QED BY <1>2, <3>1, StartDecides
  <2>2. At("ready", dir, pending, print', lock', handle)
    BY <1>2, <2>1 DEF At, Building, Copying, Placing
  <2>3. "ready" \notin Running
    BY DEF Running, Building, Renaming
  <2> QED BY <1>1, <1>2, <2>2, <2>3, LookStep
<1>3. CASE StartDecision(dir) = "migrate" /\ Goto(p, "lock_source") /\ UNCHANGED lock
  <2>1. At("lock_source", dir, pending, print', lock', handle)
    BY <1>3, StartDecides DEF At, Building, Copying, Placing, IsSource
  <2>2. "lock_source" \in Running
    BY DEF Running
  <2> QED BY <1>1, <1>3, <2>1, <2>2, LookStep
<1>4. CASE StartDecision(dir) = "finish" /\ Goto(p, "finish") /\ UNCHANGED lock
  <2>1. At("finish", dir, pending, print', lock', handle)
    BY <1>4, StartDecides DEF At, Building, Copying, Placing
  <2>2. "finish" \in Running
    BY DEF Running, Renaming
  <2> QED BY <1>1, <1>4, <2>1, <2>2, LookStep
<1>5. CASE StartDecision(dir) = "refuse" /\ End(p)
  BY <1>1, <1>5, EndStep
<1> QED BY <1>2, <1>3, <1>4, <1>5 DEF Inspect

\* A start that found the copy finished goes on to the renames, or gives up.
LEMMA FinishSwapStep ==
    ASSUME MInv, power, UNCHANGED power, NEW p \in Procs, FinishSwap(p)
    PROVE  MInv'
<1> USE Parts
<1>1. /\ pc[p] = "finish" /\ pc[p] \in Running /\ lock = p /\ stale' \subseteq Names
      /\ UNCHANGED <<dir, pending, print, handle, mailVars>> /\ print' \subseteq Ids
  BY DEF FinishSwap, Running, Renaming
<1>2. CASE CanFinishSwap(dir) /\ Goto(p, "finish_rename") /\ UNCHANGED lock
  <2>1. ~Exists(dir, "db") /\ IsComplete(dir["migrating"])
    BY <1>1 DEF At, Placing
  <2>2. At("finish_rename", dir, pending, print', lock', handle)
    BY <1>2, <2>1 DEF At, Building, Copying, Placing
  <2>3. "finish_rename" \in Running
    BY DEF Running, Renaming
  <2> QED BY <1>1, <1>2, <2>2, <2>3, LookStep
<1>3. CASE End(p)
  BY <1>1, <1>3, EndStep
<1> QED BY <1>2, <1>3 DEF FinishSwap

\* Taking the write lock of the old database changes no file.
LEMMA LockSourceStep ==
    ASSUME MInv, power, UNCHANGED power, NEW p \in Procs, LockSource(p)
    PROVE  MInv'
<1> USE Parts
<1>1. /\ pc[p] = "lock_source" /\ pc[p] \in Running /\ lock = p /\ stale' \subseteq Names
      /\ Goto(p, "plan") /\ UNCHANGED lock
      /\ UNCHANGED <<dir, pending, print, handle, mailVars>> /\ print' \subseteq Ids
  BY DEF LockSource, Running
<1>2. At("plan", dir, pending, print', lock', handle)
  <2>1. IsSource(dir)
    BY <1>1 DEF At
  <2> QED BY <2>1 DEF At, Building, Copying, Placing
<1>3. "plan" \in Running
  BY DEF Running, Building
<1> QED BY <1>1, <1>2, <1>3, LookStep

\* The copy has no message left to take, and changes no file.
LEMMA CopyFinishedStep ==
    ASSUME MInv, power, UNCHANGED power, NEW p \in Procs, CopyFinished(p)
    PROVE  MInv'
<1> USE Parts
<1>1. /\ pc[p] = "copy" /\ pc[p] \in Running /\ lock = p /\ stale' \subseteq Names
      /\ Goto(p, "verify") /\ UNCHANGED lock
      /\ UNCHANGED <<dir, pending, print, handle, mailVars>> /\ print' \subseteq Ids
  BY DEF CopyFinished, Running, Building
<1>2. At("verify", dir, pending, print', lock', handle)
  <2>1. At("copy", dir, pending, print, lock, handle)
    BY <1>1
  <2>2. \A m \in dir["db"].mail : ~(m > dir["migrating"].origin.last)
    BY DEF CopyFinished, Left, Source, Copy
  <2> QED BY <1>1, <2>1, <2>2 DEF At, Building, Copying, Placing
<1>3. "verify" \in Running
  BY DEF Running, Building
<1> QED BY <1>1, <1>2, <1>3, LookStep

\* Giving up the write lock before the renames changes no file.
LEMMA ReleaseStep ==
    ASSUME MInv, power, UNCHANGED power, NEW p \in Procs, Release(p)
    PROVE  MInv'
<1> USE Parts
<1>1. /\ pc[p] = "release" /\ pc[p] \in Running /\ lock = p /\ stale' \subseteq Names
      /\ Goto(p, "swap") /\ UNCHANGED lock
      /\ UNCHANGED <<dir, pending, handle, mailVars>> /\ print' \subseteq Ids
  BY DEF Release, Running, Building
<1>2. At("swap", dir, pending, print', lock', handle)
  <2>1. At("release", dir, pending, print, lock, handle)
    BY <1>1
  <2> QED BY <2>1 DEF At, Building, Copying, Placing
<1>3. "swap" \in Running
  BY DEF Running, Renaming
<1> QED BY <1>1, <1>2, <1>3, LookStep

\* The checks before the renames change no file.
LEMMA SwapStep ==
    ASSUME MInv, power, UNCHANGED power, NEW p \in Procs, Swap(p)
    PROVE  MInv'
<1> USE Parts
<1>1. /\ pc[p] = "swap" /\ pc[p] \in Running /\ lock = p /\ stale' \subseteq Names
      /\ UNCHANGED <<dir, pending, print, handle, mailVars>> /\ print' \subseteq Ids
  BY DEF Swap, Running, Renaming
<1>2. CASE ~HasSide("db") /\ Goto(p, "rename_db") /\ UNCHANGED lock
  <2>1. At("swap", dir, pending, print, lock, handle)
    BY <1>1
  <2>2. At("rename_db", dir, pending, print', lock', handle)
    BY <1>2, <2>1, NoSideNoHandle DEF At, Building, Copying, Placing
  <2>3. "rename_db" \in Running
    BY DEF Running, Renaming
  <2> QED BY <1>1, <1>2, <2>2, <2>3, LookStep
<1>3. CASE End(p)
  BY <1>1, <1>3, EndStep
<1> QED BY <1>2, <1>3 DEF Swap

\* restore_backup reads the directory and decides; it changes no file.
LEMMA RestoreInspectStep ==
    ASSUME MInv, power, UNCHANGED power, NEW p \in Procs, RestoreInspect(p)
    PROVE  MInv'
<1> USE Parts
<1>1. /\ pc[p] = "restore" /\ pc[p] \in Running /\ lock = p /\ stale' \subseteq Names
      /\ UNCHANGED <<dir, pending, print, handle, mailVars>> /\ print' \subseteq Ids
  BY DEF RestoreInspect, Running
<1>2. CASE RestoreDecision(dir) = "restore" /\ Goto(p, "checkpoint") /\ UNCHANGED lock
  <2>1. At("checkpoint", dir, pending, print', lock', handle)
    BY <1>2 DEF At, Building, Copying, Placing
  <2>2. "checkpoint" \in Running
    BY DEF Running
  <2> QED BY <1>1, <1>2, <2>1, <2>2, LookStep
<1>3. CASE RestoreDecision(dir) = "finish" /\ Goto(p, "restore_backup") /\ UNCHANGED lock
  <2>1. At("restore_backup", dir, pending, print', lock', handle)
    BY <1>3 DEF At, Building, Copying, Placing
  <2>2. "restore_backup" \in Running
    BY DEF Running, Renaming
  <2> QED BY <1>1, <1>3, <2>1, <2>2, LookStep
<1>4. CASE End(p)
  BY <1>1, <1>4, EndStep
<1> QED BY <1>2, <1>3, <1>4 DEF RestoreInspect

\* A restore goes on when the checkpoint left no side file; it changes no file.
LEMMA CheckpointStep ==
    ASSUME MInv, power, UNCHANGED power, NEW p \in Procs, Checkpoint(p)
    PROVE  MInv'
<1> USE Parts
<1>1. /\ pc[p] = "checkpoint" /\ pc[p] \in Running /\ lock = p /\ stale' \subseteq Names
      /\ UNCHANGED <<dir, pending, print, handle, mailVars>> /\ print' \subseteq Ids
  BY DEF Checkpoint, Running
<1>2. CASE ~HasSide("db") /\ Goto(p, "keep_db") /\ UNCHANGED lock
  <2>1. At("checkpoint", dir, pending, print, lock, handle)
    BY <1>1
  <2>2. At("keep_db", dir, pending, print', lock', handle)
    BY <1>2, <2>1, NoSideNoHandle DEF At, Building, Copying, Placing
  <2>3. "keep_db" \in Running
    BY DEF Running
  <2> QED BY <1>1, <1>2, <2>2, <2>3, LookStep
<1>3. CASE End(p)
  BY <1>1, <1>3, EndStep
<1> QED BY <1>2, <1>3 DEF Checkpoint

\* A run that fails, or pauses between two batches.
LEMMA StopStep ==
    ASSUME MInv, power, UNCHANGED power, NEW p \in Procs, Fail(p) \/ Pause(p)
    PROVE  MInv'
<1>1. /\ pc[p] \in Running /\ End(p) /\ UNCHANGED <<dir, stale, pending, handle, mailVars>>
      /\ print' = {}
  BY DEF Fail, Pause, Running, Building
<1>2. stale' \subseteq Names /\ print' \subseteq Ids
  BY <1>1, Parts
<1> QED BY <1>1, <1>2, EndStep

\* sync_parent: nothing is left to undo.
LEMMA SyncStep ==
    ASSUME MInv, power, UNCHANGED power, NEW p \in Procs,
           \/ Sync(p, "finish_sync", "inspect") \/ Sync(p, "restore_sync", "idle")
           \/ Sync(p, "sync", "ready")
    PROVE  MInv'
<1> USE Parts
<1>1. PICK from \in {"finish_sync", "restore_sync", "sync"}, to \in {"inspect", "idle", "ready"} :
        /\ pc[p] = from /\ Goto(p, to) /\ (to = "ready" => from = "sync")
        /\ lock' = IF to = "inspect" THEN p ELSE Nobody
        /\ pending' = << >>
        /\ UNCHANGED <<dir, stale, print, handle, mailVars>>
  BY DEF Sync
<1>2. /\ pc[p] \in Running /\ (to # "ready" => to \in Anywhere) /\ (to \in Running <=> to = "inspect")
      /\ to \in Running \cup {"idle", "ready"}
  BY <1>1 DEF Running, Building, Renaming, Anywhere
<1>3. GoodHistory(dir', pending', live, forked) /\ pending' \in Seq(Ops)
  BY <1>1, SyncedHistory
<1>4. Waiting(dir', pending')
  BY <1>1 DEF Waiting
<1>5. At(to, dir', pending', print', lock', handle')
  <2>1. CASE to = "ready"
    <3>1. ~Exists(dir, "migrating") /\ Exists(dir, "db") /\ lock' = Nobody
      BY <1>1, <2>1 DEF At
    <3> QED BY <1>1, <2>1, <3>1 DEF At, Building, Copying, Placing
  <2>2. CASE to # "ready"
    BY <1>2, <2>2, AtAnywhere
  <2> QED BY <2>1, <2>2
<1> QED BY <1>1, <1>2, <1>3, <1>4, <1>5, RunStep

-----------------------------------------------------------------------------
(* Building the copy *)

RealOrigins == [print : SUBSET Ids, source : {0, 1}, target : {1, 2},
                last : 0 .. MaxMail, bare : BOOLEAN]

\* A copy's record of its source is a real one, or it has none.
LEMMA OriginsAre ==
    /\ \A f \in Files : f.origin # NoOrigin => f.origin \in RealOrigins
    /\ \A o \in RealOrigins : o # NoOrigin /\ o \in Origins
<1>1. \A f \in Files : f.origin \in Origins
  BY DEF Files
<1>2. NoOrigin.source \notin {0, 1}
  BY DEF NoOrigin, Origin
<1>3. \A o \in RealOrigins : o.source \in {0, 1}
  BY DEF RealOrigins
<1>4. Origins = {NoOrigin} \cup RealOrigins
  BY DEF Origins, RealOrigins
<1> QED BY <1>1, <1>2, <1>3, <1>4

\* A copy that can be resumed has tables, and was never a schema-1 database.
LEMMA ResumableCopy ==
    ASSUME MInv, NEW source, NEW from, IsResumable(dir["migrating"], source, from)
    PROVE  LET c == dir["migrating"]
           IN  /\ HasTables(c) /\ c.origin \in RealOrigins
               /\ c.origin.print = from /\ c.origin.target = 2 /\ c.origin.source = source
               /\ c.layout = Layout(2)
               /\ \/ c.version = 2 /\ c.mail = from
                  \/ c.version = 0 /\ c.mail = {m \in from : m <= c.origin.last}
<1> DEFINE c == dir["migrating"]
<1> USE Parts
<1>1. /\ c.origin # NoOrigin /\ c.origin.print = from /\ c.origin.source = source
      /\ c.origin.target = 2
  BY DEF IsResumable, IsMadeFrom, SchemaVersion
<1>2. HasTables(c)
  <2>1. Absent.origin = NoOrigin /\ EmptyFile.origin = NoOrigin
    BY DEF Absent, EmptyFile, File
  <2>2. c # Absent /\ c # EmptyFile
    BY <1>1, <2>1
  <2> QED BY <2>2, NamesAre DEF WellFormed, HasTables
<1>3. CopyFits(c)
  BY DEF Good
<1>4. c.origin \in RealOrigins
  BY <1>1, OriginsAre
<1> HIDE DEF c
<1> QED BY <1>1, <1>2, <1>3, <1>4 DEF CopyFits, c

\* A step of build_locked that changes the copy alone.
LEMMA BuildStep ==
    ASSUME MInv, power, UNCHANGED power, NEW p \in Procs, pc[p] \in Building,
           NEW place \in Building, Goto(p, place), UNCHANGED <<stale, lock, handle, mailVars>>,
           print' = dir["db"].mail,
           NEW c \in Files, dir' = [dir EXCEPT !["migrating"] = c],
           ~HasTables(c) => c \in {Absent, EmptyFile}, CopyFits(c), c.version # 1,
           place \in Copying \cup {"release"} =>
             IsResumable(c, dir["db"].version, dir["db"].mail) /\ pending' = << >>,
           place \in Copying => c.version = 0,
           place = "verify" => \A m \in dir["db"].mail : ~(m > c.origin.last),
           place = "release" => IsComplete(c), place # "plan",
           pending' \in Seq(Ops), Waiting(dir', pending'),
           pending' = << >> \/
             (Good(dir', live, forked) => GoodHistory(dir', pending', live, forked))
    PROVE  MInv'
<1> USE Parts
<1>1. IsSource(dir) /\ pc[p] \in Running /\ place \in Running /\ lock = p
  BY DEF At, Running
<1>2. /\ dir' \in Dirs /\ dir'["migrating"] = c
      /\ \A n \in Names \ {"migrating"} : dir'[n] = dir[n]
  BY NamesAre DEF Dirs
<1>3. Good(dir', live, forked) /\ IsSource(dir')
  BY <1>1, <1>2, CopyChanges
<1>4. GoodHistory(dir', pending', live, forked)
  <2>1. CASE pending' = << >>
    BY <1>2, <1>3, <2>1, SyncedHistory
  <2> QED BY <1>3, <2>1
<1>5. dir'["db"] = dir["db"]
  BY <1>2, NamesAre
<1>6. At(place, dir', pending', print', lock', handle')
  BY <1>2, <1>3, <1>5 DEF At, Building, Copying, Placing
<1>7. print' \subseteq Ids
  BY DEF Files
<1> QED BY <1>1, <1>2, <1>4, <1>5, <1>6, <1>7, RunStep

\* Only at "plan" may the source have changed since it was fingerprinted.
LEMMA SourceIsPrinted ==
    ASSUME MInv, NEW p \in Procs, pc[p] \in Building \ {"plan"}
    PROVE  dir["db"].mail = print
BY Parts DEF At

\* Planning the copy: the one that is there is resumed or is to be removed.
LEMMA PlanStep ==
    ASSUME MInv, power, UNCHANGED power, NEW p \in Procs, Plan(p)
    PROVE  MInv'
<1> USE Parts
<1> DEFINE c == dir["migrating"]
<1>1. /\ pc[p] = "plan" /\ pc[p] \in Building /\ print' = dir["db"].mail
      /\ UNCHANGED <<stale, pending, lock, handle, mailVars>>
  BY DEF Plan, Building, Source
<1>2. CASE /\ IsResumable(c, dir["db"].version, dir["db"].mail)
           /\ dir' = [dir EXCEPT !["migrating"].origin.bare = FALSE]
           /\ Goto(p, IF IsComplete(c) THEN "release" ELSE "copy")
  <2> DEFINE o == [c.origin EXCEPT !.bare = FALSE]
             c2 == [c EXCEPT !.mail = c.mail, !.origin = o, !.version = c.version]
             place == IF IsComplete(c) THEN "release" ELSE "copy"
  <2>1. /\ HasTables(c) /\ c.origin \in RealOrigins
        /\ c.origin.print = dir["db"].mail /\ c.origin.target = 2
        /\ c.origin.source = dir["db"].version /\ c.layout = Layout(2)
        /\ \/ c.version = 2 /\ c.mail = dir["db"].mail
           \/ c.version = 0 /\ c.mail = {m \in dir["db"].mail : m <= c.origin.last}
    BY <1>2, ResumableCopy
  <2>2. /\ o \in RealOrigins /\ o \in Origins /\ o # NoOrigin
        /\ o.print = c.origin.print /\ o.source = c.origin.source
        /\ o.target = c.origin.target /\ o.last = c.origin.last
    <3>1. /\ o \in RealOrigins /\ o.print = c.origin.print /\ o.source = c.origin.source
          /\ o.target = c.origin.target /\ o.last = c.origin.last
      BY <2>1 DEF RealOrigins
    <3> QED BY <3>1, OriginsAre
  <2>3. c \in Files /\ c.mail \in SUBSET Ids /\ c.version \in 0 .. SchemaVersion
    BY DEF Files
  <2>4. dir' = [dir EXCEPT !["migrating"] = c2]
    BY <1>2, <2>3 DEF Files
  <2>5. /\ c2 \in Files /\ c2.mail = c.mail /\ c2.origin = o /\ c2.version = c.version
        /\ c2.layout = c.layout
    <3> HIDE DEF o, c
    <3> QED BY <2>2, <2>3 DEF Files
  <2> HIDE DEF o, c2
  <2>6. HasTables(c2) /\ c2.version # 1 /\ CopyFits(c2)
    BY <2>1, <2>2, <2>5 DEF HasTables, CopyFits
  <2>7. IsResumable(c2, dir["db"].version, dir["db"].mail)
    BY <2>1, <2>2, <2>5 DEF IsResumable, IsMadeFrom, SchemaVersion
  <2>8. pending = << >>
    <3>1. Waiting(dir, pending)
      BY DEF MInv, Unsynced
    <3>2. ~Exists(dir, Backup(c.origin.source))
      BY <1>1, <2>1 DEF At, IsSource
    <3> QED BY <2>1, <3>1, <3>2 DEF Waiting
  <2>9. /\ place \in {"release", "copy"} /\ place \in Building
        /\ place = "copy" => c2.version = 0
        /\ place = "release" => IsComplete(c2)
        /\ Goto(p, place)
    BY <1>2, <2>1, <2>5 DEF IsComplete, SchemaVersion, Building
  <2> HIDE DEF c, place
  <2>10. pending' = << >> /\ pending' \in Seq(Ops) /\ Waiting(dir', pending')
    BY <1>1, <2>8 DEF Waiting
  <2> QED BY <1>1, <2>4, <2>5, <2>6, <2>7, <2>9, <2>10, BuildStep DEF Copying
<1>3. CASE UNCHANGED dir /\ Goto(p, "remove")
  <2>1. IsSource(dir) /\ pc[p] \in Running /\ lock = p /\ "remove" \in Running
    BY <1>1 DEF At, Running, Building
  <2>2. At("remove", dir, pending, print', lock', handle)
    BY <1>1, <2>1 DEF At, Building, Copying, Placing
  <2>3. print' \subseteq Ids
    BY <1>1 DEF Files
  <2> QED BY <1>1, <1>3, <2>1, <2>2, <2>3, LookStep
<1> QED BY <1>2, <1>3 DEF Plan, Source, Copy

\* A change of the directory that is not synced, as the history sees it: undone,
\* it gives the directory there was.
LEMMA Changed ==
    ASSUME MInv, NEW from \in Names \cup {"none"}, NEW to \in Names \cup {"none"}, from # to,
           NEW d2 \in Dirs, \A n \in Names \ {from, to} : d2[n] = dir[n],
           from \in Names /\ to \in Names => d2[to] = dir[from],
           NEW fork2, fork2 = forked \/ fork2 = TRUE, Good(d2, live, fork2)
    PROVE  /\ GoodHistory(d2, Changes(from, to), live, fork2)
           /\ Changes(from, to) \in Seq(Ops) /\ Changes(from, to) # << >>
           /\ Changes(from, to)[Len(Changes(from, to))].from = from
           /\ Changes(from, to)[Len(Changes(from, to))].to = to
<1> USE Parts
<1> DEFINE was == IF to = "none" THEN dir[from] ELSE dir[to]
           op == [from |-> from, to |-> to, was |-> was]
<1>1. "none" \notin Names
  BY NamesAre
<1>2. was \in Files
  BY <1>1 DEF Dirs
<1>3. op.from = from /\ op.to = to /\ op.was = was /\ op \in Ops
  BY <1>2 DEF Ops
<1>4. Changes(from, to) = Append(IF Len(pending) < MaxPending THEN pending ELSE Tail(pending), op)
  BY DEF Changes
<1> HIDE DEF op
<1>5. dir = Undone(d2, op)
  <2> DEFINE u(n) == CASE n = from -> IF to = "none" THEN was ELSE d2[to]
                       [] n = to -> was
                       [] OTHER -> d2[n]
  <2>1. Undone(d2, op) = [n \in Names |-> u(n)]
    BY <1>3 DEF Undone
  <2>2. ASSUME NEW n \in Names PROVE u(n) = dir[n]
    <3>1. CASE n = from
      BY <1>1, <3>1
    <3>2. CASE n = to
      BY <1>1, <3>2
    <3>3. CASE n # from /\ n # to
      BY <3>3
    <3> QED BY <3>1, <3>2, <3>3
  <2> HIDE DEF u
  <2> QED BY <2>1, <2>2 DEF Dirs
<1>6. GoodHistory(dir, pending, live, forked)
  BY DEF MInv
<1> HIDE DEF was
<1>7. fork2 \in BOOLEAN /\ (forked => fork2)
  <2>1. forked \in BOOLEAN
    OBVIOUS
  <2> HIDE Parts
  <2>2. CASE fork2 = forked
    BY <2>1, <2>2, Zenon
  <2>3. CASE fork2 = TRUE
    BY <2>3, Zenon
  <2> QED BY <2>2, <2>3
<1> QED BY <1>3, <1>4, <1>5, <1>6, <1>7, ChangedHistory

\* An unusable copy is removed: no backup and no mail depended on it.
LEMMA RemoveCopyStep ==
    ASSUME MInv, power, UNCHANGED power, NEW p \in Procs, RemoveCopy(p)
    PROVE  MInv'
<1> USE Parts
<1>1. /\ pc[p] = "remove" /\ pc[p] \in Building \ {"plan"} /\ "create_file" \in Building
      /\ dir' = [dir EXCEPT !["migrating"] = Absent]
      /\ pending' = IF Exists(dir, "migrating") THEN Changes("migrating", "none") ELSE pending
      /\ Goto(p, "create_file") /\ UNCHANGED <<stale, lock, handle, mailVars>>
      /\ print' = dir["db"].mail
  BY SourceIsPrinted DEF RemoveCopy, Building
<1>2. /\ Absent \in Files /\ ~HasTables(Absent) /\ CopyFits(Absent) /\ Absent.version # 1
  BY FilesAre DEF HasTables, CopyFits
<1>3. /\ dir' \in Dirs /\ dir'["migrating"] = Absent
      /\ \A n \in Names \ {"migrating"} : dir'[n] = dir[n]
  BY <1>1, <1>2, NamesAre DEF Dirs
<1>4. dir'["db"] = dir["db"] /\ dir["db"] # EmptyFile
  <2>1. HasTables(dir["db"])
    BY <1>1, FileAt, NamesAre DEF At, IsSource
  <2> QED BY <1>3, <2>1, NamesAre, FilesAre DEF HasTables
<1>5. Waiting(dir', pending')
  BY <1>2, <1>3, <1>4 DEF Waiting
<1>6. ASSUME Exists(dir, "migrating")
      PROVE  GoodHistory(dir', pending', live, forked) /\ pending' \in Seq(Ops)
  <2>1. Good(dir', live, forked)
    BY <1>1, <1>2, <1>3, CopyChanges DEF At
  <2>2. \A n \in Names \ {"migrating", "none"} : dir'[n] = dir[n]
    BY <1>3
  <2>3. "migrating" \in Names /\ "none" \notin Names
    BY NamesAre
  <2> HIDE Parts
  <2>4. forked \in BOOLEAN
    BY Parts
  <2>5. GoodHistory(dir', pending', live, forked) /\ pending' \in Seq(Ops)
    BY <1>1, <1>3, <1>6, <2>1, <2>2, <2>3, <2>4, Changed
  <2> QED BY <2>5
<1>7. ASSUME ~Exists(dir, "migrating")
      PROVE  GoodHistory(dir', pending', live, forked) /\ pending' \in Seq(Ops)
  <2>1. dir' = dir /\ pending' = pending
    BY <1>1, <1>7 DEF Exists, Dirs
  <2> QED BY <2>1 DEF MInv
<1>8. GoodHistory(dir', pending', live, forked) /\ pending' \in Seq(Ops)
  BY <1>6, <1>7
<1> HIDE Parts
<1> QED BY <1>1, <1>2, <1>5, <1>8, BuildStep DEF Copying

\* The empty file of a new copy holds no mail and is nobody's database.
LEMMA CreateFileStep ==
    ASSUME MInv, power, UNCHANGED power, NEW p \in Procs, CreateFile(p)
    PROVE  MInv'
<1> USE Parts
<1>1. /\ pc[p] = "create_file" /\ pc[p] \in Building \ {"plan"} /\ "create_schema" \in Building
      /\ dir' = [dir EXCEPT !["migrating"] = EmptyFile]
      /\ pending' = Changes("none", "migrating")
      /\ Goto(p, "create_schema") /\ UNCHANGED <<stale, lock, handle, mailVars>>
      /\ print' = dir["db"].mail
  BY SourceIsPrinted DEF CreateFile, Building
<1>2. /\ EmptyFile \in Files /\ ~HasTables(EmptyFile) /\ CopyFits(EmptyFile)
      /\ EmptyFile.version # 1
  BY FilesAre DEF HasTables, CopyFits
<1>3. /\ dir' \in Dirs /\ dir'["migrating"] = EmptyFile
      /\ \A n \in Names \ {"migrating"} : dir'[n] = dir[n]
  BY <1>1, <1>2, NamesAre DEF Dirs
<1>4. dir'["db"] = dir["db"] /\ dir["db"] # EmptyFile
  <2>1. HasTables(dir["db"])
    BY <1>1, FileAt, NamesAre DEF At, IsSource
  <2> QED BY <1>3, <2>1, NamesAre, FilesAre DEF HasTables
<1>5. Waiting(dir', pending')
  BY <1>2, <1>3, <1>4 DEF Waiting
<1>6. Good(dir', live, forked)
  BY <1>1, <1>2, <1>3, CopyChanges DEF At
<1>7. GoodHistory(dir', pending', live, forked) /\ pending' \in Seq(Ops)
  <2>1. \A n \in Names \ {"none", "migrating"} : dir'[n] = dir[n]
    BY <1>3
  <2>2. "migrating" \in Names /\ "none" \notin Names /\ forked \in BOOLEAN
    BY NamesAre
  <2> HIDE Parts
  <2> QED BY <1>1, <1>3, <1>6, <2>1, <2>2, Changed
<1> HIDE Parts
<1> QED BY <1>1, <1>2, <1>5, <1>7, BuildStep DEF Copying

\* The tables of a new copy record its source, and hold no mail yet.
LEMMA CreateSchemaStep ==
    ASSUME MInv, power, UNCHANGED power, NEW p \in Procs, CreateSchema(p)
    PROVE  MInv'
<1> USE Parts
<1> DEFINE o == Origin(print, dir["db"].version, SchemaVersion, 0, FALSE)
           c == Unfinished({}, o)
<1>1. /\ pc[p] = "create_schema" /\ pc[p] \in Building \ {"plan"} /\ "copy" \in Building
      /\ dir' = [dir EXCEPT !["migrating"] = c]
      /\ pending' = << >>
      /\ Goto(p, "copy") /\ UNCHANGED <<stale, lock, handle, mailVars>>
      /\ print' = dir["db"].mail /\ print = dir["db"].mail
  BY SourceIsPrinted DEF CreateSchema, Building, Source
<1>2. dir["db"].version \in {0, 1}
  BY <1>1, FileAt, NamesAre DEF At, IsSource
<1>3. /\ o.print = print /\ o.source = dir["db"].version /\ o.target = 2 /\ o.last = 0
      /\ o \in RealOrigins
  <2>1. 0 \in 0 .. MaxMail
    BY Constants
  <2> QED BY <1>2, <2>1 DEF Origin, RealOrigins, SchemaVersion
<1> HIDE DEF o
<1>4. o # NoOrigin /\ o \in Origins
  BY <1>3, OriginsAre
<1>5. /\ c.layout = "current" /\ c.version = 0 /\ c.mail = {} /\ c.origin = o /\ c \in Files
  <2>1. c = [layout |-> "current", version |-> 0, mail |-> {}, origin |-> o]
    BY <1>3, Layouts DEF Unfinished, File
  <2> QED BY <1>4, <2>1 DEF Files, SchemaVersion
<1> HIDE DEF c
<1>6. HasTables(c) /\ CopyFits(c)
  <2>1. {m \in o.print : m <= o.last} = {}
    BY <1>3, Constants DEF Ids
  <2> QED BY <1>3, <1>4, <1>5, <2>1, Layouts DEF HasTables, CopyFits
<1>7. IsResumable(c, dir["db"].version, dir["db"].mail)
  BY <1>1, <1>3, <1>4, <1>5 DEF IsResumable, IsMadeFrom, SchemaVersion
<1>8. Waiting(dir', pending') /\ pending' \in Seq(Ops)
  BY <1>1 DEF Waiting
<1>9. c.version # 1
  BY <1>5
<1> QED BY <1>1, <1>5, <1>6, <1>7, <1>8, <1>9, BuildStep DEF Copying

\* A batch of the copy takes the next messages of the source, which stays still.
LEMMA CopyBatchStep ==
    ASSUME MInv, power, UNCHANGED power, NEW p \in Procs, CopyBatch(p)
    PROVE  MInv'
<1> USE Parts
<1> DEFINE c == dir["migrating"]
           mail == dir["db"].mail
<1>1. /\ pc[p] = "copy" /\ pc[p] \in Building \ {"plan"} /\ "copy" \in Building
      /\ UNCHANGED <<stale, pending, pc, lock, print, handle, mailVars>>
      /\ print' = dir["db"].mail
  BY SourceIsPrinted DEF CopyBatch, Building
<1>2. PICK last \in {m \in mail : m > c.origin.last} :
        dir' = [dir EXCEPT !["migrating"].mail = @ \cup {m \in mail : m > c.origin.last /\ m <= last},
                           !["migrating"].origin.last = last]
  <2>1. PICK last \in Left :
          dir' = [dir EXCEPT !["migrating"].mail = @ \cup {m \in Left : m <= last},
                             !["migrating"].origin.last = last]
    BY DEF CopyBatch
  <2>2. Left = {m \in mail : m > c.origin.last}
    BY DEF Left, Source, Copy
  <2>3. {m \in Left : m <= last} = {m \in mail : m > c.origin.last /\ m <= last}
    BY <2>2
  <2> HIDE DEF mail, c
  <2> QED BY <2>1, <2>2, <2>3
<1>3. /\ IsResumable(c, dir["db"].version, mail) /\ c.version = 0 /\ pending = << >>
  BY <1>1 DEF At, Copying
<1>4. /\ HasTables(c) /\ c.origin \in RealOrigins
      /\ c.origin.print = mail /\ c.origin.target = 2
      /\ c.origin.source = dir["db"].version /\ c.layout = Layout(2)
      /\ c.mail = {m \in mail : m <= c.origin.last}
  BY <1>3, ResumableCopy
<1>5. mail \subseteq Ids /\ c \in Files /\ c.origin.last \in 0 .. MaxMail
  BY <1>4 DEF Files, RealOrigins
<1> DEFINE new == c.mail \cup {m \in mail : m > c.origin.last /\ m <= last}
           o == [c.origin EXCEPT !.last = last]
           c2 == [c EXCEPT !.mail = new, !.origin = o]
<1>6. last \in Ids /\ last > c.origin.last /\ last \in 0 .. MaxMail
  BY <1>2, <1>5, Constants DEF Ids
<1>7. new = {m \in mail : m <= last} /\ new \in SUBSET Ids
  <2>1. \A m \in mail : m \in Int
    BY <1>5, Constants DEF Ids
  <2>2. c.origin.last \in Int /\ last \in Int
    BY <1>5, <1>6, Constants
  <2> DEFINE l == c.origin.last
  <2>3. c.mail = {m \in mail : m <= l} /\ l < last /\ new = c.mail \cup {m \in mail : m > l /\ m <= last}
    BY <1>4, <1>5, <1>6, <2>2
  <2>4. l \in Int
    BY <2>2
  <2> HIDE DEF c, mail, new, l
  <2> HIDE Parts
  <2>5. \A m \in mail : (m <= l \/ (m > l /\ m <= last)) <=> m <= last
    BY <2>1, <2>2, <2>3, <2>4
  <2>6. new = {m \in mail : m <= last}
    BY <2>3, <2>5
  <2> QED BY <1>5, <2>6
<1>8. /\ o \in RealOrigins /\ o.print = mail /\ o.source = dir["db"].version
      /\ o.target = 2 /\ o.last = last
  <2> HIDE DEF c, mail
  <2> QED BY <1>4, <1>6 DEF RealOrigins
<1>9. o # NoOrigin /\ o \in Origins
  BY <1>8, OriginsAre
<1>10. dir' = [dir EXCEPT !["migrating"] = c2]
  BY <1>2, <1>5, NamesAre DEF Files, Dirs
<1> HIDE DEF new, o
<1>11. /\ c2 \in Files /\ c2.mail = new /\ c2.origin = o /\ c2.version = 0 /\ c2.layout = Layout(2)
  <2> HIDE DEF c, mail
  <2> QED BY <1>3, <1>4, <1>5, <1>7, <1>9 DEF Files
<1> HIDE DEF c2
<1>12. HasTables(c2) /\ CopyFits(c2) /\ c2.version # 1
  BY <1>7, <1>8, <1>9, <1>11, Layouts DEF HasTables, CopyFits
<1>13. IsResumable(c2, dir["db"].version, mail)
  BY <1>8, <1>9, <1>11 DEF IsResumable, IsMadeFrom, SchemaVersion
<1>14. Goto(p, "copy") /\ pending' = << >> /\ pending' \in Seq(Ops)
  BY <1>1, <1>3 DEF Goto
<1>15. Waiting(dir', pending')
  BY <1>14 DEF Waiting
<1> HIDE DEF c
<1> QED BY <1>1, <1>10, <1>11, <1>12, <1>13, <1>14, <1>15, BuildStep DEF Copying

\* The verified copy becomes a finished one: it holds what the source holds.
LEMMA FinalizeStep ==
    ASSUME MInv, power, UNCHANGED power, NEW p \in Procs, Finalize(p)
    PROVE  MInv'
<1> USE Parts
<1> DEFINE c == dir["migrating"]
           mail == dir["db"].mail
           c2 == [c EXCEPT !.version = SchemaVersion]
<1>1. /\ pc[p] = "verify" /\ pc[p] \in Building \ {"plan"} /\ "release" \in Building
      /\ dir' = [dir EXCEPT !["migrating"].version = SchemaVersion]
      /\ Goto(p, "release")
      /\ UNCHANGED <<stale, pending, lock, print, handle, mailVars>>
      /\ print' = dir["db"].mail
  BY SourceIsPrinted DEF Finalize, Building
<1>2. /\ IsResumable(c, dir["db"].version, mail) /\ c.version = 0 /\ pending = << >>
      /\ \A m \in mail : ~(m > c.origin.last)
  BY <1>1 DEF At, Copying
<1>3. /\ HasTables(c) /\ c.origin \in RealOrigins
      /\ c.origin.print = mail /\ c.origin.target = 2
      /\ c.origin.source = dir["db"].version /\ c.layout = Layout(2)
      /\ c.mail = {m \in mail : m <= c.origin.last}
  BY <1>2, ResumableCopy
<1>4. c.mail = mail
  <2>1. mail \subseteq Ids /\ c.origin.last \in 0 .. MaxMail
    BY <1>3 DEF Files, RealOrigins
  <2>2. \A m \in mail : m \in Int /\ c.origin.last \in Int
    BY <2>1, Constants DEF Ids
  <2> HIDE DEF mail, c
  <2> QED BY <1>2, <1>3, <2>2
<1>5. dir' = [dir EXCEPT !["migrating"] = c2]
  BY <1>1
<1>6. /\ c2 \in Files /\ c2.mail = mail /\ c2.origin = c.origin /\ c2.version = 2
      /\ c2.layout = Layout(2)
  <2>1. c \in Files
    OBVIOUS
  <2> HIDE DEF c, mail
  <2> QED BY <1>3, <1>4, <2>1 DEF Files, SchemaVersion
<1>7. c.origin # NoOrigin
  BY <1>3, OriginsAre
<1> HIDE DEF c2
<1>8. HasTables(c2) /\ CopyFits(c2) /\ c2.version # 1 /\ IsComplete(c2)
  BY <1>3, <1>6, <1>7, Layouts DEF HasTables, CopyFits, IsComplete, SchemaVersion
<1>9. IsResumable(c2, dir["db"].version, mail)
  BY <1>3, <1>6, <1>7 DEF IsResumable, IsMadeFrom, SchemaVersion
<1>10. pending' = << >> /\ pending' \in Seq(Ops) /\ Waiting(dir', pending')
  BY <1>1, <1>2 DEF Waiting
<1> HIDE DEF c
<1> HIDE Parts
<1> QED BY <1>1, <1>5, <1>6, <1>8, <1>9, <1>10, BuildStep DEF Copying

-----------------------------------------------------------------------------
(* The renames of a swap and of a restore *)

\* What rename(2) leaves when nobody has a database open.
LEMMA RenameIs ==
    ASSUME MInv, NEW from \in Names, NEW to \in Names, from # to, Rename(from, to),
           \A q \in Users : handle[q] = "none"
    PROVE  /\ handle' = handle /\ dir' \in Dirs
           /\ dir'[to] = dir[from] /\ dir'[from] = Absent
           /\ \A n \in Names \ {from, to} : dir'[n] = dir[n]
           /\ pending' = Changes(from, to)
<1> USE Parts
<1>1. /\ dir' = [dir EXCEPT ![to] = dir[from], ![from] = Absent]
      /\ handle' = [q \in Users |-> CASE handle[q] = to -> "unlinked"
                                      [] handle[q] = from -> to
                                      [] OTHER -> handle[q]]
      /\ pending' = Changes(from, to)
  BY DEF Rename
<1>2. handle' = handle
  <2> DEFINE moved(q) == CASE handle[q] = to -> "unlinked"
                           [] handle[q] = from -> to
                           [] OTHER -> handle[q]
  <2>1. ASSUME NEW q \in Users PROVE moved(q) = handle[q]
    BY NamesAre
  <2> HIDE DEF moved
  <2>2. handle' = [q \in Users |-> moved(q)]
    BY <1>1 DEF moved
  <2> QED BY <2>1, <2>2
<1>3. /\ dir' \in Dirs /\ dir'[to] = dir[from] /\ dir'[from] = Absent
      /\ \A n \in Names \ {from, to} : dir'[n] = dir[n]
  <2>1. Absent \in Files /\ dir[from] \in Files /\ dir \in [Names -> Files]
    BY FilesAre DEF Dirs
  <2> HIDE Parts
  <2> QED BY <1>1, <2>1 DEF Dirs
<1> QED BY <1>1, <1>2, <1>3

\* A rename by a run: it is to be undone as long as it is not synced.
LEMMA RenameStep ==
    ASSUME MInv, power, UNCHANGED power, NEW p \in Procs, pc[p] \in Running,
           NEW from \in Names, NEW to \in Names, from # to, Rename(from, to),
           \A q \in Users : handle[q] = "none",
           NEW place \in Running, Goto(p, place), UNCHANGED <<stale, lock, print, mailVars>>,
           Good(dir', live, forked),
           At(place, dir', pending', print', lock', handle'),
           HasTables(dir'["migrating"]) => Exists(dir', Backup(dir'["migrating"].origin.source)),
           dir'["db"] # EmptyFile
    PROVE  MInv'
<1>1. /\ handle' = handle /\ dir' \in Dirs
      /\ dir'[to] = dir[from] /\ \A n \in Names \ {from, to} : dir'[n] = dir[n]
      /\ pending' = Changes(from, to)
  BY RenameIs
<1>2. GoodHistory(dir', pending', live, forked) /\ pending' \in Seq(Ops)
  BY <1>1, Changed
<1>3. Waiting(dir', pending')
  BY DEF Waiting
<1>4. lock = p /\ stale' \subseteq Names /\ print' \subseteq Ids
  BY Parts
<1>5. \A q \in Users : handle[q] # "db"
  OBVIOUS
<1> QED BY <1>1, <1>2, <1>3, <1>4, <1>5, RunStep

\* No database, nobody has it open.
LEMMA NobodyHasIt ==
    ASSUME MInv, ~Exists(dir, "db")
    PROVE  \A q \in Users : handle[q] = "none"
BY DEF MInv, Opens

\* The first rename: the old database becomes the backup of its version.
LEMMA RenameDbStep ==
    ASSUME MInv, power, UNCHANGED power, NEW p \in Procs, RenameDb(p)
    PROVE  MInv'
<1> DEFINE c == dir["migrating"]
           b == Backup(c.origin.source)
<1>1. /\ pc[p] = "rename_db" /\ pc[p] \in Running /\ "rename_copy" \in Running
      /\ Rename("db", b) /\ Goto(p, "rename_copy")
      /\ UNCHANGED <<stale, lock, print, mailVars>>
  BY DEF RenameDb, Copy, Running, Renaming
<1>2. At("rename_db", dir, pending, print, lock, handle)
  BY <1>1, Parts
<1>3. /\ IsSource(dir) /\ IsResumable(c, dir["db"].version, dir["db"].mail) /\ IsComplete(c)
      /\ \A q \in Users : handle[q] = "none"
  BY <1>2 DEF At, Placing
<1>4. b \in Names /\ b # "db" /\ b # "migrating" /\ "db" \in Names /\ "migrating" \in Names
  BY NamesAre
<1>5. c.version # 1
  BY <1>3, ResumableCopy
<1>6. /\ dir' \in Dirs /\ dir'["db"] = Absent /\ dir'[b] = dir["db"]
      /\ \A n \in Names \ {"db", b} : dir'[n] = dir[n]
  BY <1>1, <1>3, <1>4, RenameIs
<1>7. /\ Good(dir', live, forked) /\ CanFinishSwap(dir')
      /\ ~Exists(dir', "db") /\ IsComplete(dir'["migrating"])
  BY <1>3, <1>5, <1>6, Parts, SourceIsKept
<1>8. At("rename_copy", dir', pending', print', lock', handle')
  BY <1>7 DEF At, Building, Copying, Placing
<1>9. Exists(dir', Backup(dir'["migrating"].origin.source))
  BY <1>7 DEF CanFinishSwap
<1>10. dir'["db"] # EmptyFile
  BY <1>6, FilesAre
<1> QED BY <1>1, <1>3, <1>4, <1>7, <1>8, <1>9, <1>10, RenameStep

\* The copy is moved into place, whether this run made it or an earlier one.
LEMMA PlaceCopyStep ==
    ASSUME MInv, power, UNCHANGED power, NEW p \in Procs, RenameCopy(p) \/ FinishRename(p)
    PROVE  MInv' /\ dir[Backup(Copy.origin.source)].mail \subseteq dir'["db"].mail
<1> DEFINE c == dir["migrating"]
<1>1. PICK place \in {"sync", "finish_sync"} :
        /\ pc[p] \in {"rename_copy", "finish_rename"} /\ pc[p] \in Running /\ place \in Running
        /\ Rename("migrating", "db") /\ Goto(p, place)
        /\ UNCHANGED <<stale, lock, print, mailVars>>
  <2>1. CASE RenameCopy(p)
    BY <2>1 DEF RenameCopy, Running, Renaming
  <2>2. CASE FinishRename(p)
    BY <2>2 DEF FinishRename, Running, Renaming
  <2> QED BY <2>1, <2>2
<1>2. At(pc[p], dir, pending, print, lock, handle)
  BY Parts
<1>3. ~Exists(dir, "db") /\ CanFinishSwap(dir) /\ IsComplete(c)
  BY <1>1, <1>2 DEF At, Placing
<1>4. \A q \in Users : handle[q] = "none"
  BY <1>3, NobodyHasIt
<1>5. "db" \in Names /\ "migrating" \in Names
  BY NamesAre
<1>6. /\ dir' \in Dirs /\ dir'["db"] = c /\ dir'["migrating"] = Absent
      /\ \A n \in Names \ {"db", "migrating"} : dir'[n] = dir[n]
  BY <1>1, <1>4, <1>5, RenameIs
<1>7. /\ Good(dir', live, forked) /\ dir'["db"] # EmptyFile
      /\ dir[Backup(c.origin.source)].mail \subseteq dir'["db"].mail
  BY <1>3, <1>6, Parts, CopyIsPlaced
<1>8. ~HasTables(dir'["migrating"]) /\ ~Exists(dir', "migrating")
  BY <1>6, FilesAre DEF HasTables, Exists
<1>9. Exists(dir', "db")
  <2>1. c.version # 0
    BY <1>3 DEF IsComplete, SchemaVersion
  <2> QED BY <1>6, <2>1, FilesAre DEF Exists
<1>10. At(place, dir', pending', print', lock', handle')
  BY <1>8, <1>9 DEF At, Building, Copying, Placing
<1>11. MInv'
  BY <1>1, <1>4, <1>5, <1>7, <1>8, <1>10, RenameStep
<1> QED BY <1>7, <1>11 DEF Copy

\* A restore's first rename: the current database is kept under a new name.
LEMMA KeepDbStep ==
    ASSUME MInv, power, UNCHANGED power, NEW p \in Procs, KeepDb(p)
    PROVE  MInv'
<1>1. /\ pc[p] = "keep_db" /\ pc[p] \in Running /\ "restore_backup" \in Running
      /\ Goto(p, "restore_backup") /\ UNCHANGED <<stale, lock, print, mailVars>>
  BY DEF KeepDb, Running, Renaming
<1>2. PICK i \in 1 .. MaxKept : (\A j \in Kept(dir) : j < i) /\ Rename("db", KeptNames[i])
  BY DEF KeepDb
<1>3. At("keep_db", dir, pending, print, lock, handle)
  BY <1>1, Parts
<1>4. RestoreDecision(dir) = "restore" /\ \A q \in Users : handle[q] = "none"
  BY <1>3 DEF At
<1>5. /\ KeptNames[i] \in Names /\ KeptNames[i] # "db" /\ "db" \in Names
      /\ KeptNames[i] # "migrating" /\ "migrating" \in Names
  BY NamesAre
<1>6. /\ dir' \in Dirs /\ dir'["db"] = Absent /\ dir'[KeptNames[i]] = dir["db"]
      /\ \A n \in Names \ {"db", KeptNames[i]} : dir'[n] = dir[n]
  BY <1>2, <1>4, <1>5, RenameIs
<1>7. Good(dir', live, forked) /\ RestoreDecision(dir') = "finish"
  BY <1>2, <1>4, <1>6, Parts, DatabaseIsKept
<1>8. At("restore_backup", dir', pending', print', lock', handle')
  BY <1>7 DEF At, Building, Copying, Placing
<1>9. ~HasTables(dir'["migrating"])
  <2>1. ~Exists(dir', "migrating")
    BY <1>6, <1>7, RestoreDecides DEF Good
  <2> QED BY <2>1, FilesAre DEF HasTables, Exists
<1>10. dir'["db"] # EmptyFile
  BY <1>6, FilesAre
<1> QED BY <1>1, <1>2, <1>4, <1>5, <1>7, <1>8, <1>9, <1>10, RenameStep

\* A restore's second rename: the backup becomes the database again.
LEMMA RestoreBackupStep ==
    ASSUME MInv, power, UNCHANGED power, NEW p \in Procs, RestoreBackup(p)
    PROVE  MInv'
<1> DEFINE b == Backup(dir[Newest(dir)].origin.source)
<1>1. /\ pc[p] = "restore_backup" /\ pc[p] \in Running /\ "restore_sync" \in Running
      /\ Rename(b, "db") /\ Goto(p, "restore_sync") /\ UNCHANGED <<stale, lock, print, mailVars>>
  BY DEF RestoreBackup, Running, Renaming
<1>2. At("restore_backup", dir, pending, print, lock, handle)
  BY <1>1, Parts
<1>3. RestoreDecision(dir) = "finish"
  BY <1>2 DEF At
<1>4. ~Exists(dir, "db") /\ ~Exists(dir, "migrating")
  BY <1>3, Parts, RestoreDecides
<1>5. \A q \in Users : handle[q] = "none"
  BY <1>4, NobodyHasIt
<1>6. b \in Names /\ b # "db" /\ b # "migrating" /\ "db" \in Names /\ "migrating" \in Names
  BY NamesAre
<1>7. /\ dir' \in Dirs /\ dir'["db"] = dir[b] /\ dir'[b] = Absent
      /\ \A n \in Names \ {"db", b} : dir'[n] = dir[n]
  BY <1>1, <1>5, <1>6, RenameIs
<1>8. Good(dir', live, forked) /\ dir'["db"] # EmptyFile
  BY <1>3, <1>7, Parts, BackupIsPlaced
<1>9. ~HasTables(dir'["migrating"])
  BY <1>4, <1>6, <1>7, FilesAre DEF HasTables, Exists
<1>10. At("restore_sync", dir', pending', print', lock', handle')
  BY AtAnywhere DEF Anywhere
<1> QED BY <1>1, <1>5, <1>6, <1>8, <1>9, <1>10, RenameStep

-----------------------------------------------------------------------------
(* Steps outside a run, beside one that may be going on *)

\* The parts of the invariant that the files and the outages make up.
LEMMA Together ==
    ASSUME TypeOK', Opens', Places', power', Waiting(dir', pending'),
           GoodHistory(dir', pending', live', forked')
    PROVE  MInv'
BY DEF MInv, Unsynced

\* What a place asks of the open handles.
LEMMA AtFiles ==
    ASSUME NEW place, NEW d, NEW ops, NEW seen, NEW owner, NEW files, NEW files2,
           At(place, d, ops, seen, owner, files),
           place \in {"rename_db", "keep_db"} => \A q \in Users : files2[q] = "none"
    PROVE  At(place, d, ops, seen, owner, files2)
BY DEF At

\* A database begins where there was none with tables: nobody relied on that,
\* except between a check and its renames.
LEMMA AtBegun ==
    ASSUME NEW place \in PCs, NEW d \in Dirs, NEW ops, NEW seen, NEW owner, NEW files,
           At(place, d, ops, seen, owner, files), WellFormed(d), ~HasTables(d["db"]),
           Exists(d, "db") \/ place \notin Renaming,
           NEW d2 \in Dirs, \A n \in Names \ {"db"} : d2[n] = d[n], Exists(d2, "db"),
           NEW ops2, NEW files2
    PROVE  At(place, d2, ops2, seen, owner, files2)
<1>1. State(d["db"]) # "older" /\ State(d["db"]) # "current"
  BY FileAt, NamesAre
<1>2. place \notin Building \cup {"lock_source", "swap", "rename_db"}
  BY <1>1 DEF At, IsSource
<1>3. place \notin {"checkpoint", "keep_db"}
  BY <1>1, RestoreDecides DEF At
<1>4. place \notin {"rename_copy", "finish", "finish_rename", "restore_backup"}
  BY RestoreDecides DEF At, Renaming
<1>5. CASE place \in {"sync", "ready"}
  <2>1. d2["migrating"] = d["migrating"]
    BY NamesAre
  <2>2. ~Exists(d2, "migrating") /\ (place = "ready" => owner = Nobody)
    BY <1>5, <2>1 DEF At, Exists
  <2> QED BY <1>5, <2>2 DEF At, Building, Copying, Placing
<1>6. CASE place \notin {"sync", "ready"}
  <2>1. place \in Anywhere
    BY <1>2, <1>3, <1>4, <1>6 DEF PCs, Running, Building, Renaming, Anywhere
  <2> QED BY <2>1, AtAnywhere
<1> QED BY <1>5, <1>6

\* Mail comes or goes: no place relies on the content of the database but those
\* where it is locked, and those where nobody has it open.
LEMMA AtWritten ==
    ASSUME NEW place \in PCs, NEW d \in Dirs, NEW ops, NEW seen, NEW owner, NEW files,
           At(place, d, ops, seen, owner, files), WellFormed(d), HasTables(d["db"]),
           NEW q \in Users, files[q] # "none",
           State(d["db"]) = "current" \/ place \notin Building \cup Renaming,
           NEW d2 \in Dirs, \A n \in Names \ {"db"} : d2[n] = d[n], Exists(d2, "db"),
           IsSource(d) => IsSource(d2),
           RestoreDecision(d) = "restore" => RestoreDecision(d2) = "restore", NEW ops2
    PROVE  At(place, d2, ops2, seen, owner, files)
<1>1. Exists(d, "db")
  BY FileAt, NamesAre
<1>2. place \notin Building \cup {"swap", "rename_db"}
  BY DEF At, IsSource, Renaming
<1>3. place \notin {"rename_copy", "finish", "finish_rename", "restore_backup", "keep_db"}
  BY <1>1, RestoreDecides DEF At
<1>4. CASE place \in {"sync", "ready"}
  <2>1. d2["migrating"] = d["migrating"]
    BY NamesAre
  <2>2. ~Exists(d2, "migrating") /\ (place = "ready" => owner = Nobody)
    BY <1>4, <2>1 DEF At, Exists
  <2> QED BY <1>4, <2>2 DEF At, Building, Copying, Placing
<1>5. CASE place \in {"lock_source", "checkpoint"}
  <2>1. /\ place = "lock_source" => IsSource(d2)
        /\ place = "checkpoint" => RestoreDecision(d2) = "restore"
    BY DEF At
  <2> QED BY <1>5, <2>1 DEF At, Building, Copying, Placing
<1>6. CASE place \notin {"sync", "ready", "lock_source", "checkpoint"}
  <2>1. place \in Anywhere
    BY <1>2, <1>3, <1>6 DEF PCs, Running, Building, Renaming, Anywhere
  <2> QED BY <2>1, AtAnywhere
<1> QED BY <1>4, <1>5, <1>6

\* With no run in progress, and none about to open its file, nobody relies on
\* anything.
LEMMA NobodyRelies ==
    ASSUME MInv, NEW q \in Procs, lock # q, lock # Nobody \/ pc[q] # "ready"
    PROVE  pc[q] \in Anywhere /\ pc[q] \notin Running
<1>1. pc[q] \notin Running /\ pc[q] \in PCs
  BY Parts
<1>2. pc[q] # "ready"
  BY Parts DEF At
<1> QED BY <1>1, <1>2, PlacesAre

\* A process begins when nobody holds the lock and nobody is about to serve.
LEMMA BeginStep ==
    ASSUME MInv, power, UNCHANGED power, ~StartRaces, NEW p \in Procs,
           NEW command \in {"inspect", "restore"}, Begin(p, command)
    PROVE  MInv'
<1>1. /\ pc[p] = "idle" /\ lock = Nobody /\ (\A q \in Procs : pc[q] # "ready")
      /\ Goto(p, command) /\ lock' = p
      /\ UNCHANGED <<dir, stale, pending, print, handle, mailVars>>
  BY DEF Begin
<1>2. Nobody \notin Procs
  BY Constants
<1>3. \A q \in Procs : pc[q] \in Anywhere /\ pc[q] \notin Running
  BY <1>1, <1>2, NobodyRelies
<1>4. command \in Running /\ command \in PCs /\ command \in Anywhere
  BY DEF Running, PCs, Anywhere
<1>5. /\ pc' \in [Procs -> PCs] /\ pc'[p] = command
      /\ \A q \in Procs \ {p} : pc'[q] = pc[q]
  BY <1>1, <1>4, Parts DEF Goto
<1>6. TypeOK'
  <2>1. \A q \in Procs : pc'[q] \in Running <=> lock' = q
    BY <1>1, <1>3, <1>4, <1>5
  <2> QED BY <1>1, <1>5, <2>1 DEF MInv, TypeOK, mailVars
<1>7. Opens'
  <2>1. \A q \in Procs : pc'[q] \in {"init", "serving"} <=> pc[q] \in {"init", "serving"}
    BY <1>1, <1>5
  <2>2. \A q \in Procs : pc'[q] = "serving" => pc[q] = "serving"
    BY <1>1, <1>5
  <2> QED BY <1>1, <2>1, <2>2 DEF MInv, Opens
<1>8. Places'
  <2> SUFFICES ASSUME NEW q \in Procs
               PROVE  At(pc'[q], dir', pending', print', lock', handle')
    BY DEF Places
  <2>1. pc'[q] \in Anywhere
    BY <1>3, <1>4, <1>5
  <2> QED BY <2>1, AtAnywhere
<1>9. Waiting(dir', pending') /\ GoodHistory(dir', pending', live', forked')
  BY <1>1 DEF MInv, Unsynced, mailVars
<1> QED BY <1>6, <1>7, <1>8, <1>9, Together

\* A process goes, killed or not: what it held is free.
LEMMA GoneStep ==
    ASSUME MInv, power, UNCHANGED power, NEW p \in Procs, Goto(p, "idle"),
           handle' = [handle EXCEPT ![p] = "none"],
           lock' = IF lock = p THEN Nobody ELSE lock,
           print' = IF lock = p THEN {} ELSE print,
           stale' \subseteq Names, UNCHANGED <<dir, pending, mailVars>>
    PROVE  MInv'
<1> USE Parts, Constants
<1>1. /\ pc' \in [Procs -> PCs] /\ pc'[p] = "idle"
      /\ \A q \in Procs \ {p} : pc'[q] = pc[q]
      /\ "idle" \notin Running /\ "idle" \in Anywhere
  BY PlacesAre DEF Goto, PCs
<1>2. /\ handle' \in [Users -> Names \cup {"none", "unlinked"}] /\ handle'[p] = "none"
      /\ \A q \in Users \ {p} : handle'[q] = handle[q]
  OBVIOUS
<1>3. p # "older" /\ p \in Users
  OBVIOUS
<1>4. TypeOK'
  <2>1. lock' \in Procs \cup {Nobody} /\ print' \subseteq Ids
    BY DEF MInv, TypeOK
  <2>2. \A q \in Procs : pc'[q] \in Running <=> lock' = q
    BY <1>1
  <2> QED BY <1>1, <1>2, <2>1, <2>2 DEF MInv, TypeOK, mailVars
<1>5. Opens'
  <2>1. Opens /\ dir' = dir
    BY DEF MInv
  <2> QED BY <1>1, <1>2, <1>3, <2>1 DEF Opens
<1>6. Places'
  <2> SUFFICES ASSUME NEW q \in Procs
               PROVE  At(pc'[q], dir', pending', print', lock', handle')
    BY DEF Places
  <2>1. CASE q = p
    BY <1>1, <2>1, AtAnywhere
  <2>2. CASE q # p /\ lock = p
    BY <1>1, <2>2, NobodyRelies, AtAnywhere
  <2>3. CASE q # p /\ lock # p
    <3>1. At(pc'[q], dir', pending', print', lock', handle)
      BY <1>1, <2>3
    <3>2. pc'[q] \in {"rename_db", "keep_db"} => \A x \in Users : handle'[x] = "none"
      BY <1>2, <3>1 DEF At
    <3> QED BY <3>1, <3>2, AtFiles
  <2> QED BY <2>1, <2>2, <2>3
<1>7. Waiting(dir', pending') /\ GoodHistory(dir', pending', live', forked')
  BY DEF MInv, Unsynced, mailVars
<1> QED BY <1>4, <1>5, <1>6, <1>7, Together

\* A stop before or after the file was opened, or a kill anywhere.
LEMMA LeavingStep ==
    ASSUME MInv, power, UNCHANGED power, NEW p \in Procs, Leave(p) \/ Shutdown(p) \/ Crash(p)
    PROVE  MInv'
<1> USE Parts
<1>1. CASE Leave(p) \/ Shutdown(p)
  <2>1. /\ pc[p] \in {"ready", "serving"} /\ Goto(p, "idle")
        /\ UNCHANGED <<dir, stale, pending, lock, print, mailVars>>
    BY <1>1 DEF Leave, Shutdown
  <2>2. lock # p
    BY <2>1 DEF Running, Building, Renaming
  <2>3. handle' = [handle EXCEPT ![p] = "none"]
    <3>1. CASE Leave(p)
      <4>1. pc[p] = "ready" /\ handle' = handle
        BY <3>1 DEF Leave
      <4>2. handle[p] = "none"
        BY <4>1 DEF MInv, Opens
      <4> QED BY <4>1, <4>2
    <3>2. CASE Shutdown(p)
      BY <3>2 DEF Shutdown
    <3> QED BY <1>1, <3>1, <3>2
  <2> QED BY <2>1, <2>2, <2>3, GoneStep
<1>2. CASE Crash(p)
  <2>1. LeftBy({p}) \subseteq Names
    BY NamesAre DEF LeftBy
  <2> QED BY <1>2, <2>1, GoneStep DEF Crash
<1> QED BY <1>1, <1>2

\* connect_writer: the file is there, or nothing of a database is.
LEMMA ConnectStep ==
    ASSUME MInv, power, UNCHANGED power, NEW p \in Procs, Connect(p)
    PROVE  MInv'
<1> USE Parts
<1>1. /\ pc[p] = "ready" /\ handle' = [handle EXCEPT ![p] = "db"] /\ Goto(p, "init")
      /\ stale' \subseteq Names /\ UNCHANGED <<lock, print, mailVars>>
  BY DEF Connect
<1>2. /\ lock = Nobody /\ ~Exists(dir, "migrating") /\ (~Exists(dir, "db") => ~AnyBackup(dir))
  BY <1>1 DEF At
<1>3. \A q \in Procs : pc[q] \notin Running
  BY <1>2, Constants
<1>4. /\ pc' \in [Procs -> PCs] /\ pc'[p] = "init" /\ \A q \in Procs \ {p} : pc'[q] = pc[q]
      /\ "init" \notin Running /\ "init" \in Anywhere
  BY <1>1, PlacesAre DEF Goto, PCs
<1>5. /\ handle' \in [Users -> Names \cup {"none", "unlinked"}] /\ handle'[p] = "db"
      /\ \A q \in Users \ {p} : handle'[q] = handle[q]
  BY <1>1, NamesAre
<1>6. /\ dir' \in Dirs /\ \A n \in Names \ {"db"} : dir'[n] = dir[n]
      /\ Exists(dir, "db") => dir' = dir
      /\ ~Exists(dir, "db") => dir'["db"] = EmptyFile
      /\ Exists(dir', "db")
  BY NamesAre, FilesAre DEF Connect, Dirs, Exists
<1>7. /\ GoodHistory(dir', pending', live', forked') /\ pending' \in Seq(Ops)
      /\ Waiting(dir', pending')
  <2>1. live' = live /\ forked' = forked
    BY <1>1 DEF mailVars
  <2>2. CASE Exists(dir, "db")
    <3>1. dir' = dir /\ pending' = pending
      BY <2>2 DEF Connect
    <3> QED BY <2>1, <3>1 DEF MInv, Unsynced
  <2>3. CASE ~Exists(dir, "db")
    <3>1. pending' = Changes("none", "db")
      BY <2>3 DEF Connect
    <3>2. Good(dir', live, forked)
      BY <1>2, <1>6, <2>3, DatabaseIsCreated
    <3>3. /\ "db" \in Names /\ "none" \notin Names
          /\ \A n \in Names \ {"none", "db"} : dir'[n] = dir[n]
      BY <1>6, NamesAre
    <3> HIDE Parts
    <3>4. /\ GoodHistory(dir', pending', live, forked) /\ pending' \in Seq(Ops)
          /\ pending'[Len(pending')].from = "none" /\ pending'[Len(pending')].to = "db"
      BY <1>6, <3>1, <3>2, <3>3, Changed
    <3>5. dir'["migrating"] = Absent
      BY <1>2, <1>6, NamesAre DEF Exists
    <3>6. Waiting(dir', pending')
      BY <3>4, <3>5, FilesAre DEF Waiting, HasTables
    <3> QED BY <2>1, <3>4, <3>6
  <2> QED BY <2>2, <2>3
<1>8. TypeOK'
  <2>1. \A q \in Procs : pc'[q] \in Running <=> lock' = q
    BY <1>1, <1>2, <1>3, <1>4, Constants
  <2>2. dir' \in [Names -> Files] /\ pending' \in Seq(Ops)
    BY <1>6, <1>7 DEF Dirs
  <2> QED BY <1>1, <1>4, <1>5, <2>1, <2>2 DEF MInv, TypeOK, mailVars, Ops
<1>9. Opens'
  <2>1. Opens
    BY DEF MInv
  <2>2. \A q \in Users : handle[q] = "db" => dir' = dir
    BY <1>6, <2>1 DEF Opens
  <2>3. "older" # p
    BY Constants
  <2>4. \A q \in Procs : pc[q] = "serving" => handle[q] = "db"
    BY <2>1 DEF Opens
  <2> QED BY <1>4, <1>5, <1>6, <2>1, <2>2, <2>3, <2>4 DEF Opens
<1>10. Places'
  <2> SUFFICES ASSUME NEW q \in Procs
               PROVE  At(pc'[q], dir', pending', print', lock', handle')
    BY DEF Places
  <2>1. CASE q = p \/ pc[q] # "ready"
    <3>1. pc'[q] \in Anywhere
      BY <1>3, <1>4, <2>1, PlacesAre
    <3> QED BY <3>1, AtAnywhere
  <2>2. CASE q # p /\ pc[q] = "ready"
    <3>1. ~Exists(dir', "migrating")
      BY <1>2, <1>6, NamesAre DEF Exists
    <3>2. pc'[q] = "ready" /\ lock' = Nobody
      BY <1>1, <1>2, <1>4, <2>2
    <3> QED BY <1>6, <3>1, <3>2 DEF At, Building, Copying, Placing
  <2> QED BY <2>1, <2>2
<1>11. power'
  OBVIOUS
<1> QED BY <1>7, <1>8, <1>9, <1>10, <1>11, Together

\* initialize makes the tables of a new database, finds them made, or gives up.
LEMMA InitializeStep ==
    ASSUME MInv, power, UNCHANGED power, NEW p \in Procs, Initialize(p)
    PROVE  MInv'
<1> USE Parts
<1>1. /\ pc[p] = "init" /\ handle[p] = "db" /\ Exists(dir, "db") /\ Opened(p) = dir["db"]
      /\ UNCHANGED <<stale, pending, lock, print, mailVars>>
  <2>1. pc[p] = "init"
    BY DEF Initialize
  <2>2. handle[p] = "db" /\ Exists(dir, "db")
    BY <2>1 DEF MInv, Opens
  <2> QED BY <2>1, <2>2, NamesAre DEF Initialize, Opened
<1>2. lock # p /\ "serving" \notin Running /\ "serving" \in Anywhere /\ "serving" \in PCs
  BY <1>1, PlacesAre DEF PCs
<1>3. ASSUME Goto(p, "serving")
      PROVE  /\ pc' \in [Procs -> PCs] /\ pc'[p] = "serving"
             /\ \A q \in Procs \ {p} : pc'[q] = pc[q]
             /\ \A q \in Procs : pc'[q] \in Running <=> lock' = q
  <2>1. /\ pc' \in [Procs -> PCs] /\ pc'[p] = "serving"
        /\ \A q \in Procs \ {p} : pc'[q] = pc[q]
    BY <1>2, <1>3 DEF Goto
  <2> QED BY <1>1, <1>2, <2>1
<1>4. CASE /\ State(dir["db"]) = "empty" /\ Goto(p, "serving") /\ UNCHANGED handle
           /\ dir' = [dir EXCEPT !["db"] = Database(SchemaVersion, {}, NoOrigin)]
  <2> DEFINE f == Database(SchemaVersion, {}, NoOrigin)
  <2>1. f \in Files /\ SchemaVersion = 2
    <3>1. SchemaVersion = 2 /\ 2 \in {0, 1, 2} /\ {} \in SUBSET Ids
      BY DEF SchemaVersion
    <3> QED BY <3>1, FilesAre
  <2> HIDE DEF f
  <2>2. dir' \in Dirs /\ dir'["db"] = f /\ \A n \in Names \ {"db"} : dir'[n] = dir[n]
    BY <1>4, <2>1, NamesAre DEF Dirs, f
  <2>3. dir["db"] = EmptyFile /\ ~HasTables(dir["db"])
    BY <1>4, FileAt, FilesAre, NamesAre DEF HasTables
  <2>4. /\ Good(dir', live, forked) /\ HasTables(dir'["db"]) /\ State(dir'["db"]) = "current"
    <3>1. dir'["db"] = Database(2, {}, NoOrigin)
      BY <2>1, <2>2 DEF f
    <3>2. forked \in BOOLEAN /\ 2 \in {0, 2} /\ 2 # 0
      OBVIOUS
    <3> QED BY <2>2, <2>3, <3>1, <3>2, TablesAreCreated
  <2>5. Exists(dir', "db") /\ dir'["db"] # EmptyFile
    BY <2>4, FilesAre DEF HasTables, Exists
  <2>6. Waiting(dir, pending) /\ pending' = pending
    BY <1>1 DEF MInv, Unsynced
  <2>7. Waiting(dir', pending')
    <3>1. dir'["migrating"] = dir["migrating"] /\ \A s : dir'[Backup(s)] = dir[Backup(s)]
      BY <2>2, NamesAre
    <3> QED BY <2>5, <2>6, <3>1 DEF Waiting, Exists
  <2>8. GoodHistory(dir', pending', live', forked')
    <3>1. GoodHistory(dir, pending, live, forked) /\ live' = live /\ forked' = forked
      BY <1>1 DEF MInv, mailVars
    <3>2. ASSUME pending # << >>
          PROVE  Undone(dir', pending[Len(pending)]) = Undone(dir, pending[Len(pending)])
      <4> DEFINE op == pending[Len(pending)]
      <4>1. op.from = "none" /\ op.to = "db"
        BY <2>3, <2>6, <3>2 DEF Waiting
      <4> HIDE DEF op
      <4> DEFINE u(d, n) == CASE n = op.from -> IF op.to = "none" THEN op.was ELSE d[op.to]
                              [] n = op.to -> op.was
                              [] OTHER -> d[n]
      <4>2. ASSUME NEW n \in Names PROVE u(dir', n) = u(dir, n)
        <5>1. n # "none"
          BY NamesAre
        <5>2. CASE n = "db"
          BY <4>1, <5>1, <5>2
        <5>3. CASE n # "db"
          BY <2>2, <4>1, <5>1, <5>3
        <5> QED BY <5>2, <5>3
      <4>3. \A d : Undone(d, op) = [n \in Names |-> u(d, n)]
        BY DEF Undone
      <4> HIDE DEF u
      <4>4. Undone(dir', op) = Undone(dir, op)
        BY <4>2, <4>3
      <4> QED BY <4>4 DEF op
    <3>3. GoodHistory(dir', pending, live, forked)
      BY <2>2, <2>4, <3>1, <3>2, RewrittenHistory
    <3> QED BY <2>6, <3>1, <3>3
  <2>9. TypeOK'
    <3>1. dir' \in [Names -> Files]
      BY <2>2 DEF Dirs
    <3> QED BY <1>1, <1>3, <1>4, <3>1 DEF MInv, TypeOK, mailVars
  <2>10. Opens'
    <3>1. Opens
      BY DEF MInv
    <3>2. handle["older"] # "db"
      BY <1>4, <3>1 DEF Opens
    <3> QED BY <1>1, <1>3, <1>4, <2>4, <2>5, <3>1, <3>2 DEF Opens
  <2>11. Places'
    <3> SUFFICES ASSUME NEW q \in Procs
                 PROVE  At(pc'[q], dir', pending', print', lock', handle')
      BY DEF Places
    <3>1. CASE q = p
      BY <1>2, <1>3, <1>4, <3>1, AtAnywhere
    <3>2. CASE q # p
      <4>1. pc[q] \in PCs /\ pc'[q] = pc[q] /\ print' = print /\ lock' = lock
        BY <1>1, <1>3, <1>4, <3>2
      <4>2. At(pc[q], dir, pending, print, lock, handle)
        OBVIOUS
      <4>3. At(pc[q], dir', pending', print, lock, handle')
        BY <1>1, <2>2, <2>3, <2>5, <4>1, <4>2, AtBegun
      <4> QED BY <4>1, <4>3
    <3> QED BY <3>1, <3>2
  <2> QED BY <2>7, <2>8, <2>9, <2>10, <2>11, Together
<1>5. CASE State(dir["db"]) = "current" /\ Goto(p, "serving") /\ UNCHANGED <<dir, handle>>
  <2>1. TypeOK'
    BY <1>1, <1>3, <1>5 DEF MInv, TypeOK, mailVars
  <2>2. Opens'
    <3>1. Opens
      BY DEF MInv
    <3> QED BY <1>1, <1>3, <1>5, <3>1 DEF Opens
  <2>3. Places'
    <3> SUFFICES ASSUME NEW q \in Procs
                 PROVE  At(pc'[q], dir', pending', print', lock', handle')
      BY DEF Places
    <3>1. CASE q = p
      BY <1>2, <1>3, <1>5, <3>1, AtAnywhere
    <3>2. CASE q # p
      BY <1>1, <1>3, <1>5, <3>2
    <3> QED BY <3>1, <3>2
  <2>4. Waiting(dir', pending') /\ GoodHistory(dir', pending', live', forked')
    BY <1>1, <1>5 DEF MInv, Unsynced, mailVars
  <2> QED BY <2>1, <2>2, <2>3, <2>4, Together
<1>6. CASE Goto(p, "idle") /\ handle' = [handle EXCEPT ![p] = "none"] /\ UNCHANGED dir
  BY <1>1, <1>2, <1>6, GoneStep
<1> QED BY <1>1, <1>4, <1>5, <1>6 DEF Initialize

\* What a committed message, or a deletion, leaves.
LEMMA WrittenIs ==
    ASSUME MInv, NEW q \in Users, handle[q] = "db", HasTables(dir["db"]), Store(q) \/ Erase(q)
    PROVE  /\ dir' \in Dirs /\ \A n \in Names \ {"db"} : dir'[n] = dir[n]
           /\ Good(dir', live', forked) /\ State(dir'["db"]) = State(dir["db"])
           /\ HasTables(dir'["db"]) /\ Exists(dir', "db")
           /\ IsSource(dir) => IsSource(dir')
           /\ RestoreDecision(dir) = "restore" => RestoreDecision(dir') = "restore"
           /\ pending' = << >> /\ live' \subseteq Ids /\ next' \in 1 .. MaxMail + 1
<1> USE Parts
<1>1. "db" \in Names /\ Opened(q) = dir["db"] /\ dir["db"].mail \subseteq Ids
  BY NamesAre DEF Opened, Files
<1>2. next \in 1 .. MaxMail + 1 /\ MaxMail \in Nat
  BY Constants DEF MInv, TypeOK
<1>3. PICK mail \in SUBSET Ids :
        /\ dir' = [dir EXCEPT !["db"].mail = mail]
        /\ \A m \in live' : m \in mail \/ (m \in live /\ m \notin dir["db"].mail)
        /\ pending' = << >> /\ live' \subseteq Ids /\ next' \in 1 .. MaxMail + 1
  <2>1. CASE Store(q)
    <3>1. /\ next <= MaxMail /\ next' = next + 1 /\ live' = live \cup {next} /\ pending' = << >>
          /\ dir' = [dir EXCEPT !["db"].mail = dir["db"].mail \cup {next}]
      BY <1>1, <2>1 DEF Store
    <3>2. next \in Ids /\ next' \in 1 .. MaxMail + 1
      BY <1>2, <3>1 DEF Ids
    <3>3. dir["db"].mail \cup {next} \in SUBSET Ids /\ live' \subseteq Ids
      BY <1>1, <3>1, <3>2
    <3> QED BY <3>1, <3>2, <3>3
  <2>2. CASE Erase(q)
    <3>1. PICK m \in dir["db"].mail :
            dir' = [dir EXCEPT !["db"].mail = dir["db"].mail \ {m}] /\ live' = live \ {m}
      BY <1>1, <2>2 DEF Erase
    <3>2. pending' = << >> /\ next' = next
      BY <2>2 DEF Erase
    <3> QED BY <1>1, <1>2, <3>1, <3>2
  <2> QED BY <2>1, <2>2
<1>4. /\ dir' \in Dirs /\ \A n \in Names \ {"db"} : dir'[n] = dir[n]
      /\ dir'["db"].layout = dir["db"].layout /\ dir'["db"].version = dir["db"].version
      /\ dir'["db"].origin = dir["db"].origin /\ dir'["db"].mail = mail
  <2> DEFINE f == [dir["db"] EXCEPT !.mail = mail]
  <2>1. /\ f \in Files /\ f.layout = dir["db"].layout /\ f.version = dir["db"].version
        /\ f.origin = dir["db"].origin /\ f.mail = mail
    BY DEF Files
  <2>2. dir' = [dir EXCEPT !["db"] = f]
    BY <1>3
  <2> HIDE DEF f
  <2> HIDE Parts
  <2>3. dir \in [Names -> Files]
    BY Parts DEF Dirs
  <2>4. dir' \in Dirs /\ dir'["db"] = f /\ \A n \in Names \ {"db"} : dir'[n] = dir[n]
    BY <1>1, <2>1, <2>2, <2>3 DEF Dirs
  <2> QED BY <2>1, <2>4
<1>5. /\ Good(dir', live', forked) /\ State(dir'["db"]) = State(dir["db"]) /\ HasTables(dir'["db"])
      /\ IsSource(dir) => IsSource(dir')
      /\ RestoreDecision(dir) = "restore" => RestoreDecision(dir') = "restore"
  <2>1. Good(dir, live, forked) /\ dir \in Dirs
    OBVIOUS
  <2>2. \A m \in live' : m \in dir'["db"].mail \/ (m \in live /\ m \notin dir["db"].mail)
    BY <1>3, <1>4
  <2> HIDE Parts
  <2> QED BY <1>4, <2>1, <2>2, MailIsWritten
<1>6. Exists(dir', "db")
  BY <1>5, FilesAre DEF HasTables, Exists
<1> QED BY <1>3, <1>4, <1>5, <1>6

\* A write by whoever has the database open: an older rustmail does not write
\* while the source is locked, nor between a check and its renames.
LEMMA WriteStep ==
    ASSUME MInv, power, UNCHANGED power, NEW q \in Users, handle[q] = "db", HasTables(dir["db"]),
           Store(q) \/ Erase(q), UNCHANGED <<stale, pc, lock, print, handle, forked>>,
           \A p \in Procs :
             State(dir["db"]) = "current" \/ pc[p] \notin Building \cup Renaming
    PROVE  MInv'
<1>1. /\ dir' \in Dirs /\ \A n \in Names \ {"db"} : dir'[n] = dir[n]
      /\ Good(dir', live', forked) /\ State(dir'["db"]) = State(dir["db"])
      /\ HasTables(dir'["db"]) /\ Exists(dir', "db")
      /\ IsSource(dir) => IsSource(dir')
      /\ RestoreDecision(dir) = "restore" => RestoreDecision(dir') = "restore"
      /\ pending' = << >> /\ live' \subseteq Ids /\ next' \in 1 .. MaxMail + 1
  BY WrittenIs
<1>2. TypeOK'
  <2>1. dir' \in [Names -> Files]
    BY <1>1 DEF Dirs
  <2> QED BY <1>1, <2>1 DEF MInv, TypeOK
<1>3. Opens'
  <2>1. Opens
    BY DEF MInv
  <2> QED BY <1>1, <2>1 DEF Opens
<1>4. Places'
  <2> SUFFICES ASSUME NEW p \in Procs
               PROVE  At(pc'[p], dir', pending', print', lock', handle')
    BY DEF Places
  <2>1. /\ pc[p] \in PCs /\ dir \in Dirs /\ WellFormed(dir)
        /\ At(pc[p], dir, pending, print, lock, handle)
    BY Parts
  <2>2. handle[q] # "none"
    OBVIOUS
  <2>3. At(pc[p], dir', pending', print, lock, handle)
    BY <1>1, <2>1, <2>2, AtWritten
  <2> QED BY <2>3
<1>5. Waiting(dir', pending')
  BY <1>1 DEF Waiting
<1>6. GoodHistory(dir', pending', live', forked')
  BY <1>1, SyncedHistory
<1> QED BY <1>2, <1>3, <1>4, <1>5, <1>6, Together

\* The server stores or deletes a message in a current database.
LEMMA ServeStep ==
    ASSUME MInv, power, UNCHANGED power, NEW p \in Procs, Serve(p)
    PROVE  MInv'
<1>1. pc[p] = "serving" /\ p \in Users
  BY Parts DEF Serve
<1>2. handle[p] = "db" /\ State(dir["db"]) = "current"
  BY <1>1 DEF MInv, Opens
<1>3. HasTables(dir["db"])
  BY <1>2, Parts, FileAt, NamesAre
<1> QED BY <1>1, <1>2, <1>3, WriteStep DEF Serve

-----------------------------------------------------------------------------
(* An older rustmail *)

\* An older rustmail stores or deletes a message in the database it opened.
LEMMA OlderWritesStep ==
    ASSUME MInv, power, UNCHANGED power, ~OlderRaces, OlderWrites
    PROVE  MInv'
<1>1. handle["older"] = "db" /\ "older" \in Users /\ State(dir["db"]) = "older"
  BY Parts DEF OlderWrites, MInv, Opens
<1>2. HasTables(dir["db"])
  BY <1>1, Parts, FileAt, NamesAre
<1>3. \A p \in Procs : pc[p] \notin Building \cup Renaming
  BY DEF OlderWrites, OlderMay, InWindow, SourceLocked
<1> QED BY <1>1, <1>2, <1>3, WriteStep DEF OlderWrites

\* It opens its own kind of file, or closes it.
LEMMA OlderHandleStep ==
    ASSUME MInv, power, UNCHANGED power, ~OlderRaces, OlderOpens \/ OlderCloses
    PROVE  MInv'
<1> USE Parts
<1>1. PICK h \in {"db", "none"} :
        /\ handle' = [handle EXCEPT !["older"] = h] /\ stale' \subseteq Names
        /\ h = "db" => State(dir["db"]) = "older" /\ \A p \in Procs : pc[p] \notin Renaming
        /\ UNCHANGED <<dir, pending, pc, lock, print, mailVars>>
  <2>1. CASE OlderOpens
    BY <2>1 DEF OlderOpens, OlderMay, InWindow
  <2>2. CASE OlderCloses
    BY <2>2 DEF OlderCloses
  <2> QED BY <2>1, <2>2
<1>2. /\ handle' \in [Users -> Names \cup {"none", "unlinked"}] /\ handle'["older"] = h
      /\ \A q \in Users \ {"older"} : handle'[q] = handle[q]
  BY <1>1, NamesAre
<1>3. \A p \in Procs : p # "older" /\ handle'[p] = handle[p]
  BY <1>2, Constants
<1>4. TypeOK'
  BY <1>1, <1>2 DEF MInv, TypeOK, mailVars
<1>5. Opens'
  <2>1. Opens
    BY DEF MInv
  <2>2. h = "db" => Exists(dir, "db")
    BY <1>1, FileAt, NamesAre
  <2>3. dir' = dir /\ pc' = pc
    BY <1>1
  <2> QED BY <1>1, <1>2, <1>3, <2>1, <2>2, <2>3 DEF Opens
<1>6. Places'
  <2> SUFFICES ASSUME NEW p \in Procs
               PROVE  At(pc'[p], dir', pending', print', lock', handle')
    BY DEF Places
  <2>1. At(pc'[p], dir', pending', print', lock', handle)
    BY <1>1
  <2>2. pc'[p] \in {"rename_db", "keep_db"} => \A q \in Users : handle'[q] = "none"
    <3>1. ASSUME pc[p] = "keep_db" PROVE State(dir["db"]) = "current"
      BY <3>1, RestoreDecides DEF At
    <3>2. h = "db" => pc[p] \notin {"rename_db", "keep_db"}
      BY <1>1, <3>1 DEF Renaming
    <3> QED BY <1>1, <1>2, <2>1, <3>2 DEF At
  <2> QED BY <2>1, <2>2, AtFiles
<1>7. Waiting(dir', pending') /\ GoodHistory(dir', pending', live', forked')
  BY <1>1 DEF MInv, Unsynced, mailVars
<1> QED BY <1>4, <1>5, <1>6, <1>7, Together

\* An older rustmail makes a database where there is none.
LEMMA OlderBeginsStep ==
    ASSUME MInv, power, UNCHANGED power, ~OlderRaces, OlderBegins
    PROVE  MInv'
<1> USE Parts
<1> DEFINE f == Database(0, {}, NoOrigin)
<1>1. /\ State(dir["db"]) \in {"absent", "empty"} /\ handle["older"] = "none"
      /\ dir' = [dir EXCEPT !["db"] = f] /\ pending' = Changes("none", "db")
      /\ handle' = [handle EXCEPT !["older"] = "db"] /\ stale' \subseteq Names
      /\ forked' = (forked \/ AnyBackup(dir)) /\ UNCHANGED <<pc, lock, print, next, live>>
      /\ \A p \in Procs : pc[p] \notin Renaming
  BY DEF OlderBegins, OlderMay, InWindow
<1>2. f \in Files
  <2>1. 0 \in {0, 1, 2} /\ {} \in SUBSET Ids
    OBVIOUS
  <2> QED BY <2>1, FilesAre
<1> HIDE DEF f
<1>3. dir' \in Dirs /\ dir'["db"] = f /\ \A n \in Names \ {"db"} : dir'[n] = dir[n]
  BY <1>1, <1>2, NamesAre DEF Dirs
<1>4. ~HasTables(dir["db"])
  BY <1>1, FileAt, NamesAre, FilesAre DEF HasTables
<1>5. forked' \in BOOLEAN /\ (forked => forked') /\ (forked' \/ ~AnyBackup(dir))
      /\ (forked' = forked \/ forked' = TRUE)
  <2>1. forked \in BOOLEAN
    OBVIOUS
  <2> HIDE Parts
  <2>2. CASE AnyBackup(dir)
    BY <1>1, <2>2
  <2>3. CASE ~AnyBackup(dir)
    BY <1>1, <2>1, <2>3
  <2> QED BY <2>2, <2>3
<1>6. Good(dir', live, forked') /\ HasTables(dir'["db"]) /\ State(dir'["db"]) = "older"
  <2>1. dir'["db"] = Database(0, {}, NoOrigin) /\ 0 \in {0, 2} /\ 0 # 2
    BY <1>3 DEF f
  <2>2. Good(dir, live, forked) /\ dir \in Dirs
    OBVIOUS
  <2> HIDE Parts
  <2> QED BY <1>3, <1>4, <1>5, <2>1, <2>2, TablesAreCreated
<1>7. Exists(dir', "db") /\ dir'["db"] # EmptyFile
  BY <1>6, FilesAre DEF HasTables, Exists
<1>8. GoodHistory(dir', pending', live', forked') /\ pending' \in Seq(Ops)
  <2>1. /\ "db" \in Names /\ "none" \notin Names
        /\ \A n \in Names \ {"none", "db"} : dir'[n] = dir[n]
    BY <1>3, NamesAre
  <2> HIDE Parts
  <2>2. GoodHistory(dir', Changes("none", "db"), live, forked') /\ Changes("none", "db") \in Seq(Ops)
    BY <1>3, <1>5, <1>6, <2>1, Changed
  <2> QED BY <1>1, <2>2
<1>9. Waiting(dir', pending')
  <2>1. dir'["migrating"] = dir["migrating"] /\ \A s : dir'[Backup(s)] = dir[Backup(s)]
    BY <1>3, NamesAre
  <2>2. HasTables(dir["migrating"]) => Exists(dir, Backup(dir["migrating"].origin.source))
    BY <1>4 DEF Good, CopyFollowed
  <2> QED BY <1>7, <2>1, <2>2 DEF Waiting, Exists
<1>10. /\ handle' \in [Users -> Names \cup {"none", "unlinked"}] /\ handle'["older"] = "db"
       /\ \A q \in Users \ {"older"} : handle'[q] = handle[q]
  BY <1>1, NamesAre
<1>11. TypeOK'
  <2>1. dir' \in [Names -> Files] /\ pending' \in Seq(Ops)
    BY <1>3, <1>8 DEF Dirs
  <2> QED BY <1>1, <1>5, <1>10, <2>1 DEF MInv, TypeOK, Ops
<1>12. Opens'
  <2>1. Opens
    BY DEF MInv
  <2>2. \A p \in Procs : pc[p] # "serving" /\ p # "older"
    BY <1>1, <2>1, Constants DEF Opens
  <2> QED BY <1>1, <1>6, <1>7, <1>10, <2>1, <2>2 DEF Opens
<1>13. Places'
  <2> SUFFICES ASSUME NEW q \in Procs
               PROVE  At(pc'[q], dir', pending', print', lock', handle')
    BY DEF Places
  <2>1. pc[q] \in PCs /\ pc'[q] = pc[q] /\ print' = print /\ lock' = lock /\ pc[q] \notin Renaming
    BY <1>1
  <2>2. At(pc[q], dir, pending, print, lock, handle)
    OBVIOUS
  <2>3. At(pc[q], dir', pending', print, lock, handle')
    BY <1>3, <1>4, <1>7, <2>1, <2>2, AtBegun
  <2> QED BY <2>1, <2>3
<1> QED BY <1>8, <1>9, <1>11, <1>12, <1>13, Together

-----------------------------------------------------------------------------
(* Outages *)

\* A power failure ends every process; the directory is still to be settled.
LEMMA PowerFailsStep ==
    ASSUME MInv, PowerFails
    PROVE  MInv'
<1>1. /\ power' = FALSE /\ pc' = [p \in Procs |-> "idle"] /\ handle' = [q \in Users |-> "none"]
      /\ lock' = Nobody /\ print' = {} /\ UNCHANGED <<dir, pending, mailVars>>
      /\ stale' = stale \cup LeftBy(Users)
  BY DEF PowerFails
<1>2. "idle" \in PCs /\ "idle" \notin Running /\ "idle" \in Anywhere /\ Nobody \notin Procs
  BY PlacesAre, Constants DEF PCs
<1>3. /\ \A p \in Procs : pc'[p] = "idle" /\ p \in Users
      /\ \A q \in Users : handle'[q] = "none"
      /\ "older" \in Users
  BY <1>1 DEF Users
<1>4. TypeOK'
  <2>1. stale' \subseteq Names
    BY <1>1, Parts, NamesAre DEF LeftBy
  <2>2. \A p \in Procs : pc'[p] \in Running <=> lock' = p
    BY <1>1, <1>2, <1>3
  <2>3. power' \in BOOLEAN
    BY <1>1
  <2>4. /\ pc' \in [Procs -> PCs] /\ lock' \in Procs \cup {Nobody} /\ print' \subseteq Ids
        /\ handle' \in [Users -> Names \cup {"none", "unlinked"}]
    BY <1>1, <1>2
  <2> QED BY <1>1, <2>1, <2>2, <2>3, <2>4 DEF MInv, TypeOK, mailVars
<1>5. Opens'
  BY <1>3 DEF Opens
<1>6. Places'
  BY <1>2, <1>3, AtAnywhere DEF Places
<1>7. Unsynced'
  BY <1>1, <1>3 DEF Unsynced
<1>8. GoodHistory(dir, pending, live, forked)'
  BY <1>1 DEF MInv, mailVars
<1> QED BY <1>4, <1>5, <1>6, <1>7, <1>8 DEF MInv

\* The last unsynced change is lost: the directory falls back to a good one.
LEMMA UndoStep ==
    ASSUME MInv, Undo
    PROVE  MInv'
<1> DEFINE d2 == Undone(dir, pending[Len(pending)])
           rest == SubSeq(pending, 1, Len(pending) - 1)
<1>1. /\ ~power /\ pending # << >> /\ dir' = d2 /\ pending' = rest
      /\ UNCHANGED <<stale, power, pc, lock, print, handle, mailVars>>
  BY DEF Undo, Undone
<1>2. GoodHistory(d2, rest, live, forked)
  BY <1>1, Parts, UndoneHistory DEF MInv
<1>3. rest \in Seq(Ops)
  <2>1. pending \in Seq(Ops)
    BY Parts
  <2>2. \A i \in 1 .. Len(pending) - 1 : pending[i] \in Ops
    <3>1. Len(pending) \in Nat
      BY <2>1, LenProperties
    <3>2. \A i \in 1 .. Len(pending) - 1 : i \in 1 .. Len(pending)
      BY <3>1
    <3> QED BY <2>1, <3>2, ElementOfSeq
  <2>3. 1 \in Int /\ Len(pending) - 1 \in Int
    BY <2>1, LenProperties
  <2> QED BY <2>2, <2>3, SubSeqProperties
<1> HIDE DEF d2, rest
<1>4. d2 \in Dirs
  BY <1>2, <1>3, HistoryNow
<1>5. /\ \A p \in Procs : pc[p] = "idle" /\ p \in Users
      /\ \A q \in Users : handle[q] = "none"
      /\ "older" \in Users /\ "idle" \in Anywhere
  BY <1>1, Parts, PlacesAre DEF MInv, Unsynced
<1>6. TypeOK'
  <2>1. dir' \in [Names -> Files] /\ pending' \in Seq(Ops)
    BY <1>1, <1>3, <1>4 DEF Dirs
  <2> QED BY <1>1, <2>1 DEF MInv, TypeOK, mailVars, Ops
<1>7. Opens'
  BY <1>1, <1>5 DEF Opens
<1>8. Places'
  BY <1>1, <1>5, AtAnywhere DEF Places
<1>9. Unsynced'
  BY <1>1, <1>5 DEF Unsynced
<1>10. GoodHistory(dir, pending, live, forked)'
  BY <1>1, <1>2 DEF mailVars
<1> QED BY <1>6, <1>7, <1>8, <1>9, <1>10 DEF MInv

\* What the power failure left is the directory the next start finds.
LEMMA PowerReturnsStep ==
    ASSUME MInv, PowerReturns
    PROVE  MInv'
<1>1. /\ ~power /\ power' = TRUE /\ pending' = << >>
      /\ UNCHANGED <<dir, stale, pc, lock, print, handle, mailVars>>
  BY DEF PowerReturns
<1>2. /\ \A p \in Procs : pc[p] = "idle" /\ "idle" \in Anywhere
  BY <1>1, PlacesAre DEF MInv, Unsynced
<1>3. TypeOK'
  <2>1. pending' \in Seq(Ops) /\ power' \in BOOLEAN
    BY <1>1
  <2> QED BY <1>1, <2>1 DEF MInv, TypeOK, mailVars, Ops
<1>4. Opens'
  BY <1>1 DEF MInv, Opens
<1>5. Places'
  BY <1>1, <1>2, AtAnywhere DEF Places
<1>6. Waiting(dir', pending')
  BY <1>1 DEF Waiting
<1>7. GoodHistory(dir', pending', live', forked')
  BY <1>1, Parts, SyncedHistory DEF mailVars
<1> QED BY <1>1, <1>3, <1>4, <1>5, <1>6, <1>7, Together

-----------------------------------------------------------------------------
(* The directory before the first start *)

All(d) == UNION {d[n].mail : n \in Names}

\* An older database, with or without a copy of it.
LEMMA OlderIsGood ==
    ASSUME NEW d \in Dirs, WellFormed(d), IsSource(d), CopyFits(d["migrating"]),
           d["migrating"].version = 1 => ~Exists(d, "bak1"),
           \A n \in Names : d[n].mail \subseteq d["db"].mail
    PROVE  Good(d, All(d), FALSE)
<1>1. HasTables(d["db"]) /\ State(d["db"]) # "current"
  BY FileAt, NamesAre DEF IsSource
<1>2. Held(d, All(d))
  BY NamesAre DEF Held, All
<1>3. BackupFits(d) /\ CopyFollowed(d)
  BY <1>1 DEF BackupFits, CopyFollowed
<1>4. WayForward(d)
  BY StartDecides DEF WayForward, IsSource
<1> QED BY <1>2, <1>3, <1>4 DEF Good

\* A swap that stopped between its two renames.
LEMMA HalfSwappedIsGood ==
    ASSUME NEW d \in Dirs, WellFormed(d), ~Exists(d, "db"), CopyFits(d["migrating"]),
           IsComplete(d["migrating"]), d["migrating"].origin.source \in {0, 1},
           CanFinishSwap(d), d["migrating"].version = 1 => ~Exists(d, "bak1"),
           \A n \in Names : d[n].mail \subseteq d[Backup(d["migrating"].origin.source)].mail
    PROVE  Good(d, All(d), FALSE)
<1>1. ~HasTables(d["db"]) /\ State(d["db"]) # "current"
  BY FileAt, NamesAre, FilesAre DEF HasTables, Exists
<1>2. Held(d, All(d))
  <2>1. Backup(d["migrating"].origin.source) \in Names \ {"migrating"}
    BY NamesAre
  <2> QED BY <2>1 DEF Held, All
<1>3. BackupFits(d) /\ CopyFollowed(d)
  BY <1>1 DEF BackupFits, CopyFollowed, CanFinishSwap
<1>4. WayForward(d)
  BY StartDecides DEF WayForward
<1> QED BY <1>2, <1>3, <1>4 DEF Good

\* The copies older versions leave are as far as their origin says.
LEMMA LeftCopiesFit ==
    ASSUME NEW s \in {0, 1}, NEW t \in Targets(s), NEW from \in SUBSET Ids,
           NEW c \in LeftCopies(s, t, from)
    PROVE  c \in Files /\ HasTables(c) /\ CopyFits(c) /\ c.mail \subseteq from
<1>1. t \in {1, 2}
  BY DEF Targets
<1>2. \A last \in 0 .. MaxMail :
        LET o == Origin(from, s, t, last, TRUE)
        IN  o \in RealOrigins /\ o.print = from /\ o.target = t /\ o.last = last
  BY <1>1 DEF Origin, RealOrigins
<1>3. Layout(t) \in {"previous", "current"}
  BY <1>1, Layouts
<1>4. CASE c = Database(t, from, Origin(from, s, t, MaxMail, TRUE))
  <2> DEFINE o == Origin(from, s, t, MaxMail, TRUE)
  <2>1. MaxMail \in 0 .. MaxMail
    BY Constants
  <2>2. o \in RealOrigins /\ o.print = from /\ o.target = t
    BY <1>2, <2>1
  <2>3. c = Database(t, from, o)
    BY <1>4
  <2> HIDE DEF o
  <2>4. o # NoOrigin /\ o \in Origins
    BY <2>2, OriginsAre
  <2>5. /\ c \in Files /\ c.layout = Layout(t) /\ c.version = t /\ c.mail = from /\ c.origin = o
    BY <1>1, <2>3, <2>4, FilesAre
  <2> QED BY <1>3, <2>2, <2>4, <2>5 DEF HasTables, CopyFits
<1>5. CASE \E last \in {0} \cup from :
             c = Unfinished({m \in from : m <= last}, Origin(from, s, t, last, TRUE))
  <2>1. PICK last \in {0} \cup from :
          c = Unfinished({m \in from : m <= last}, Origin(from, s, t, last, TRUE))
    BY <1>5
  <2>2. last \in 0 .. MaxMail
    BY Constants DEF Ids
  <2> DEFINE o == Origin(from, s, t, last, TRUE)
             mail == {m \in from : m <= last}
             l == Layout(t)
  <2>3. o \in RealOrigins /\ o.print = from /\ o.target = t /\ o.last = last
    BY <1>2, <2>2
  <2>4. c = Unfinished(mail, o)
    BY <2>1
  <2>5. mail \in SUBSET Ids /\ mail = {m \in from : m <= last} /\ mail \subseteq from
    OBVIOUS
  <2> HIDE DEF o, mail
  <2>6. o # NoOrigin /\ o \in Origins
    BY <2>3, OriginsAre
  <2>7. c = [layout |-> l, version |-> 0, mail |-> mail, origin |-> o]
    BY <2>3, <2>4 DEF Unfinished, File
  <2>8. l \in {"previous", "current"}
    BY <1>3
  <2>9. l = Layout(t)
    OBVIOUS
  <2> HIDE DEF l
  <2>10. /\ c \in Files /\ c.layout = l /\ c.version = 0 /\ c.mail = mail /\ c.origin = o
    BY <2>5, <2>6, <2>7, <2>8 DEF Files, SchemaVersion
  <2> QED BY <2>3, <2>5, <2>6, <2>8, <2>9, <2>10 DEF HasTables, CopyFits
<1> QED BY <1>4, <1>5 DEF LeftCopies

\* The directory with one or two files in it.
Pair(a, f, b, g) == [Nothing EXCEPT ![a] = f, ![b] = g]

\* What is where in such a directory.
LEMMA TwoFiles ==
    ASSUME NEW a \in Names, NEW b \in Names, a # b, NEW f \in Files, NEW g \in Files,
           HasTables(f) \/ f \in {Absent, EmptyFile}, HasTables(g) \/ g \in {Absent, EmptyFile},
           NEW d, d = Pair(a, f, b, g)
    PROVE  /\ d \in Dirs /\ WellFormed(d) /\ d[a] = f /\ d[b] = g
           /\ \A n \in Names \ {a, b} : d[n] = Absent
<1>1. Nothing \in [Names -> Files] /\ \A n \in Names : Nothing[n] = Absent
  BY FilesAre DEF Nothing
<1>2. /\ d \in Dirs /\ d[a] = f /\ d[b] = g
      /\ \A n \in Names \ {a, b} : d[n] = Absent
  BY <1>1 DEF Dirs, Pair
<1>3. WellFormed(d)
  <2> SUFFICES ASSUME NEW n \in Names
               PROVE  /\ d[n].layout = "absent" => d[n] = Absent
                      /\ d[n].layout = "empty" => d[n] = EmptyFile
    BY DEF WellFormed
  <2>1. HasTables(d[n]) \/ d[n] \in {Absent, EmptyFile}
    <3>1. CASE n = a
      BY <1>2, <3>1
    <3>2. CASE n = b
      BY <1>2, <3>2
    <3>3. CASE n # a /\ n # b
      BY <1>2, <3>3
    <3> QED BY <3>1, <3>2, <3>3
  <2> QED BY <2>1, FilesAre DEF HasTables
<1> QED BY <1>2, <1>3

\* The files of older versions that a first start may find.
LEMMA SeedFiles ==
    /\ Seed \in SUBSET Ids
    /\ \A s \in {0, 1} :
         LET f == Older(s, Seed)
         IN  /\ f \in Files /\ HasTables(f) /\ f.layout = Layout(s) /\ f.version = s
             /\ f.mail = Seed
<1>1. Seed \in SUBSET Ids
  BY Constants DEF Ids
<1>2. \A s \in {0, 1} : s \in {0, 1, 2} /\ Layout(s) \notin {"absent", "empty"}
  BY Layouts
<1> QED BY <1>1, <1>2, FilesAre DEF Older, HasTables

\* An older database beside `g`, which is a copy of it, a backup or nothing.
LEMMA OlderDirs ==
    ASSUME NEW s \in {0, 1}, NEW f \in Files, HasTables(f), f.layout = Layout(s), f.version = s,
           f.mail = Seed,
           NEW b \in {"migrating", "bak0"}, NEW g \in Files,
           HasTables(g) \/ g = Absent, g.mail \subseteq Seed,
           b = "migrating" => CopyFits(g), b = "bak0" => s = 1,
           NEW d, d = Pair("db", f, b, g)
    PROVE  d \in Dirs /\ Good(d, All(d), FALSE)
<1>1. "db" \in Names /\ b \in Names /\ b # "db" /\ b # "bak1"
  BY NamesAre
<1>2. /\ d \in Dirs /\ WellFormed(d) /\ d["db"] = f /\ d[b] = g
      /\ \A n \in Names \ {"db", b} : d[n] = Absent
  BY <1>1, TwoFiles
<1>3. ~Exists(d, "bak1") /\ (b = "migrating" => ~Exists(d, "bak0"))
  BY <1>1, <1>2, NamesAre DEF Exists
<1>4. State(d["db"]) = "older"
  <2>1. HasTables(d["db"]) /\ d["db"].version = s /\ d["db"].layout = Layout(s)
    BY <1>2
  <2> QED BY <1>1, <1>2, <2>1, FileAt
<1>5. ~Exists(d, Backup(s))
  BY <1>3 DEF Backup
<1>6. IsSource(d)
  BY <1>2, <1>4, <1>5 DEF IsSource
<1>7. CopyFits(d["migrating"])
  <2>1. b # "migrating" => d["migrating"] = Absent
    BY <1>2, NamesAre
  <2>2. CopyFits(Absent)
    BY FilesAre DEF CopyFits, HasTables
  <2> QED BY <1>2, <2>1, <2>2
<1>8. \A n \in Names : d[n].mail \subseteq d["db"].mail
  BY <1>2, FilesAre
<1> QED BY <1>2, <1>3, <1>6, <1>7, <1>8, OlderIsGood

\* Every directory a first start may find is good.
LEMMA InitialDirsAreGood ==
    ASSUME NEW d \in InitialDirs
    PROVE  d \in Dirs /\ Good(d, All(d), FALSE) /\ All(d) \subseteq Ids
<1> SUFFICES d \in Dirs /\ Good(d, All(d), FALSE)
  <2>1. ASSUME d \in Dirs PROVE \A n \in Names : d[n].mail \subseteq Ids
    BY <2>1 DEF Dirs, Files
  <2> QED BY <2>1 DEF All
<1>1. Absent \in Files /\ Absent.mail \subseteq Seed /\ CopyFits(Absent) /\ CopyFits(EmptyFile)
  BY FilesAre DEF CopyFits, HasTables
<1>2. "db" \in Names /\ "migrating" \in Names /\ "bak0" \in Names /\ "bak1" \in Names
  BY NamesAre
<1>3. ASSUME NEW f, d = [Nothing EXCEPT !["db"] = f]
      PROVE  d = Pair("db", f, "migrating", Absent)
  BY <1>2, <1>3, FilesAre DEF Nothing, Pair
<1>4. CASE d = Nothing \/ d = [Nothing EXCEPT !["db"] = EmptyFile]
  <2>1. PICK f \in {Absent, EmptyFile} : d = [Nothing EXCEPT !["db"] = f]
    BY <1>2, <1>4 DEF Nothing
  <2>2. d = Pair("db", f, "migrating", Absent)
    BY <1>3, <2>1
  <2>3. f \in Files /\ f.mail = {} /\ f.layout \in {"absent", "empty"}
    BY FilesAre
  <2>4. /\ d \in Dirs /\ WellFormed(d) /\ d["db"] = f /\ d["migrating"] = Absent
        /\ \A n \in Names \ {"db", "migrating"} : d[n] = Absent
    BY <1>1, <1>2, <2>2, <2>3, TwoFiles
  <2>5. ~HasTables(d["db"]) /\ State(d["db"]) # "current"
    BY <1>2, <2>3, <2>4, FileAt DEF HasTables
  <2>6. \A n \in Names : d[n].mail = {}
    BY <2>3, <2>4, FilesAre
  <2>7. Held(d, All(d))
    BY <2>6 DEF Held, All
  <2>8. ~Exists(d, "migrating") /\ ~AnyBackup(d) /\ ~HasTables(d["migrating"])
        /\ d["migrating"].version = 0
    BY <1>2, <2>4, FilesAre DEF Exists, AnyBackup, HasTables
  <2>9. WayForward(d)
    BY <2>4, <2>5, <2>8, StartDecides DEF WayForward
  <2> QED BY <1>1, <2>4, <2>5, <2>7, <2>8, <2>9 DEF Good, BackupFits, CopyFollowed
<1>5. CASE \E s \in {0, 1} : d = [Nothing EXCEPT !["db"] = Older(s, Seed)]
  <2>1. PICK s \in {0, 1} : d = [Nothing EXCEPT !["db"] = Older(s, Seed)]
    BY <1>5
  <2>2. d = Pair("db", Older(s, Seed), "migrating", Absent)
    BY <1>3, <2>1
  <2> QED BY <1>1, <2>2, SeedFiles, OlderDirs
<1>6. CASE d = [Nothing EXCEPT !["db"] = Database(1, Seed, Origin(Seed, 0, 1, MaxMail, TRUE)),
                               !["bak0"] = Older(0, Seed)]
  <2> DEFINE o == Origin(Seed, 0, 1, MaxMail, TRUE)
             f == Database(1, Seed, o)
             g == Older(0, Seed)
  <2>1. o \in Origins
    <3>1. MaxMail \in 0 .. MaxMail
      BY Constants
    <3>2. o \in RealOrigins
      BY <3>1, SeedFiles DEF Origin, RealOrigins
    <3> QED BY <3>2, OriginsAre
  <2> HIDE DEF o
  <2>2. f \in Files /\ f.layout = Layout(1) /\ f.version = 1 /\ f.mail = Seed
    BY <2>1, SeedFiles, FilesAre
  <2>3. g \in Files /\ HasTables(g) /\ g.mail \subseteq Seed
    BY SeedFiles
  <2>4. d = Pair("db", f, "bak0", g)
    BY <1>6 DEF o, Pair
  <2>5. HasTables(f)
    BY <2>2, Layouts DEF HasTables
  <2> HIDE DEF f, g
  <2> QED BY <2>2, <2>3, <2>4, <2>5, OlderDirs
<1>7. CASE \E s \in {0, 1} : \E t \in Targets(s) :
             \E c \in LeftCopies(s, t, Seed) \cup LeftCopies(s, t, {}) :
               d = [Nothing EXCEPT !["db"] = Older(s, Seed), !["migrating"] = c]
  <2>a. PICK s \in {0, 1} : \E t \in Targets(s) :
          \E c \in LeftCopies(s, t, Seed) \cup LeftCopies(s, t, {}) :
            d = [Nothing EXCEPT !["db"] = Older(s, Seed), !["migrating"] = c]
    BY <1>7
  <2>b. PICK t \in Targets(s) :
          \E c \in LeftCopies(s, t, Seed) \cup LeftCopies(s, t, {}) :
            d = [Nothing EXCEPT !["db"] = Older(s, Seed), !["migrating"] = c]
    BY <2>a
  <2>1. PICK c \in LeftCopies(s, t, Seed) \cup LeftCopies(s, t, {}) :
          d = [Nothing EXCEPT !["db"] = Older(s, Seed), !["migrating"] = c]
    BY <2>b
  <2>2. c \in Files /\ HasTables(c) /\ CopyFits(c) /\ c.mail \subseteq Seed
    <3>1. Seed \in SUBSET Ids /\ {} \in SUBSET Ids
      BY SeedFiles
    <3>2. CASE c \in LeftCopies(s, t, Seed)
      BY <3>1, <3>2, LeftCopiesFit
    <3>3. CASE c \in LeftCopies(s, t, {})
      <4>1. c \in Files /\ HasTables(c) /\ CopyFits(c) /\ c.mail \subseteq {}
        BY <3>1, <3>3, LeftCopiesFit
      <4> QED BY <4>1
    <3> QED BY <3>2, <3>3
  <2> DEFINE f == Older(s, Seed)
  <2>3. /\ f \in Files /\ HasTables(f) /\ f.layout = Layout(s) /\ f.version = s /\ f.mail = Seed
        /\ d = Pair("db", f, "migrating", c)
    BY <2>1, SeedFiles DEF Pair
  <2> HIDE DEF f
  <2> QED BY <2>2, <2>3, OlderDirs
<1>8. CASE \E s \in {0, 1} : \E t \in Targets(s) :
             d = [Nothing EXCEPT ![Backup(s)] = Older(s, Seed),
                                 !["migrating"] = Database(t, Seed, Origin(Seed, s, t, MaxMail, TRUE))]
  <2>a. PICK s \in {0, 1} : \E t \in Targets(s) :
          d = [Nothing EXCEPT ![Backup(s)] = Older(s, Seed),
                              !["migrating"] = Database(t, Seed, Origin(Seed, s, t, MaxMail, TRUE))]
    BY <1>8
  <2>1. PICK t \in Targets(s) :
          d = [Nothing EXCEPT ![Backup(s)] = Older(s, Seed),
                              !["migrating"] = Database(t, Seed, Origin(Seed, s, t, MaxMail, TRUE))]
    BY <2>a
  <2> DEFINE o == Origin(Seed, s, t, MaxMail, TRUE)
             c == Database(t, Seed, o)
             f == Older(s, Seed)
             b == Backup(s)
  <2>2. t \in {1, 2} /\ (t = 1 => s = 0)
    BY DEF Targets
  <2>3. /\ o \in RealOrigins /\ o.print = Seed /\ o.source = s
    <3>1. MaxMail \in 0 .. MaxMail
      BY Constants
    <3> QED BY <2>2, <3>1, SeedFiles DEF Origin, RealOrigins
  <2>4. c \in LeftCopies(s, t, Seed)
    BY DEF LeftCopies
  <2>5. c \in Files /\ HasTables(c) /\ CopyFits(c) /\ c.mail \subseteq Seed
    BY <2>4, SeedFiles, LeftCopiesFit
  <2>6. c.origin = o /\ c.version = t /\ o # NoOrigin
    <3>1. o \in Origins /\ o # NoOrigin
      BY <2>3, OriginsAre
    <3> HIDE DEF o
    <3> QED BY <2>2, <3>1, SeedFiles, FilesAre
  <2>7. f \in Files /\ HasTables(f) /\ f.mail = Seed
    BY SeedFiles
  <2>8. b \in Names /\ b # "migrating" /\ b # "db" /\ (s = 0 => b = "bak0")
    BY NamesAre DEF Backup
  <2>9. d = Pair(b, f, "migrating", c)
    BY <2>1 DEF Pair
  <2> HIDE DEF o, c, f, b
  <2>10. /\ d \in Dirs /\ WellFormed(d) /\ d[b] = f /\ d["migrating"] = c
         /\ \A n \in Names \ {b, "migrating"} : d[n] = Absent
    BY <1>2, <2>5, <2>7, <2>8, <2>9, TwoFiles
  <2>11. ~Exists(d, "db") /\ (t = 1 => ~Exists(d, "bak1"))
    BY <1>2, <2>2, <2>8, <2>10 DEF Exists
  <2>12. b = Backup(d["migrating"].origin.source)
    BY <2>3, <2>6, <2>10 DEF b
  <2>13. CanFinishSwap(d)
    <3>1. Exists(d, b)
      BY <2>7, <2>10, FilesAre DEF HasTables, Exists
    <3>2. IsMadeFrom(c, d[b].mail)
      BY <2>3, <2>6, <2>7, <2>10 DEF IsMadeFrom
    <3> QED BY <2>10, <2>12, <3>1, <3>2 DEF CanFinishSwap
  <2>14. IsComplete(d["migrating"]) /\ d["migrating"].origin.source \in {0, 1}
    BY <2>2, <2>3, <2>6, <2>10 DEF IsComplete, SchemaVersion
  <2>15. \A n \in Names : d[n].mail \subseteq d[Backup(d["migrating"].origin.source)].mail
    BY <2>5, <2>7, <2>10, <2>12, FilesAre
  <2> QED BY <2>5, <2>6, <2>10, <2>11, <2>13, <2>14, <2>15, HalfSwappedIsGood
<1>9. \/ d = Nothing \/ d = [Nothing EXCEPT !["db"] = EmptyFile]
      \/ \E s \in {0, 1} : d = [Nothing EXCEPT !["db"] = Older(s, Seed)]
      \/ d = [Nothing EXCEPT !["db"] = Database(1, Seed, Origin(Seed, 0, 1, MaxMail, TRUE)),
                             !["bak0"] = Older(0, Seed)]
      \/ \E s \in {0, 1} : \E t \in Targets(s) :
           \E c \in LeftCopies(s, t, Seed) \cup LeftCopies(s, t, {}) :
             d = [Nothing EXCEPT !["db"] = Older(s, Seed), !["migrating"] = c]
      \/ \E s \in {0, 1} : \E t \in Targets(s) :
           d = [Nothing EXCEPT ![Backup(s)] = Older(s, Seed),
                               !["migrating"] = Database(t, Seed, Origin(Seed, s, t, MaxMail, TRUE))]
  <2> DEFINE made(s, c) == [Nothing EXCEPT !["db"] = Older(s, Seed), !["migrating"] = c]
             copies(s, t) == LeftCopies(s, t, Seed) \cup LeftCopies(s, t, {})
             half(s, t) ==
               [Nothing EXCEPT ![Backup(s)] = Older(s, Seed),
                               !["migrating"] = Database(t, Seed, Origin(Seed, s, t, MaxMail, TRUE))]
             plain(s) == [Nothing EXCEPT !["db"] = Older(s, Seed)]
             begun == [Nothing EXCEPT !["db"] = EmptyFile]
             once == [Nothing EXCEPT !["db"] = Database(1, Seed, Origin(Seed, 0, 1, MaxMail, TRUE)),
                                     !["bak0"] = Older(0, Seed)]
             of(s, t) == {made(s, c) : c \in copies(s, t)}
             from(s) == UNION {of(s, t) : t \in Targets(s)}
             B == UNION {from(s) : s \in {0, 1}}
             C == UNION {{half(s, t) : t \in Targets(s)} : s \in {0, 1}}
  <2>1. d \in {Nothing, begun, plain(0), plain(1), once} \cup B \cup C
    BY DEF InitialDirs
  <2> HIDE DEF made, copies, half, plain, begun, once
  <2>2. d \in B => \E s \in {0, 1} : \E t \in Targets(s) : \E c \in copies(s, t) : d = made(s, c)
    <3>1. \A s \in {0, 1} : d \in from(s) => \E t \in Targets(s) : d \in of(s, t)
      <4> HIDE DEF of
      <4> QED BY Zenon
    <3>2. \A s, t : d \in of(s, t) => \E c \in copies(s, t) : d = made(s, c)
      BY Zenon
    <3> HIDE DEF of, from
    <3>3. d \in B => \E s \in {0, 1} : d \in from(s)
      BY Zenon
    <3> QED BY <3>1, <3>2, <3>3, Zenon
  <2>3. d \in C => \E s \in {0, 1} : \E t \in Targets(s) : d = half(s, t)
    BY Zenon
  <2> HIDE DEF B, C
  <2>4. \/ d = Nothing \/ d = begun \/ (\E s \in {0, 1} : d = plain(s)) \/ d = once
        \/ \E s \in {0, 1} : \E t \in Targets(s) : \E c \in copies(s, t) : d = made(s, c)
        \/ \E s \in {0, 1} : \E t \in Targets(s) : d = half(s, t)
    BY <2>1, <2>2, <2>3
  <2> QED BY <2>4 DEF made, copies, half, plain, begun, once
<1> QED BY <1>4, <1>5, <1>6, <1>7, <1>8, <1>9

-----------------------------------------------------------------------------
(* Every behaviour *)

\* The invariant holds at first.
LEMMA InitHolds == Init => MInv
<1> SUFFICES ASSUME Init PROVE MInv
  OBVIOUS
<1>1. /\ dir \in InitialDirs /\ stale = {} /\ pending = << >> /\ power = TRUE
      /\ pc = [p \in Procs |-> "idle"] /\ lock = Nobody /\ print = {}
      /\ handle = [q \in Users |-> "none"] /\ live = All(dir)
      /\ next = 1 + Cardinality(Seed) /\ forked = FALSE
  BY DEF Init, All
<1>2. dir \in Dirs /\ Good(dir, live, FALSE) /\ live \subseteq Ids
  BY <1>1, InitialDirsAreGood
<1>3. next \in 1 .. MaxMail + 1
  <2>1. MaxMail \in Nat /\ Seed \in SUBSET (1 .. MaxMail)
    BY Constants
  <2>2. IsFiniteSet(1 .. MaxMail) /\ Cardinality(1 .. MaxMail) = MaxMail
    <3>1. 1 \in Int /\ MaxMail \in Int
      BY <2>1
    <3>2. IsFiniteSet(1 .. MaxMail)
          /\ Cardinality(1 .. MaxMail) = IF 1 > MaxMail THEN 0 ELSE MaxMail - 1 + 1
      BY <3>1, FS_Interval
    <3> QED BY <2>1, <3>2
  <2>3. IsFiniteSet(Seed) /\ Cardinality(Seed) <= MaxMail
    BY <2>1, <2>2, FS_Subset
  <2>4. Cardinality(Seed) \in Nat
    BY <2>3, FS_CardinalityType
  <2> QED BY <1>1, <2>1, <2>3, <2>4
<1>4. /\ \A p \in Procs : pc[p] = "idle" /\ p \in Users
      /\ \A q \in Users : handle[q] = "none"
      /\ "older" \in Users /\ Nobody \notin Procs
      /\ "idle" \in PCs /\ "idle" \notin Running /\ "idle" \in Anywhere
  BY <1>1, Constants, PlacesAre DEF Users, PCs
<1>5. TypeOK
  <2>1. dir \in [Names -> Files] /\ stale \subseteq Names /\ print \subseteq Ids
    BY <1>1, <1>2 DEF Dirs
  <2>2. /\ pc \in [Procs -> PCs] /\ lock \in Procs \cup {Nobody}
        /\ handle \in [Users -> Names \cup {"none", "unlinked"}]
        /\ power \in BOOLEAN /\ forked \in BOOLEAN
    BY <1>1, <1>4
  <2>3. pending \in Seq(Ops)
    BY <1>1
  <2>4. \A p \in Procs : pc[p] \in Running <=> lock = p
    BY <1>1, <1>4
  <2> QED BY <1>2, <1>3, <2>1, <2>2, <2>3, <2>4 DEF TypeOK, Ops
<1>6. Opens
  BY <1>4 DEF Opens
<1>7. Places
  BY <1>4, AtAnywhere DEF Places
<1>8. Unsynced
  BY <1>1 DEF Unsynced, Waiting
<1>9. GoodHistory(dir, pending, live, forked)
  BY <1>1, <1>2, SyncedHistory
<1> QED BY <1>5, <1>6, <1>7, <1>8, <1>9 DEF MInv

\* Every step keeps the invariant: one case per action.
LEMMA NextKeeps ==
    ASSUME ~StartRaces, ~OlderRaces
    PROVE  MInv /\ [Next]_vars => MInv'
<1> SUFFICES ASSUME MInv, [Next]_vars PROVE MInv'
  OBVIOUS
<1>1. CASE UNCHANGED vars
  <2>1. TypeOK'
    BY <1>1 DEF MInv, vars, TypeOK
  <2>2. Opens'
    BY <1>1 DEF MInv, vars, Opens
  <2>3. Places' /\ Unsynced'
    BY <1>1 DEF MInv, vars, Places, Unsynced
  <2>4. GoodHistory(dir, pending, live, forked)'
    BY <1>1 DEF MInv, vars
  <2> QED BY <2>1, <2>2, <2>3, <2>4 DEF MInv
<1>2. ASSUME power, UNCHANGED power, NEW p \in Procs, Start(p)
      PROVE  MInv'
  BY <1>2, InspectStep, FinishSwapStep, PlaceCopyStep, SyncStep, LockSourceStep, PlanStep,
     RemoveCopyStep, CreateFileStep, CreateSchemaStep, CopyBatchStep, CopyFinishedStep,
     FinalizeStep, ReleaseStep, SwapStep, RenameDbStep
     DEF Start
<1>3. ASSUME power, UNCHANGED power, NEW p \in Procs, Restore(p)
      PROVE  MInv'
  BY <1>3, RestoreInspectStep, CheckpointStep, KeepDbStep, RestoreBackupStep, SyncStep
     DEF Restore
<1>4. ASSUME power, UNCHANGED power, NEW p \in Procs, Fail(p) \/ Pause(p)
      PROVE  MInv'
  BY <1>4, StopStep
<1>5. ASSUME power, UNCHANGED power, NEW p \in Procs, Server(p) \/ Crash(p)
      PROVE  MInv'
  BY <1>5, LeavingStep, ConnectStep, InitializeStep, ServeStep DEF Server
<1>6. ASSUME power, UNCHANGED power, NEW p \in Procs, NEW command \in {"inspect", "restore"},
             Begin(p, command)
      PROVE  MInv'
  BY <1>6, BeginStep
<1>7. ASSUME power, UNCHANGED power, OlderOpens \/ OlderBegins \/ OlderWrites \/ OlderCloses
      PROVE  MInv'
  BY <1>7, OlderHandleStep, OlderBeginsStep, OlderWritesStep
<1>8. CASE power /\ Step /\ UNCHANGED power
  BY <1>2, <1>3, <1>4, <1>5, <1>6, <1>7, <1>8 DEF Step, Run
<1>9. CASE PowerFails \/ Undo \/ PowerReturns
  BY <1>9, PowerFailsStep, UndoStep, PowerReturnsStep
<1> QED BY <1>1, <1>8, <1>9 DEF Next

\* The invariant of every behaviour in which both windows stay shut.
THEOREM MigrationInvariant ==
    ASSUME ~StartRaces, ~OlderRaces
    PROVE  Spec => []MInv
<1>1. MInv /\ [Next]_vars => MInv'
  BY NextKeeps
<1> QED BY <1>1, InitHolds, PTL DEF Spec

\* acquire_lock and BEGIN IMMEDIATE: one run at a time, whatever dies when, and
\* a source that stands still from its fingerprint to its release.
THEOREM RunsAreAloneAlways ==
    ASSUME ~StartRaces, ~OlderRaces
    PROVE  Spec => []RunsAreAlone
<1>1. MInv => RunsAreAlone
  <2> SUFFICES ASSUME MInv PROVE RunsAreAlone
    OBVIOUS
  <2>1. SourceStaysStill
    BY SourceIsPrinted DEF SourceStaysStill, Source
  <2> QED BY <2>1 DEF RunsAreAlone, MInv
<1> QED BY <1>1, MigrationInvariant, PTL

\* Every message accepted and not deleted is in a file with a name, through
\* every migration, restore, kill and outage, for any number of each.
THEOREM NoMailIsEverLost ==
    ASSUME ~StartRaces, ~OlderRaces
    PROVE  Spec => []NoMailLost
<1>1. MInv => NoMailLost
  BY Parts DEF NoMailLost, Good, Held
<1> QED BY <1>1, MigrationInvariant, PTL

\* What restore_backup would put back is what the database was made from.
THEOREM BackupIsAlwaysOriginal ==
    ASSUME ~StartRaces, ~OlderRaces
    PROVE  Spec => []BackupIsOriginal
<1>1. MInv => BackupIsOriginal
  BY Parts DEF BackupIsOriginal, Good, BackupFits
<1> QED BY <1>1, MigrationInvariant, PTL

\* However a run ended, the next start or restore goes on by itself.
THEOREM ThereIsAlwaysAWayForward ==
    ASSUME ~StartRaces, ~OlderRaces
    PROVE  Spec => []AlwaysAWayForward
<1>1. MInv => AlwaysAWayForward
  BY Parts DEF AlwaysAWayForward, Good, WayForward
<1> QED BY <1>1, MigrationInvariant, PTL

\* Only the two renames of a copy lead to their sync.
LEMMA OnlyRenames ==
    ASSUME MInv, Next, NEW p \in Procs, pc[p] \in {"rename_copy", "finish_rename"},
           pc'[p] \in {"sync", "finish_sync"}
    PROVE  power /\ UNCHANGED power /\ (RenameCopy(p) \/ FinishRename(p))
<1>1. pc \in [Procs -> PCs] /\ pc'[p] # pc[p] /\ pc'[p] # "idle"
  BY Parts
<1>2. ASSUME NEW q \in Procs, NEW place, Goto(q, place)
      PROVE  q = p /\ pc'[p] = place
  BY <1>1, <1>2 DEF Goto
<1>3. power /\ Step /\ UNCHANGED power
  BY <1>1 DEF Next, PowerFails, Undo, PowerReturns
<1>4. PICK q \in Procs : \/ \E command \in {"inspect", "restore"} : Begin(q, command)
                         \/ Run(q) \/ Pause(q) \/ Server(q) \/ Crash(q)
  BY <1>1, <1>3 DEF Step, OlderOpens, OlderBegins, OlderWrites, OlderCloses
<1>5. q = p
  <2>1. CASE \E command \in {"inspect", "restore"} : Begin(q, command)
    BY <1>2, <2>1 DEF Begin
  <2>2. CASE Start(q)
    BY <1>1, <1>2, <2>2
       DEF Start, Inspect, FinishSwap, FinishRename, Sync, LockSource, Plan, RemoveCopy,
           CreateFile, CreateSchema, CopyBatch, CopyFinished, Finalize, Release, Swap,
           RenameDb, RenameCopy, End
  <2>3. CASE Restore(q) \/ Fail(q) \/ Pause(q)
    BY <1>2, <2>3 DEF Restore, RestoreInspect, Checkpoint, KeepDb, RestoreBackup, Sync, Fail,
                      Pause, End
  <2>4. CASE Server(q) \/ Crash(q)
    BY <1>1, <1>2, <2>4 DEF Server, Leave, Connect, Initialize, Serve, Shutdown, Crash
  <2> QED BY <1>4, <2>1, <2>2, <2>3, <2>4 DEF Run
<1>6. ~(\E command \in {"inspect", "restore"} : Begin(p, command)) /\ ~Pause(p) /\ ~Fail(p)
  BY <1>1, <1>2 DEF Begin, Pause, Fail, End
<1>7. ~Server(p) /\ ~Crash(p)
  BY <1>1, <1>2 DEF Server, Leave, Connect, Initialize, Serve, Shutdown, Crash
<1>8. ~Restore(p)
  BY DEF Restore, RestoreInspect, Checkpoint, KeepDb, RestoreBackup, Sync
<1>9. Start(p) => RenameCopy(p) \/ FinishRename(p)
  BY DEF Start, Inspect, FinishSwap, Sync, LockSource, Plan, RemoveCopy, CreateFile,
              CreateSchema, CopyBatch, CopyFinished, Finalize, Release, Swap, RenameDb
<1> QED BY <1>3, <1>4, <1>5, <1>6, <1>7, <1>8, <1>9 DEF Run

\* The copy a start puts in place, resumed or not, is whole.
THEOREM CopyIsAlwaysWhole ==
    ASSUME ~StartRaces, ~OlderRaces
    PROVE  Spec => CopyIsWhole
<1> DEFINE whole ==
      \A p \in Procs :
        pc[p] \in {"rename_copy", "finish_rename"} /\ pc'[p] \in {"sync", "finish_sync"}
          => dir[Backup(Copy.origin.source)].mail \subseteq dir'["db"].mail
<1>1. MInv /\ [Next]_vars => [whole]_vars
  BY OnlyRenames, PlaceCopyStep
<1> QED BY <1>1, MigrationInvariant, PTL DEF CopyIsWhole, Spec

\* restore_backup puts the backup where nobody has a database open.
THEOREM RestoreAlwaysRefusesOpenFile ==
    ASSUME ~StartRaces, ~OlderRaces
    PROVE  Spec => RestoreRefusesOpenFile
<1> DEFINE closed ==
      \A p \in Procs :
        pc[p] = "restore_backup" /\ pc'[p] = "restore_sync" => \A q \in Users : handle[q] # "db"
<1>1. MInv /\ [Next]_vars => [closed]_vars
  <2> SUFFICES ASSUME MInv, NEW p \in Procs, pc[p] = "restore_backup"
               PROVE  \A q \in Users : handle[q] # "db"
    OBVIOUS
  <2>1. RestoreDecision(dir) = "finish"
    BY Parts DEF At
  <2>2. ~Exists(dir, "db")
    BY <2>1, Parts, RestoreDecides
  <2> QED BY <2>2 DEF MInv, Opens
<1> QED BY <1>1, MigrationInvariant, PTL DEF RestoreRefusesOpenFile, Spec
=============================================================================
