# RustMail in TLA+

RustMail is an SMTP catcher: test programs send it mail, it stores the mail in
SQLite and shows it over an HTTP API, a WebSocket feed, a browser interface and
a terminal interface. This directory models the parts of it where order,
failure and interleaving matter, checks them with TLC on small instances and
proves the most important properties with TLAPS for every instance.

Paths below are relative to the repository; line numbers are in
`PROJECT.json` under `map`.

## 1. Inventory

| Component | State it keeps | Operations | Talks to |
|---|---|---|---|
| SMTP accept loop (`rustmail-smtp/src/server.rs`) | session permits, accept backoff | accept, refuse with 421, spawn a session | sessions |
| SMTP session (`session.rs`) | greeting, transaction (`mail_from`, `rcpt_to`), TLS layer, command count, line buffers | EHLO, STARTTLS, MAIL, RCPT, DATA, RSET, AUTH, QUIT, deadlines | client over TCP; message processor over a channel |
| Delivery hand-off (`message.rs`, `session.rs` deliver) | bounded `mpsc` of deliveries, one `oneshot` per delivery | send, wait for the verdict, give up after `STORE_ACK_TIMEOUT` | session and processor |
| Message processor (`rustmail-server/src/main.rs`) | batch, groups, prepared messages, fallback deadline | take a batch, split it into transactions, commit, fall back one by one, drain on stop | repository, event feed, webhooks |
| Repository (`rustmail-storage/src/repo.rs`, ...) | `messages`, contents, attachments, tags, FTS index; one writer, a pool of readers | insert, list, search, update, delete, trim, reclaim | SQLite |
| Storage migration (`migrate.rs`, `migrate/build.rs`) | the files `<db>`, `<db>.migrating`, `<db>.schemaN.bak`, `<db>.migration-lock` | decide, copy in batches, pause, resume, verify, swap, finish a swap | the file system, other rustmail processes |
| Backup restore (`migrate/restore.rs`) | the same files and `<db>.schema2-<timestamp>` | check, keep the database, move the backup back, finish an interrupted restore | the same |
| HTTP API (`rustmail-api/src/handlers.rs`) | none of its own; what browsers may cache | list, read, update, delete, clear, release; a time limit on reads | repository, event feed, the configured relay |
| Event feed (`state.rs`, `ws.rs`) | broadcast ring, connection count | broadcast, send, lag, close | browser and terminal clients |
| Retention, webhook, assert mode (`main.rs`) | timers, a semaphore, counts | purge, trim, post, wait for a condition | repository, event feed |
| Browser inbox (`ui/src/stores/messages.ts`) | list, hidden and pending ids, queued events, cursor | apply events, read pages, optimistic writes, undo | HTTP API, event feed |
| Terminal interface (`rustmail-tui/src`) | list, selection, detail | the same, in Rust | HTTP API, event feed |
| Host and origin guard, static files (`rustmail-api/src`) | the names and origins configured; the embedded build | accept or refuse a request, serve a page or a script | HTTP API, browsers and proxies |
| Command line, configuration, startup and stop (`main.rs`) | flags, environment, TOML file; the stop request | load, parse, check, bind, spawn, drain, close | everything above |

What is hard in this system, and what correctness means for it:

- *Ingest.* A sender that is told `250` never sends again, one that is told
  `451` does. So `250` must mean stored; a refusal should mean not stored; and
  a message must never be committed twice or out of arrival order, although
  sessions time out while the processor works, batches fail and are retried
  one by one, and shutdown aborts what is in flight. Every delivery must get a
  verdict, and every session must get rid of its delivery.
- *SMTP protocol.* A message must carry the recipients of its own transaction,
  nothing said in clear text may survive STARTTLS, and no peer may hold a
  session by stalling or chattering.
- *DATA phase.* Where the message ends decides what is read as a command
  afterwards. The answer must not depend on how TCP splits the stream, and
  neither may the size limit.
- *Migration and restore.* No interruption may lose mail, leave a directory
  no run can continue from, or put the wrong file in place.
- *Repository.* Row numbers are used again, the full-text index has no foreign
  key, and a page is read in several queries. A search must find exactly the
  messages that match, and a client that walks page by page must see every
  message that stays.
- *Feed and clients.* What a client shows must converge to what the store
  holds, whatever order events, reads, writes and answers arrive in, with
  bounded queues at every hop.
- *Tasks.* Sessions, sockets and webhooks hold slots of bounded semaphores:
  none may leak, no dead peer may keep one, and a stop must end the process
  whenever it comes.
- *Upkeep.* Retention and page reclaim run beside inserts and deletes, must do
  their work in the end and must not loop.
- *Surface.* A setting counts in the documented order; the guard lets the
  server's own page in and no stranger's; answers that are kept for ever must
  be of things that never change; mail is released to one relay only.

`PROJECT.json` lists the hazards one by one, each with the properties that
would catch it.

## 2. Plan

| Step | Modules | State |
|---|---|---|
| 1 | `Ingest`, refining `Capture`; `IngestProofs` | modelled, checked, proved |
| 2 | `DataPhase`, `DataPhaseProofs`; `SmtpSession` | modelled, checked; the framing and the session's safety proved |
| 3 | `Migration`, `MigrationProofs` | modelled, checked; its safety proved |
| 4 | `Store`, `StoreProofs`, `Reclaim`, `ReclaimProofs`, `Reads`, `Matching`: the repository | modelled, checked; the tables, the walk, the trim and the bound of a reclaim proved |
| 5 | `Feed` and `Screen`: the terminal interface; `Sockets`; `Inbox`: the browser | modelled, checked |
| 6 | `Serve`, `AssertMode`, `Release`, `Gate`, `StaticFiles`, `Config` | modelled, checked |
| 7 | `TasksProofs`: session, slots, idle deadline and verdict of `SmtpSession`, `Serve`, `Sockets` and `AssertMode` | proved |
| 8 | `SurfaceProofs`: `Config`, `Gate`, `Reads`, `Matching`, `Release`, `StaticFiles` | proved |
| 9 | `TerminalProofs`: the panes and the cursor of `Screen`, what `Feed` owes | proved |

Left to prove: `ViewIsRight` of `Feed` and the safety of `Inbox` (section 7 says
why they stay with TLC).

Left to model: a timed `Ingest` with the budget of its fallback; searches,
filters and held arrivals of the browser's list; one composition in which
`Inbox` reads through `Store` and hears through `Feed`, in place of the small
server each has now.

## 3. Modules

### Capture, Ingest

`Capture` is the promise to senders: a log of messages and the reply to each.
It knows no sessions, channel or batches. `Store` extends the log with a
sorted run of new messages, `Accept` answers `250` for one that is in the log,
`Refuse` answers `451` for one that is not (unless the processor went down),
and `GiveUp` is the timeout, which says nothing about the log.

`Ingest` is the code. A delivery is named by its ticket, the order in which the
channel accepted it; its content is its size. Per session `phase` and `ticket`
are where `deliver()` stands; `queue` and `rx` the channel; `ack` the oneshots;
`pc`, `rest`, `group`, `messages` and `expired` the processor's locals at each
await point of `next_batch`, `store_and_announce`, `store_group` and
`store_one_by_one`; `log` the committed messages. An insert is two steps, the
commit and its return, because sessions give up and shutdown aborts in between.
After an abort a write in flight may still reach the log
(`LogAfterDrop`): SQLite's worker thread finishes what it was given.
`Stop`, `CloseQueue`, `Abort`, `Bail` and `Exit` are `run_serve`'s end.
`Promise == INSTANCE Capture WITH down <- (pc = "aborted")`, and
`ImplementsPromise` is the refinement.

### DataPhase

`receive_data`, `read_line_untimed` and `drain_data` over a stream of bytes,
abstracted to the four the code tells apart. Every step consumes a chunk that
TCP chose. The reference definition (`Dot`, `IsTooLarge`, `Verdict`) looks at
the whole stream at once; the properties say that the incremental code agrees
with it.

### SmtpSession

The command loop of `handle()`: one action per command, plus the reads of AUTH,
the TLS handshake, the end of DATA, the verdict and the disconnect. Addresses
are abstracted to the MAIL command they belong to and the TLS layer they
arrived in, which is what the properties ask about. `buffered` holds the lines
the client sent ahead of the answers (at most `MaxAhead`), each with the layer
it was sent in: a command is taken from there first, and a STARTTLS with
anything left in the buffer ends the session, since those bytes came in the
clear. `peer` says whether the client still talks.

### Migration

The directory is a function from names to files; a file is its layout, its
`user_version`, the messages it holds and its `migration_origin` row. The
fingerprint of a file is the set of its messages: collisions of the hash are
left out, and so is everything in a message that the fingerprint covers beside
its identity. One step of a process is one file operation or one SQLite
transaction:

- a start takes the lock (`Begin`), decides by the table of `prepare_with`
  (`Inspect`, `StartDecision`), finishes an interrupted swap (`FinishSwap`,
  `FinishRename`, `Sync`) or migrates (`LockSource` ... `Release`) and swaps
  (`Swap`, `RenameDb`, `RenameCopy`, `Sync`), then opens the file (`Connect`,
  `Initialize`) and serves;
- a restore goes through `RestoreInspect`, `Checkpoint`, `KeepDb`,
  `RestoreBackup`, `Sync`;
- any of these may fail (`Fail`), pause where the code pauses, or die (`Crash`);
- the power may fail at any time. `pending` holds the directory changes that no
  sync has covered, and an outage undoes any suffix of them (`Undo`). Data that
  SQLite committed is taken to be durable, and committing it syncs the
  directory, since SQLite syncs the directory of a journal or WAL it creates;
- an older rustmail opens, writes and closes the same path: 0.7 without
  knowing the lock, 0.8 and 0.9 a schema-1 file when the lock is free.

`Init` is any directory an older version may have left: a database of schema 0
or 1, with a copy 0.8 to 0.10.0 was building or swapping in, of the present
content or of an earlier one, or nothing.

The code rebuilds a copy within a run when the second fingerprint differs
(`MAX_BUILD_ATTEMPTS`). `SourceStaysStill` shows that the write lock makes this
unreachable, so `Release` has no such branch.

Two windows of the code are parameters. `StartRaces`: another run may begin
after a start dropped the lock and before it opens its file. `OlderRaces`: an
older rustmail may act between a check and the renames it allows. The passing
runs exclude them; the runs `migration_open` and `migration_older` include one
each and show what happens (section 6).

### Store

The tables of schema 2 as functions from `seq`: `messages`, `content`,
`attachments`, `tagRows` and `fts`. A row of the index remembers which message
it was made for (`of`), so a property can tell a stale row from a right one.
`InsertBatch`, `UpdateMessage`, `DeleteMessage` and `DeleteAll` are one
transaction each, and so one step, triggers and cascades included. Retention is
a small program of its own (`SweepBegin`, `CheckOlder`, `DeleteOlderThan`,
`CheckTrim`, `TrimToMax`), because the code looks first and takes the write
lock afterwards. It may find it taken and try again (`SweepContended`), or give
up: at the last attempt, because the time for retries is spent, or at once on
any other error (`SweepGivesUp`). `WalkBegin`,
`WalkPage`, `WalkCount` and `WalkCursor` are a client that pages through a
listing or a search: a page, its total and the lookup of its cursor are
separate reads.

### Reclaim, Matching, Reads

`Reclaim` counts pages. Any number of delete-all requests (`Clears`) and the
retention task run the loop of `incremental_vacuum` steps on the single writer,
one statement per action, while inserts take free pages and deletes make new
ones.

`Matching` is the filter of `count_matching` as operators on short strings:
lowering by Rust, the three replacements of `escape_like` in their order over an
alphabet that has the escape character itself, the pattern as `LIKE ... ESCAPE`
reads it letter by letter, and lowering by SQLite; against the reference "the
text contains the filter, case apart".

`Reads` has the handlers for one message. A message is its length, the place
where its header section ends and how its attachment is stored. Between any two
steps of a request the message may be deleted, updated or damaged on disk, and
a read may be cut off by the time limit that writes do not have. Frames carry no
checksum, so a damaged one may decode to any bytes of any length: the code
compares the length of a source and of a located part with what was recorded,
that of a prefix with nothing, and an inline part not at all. `intact` says
whether the bytes are the captured ones. `cache` is what a browser kept of the
answers marked immutable.

### Feed, Screen

`Feed` follows a change from its commit to the terminal's list: handlers and
the ingest task between commit and announcement (`jobs`, `arrivals`), the
broadcast ring (`log` and its last `RingCap` entries), one connection, the
client's event queue, its fetches and the deltas it records while one is in
flight. The lines of `app.rs` become `Live` (an event on the list),
`ReplayDelta` (an event on a snapshot), `HandleWsOverflow` and so on.
`races`, which no step changes, names the overlaps a behaviour allows. Without
any, the server finishes one thing before it starts another, and the client has
to be exactly right (`ViewIsRight`). Some of the overlaps lead to views that
stay wrong (section 6); with all of them on, what is checked is what the code
promises even then: what the client's full queue turned away is read again
(`DropIsRepaid`), and arrivals are announced in the order of their commits
(`ArrivalsInOrder`). Three overlaps let events be missed for good: the first
page is read before the first subscription (`"first"`), a connection is reported
as open before the server subscribes it (`"upgrade"`), and the list request of a
reconnect fails (`"fetch fails"`). With all the others, whatever was missed is
still owed a full read (`ResyncIsOwed`).

`Screen` is the rest of the terminal interface that can be wrong: cursor,
preview pane, raw view and dialogs, over a list that simply changes, with
answers in any order.

### Inbox

`stores/messages.ts` in one browser tab. The variable `c` is the JavaScript
state (rows, total, cursor, hidden and undoable deletions, reads under way) and
each action is one turn of the event loop. The counters by which the code
recognises outdated reads are abstracted to the outcome of their comparison: a
read carries whether something has `raced` it, whether it is still `valid` or
`stale`. A message arrives and is announced in one step, since the gap between
the two is `Feed`'s subject. The last of `LIST_READ_ATTEMPTS` takes its page
even when deletions outdated it. The `refreshTotal` that follows repairs the
count and not the rows, and the event of a confirmed deletion is ignored, so a
message that is gone may stay on the screen until the list is read again.
`misread` remembers that this happened: the rows are right unless it did, the
total is right whatever happened, and a deleted row comes back for no other
reason (`ReturnsOnlyMisread`). The run `inbox_raced` asks for the claim of the
code's comment without this exception.

### Sockets, Serve, AssertMode

`Sockets`: handshake, slot and the task of each WebSocket, with time in ticks.
A tick waits until no task has a branch ready, so tasks are as fast as their
peers let them be, and which of several ready branches `select!` takes is free.

`Serve`: one process from configuration to exit, with a signal at any moment;
in it the accept loop (permits, 421, backoff) and the webhook tasks.

`AssertMode`: `rustmail assert`, its batches, its count, its timeout and its
exit code.

### Release, Gate, StaticFiles, Config

`Release`: policy, two reads with deletions and errors in between, the security
that the port stands for and the transport `relay_transport` makes of it, and the
dialogue with the relay, which may fail at each step or not offer STARTTLS;
`accepted` is what the relay really took, and over what. `Gate`: host names and
origins as records of what the parser tells apart (name, capitals, port,
cleanliness), blank entries dropped as the start does, with browsers that
normalise and proxies that respell. `StaticFiles`: pages with ETags (and the
`*` a request may ask with), hashed
scripts that are kept for ever, and a server that is upgraded or rolled back
between two requests. `Config`: file, environment, flags and defaults, in the
order in which the code really combines them.

### The MC modules

`MCIngest`, `MCMigration` and `MCSmtpSession` extend the module they check, and
`inbox_raced` runs `Inbox` itself. `MCStorage`, `MCUpkeep`, `MCClients`,
`MCClientsLive`, `Surface` and `MCTasks` put several components side by side,
each an `INSTANCE` with its own bounds (some of them by `EXTENDS`, which is why
`Store`'s specification has names of its own beside `Migration`'s), and a variable
`part` says which one runs. `MCTasks`, `Terminal`, which `MCClients` extends, and
`Surface`, which `MCSurface` gives values, take the parameters of their parts as
constants of their own, so that the theorems of `TasksProofs`, `TerminalProofs`
and `SurfaceProofs` are about every value. `Terminal` has `S`, the screen, and
`FX`, the feed with every overlap; `Allowed` takes the three late ones out of
the part `"feed resync"`. `MCClients` adds instances with numbers of `Feed` and
`Inbox`. Those components share no variable, so
interleaving them would multiply states and show nothing; their properties are
stated as conjunctions, one per question (`GuardIsRight`, `ProcessEnds`), of the
properties named in the components. Where a component needs several instances
(a wide one without faults, a narrow one with them), each is a part of its own.

## 4. Runs

| Run | Checks | Instance |
|---|---|---|
| `ingest` | `StoredBeforeOk`, `StoredOnceInOrder`, `RetryIsHonest`, `DrainDropsNothing`, the inductive invariant `IInv`, refinement of `Capture`, `AbandonedIsNotStored`, `NobodyWaitsForEver` | 2 sessions, 3 deliveries, channel of 2, batches of 3, transactions of 3 bytes, sizes 1 and 2 |
| `storage` | `RunsAreAlone`, `NoMailLost`, `BackupIsOriginal`, `AlwaysAWayForward`, `CopyIsWhole`; `TablesAgree`, `WalkIsExact`, `TrimKeepsNewest` | files: 2 processes and an older rustmail, 2 messages at first and 1 more, batches of 1, 1 kept file, outages undo up to 2 changes; tables: 3 messages with a tag and an attachment, batches of 2, 2 kept by retention, a clock; walk: 4 messages, 2 words, pages of 1 |
| `upkeep` | `RunEnds`, `StepsBounded`, `SweepsSettle` | a migration by 1 process; 4 messages, 1 kept; a delete-all and a sweep on 3 pages, steps of 2 |
| `clients` | `TerminalListIsRight`, `PanesAreRight`, `MissedIsRepaid`, `InboxIsRight`, `CursorStays` | ten parts: the feed alone, with reconnects, with every overlap, with those after which a reconnect still resyncs; the screen with changes, requests and failures; the inbox with two deletions and undo, with faults, beside another client, with deletions that outdate every attempt at the first page and at an older one |
| `clients_live` | `ClientsSettle` | queue, delta buffer and ring of 1 with a broken connection; the screen; the inbox with every overlap |
| `surface` | `DataIsFramed`, `SettingsAreRight`, `GuardIsRight`, `AnswersAreTrue`, `CountedIffItContains`, `ReleaseIsTrue`, `PagesAreWhole` | all streams of up to 7 bytes, maximum sizes 0, 1 and 3; any two options in any source; 4 names, 3 ports, 6 flags; 2 requests for a message of 3 bytes; texts of 3 and filters of 2 characters out of 7; 4 relays, 12 bodies, 4 messages; 3 builds |
| `tasks` | `EnvelopeIsOneTransaction`, `NothingCrossesStartTls`, `SlotsAccountedFor`, `IdleMeansSilent`, `PassIsEarned`, `DeadPeersAreCutOff`, `WaitersAreServed`, `ProcessEnds` | session: 2 recipients, 6 commands, 2 transactions told apart, 1 line sent ahead; 2 peers for 1 session, 2 webhooks for 1 permit; 2 sockets for 1 slot; 2 matches out of 3 messages |
| `ingest_stalled` | `SessionNeverHangs`: violated | a store that stops answering, channel of 1 |
| `smtp_session_cap` | `CapCountsUnproductive`: violated | 4 commands |
| `migration_open` | `RestoreRefusesOpenFile`: violated | 2 processes, `StartRaces` |
| `migration_older` | `CopyIsWhole`: violated | 1 process, `OlderRaces` |
| `inbox_raced` | `DeletedStaysGone`: violated | 3 messages, 3 deletions of which 1 is the reader's, 3 attempts at a read |

Why the bounds are enough.

*Ingest.* One session waits for its verdict or gives up while the other is
handed over; three deliveries of two sizes make batches of one and two groups,
groups of one and two messages, a fallback with a message after the failing
one, and a second batch. The proofs cover every other size.

*DATA.* Seven bytes hold a stuffed line, a line the limit cuts and a terminator,
in every combination; maximum 0, 1 and 3 put the cut in a terminator, at a
line's end and inside a line.

*Sessions.* Six commands allow EHLO, STARTTLS, EHLO, MAIL, RCPT and DATA, and
DATA sets the count back; two tags tell a transaction from the last one; one
line sent ahead is enough to lie in the buffer at STARTTLS. `TasksProofs` covers
every other number.

*Migration.* One start at a time holds the lock, so a second process is what a
lock or a stale check can be wrong about; two messages and batches of one give
a copy that is empty, half done and whole; a third message makes a database
differ from the file it was made from; one kept file lets a restore happen, a
second migration follow and a second restore find the name taken. Two undone
changes cover the two renames of a swap or a restore.

*Store.* Reuse of a number takes a delete of the newest message and one more
insert; a batch of two reuses one number and takes a fresh one. Four messages
and pages of one give a walk of several pages with an insert and a delete
between any two reads. Retention that keeps two has one to drop. A contended
write is tried twice in the walk and in `upkeep`, once beside tags and
attachments.

*Feed.* Two messages and a page of one put a message past the page and one on
it; a queue and a ring of one or two overflow at the second event; three
fetches are one superseded, one landing and one owed. With every overlap the
queue has one place and the ring two: two messages and a clear fill both, and a
connection that lags is closed and made again. *Screen.* Two messages, one of
them selected; two changes and two requests, or one change and three, order an
answer before and after the move that outdates it. `TerminalProofs` covers
every other number of both. *Inbox.* Two messages
before the tab opens fill its page, the third pushes one off; one lost socket,
one failed request and one clear are each enough to lose events, and happen
around any step of a deletion. Three deletions, or two and a clear, outdate all
three attempts of a read.

What these instances leave out: `TerminalListIsRight` and `InboxIsRight` have no
overlap on the server's side (an announcement after later reads, a page and its
total read apart), because with them no client can be right (section 6);
`MissedIsRepaid` has them, without a broken connection, which the reconnect part
of `TerminalListIsRight` and the theorem `MissedIsAlwaysRepaid` cover. The raw
tab of the pane is in no property: it can show another message's source
(section 6, *The preview*).

*Tasks.* One slot and two that want it: one always waits. The idle timeout
is two ping intervals (three in the code: the narrower margin is the harder
case), and a send may time out within one.

*Surface.* These are small finite spaces, enumerated whole: every pair of
options with every value in each of the three sources, every spelling of the
flags, every text and filter over the alphabet. A filter of two characters holds
a wildcard or a backslash beside a letter; three characters of text have room before, between
and after; the seven letters are a lower-case and an upper-case one in ASCII and
outside, the two wildcards and the backslash. The proofs cover any set of options, names, ports, messages and
builds.

## 5. Fairness

- `Ingest`: a task that can run does (tokio wakes it), and an insert returns,
  because `busy_timeout` bounds an attempt and `retry_on_lock` the attempts. No
  sender has to send, no timer has to be first and nobody has to stop the
  program. `StalledStoreSpec` drops the assumption about inserts and has all
  timers fire instead.
- `SmtpSession`: every wait of a session ends, in a line, a verdict or its own
  deadline. That the verdict comes is shown by `ingest`, and that it need
  not come by `ingest_stalled`.
- `Migration`: a run takes its next step or fails with an error; nothing in it
  waits for another process (a lock that is held is an error, not a wait).
  Crashes, outages, pauses and other processes are not fair.
- `Store`: the retention task runs again and again, an interval after the last
  time. The check and the delete of a trim are strongly fair: the write lock is
  given up by whoever holds it, so five attempts are not all unlucky for ever,
  and not every tick has a statement that fails. Clients and senders are not
  fair.
- `Reclaim`: a task takes its next statement (weak); sweeps recur (weak); for
  `FreelistSettles` the retention task's statements are strongly fair, since
  the budget must not run out before the first step each time.
- `Feed`: a committed change is announced, a handler answers, the link
  reconnects after its delay, the pump and the event loop go on, and the tick
  comes: all weak, all tasks that are woken. Nobody has to write, and a
  connection need not break or hold.
- `Screen`: requests are answered, by a client with a timeout (weak).
- `Inbox`: timers fire and requests are answered or fail (weak). An undo is not
  owed, nor is a deletion by the reader.
- `Sockets`: time passes and a task with a ready branch takes one (weak). The
  idle and lag branches are strongly fair, because `select!` picks at random
  among the ready ones: a branch that is ready again and again is picked.
- `Serve`: `run_serve` takes its next step, a signal's handler runs and the
  backoff's sleep ends (weak). Accepting a given peer and taking a webhook
  permit are strongly fair: the kernel's accept queue and tokio's semaphore are
  first in, first out. Sessions need not end.
- `AssertMode`: binding, the checker and the exit go on (weak). Mail and the
  timeout are not fair.

In the MC modules each condition is conjoined with `part`, so that a part which
does not run is asked for nothing.

## 6. Disagreements between code and documentation

- A session can wait without limit for a slot in the channel
  (`session.rs:418`), although `server.rs:56` says that every await carries a
  deadline (`ingest_stalled`).
- The command cap is reset by every received message, also by one refused with
  `451` (`session.rs:223`), although the comment at `session.rs:42` speaks of a
  successful `DATA` (`smtp_session_cap`).
- A start drops the migration lock before it opens its file (`main.rs:1067` and
  `1073`), so a restore in between replaces a file that is open, although
  `docs/getting-started/upgrading.md:116` says that it refuses
  (`migration_open`). In the counterexample the start creates a new database
  where the restore has just moved the old one away, and the restore renames
  the backup over it.
- The write transaction that keeps older versions out ends before the renames
  (`migrate.rs:780`), so the copy that is swapped in may lack what an older
  rustmail stored in that moment (`migration_older`). The message is not lost:
  it is in the backup.
- Three deletions confirmed during the three attempts at one first page leave a
  message on the screen that is gone (`messages.ts:973`): the last page is shown,
  the read that follows sets only the count (`982`), and the deletion's event is
  ignored because it is confirmed already (`660`). The comment at
  `messages.ts:717` says that a message the server confirmed gone must not
  reappear (`inbox_raced`).

Others came up while modelling and are recorded here with the constant that
lets the model reach them; the passing runs leave those constants out, and the
properties then say what the code does promise.

- *Paging over reused numbers* (`handlers.rs:97`, `schema.rs:159`). The cursor's
  `seq` is looked up in one read and the page below it in another. After a
  delete-all in between numbers start again, and the page holds mail that
  arrived after the cursor's message. `WalkIsExact` speaks of messages that
  were there all the time.
- *Late announcements* (`main.rs:629`; `Feed`, race `"announce"`). A delete can
  be committed and announced between the commit and the announcement of the
  message it deletes; the message then comes back in every terminal list. A
  clear, or two updates, can likewise be announced in the other order.
- *A failed resync* (`app.rs:799`; race `"fetch fails"`). When the list request
  of a reconnect fails, nothing asks again.
- *Before the subscription* (`ws.rs:89`, `app.rs:217`; races `"first"`,
  `"upgrade"`). The first page may be read before the feed is open, and the
  server subscribes a connection after it answered the handshake: what is
  announced in between reaches nobody, and the first connection asks for no
  list.
- *Deltas on the wrong snapshot* (`app.rs:745`, `1171`; races `"held over"`,
  `"overtake"`). Deltas recorded for a superseded fetch are replayed onto the
  next snapshot, a clear removes what arrived after it, and an arrival the
  snapshot holds past its page is counted twice.
- *An abandoned request* (`handlers.rs:223`; race `"abandon"`). hyper drops the
  handler of a client that went away after its delete was committed: the event
  is never sent.
- *The preview* (`app.rs:799`, `806`, `816`; `Faults`). With
  a failed list request it keeps a deleted message, on an empty list its
  loading flag stays set. `PreviewIsSelected` therefore leaves out the time from
  a failed request to the next one (`failed`). And the pane may show the raw
  source of the message the cursor was on before: `load_preview` returns early
  when the preview it holds is the selected one, without dropping
  `preview_raw`, so the raw text loaded for a message in between stays (the test
  `raw_of_a_message_left_is_not_shown_in_the_loaded_preview` has the answer come
  after the return, not before it).
- *Slow readers* (`ws.rs:130`; `Kinds` with `"slow"`). No frame is read while a
  send blocks, so a peer that reads slowly and answers every ping can be closed
  as idle.
- *Damage* (`content.rs:42`, `repo.rs:999`). Frames are written without a
  checksum: one whose bytes changed but whose length did not is served as a 200,
  and so is a damaged inline part of any length. `AnswersAreTrue` says what does
  hold: the recorded size, and the captured bytes while nothing is damaged.
- *Reclaim* (`reclaim.rs:125`). A delete between two steps makes the loop take
  the longer freelist for a step that freed nothing.
- *Webhooks* (`main.rs:1122`). The stop does not wait for them.
- *Assert* (`main.rs:344`; `MinCount` 0). The count is looked at after a batch
  only, so `--min-count 0` with no mail fails.
- *Accents* (`repo.rs:1110`; the letter `"EA"`). SQLite lowers ASCII only: a
  subject with an upper-case accented letter is not found by itself.
  `CountedIffItContains` lets only such a text be left out.
- *The browser's total and rows* (`messages.ts:174`, `591`, `660`, `668`,
  `1073`; races `"two reads"`, `"late event"`, `"older page"`). Late events can
  lower the total twice or bring a confirmed deletion back, an older page
  replaces the total an arrival raised, and a list whose loaded rows all go has
  no cursor although older mail is there.

## 7. Proofs

From `IngestAssumption` (capacities are positive naturals, sizes naturals),
`SmtpSessionAssumption`, `DataPhaseAssumption`, `ReclaimAssumption`,
`StoreAssumption`, `MigrationAssumption`, `TasksAssumption`, `TerminalAssumption`
and `SurfaceAssumption`; nothing bounds the number of sessions, processes or
messages, and every cap is a parameter. The one exception is `MaxKept`, how many
restores can keep the database they replace: one or two.

`IngestProofs`. `IInv` is the conjunction of `TypeOK` and five parts:
`Arrivals` (queue, batch rest and group are consecutive runs of tickets in
arrival order), `Writes` (log and prepared messages are sorted, the log
below what is still to come), `Control` (which locals are empty at
which await point), `Held` (each delivery without a verdict is in exactly the
places where its ack can be) and `Verdicts` (each verdict and each reply is
true of the log). None of the safety properties is inductive alone: that a
`250` is true needs to know that an ack is only settled as stored after its own
commit, that needs to know which tickets the processor holds, and that needs the
order from the channel on. One lemma per action shows that it keeps `IInv`;
lemmas on appending, cutting and joining sorted sequences come first. The
theorems `OkMeansStored`, `StoredInOrder`, `RefusalsAreHonest` and
`DrainKeepsVerdicts` follow. Every step from a state in `IInv` is a step of
`Capture` or leaves its variables alone; `IngestKeepsPromise` states it as
refinement. `AbandonedIsNeverStored` speaks of a state and all later ones: a
ticket whose session gave up while the processor had not yet looked at it is
`Doomed`, that is given up on and neither in the log nor among the prepared
messages, and a doomed ticket stays so in every step, because the group is
filtered by `is_abandoned` when it is prepared.

`DataPhaseProofs`. `DataIsFramed` compares the code's buffers with the whole
stream, so the invariant has to say which part of the stream each buffer stands
for. `DInv` adds `Receiving` (the line in hand began where a line of the stream
begins, no line before it was the dot, what was collected is those lines
without their stuffed dots, and its size is what the limit was compared with) and
`Draining` (while the rest of a message that is too large is read, the few bytes
kept are the head of the line in hand). Stuffed dots are counted by the
cardinality of the set of stuffed lines before a position, which needs no
recursion and grows by at most one with each line. `Dot`, the
reference's first terminator, is a least position, which exists because
inclusion among finite sets is well founded. `DataIsFramedAlways` follows, for
streams, chunks and limits of any size.

`ReclaimProofs`. `StepsBounded` alone does not survive a turn of the loop.
`Progress` adds that a task in its loop has
`steps + known <= before`: a turn that goes on found fewer free pages than the
last one left, so it pays for its own step. `ReclaimIsBounded` follows, for
files and steps of any size and any number of delete-alls at once.

`StoreProofs`. `SInv` is `StoreTypeOK` with `RowsAgree`, `PartsAgree` and `TagsAgree`
(the search index, the content and attachments, and the tags have a row
for a message exactly when it is there, made for that very message),
`Arrival` (numbers and ids grow together, no number is ahead of its id and no id
ahead of the last one minted) and `WalkInv` (where the walk stands, what is
still to come was not listed yet, and what has to be listed was or is still to
come). Searches, filters and reads are exact because of the first three, and
these survive the reuse of a number because of the fourth: `InsertBatch` may
give a number again, and the rows under it must be nobody's. What `ORDER BY seq
DESC LIMIT n` returns is proved from an order of the rows that exists for every
finite set; the induction is in `SmallestOf` (among finite sets there is one
that contains no other), the well-foundedness of inclusion in a form the provers
can use.
`TablesAgreeAlways`, `WalkIsExactAlways` and `TrimKeepsNewestAlways` follow.

`MigrationProofs`. An outage may undo any suffix of the directory changes that
no sync has covered, so an invariant of the present directory cannot be
inductive. `MInv` therefore speaks of every directory the present one can fall
back to: `GoodHistory` says that undoing the members of `pending` one by one,
from the last, goes through directories that are all `Good`. A good directory
holds all live mail (`Held`), its finished copy and its backups hold what the
files they were made from held (`CopyFits`, `BackupFits`, `CopyFollowed`), and a
start or a restore can go on from it (`WayForward`). The rest of `MInv` is what
each place of a run relies on (`Places`: that the source stands still, that the
copy is a prefix of it, that the names it is about to take are free), who has
which file open (`Opens`) and which changes are unsynced where
(`Unsynced`). One lemma per action, over general lemmas on renames, on changes
of the copy and on histories. The theorems assume `~StartRaces` and
`~OlderRaces`: with either window open the property concerned is false, as
`migration_open` and `migration_older` show. `RunsAreAloneAlways`,
`NoMailIsEverLost`, `BackupIsAlwaysOriginal`, `ThereIsAlwaysAWayForward` and
`CopyIsAlwaysWhole` follow, and `RestoreAlwaysRefusesOpenFile`: what the
upgrading guide says of a restore is true but for the first window.

`TasksProofs`. For the SMTP session, `SessionInv` is `TypeOK` with the two
safety properties, the second of which speaks of the buffered lines too; the
proof has one step per command. `TasksInv` is the conjunction of one invariant per part, since a
part that does not run keeps its own. `ServeInv` and `SocketsInv` are the types
with the accounts of the permits, which are inductive together: the set of those
who hold a permit gains or loses one element exactly when the semaphore does.
`AssertInv` adds to the types that what is stored, in the batch and in the queue
was sent (so nothing is counted twice) and that a checker that is done
counted enough; a step without failures is one with failures allowed, so one
proof serves both instances. `SlotsAreAccountedFor` and `PassIsAlwaysEarned`
follow. For `IdleMeansSilent`, `Answers` says of a peer that answers that its
next ping is due before its idle deadline, or the ping is being sent, or the
answer is there to be read; a tick cannot pass in the last two states, because
the task then has something to do. `IdlePeersAreSilent` follows under
`"slow" \notin PeerKinds`: with a peer that takes its time to read a frame the
statement is false (*Slow readers* in section 6). `PingInterval < IdleTimeout`
is part of the assumption, as `WsTimings` has it.

`SurfaceProofs`. One invariant per part, kept by the steps of the part and by
everything else. `ConfigInv`: what each point of the start has already merged is
what the first source that sets the option says. `GateInv`: what is stored of
the flags is exactly what they mean, every spelling of one authority has one
normal form (`Canon`), and a tab's page and feed were let in by these.
`ReadsInv`: a request is for a message that was stored; what it was answered has
the recorded size where the code compares it, and the captured bytes unless the
message is damaged; a header section of an undamaged message reaches its end; a
kept answer is true while the message is stored and whole; and a write that
landed is not answered with an error. `ReleaseInv`: how far a request is says where it connected, over what, and that it holds what was
captured; what a relay took is of a request that is over and was not refused.
`FilesInv`: a page is kept under a route only and is always asked about again, a
script is kept under its own name, and a tab's page is the one of the build it
was loaded from. `Matching`: one pass of `escape_like` over a text with one more
letter is the pass over the text with that letter, escaped or not, so the three
passes together put a backslash before each special letter and no other; `LIKE`
then reads each such pair as the letter meant, and what it compares is a
comparison letter by letter, in which the two ways to lower a letter agree but
for a capital outside ASCII. The recursion is followed by induction on the
length of a text, stated for a set of numbers (`Induct`: one that holds 0 and
with each number the next holds all) since the provers cannot instantiate a
schema. That
SQLite's `LIKE` reads patterns in this way is external.
`SettingsAreAlwaysRight`, `GuardIsAlwaysRight`, `AnswersAreAlwaysTrue`,
`ReleaseIsAlwaysTrue`, `PagesAreAlwaysWhole` and `CountedAlwaysContains` follow.

`TerminalProofs`, the screen. `ScreenInv` adds to the three properties that the
list names no message twice (so the row of a message after a change is
determined), that the pane remembers the message it shows (`PaneOK`: an early
return of `load_preview` is right only then), that requests in flight carry
numbers already given out (so a new number is nobody's), and that the one raw
request the view waits for is of the message it was asked for (`SlotOK`).
`CursorAlwaysStays` is a step property that follows from it.

`TerminalProofs`, the feed. `DropIsRepaid` says that as long as the list was not
read after the event that was dropped, a marker is owed by the reader, is in the
queue, or the list is stale. It is not inductive: an answer on its way clears
the stale flag, and its page may have been read before the event. `DebtInv`
therefore says in the last case that the overflow was noted for the request in
flight (`app.overflowed`), so that the list stays stale when its answer lands,
or that nothing on its way of the generation the list waits for was read before
the event (`Past`). It rests on `RequestsInv` (no request is newer than the
generation, none read more than was announced) and `CurrentInv` (at most one
request or answer is of the current generation).

For what was missed with a connection, `ResyncInv` has two more ways to be
repaired: a list request of the current generation that reads past the event
(`Repair`), and an "up" still to be taken that is not the first one, which will
ask for the list (`Coming`). The second needs that ups and downs alternate in
the queue (`StatusInv`), so that the client does not take an up for the state it
is in already. Until the first subscription nothing was read (`FirstInv`), and
no answer is a failure (`OkInv`): these are what the overlaps `"first"`,
`"upgrade"` and `"fetch fails"` break, and the reason that `ResyncIsOwed` is
stated for the part without them. `ArrivalInv` has ids, arrivals and log in
order. `MissedIsAlwaysRepaid` follows for queues, rings, pages and batches of
any size and any number of writes, breaks, fetches and searches.

Only model-checked, and why:

- All liveness: `NobodyWaitsForEver`, `RunEnds`, `SweepsSettle`,
  `ClientsSettle`, `DeadPeersAreCutOff`, `WaitersAreServed` and `ProcessEnds`
  rest on fairness, which is out of the provers' reach.
- `TerminalListIsRight`: that the list converges to the store's is a statement
  about the events since the snapshot replayed onto it one by one, an induction
  over the log that the installed provers cannot make.
- `InboxIsRight`: the rows and the total after a batch of events are a fold over
  the batch, and the same holds of the total against deletions counted in it.
- What the recursive definitions over sequences compute for every input, but for
  those of `Matching`.

## 8. Not modelled

- The attachment locator (`locator.rs`): a scan of MIME bytes for the offsets
  of each attachment. Its correctness is agreement with the MIME parser, a
  library, on arbitrary bytes; the fuzzing beside it tests that. `Reads` has
  what its result is used for.
- MIME parsing, the row codecs, the text of the SQL and the rendering of JSON:
  they are abstracted to the columns and fields they produce.
- The browser interface beside its message store; in the store, searches,
  filters, held arrivals and changes of flags. Drawing, scrolling and key
  bindings of the terminal interface.
- The number and duration parsing of the argument library, logging, the text of
  error messages, documentation, scripts and containers.
- In the modelled parts: the length of time (the order of deadlines is
  modelled, and ticks in `Sockets`), hash collisions, disk corruption outside
  `Reads`, the SQL of the migration's copy (which messages are copied is
  modelled, how a row is converted is not), removal of side files one by one,
  and a 0.8 or 0.9 that itself migrates while this version runs.
