-------------------------------- MODULE Store -------------------------------
(***************************************************************************)
(* The message repository: the tables of schema 2 and every operation of   *)
(* MessageRepository on them, the retention sweep that trims them and a    *)
(* client that walks the listing page by page.                             *)
(*                                                                         *)
(*   schema.rs     SCHEMA_DDL             the tables, cascades, triggers   *)
(*   repo.rs       MessageRepository      the operations                   *)
(*   query.rs      push_filter, push_page the conditions of a listing      *)
(*   handlers.rs   list_messages          a page: cursor, rows and count   *)
(*   main.rs       run_retention_tick     purge by age, then by count      *)
(*                                                                         *)
(* A write is one SQLite transaction on the single writer connection and   *)
(* is one step here; what the code reads outside the transaction is a step *)
(* of its own.  `seq` is an INTEGER PRIMARY KEY without AUTOINCREMENT: the *)
(* number of the newest message is used again once that message is gone,   *)
(* and the full-text index, unlike the other tables, has no foreign key.   *)
(***************************************************************************)
EXTENDS Integers, Sequences, FiniteSets

CONSTANTS
    Words,        \* what a query can look for
    Cids,         \* Content-IDs of attachments
    Tags,         \* tags a client may set
    MaxTagCount,  \* tags on one message (MAX_TAGS = 20)
    MaxInserts,     \* messages of one insert_batch
    MaxMessages,  \* --max-messages
    Retention,    \* --retention, in clock units
    WriteAttempts, \* WRITE_ATTEMPTS (5)
    Queries,      \* searches of the walking client, NoWord for a listing
    PageLimit,    \* `limit` of the walk's requests
    MaxIds,       \* model bound: messages stored in one behaviour
    MaxClock      \* model bound: clock readings

ASSUME StoreAssumption ==
    /\ MaxTagCount \in Nat
    /\ MaxInserts \in Nat
    /\ MaxMessages \in Nat
    /\ Retention \in Nat
    /\ WriteAttempts \in Nat \ {0}
    /\ Queries \subseteq Words \cup {"no query"}
    /\ PageLimit \in Nat \ {0}
    /\ MaxIds \in Nat
    /\ MaxClock \in Nat

VARIABLES
    messages,    \* seq -> row of `messages`
    content,     \* seq -> row of `message_content`
    attachments, \* rows of `attachments`
    tagRows,     \* rows <<tag, seq>> of `message_tags`
    fts,         \* rowid -> what `messages_fts` indexes under it
    minted,      \* ids given out so far; ids are minted in arrival order
    clock,       \* the wall clock, in whole seconds as created_at keeps it
    sweep,       \* the retention task
    walk         \* the paging client

tables == <<messages, content, attachments, tagRows, fts>>
storeVars == <<messages, content, attachments, tagRows, fts, minted, clock,
               sweep, walk>>

MessageIds == Nat \ {0}
Seqs == Nat \ {0}

\* PreparedMessage: the text a query finds and the parts it carries.
Mails == [word : Words, cids : SUBSET Cids]
TagLists == UNION {[1 .. n -> Tags] : n \in 0 .. MaxTagCount}
\* A row of `messages`; `mail` stands for its sender, recipients, subject,
\* size and has_attachments columns.  is_read and is_starred are left out: no
\* other table or operation depends on them.
Row == [id : MessageIds, mail : Mails, tags : TagLists, createdAt : Nat]
\* What a content or an index row was made from; `of` is the message's id.
Text == [of : MessageIds, mail : Mails]
AttachmentRow == [seq : Seqs, of : MessageIds, cid : Cids]

TagSet(tags) == {tags[i] : i \in DOMAIN tags}

-----------------------------------------------------------------------------
(* Statements *)

\* SQLite's choice of rowid: one past the largest, or 1 in an empty table.
IsNextSeq(seq) ==
    /\ \A s \in DOMAIN messages : s < seq
    /\ seq = 1 \/ seq - 1 \in DOMAIN messages

SeqsOf(id) == {s \in DOMAIN messages : messages[s].id = id}

Without(table, gone) == [s \in DOMAIN table \ gone |-> table[s]]
With(table, new) ==
    [s \in DOMAIN table \cup DOMAIN new |->
        IF s \in DOMAIN new THEN new[s] ELSE table[s]]

\* DELETE FROM messages: the child tables follow by ON DELETE CASCADE.
DeleteRows(gone) ==
    /\ messages' = Without(messages, gone)
    /\ content' = Without(content, gone)
    /\ attachments' = {a \in attachments : a.seq \notin gone}
    /\ tagRows' = {r \in tagRows : r[2] \notin gone}

\* Variant: the index is left to a cascade it does not have.
DeleteIndexNever(gone) == UNCHANGED fts

\* DELETE FROM messages_fts WHERE rowid ...: nothing else removes its rows.
DeleteIndex(gone) == fts' = Without(fts, gone)

-----------------------------------------------------------------------------
(* Reads: one statement each *)

Get(id) == {content[s] : s \in SeqsOf(id) \cap DOMAIN content}

GetAttachments(id) ==
    {a \in attachments : \E s \in SeqsOf(id) : a.seq = s}

\* search_statement: the index joined to messages.
SearchHits(word) ==
    {s \in DOMAIN fts \cap DOMAIN messages : fts[s].mail.word = word}

\* search_count: counted on the index alone.
SearchCount(word) == Cardinality({s \in DOMAIN fts : fts[s].mail.word = word})

TagFilter(tag) ==
    {s \in DOMAIN messages : \E r \in tagRows : r = <<tag, s>>}

\* push_page: newest first, below the bound, at most `limit`.
NewestOf(seqs, limit) ==
    {s \in seqs : Cardinality({t \in seqs : t > s}) < limit}
\* Variant: the bound is inclusive.
PageUpTo(seqs, bound, limit) == NewestOf({s \in seqs : s <= bound}, limit)

PageBefore(seqs, bound, limit) == NewestOf({s \in seqs : s < bound}, limit)

-----------------------------------------------------------------------------
Idle == "idle"
NoWord == "no query"
Unbounded == MaxIds + 1

Sweeps == [pc : {Idle, "older", "delete_older", "trim", "delete_trim"},
           cutoff : Int,        \* now - retention_hours, read at the tick
           attempt : Nat]       \* failed attempts of the running operation
Walks == [pc : {Idle, "cursor", "page", "count", "done", "lost"},
          word : Words \cup {NoWord},
          bound : Nat,         \* PageStart::Before, Unbounded without cursor
          page : SUBSET MessageIds,
          last : Nat,          \* next_cursor, 0 for none
          seen : Seq(MessageIds),     \* ids listed so far, in order
          start : SUBSET MessageIds]  \* ids stored when the walk began

StoreInit ==
    /\ messages = << >> /\ content = << >> /\ fts = << >>
    /\ attachments = {} /\ tagRows = {}
    /\ minted = 0
    /\ clock = 0
    /\ sweep = [pc |-> Idle, cutoff |-> 0, attempt |-> 0]
    /\ walk = [pc |-> Idle, word |-> NoWord, bound |-> 0, page |-> {},
               last |-> 0, seen |-> << >>, start |-> {}]

-----------------------------------------------------------------------------
(* Writes *)

\* insert_all_in: rows of messages, content and attachments, then the index.
InsertBatch(batch) ==
    /\ minted + Len(batch) <= MaxIds
    /\ \E first \in 1 .. MaxIds :
        LET new == first .. first + Len(batch) - 1
            id(s) == minted + (s - first) + 1
            text(s) == [of |-> id(s), mail |-> batch[s - first + 1]]
        IN  /\ IsNextSeq(first)
            /\ messages' = With(messages, [s \in new |->
                   [id |-> id(s), mail |-> batch[s - first + 1],
                    tags |-> << >>, createdAt |-> clock]])
            /\ content' = With(content, [s \in new |-> text(s)])
            /\ attachments' = attachments \cup
                   UNION {{[seq |-> s, of |-> id(s), cid |-> c] :
                           c \in batch[s - first + 1].cids} : s \in new}
            /\ fts' = With(fts, [s \in new |-> text(s)])
    /\ minted' = minted + Len(batch)
    /\ UNCHANGED <<tagRows, clock, sweep, walk>>

\* COALESCE(?, column) of an optional argument: {} or {v}.
Optional(S) == {{}} \cup {{v} : v \in S}
Coalesce(opt, old) == IF opt = {} THEN old ELSE CHOOSE v \in opt : TRUE

\* message_tags_after_update: rewrites a message's rows when `tags` changed.
TagsTrigger(seq, tags) ==
    tagRows' = IF tags = messages[seq].tags THEN tagRows
               ELSE {r \in tagRows : r[2] # seq}
                    \cup {<<t, seq>> : t \in TagSet(tags)}

\* update_message: one UPDATE; an unknown id changes no row and is NotFound.
UpdateMessage(seq, tags) ==
    LET newTags == Coalesce(tags, messages[seq].tags)
    IN  /\ messages' = [messages EXCEPT ![seq] = [@ EXCEPT !.tags = newTags]]
        /\ TagsTrigger(seq, newTags)
        /\ UNCHANGED <<content, attachments, fts, minted, clock, sweep, walk>>

\* delete: an unknown id returns NotFound and rolls back.
DeleteMessage(seq) ==
    /\ DeleteIndex({seq})
    /\ DeleteRows({seq})
    /\ UNCHANGED <<minted, clock, sweep, walk>>

\* delete_all_once: every table is emptied by its own statement.
DeleteAll ==
    /\ fts' = << >>
    /\ content' = << >>
    /\ attachments' = {}
    /\ tagRows' = {}
    /\ messages' = << >>
    /\ UNCHANGED <<minted, clock, sweep, walk>>

-----------------------------------------------------------------------------
(* run_retention_tick *)

SweepTo(pc) == sweep' = [sweep EXCEPT !.pc = pc, !.attempt = 0]
SweepOnly == UNCHANGED <<tables, minted, clock, walk>>

SweepBegin ==
    /\ sweep.pc = Idle
    /\ Retention > 0 \/ MaxMessages > 0
    /\ sweep' = [pc |-> IF Retention > 0 THEN "older" ELSE "trim",
                 cutoff |-> clock - Retention, attempt |-> 0]
    /\ SweepOnly

AfterOlder == IF MaxMessages > 0 THEN "trim" ELSE Idle
Expired == {s \in DOMAIN messages : messages[s].createdAt < sweep.cutoff}

\* The EXISTS check outside the transaction.
CheckOlder ==
    /\ sweep.pc = "older"
    /\ IF Expired = {} THEN SweepTo(AfterOlder)
       ELSE sweep' = [sweep EXCEPT !.pc = "delete_older"]
    /\ SweepOnly

DeleteOlderThan ==
    /\ sweep.pc = "delete_older"
    /\ DeleteIndex(Expired)
    /\ DeleteRows(Expired)
    /\ SweepTo(AfterOlder)
    /\ UNCHANGED <<minted, clock, walk>>

\* Variant: one message too many is left alone.
CheckTrimLate ==
    /\ sweep.pc = "trim"
    /\ IF Cardinality(DOMAIN messages) <= MaxMessages + 1
       THEN SweepTo(Idle)
       ELSE sweep' = [sweep EXCEPT !.pc = "delete_trim"]
    /\ SweepOnly

\* The count outside the transaction.
CheckTrim ==
    /\ sweep.pc = "trim"
    /\ IF Cardinality(DOMAIN messages) <= MaxMessages
       THEN SweepTo(Idle)
       ELSE sweep' = [sweep EXCEPT !.pc = "delete_trim"]
    /\ SweepOnly

\* Variant: the row at the offset is taken for the oldest to keep.
DoomedOneMore == DOMAIN messages \ NewestOf(DOMAIN messages, MaxMessages - 1)

\* The seqs at or below the row at OFFSET max, none when there is no such row.
Doomed == DOMAIN messages \ NewestOf(DOMAIN messages, MaxMessages)

TrimToMax ==
    /\ sweep.pc = "delete_trim"
    /\ fts' = Without(fts, {r \in DOMAIN fts : \E t \in Doomed : r <= t})
    /\ DeleteRows(Doomed)
    /\ SweepTo(Idle)
    /\ UNCHANGED <<minted, clock, walk>>

\* A contended write under retry_on_lock: the check and the transaction run
\* again, until the last attempt.
SweepContended ==
    /\ sweep.pc \in {"delete_older", "delete_trim"}
    /\ sweep.attempt + 1 < WriteAttempts
    /\ sweep' = [sweep EXCEPT !.pc = IF @ = "delete_older" THEN "older" ELSE "trim",
                              !.attempt = @ + 1]
    /\ SweepOnly

\* The statement failed and is not tried again: that was the last attempt, the
\* wall-clock budget is spent, or the error is not a lock. The error is logged
\* and the tick goes on.
SweepGivesUp ==
    /\ sweep.pc # Idle
    /\ SweepTo(IF sweep.pc \in {"older", "delete_older"} THEN AfterOlder ELSE Idle)
    /\ SweepOnly

-----------------------------------------------------------------------------
(* A client that lists everything, page by page *)

Listed == IF walk.word = NoWord THEN DOMAIN messages ELSE SearchHits(walk.word)
IdsAt(seqs) == {messages[s].id : s \in seqs}
WalkOnly == UNCHANGED <<tables, minted, clock, sweep>>

WalkBegin(word) ==
    /\ walk.pc = Idle
    /\ walk' = [walk EXCEPT !.pc = "page", !.word = word, !.bound = Unbounded,
                            !.start = IdsAt(DOMAIN messages)]
    /\ WalkOnly

\* list_page or search_page with one row more than the page shows.
WalkPage ==
    /\ walk.pc = "page"
    /\ LET rows == PageBefore(Listed, walk.bound, PageLimit + 1)
           shown == NewestOf(rows, PageLimit)
           order == CHOOSE o \in [1 .. Cardinality(shown) -> shown] :
                        \A i, j \in DOMAIN o : i < j => o[i] > o[j]
           ids == [i \in DOMAIN order |-> messages[order[i]].id]
           more == Cardinality(rows) > PageLimit
       IN  walk' = [walk EXCEPT !.pc = "count",
                                !.page = IdsAt(shown),
                                !.seen = @ \o ids,
                                !.last = IF more THEN ids[Len(ids)] ELSE 0]
    /\ WalkOnly

\* count_filtered or search_count; then the client asks for the next page.
WalkCount ==
    /\ walk.pc = "count"
    /\ walk' = [walk EXCEPT !.pc = IF walk.last = 0 THEN "done" ELSE "cursor"]
    /\ WalkOnly

\* cursor: the position of the last message listed, gone with the message.
WalkCursor ==
    /\ walk.pc = "cursor"
    /\ IF SeqsOf(walk.last) = {}
       THEN walk' = [walk EXCEPT !.pc = "lost"]
       ELSE \E s \in SeqsOf(walk.last) :
                walk' = [walk EXCEPT !.pc = "page", !.bound = s]
    /\ WalkOnly

-----------------------------------------------------------------------------
Tick(t) ==
    /\ clock' = t
    /\ UNCHANGED <<tables, minted, sweep, walk>>

Retain == SweepBegin \/ CheckOlder \/ DeleteOlderThan \/ CheckTrim \/ TrimToMax

StoreNext ==
    \/ \E n \in 1 .. MaxInserts : \E batch \in [1 .. n -> Mails] : InsertBatch(batch)
    \/ \E seq \in DOMAIN messages, tags \in Optional(TagLists) :
          UpdateMessage(seq, tags)
    \/ \E seq \in DOMAIN messages : DeleteMessage(seq)
    \/ DeleteAll
    \/ SweepBegin
    \/ CheckOlder
    \/ DeleteOlderThan
    \/ CheckTrim
    \/ TrimToMax
    \/ SweepContended
    \/ SweepGivesUp
    \/ \E word \in Queries : WalkBegin(word)
    \/ WalkPage
    \/ WalkCount
    \/ WalkCursor
    \/ \E t \in 0 .. MaxClock : Tick(t)

StoreSpec == StoreInit /\ [][StoreNext]_storeVars

-----------------------------------------------------------------------------
(* What every read shows, against the rows of `messages` *)

StoreTypeOK ==
    /\ DOMAIN messages \subseteq Seqs
    /\ messages \in [DOMAIN messages -> Row]
    /\ DOMAIN content \subseteq Seqs
    /\ content \in [DOMAIN content -> Text]
    /\ DOMAIN fts \subseteq Seqs
    /\ fts \in [DOMAIN fts -> Text]
    /\ attachments \subseteq AttachmentRow
    /\ tagRows \subseteq Tags \X Seqs
    /\ minted \in Nat
    /\ clock \in Nat
    /\ sweep \in Sweeps
    /\ walk \in Walks

\* A search finds exactly the stored messages whose own text has the word,
\* and search_count, which never looks at `messages`, agrees: no index row
\* outlives its message to describe the next one that gets its seq
\* (repo.rs: "Every indexed rowid is a stored message's seq, written and
\* removed with it").
SearchIsExact ==
    /\ DOMAIN fts = DOMAIN messages
    /\ \A s \in DOMAIN fts : fts[s] = [of |-> messages[s].id,
                                       mail |-> messages[s].mail]
    /\ \A w \in Words : SearchCount(w) = Cardinality(SearchHits(w))

\* Opening a message shows its own source and its own attachments, all of
\* them, and never those of an earlier message that had its seq.
ReadsAreOwn ==
    \A s \in DOMAIN messages :
        LET id == messages[s].id
            mail == messages[s].mail
        IN  /\ Get(id) = {[of |-> id, mail |-> mail]}
            /\ GetAttachments(id) = {[seq |-> s, of |-> id, cid |-> c] : c \in mail.cids}

\* The tag filter, read from message_tags, lists exactly the messages whose
\* `tags` hold the tag, duplicates and order aside.
TagFilterIsExact ==
    \A tag \in Tags :
        TagFilter(tag) = {s \in DOMAIN messages : tag \in TagSet(messages[s].tags)}

\* Rows of the child tables are rows of stored messages: nothing is left
\* behind by a delete for a foreign key to miss.
NoOrphans ==
    /\ DOMAIN content = DOMAIN messages
    /\ \A a \in attachments : a.seq \in DOMAIN messages
    /\ \A r \in tagRows : r[2] \in DOMAIN messages

\* Listing by seq is listing by arrival, although seqs are used again, and
\* no id is given to two messages.
SeqIsArrivalOrder ==
    \A s, t \in DOMAIN messages : s < t => messages[s].id < messages[t].id

\* Every table and index speaks of the right message although row numbers are
\* used again: searches and tag filters find exactly what they should, reads
\* return what was stored with the message, nothing outlives it, and numbers
\* follow arrival (insert_batch, deletes, schema.rs's triggers).
TablesAgree ==
    /\ StoreTypeOK
    /\ SearchIsExact /\ TagFilterIsExact
    /\ ReadsAreOwn /\ NoOrphans /\ SeqIsArrivalOrder

\* A sweep that trims removes what the listing shows last and no more: the
\* MaxMessages newest arrivals stay, whatever was stored or deleted between
\* its count and its transaction.
TrimKeepsNewest ==
    [][sweep.pc = "delete_trim" /\ sweep' # sweep /\ messages' # messages =>
         /\ Cardinality(DOMAIN messages') = MaxMessages
         /\ \A s \in DOMAIN messages \ DOMAIN messages' :
               \A t \in DOMAIN messages' : messages[s].id < messages[t].id]_storeVars

\* Following next_cursor to the end lists every message that was stored when
\* the walk began and still is, and none twice, while mail arrives, seqs are
\* used again and messages are deleted around the cursor.
WalkIsExact ==
    /\ \A i, j \in DOMAIN walk.seen : walk.seen[i] = walk.seen[j] => i = j
    /\ walk.pc = "done" =>
         \A s \in DOMAIN messages :
             messages[s].id \in walk.start
             /\ (walk.word = NoWord \/ messages[s].mail.word = walk.word)
             => \E i \in DOMAIN walk.seen : walk.seen[i] = messages[s].id

\* The mailbox does not stay above --max-messages: a sweep that finds it so
\* brings it down, however often a contended write fails before.
MaxIsEnforced == []<>(Cardinality(DOMAIN messages) <= MaxMessages)

Fairness == WF_storeVars(Retain) /\ SF_storeVars(CheckTrim) /\ SF_storeVars(TrimToMax)
StoreFairSpec == StoreSpec /\ Fairness
=============================================================================
