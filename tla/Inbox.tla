------------------------------- MODULE Inbox -------------------------------
(***************************************************************************)
(* The inbox of a browser tab: stores/messages.ts.                         *)
(*                                                                         *)
(* One JavaScript thread keeps the loaded rows, the total, the cursor of   *)
(* the next older page and the deletions under way.  Around it run the     *)
(* server, the socket that announces changes, the frame queue, and up to   *)
(* three reads at once: the first page, an older page and a bare count.    *)
(* A deletion hides its row at once and is sent when its undo window       *)
(* closes; both the answer and the announcement then settle it.            *)
(*                                                                         *)
(* The view is the plain list with the reader at its top: no search, no    *)
(* filter and no held arrivals.  The store counts reads, deletions and     *)
(* clears to recognise what is out of date; only the comparisons matter,   *)
(* so each request carries the outcome of its own (raced, valid, stale).   *)
(***************************************************************************)
EXTENDS Integers, Sequences, FiniteSets, SequencesExt

CONSTANTS
    Races,       \* the overlaps allowed, a subset of AllRaces
    PageSize,    \* PAGE_SIZE (100)
    MaxLiveRows, \* MAX_LIVE_ROWS (500)
    QueueCap,    \* MAX_QUEUED_EVENTS (10_000)
    Attempts,    \* LIST_READ_ATTEMPTS (3)
    Before,      \* model bound: messages stored before the tab opens
    MaxIds,      \* model bound: messages stored in all
    MaxDeletes,  \* model bound: deletions by the reader
    MaxOthers,   \* model bound: deletions by other clients and by retention
    MaxClears,   \* model bound: whole-inbox deletes
    MaxDrops,    \* model bound: sockets lost
    MaxFails     \* model bound: requests that fail

AllRaces == {"two reads",  \* a commit falls between a page and its total
             "late event", \* a read lands before an event older than it
             "older page"} \* mail arrives after an older page was read for the tab

InboxAssumption ==
    /\ Races \subseteq AllRaces
    /\ {PageSize, MaxLiveRows, QueueCap, Attempts} \subseteq Nat \ {0}
    /\ {Before, MaxIds, MaxDeletes, MaxOthers, MaxClears, MaxDrops, MaxFails} \subseteq Nat
    /\ Before <= MaxIds

Ids == 1 .. MaxIds     \* in the order of arrival
None == 0

VARIABLES
    mail,    \* the server's messages
    born,    \* how many were ever stored
    socket,  \* whether the live connection is open
    wire,    \* events sent on it and not received yet
    queue,   \* [events, over]: queuedEvents and queueOverflowed
    timer,   \* httpFallbackTimer is armed
    c,       \* the store of the tab, its reads included
    sent,    \* the DELETEs issued: [m, st]
    behind,  \* for each read, the events older than its page still to be applied
    gone,    \* messages a DELETE of this tab was confirmed for
    left,    \* model bounds: what may still happen
    misread  \* history: the last attempt of a read took a page a deletion outdated

vars == <<mail, born, socket, wire, queue, timer, c, sent, behind, gone, left, misread>>

\* A read of the first page, of an older page, and of the count alone.
NoTop   == [st |-> "none", page |-> <<>>, next |-> None, total |-> 0,
            attempt |-> 0, raced |-> FALSE, events |-> <<>>]
NoOlder == [st |-> "none", before |-> None, page |-> <<>>, next |-> None, total |-> 0,
            attempt |-> 0, raced |-> FALSE]
NoCount == [st |-> "none", total |-> 0, valid |-> FALSE]

Init ==
    /\ mail = 1 .. Before
    /\ born = Before
    /\ socket = FALSE
    /\ wire = <<>>
    /\ queue = [events |-> <<>>, over |-> FALSE]
    /\ timer = TRUE
    /\ c = [rows |-> <<>>, total |-> 0, cursor |-> None,
            hidden |-> {}, undoable |-> None, letGo |-> {},
            issued |-> {}, stale |-> {}, confirmed |-> {}, cleared |-> {},
            needs |-> FALSE, told |-> FALSE,
            top |-> NoTop, older |-> NoOlder, count |-> NoCount]
    /\ sent = <<>>
    /\ behind = [top |-> 0, older |-> 0, count |-> 0]
    /\ gone = {}
    /\ left = [deletes |-> MaxDeletes, others |-> MaxOthers, clears |-> MaxClears,
               drops |-> MaxDrops, fails |-> MaxFails]
    /\ misread = FALSE

-----------------------------------------------------------------------------
(* The store's own functions, from one state of the tab to the next.        *)

\* indexOfRow, from 1; 0 for a row that is not loaded.
RowOf(s, m) == IF \E i \in DOMAIN s.rows : s.rows[i] = m
               THEN CHOOSE i \in DOMAIN s.rows : s.rows[i] = m
               ELSE 0

\* `snapshot += 1`: the total is another one than every issued delete counted on.
NewSnapshot(s) == [s EXCEPT !.stale = s.issued, !.count.valid = FALSE]

(* Mutant: a read under way does not learn of a deletion *)
NewRevisionCountOnly(s) == [s EXCEPT !.count.valid = FALSE]

\* `deletionRevision += 1`: every read under way may be from before it.
NewRevision(s) == [s EXCEPT !.top.raced = TRUE, !.older.raced = TRUE,
                            !.count.valid = FALSE]

\* refreshTotal: a request that supersedes the count read before it.
refreshTotal(s) == [s EXCEPT !.count = [st |-> "asked", total |-> 0, valid |-> TRUE]]

unhide(s, m) == [s EXCEPT !.letGo = @ \ {m}, !.hidden = @ \ {m}]

\* forgetMessage: the cursor moves to the row before, if it was this one.
forgetMessage(s, m) ==
    LET i == RowOf(s, m) IN
    unhide([s EXCEPT !.cursor = IF @ # m THEN @
                                ELSE IF i > 1 THEN s.rows[i - 1] ELSE None,
                     !.rows = SelectSeq(@, LAMBDA r : r # m)], m)

\* trimRows: what is past the cap goes, except down to the row that can be undone.
trimRows(s) ==
    LET keep == LET i == RowOf(s, s.undoable) IN IF i > MaxLiveRows THEN i ELSE MaxLiveRows
        past == ToSet(SubSeq(s.rows, keep + 1, Len(s.rows)))
    IN  IF Len(s.rows) <= keep THEN s
        ELSE [s EXCEPT !.rows = SubSeq(@, 1, keep),
                       !.letGo = @ \cup (past \cap s.hidden),
                       !.cursor = s.rows[keep]]

\* admitArrivals for one arrival: a run of them comes to the same, one by one.
admitArrival(s, m) ==
    LET t == [trimRows([s EXCEPT !.rows = <<m>> \o @]) EXCEPT !.total = @ + 1]
    IN  IF RowOf(s, m) > 0 THEN s
        ELSE IF s.needs THEN refreshTotal(t) ELSE t

dropIssued(s, m) == [s EXCEPT !.issued = @ \ {m}, !.stale = @ \ {m},
                              !.confirmed = @ \ {m}, !.cleared = @ \ {m}]

(* Mutant: the total is adjusted whatever it was read after *)
reconcileAnySnapshot(s, m) ==
    LET marked  == [s EXCEPT !.confirmed = @ \cup ({m} \cap s.issued)]
        without == forgetMessage(NewRevision(marked), m)
    IN  IF m \in s.confirmed THEN dropIssued(s, m)
        ELSE IF m \in s.cleared THEN forgetMessage(marked, m)
        ELSE [without EXCEPT !.total = IF @ = 0 THEN 0 ELSE @ - 1]

\* reconcileDeletion: the answer and the event of a deletion, whichever comes
\* first; in the plain list every message counts.
reconcileDeletion(s, m) ==
    LET current == ~s.needs /\ m \notin s.stale
        marked  == [s EXCEPT !.confirmed = @ \cup ({m} \cap s.issued)]
        without == forgetMessage(NewRevision(marked), m)
    IN  IF m \in s.confirmed THEN dropIssued(s, m)
        ELSE IF m \in s.cleared THEN forgetMessage(marked, m)
        ELSE IF current
             THEN [without EXCEPT !.total = IF @ = 0 THEN 0 ELSE @ - 1]
             ELSE refreshTotal([without EXCEPT !.needs = TRUE])

\* cancelUndo
cancelUndo(s, m) == IF s.undoable = m THEN [s EXCEPT !.undoable = None] ELSE s

\* messages:clear, with dropPendingDeletes and replaceRows([]).
clearList(s) ==
    [NewRevision(NewSnapshot(s)) EXCEPT
        !.undoable = None, !.hidden = {}, !.cleared = s.issued, !.needs = FALSE,
        !.rows = <<>>, !.letGo = {}, !.cursor = None, !.total = 0]

\* applyEvents and applyEvent.
applyEvent(s, e) ==
    CASE e.t = "new"   -> admitArrival(s, e.m)
      [] e.t = "del"   -> reconcileDeletion(cancelUndo(s, e.m), e.m)
      [] e.t = "clear" -> clearList(s)

\* readFirstPage: it aborts the reads before it.
readFirstPage(s) ==
    [s EXCEPT !.top = [NoTop EXCEPT !.st = "asked", !.attempt = 1], !.older = NoOlder]

\* commitDelete, without its request.
commitDelete(s) ==
    IF s.undoable = None THEN s
    ELSE [dropIssued(s, s.undoable) EXCEPT !.issued = @ \cup {s.undoable},
                                           !.undoable = None]

\* The request of commitDelete.
Issue(s) == IF s.undoable = None THEN sent ELSE Append(sent, [m |-> s.undoable, st |-> "sent"])
-----------------------------------------------------------------------------
(* The server, and what other clients do to it.                             *)

\* broadcast: an event for every open socket, after the change it announces.
Announce(t, m) == wire' = IF socket THEN Append(wire, [t |-> t, m |-> m]) ELSE wire

\* A commit between the page and the total of a read is one of the races.
Undisturbed == "two reads" \in Races \/ "paged" \notin {c.top.st, c.older.st}

\* store_group: the newest message.
Arrive ==
    /\ born < MaxIds
    /\ Undisturbed
    /\ "older page" \in Races \/ c.older.st # "answered"
    /\ born' = born + 1
    /\ mail' = mail \cup {born + 1}
    /\ Announce("new", born + 1)
    /\ UNCHANGED <<socket, queue, timer, c, sent, behind, gone, left, misread>>

\* delete_message for another client, or a message retention purges.
OtherDeletes ==
    /\ left.others > 0
    /\ Undisturbed
    /\ \E m \in mail :
        /\ mail' = mail \ {m}
        /\ Announce("del", m)
    /\ left' = [left EXCEPT !.others = @ - 1]
    /\ UNCHANGED <<born, socket, queue, timer, c, sent, behind, gone, misread>>

\* delete_all_messages, for this tab (clearInbox) or another client.
ClearAll ==
    /\ left.clears > 0
    /\ Undisturbed
    /\ mail' = {}
    /\ Announce("clear", None)
    /\ left' = [left EXCEPT !.clears = @ - 1]
    /\ UNCHANGED <<born, socket, queue, timer, c, sent, behind, gone, misread>>

\* delete_message for this tab: 404 for a message already gone.
ServeDelete ==
    /\ Undisturbed
    /\ \E i \in DOMAIN sent :
        /\ sent[i].st = "sent"
        /\ mail' = mail \ {sent[i].m}
        /\ IF sent[i].m \in mail
           THEN /\ sent' = [sent EXCEPT ![i].st = "done"]
                /\ Announce("del", sent[i].m)
           ELSE /\ sent' = [sent EXCEPT ![i].st = "refused"]
                /\ UNCHANGED wire
    /\ UNCHANGED <<born, socket, queue, timer, c, behind, gone, left, misread>>

\* The request of a DELETE does not get there, or its answer does not come back.
LoseDelete ==
    /\ left.fails > 0
    /\ \E i \in DOMAIN sent :
        /\ sent[i].st \in {"sent", "done"}
        /\ sent' = [sent EXCEPT ![i].st = "refused"]
    /\ left' = [left EXCEPT !.fails = @ - 1]
    /\ UNCHANGED <<mail, born, socket, wire, queue, timer, c, behind, gone, misread>>

\* The messages of S, newest first.
Newest(S) == SetToSortSeq(S, LAMBDA a, b : a > b)

\* list_page with one row of lookahead, and next_cursor.
PageOf(S) == SubSeq(Newest(S), 1, IF Cardinality(S) < PageSize THEN Cardinality(S) ELSE PageSize)
NextOf(S) == IF Cardinality(S) > PageSize THEN Last(PageOf(S)) ELSE None

\* How many events the answer is ahead of, where that is not left to chance.
Ahead == IF "late event" \in Races THEN 0 ELSE Len(wire) + Len(queue.events)

\* list_messages: the page is read first, the total after it.
ServePage ==
    /\ c.top.st = "asked"
    /\ c' = [c EXCEPT !.top.st = "paged", !.top.page = PageOf(mail), !.top.next = NextOf(mail)]
    /\ behind' = [behind EXCEPT !.top = Ahead]
    /\ UNCHANGED <<mail, born, socket, wire, queue, timer, sent, gone, left, misread>>

ServeTotal ==
    /\ c.top.st = "paged"
    /\ c' = [c EXCEPT !.top.st = "answered", !.top.total = Cardinality(mail)]
    /\ UNCHANGED <<mail, born, socket, wire, queue, timer, sent, behind, gone, left, misread>>

\* The same with `before`: a cursor whose message is gone is refused.
ServeOlderPage ==
    /\ c.older.st = "asked"
    /\ LET S == {m \in mail : m < c.older.before} IN
       c' = IF c.older.before \in mail
            THEN [c EXCEPT !.older.st = "paged", !.older.page = PageOf(S), !.older.next = NextOf(S)]
            ELSE [c EXCEPT !.older.st = "unknown"]
    /\ behind' = [behind EXCEPT !.older = Ahead]
    /\ UNCHANGED <<mail, born, socket, wire, queue, timer, sent, gone, left, misread>>

ServeOlderTotal ==
    /\ c.older.st = "paged"
    /\ c' = [c EXCEPT !.older.st = "answered", !.older.total = Cardinality(mail)]
    /\ UNCHANGED <<mail, born, socket, wire, queue, timer, sent, behind, gone, left, misread>>

\* The read of refreshTotal, of which only the total is used.
ServeCount ==
    /\ c.count.st = "asked"
    /\ c' = [c EXCEPT !.count.st = "answered", !.count.total = Cardinality(mail)]
    /\ behind' = [behind EXCEPT !.count = Ahead]
    /\ UNCHANGED <<mail, born, socket, wire, queue, timer, sent, gone, left, misread>>

-----------------------------------------------------------------------------
(* The tab: the socket and the frame queue.                                 *)

\* onopen, the first time and after each reconnect.  Events of the connection
\* before are applied by then: a reconnect waits longer than FRAME_FALLBACK_MS.
OpenSocket ==
    /\ ~socket
    /\ queue.events = <<>> /\ ~queue.over
    /\ socket' = TRUE
    /\ timer' = FALSE
    /\ c' = readFirstPage(c)
    /\ behind' = [behind EXCEPT !.top = 0, !.older = 0]
    /\ UNCHANGED <<mail, born, wire, queue, sent, gone, left, misread>>

\* loadOverHttp: the socket missed its deadline, or failed before it opened.
LoadOverHttp ==
    /\ timer
    /\ timer' = FALSE
    /\ c' = readFirstPage(c)
    /\ behind' = [behind EXCEPT !.top = 0, !.older = 0]
    /\ UNCHANGED <<mail, born, socket, wire, queue, sent, gone, left, misread>>

\* onclose: what was on the wire is lost, what was received stays queued.
DropSocket ==
    /\ socket
    /\ left.drops > 0
    /\ socket' = FALSE
    /\ wire' = <<>>
    /\ behind' = [r \in DOMAIN behind |->
                    IF behind[r] > Len(queue.events) THEN Len(queue.events) ELSE behind[r]]
    /\ left' = [left EXCEPT !.drops = @ - 1]
    /\ UNCHANGED <<mail, born, queue, timer, c, sent, gone, misread>>

\* onmessage and enqueueEvent
EnqueueEvent ==
    /\ wire # <<>>
    /\ wire' = Tail(wire)
    /\ LET over == queue.over \/ Len(queue.events) >= QueueCap IN
       queue' = [events |-> IF over THEN <<>> ELSE Append(queue.events, Head(wire)),
                 over |-> over]
    /\ UNCHANGED <<mail, born, socket, timer, c, sent, behind, gone, left, misread>>

\* flushEvents, on a frame or its fallback: one batch, recorded for the read
\* under way, or a read in place of a backlog too long to replay.
FlushEvents ==
    /\ queue.over \/ queue.events # <<>>
    /\ queue' = [events |-> <<>>, over |-> FALSE]
    /\ LET news == SelectSeq(queue.events, LAMBDA e : e.t = "new")
           kept == IF c.top.st = "none" THEN c ELSE [c EXCEPT !.top.events = @ \o news]
       IN  IF queue.over
           THEN /\ c' = readFirstPage(c)
                /\ behind' = [behind EXCEPT !.top = 0, !.older = 0]
           ELSE /\ c' = FoldLeft(applyEvent, kept, queue.events)
                /\ behind' = [r \in DOMAIN behind |->
                                IF behind[r] < Len(queue.events) THEN 0
                                ELSE behind[r] - Len(queue.events)]
    /\ misread' = (misread /\ \A e \in ToSet(queue.events) : e.t # "clear")
    /\ UNCHANGED <<mail, born, socket, wire, timer, sent, gone, left>>

-----------------------------------------------------------------------------
(* The tab: the reads it has under way.                                     *)

\* replayEvents: only the arrivals after the last one the page holds.
replayEvents(s, events, page) ==
    LET last == SelectLastInSeq(events, LAMBDA e : e.m \in ToSet(page))
    IN  FoldLeft(applyEvent, s, SubSeq(events, last + 1, Len(events)))

\* readFirstPage once its page is there: show it, or read again if a deletion
\* was confirmed meanwhile and attempts are left.
LandTop ==
    /\ c.top.st = "answered"
    /\ behind.top = 0
    /\ LET top   == c.top
           again == [c EXCEPT !.top = [NoTop EXCEPT !.st = "asked", !.attempt = top.attempt + 1]]
           shown == [NewSnapshot(c) EXCEPT !.needs = top.raced, !.rows = top.page, !.letGo = {},
                                           !.cursor = top.next, !.total = top.total]
           after == [replayEvents(shown, top.events, top.page) EXCEPT !.top = NoTop, !.told = FALSE]
       IN  c' = IF top.raced /\ top.attempt < Attempts THEN again
                ELSE IF top.raced THEN refreshTotal(after) ELSE after
    /\ misread' = IF c.top.raced /\ c.top.attempt < Attempts THEN misread ELSE c.top.raced
    /\ UNCHANGED <<mail, born, socket, wire, queue, timer, sent, behind, gone, left>>

\* loadMore: the list's scroll position calls it.
LoadMore ==
    /\ c.top.st = "none"
    /\ c.older.st = "none"
    /\ c.cursor # None
    /\ c' = [c EXCEPT !.older = [NoOlder EXCEPT !.st = "asked", !.attempt = 1, !.before = c.cursor]]
    /\ UNCHANGED <<mail, born, socket, wire, queue, timer, sent, behind, gone, left, misread>>

\* The next turn of loadMore's loop, or its end.
ReadOn(s) ==
    [s EXCEPT !.older = IF s.older.attempt = Attempts \/ s.cursor = None THEN NoOlder
                        ELSE [NoOlder EXCEPT !.st = "asked", !.before = s.cursor,
                                             !.attempt = s.older.attempt + 1]]

\* loadMore once the server answered.
LandOlder ==
    /\ c.older.st \in {"answered", "unknown"}
    /\ behind.older = 0
    /\ LET older == c.older
           added == SelectSeq(older.page, LAMBDA m : RowOf(c, m) = 0)
           shown == [NewSnapshot(c) EXCEPT !.needs = older.raced, !.rows = @ \o added,
                                           !.cursor = older.next, !.total = older.total,
                                           !.older = NoOlder]
       IN  c' = IF older.st = "unknown" THEN ReadOn(forgetMessage(c, older.before))
                ELSE IF \/ c.cursor # older.before
                        \/ older.raced /\ older.attempt < Attempts
                     THEN ReadOn(c)
                ELSE IF older.raced THEN refreshTotal(shown) ELSE shown
    /\ misread' = \/ misread
                  \/ /\ c.older.st = "answered" /\ c.cursor = c.older.before
                     /\ c.older.raced /\ c.older.attempt = Attempts
    /\ UNCHANGED <<mail, born, socket, wire, queue, timer, sent, behind, gone, left>>

\* refreshTotal once the server answered.
LandCount ==
    /\ c.count.st = "answered"
    /\ behind.count = 0
    /\ c' = IF c.count.valid
            THEN [NewSnapshot(c) EXCEPT !.needs = FALSE, !.total = c.count.total, !.count = NoCount]
            ELSE [c EXCEPT !.count = NoCount]
    /\ UNCHANGED <<mail, born, socket, wire, queue, timer, sent, behind, gone, left, misread>>

\* A read times out or is refused: the reader is told, and the list stays.
FailRead ==
    /\ left.fails > 0
    /\ \/ /\ c.top.st = "asked"
          /\ c' = [c EXCEPT !.top = NoTop, !.told = TRUE]
       \/ /\ c.older.st = "asked"
          /\ c' = [c EXCEPT !.older = NoOlder]
       \/ /\ c.count.st = "asked"
          /\ c' = [c EXCEPT !.count = NoCount, !.told = @ \/ c.count.valid]
    /\ left' = [left EXCEPT !.fails = @ - 1]
    /\ UNCHANGED <<mail, born, socket, wire, queue, timer, sent, behind, gone, misread>>

-----------------------------------------------------------------------------
(* The tab: deletions.                                                      *)

\* deleteWithUndo: it commits the deletion before it.
DeleteWithUndo ==
    /\ left.deletes > 0
    /\ \E m \in ToSet(c.rows) \ c.hidden :
        /\ c' = [commitDelete(c) EXCEPT !.hidden = @ \cup {m}, !.undoable = m]
        /\ sent' = Issue(c)
    /\ left' = [left EXCEPT !.deletes = @ - 1]
    /\ UNCHANGED <<mail, born, socket, wire, queue, timer, behind, gone, misread>>

\* The undo timer, or the page going away (flushPendingDelete).
CommitDelete ==
    /\ c.undoable # None
    /\ c' = commitDelete(c)
    /\ sent' = Issue(c)
    /\ UNCHANGED <<mail, born, socket, wire, queue, timer, behind, gone, left, misread>>

\* undoDelete
UndoDelete ==
    /\ c.undoable # None
    /\ c' = [unhide(c, c.undoable) EXCEPT !.undoable = None]
    /\ UNCHANGED <<mail, born, socket, wire, queue, timer, sent, behind, gone, left, misread>>

\* The answer of a DELETE.  One that failed brings its message back, unless the
\* event got there first or the inbox was cleared meanwhile.
SettleDelete ==
    /\ \E i \in DOMAIN sent :
        LET m    == sent[i].m
            back == m \in c.issued /\ m \notin c.confirmed /\ m \notin c.cleared
        IN
        /\ sent[i].st \in {"done", "refused"}
        /\ sent' = [sent EXCEPT ![i].st = "settled"]
        /\ IF sent[i].st = "done"
           THEN /\ c' = reconcileDeletion(c, m)
                /\ gone' = gone \cup {m}
           ELSE /\ c' = IF back THEN unhide(dropIssued(c, m), m) ELSE dropIssued(c, m)
                /\ UNCHANGED gone
    /\ UNCHANGED <<mail, born, socket, wire, queue, timer, behind, left, misread>>

-----------------------------------------------------------------------------

Next ==
    \/ Arrive \/ OtherDeletes \/ ClearAll \/ ServeDelete \/ LoseDelete
    \/ ServePage \/ ServeTotal \/ ServeOlderPage \/ ServeOlderTotal \/ ServeCount
    \/ OpenSocket \/ LoadOverHttp \/ DropSocket \/ EnqueueEvent \/ FlushEvents
    \/ LandTop \/ LoadMore \/ LandOlder \/ LandCount \/ FailRead
    \/ DeleteWithUndo \/ CommitDelete \/ UndoDelete \/ SettleDelete

\* Timers fire, frames or their fallback come, the server answers every request
\* it gets, and the network delivers or fails what is on it.
Fairness ==
    /\ WF_vars(CommitDelete \/ UndoDelete)
    /\ WF_vars(ServeDelete) /\ WF_vars(SettleDelete)
    /\ WF_vars(ServePage) /\ WF_vars(ServeTotal) /\ WF_vars(LandTop)
    /\ WF_vars(EnqueueEvent) /\ WF_vars(FlushEvents)

Spec == Init /\ [][Next]_vars
FairSpec == Spec /\ Fairness

-----------------------------------------------------------------------------
(* Properties.                                                              *)

\* Nothing is under way: every event is applied, every request settled.
Quiet ==
    /\ socket /\ wire = <<>> /\ queue.events = <<>> /\ ~queue.over
    /\ \A r \in {c.top, c.older, c.count} : r.st = "none"
    /\ \A i \in DOMAIN sent : sent[i].st = "settled"

\* total: the count without the hidden messages it counts
total == LET n == Cardinality({m \in c.hidden : RowOf(c, m) > 0 \/ m \in c.letGo})
         IN  IF c.total < n THEN 0 ELSE c.total - n

\* Type invariant.
TypeOK ==
    /\ mail \subseteq 1 .. born /\ born \in 0 .. MaxIds
    /\ {socket, timer, queue.over, misread} \subseteq BOOLEAN
    /\ ToSet(wire) \cup ToSet(queue.events) \subseteq [t : {"new", "del", "clear"}, m : Ids \cup {None}]
    /\ Len(queue.events) <= QueueCap
    /\ IsInjective(c.rows) /\ ToSet(c.rows) \subseteq Ids
    /\ {c.cursor, c.undoable} \subseteq Ids \cup {None}
    /\ c.total \in Nat
    /\ UNION {c.hidden, c.letGo, c.issued, gone} \subseteq Ids
    /\ UNION {c.stale, c.confirmed, c.cleared} \subseteq c.issued
    /\ \A r \in {c.top, c.older} : r.attempt \in 0 .. Attempts
    /\ \A i \in DOMAIN sent :
        sent[i] \in [m : Ids, st : {"sent", "done", "refused", "settled"}]

\* A message is kept out of sight only while its deletion is still to come:
\* the one that can be undone, whose timer runs, or one whose DELETE has not
\* been settled (deleteWithUndo, commitDelete, forgetMessage).
HiddenIsOwed ==
    \A m \in c.hidden :
        \/ m = c.undoable
        \/ \E i \in DOMAIN sent : sent[i].m = m /\ sent[i].st # "settled"

\* With nothing under way, and no failure the reader was told of, the rows are
\* the newest messages of the server, none missing and none too many, unless
\* the last attempt of a read took a page that a deletion outdated
\* (admitArrivals, reconcileDeletion, replayEvents, trimRows, loadMore).
RowsAreRight ==
    Quiet /\ ~c.told /\ ~misread => IsPrefix(c.rows, Newest(mail))

\* With nothing under way or hidden, and no failure the reader was told of, the
\* total is the number of messages the server keeps, the page of a last attempt
\* included, whose count is read again (countedInTotal, reconcileDeletion,
\* refreshTotal, replayEvents).
TotalIsRight ==
    Quiet /\ ~c.told /\ c.hidden = {} => total = Cardinality(mail)

\* "A message the server has confirmed gone must not reappear because its
\* event is late or its socket is down" (commitDelete).
DeletedStaysGone == gone \cap ToSet(c.rows) = {}

\* It reappears for one cause only: the last attempt of a read takes its page
\* although a deletion has outdated it (readFirstPage, loadMore).
ReturnsOnlyMisread == misread \/ DeletedStaysGone

\* Every hidden message comes back or is deleted: the window closes, the DELETE
\* is answered or fails (deleteWithUndo, commitDelete, undoDelete).
HiddenSettles == \A m \in Ids : m \in c.hidden ~> m \notin c.hidden
=============================================================================
