-------------------------------- MODULE Feed --------------------------------
(***************************************************************************)
(* The live inbox: how a change of the store reaches the message list of a *)
(* terminal client.                                                        *)
(*                                                                         *)
(*   main.rs      store_group, run_retention_tick   commit, then announce  *)
(*   handlers.rs  list_messages, update_message, delete_message,           *)
(*                delete_all_messages                                      *)
(*   state.rs     broadcast                the ring every socket reads     *)
(*   ws.rs        handle_socket            subscribe, forward, lag, close  *)
(*   app.rs       connect_websocket, pump_ws_frames, fetch_messages,       *)
(*                handle_messages_fetched, handle_ws_message,              *)
(*                replay_deltas, handle_ws_overflow, handle_ws_status,     *)
(*                refetch_if_stale, the answers to the user's own changes  *)
(*                                                                         *)
(* A change is committed in one step and announced in a later one; a page  *)
(* of the list and its total are two reads.  `races` names the overlaps a  *)
(* run allows: with none of them the server finishes one thing before it   *)
(* starts another, and what is left are the client's own difficulties:     *)
(* snapshots crossing deltas, a full event queue, lag and reconnects.      *)
(***************************************************************************)
EXTENDS Integers, Sequences, FiniteSets, SequencesExt

CONSTANTS
    Ops,         \* what other clients do: subset of {"read","delete","clear","trim"}
    OwnOps,      \* what this client's user does: subset of {"read","delete","clear"}
    Matching,    \* ids the search of the user finds
    MaxBatch,    \* messages of one transaction
    PageSize,    \* page_size (50)
    QueueCap,    \* EVENT_QUEUE_CAPACITY (1024)
    PendCap,     \* PENDING_DELTA_CAPACITY (256)
    RingCap,     \* --ws-buffer
    MaxIds,      \* model bound: messages stored
    MaxWrites,   \* model bound: updates, deletes, clears and trims
    MaxBreaks,   \* model bound: connections lost on the way, lag aside
    MaxFetches,  \* model bound: fetch_generation
    MaxUser      \* model bound: searches and page turns

AllRaces == {"announce",   \* other work runs between a commit and its announcement
             "abandon",    \* hyper drops the handler of a client that went away
             "two reads",  \* a commit falls between a page and its total
             "late answer",\* other work runs before the client sees its answer
             "overtake",   \* a list response overtakes events broadcast before it
             "held over",  \* a reconnect finds deltas of an older fetch waiting
             "first",      \* the first page is read before the first subscription,
                           \* or not at all
             "upgrade",    \* the 101 is sent before handle_socket subscribes
             "fetch fails"}\* a list request times out or is answered 503

FeedAssumption ==
    /\ Ops \subseteq {"read", "delete", "clear", "trim"}
    /\ OwnOps \subseteq {"read", "delete", "clear"}
    /\ {MaxBatch, PageSize, QueueCap, PendCap, RingCap} \subseteq Nat \ {0}
    /\ {MaxIds, MaxWrites, MaxBreaks, MaxFetches, MaxUser} \subseteq Nat

VARIABLES
    races,    \* the overlaps this behaviour allows, a subset of AllRaces
    box,      \* the store: id -> is_read; ids are minted in arrival order
    arrivals, \* the ingest task: stored and not yet announced, in order
    jobs,     \* handlers and sweeps between their commit and their answer
    log,      \* every event broadcast; the ring holds its last RingCap
    conn,     \* the connection task and the socket it reads
    queue,    \* the event queue of the terminal interface
    fetches,  \* list requests in flight
    app,      \* the rest of App: loading, generation, connection, deltas
    view,     \* what the user looks at
    spent,    \* model budgets used up
    dropped,  \* ghost: log index of the newest frame a full queue turned away
    missed    \* ghost: log index of the newest event this client did not get

server == <<box, arrivals, jobs, log>>
client == <<conn, queue, fetches, app, view>>
vars == <<races, box, arrivals, jobs, log, conn, queue, fetches, app, view, spent,
          dropped, missed>>

-----------------------------------------------------------------------------
(* The list a page is read from *)

New(id, read) == [kind |-> "new", id |-> id, read |-> read]
Delete(id) == [kind |-> "delete", id |-> id, read |-> FALSE]
Read(id, read) == [kind |-> "read", id |-> id, read |-> read]
Clear == [kind |-> "clear", id |-> 0, read |-> FALSE]

Listable(searching) == IF searching THEN DOMAIN box \cap Matching ELSE DOMAIN box
Rows(searching) ==
    LET ids == SetToSortSeq(Listable(searching), LAMBDA a, b : a > b)
    IN  [i \in DOMAIN ids |-> [id |-> ids[i], read |-> box[ids[i]]]]
Slice(rows, from, n) == SubSeq(rows, from, Min({from + n - 1, Len(rows)}))
PageAt(searching, offset) ==
    Slice(Rows(searching), offset + 1, PageSize)

-----------------------------------------------------------------------------
(* The event queue: tx.send waits for room, try_send does not *)

Room == Len(queue) < QueueCap
Send(event) == /\ Room
               /\ queue' = Append(queue, event)

-----------------------------------------------------------------------------
Init ==
    /\ races \subseteq AllRaces
    /\ box = << >> /\ arrivals = << >> /\ jobs = {} /\ log = << >>
    /\ conn = [pc |-> "down", sub |-> "none", pos |-> 0, owed |-> FALSE,
               once |-> FALSE]
    /\ queue = << >>
    /\ fetches = {[gen |-> 1, searching |-> FALSE, offset |-> 0,
                   pc |-> "sent", page |-> << >>, total |-> 0, at |-> 0]}
    /\ app = [loading |-> TRUE, gen |-> 1, connected |-> FALSE,
              ever |-> FALSE, pending |-> << >>, overflowed |-> FALSE]
    /\ view = [list |-> << >>, total |-> 0, stale |-> FALSE, offset |-> 0,
               searching |-> FALSE, at |-> 0]
    /\ spent = [ids |-> 0, writes |-> 0, breaks |-> 0, user |-> 0]
    /\ dropped = 0
    /\ missed = 0

-----------------------------------------------------------------------------
(* Commits *)

AllAnnounced == arrivals = << >> /\ \A j \in jobs : j.pc # "announce"
NoOwnAnswer ==
    /\ \A j \in jobs : ~ j.own
    /\ \A i \in DOMAIN queue : queue[i].k \notin {"patched", "deleted", "cleared"}

\* What may not happen between two steps of something else.
MayCommit ==
    /\ "announce" \in races \/ AllAnnounced
    /\ "late answer" \in races \/ NoOwnAnswer

\* store_group: one insert_batch; the task announces before its next one.
Insert(n) ==
    /\ arrivals = << >>
    /\ MayCommit
    /\ spent.ids + n <= MaxIds
    /\ LET ids == spent.ids + 1 .. spent.ids + n
       IN  /\ box' = [id \in DOMAIN box \cup ids |->
                        IF id \in ids THEN FALSE ELSE box[id]]
           /\ arrivals' = [i \in 1 .. n |-> New(spent.ids + i, FALSE)]
    /\ spent' = [spent EXCEPT !.ids = @ + n]
    /\ UNCHANGED <<jobs, log, client, missed, dropped>>

AnnounceArrival ==
    /\ arrivals # << >>
    /\ log' = Append(log, Head(arrivals))
    /\ arrivals' = Tail(arrivals)
    /\ UNCHANGED <<box, jobs, client, spent, missed, dropped>>

\* A handler or a sweep has committed; its events are still to be broadcast.
Job(kind, events, own) ==
    /\ MayCommit
    /\ spent.writes < MaxWrites
    /\ jobs' = jobs \cup {[n |-> spent.writes, kind |-> kind, own |-> own,
                           pc |-> "announce", events |-> events,
                           what |-> Head(events)]}
    /\ spent' = [spent EXCEPT !.writes = @ + 1]
    /\ UNCHANGED <<arrivals, log, client, missed, dropped>>

\* update_message; is_read stands for is_starred and tags too.
UpdateMessage(id, read, own) ==
    /\ id \in DOMAIN box
    /\ box' = [box EXCEPT ![id] = read]
    /\ Job("patched", <<Read(id, read)>>, own)

DeleteMessage(id, own) ==
    /\ id \in DOMAIN box
    /\ box' = [i \in DOMAIN box \ {id} |-> box[i]]
    /\ Job("deleted", <<Delete(id)>>, own)

DeleteAllMessages(own) ==
    /\ box' = << >>
    /\ Job("cleared", <<Clear>>, own)

\* run_retention_tick: the oldest go in one transaction, one event for each.
RetentionTrim(oldest) ==
    /\ oldest # {}
    /\ \A id \in oldest : \A i \in DOMAIN box \ oldest : id < i
    /\ box' = [i \in DOMAIN box \ oldest |-> box[i]]
    /\ \E ids \in [1 .. Cardinality(oldest) -> oldest] :
          /\ \A i, j \in DOMAIN ids : i < j => ids[i] < ids[j]
          /\ Job("trim", [i \in DOMAIN ids |-> Delete(ids[i])], FALSE)

AnnounceJob(job) ==
    /\ job.pc = "announce"
    /\ log' = Append(log, Head(job.events))
    /\ LET left == Tail(job.events)
       IN  jobs' = (jobs \ {job}) \cup
                   IF left # << >> THEN {[job EXCEPT !.events = left]}
                   ELSE IF job.own THEN {[job EXCEPT !.pc = "answer"]} ELSE {}
    /\ UNCHANGED <<box, arrivals, client, spent, missed, dropped>>

\* The connection of another client ends while its handler awaits: hyper
\* drops the handler, the transaction it started commits all the same.
AbandonJob(job) ==
    /\ "abandon" \in races
    /\ job.pc = "announce"
    /\ job.kind # "trim" /\ ~ job.own
    /\ jobs' = jobs \ {job}
    /\ UNCHANGED <<box, arrivals, log, client, spent, missed, dropped>>

\* The answer to the user's own request enters the queue.
AnswerJob(job) ==
    /\ job.pc = "answer"
    /\ Send([k |-> job.kind, id |-> job.what.id, read |-> job.what.read])
    /\ jobs' = jobs \ {job}
    /\ UNCHANGED <<box, arrivals, log, conn, fetches, app, view, spent, missed, dropped>>

-----------------------------------------------------------------------------
(* list_messages: the page and then the total, in one step unless a run lets *)
(* something come in between                                                 *)

ReadPage(f) ==
    /\ f.pc = "sent"
    /\ "announce" \in races \/ AllAnnounced
    /\ "first" \in races \/ conn.once
    /\ fetches' = (fetches \ {f}) \cup
           {[f EXCEPT !.pc = IF "two reads" \in races THEN "page" ELSE "answer",
                      !.page = PageAt(f.searching, f.offset),
                      !.total = Cardinality(Listable(f.searching)),
                      !.at = Len(log)]}
    /\ UNCHANGED <<server, conn, queue, app, view, spent, missed, dropped>>

ReadTotal(f) ==
    /\ f.pc = "page"
    /\ fetches' = (fetches \ {f}) \cup
           {[f EXCEPT !.pc = "answer",
                      !.total = Cardinality(Listable(f.searching))]}
    /\ UNCHANGED <<server, conn, queue, app, view, spent, missed, dropped>>

AnswerFetch(f) ==
    /\ f.pc = "answer"
    /\ "overtake" \in races \/ conn.sub # "open" \/ conn.pos >= f.at
    /\ Send([k |-> "fetched", ok |-> TRUE, fetch |-> f])
    /\ fetches' = fetches \ {f}
    /\ UNCHANGED <<server, conn, app, view, spent, missed, dropped>>

\* REQUEST_TIMEOUT of the client, 503 of the server.
FailFetch(f) ==
    /\ "fetch fails" \in races
    /\ "first" \in races \/ f.gen > 1
    /\ Send([k |-> "fetched", ok |-> FALSE, fetch |-> f])
    /\ fetches' = fetches \ {f}
    /\ UNCHANGED <<server, conn, app, view, spent, missed, dropped>>

-----------------------------------------------------------------------------
(* connect_websocket, connect_ws, pump_ws_frames; handle_socket *)

ConnOnly == UNCHANGED <<server, fetches, app, view, spent>>
Unread == conn.pos < Len(log)
Lagged == Len(log) - conn.pos > RingCap

StatusDown ==
    /\ conn.pc = "down"
    /\ Send([k |-> "status", up |-> FALSE])
    /\ conn' = [conn EXCEPT !.pc = "connecting"]
    /\ ConnOnly /\ UNCHANGED <<missed, dropped>>

NothingHeld == ~ app.loading /\ \A i \in DOMAIN queue : queue[i].k # "frame"

\* Events broadcast before the subscription never reach this client.
Subscription(pc) ==
    /\ conn' = [conn EXCEPT !.pc = pc, !.sub = "open", !.pos = Len(log),
                            !.once = TRUE]
    /\ missed' = IF Unread THEN Len(log) ELSE missed
    /\ UNCHANGED dropped

Connect ==
    /\ conn.pc = "connecting"
    /\ "held over" \in races \/ ~ conn.once \/ NothingHeld
    /\ IF "upgrade" \in races
       THEN /\ conn' = [conn EXCEPT !.pc = "announce", !.sub = "upgraded"]
            /\ UNCHANGED <<missed, dropped>>
       ELSE Subscription("announce")
    /\ ConnOnly /\ UNCHANGED queue

Subscribe ==
    /\ conn.sub = "upgraded"
    /\ Subscription(conn.pc)
    /\ ConnOnly /\ UNCHANGED queue

StatusUp ==
    /\ conn.pc = "announce"
    /\ Send([k |-> "status", up |-> TRUE])
    /\ conn' = [conn EXCEPT !.pc = "pump"]
    /\ ConnOnly /\ UNCHANGED <<missed, dropped>>

\* Variant: the marker is tried once, on a queue that is still full.
PumpFrameOnce ==
    /\ conn.pc = "pump" /\ conn.sub = "open" /\ Unread /\ ~ Lagged
    /\ conn' = [conn EXCEPT !.pos = @ + 1]
    /\ queue' = IF Room THEN Append(queue, [k |-> "frame", n |-> conn.pos + 1])
                ELSE queue
    /\ missed' = IF Room THEN missed ELSE conn.pos + 1
    /\ dropped' = IF Room THEN dropped ELSE conn.pos + 1
    /\ ConnOnly

\* A frame is queued, or dropped and a resync owed for it.
PumpFrame ==
    /\ conn.pc = "pump" /\ conn.sub = "open" /\ Unread /\ ~ Lagged
    /\ LET n == conn.pos + 1
           fits == ~ conn.owed /\ Room
       IN  /\ queue' = IF fits THEN Append(queue, [k |-> "frame", n |-> n])
                       ELSE queue
           /\ conn' = [conn EXCEPT !.pos = n, !.owed = ~ fits]
           /\ missed' = IF fits THEN missed ELSE n
           /\ dropped' = IF fits THEN dropped ELSE n
    /\ ConnOnly

\* tx.reserve of the debt, and the last send of a pump whose socket closed.
PumpDebt ==
    /\ conn.owed
    /\ conn.pc \in {"pump", "debt"}
    /\ Send([k |-> "overflow"])
    /\ conn' = [conn EXCEPT !.owed = FALSE,
                            !.pc = IF @ = "debt" THEN "down" ELSE @]
    /\ ConnOnly /\ UNCHANGED <<missed, dropped>>

\* The pump ends; what it has not read is lost.
Closed ==
    /\ conn' = [conn EXCEPT !.pc = IF conn.owed THEN "debt" ELSE "down",
                            !.sub = "none"]
    /\ UNCHANGED <<server, queue, fetches, app, view, missed, dropped>>

\* handle_socket found that the ring overwrote events it had not read.
LagClose ==
    /\ conn.pc = "pump" /\ conn.sub = "open" /\ Lagged
    /\ Closed
    /\ UNCHANGED spent

Break ==
    /\ conn.pc = "pump"
    /\ spent.breaks < MaxBreaks
    /\ spent' = [spent EXCEPT !.breaks = @ + 1]
    /\ Closed

-----------------------------------------------------------------------------
(* The list of the terminal interface *)

IsListed(v, id) == \E i \in DOMAIN v.list : v.list[i].id = id
Dropped(list, id) == SelectSeq(list, LAMBDA m : m.id # id)
Insert0(list, m) == Slice(<<m>> \o list, 1, PageSize)
Minus1(n) == IF n > 0 THEN n - 1 ELSE 0
ApplyUpdate(v, e) ==
    [v EXCEPT !.list = [i \in DOMAIN @ |->
        IF @[i].id = e.id THEN [@[i] EXCEPT !.read = e.read] ELSE @[i]]]
Emptied(v) == [v EXCEPT !.list = << >>, !.total = 0]

\* The match of handle_ws_message.
Live(v, e) ==
    CASE e.kind = "new" /\ IsListed(v, e.id) -> v
      [] e.kind = "new" /\ ~ IsListed(v, e.id) /\ v.searching ->
            [v EXCEPT !.stale = TRUE]
      [] e.kind = "new" /\ ~ IsListed(v, e.id) /\ ~ v.searching ->
            [v EXCEPT !.total = @ + 1,
                      !.list = IF v.offset = 0
                               THEN Insert0(@, [id |-> e.id, read |-> e.read]) ELSE @]
      [] e.kind = "delete" ->
            IF IsListed(v, e.id) \/ ~ v.searching
            THEN [v EXCEPT !.list = Dropped(@, e.id), !.total = Minus1(@)]
            ELSE [v EXCEPT !.stale = TRUE]
      [] e.kind = "read" -> ApplyUpdate(v, e)
      [] e.kind = "clear" -> Emptied(v)

ReplayDelta(v, e) ==
    CASE e.kind = "new" ->
            IF IsListed(v, e.id) THEN v
            ELSE IF v.searching \/ v.offset # 0 THEN [v EXCEPT !.stale = TRUE]
            ELSE [v EXCEPT !.total = @ + 1,
                           !.list = Insert0(@, [id |-> e.id, read |-> e.read])]
      [] e.kind = "delete" ->
            IF IsListed(v, e.id)
            THEN [v EXCEPT !.list = Dropped(@, e.id), !.total = Minus1(@)]
            ELSE [v EXCEPT !.stale = TRUE]
      [] e.kind = "read" -> ApplyUpdate(v, e)
      [] e.kind = "clear" -> Emptied(v)

\* Arrivals up to the last one the page lists are in the snapshot already.
ReplayDeltas(v, deltas) ==
    LET inSnapshot(i) ==
            \E last \in i .. Len(deltas) :
                /\ log[deltas[last]].kind = "new"
                /\ IsListed(v, log[deltas[last]].id)
        step(w, i) == IF inSnapshot(i) /\ log[deltas[i]].kind = "new" THEN w
                      ELSE ReplayDelta(w, log[deltas[i]])
    IN  FoldLeftDomain(step, v, deltas)

-----------------------------------------------------------------------------
(* dispatch: one event of the queue *)

\* fetch_messages with the view `v`.
Fetching(v, a) ==
    /\ a.gen < MaxFetches
    /\ app' = [a EXCEPT !.loading = TRUE, !.gen = @ + 1]
    /\ fetches' = fetches \cup
           {[gen |-> a.gen + 1, searching |-> v.searching, offset |-> v.offset,
             pc |-> "sent", page |-> << >>, total |-> 0, at |-> 0]}
    /\ view' = v

Taking(event) == /\ queue # << >>
                 /\ event = Head(queue)
                 /\ queue' = Tail(queue)
                 /\ UNCHANGED <<server, conn, spent>>

\* PendingDeltas::record.
Record(a, n) ==
    IF a.overflowed THEN a
    ELSE IF Len(a.pending) >= PendCap
         THEN [a EXCEPT !.pending = << >>, !.overflowed = TRUE]
         ELSE [a EXCEPT !.pending = Append(@, n)]

HandleWsMessage ==
    \E event \in {Head(queue)} :
        /\ Taking(event)
        /\ event.k = "frame"
        /\ app' = IF app.loading THEN Record(app, event.n) ELSE app
        /\ view' = Live(view, log[event.n])
        /\ missed' = IF app'.overflowed /\ event.n > missed THEN event.n ELSE missed
        /\ UNCHANGED <<fetches, dropped>>

HandleWsOverflow ==
    \E event \in {Head(queue)} :
        /\ Taking(event)
        /\ event.k = "overflow"
        /\ view' = [view EXCEPT !.stale = TRUE]
        /\ app' = IF app.loading THEN [app EXCEPT !.overflowed = TRUE] ELSE app
        /\ UNCHANGED <<fetches, missed, dropped>>

\* Variant: a connection that comes back does not fetch the list again.
HandleWsStatusQuiet ==
    \E event \in {Head(queue)} :
        /\ Taking(event)
        /\ event.k = "status"
        /\ app' = [app EXCEPT !.connected = event.up, !.ever = @ \/ event.up]
        /\ UNCHANGED <<fetches, view, missed, dropped>>

HandleWsStatus ==
    \E event \in {Head(queue)} :
        /\ Taking(event)
        /\ event.k = "status"
        /\ LET a == [app EXCEPT !.connected = event.up, !.ever = @ \/ event.up]
           IN  IF event.up /\ ~ app.connected /\ app.ever
               THEN Fetching(view, a)
               ELSE app' = a /\ UNCHANGED <<fetches, view>>
        /\ UNCHANGED <<missed, dropped>>

HandleMessagesFetched ==
    \E event \in {Head(queue)} :
        /\ Taking(event)
        /\ event.k = "fetched"
        /\ IF event.fetch.gen # app.gen THEN UNCHANGED <<app, view>>
           ELSE /\ app' = [app EXCEPT !.loading = FALSE, !.pending = << >>,
                                      !.overflowed = FALSE]
                /\ LET replayed == ReplayDeltas(
                                     [view EXCEPT !.list = event.fetch.page,
                                                  !.total = event.fetch.total,
                                                  !.stale = FALSE],
                                     app.pending)
                   IN  view' = IF ~ event.ok THEN view
                               ELSE [view EXCEPT !.list = replayed.list,
                                                 !.total = replayed.total,
                                                 !.stale = app.overflowed \/ replayed.stale,
                                                 !.at = event.fetch.at]
        /\ UNCHANGED <<fetches, missed, dropped>>

\* handle_patched, handle_deleted and handle_all_deleted of a success.
HandleOwn ==
    \E event \in {Head(queue)} :
        /\ Taking(event)
        /\ event.k \in {"patched", "deleted", "cleared"}
        /\ view' = CASE event.k = "patched" -> ApplyUpdate(view, event)
                     [] event.k = "deleted" ->
                          [view EXCEPT !.list = Dropped(@, event.id)]
                     [] event.k = "cleared" -> [view EXCEPT !.list = << >>]
        /\ UNCHANGED <<app, fetches, missed, dropped>>

\* Event::Tick: refetch_if_stale; the throttle has run out or has not.
Tick ==
    /\ view.stale /\ ~ app.loading
    /\ Fetching(view, app)
    /\ UNCHANGED <<server, conn, queue, spent, missed, dropped>>

-----------------------------------------------------------------------------
(* Keys that change the view *)

ChangeView(v) ==
    /\ spent.user < MaxUser
    /\ spent' = [spent EXCEPT !.user = @ + 1]
    /\ Fetching(v, app)
    /\ UNCHANGED <<server, conn, queue, missed, dropped>>

Search == ChangeView([view EXCEPT !.searching = ~ @, !.offset = 0])

NextPage == /\ view.offset + PageSize < view.total
            /\ ChangeView([view EXCEPT !.offset = @ + PageSize])

PrevPage == /\ view.offset > 0
            /\ ChangeView([view EXCEPT !.offset = IF @ > PageSize THEN @ - PageSize
                                                  ELSE 0])

-----------------------------------------------------------------------------
Announce == AnnounceArrival \/ \E job \in jobs : AnnounceJob(job)
OthersWrite ==
    \/ "read" \in Ops /\ \E id \in DOMAIN box, read \in BOOLEAN :
           UpdateMessage(id, read, FALSE)
    \/ "delete" \in Ops /\ \E id \in DOMAIN box : DeleteMessage(id, FALSE)
    \/ "clear" \in Ops /\ DeleteAllMessages(FALSE)
    \/ "trim" \in Ops /\ \E oldest \in SUBSET DOMAIN box : RetentionTrim(oldest)
\* The user acts on a row of the list; the request may find it gone.
UserWrites ==
    \/ "read" \in OwnOps /\ \E i \in DOMAIN view.list :
           UpdateMessage(view.list[i].id, ~ view.list[i].read, TRUE)
    \/ "delete" \in OwnOps /\ \E i \in DOMAIN view.list :
           DeleteMessage(view.list[i].id, TRUE)
    \/ "clear" \in OwnOps /\ DeleteAllMessages(TRUE)
Serve == \E f \in fetches : ReadPage(f) \/ ReadTotal(f) \/ AnswerFetch(f)
Link == StatusDown \/ Connect \/ Subscribe \/ StatusUp
Pump == PumpFrame \/ PumpDebt \/ LagClose
Dispatch ==
    /\ queue # << >>
    /\ \/ HandleWsMessage \/ HandleWsOverflow \/ HandleWsStatus
       \/ HandleMessagesFetched \/ HandleOwn

Next ==
    /\ UNCHANGED races
    /\ \/ \E n \in 1 .. MaxBatch : Insert(n)
       \/ OthersWrite
       \/ UserWrites
       \/ Announce
       \/ \E job \in jobs : AbandonJob(job)
       \/ \E job \in jobs : AnswerJob(job)
       \/ Serve
       \/ \E f \in fetches : FailFetch(f)
       \/ Link
       \/ Pump
       \/ Break
       \/ Dispatch
       \/ Tick
       \/ Search
       \/ NextPage
       \/ PrevPage

Spec == Init /\ [][Next]_vars

-----------------------------------------------------------------------------
Events == [kind : {"new", "delete", "read", "clear"}, id : Nat, read : BOOLEAN]

TypeOK ==
    /\ DOMAIN box \subseteq 1 .. spent.ids
    /\ \A id \in DOMAIN box : box[id] \in BOOLEAN
    /\ \A i \in DOMAIN arrivals : arrivals[i] \in Events
    /\ \A i \in DOMAIN log : log[i] \in Events
    /\ conn \in [pc : {"down", "connecting", "announce", "pump", "debt"},
                 sub : {"none", "upgraded", "open"}, pos : 0 .. Len(log),
                 owed : BOOLEAN, once : BOOLEAN]
    /\ Len(queue) <= QueueCap
    /\ Len(app.pending) <= PendCap
    /\ Len(view.list) <= PageSize
    /\ view.total \in Nat
    /\ dropped \in 0 .. missed /\ missed \in 0 .. Len(log)

\* Nothing is on its way to the client and nothing is owed to it.
Settled ==
    /\ AllAnnounced /\ jobs = {}
    /\ fetches = {} /\ queue = << >>
    /\ conn.pc = "pump" /\ conn.sub = "open" /\ ~ conn.owed /\ ~ Unread
    /\ ~ view.stale

\* What is shown is stored, with its flag; on the first page it is the newest
\* of the view; and the total is the count.  Rows a delete leaves room for are
\* not filled in, so the page may be short.
Right ==
    /\ \A i \in DOMAIN view.list :
          /\ view.list[i].id \in Listable(view.searching)
          /\ view.list[i].read = box[view.list[i].id]
    /\ view.offset = 0 => IsPrefix(view.list, Rows(view.searching))
    /\ view.total = Cardinality(Listable(view.searching))

\* Once everything sent has been seen, the list and its total are what the
\* store holds, whatever order snapshots, deltas, drops, reconnects and the
\* user's own changes came in (handle_messages_fetched, replay_deltas).
ViewIsRight == Settled => Right

\* A list that will show every event up to the n-th is being read.
ReadingPast(n) ==
    \/ \E f \in fetches : f.gen = app.gen /\ (f.pc = "sent" \/ f.at >= n)
    \/ \E i \in DOMAIN queue :
          /\ queue[i].k = "fetched" /\ queue[i].ok
          /\ queue[i].fetch.gen = app.gen /\ queue[i].fetch.at >= n
Queued(k) == \E i \in DOMAIN queue : queue[i].k = k

\* A frame the full queue turned away is made up for: until the list has been
\* read after it, the debt is owed, its marker queued or the view stale, so
\* that the next tick reads the list again, however many requests fail
\* (pump_ws_frames: "a drop is never lost together with the signal that would
\* repair it").
DropIsRepaid ==
    dropped > view.at =>
        conn.owed \/ Queued("overflow") \/ view.stale

\* So is every other event this client does not get, lost with a connection,
\* overwritten in the ring or broadcast while there was no subscription
\* (ws.rs: "closing hands the job to the reconnect path that already resyncs").
ResyncIsOwed ==
    missed > view.at =>
        \/ conn.owed \/ Queued("overflow") \/ view.stale \/ ReadingPast(missed)
        \/ app.overflowed
        \/ conn.pc # "pump"
        \/ \E i \in DOMAIN queue : queue[i].k = "status" /\ queue[i].up

\* Arrivals are announced in the order they commit (replay_deltas relies on
\* it to tell which of them a snapshot already counts).
ArrivalsInOrder ==
    \A i, j \in DOMAIN log :
        i < j /\ log[i].kind = "new" /\ log[j].kind = "new" => log[i].id < log[j].id

\* The view comes to be right and stays so once changes stop.
Converges == <>[]Right

Fairness ==
    /\ WF_vars(Announce)
    /\ WF_vars(\E job \in jobs : AnswerJob(job))
    /\ WF_vars(Serve) /\ WF_vars(Link) /\ WF_vars(Pump)
    /\ WF_vars(Dispatch) /\ WF_vars(Tick)
FairSpec == Spec /\ Fairness
=============================================================================
