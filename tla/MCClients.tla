----------------------------- MODULE MCClients -----------------------------
(* The terminal interface and the browser's inbox for TLC: what they show      *)
(* against what the server holds.  Feed and Inbox each have their own server,  *)
(* and Screen takes any list, so the three meet nowhere: all stand in their    *)
(* initial states and the one `part` names runs, each in several instances.    *)
EXTENDS Terminal

VARIABLES
  mail, born, socket, wire, held, timer,
  c, sent, behind, gone, left, misread                      \* Inbox

inboxVars == <<mail, born, socket, wire, held, timer, c, sent, behind, gone, left, misread>>
vars == <<terminalVars, inboxVars>>

----------------------------------------------------------------------------
(* The client's own races: snapshots, deltas, searches, pages, a full queue,   *)
(* on a server that finishes one change before the next.                       *)
F == INSTANCE Feed WITH
       races <- {}, Ops <- {"delete", "read"}, OwnOps <- {"delete"}, Matching <- {1},
       MaxBatch <- 2, PageSize <- 1, QueueCap <- 2, PendCap <- 2, RingCap <- 2,
       MaxIds <- 2, MaxWrites <- 1, MaxBreaks <- 0, MaxFetches <- 3, MaxUser <- 1

(* Connections break and lag while messages come and go.                       *)
FR == INSTANCE Feed WITH
        races <- {}, Ops <- {"delete", "trim"}, OwnOps <- {}, Matching <- {1},
        MaxBatch <- 2, PageSize <- 1, QueueCap <- 2, PendCap <- 2, RingCap <- 2,
        MaxIds <- 2, MaxWrites <- 2, MaxBreaks <- 1, MaxFetches <- 3, MaxUser <- 0

(* Every inbox reads up to LIST_READ_ATTEMPTS = 3 times.  Races <- {} leaves    *)
(* out the overlaps no client can see through: a commit between a page and its *)
(* total, a read that overtakes an event older than it, and mail that arrives  *)
(* while an older page is on its way.                                          *)

(* Two deletions with undo, an arrival and a failed request.                   *)
I == INSTANCE Inbox WITH
       queue <- held, Races <- {}, PageSize <- 2, MaxLiveRows <- 2, QueueCap <- 2, Attempts <- 3,
       Before <- 2, MaxIds <- 3, MaxDeletes <- 2, MaxOthers <- 0, MaxClears <- 0,
       MaxDrops <- 0, MaxFails <- 1

(* A lost socket, a failed request, a cleared inbox and a queue of one event.  *)
IX == INSTANCE Inbox WITH
        queue <- held, Races <- {}, PageSize <- 2, MaxLiveRows <- 2, QueueCap <- 1, Attempts <- 3,
        Before <- 2, MaxIds <- 3, MaxDeletes <- 1, MaxOthers <- 0, MaxClears <- 1,
        MaxDrops <- 1, MaxFails <- 1

(* Another client deletes beside the reader, an undo window and a reconnect.   *)
IO == INSTANCE Inbox WITH
        queue <- held, Races <- {}, PageSize <- 2, MaxLiveRows <- 2, QueueCap <- 1, Attempts <- 3,
        Before <- 2, MaxIds <- 3, MaxDeletes <- 1, MaxOthers <- 1, MaxClears <- 0,
        MaxDrops <- 1, MaxFails <- 0

(* Two deletions and a clear outdate all three attempts at the first page.     *)
IT == INSTANCE Inbox WITH
        queue <- held, Races <- {}, PageSize <- 3, MaxLiveRows <- 3, QueueCap <- 2, Attempts <- 3,
        Before <- 3, MaxIds <- 3, MaxDeletes <- 2, MaxOthers <- 0, MaxClears <- 1,
        MaxDrops <- 1, MaxFails <- 0

(* Three deletions outdate all three attempts at an older page.                *)
IP == INSTANCE Inbox WITH
        queue <- held, Races <- {}, PageSize <- 2, MaxLiveRows <- 3, QueueCap <- 2, Attempts <- 3,
        Before <- 4, MaxIds <- 4, MaxDeletes <- 1, MaxOthers <- 2, MaxClears <- 0,
        MaxDrops <- 0, MaxFails <- 0

ASSUME ClientsAssumption ==
  /\ F!FeedAssumption /\ FR!FeedAssumption
  /\ I!InboxAssumption /\ IX!InboxAssumption /\ IO!InboxAssumption
  /\ IT!InboxAssumption /\ IP!InboxAssumption

----------------------------------------------------------------------------

Init ==
  /\ part \in {"feed", "feed reconnect", "feed races", "feed resync", "screen",
              "inbox", "inbox faults", "inbox others", "inbox outdated", "inbox older"}
  /\ Begin
  /\ CASE part = "inbox faults" -> IX!Init
       [] part = "inbox others" -> IO!Init
       [] part = "inbox outdated" -> IT!Init
       [] part = "inbox older" -> IP!Init
       [] OTHER -> I!Init

Next ==
  \/ TerminalNext /\ UNCHANGED inboxVars
  \/ /\ UNCHANGED part
     /\ \/ part = "feed" /\ F!Next
        \/ part = "feed reconnect" /\ FR!Next
     /\ UNCHANGED <<screenVars, inboxVars>>
  \/ /\ UNCHANGED part
     /\ \/ part = "inbox" /\ I!Next
        \/ part = "inbox faults" /\ IX!Next
        \/ part = "inbox others" /\ IO!Next
        \/ part = "inbox outdated" /\ IT!Next
        \/ part = "inbox older" /\ IP!Next
     /\ UNCHANGED <<feedVars, screenVars>>

Spec == Init /\ [][Next]_vars

----------------------------------------------------------------------------

(* The terminal's list: once all is delivered, it and its total are the        *)
(* store's, on a server that finishes one change before the next, and what a   *)
(* broken or lagging connection missed is owed a full read until it is made.   *)
(* races <- {} leaves out the overlaps no client can see through: a change     *)
(* announced after others were read (main.rs:629) and a commit between a page  *)
(* and its total (handlers.rs:122).                                            *)
TerminalListIsRight ==
  /\ F!TypeOK
  /\ part = "feed" => F!ViewIsRight
  /\ part = "feed reconnect" => FR!ViewIsRight /\ FR!ResyncIsOwed

(* The browser's inbox: once nothing is under way its total is the server's    *)
(* number of messages and its rows are the newest of them, and a hidden        *)
(* message has a DELETE under way or still to come.  A row whose deletion was  *)
(* confirmed comes back, or rows stay wrong, for one reason only: deletions    *)
(* outdated all three attempts of a read, so the page of the last one is       *)
(* shown, and only the total is read again.  Neither a late event, a lost      *)
(* socket, a failed request nor a read that began before the deletion does it. *)
InboxIsRight ==
  /\ IP!TypeOK /\ I!RowsAreRight /\ I!TotalIsRight
  /\ I!HiddenIsOwed /\ I!ReturnsOnlyMisread
============================================================================
