--------------------------- MODULE MCClientsLive ---------------------------
(* What the clients must come to show in the end, for TLC: Feed, Screen and    *)
(* Inbox side by side as in MCClients, in instances small enough for liveness. *)
EXTENDS Integers, Sequences, FiniteSets

CONSTANT Listed   \* messages of Screen's list

VARIABLES
  part,                                                     \* the part that runs
  box, arrivals, jobs, log, conn, queue,
  fetches, app, view, spent, dropped, missed,               \* Feed
  list, selected, loading, viewChanged, pane, raw,
  mode, focus, requests, lastRequest, changes, failed,      \* Screen
  mail, born, socket, wire, held, timer,
  c, sent, behind, gone, left, misread                      \* Inbox

feedVars ==
  <<box, arrivals, jobs, log, conn, queue, fetches, app, view, spent, dropped, missed>>
screenVars ==
  <<list, selected, loading, viewChanged, pane, raw, mode, focus, requests, lastRequest, changes, failed>>
inboxVars == <<mail, born, socket, wire, held, timer, c, sent, behind, gone, left, misread>>
vars == <<part, feedVars, screenVars, inboxVars>>

----------------------------------------------------------------------------
(* Queue, delta buffer and ring of one entry, and a connection that breaks.    *)
F == INSTANCE Feed WITH
       races <- {}, Ops <- {"read"}, OwnOps <- {"delete"}, Matching <- {1},
       MaxBatch <- 2, PageSize <- 1, QueueCap <- 1, PendCap <- 1, RingCap <- 1,
       MaxIds <- 2, MaxWrites <- 1, MaxBreaks <- 1, MaxFetches <- 9, MaxUser <- 0

S == INSTANCE Screen WITH
       Ids <- Listed, PageSize <- 2, Faults <- FALSE, MaxChanges <- 2, MaxRequests <- 2, MaxSteps <- 4

(* Every race of the browser, two deletions by the reader and one by another.  *)
I == INSTANCE Inbox WITH
       queue <- held, Races <- {"two reads", "late event", "older page"}, PageSize <- 2, MaxLiveRows <- 2, QueueCap <- 2,
       Attempts <- 3, Before <- 2, MaxIds <- 2, MaxDeletes <- 2, MaxOthers <- 1, MaxClears <- 0,
       MaxDrops <- 0, MaxFails <- 1

ASSUME ClientsAssumption == F!FeedAssumption /\ S!ScreenAssumption /\ I!InboxAssumption

----------------------------------------------------------------------------

Init == part \in {"feed", "screen", "inbox"} /\ F!Init /\ S!Init /\ I!Init

Next ==
  /\ UNCHANGED part
  /\ \/ part = "feed" /\ F!Next /\ UNCHANGED <<screenVars, inboxVars>>
     \/ part = "screen" /\ S!Next /\ UNCHANGED <<feedVars, inboxVars>>
     \/ part = "inbox" /\ I!Next /\ UNCHANGED <<feedVars, screenVars>>

(* The fairness of each part, while it runs.                                   *)
Fairness ==
  /\ WF_feedVars(part = "feed" /\ F!Announce)
  /\ WF_feedVars(part = "feed" /\ \E job \in jobs : F!AnswerJob(job))
  /\ WF_feedVars(part = "feed" /\ F!Serve) /\ WF_feedVars(part = "feed" /\ F!Link)
  /\ WF_feedVars(part = "feed" /\ F!Pump) /\ WF_feedVars(part = "feed" /\ F!Dispatch)
  /\ WF_feedVars(part = "feed" /\ F!Tick)
  /\ WF_screenVars(part = "screen" /\ S!Answer) /\ WF_screenVars(part = "screen" /\ S!Land)
  /\ WF_inboxVars(part = "inbox" /\ (I!CommitDelete \/ I!UndoDelete))
  /\ WF_inboxVars(part = "inbox" /\ I!ServeDelete)
  /\ WF_inboxVars(part = "inbox" /\ I!SettleDelete)
  /\ WF_inboxVars(part = "inbox" /\ I!ServePage)
  /\ WF_inboxVars(part = "inbox" /\ I!ServeTotal)
  /\ WF_inboxVars(part = "inbox" /\ I!LandTop)
  /\ WF_inboxVars(part = "inbox" /\ I!EnqueueEvent)
  /\ WF_inboxVars(part = "inbox" /\ I!FlushEvents)

Spec == Init /\ [][Next]_vars /\ Fairness

----------------------------------------------------------------------------

(* When the server comes to rest, its clients settle: the terminal's list      *)
(* becomes the store's, the selected message comes into the pane, and every    *)
(* message the browser hides is deleted or comes back, under every race.       *)
ClientsSettle == F!Converges /\ S!PreviewArrives /\ I!HiddenSettles
============================================================================
