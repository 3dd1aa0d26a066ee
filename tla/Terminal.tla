------------------------------ MODULE Terminal ------------------------------
(* The terminal interface: its feed, with every overlap the constants ask for, *)
(* and its screen.  Screen takes any list, so the two meet nowhere: both stand *)
(* in their initial states and the one `part` names runs.                      *)
EXTENDS Integers, Sequences, FiniteSets

CONSTANTS
  Listed,                              \* Screen's messages
  ListSize,                            \* its page_size
  MaxChanges, MaxRequests, MaxSteps,   \* its bounds
  Overlaps, Writes, OwnWrites, Found,  \* Feed's races, Ops, OwnOps and Matching
  BatchSize, Page,                     \* its MaxBatch and PageSize
  EventCap, DeltaCap, RingSize,        \* its QueueCap, PendCap and RingCap
  MaxIds, MaxWrites, MaxBreaks, MaxFetches, MaxUser   \* its bounds

VARIABLES
  part,                                                     \* the part that runs
  box, arrivals, jobs, log, conn, queue,
  fetches, app, view, spent, dropped, missed,               \* Feed
  list, selected, loading, viewChanged, pane, raw,
  mode, focus, requests, lastRequest, changes, failed       \* Screen

feedVars ==
  <<box, arrivals, jobs, log, conn, queue, fetches, app, view, spent, dropped, missed>>
screenVars ==
  <<list, selected, loading, viewChanged, pane, raw, mode, focus, requests, lastRequest, changes, failed>>
terminalVars == <<part, feedVars, screenVars>>

----------------------------------------------------------------------------

(* The overlaps that are asked for, or those of them after which a reconnect   *)
(* still resyncs: the first page and every subscription are in time, and no    *)
(* request fails.                                                              *)
Late == {"first", "upgrade", "fetch fails"}
Allowed == IF part = "feed resync" THEN Overlaps \ Late ELSE Overlaps
FX == INSTANCE Feed WITH
        races <- Allowed, Ops <- Writes, OwnOps <- OwnWrites, Matching <- Found,
        MaxBatch <- BatchSize, PageSize <- Page, QueueCap <- EventCap, PendCap <- DeltaCap,
        RingCap <- RingSize

(* The list changes under the cursor while answers are on their way or fail.   *)
S == INSTANCE Screen WITH Ids <- Listed, PageSize <- ListSize, Faults <- TRUE

ASSUME TerminalAssumption ==
  /\ Overlaps \subseteq FX!AllRaces
  /\ FX!FeedAssumption /\ S!ScreenAssumption

----------------------------------------------------------------------------

Begin == FX!Init /\ S!Init

TerminalInit == part \in {"feed races", "feed resync", "screen"} /\ Begin

TerminalNext ==
  /\ UNCHANGED part
  /\ \/ part \in {"feed races", "feed resync"} /\ FX!Next /\ UNCHANGED screenVars
     \/ part = "screen" /\ S!Next /\ UNCHANGED feedVars

TerminalSpec == TerminalInit /\ [][TerminalNext]_terminalVars

----------------------------------------------------------------------------

(* An event that did not reach the terminal is owed a full read until it is    *)
(* made: one its full queue turned away whatever overlaps and whichever        *)
(* requests fail, and one lost with a connection, overwritten in the ring or   *)
(* broadcast before the subscription as long as the resync is in time.         *)
(* Arrivals are announced in the order of their commits.  TLC's bounds break   *)
(* no connection here (MaxBreaks is 0; TerminalListIsRight's reconnecting      *)
(* instance does); the theorem MissedIsAlwaysRepaid is for any number.         *)
MissedIsRepaid ==
  /\ part \in {"feed races", "feed resync"} => FX!DropIsRepaid /\ FX!ArrivalsInOrder
  /\ part = "feed resync" => FX!ResyncIsOwed

(* The terminal's panes: the cursor stands on a row whenever there is one, the *)
(* preview is of the selected message or waits for it (unless a request has    *)
(* just failed), and the full raw view shows the message it was asked for.     *)
(* The source in the pane's own raw tab is left out: see PreviewIsSelected.    *)
PanesAreRight == S!TypeOK /\ S!CursorOnARow /\ S!PreviewIsSelected /\ S!RawIsAsked

(* The cursor stays on its message while rows move under it.                   *)
CursorStays == S!CursorStays
============================================================================
