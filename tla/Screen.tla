------------------------------- MODULE Screen -------------------------------
(***************************************************************************)
(* The screen of the terminal interface: the cursor on the message list,   *)
(* the preview pane beside it, the raw view and the dialogs, while the     *)
(* list changes underneath and answers arrive in any order (app.rs).       *)
(*                                                                         *)
(* How the list comes to change is module Feed's subject; here it simply   *)
(* changes.  Scrolling, colours and the status line are left out, and so   *)
(* is the patch that marks an opened message read.                         *)
(***************************************************************************)
EXTENDS Integers, Sequences, FiniteSets, FiniteSetsExt

CONSTANTS
    Ids,          \* messages
    PageSize,     \* page_size (50)
    Faults,       \* whether requests may fail
    MaxChanges,   \* model bound: changes of the list and fetches begun
    MaxRequests,  \* model bound: last_request_id
    MaxSteps      \* model bound: the two together

None == "none"

ScreenAssumption ==
    /\ PageSize \in Nat \ {0}
    /\ None \notin Ids
    /\ Faults \in BOOLEAN
    /\ MaxChanges \in Nat /\ MaxRequests \in Nat /\ MaxSteps \in Nat

NoRequest == 0
Modes == {"Normal", "Search", "RawView", "Confirm", "Help"}
Tabs == {"Text", "Headers", "Raw"}

VARIABLES
    list,        \* messages, by id
    selected,    \* index of the cursor, from 0
    loading,     \* a list fetch is in flight
    viewChanged, \* it was begun by a search or a page turn
    pane,        \* the preview: what it shows and what it waits for
    raw,         \* the full raw view and the one slot for raw requests
    mode, focus,
    requests,    \* preview and raw requests in flight
    lastRequest, \* last_request_id
    changes,     \* model budget
    failed       \* history: a list or preview request failed and none was
                 \* begun for the selected message since

vars == <<list, selected, loading, viewChanged, pane, raw, mode, focus,
          requests, lastRequest, changes, failed>>
ui == <<mode, focus>>

Lists == UNION {{l \in [1 .. n -> Ids] : \A i, j \in 1 .. n : l[i] = l[j] => i = j} :
                n \in 0 .. PageSize}

IdAt(l, index) == IF index < Len(l) THEN l[index + 1] ELSE None
SelectedId == IdAt(list, selected)

-----------------------------------------------------------------------------
Init ==
    /\ list = << >> /\ selected = 0
    /\ loading = TRUE /\ viewChanged = FALSE
    /\ pane = [preview |-> None, last |-> None, pending |-> NoRequest,
               loading |-> FALSE, raw |-> None, tab |-> "Text"]
    /\ raw = [target |-> None, request |-> NoRequest, content |-> None,
              asked |-> None]
    /\ mode = "Normal" /\ focus = "List"
    /\ requests = {} /\ lastRequest = 0
    /\ changes = 0 /\ failed = FALSE

-----------------------------------------------------------------------------
(* The cursor *)

\* Variant: the cursor keeps its place in the list.
KeepIndex(old, index, new) == index

\* resolve_selection: the message itself, else the first survivor below it,
\* else the nearest above, else the same place in the new list.
ResolveSelection(old, index, new) ==
    LET survivors == {i \in DOMAIN old : \E j \in DOMAIN new : new[j] = old[i]}
        below == {i \in survivors : i > index}
        above == survivors \ below
        place(i) == (CHOOSE j \in DOMAIN new : new[j] = old[i]) - 1
    IN  CASE below # {} -> place(Min(below))
          [] below = {} /\ above # {} -> place(Max(above))
          [] survivors = {} -> IF index < Len(new) THEN index
                               ELSE IF new = << >> THEN 0 ELSE Len(new) - 1

-----------------------------------------------------------------------------
(* The preview *)

Request(kind, id) ==
    /\ lastRequest < MaxRequests /\ changes + lastRequest < MaxSteps
    /\ lastRequest' = lastRequest + 1
    /\ requests' = requests \cup
           {[kind |-> kind, request |-> lastRequest + 1, id |-> id]}
NoNewRequest == UNCHANGED <<requests, lastRequest>>

Blank(p) == [p EXCEPT !.preview = None, !.last = None, !.pending = NoRequest,
                      !.raw = None]
NoRawPending(r) == [r EXCEPT !.target = None, !.request = NoRequest]

\* load_preview of the message now selected, on the pane `p` and the slot `r`.
LoadPreview(id, p, r) ==
    /\ failed' = FALSE
    /\ IF id = None
       THEN pane' = Blank(p) /\ raw' = NoRawPending(r) /\ NoNewRequest
       ELSE IF p.last = id
       THEN /\ pane' = [p EXCEPT !.pending = NoRequest, !.loading = FALSE]
            /\ raw' = r
            /\ NoNewRequest
       ELSE /\ Request("preview", id)
            /\ pane' = [p EXCEPT !.loading = TRUE, !.raw = None, !.tab = "Text",
                                 !.pending = lastRequest + 1]
            /\ raw' = NoRawPending(r)

RetargetPreview(id) == LoadPreview(id, Blank(pane), NoRawPending(raw))

\* Variant: any answer for the selected row is shown.
HandlePreviewLoadedAny(q, ok) ==
    /\ q.kind = "preview"
    /\ pane' = [pane EXCEPT !.pending = NoRequest, !.loading = FALSE,
                            !.last = q.id, !.preview = q.id]
    /\ requests' = requests \ {q}
    /\ UNCHANGED <<list, selected, loading, viewChanged, raw, ui, lastRequest, changes,
                   failed>>

\* handle_preview_loaded: only the latest request, only for the selected row.
HandlePreviewLoaded(q, ok) ==
    /\ q.kind = "preview"
    /\ IF pane.pending # q.request \/ SelectedId # q.id THEN UNCHANGED <<pane, failed>>
       ELSE /\ pane' = [pane EXCEPT !.pending = NoRequest, !.loading = FALSE,
                                    !.last = IF ok THEN q.id ELSE @,
                                    !.preview = IF ok THEN q.id ELSE @]
            /\ failed' = ~ ok
    /\ requests' = requests \ {q}
    /\ UNCHANGED <<list, selected, loading, viewChanged, raw, ui, lastRequest, changes>>

-----------------------------------------------------------------------------
(* Changes of the list *)

Changing == /\ changes < MaxChanges /\ changes + lastRequest < MaxSteps
            /\ changes' = changes + 1

\* restore_selection: while a fetch is in flight the preview is left alone.
RestoreSelection(new) ==
    LET index == ResolveSelection(list, selected, new)
    IN  /\ list' = new
        /\ selected' = index
        /\ IF IdAt(new, index) # SelectedId /\ ~ loading
           THEN RetargetPreview(IdAt(new, index))
           ELSE UNCHANGED <<pane, raw, failed>> /\ NoNewRequest

Arrived(id) == SubSeq(<<id>> \o list, 1, Min({PageSize, Len(list) + 1}))

Without(id) ==
    LET i == CHOOSE i \in DOMAIN list : list[i] = id
    IN  SubSeq(list, 1, i - 1) \o SubSeq(list, i + 1, Len(list))

\* An arrival, a removal or a clear: handle_ws_message and handle_deleted.
LiveChange ==
    /\ Changing
    /\ \/ \E id \in Ids : /\ \A i \in DOMAIN list : list[i] # id
                          /\ RestoreSelection(Arrived(id))
       \/ \E id \in Ids : /\ \E i \in DOMAIN list : list[i] = id
                          /\ RestoreSelection(Without(id))
       \/ RestoreSelection(<< >>)
    /\ UNCHANGED <<loading, viewChanged, ui>>

\* fetch_messages for a resync.
FetchBegins ==
    /\ Changing
    /\ loading' = TRUE
    /\ UNCHANGED <<list, selected, viewChanged, pane, raw, ui, requests, lastRequest, failed>>

\* handle_messages_fetched: a changed view keeps the selected message or
\* goes to the top, a resync resolves the cursor against the old list.
FetchLands(new) ==
    /\ loading
    /\ loading' = FALSE /\ viewChanged' = FALSE
    /\ LET ids == IF ~ viewChanged THEN list
                  ELSE IF SelectedId = None THEN << >> ELSE <<SelectedId>>
           anchor == IF viewChanged THEN 0 ELSE selected
           index == ResolveSelection(ids, anchor, new)
           id == IdAt(new, index)
       IN  /\ list' = new
           /\ selected' = index
           /\ IF id # IdAt(ids, anchor) \/ pane.last # id
              THEN RetargetPreview(id)
              ELSE UNCHANGED <<pane, raw, failed>> /\ NoNewRequest
    /\ UNCHANGED <<ui, changes>>

FetchFailed ==
    /\ Faults /\ loading
    /\ loading' = FALSE /\ viewChanged' = FALSE
    /\ failed' = TRUE
    /\ UNCHANGED <<list, selected, pane, raw, ui, requests, lastRequest, changes>>

-----------------------------------------------------------------------------
(* Keys and the mouse *)

\* select_message and then load_preview; select_next, select_prev, g, G, a
\* click and the wheel all come here.
Select(index) ==
    /\ index < Len(list) /\ index # selected
    /\ selected' = index
    /\ LoadPreview(list[index + 1], pane, raw)
    /\ UNCHANGED <<list, loading, viewChanged, changes>>

SelectByKey ==
    /\ mode = "Normal" /\ focus = "List"
    /\ \E index \in {selected + 1, selected - 1, 0, Len(list) - 1} :
          index >= 0 /\ Select(index)
    /\ UNCHANGED ui

\* The mouse works in every mode.
Click(index) == Select(index) /\ focus' = "List" /\ UNCHANGED mode

Focus(f) == /\ mode = "Normal"
            /\ focus' = f
            /\ UNCHANGED <<list, selected, loading, viewChanged, pane, raw, mode,
                           requests, lastRequest, changes, failed>>

\* `3` and a click on the tab: switch_preview_tab and ensure_raw_loaded.
RawTab ==
    /\ focus' = "Preview" /\ UNCHANGED mode
    /\ IF pane.raw # None \/ SelectedId = None
       THEN UNCHANGED raw /\ NoNewRequest
       ELSE /\ Request("rawPane", SelectedId)
            /\ raw' = [raw EXCEPT !.target = "Preview", !.request = lastRequest + 1]
    /\ pane' = [pane EXCEPT !.tab = "Raw"]
    /\ UNCHANGED <<list, selected, loading, viewChanged, changes, failed>>

Tab(t) ==
    /\ t # "Raw"
    /\ pane' = [pane EXCEPT !.tab = t]
    /\ focus' = "Preview"
    /\ UNCHANGED <<list, selected, loading, viewChanged, raw, mode, requests,
                   lastRequest, changes, failed>>

\* show_raw takes the slot over from whatever was pending.
ShowRaw ==
    /\ mode = "Normal"
    /\ SelectedId # None
    /\ Request("rawView", SelectedId)
    /\ raw' = [raw EXCEPT !.target = "FullView", !.request = lastRequest + 1,
                          !.asked = SelectedId]
    /\ UNCHANGED <<list, selected, loading, viewChanged, pane, ui, changes, failed>>

\* handle_raw_loaded: the answer for the pane also has to be of the selected
\* row; the one for the view opens it over any dialog.
HandleRawLoaded(q, ok) ==
    /\ q.kind \in {"rawPane", "rawView"}
    /\ requests' = requests \ {q}
    /\ LET inPane == q.kind = "rawPane"
           wanted == /\ raw.target = IF inPane THEN "Preview" ELSE "FullView"
                     /\ raw.request = q.request
                     /\ inPane => SelectedId = q.id
           shown == wanted /\ ok
       IN  /\ raw' = IF ~ wanted THEN raw
                     ELSE [NoRawPending(raw) EXCEPT
                             !.content = IF ok /\ ~ inPane THEN q.id ELSE @]
           /\ pane' = IF shown /\ inPane THEN [pane EXCEPT !.raw = q.id] ELSE pane
           /\ mode' = IF shown /\ ~ inPane THEN "RawView" ELSE mode
    /\ UNCHANGED <<list, selected, loading, viewChanged, focus, lastRequest, changes,
                   failed>>

\* Dialogs: `/`, `D`, `?`; leaving one; q or Esc of the raw view.
Dialog(m) ==
    /\ mode = "Normal" /\ m \in {"Search", "Confirm", "Help"}
    /\ mode' = m
    /\ UNCHANGED <<list, selected, loading, viewChanged, pane, raw, focus,
                   requests, lastRequest, changes, failed>>

Leave ==
    /\ mode # "Normal"
    /\ mode' = "Normal"
    /\ raw' = IF mode = "RawView" THEN [raw EXCEPT !.content = None] ELSE raw
    /\ UNCHANGED <<list, selected, loading, viewChanged, pane, focus, requests,
                   lastRequest, changes, failed>>

\* Enter in the search box, or a page turn.
ChangeView ==
    /\ mode \in {"Normal", "Search"}
    /\ Changing
    /\ mode' = "Normal"
    /\ loading' = TRUE /\ viewChanged' = TRUE
    /\ UNCHANGED <<list, selected, pane, raw, focus, requests, lastRequest,
                   failed>>

-----------------------------------------------------------------------------
Answer == \E q \in requests : HandlePreviewLoaded(q, TRUE) \/ HandleRawLoaded(q, TRUE)
Land == \E new \in Lists : FetchLands(new)

Next ==
    \/ Answer
    \/ \E q \in requests : /\ Faults
                           /\ HandlePreviewLoaded(q, FALSE) \/ HandleRawLoaded(q, FALSE)
    \/ Land
    \/ FetchFailed
    \/ LiveChange
    \/ FetchBegins
    \/ SelectByKey
    \/ \E index \in 0 .. PageSize - 1 : Click(index)
    \/ \E f \in {"List", "Preview"} : Focus(f)
    \/ RawTab
    \/ \E t \in Tabs : Tab(t)
    \/ ShowRaw
    \/ \E m \in Modes : Dialog(m)
    \/ Leave
    \/ ChangeView

Spec == Init /\ [][Next]_vars

-----------------------------------------------------------------------------
TypeOK ==
    /\ list \in Lists
    /\ selected \in Nat
    /\ loading \in BOOLEAN /\ viewChanged \in BOOLEAN
    /\ pane \in [preview : Ids \cup {None}, last : Ids \cup {None},
                 pending : 0 .. lastRequest, loading : BOOLEAN,
                 raw : Ids \cup {None}, tab : Tabs]
    /\ raw \in [target : {None, "Preview", "FullView"}, request : 0 .. lastRequest,
                content : Ids \cup {None}, asked : Ids \cup {None}]
    /\ mode \in Modes /\ focus \in {"List", "Preview"}
    /\ requests \subseteq [kind : {"preview", "rawPane", "rawView"},
                           request : 1 .. lastRequest, id : Ids]
    /\ lastRequest \in Nat /\ changes \in Nat /\ failed \in BOOLEAN

\* The cursor is on a row whenever there is one, however the list shrank or
\* was replaced under it: r, s, d and R act on that row.
CursorOnARow == list # << >> => selected < Len(list)

\* The pane's preview is never one message beside another's cursor: unless it
\* says it is loading, or a fetch is about to replace the list, or a request
\* for it has just failed, the message it shows is the selected one
\* (restore_selection, load_preview). It says nothing of pane.raw, the source
\* in the pane's raw tab: when the cursor comes back to the previewed message,
\* load_preview returns early and leaves there the source that was loaded for
\* the message in between, so that tab can show another than the cursor's.
PreviewIsSelected ==
    ~ loading /\ ~ pane.loading /\ ~ failed /\ pane.preview # None
       => pane.preview = SelectedId

\* A change of the list never takes the cursor off a message that is still
\* listed, whether its row moved, another was deleted or the view changed.
CursorStays ==
    [][list' # list /\ SelectedId # None /\ (\E i \in DOMAIN list' : list'[i] = SelectedId)
       => SelectedId' = SelectedId]_vars

\* The raw view shows the message it was last asked for, never one that was
\* asked for earlier and answered late.
RawIsAsked == raw.content # None => raw.content = raw.asked

\* The selected message comes to be shown once the list stays still.
PreviewArrives == <>[](SelectedId = None \/ pane.preview = SelectedId)

FairSpec == Spec /\ WF_vars(Answer) /\ WF_vars(Land)
=============================================================================
