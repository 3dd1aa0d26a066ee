---------------------------- MODULE StaticFiles ----------------------------
(* The embedded interface: pages that are revalidated by ETag, hashed assets   *)
(* that are kept for ever, and a server that is upgraded, or rolled back,      *)
(* between any two requests of a tab left open.                                *)
EXTENDS Naturals

CONSTANTS
  Builds,      \* builds of the interface
  IndexOf,     \* build -> its index.html
  IconOf,      \* build -> its favicon, a file whose name never changes
  ScriptOf     \* index.html -> the content, and so the name, of its script

Routes == {"home", "inbox"}                     \* client-side routes: no such file
Scripts == {ScriptOf[IndexOf[b]] : b \in Builds}
Pages == {IndexOf[b] : b \in Builds}
Nothing == [content |-> "none", immutable |-> FALSE]
AnyEtag == "*"                                  \* ANY_ETAG

(* The hash in a script's name is of its content, so no name is a page, a      *)
(* route or the icon; no icon is a page; no content is the star.               *)
StaticFilesAssumption ==
  /\ Builds # {} /\ DOMAIN ScriptOf = Pages
  /\ Pages \cap (Scripts \cup {IconOf[b] : b \in Builds} \cup {"none", "missing"}) = {}
  /\ Scripts \cap (Routes \cup {"favicon", "api", "none"}) = {}
  /\ AnyEtag \notin Pages \cup Scripts \cup {IconOf[b] : b \in Builds}

VARIABLES
  build,    \* what the server embeds
  cache,    \* path -> [content, immutable]: the browser's cache
  tab,      \* [page, at, script]: what it shows; at: the build then
  moved,    \* the server changed since the tab's page was loaded
  api       \* the answer to a mistyped API path

vars == <<build, cache, tab, moved, api>>

NoTab == [page |-> "none", at |-> "none", script |-> "none"]

TypeOK ==
  /\ build \in Builds /\ moved \in BOOLEAN
  /\ \A p \in DOMAIN cache : cache[p].immutable <=> p \in Scripts /\ cache[p] # Nothing
  /\ tab.page \in {"none"} \cup Pages
  /\ api \in {"none", "html", "404"}

Init ==
  /\ build \in Builds
  /\ cache = [p \in Routes \cup Scripts \cup {"favicon"} |-> Nothing]
  /\ tab = NoTab /\ moved = FALSE /\ api = "none"

----------------------------------------------------------------------------

(* Mutant: the ETag names the file, not its content *)
EtagOfName(content) == "index"

(* The weak ETag: the hash of the content.                                     *)
EtagOf(content) == content

(* holds_current: one of the ETags sent is this one, weak or not, or the star, *)
(* which every file answers to. A browser sends those of its copies (Sent).    *)
HoldsCurrent(etags, content) == AnyEtag \in etags \/ EtagOf(content) \in etags

Answer(s, content, immutable) == [status |-> s, content |-> content, immutable |-> immutable]

Revalidated(content, etags) ==
  IF HoldsCurrent(etags, content) THEN Answer(304, "none", FALSE) ELSE Answer(200, content, FALSE)

(* What build embeds under path, or none.                                      *)
AssetsGet(path) ==
  CASE path \in Scripts -> IF path = ScriptOf[IndexOf[build]] THEN {path} ELSE {}
    [] path = "favicon" -> {IconOf[build]}
    [] path \in Routes \cup {"api"} -> {}

StaticHandler(path, etags) ==
  IF path = "api" THEN Answer(404, "json", FALSE)
  ELSE IF AssetsGet(path) # {}
       THEN IF path \in Scripts THEN Answer(200, path, TRUE)
            ELSE Revalidated(CHOOSE c \in AssetsGet(path) : TRUE, etags)
  ELSE IF path \in Scripts THEN Answer(404, "none", FALSE)
  ELSE Revalidated(IndexOf[build], etags)

----------------------------------------------------------------------------
(* The browser: an immutable copy is used unasked, another is revalidated.     *)

Sent(path) == IF cache[path] = Nothing THEN {} ELSE {EtagOf(cache[path].content)}

(* Fetching path gives content and leaves kept in the cache.                   *)
Fetched(path) ==
  LET held == cache[path]
      a == StaticHandler(path, Sent(path))
  IN IF held.immutable THEN [content |-> held.content, kept |-> held]
     ELSE CASE a.status = 304 -> [content |-> held.content, kept |-> held]
            [] a.status = 200 -> [content |-> a.content,
                                  kept |-> [content |-> a.content, immutable |-> a.immutable]]
            [] a.status = 404 -> [content |-> "missing", kept |-> held]

Fetch(path) == cache' = [cache EXCEPT ![path] = Fetched(path).kept]

Navigate(path) ==
  /\ Fetch(path)
  /\ tab' = [page |-> Fetched(path).content, at |-> build, script |-> "none"]
  /\ moved' = FALSE
  /\ UNCHANGED <<build, api>>

LoadScript ==
  /\ tab.page \in DOMAIN ScriptOf /\ tab.script = "none"
  /\ Fetch(ScriptOf[tab.page])
  /\ tab' = [tab EXCEPT !.script = Fetched(ScriptOf[tab.page]).content]
  /\ UNCHANGED <<build, moved, api>>

LoadIcon ==
  /\ Fetch("favicon")
  /\ UNCHANGED <<build, tab, moved, api>>

CallApi ==
  /\ api' = IF StaticHandler("api", {}).status = 404 THEN "404" ELSE "html"
  /\ UNCHANGED <<build, cache, tab, moved>>

(* The cache may drop anything.                                                *)
Evict(path) ==
  /\ cache[path] # Nothing /\ cache' = [cache EXCEPT ![path] = Nothing]
  /\ UNCHANGED <<build, tab, moved, api>>

Upgrade(b) ==
  /\ b # build /\ build' = b /\ moved' = TRUE
  /\ UNCHANGED <<cache, tab, api>>

Next ==
  \/ \E p \in Routes : Navigate(p)
  \/ LoadScript \/ LoadIcon \/ CallApi
  \/ \E p \in DOMAIN cache : Evict(p)
  \/ \E b \in Builds : Upgrade(b)

Spec == Init /\ [][Next]_vars

----------------------------------------------------------------------------

(* "Answering 304 when the request already holds this build of it": however    *)
(* often the server was upgraded or rolled back, a page that is loaded is the  *)
(* one the server has.                                                         *)
PageIsCurrent == tab.page # "none" => tab.page = IndexOf[tab.at]

(* "A tab left open across an upgrade asks for the old build's files, and a    *)
(* 404 fails cleanly where HTML served as a script is a MIME error": a page    *)
(* runs its own script or none, and misses it only after an upgrade.           *)
ScriptIsThePages ==
  \/ tab.script = "none"
  \/ tab.script = ScriptOf[tab.page]
  \/ tab.script = "missing" /\ moved

(* Only a client-side route is ever answered with the page: not an API path,   *)
(* "which it cannot tell apart from a real response", and no file the browser  *)
(* keeps, for ever even, under another name.                                   *)
HtmlOnlyForRoutes ==
  /\ api # "html"
  /\ \A p \in DOMAIN cache \ Routes : cache[p].content \notin Pages
============================================================================
