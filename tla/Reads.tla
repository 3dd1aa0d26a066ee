------------------------------- MODULE Reads -------------------------------
(* The API's requests for one message: reads that a slow store, a deletion or  *)
(* damage on disk can meet at any step, answered with what a browser may keep  *)
(* in its cache, and the time limit that reads have and writes do not.         *)
EXTENDS Integers, FiniteSets

CONSTANTS
  Ids,           \* message ids
  Requests,
  MaxLen,        \* bound: bytes of a message
  HeaderPrefix,  \* HEADER_SECTION_PREFIX_BYTES
  Limits,        \* values of ?limit=: a number, or 0 and below for one refused
  MaxVer         \* bound: updates

ReadsAssumption ==
  /\ MaxLen \in Nat \ {0} /\ HeaderPrefix \in Nat \ {0} /\ MaxVer \in Nat /\ Limits \subseteq Int

Immutable == {"raw", "prefix", "headers", "attachments", "attachment", "eml"}
Mutable == {"message", "json"}
Writes == {"update", "delete"}
PartSize == 1          \* bytes of a message's one attachment

VARIABLES
  captured,   \* id -> [len, head, att]: its length, where its header section
              \* ends (0: nowhere) and how its one attachment is stored
  life,       \* id -> "coming", "stored" or "deleted"
  ver,        \* id -> how often its flags were changed
  damage,     \* id -> "none", "frame" or "row": what the disk did to it
  req,        \* request -> [pc, op, id, limit, status, bytes, intact, ver]: the
              \* answer's length and whether its bytes are the ones captured
  landed,     \* requests whose change was made
  cache       \* immutable answers a browser kept

vars == <<captured, life, ver, damage, req, landed, cache>>

Message == {m \in [len : 1..MaxLen, head : 0..MaxLen, att : {"none", "inline", "located"}] :
              m.head <= m.len}

NoRequest == [pc |-> "idle", op |-> "none", id |-> "none", limit |-> 0,
              status |-> 0, bytes |-> 0, intact |-> FALSE, ver |-> 0]

TypeOK ==
  /\ captured \in [Ids -> Message]
  /\ life \in [Ids -> {"coming", "stored", "deleted"}]
  /\ ver \in [Ids -> 0..MaxVer] /\ damage \in [Ids -> {"none", "frame", "row"}]
  /\ \A r \in Requests :
       /\ req[r].pc \in {"idle", "read", "more", "write", "applied", "done"}
       /\ req[r].pc = "done" <=> req[r].status \in {200, 204, 400, 404, 500, 503}
       /\ req[r].bytes \in 0..MaxLen
  /\ landed \subseteq Requests

Init ==
  /\ captured \in [Ids -> Message]
  /\ life = [i \in Ids |-> "coming"] /\ ver = [i \in Ids |-> 0]
  /\ damage = [i \in Ids |-> "none"]
  /\ req = [r \in Requests |-> NoRequest]
  /\ landed = {} /\ cache = {}

Least(a, b) == IF a < b THEN a ELSE b

----------------------------------------------------------------------------
(* The storage calls: what one may return now, as [status, bytes, intact, ver]. *)

Got(s, n, ok, v) == [status |-> s, bytes |-> n, intact |-> ok, ver |-> v]

(* AppError: of the store's errors only NotFound is the client's to know.      *)
StatusOf(e) ==
  CASE e = "NotFound" -> 404 [] e = "BadRequest" -> 400 [] e = "TimedOut" -> 503
    [] e \in {"Database", "ContentCorrupt", "AttachmentCorrupt"} -> 500

Error(e) == Got(StatusOf(e), 0, FALSE, 0)

Stored(id) == life[id] = "stored"

(* zstd: the frame has no checksum, so a damaged one that still decodes may    *)
(* decode to any bytes; the lengths it may decode to.                          *)
Unpacked(id) == IF damage[id] = "frame" THEN 0..MaxLen ELSE {captured[id].len}

(* Mutant: what a frame declares and decodes to is not compared with the row *)
DecompressUnchecked(id) ==
  {Got(200, n, damage[id] # "frame", 0) : n \in Unpacked(id)}

(* decompress: a frame that does not decode, or not to the recorded size, is   *)
(* ContentCorrupt; the bytes themselves are not checked.                       *)
Decompress(id) ==
  {IF n = captured[id].len THEN Got(200, n, damage[id] # "frame", 0) ELSE Error("ContentCorrupt")
     : n \in Unpacked(id)}
  \cup {e \in {Error("ContentCorrupt")} : damage[id] = "frame"}

(* decompress_prefix: no size to compare with, only a frame that decodes.      *)
DecompressPrefix(id, n) ==
  {Got(200, Least(n, k), damage[id] # "frame", 0) : k \in Unpacked(id)}
  \cup {e \in {Error("ContentCorrupt")} : damage[id] = "frame"}

GetRaw(id) == IF Stored(id) THEN Decompress(id) ELSE {Error("NotFound")}
GetRawPrefix(id, n) == IF Stored(id) THEN DecompressPrefix(id, n) ELSE {Error("NotFound")}

(* into_message parses the bodies from the source and adds the flags.          *)
GetMessage(id) ==
  IF ~Stored(id) THEN {Error("NotFound")} ELSE {[g EXCEPT !.ver = ver[id]] : g \in Decompress(id)}

(* Only rows: no source is read, and no message means no rows.                 *)
GetAttachments(id) ==
  {Got(200, IF Stored(id) /\ captured[id].att # "none" THEN 1 ELSE 0, damage[id] # "row", 0)}

(* A located part must lie in its decompressed source and decode to the size   *)
(* the row records; an inline part is served as its row holds it.              *)
IntoAttachment(id) ==
  LET decoded(d) == IF damage[id] \in d THEN 0..MaxLen ELSE {PartSize}
  IN IF captured[id].att = "inline"
     THEN {Got(200, n, damage[id] # "row", 0) : n \in decoded({"row"})}
     ELSE {IF n = PartSize THEN Got(200, n, damage[id] = "none", 0) ELSE Error("AttachmentCorrupt")
             : n \in decoded({"frame", "row"})}
          \cup {e \in Decompress(id) : e.status # 200}

GetAttachment(id) ==
  IF Stored(id) /\ captured[id].att # "none" THEN IntoAttachment(id) ELSE {Error("NotFound")}

(* The handlers: what each reads first.                                        *)
GetRawMessage(q) == IF q.op = "prefix" THEN GetRawPrefix(q.id, q.limit) ELSE GetRaw(q.id)
ExportMessage(q) == IF q.op = "eml" THEN GetRaw(q.id) ELSE GetMessage(q.id)

FirstRead(q) ==
  CASE q.op \in {"raw", "prefix"} -> GetRawMessage(q)
    [] q.op \in {"eml", "json"} -> ExportMessage(q)
    [] q.op = "headers" -> GetRawPrefix(q.id, HeaderPrefix)
    [] q.op = "message" -> GetMessage(q.id)
    [] q.op = "attachments" -> GetAttachments(q.id)
    [] q.op = "attachment" -> GetAttachment(q.id)

EndsHeaderSection(id, n) == captured[id].head # 0 /\ captured[id].head <= n

(* What ends_header_section may say of the bytes of g: of other bytes than the *)
(* captured ones, either.                                                      *)
Says(id, g, ends) == g.intact => (ends <=> EndsHeaderSection(id, g.bytes))

(* read_header_section: the prefix is enough.                                  *)
Complete(g, ends) == g.bytes < HeaderPrefix \/ ends

----------------------------------------------------------------------------

(* The process_batch side: a message is captured and its id becomes known.     *)
Store(id) ==
  /\ life[id] = "coming" /\ life' = [life EXCEPT ![id] = "stored"]
  /\ UNCHANGED <<captured, ver, damage, req, landed, cache>>

(* The disk damages a frame, or an attachment's row so that it no longer       *)
(* decodes to its size.                                                        *)
Damage(id) ==
  /\ Stored(id) /\ damage[id] = "none"
  /\ \E d \in {"frame", "row"} : damage' = [damage EXCEPT ![id] = d]
  /\ UNCHANGED <<captured, life, ver, req, landed, cache>>

NewRequest(op, id, limit, p, s) ==
  [pc |-> p, op |-> op, id |-> id, limit |-> limit, status |-> s,
   bytes |-> 0, intact |-> FALSE, ver |-> 0]

(* A client knows an id from a list or an event, so once it was stored; a      *)
(* malformed limit is refused before anything is read.                         *)
Ask(r, op, id, limit) ==
  /\ req[r].pc = "idle" /\ life[id] # "coming"
  /\ limit # 0 => op = "prefix"
  /\ req' = [req EXCEPT ![r] =
               IF op = "prefix" /\ limit <= 0
               THEN NewRequest(op, id, limit, "done", StatusOf("BadRequest"))
               ELSE NewRequest(op, id, limit, IF op \in Writes THEN "write" ELSE "read", 0)]
  /\ UNCHANGED <<captured, life, ver, damage, landed, cache>>

(* What a browser keeps of the answer g to q.                                  *)
Entry(q, g) ==
  [op |-> q.op, id |-> q.id, limit |-> q.limit, bytes |-> g.bytes, intact |-> g.intact, ver |-> g.ver]

(* Mutant: every answer is sent with IMMUTABLE_MESSAGE_CACHE *)
KeepsAll(q, g) == cache' = cache \cup {e \in {Entry(q, g)} : g.status = 200}

(* IMMUTABLE_MESSAGE_CACHE or MUTABLE_MESSAGE_CACHE, and no error is kept.     *)
Keeps(q, g) == cache' = cache \cup {e \in {Entry(q, g)} : g.status = 200 /\ q.op \in Immutable}

Respond(r, g) ==
  /\ req' = [req EXCEPT ![r].pc = "done", ![r].status = g.status,
                        ![r].bytes = g.bytes, ![r].intact = g.intact, ![r].ver = g.ver]
  /\ Keeps(req[r], g)

Read(r) ==
  /\ req[r].pc = "read"
  /\ \E g \in FirstRead(req[r]) \cup {Error("Database")}, ends \in BOOLEAN :
       /\ Says(req[r].id, g, ends)
       /\ IF req[r].op = "headers" /\ g.status = 200 /\ ~Complete(g, ends)
          THEN req' = [req EXCEPT ![r].pc = "more"] /\ UNCHANGED cache
          ELSE Respond(r, g)
  /\ UNCHANGED <<captured, life, ver, damage, landed>>

(* The header section is longer than the prefix: the whole source is read.     *)
ReadMore(r) ==
  /\ req[r].pc = "more"
  /\ \E g \in GetRaw(req[r].id) \cup {Error("Database")} : Respond(r, g)
  /\ UNCHANGED <<captured, life, ver, damage, landed>>

(* Mutant: every method is timed out *)
TimeOutAll(r) ==
  /\ req[r].pc \in {"read", "more", "write", "applied"}
  /\ req' = [req EXCEPT ![r].pc = "done", ![r].status = 503]
  /\ UNCHANGED <<captured, life, ver, damage, landed, cache>>

(* time_out_reads: a GET or HEAD past the limit is dropped where it waits.     *)
TimeOutReads(r) ==
  /\ req[r].pc \in {"read", "more"}
  /\ req' = [req EXCEPT ![r].pc = "done", ![r].status = StatusOf("TimedOut")]
  /\ UNCHANGED <<captured, life, ver, damage, landed, cache>>

(* update_message or delete commits, finds no row, or fails without effect.    *)
Apply(r) ==
  LET id == req[r].id
      ends(s) == req' = [req EXCEPT ![r].pc = "done", ![r].status = s]
  IN /\ req[r].pc = "write"
     /\ \/ /\ ends(StatusOf(IF Stored(id) THEN "Database" ELSE "NotFound"))
           /\ UNCHANGED <<life, ver, landed>>
        \/ /\ Stored(id) /\ req[r].op = "update" => ver[id] < MaxVer
           /\ Stored(id) /\ landed' = landed \cup {r}
           /\ req' = [req EXCEPT ![r].pc = "applied"]
           /\ IF req[r].op = "update"
              THEN ver' = [ver EXCEPT ![id] = @ + 1] /\ UNCHANGED life
              ELSE life' = [life EXCEPT ![id] = "deleted"] /\ UNCHANGED ver
     /\ UNCHANGED <<captured, damage, cache>>

(* The events are sent and the change is confirmed.                            *)
Confirm(r) ==
  /\ req[r].pc = "applied"
  /\ req' = [req EXCEPT ![r].pc = "done", ![r].status = 204]
  /\ UNCHANGED <<captured, life, ver, damage, landed, cache>>

Next ==
  \/ \E id \in Ids : Store(id) \/ Damage(id)
  \/ \E r \in Requests :
       \/ \E op \in Immutable \cup Mutable \cup Writes, id \in Ids, n \in Limits : Ask(r, op, id, n)
       \/ Read(r) \/ ReadMore(r) \/ TimeOutReads(r) \/ Apply(r) \/ Confirm(r)

Spec == Init /\ [][Next]_vars

----------------------------------------------------------------------------

(* What a request like q is answered with now, errors of the store apart.      *)
Fresh(q) ==
  {g \in FirstRead(q) :
     \E ends \in BOOLEAN :
       Says(q.id, g, ends) /\ (q.op = "headers" /\ g.status = 200 => Complete(g, ends))}
  \cup {g \in GetRaw(q.id) :
          q.op = "headers" /\ \E p \in FirstRead(q), ends \in BOOLEAN :
            p.status = 200 /\ Says(q.id, p, ends) /\ ~Complete(p, ends)}

(* "Captured mail is immutable once stored, so anything derived from a         *)
(* message's bytes can be cached indefinitely": as long as its message is      *)
(* stored and the disk keeps it, a kept answer is one that asking again could  *)
(* give, flags and tags that were changed since included.                      *)
KeptIsCurrent ==
  \A c \in cache : Stored(c.id) /\ damage[c.id] = "none" =>
    \E g \in Fresh(c) : g.status = 200 /\ c = Entry(c, g)

(* "A message whose header section is genuinely longer falls back to the full  *)
(* source rather than silently losing fields", unless its frame is damaged,    *)
(* of which a prefix may decode to anything.                                   *)
HeadersAreWhole ==
  \A r \in Requests : req[r].op = "headers" /\ req[r].status = 200 /\ damage[req[r].id] = "none" =>
    \/ req[r].bytes = captured[req[r].id].len
    \/ EndsHeaderSection(req[r].id, req[r].bytes)

(* "... which must hold exactly `size` bytes", "decode to the size recorded at *)
(* ingest; otherwise the row is reported corrupt rather than served": whatever *)
(* the disk did, a full source, a message and a located part are served at the *)
(* size recorded or not at all, a prefix within its limit, and other bytes     *)
(* than were captured only when the message is damaged.  That they never are   *)
(* is not so: no checksum is kept, and an inline part has not even its size    *)
(* compared.                                                                   *)
SizeAsRecorded ==
  \A r \in Requests : req[r].status = 200 =>
    /\ req[r].op \in {"raw", "eml"} \cup Mutable => req[r].bytes = captured[req[r].id].len
    /\ req[r].op = "attachment" /\ captured[req[r].id].att = "located" => req[r].bytes = PartSize
    /\ req[r].op = "prefix" => req[r].bytes <= req[r].limit
    /\ ~req[r].intact => damage[req[r].id] # "none"

(* "A 503 never stands for a change that still lands": nor does any other      *)
(* error a write is answered with.                                             *)
ErrorMeansNoChange ==
  \A r \in Requests : req[r].status >= 400 => r \notin landed
============================================================================
