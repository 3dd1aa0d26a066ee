----------------------------- MODULE DataPhase ------------------------------
(***************************************************************************)
(* The DATA phase of an SMTP session, byte by byte: receive_data collects  *)
(* lines until the terminating dot, drain_data discards a message that is  *)
(* too large, and both read whatever TCP happened to deliver.              *)
(*                                                                         *)
(*   session.rs    receive_data, read_line_untimed, drain_data,            *)
(*                 is_data_terminator                                      *)
(*                                                                         *)
(* Bytes are abstracted to the four the code tells apart: a dot, the two   *)
(* line-ending bytes and anything else.                                    *)
(***************************************************************************)
EXTENDS Integers, Sequences, FiniteSets

CONSTANTS
    MaxSizes, \* the values of max_message_size
    MaxStream \* model bound: bytes the peer sends after the 354

ASSUME DataPhaseAssumption == MaxSizes \subseteq Nat /\ MaxStream \in Nat

Bytes == {"x", ".", "CR", "LF"}
Streams == UNION {[1 .. n -> Bytes] : n \in 0 .. MaxStream}
TerminatorLen == 3

VARIABLES
    sent,      \* what the peer sends from the 354 until it hangs up
    max,       \* max_message_size
    pos,       \* bytes consumed
    data,      \* the message so far
    line_buf,  \* the line being read
    mid_line,  \* drain_data: the line in hand began before the drain
    line_head, \* drain_data: the first bytes of the line in hand
    mode       \* "receive", "drain", or how the phase ended

vars == <<sent, max, pos, data, line_buf, mid_line, line_head, mode>>

Ends == {"message", "too_large", "none", "eof", "timeout"}

Init ==
    /\ sent \in Streams
    /\ max \in MaxSizes
    /\ pos = 0
    /\ data = <<>>
    /\ line_buf = <<>>
    /\ mid_line = FALSE
    /\ line_head = <<>>
    /\ mode = "receive"

EndsLine(seq) == seq # <<>> /\ seq[Len(seq)] = "LF"

\* is_data_terminator: a dot alone, whatever ends its line.
IsDataTerminator(line) == line \in {<<".">>, <<".", "LF">>, <<".", "CR", "LF">>}

\* fill_buf and consume: bytes that have arrived, up to the next newline.
\* TCP decides how many: `chunk` is cut anywhere up to there.
Arrives(chunk) ==
    /\ chunk # <<>>
    /\ pos + Len(chunk) <= Len(sent)
    /\ chunk = SubSeq(sent, pos + 1, pos + Len(chunk))
    /\ \A i \in 1 .. Len(chunk) - 1 : chunk[i] # "LF"

Chunks == {SubSeq(sent, pos + 1, q) : q \in pos + 1 .. Len(sent)}

AtEof == pos = Len(sent)

\* What a line may hold: the room left, and the terminating dot always fits.
Budget == max - Len(data) + TerminatorLen

\* A stuffed line loses its first dot.
Content(line) ==
    IF Len(line) >= 2 /\ line[1] = "." /\ line[2] = "." THEN Tail(line) ELSE line

\* Start discarding: the line in hand is cut short, or it is complete.
BeginDrain(cutShort) ==
    /\ mode' = "drain"
    /\ mid_line' = cutShort
    /\ line_buf' = <<>>
    /\ UNCHANGED <<data, line_head>>

\* receive_data's loop body, once read_line_untimed has returned a line.
TakeLine(line) ==
    \/ /\ IsDataTerminator(line)
       /\ mode' = "message"
       /\ line_buf' = <<>>
       /\ UNCHANGED <<data, mid_line, line_head>>
    \/ /\ ~IsDataTerminator(line)
       /\ Len(data) + Len(line) > max
       /\ BeginDrain(FALSE)
    \/ /\ ~IsDataTerminator(line)
       /\ Len(data) + Len(line) <= max
       /\ data' = data \o Content(line)
       /\ line_buf' = <<>>
       /\ UNCHANGED <<mode, mid_line, line_head>>

\* Variant: the drain always believes it stands at the start of a line.
ReceiveForgetfully(chunk) ==
    /\ mode = "receive"
    /\ Arrives(chunk)
    /\ pos' = pos + Len(chunk)
    /\ LET line == line_buf \o chunk
       IN  \/ Len(line) > Budget /\ BeginDrain(FALSE)
           \/ Len(line) <= Budget /\ EndsLine(chunk) /\ TakeLine(line)
           \/ /\ Len(line) <= Budget /\ ~EndsLine(chunk)
              /\ line_buf' = line
              /\ UNCHANGED <<data, mid_line, line_head, mode>>
    /\ UNCHANGED <<sent, max>>

\* One read of read_line_untimed: too long at once, or a line, or part of one.
Receive(chunk) ==
    /\ mode = "receive"
    /\ Arrives(chunk)
    /\ pos' = pos + Len(chunk)
    /\ LET line == line_buf \o chunk
       IN  \/ Len(line) > Budget /\ BeginDrain(~EndsLine(line))
           \/ Len(line) <= Budget /\ EndsLine(chunk) /\ TakeLine(line)
           \/ /\ Len(line) <= Budget /\ ~EndsLine(chunk)
              /\ line_buf' = line
              /\ UNCHANGED <<data, mid_line, line_head, mode>>
    /\ UNCHANGED <<sent, max>>

\* The peer hung up: what is left of a line counts as one, then comes the end.
ReceiveEof ==
    /\ mode = "receive"
    /\ AtEof
    /\ \/ line_buf # <<>> /\ TakeLine(line_buf)
       \/ /\ line_buf = <<>>
          /\ mode' = "none"
          /\ UNCHANGED <<data, line_buf, mid_line, line_head>>
    /\ UNCHANGED <<sent, max, pos>>

\* line_head keeps only as many bytes as a terminator has.
KeepHead(chunk) ==
    LET room == TerminatorLen - Len(line_head)
    IN  line_head \o SubSeq(chunk, 1, IF Len(chunk) < room THEN Len(chunk) ELSE room)

\* One read of drain_data.
Drain(chunk) ==
    /\ mode = "drain"
    /\ Arrives(chunk)
    /\ pos' = pos + Len(chunk)
    /\ \/ /\ ~EndsLine(chunk)
          /\ line_head' = KeepHead(chunk)
          /\ UNCHANGED <<mid_line, mode>>
       \/ /\ EndsLine(chunk)
          /\ line_head' = <<>>
          /\ mid_line' = FALSE
          /\ mode' = IF ~mid_line /\ IsDataTerminator(KeepHead(chunk))
                       THEN "too_large" ELSE "drain"
    /\ UNCHANGED <<sent, max, data, line_buf>>

DrainEof ==
    /\ mode = "drain"
    /\ AtEof
    /\ mode' = "eof"
    /\ UNCHANGED <<sent, max, pos, data, line_buf, mid_line, line_head>>

\* DATA_PHASE_TIMEOUT runs out: the session ends without a reply.
Timeout ==
    /\ mode \notin Ends
    /\ mode' = "timeout"
    /\ UNCHANGED <<sent, max, pos, data, line_buf, mid_line, line_head>>

\* The phase is over; the session goes on from pos.
Over ==
    /\ mode \in Ends
    /\ UNCHANGED vars

Next ==
    \/ \E chunk \in Chunks : Receive(chunk) \/ Drain(chunk)
    \/ ReceiveEof
    \/ DrainEof
    \/ Timeout
    \/ Over

Spec == Init /\ [][Next]_vars

-----------------------------------------------------------------------------
(***************************************************************************)
(* The reference: what the phase makes of the whole stream, without any    *)
(* notion of reads.  A line is named by the index of its first byte.       *)
(***************************************************************************)

LineStarts == {i \in 1 .. Len(sent) : i = 1 \/ sent[i - 1] = "LF"}

LineEnd(s) ==
    IF \E e \in s .. Len(sent) : sent[e] = "LF"
      THEN CHOOSE e \in s .. Len(sent) :
             sent[e] = "LF" /\ \A m \in s .. e - 1 : sent[m] # "LF"
      ELSE Len(sent)

LineAt(s) == SubSeq(sent, s, LineEnd(s))

Dots == {s \in LineStarts : IsDataTerminator(LineAt(s))}

HasDot == Dots # {}

Dot == CHOOSE s \in Dots : \A t \in Dots : s <= t

BodyLines == IF HasDot THEN {s \in LineStarts : s < Dot} ELSE LineStarts

Stuffed(s) == LineEnd(s) > s /\ sent[s] = "." /\ sent[s + 1] = "."

StuffedBefore(s) == Cardinality({t \in BodyLines : t < s /\ Stuffed(t)})

\* The first line that does not fit after the unstuffed ones before it.
IsTooLarge == \E s \in BodyLines : LineEnd(s) - StuffedBefore(s) > max

\* An unfinished last line ends a message that fits, never one being drained.
DotIsWhole == EndsLine(LineAt(Dot))

Verdict ==
    CASE IsTooLarge /\ HasDot /\ DotIsWhole -> "too_large"
      [] IsTooLarge /\ ~(HasDot /\ DotIsWhole) -> "eof"
      [] ~IsTooLarge /\ HasDot -> "message"
      [] ~IsTooLarge /\ ~HasDot -> "none"

-----------------------------------------------------------------------------
(***************************************************************************)
(* Properties.                                                             *)
(***************************************************************************)

\* Every variable has its type, and the message never outgrows its limit.
TypeOK ==
    /\ sent \in Streams
    /\ max \in MaxSizes
    /\ pos \in 0 .. Len(sent)
    /\ data \in Seq(Bytes) /\ Len(data) <= max
    /\ line_buf \in Seq(Bytes)
    /\ mid_line \in BOOLEAN
    /\ line_head \in Seq(Bytes) /\ Len(line_head) <= TerminatorLen
    /\ mode \in {"receive", "drain"} \cup Ends

\* Whether a message is taken or refused never depends on how TCP split it
\* (the claim of read_line_untimed): any way of reading the stream ends as
\* the reference says, also when the peer hangs up.
SplitDoesNotMatter == mode \in Ends \ {"timeout"} => mode = Verdict

\* After a message taken or refused, the next byte the session reads is the
\* one after the terminating dot: no line of a body is run as a command, and
\* no command is swallowed with a body.
StaysInStep == mode \in {"message", "too_large"} => HasDot /\ pos = LineEnd(Dot)

\* A message taken is the body with its stuffed dots removed, and nothing else.
BodyIsIntact ==
    mode = "message" =>
      /\ Len(data) = Dot - 1 - StuffedBefore(Dot)
      /\ \A s \in BodyLines : \A i \in s .. LineEnd(s) :
           (Stuffed(s) /\ i = s) \/ data[i - StuffedBefore(i)] = sent[i]

\* DATA is framed as SMTP says: the message ends where the dot is, its text is
\* what the peer sent, and neither that nor the size limit depends on how TCP
\* splits the stream (receive_data, drain_data).
DataIsFramed == TypeOK /\ StaysInStep /\ SplitDoesNotMatter /\ BodyIsIntact
=============================================================================
