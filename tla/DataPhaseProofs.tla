-------------------------- MODULE DataPhaseProofs ---------------------------
(***************************************************************************)
(* The framing of DATA, for streams and limits of any length and for every *)
(* way in which TCP may split a stream: the incremental code of            *)
(* receive_data and drain_data agrees with the reference, which looks at   *)
(* the whole stream at once.                                               *)
(***************************************************************************)
EXTENDS DataPhase, FiniteSetTheorems, SequenceTheorems, TLAPS

-----------------------------------------------------------------------------
(* Numbers and short lines *)

\* A set of positive numbers has a least element: of the intervals from 1 to
\* its members, one contains no other.
LEMMA LeastOf ==
    ASSUME NEW S \in SUBSET (Nat \ {0}), S # {}
    PROVE  \E m \in S : \A t \in S : m <= t
<1> DEFINE T == {1 .. m : m \in S}
           R == StrictSubsetOrdering(UNION T)
<1>1. ASSUME NEW X \in T PROVE IsFiniteSet(X)
  BY FS_Interval
<1>2. T \subseteq FiniteSubsetsOf(UNION T) /\ T # {}
  BY <1>1 DEF FiniteSubsetsOf
<1>3. PICK X \in T : \A Y \in T : <<Y, X>> \notin R
  <2>1. IsWellFoundedOn(R, FiniteSubsetsOf(UNION T))
    BY FS_StrictSubsetOrderingWellFounded
  <2> HIDE DEF R, T
  <2> QED BY <1>2, <2>1, WFMin
<1>4. PICK m \in S : X = 1 .. m
  OBVIOUS
<1>5. ASSUME NEW t \in S, t < m PROVE FALSE
  <2>1. 1 .. t \subseteq 1 .. m /\ m \in 1 .. m /\ m \notin 1 .. t /\ 1 .. t \in T
    BY <1>5
  <2>2. 1 .. t # X
    BY <1>4, <2>1
  <2>3. <<1 .. t, X>> \in R
    <3> HIDE DEF T
    <3> QED BY <1>4, <2>1, <2>2 DEF StrictSubsetOrdering
  <2> HIDE DEF R, T
  <2> QED BY <1>3, <2>1, <2>3
<1> QED BY <1>4, <1>5

\* Of a line, is_data_terminator looks at no more than three bytes.
LEMMA TerminatorIs ==
    ASSUME NEW l \in Seq(Bytes)
    PROVE  /\ IsDataTerminator(l) <=>
                \/ Len(l) = 1 /\ l[1] = "."
                \/ Len(l) = 2 /\ l[1] = "." /\ l[2] = "LF"
                \/ Len(l) = 3 /\ l[1] = "." /\ l[2] = "CR" /\ l[3] = "LF"
           /\ Len(l) \in Nat
BY DEF IsDataTerminator

-----------------------------------------------------------------------------
(* The stream and its lines *)

\* The stream is a sequence of bytes.
LEMMA StreamIs ==
    ASSUME sent \in Streams
    PROVE  /\ sent \in Seq(Bytes) /\ Len(sent) \in Nat
           /\ DOMAIN sent = 1 .. Len(sent)
           /\ \A i \in 1 .. Len(sent) : sent[i] \in Bytes
<1>1. PICK n \in 0 .. MaxStream : sent \in [1 .. n -> Bytes]
  BY DEF Streams
<1> QED BY <1>1, DataPhaseAssumption

\* Where a line ends: at its newline, or where the peer hung up.
LEMMA LineEndIs ==
    ASSUME sent \in Streams, NEW s \in 1 .. Len(sent), NEW e \in s .. Len(sent),
           \A i \in s .. e - 1 : sent[i] # "LF", sent[e] = "LF" \/ e = Len(sent)
    PROVE  LineEnd(s) = e
<1>1. Len(sent) \in Nat
  BY StreamIs
<1>2. CASE sent[e] = "LF"
  <2>1. \A f \in s .. Len(sent) :
          sent[f] = "LF" /\ (\A m \in s .. f - 1 : sent[m] # "LF") => f = e
    <3> SUFFICES ASSUME NEW f \in s .. Len(sent), sent[f] = "LF",
                        \A m \in s .. f - 1 : sent[m] # "LF", f # e
                 PROVE  FALSE
      OBVIOUS
    <3>1. f < e \/ e < f
      BY <1>1
    <3>2. f \in s .. e - 1 \/ e \in s .. f - 1
      BY <1>1, <3>1
    <3> QED BY <1>2, <3>2
  <2> QED BY <1>2, <2>1 DEF LineEnd
<1>3. CASE sent[e] # "LF"
  <2>1. e = Len(sent) /\ ~\E f \in s .. Len(sent) : sent[f] = "LF"
    BY <1>1, <1>3
  <2> QED BY <2>1 DEF LineEnd
<1> QED BY <1>2, <1>3

\* Every line has an end.
LEMMA LineEndExists ==
    ASSUME sent \in Streams, NEW s \in 1 .. Len(sent)
    PROVE  /\ LineEnd(s) \in s .. Len(sent)
           /\ \A i \in s .. LineEnd(s) - 1 : sent[i] # "LF"
           /\ sent[LineEnd(s)] = "LF" \/ LineEnd(s) = Len(sent)
<1>1. Len(sent) \in Nat
  BY StreamIs
<1> DEFINE E == {e \in s .. Len(sent) : sent[e] = "LF"}
<1>2. CASE E = {}
  <2>1. \A i \in s .. Len(sent) - 1 : sent[i] # "LF"
    BY <1>1, <1>2
  <2>2. LineEnd(s) = Len(sent)
    BY <1>1, <2>1, LineEndIs
  <2> QED BY <1>1, <2>1, <2>2
<1>3. CASE E # {}
  <2>1. E \in SUBSET (Nat \ {0})
    BY <1>1
  <2>2. PICK e \in E : \A t \in E : e <= t
    <3> HIDE DEF E
    <3> QED BY <1>3, <2>1, LeastOf
  <2>3. \A i \in s .. e - 1 : sent[i] # "LF"
    BY <1>1, <2>2
  <2>4. LineEnd(s) = e
    BY <2>2, <2>3, LineEndIs
  <2> QED BY <2>2, <2>3, <2>4
<1> QED BY <1>2, <1>3

\* Of the dots there is a first one.
LEMMA DotIs ==
    ASSUME sent \in Streams, HasDot
    PROVE  Dot \in Dots /\ \A t \in Dots : Dot <= t
<1>1. Dots \in SUBSET (Nat \ {0}) /\ Dots # {}
  BY StreamIs DEF Dots, LineStarts, HasDot
<1>2. \E s \in Dots : \A t \in Dots : s <= t
  BY <1>1, LeastOf
<1> QED BY <1>2 DEF Dot

\* The bytes of a line.
LEMMA LineAtIs ==
    ASSUME sent \in Streams, NEW s \in 1 .. Len(sent)
    PROVE  /\ LineAt(s) \in Seq(Bytes) /\ Len(LineAt(s)) = LineEnd(s) + 1 - s
           /\ \A k \in 1 .. LineEnd(s) + 1 - s : LineAt(s)[k] = sent[s - 1 + k]
<1>1. PICK e \in s .. Len(sent) : LineEnd(s) = e
  BY LineEndExists
<1>2. sent \in Seq(Bytes) /\ Len(sent) \in Nat
  BY StreamIs
<1>3. SubSeq(sent, s, e) \in Seq(Bytes) /\ Len(SubSeq(sent, s, e)) = e + 1 - s
  BY <1>2, SubSeqProperties
<1>4. \A k \in 1 .. e + 1 - s : SubSeq(sent, s, e)[k] = sent[s - 1 + k]
  BY <1>2, SubSeqProperties
<1> QED BY <1>1, <1>3, <1>4 DEF LineAt

\* A line of more than three bytes is no dot.
LEMMA LongIsNoDot ==
    ASSUME sent \in Streams, NEW s \in 1 .. Len(sent), LineEnd(s) - s > 2
    PROVE  s \notin Dots
<1>1. LineAt(s) \in Seq(Bytes) /\ Len(LineAt(s)) = LineEnd(s) + 1 - s
  BY LineAtIs
<1>2. LineEnd(s) \in Nat /\ s \in Nat
  BY LineEndExists, StreamIs
<1>3. Len(LineAt(s)) \notin {1, 2, 3}
  BY <1>1, <1>2
<1>4. ~IsDataTerminator(LineAt(s))
  BY <1>1, <1>3, TerminatorIs
<1> QED BY <1>4 DEF Dots

-----------------------------------------------------------------------------
(* Stuffed lines *)

\* The stuffed lines before a byte.
Before(i) == Cardinality({t \in LineStarts : t < i /\ Stuffed(t)})

\* No line begins within another.
LEMMA NextLineStart ==
    ASSUME sent \in Streams, NEW s \in LineStarts, NEW t \in LineStarts, t > s
    PROVE  t > LineEnd(s)
<1>1. /\ s \in 1 .. Len(sent) /\ t \in 1 .. Len(sent) /\ Len(sent) \in Nat
      /\ sent[t - 1] = "LF" /\ t - 1 >= s
  BY StreamIs DEF LineStarts
<1>2. LineEnd(s) \in s .. Len(sent) /\ \A i \in s .. LineEnd(s) - 1 : sent[i] # "LF"
  BY <1>1, LineEndExists
<1> QED BY <1>1, <1>2

\* Every count of stuffed lines is a number.
LEMMA BeforeIsNat ==
    ASSUME sent \in Streams, NEW i \in Int
    PROVE  /\ IsFiniteSet({t \in LineStarts : t < i /\ Stuffed(t)})
           /\ Before(i) \in Nat
<1>1. IsFiniteSet(1 .. Len(sent))
  BY StreamIs, FS_Interval
<1>2. {t \in LineStarts : t < i /\ Stuffed(t)} \subseteq 1 .. Len(sent)
  BY DEF LineStarts
<1> QED BY <1>1, <1>2, FS_Subset, FS_CardinalityType DEF Before

\* Within a line and just after it, its own stuffing is all there is to add.
LEMMA BeforeWithin ==
    ASSUME sent \in Streams, NEW s \in LineStarts, NEW i \in s + 1 .. LineEnd(s) + 1
    PROVE  Before(i) = IF Stuffed(s) THEN Before(s) + 1 ELSE Before(s)
<1> DEFINE A == {t \in LineStarts : t < s /\ Stuffed(t)}
           B == {t \in LineStarts : t < i /\ Stuffed(t)}
<1>1. s \in 1 .. Len(sent) /\ Len(sent) \in Nat /\ LineStarts \subseteq Nat
  BY StreamIs DEF LineStarts
<1>2. LineEnd(s) \in s .. Len(sent)
  BY <1>1, LineEndExists
<1>3. \A t \in LineStarts : t < i <=> t < s \/ t = s
  <2> SUFFICES ASSUME NEW t \in LineStarts PROVE t < i <=> t < s \/ t = s
    OBVIOUS
  <2>1. t > s => t > LineEnd(s)
    BY NextLineStart
  <2> QED BY <1>1, <1>2, <2>1
<1>4. B = IF Stuffed(s) THEN A \cup {s} ELSE A
  BY <1>3
<1>5. IsFiniteSet(A) /\ s \notin A
  BY <1>1, BeforeIsNat
<1>6. Cardinality(A \cup {s}) = Cardinality(A) + 1
  <2> HIDE DEF A
  <2> QED BY <1>5, FS_AddElement
<1>7. Before(i) = Cardinality(B) /\ Before(s) = Cardinality(A)
  BY DEF Before
<1> HIDE DEF A, B
<1> QED BY <1>4, <1>6, <1>7

\* Up to the first dot, every stuffed line is one of the body.
LEMMA StuffedBeforeIs ==
    ASSUME sent \in Streams, NEW i \in Nat, HasDot => i <= Dot
    PROVE  StuffedBefore(i) = Before(i)
<1>1. LineStarts \subseteq Nat
  BY StreamIs DEF LineStarts
<1>2. HasDot => Dot \in Nat
  BY <1>1, DotIs DEF Dots
<1>3. \A t \in LineStarts : t < i => t \in BodyLines
  BY <1>1, <1>2 DEF BodyLines
<1>4. BodyLines \subseteq LineStarts
  BY DEF BodyLines
<1>5. {t \in BodyLines : t < i /\ Stuffed(t)} = {t \in LineStarts : t < i /\ Stuffed(t)}
  BY <1>3, <1>4
<1> QED BY <1>5 DEF StuffedBefore, Before

-----------------------------------------------------------------------------
(* The inductive invariant *)

\* `s` is where the line in hand begins when `p` bytes have been read, and no
\* line before it was a dot.  After the last byte an empty line is in hand.
Where(s, p) ==
    /\ s \in 1 .. p + 1
    /\ s \in LineStarts \/ s = Len(sent) + 1
    /\ \A i \in s .. p : sent[i] # "LF"
    /\ \A t \in Dots : s <= t

\* `b` is the stream from `s` on.
From(s, b) == \A k \in 1 .. Len(b) : b[k] = sent[s - 1 + k]

\* `d` is what the lines before `s` amount to, and each of them did fit.
Collected(s, d) ==
    /\ Len(d) + Before(s) + 1 = s
    /\ \A t \in LineStarts : t < s =>
         /\ LineEnd(t) - Before(t) <= max
         /\ \A i \in t .. LineEnd(t) :
              \/ Stuffed(t) /\ i = t
              \/ i - Before(i) \in 1 .. Len(d) /\ d[i - Before(i)] = sent[i]

\* receive_data: the line read so far is in line_buf, the others are in data.
Receiving ==
    mode = "receive" =>
      /\ Where(pos + 1 - Len(line_buf), pos)
      /\ From(pos + 1 - Len(line_buf), line_buf)
      /\ Collected(pos + 1 - Len(line_buf), data)
      /\ line_head = <<>> /\ ~mid_line

\* drain_data: the message is too large; of the line in hand line_head has the
\* first bytes, unless it began before and is known not to be a dot.
Draining ==
    mode = "drain" =>
      /\ IsTooLarge
      /\ \E s \in 1 .. Len(sent) + 1 :
           /\ Where(s, pos)
           /\ mid_line => s \notin Dots
           /\ ~mid_line =>
                /\ Len(line_head) = IF pos + 1 - s < TerminatorLen THEN pos + 1 - s
                                    ELSE TerminatorLen
                /\ From(s, line_head)

DInv == DataIsFramed /\ Receiving /\ Draining

-----------------------------------------------------------------------------
(* The stream does not change *)

\* What the reference says of a stream stays said.
LEMMA LinesStay ==
    ASSUME UNCHANGED <<sent, max>>
    PROVE  /\ LineStarts' = LineStarts
           /\ \A s : LineEnd(s)' = LineEnd(s) /\ LineAt(s)' = LineAt(s)
           /\ \A s : Stuffed(s)' <=> Stuffed(s)
<1>1. \A s : LineEnd(s)' = LineEnd(s)
  BY DEF LineEnd
<1>2. \A s : LineAt(s)' = LineAt(s)
  BY <1>1 DEF LineAt
<1>3. \A s : Stuffed(s)' <=> Stuffed(s)
  BY <1>1 DEF Stuffed
<1> QED BY <1>1, <1>2, <1>3 DEF LineStarts

\* The same of the dot, the body and the verdict.
LEMMA ReferenceStays ==
    ASSUME UNCHANGED <<sent, max>>
    PROVE  /\ Dots' = Dots /\ (HasDot' <=> HasDot) /\ Dot' = Dot /\ BodyLines' = BodyLines
           /\ \A s : StuffedBefore(s)' = StuffedBefore(s) /\ Before(s)' = Before(s)
           /\ IsTooLarge' <=> IsTooLarge
           /\ Verdict' = Verdict
<1>1. Dots' = Dots
  BY LinesStay DEF Dots
<1>2. (HasDot' <=> HasDot) /\ Dot' = Dot
  BY <1>1 DEF HasDot, Dot
<1>3. BodyLines' = BodyLines
  BY <1>2, LinesStay DEF BodyLines
<1>4. \A s : StuffedBefore(s)' = StuffedBefore(s)
  BY <1>3, LinesStay DEF StuffedBefore
<1>5. \A s : Before(s)' = Before(s)
  BY LinesStay DEF Before
<1>6. IsTooLarge' <=> IsTooLarge
  BY <1>3, <1>4, LinesStay DEF IsTooLarge
<1>7. DotIsWhole' <=> DotIsWhole
  BY <1>2, LinesStay DEF DotIsWhole
<1>8. Verdict' = Verdict
  BY <1>2, <1>6, <1>7 DEF Verdict
<1> QED BY <1>1, <1>2, <1>3, <1>4, <1>5, <1>6, <1>8

\* And of the parts of the invariant.
LEMMA PartsStay ==
    ASSUME UNCHANGED <<sent, max>>
    PROVE  /\ \A s, p : Where(s, p)' <=> Where(s, p)
           /\ \A s, b : From(s, b)' <=> From(s, b)
           /\ \A s, d : Collected(s, d)' <=> Collected(s, d)
<1>1. \A s, p : Where(s, p)' <=> Where(s, p)
  BY LinesStay, ReferenceStays DEF Where
<1>2. \A s, b : From(s, b)' <=> From(s, b)
  BY DEF From
<1>3. \A s, d : Collected(s, d)' <=> Collected(s, d)
  BY LinesStay, ReferenceStays DEF Collected
<1> QED BY <1>1, <1>2, <1>3

-----------------------------------------------------------------------------
(* What a line does *)

\* A complete line: its end is known, and if it is no dot the next line is in
\* hand.
LEMMA LineRead ==
    ASSUME sent \in Streams, NEW s \in LineStarts, NEW q \in s .. Len(sent),
           \A t \in Dots : s <= t,
           \A i \in s .. q - 1 : sent[i] # "LF", sent[q] = "LF" \/ q = Len(sent)
    PROVE  /\ LineEnd(s) = q
           /\ s \notin Dots => Where(q + 1, q)
<1>1. s \in 1 .. Len(sent) /\ Len(sent) \in Nat
  BY StreamIs DEF LineStarts
<1>2. LineEnd(s) = q
  BY <1>1, LineEndIs
<1>3. ASSUME s \notin Dots PROVE Where(q + 1, q)
  <2>1. q + 1 \in LineStarts \/ q + 1 = Len(sent) + 1
    BY <1>1 DEF LineStarts
  <2>2. ASSUME NEW t \in Dots PROVE q + 1 <= t
    <3>1. t \in LineStarts /\ t > s
      BY <1>1, <1>3, <2>2 DEF Dots, LineStarts
    <3>2. t > q
      BY <1>2, <3>1, NextLineStart
    <3> QED BY <1>1, <3>1, <3>2 DEF LineStarts
  <2>3. q + 1 \in 1 .. q + 1 /\ \A i \in q + 1 .. q : sent[i] # "LF"
    BY <1>1
  <2> QED BY <2>1, <2>2, <2>3 DEF Where
<1> QED BY <1>2, <1>3

\* A line that is no dot and does not fit makes the message too large.
LEMMA LineTooLong ==
    ASSUME sent \in Streams, max \in Nat, NEW s \in LineStarts, \A t \in Dots : s <= t,
           s \notin Dots, NEW d, Collected(s, d), LineEnd(s) + 1 - s + Len(d) > max
    PROVE  IsTooLarge
<1>1. s \in 1 .. Len(sent) /\ Len(sent) \in Nat
  BY StreamIs DEF LineStarts
<1>2. HasDot => Dot \in Dots /\ Dot \in Nat /\ s < Dot
  BY <1>1, DotIs DEF Dots, LineStarts
<1>3. s \in BodyLines
  BY <1>2 DEF BodyLines
<1>4. StuffedBefore(s) = Before(s)
  BY <1>1, <1>2, StuffedBeforeIs
<1>5. Before(s) \in Nat /\ LineEnd(s) \in Nat
  <2>1. s \in Int
    BY <1>1
  <2>2. LineEnd(s) \in s .. Len(sent)
    BY <1>1, LineEndExists
  <2>3. Before(s) \in Nat
    BY <2>1, BeforeIsNat
  <2> QED BY <1>1, <2>2, <2>3
<1>6. Len(d) + Before(s) + 1 = s
  BY DEF Collected
<1>7. LineEnd(s) - StuffedBefore(s) > max
  BY <1>1, <1>4, <1>5, <1>6
<1> QED BY <1>3, <1>7 DEF IsTooLarge

\* A line that fits is collected, without the dot that stuffs it.
LEMMA LineFits ==
    ASSUME sent \in Streams, max \in Nat, NEW s \in LineStarts, NEW d \in Seq(Bytes),
           Collected(s, d), NEW b \in Seq(Bytes), From(s, b), Len(b) = LineEnd(s) + 1 - s,
           Len(d) + Len(b) <= max
    PROVE  /\ Collected(LineEnd(s) + 1, d \o Content(b))
           /\ d \o Content(b) \in Seq(Bytes) /\ Len(d \o Content(b)) <= max
<1> DEFINE e == LineEnd(s)
           c == Content(b)
           cut == IF Stuffed(s) THEN 1 ELSE 0
<1>1. s \in 1 .. Len(sent) /\ Len(sent) \in Nat
  BY StreamIs DEF LineStarts
<1>2. e \in s .. Len(sent)
  BY <1>1, LineEndExists
<1>3. Len(b) \in Nat /\ Len(b) = e + 1 - s /\ \A k \in 1 .. Len(b) : b[k] = sent[s - 1 + k]
  BY DEF From
<1>4. Stuffed(s) <=> Len(b) >= 2 /\ b[1] = "." /\ b[2] = "."
  <2>1. e > s <=> Len(b) >= 2
    BY <1>1, <1>2, <1>3
  <2>2. Len(b) >= 2 => b[1] = sent[s] /\ b[2] = sent[s + 1]
    <3>1. ASSUME Len(b) >= 2 PROVE b[1] = sent[s - 1 + 1] /\ b[2] = sent[s - 1 + 2]
      BY <1>3, <3>1
    <3> QED BY <1>1, <3>1
  <2> QED BY <2>1, <2>2 DEF Stuffed
<1>5. /\ c \in Seq(Bytes) /\ Len(c) = Len(b) - cut
      /\ \A k \in 1 .. Len(b) - cut : c[k] = b[k + cut]
  <2>1. CASE Stuffed(s)
    <3>1. c = Tail(b) /\ b # <<>> /\ cut = 1
      BY <1>3, <1>4, <2>1 DEF Content
    <3> QED BY <3>1, <1>3, HeadTailProperties
  <2>2. CASE ~Stuffed(s)
    <3>1. c = b /\ cut = 0
      BY <1>4, <2>2 DEF Content
    <3> HIDE DEF c, cut
    <3> QED BY <1>3, <3>1
  <2> QED BY <2>1, <2>2
<1>6. cut \in {0, 1} /\ (cut = 1 <=> Stuffed(s)) /\ (cut = 1 => Len(b) >= 2)
  BY <1>4
<1>7. Before(s) \in Nat /\ \A i \in s + 1 .. e + 1 : Before(i) = Before(s) + cut
  <2>1. s \in Int
    BY <1>1
  <2>2. Before(s) \in Nat
    BY <2>1, BeforeIsNat
  <2>3. ASSUME NEW i \in s + 1 .. LineEnd(s) + 1 PROVE Before(i) = Before(s) + cut
    BY <2>2, BeforeWithin
  <2> QED BY <2>2, <2>3
<1>8. Len(d) + Before(s) + 1 = s /\ Len(d) \in Nat
  BY DEF Collected
<1> HIDE DEF c, cut, e
<1>9. /\ d \o c \in Seq(Bytes) /\ Len(d \o c) = Len(d) + Len(c)
      /\ \A i \in 1 .. Len(d) : (d \o c)[i] = d[i]
      /\ \A k \in 1 .. Len(c) : (d \o c)[Len(d) + k] = c[k]
  BY <1>5, ConcatProperties
<1>10. Len(d \o c) + Before(e + 1) = e /\ Len(d \o c) <= max
  <2>1. Before(e + 1) = Before(s) + cut
    BY <1>1, <1>2, <1>7
  <2>2. Len(d \o c) = Len(d) + (Len(b) - cut)
    BY <1>5, <1>9
  <2>3. Len(b) \in Nat /\ Len(b) = e + 1 - s
    BY <1>3
  <2>4. PICK x \in Nat : x = Before(s)
    BY <1>7
  <2>5. PICK m \in Nat : m = Len(d)
    BY <1>8
  <2>6. cut \in {0, 1} /\ s \in Nat /\ e \in Nat /\ m + x + 1 = s
    BY <1>1, <1>2, <1>6, <1>8, <2>4, <2>5
  <2>7. Len(d \o c) = m + (e + 1 - s - cut)
    BY <2>2, <2>3, <2>5, <2>6
  <2>8. Len(d \o c) + Before(e + 1) = e
    <3>1. Before(e + 1) = x + cut
      BY <2>1, <2>4
    <3> QED BY <2>6, <2>7, <3>1
  <2>9. m + (e + 1 - s) <= max
    BY <2>3, <2>5
  <2> QED BY <2>6, <2>7, <2>8, <2>9
<1>11. ASSUME NEW t \in LineStarts, t < s, NEW i \in t .. LineEnd(t), ~(Stuffed(t) /\ i = t)
       PROVE  i - Before(i) \in 1 .. Len(d \o c) /\ (d \o c)[i - Before(i)] = sent[i]
  <2>1. i - Before(i) \in 1 .. Len(d) /\ d[i - Before(i)] = sent[i]
    BY <1>11 DEF Collected
  <2>2. Len(c) \in Nat
    BY <1>5
  <2> QED BY <1>8, <1>9, <2>1, <2>2
<1>12. e - Before(s) <= max
  <2>1. Len(b) \in Nat /\ Len(b) = e + 1 - s
    BY <1>3
  <2> QED BY <1>1, <1>2, <1>7, <1>8, <2>1
<1>13. ASSUME NEW i \in s .. e, ~(Stuffed(s) /\ i = s)
       PROVE  i - Before(i) \in 1 .. Len(d \o c) /\ (d \o c)[i - Before(i)] = sent[i]
  <2> DEFINE k == i + 1 - s - cut
  <2>1. Before(i) = Before(s) + (IF i = s THEN 0 ELSE cut)
    BY <1>1, <1>2, <1>6, <1>7, <1>13
  <2>2. k \in 1 .. Len(c) /\ k + cut = i + 1 - s /\ (i = s => cut = 0)
    BY <1>1, <1>2, <1>3, <1>5, <1>6, <1>13
  <2>3. i - Before(i) = Len(d) + k
    <3>1. PICK x \in Nat : x = Before(s)
      BY <1>7
    <3>2. Before(i) = x + cut
      BY <1>6, <2>1, <2>2, <3>1
    <3>3. Len(d) + x + 1 = s /\ Len(d) \in Nat
      BY <1>8, <3>1
    <3> QED BY <1>1, <1>2, <1>6, <3>2, <3>3
  <2>4. c[k] = b[k + cut]
    BY <1>5, <2>2
  <2>5. b[i + 1 - s] = sent[i]
    <3>1. i + 1 - s \in 1 .. Len(b) /\ s - 1 + (i + 1 - s) = i
      BY <1>1, <1>2, <1>3, <1>13
    <3> QED BY <1>3, <3>1
  <2>6. Len(d) + k \in 1 .. Len(d \o c) /\ (d \o c)[Len(d) + k] = c[k]
    BY <1>5, <1>8, <1>9, <2>2
  <2> HIDE DEF k
  <2> QED BY <2>2, <2>3, <2>4, <2>5, <2>6
<1>14. \A t \in LineStarts : t < e + 1 <=> t < s \/ t = s
  <2> SUFFICES ASSUME NEW t \in LineStarts PROVE t < e + 1 <=> t < s \/ t = s
    OBVIOUS
  <2>1. t > s => t > e
    BY NextLineStart DEF e
  <2>2. t \in Nat
    BY <1>1 DEF LineStarts
  <2> QED BY <1>1, <1>2, <2>1, <2>2
<1>15. \A t \in LineStarts : t < s => LineEnd(t) - Before(t) <= max
  BY DEF Collected
<1>16. Len(d \o c) + Before(e + 1) + 1 = e + 1
  BY <1>10
<1>17. Collected(e + 1, d \o c)
  <2>1. ASSUME NEW t \in LineStarts, t < e + 1, NEW i \in t .. LineEnd(t),
               ~(Stuffed(t) /\ i = t)
        PROVE  i - Before(i) \in 1 .. Len(d \o c) /\ (d \o c)[i - Before(i)] = sent[i]
    BY <1>11, <1>13, <1>14, <2>1 DEF e
  <2>2. ASSUME NEW t \in LineStarts, t < e + 1 PROVE LineEnd(t) - Before(t) <= max
    BY <1>12, <1>14, <1>15, <2>2 DEF e
  <2> QED BY <1>16, <2>1, <2>2 DEF Collected
<1> QED BY <1>9, <1>10, <1>17 DEF c, e

\* What the lines before a position are told by the reference's own count.
LEMMA CollectedCounts ==
    ASSUME sent \in Streams, max \in Nat, NEW s \in Nat, NEW d, Collected(s, d),
           HasDot => s <= Dot
    PROVE  /\ Len(d) = s - 1 - StuffedBefore(s)
           /\ \A t \in LineStarts : t < s =>
                /\ ~(LineEnd(t) - StuffedBefore(t) > max)
                /\ \A i \in t .. LineEnd(t) :
                     (Stuffed(t) /\ i = t) \/ d[i - StuffedBefore(i)] = sent[i]
<1>1. Len(sent) \in Nat /\ LineStarts \subseteq 1 .. Len(sent)
  BY StreamIs DEF LineStarts
<1>2. HasDot => Dot \in LineStarts
  BY DotIs DEF Dots
<1>3. StuffedBefore(s) = Before(s)
  BY StuffedBeforeIs
<1>4. s \in Int
  OBVIOUS
<1>5. Before(s) \in Nat
  BY <1>4, BeforeIsNat
<1>6. Len(d) + Before(s) + 1 = s
  BY DEF Collected
<1>7. Len(d) = s - 1 - StuffedBefore(s)
  <2>1. Len(d) = s - 1 - Before(s)
    <3> QED BY <1>5, <1>6
  <2> QED BY <1>3, <2>1
<1>8. ASSUME NEW t \in LineStarts, t < s
      PROVE  /\ ~(LineEnd(t) - StuffedBefore(t) > max)
             /\ \A i \in t .. LineEnd(t) :
                  (Stuffed(t) /\ i = t) \/ d[i - StuffedBefore(i)] = sent[i]
  <2>1. t \in Nat /\ LineEnd(t) \in t .. Len(sent)
    BY <1>1, LineEndExists
  <2>2. HasDot => Dot \in Nat /\ t < Dot /\ LineEnd(t) < Dot
    <3> SUFFICES ASSUME HasDot PROVE Dot \in Nat /\ t < Dot /\ LineEnd(t) < Dot
      OBVIOUS
    <3>1. Dot \in LineStarts /\ s <= Dot
      BY <1>2
    <3>2. Dot \in Nat
      BY <1>1, <3>1
    <3>3. t < Dot /\ Dot > t
      BY <1>8, <2>1, <3>1, <3>2
    <3>4. Dot > LineEnd(t)
      BY <3>1, <3>3, NextLineStart
    <3> QED BY <1>1, <2>1, <3>3, <3>4, <3>2
  <2>3. StuffedBefore(t) = Before(t)
    BY <1>1, <2>1, <2>2, StuffedBeforeIs
  <2>4. ASSUME NEW i \in t .. LineEnd(t) PROVE StuffedBefore(i) = Before(i)
    <3>1. i \in Nat /\ (HasDot => i <= Dot)
      BY <1>1, <2>1, <2>2
    <3> QED BY <3>1, StuffedBeforeIs
  <2>5. t \in Int
    BY <2>1
  <2>6. Before(t) \in Nat
    BY <2>5, BeforeIsNat
  <2>7. LineEnd(t) - Before(t) <= max /\ LineEnd(t) \in Nat
    BY <1>1, <1>8, <2>1 DEF Collected
  <2>8. ~(LineEnd(t) - Before(t) > max)
    BY <2>6, <2>7
  <2> QED BY <1>8, <2>3, <2>4, <2>8 DEF Collected
<1> QED BY <1>7, <1>8

\* A dot with none before it is the first.
LEMMA FirstDot ==
    ASSUME sent \in Streams, NEW s \in Dots, \A t \in Dots : s <= t
    PROVE  HasDot /\ Dot = s
<1>1. HasDot /\ Dot \in Dots /\ Dot <= s /\ s <= Dot
  BY DotIs DEF HasDot
<1>2. Dots \subseteq Nat
  BY StreamIs DEF Dots, LineStarts
<1> QED BY <1>1, <1>2

\* The dot ends a message that fits, with the body the reference names.
LEMMA MessageEnds ==
    ASSUME sent \in Streams, max \in Nat, NEW s \in Dots, \A t \in Dots : s <= t,
           Collected(s, data)
    PROVE  /\ HasDot /\ Dot = s /\ Verdict = "message"
           /\ Len(data) = Dot - 1 - StuffedBefore(Dot)
           /\ \A t \in BodyLines : \A i \in t .. LineEnd(t) :
                (Stuffed(t) /\ i = t) \/ data[i - StuffedBefore(i)] = sent[i]
<1>1. Len(sent) \in Nat /\ s \in 1 .. Len(sent) /\ Dots \subseteq 1 .. Len(sent)
  BY StreamIs DEF Dots, LineStarts
<1>2. HasDot
  BY FirstDot
<1>3. Dot = s
  BY FirstDot
<1>4. s \in Nat /\ s <= Dot
  BY <1>1, <1>3
<1>5. \A t \in BodyLines : t \in LineStarts /\ t < s
  BY <1>2, <1>3 DEF BodyLines
<1>6. /\ Len(data) = s - 1 - StuffedBefore(s)
      /\ \A t \in BodyLines :
           /\ ~(LineEnd(t) - StuffedBefore(t) > max)
           /\ \A i \in t .. LineEnd(t) :
                (Stuffed(t) /\ i = t) \/ data[i - StuffedBefore(i)] = sent[i]
  BY <1>4, <1>5, CollectedCounts
<1>7. ~IsTooLarge
  BY <1>6 DEF IsTooLarge
<1>8. Verdict = "message"
  BY <1>2, <1>7 DEF Verdict
<1> QED BY <1>2, <1>3, <1>6, <1>8

-----------------------------------------------------------------------------
(* The steps *)

\* What the invariant says of types.
LEMMA TypesAre ==
    ASSUME DInv
    PROVE  /\ sent \in Streams /\ sent \in Seq(Bytes) /\ Len(sent) \in Nat /\ max \in Nat
           /\ max \in MaxSizes /\ pos \in 0 .. Len(sent)
           /\ data \in Seq(Bytes) /\ Len(data) \in Nat /\ Len(data) <= max
           /\ line_buf \in Seq(Bytes) /\ Len(line_buf) \in Nat
           /\ line_head \in Seq(Bytes) /\ Len(line_head) \in Nat /\ Len(line_head) <= TerminatorLen
           /\ mid_line \in BOOLEAN
<1>1. TypeOK
  BY DEF DInv, DataIsFramed
<1>2. sent \in Streams /\ max \in MaxSizes /\ max \in Nat
  BY <1>1, DataPhaseAssumption DEF TypeOK
<1> QED BY <1>1, <1>2, StreamIs DEF TypeOK

\* What arrives is the stream from `pos` on, with a newline at its end at most.
LEMMA ChunkIs ==
    ASSUME sent \in Streams, pos \in 0 .. Len(sent), NEW chunk, Arrives(chunk), chunk \in Chunks
    PROVE  /\ chunk \in Seq(Bytes) /\ Len(chunk) \in Nat \ {0} /\ pos + Len(chunk) <= Len(sent)
           /\ From(pos + 1, chunk)
           /\ \A i \in pos + 1 .. pos + Len(chunk) - 1 : sent[i] # "LF"
           /\ EndsLine(chunk) <=> sent[pos + Len(chunk)] = "LF"
<1>1. sent \in Seq(Bytes) /\ Len(sent) \in Nat
  BY StreamIs
<1>2. PICK q \in pos + 1 .. Len(sent) : chunk = SubSeq(sent, pos + 1, q)
  BY DEF Chunks
<1>3. /\ chunk \in Seq(Bytes) /\ Len(chunk) = q - pos
      /\ \A k \in 1 .. q - pos : chunk[k] = sent[pos + k]
  <2>1. pos + 1 \in Int /\ q \in Int /\ \A i \in pos + 1 .. q : sent[i] \in Bytes
    BY <1>1, <1>2
  <2>2. /\ SubSeq(sent, pos + 1, q) \in Seq(Bytes)
        /\ Len(SubSeq(sent, pos + 1, q)) = IF pos + 1 <= q THEN q - (pos + 1) + 1 ELSE 0
        /\ \A k \in 1 .. q - (pos + 1) + 1 : SubSeq(sent, pos + 1, q)[k] = sent[pos + 1 + k - 1]
    BY <2>1, SubSeqProperties
  <2>3. q - (pos + 1) + 1 = q - pos /\ pos + 1 <= q /\ \A k \in Int : pos + 1 + k - 1 = pos + k
    BY <1>1, <1>2
  <2>4. chunk \in Seq(Bytes) /\ Len(chunk) = q - pos
    BY <1>2, <2>2, <2>3
  <2>5. ASSUME NEW k \in 1 .. q - pos PROVE chunk[k] = sent[pos + k]
    <3>1. chunk[k] = sent[pos + 1 + k - 1]
      BY <1>2, <2>2, <2>3
    <3> QED BY <2>3, <3>1
  <2> QED BY <2>4, <2>5
<1>4. From(pos + 1, chunk)
  <2> SUFFICES ASSUME NEW k \in 1 .. Len(chunk) PROVE chunk[k] = sent[pos + 1 - 1 + k]
    BY DEF From
  <2>1. pos + 1 - 1 + k = pos + k
    OBVIOUS
  <2> QED BY <1>3, <2>1
<1>5. ASSUME NEW i \in pos + 1 .. pos + Len(chunk) - 1 PROVE sent[i] # "LF"
  <2>1. i - pos \in 1 .. Len(chunk) - 1 /\ pos + (i - pos) = i
    BY <1>2, <1>3, <1>5
  <2>2. chunk[i - pos] # "LF"
    BY <2>1 DEF Arrives
  <2> QED BY <1>3, <1>2, <2>1, <2>2
<1>6. EndsLine(chunk) <=> sent[pos + Len(chunk)] = "LF"
  <2>1. Len(chunk) \in 1 .. q - pos /\ chunk # <<>>
    BY <1>2, <1>3
  <2>2. chunk[Len(chunk)] = sent[pos + Len(chunk)]
    BY <1>3, <2>1
  <2> QED BY <2>1, <2>2 DEF EndsLine
<1> QED BY <1>2, <1>3, <1>4, <1>5, <1>6

\* A step that goes on receiving.
LEMMA StillReceiving ==
    ASSUME DInv, UNCHANGED <<sent, max, mid_line, line_head>>, mode' = "receive",
           ~mid_line, line_head = <<>>, NEW p \in 0 .. Len(sent), pos' = p,
           NEW b \in Seq(Bytes), line_buf' = b, NEW d \in Seq(Bytes), data' = d, Len(d) <= max,
           Where(p + 1 - Len(b), p), From(p + 1 - Len(b), b), Collected(p + 1 - Len(b), d)
    PROVE  DInv'
<1>1. TypeOK'
  BY TypesAre DEF TypeOK
<1>2. Receiving'
  <2>1. /\ Where(p + 1 - Len(b), p)' /\ From(p + 1 - Len(b), b)'
        /\ Collected(p + 1 - Len(b), d)'
    BY PartsStay
  <2> QED BY <2>1 DEF Receiving
<1>3. mode' \notin Ends /\ mode' # "drain"
  BY DEF Ends
<1> QED BY <1>1, <1>2, <1>3 DEF DInv, DataIsFramed, Draining, StaysInStep, SplitDoesNotMatter,
                             BodyIsIntact, Ends

\* A step that discards, or begins to.
LEMMA StillDraining ==
    ASSUME DInv, UNCHANGED <<sent, max, data>>, mode' = "drain", IsTooLarge,
           NEW p \in 0 .. Len(sent), pos' = p, line_buf' \in Seq(Bytes),
           NEW mid \in BOOLEAN, mid_line' = mid,
           NEW h \in Seq(Bytes), line_head' = h, Len(h) <= TerminatorLen,
           NEW s \in 1 .. Len(sent) + 1, Where(s, p), mid => s \notin Dots,
           ~mid => /\ Len(h) = IF p + 1 - s < TerminatorLen THEN p + 1 - s ELSE TerminatorLen
                   /\ From(s, h)
    PROVE  DInv'
<1>1. TypeOK'
  BY TypesAre DEF TypeOK
<1>2. Draining'
  <2>1. Where(s, p)' /\ (~mid => From(s, h)') /\ IsTooLarge' /\ Dots' = Dots
    BY PartsStay, ReferenceStays
  <2> QED BY <2>1 DEF Draining
<1>3. mode' \notin Ends /\ mode' # "receive"
  BY DEF Ends
<1> QED BY <1>1, <1>2, <1>3 DEF DInv, DataIsFramed, Receiving, StaysInStep, SplitDoesNotMatter,
                             BodyIsIntact, Ends

\* A step that ends the phase without a message taken.
LEMMA EndsEmpty ==
    ASSUME DInv, UNCHANGED <<sent, max, data>>, mode' \in {"too_large", "none", "eof"},
           NEW p \in 0 .. Len(sent), pos' = p, line_buf' \in Seq(Bytes), mid_line' \in BOOLEAN,
           line_head' \in Seq(Bytes), Len(line_head') <= TerminatorLen,
           mode' = Verdict, mode' = "too_large" => HasDot /\ p = LineEnd(Dot)
    PROVE  DInv'
<1>1. TypeOK'
  BY TypesAre DEF TypeOK, Ends
<1>2. StaysInStep' /\ SplitDoesNotMatter' /\ BodyIsIntact'
  BY ReferenceStays, LinesStay DEF StaysInStep, SplitDoesNotMatter, BodyIsIntact
<1> QED BY <1>1, <1>2 DEF DInv, DataIsFramed, Receiving, Draining

\* The step that takes a message.
LEMMA EndsWithMessage ==
    ASSUME DInv, UNCHANGED <<sent, max, data, mid_line, line_head>>, mode' = "message",
           line_buf' = <<>>, NEW s \in Dots, \A t \in Dots : s <= t, Collected(s, data),
           pos' = LineEnd(s), LineEnd(s) \in 0 .. Len(sent)
    PROVE  DInv'
<1>1. TypeOK'
  BY TypesAre DEF TypeOK, Ends
<1>2. /\ HasDot /\ Dot = s /\ Verdict = "message"
      /\ Len(data) = Dot - 1 - StuffedBefore(Dot)
      /\ \A t \in BodyLines : \A i \in t .. LineEnd(t) :
           (Stuffed(t) /\ i = t) \/ data[i - StuffedBefore(i)] = sent[i]
  BY TypesAre, MessageEnds
<1>3. StaysInStep' /\ SplitDoesNotMatter'
  BY <1>2, ReferenceStays, LinesStay DEF StaysInStep, SplitDoesNotMatter
<1>4. BodyIsIntact'
  BY <1>2, ReferenceStays, LinesStay DEF BodyIsIntact
<1> QED BY <1>1, <1>3, <1>4 DEF DInv, DataIsFramed, Receiving, Draining

\* A line and its dot: what is_data_terminator sees is what the reference sees.
LEMMA LineIsDot ==
    ASSUME sent \in Streams, NEW s \in LineStarts, NEW line \in Seq(Bytes), From(s, line),
           Len(line) = LineEnd(s) + 1 - s
    PROVE  IsDataTerminator(line) <=> s \in Dots
<1>1. s \in 1 .. Len(sent)
  BY DEF LineStarts
<1>2. /\ LineAt(s) \in Seq(Bytes) /\ Len(LineAt(s)) = Len(line)
      /\ \A k \in 1 .. Len(line) : LineAt(s)[k] = line[k]
  BY <1>1, LineAtIs DEF From
<1>3. LineAt(s) = line
  BY <1>2, SeqEqual
<1> QED BY <1>3 DEF Dots

\* receive_data's loop body, on a whole line.
LEMMA TakeLineStep ==
    ASSUME DInv, mode = "receive", UNCHANGED <<sent, max>>, ~mid_line, line_head = <<>>,
           NEW s \in LineStarts, \A t \in Dots : s <= t, Collected(s, data),
           NEW q \in s .. Len(sent), pos' = q,
           \A i \in s .. q - 1 : sent[i] # "LF", sent[q] = "LF" \/ q = Len(sent),
           NEW line \in Seq(Bytes), From(s, line), Len(line) = q + 1 - s, TakeLine(line)
    PROVE  DInv'
<1> USE TypesAre
<1>1. s \in 1 .. Len(sent) /\ s \in Nat /\ q \in Nat /\ q \in 0 .. Len(sent)
  BY DEF LineStarts
<1>2. LineEnd(s) = q /\ (s \notin Dots => Where(q + 1, q))
  BY LineRead
<1>3. IsDataTerminator(line) <=> s \in Dots
  BY <1>2, LineIsDot
<1>4. Len(<<>>) = 0 /\ <<>> \in Seq(Bytes) /\ \A n : From(n, <<>>)
  BY DEF From
<1>5. CASE IsDataTerminator(line)
  <2>1. mode' = "message" /\ line_buf' = <<>> /\ UNCHANGED <<data, mid_line, line_head>>
    BY <1>5 DEF TakeLine
  <2> QED BY <1>1, <1>2, <1>3, <1>5, <2>1, EndsWithMessage
<1>6. CASE ~IsDataTerminator(line) /\ Len(data) + Len(line) > max
  <2>1. /\ mode' = "drain" /\ mid_line' = FALSE /\ line_buf' = <<>>
        /\ UNCHANGED <<data, line_head>>
    BY <1>6 DEF TakeLine, BeginDrain
  <2>2. LineEnd(s) + 1 - s + Len(data) > max
    BY <1>1, <1>2, <1>6
  <2>3. IsTooLarge
    BY <1>3, <1>6, <2>2, LineTooLong
  <2>4. /\ q + 1 \in 1 .. Len(sent) + 1 /\ Where(q + 1, q) /\ From(q + 1, <<>>)
        /\ q + 1 - (q + 1) = 0 /\ q + 1 - (q + 1) < TerminatorLen /\ 0 <= TerminatorLen
    BY <1>1, <1>2, <1>3, <1>4, <1>6 DEF TerminatorLen
  <2> QED BY <1>1, <1>4, <2>1, <2>3, <2>4, StillDraining
<1>7. CASE ~IsDataTerminator(line) /\ Len(data) + Len(line) <= max
  <2>1. /\ data' = data \o Content(line) /\ line_buf' = <<>> /\ mode' = "receive"
        /\ UNCHANGED <<mid_line, line_head>>
    BY <1>7 DEF TakeLine, BeginDrain
  <2>2. /\ Collected(q + 1, data \o Content(line)) /\ data \o Content(line) \in Seq(Bytes)
        /\ Len(data \o Content(line)) <= max
    BY <1>2, <1>7, LineFits
  <2>3. Where(q + 1, q) /\ q + 1 - 0 = q + 1
    BY <1>1, <1>2, <1>3, <1>7
  <2> QED BY <1>1, <1>4, <2>1, <2>2, <2>3, StillReceiving
<1> QED BY <1>5, <1>6, <1>7

\* One read of read_line_untimed.
LEMMA ReceiveStep ==
    ASSUME DInv, NEW chunk \in Chunks, Receive(chunk)
    PROVE  DInv'
<1> USE TypesAre
<1> DEFINE n == Len(line_buf)
           s == pos + 1 - n
           q == pos + Len(chunk)
           line == line_buf \o chunk
<1>1. mode = "receive" /\ Arrives(chunk) /\ pos' = q /\ UNCHANGED <<sent, max>>
  BY DEF Receive
<1>2. /\ Where(s, pos) /\ From(s, line_buf) /\ Collected(s, data)
      /\ line_head = <<>> /\ ~mid_line
  BY <1>1 DEF DInv, Receiving
<1>3. /\ chunk \in Seq(Bytes) /\ Len(chunk) \in Nat \ {0} /\ q <= Len(sent)
      /\ From(pos + 1, chunk)
      /\ \A i \in pos + 1 .. q - 1 : sent[i] # "LF"
      /\ EndsLine(chunk) <=> sent[q] = "LF"
  BY <1>1, ChunkIs
<1>4. /\ s \in 1 .. pos + 1 /\ (s \in LineStarts \/ s = Len(sent) + 1)
      /\ \A i \in s .. pos : sent[i] # "LF"
      /\ \A t \in Dots : s <= t
  BY <1>2 DEF Where
<1>5. /\ n \in Nat /\ pos \in Nat /\ s \in 1 .. Len(sent) /\ s \in LineStarts
      /\ q \in s .. Len(sent) /\ q \in 0 .. Len(sent) /\ q > pos
  BY <1>3, <1>4
<1>6. \A i \in s .. q - 1 : sent[i] # "LF"
  <2> SUFFICES ASSUME NEW i \in s .. q - 1 PROVE sent[i] # "LF"
    OBVIOUS
  <2>1. i \in s .. pos \/ i \in pos + 1 .. q - 1
    BY <1>3, <1>5
  <2> QED BY <1>3, <1>4, <2>1
<1>7. /\ line \in Seq(Bytes) /\ Len(line) = q + 1 - s /\ Len(line) \in Nat
      /\ From(s, line) /\ (EndsLine(line) <=> sent[q] = "LF")
  <2>1. /\ line \in Seq(Bytes) /\ Len(line) = n + Len(chunk)
        /\ \A k \in 1 .. n : line[k] = line_buf[k]
        /\ \A k \in n + 1 .. n + Len(chunk) : line[k] = chunk[k - n]
    BY <1>3, <1>5, ConcatProperties
  <2>2. ASSUME NEW k \in 1 .. Len(line) PROVE line[k] = sent[s - 1 + k]
    <3>1. CASE k \in 1 .. n
      BY <1>2, <2>1, <3>1 DEF From
    <3>2. CASE k \in n + 1 .. n + Len(chunk)
      <4>1. k - n \in 1 .. Len(chunk) /\ pos + (k - n) = s - 1 + k
        BY <1>3, <1>5, <3>2
      <4>2. \A j \in 1 .. Len(chunk) : chunk[j] = sent[pos + j]
        BY <1>3 DEF From
      <4> QED BY <2>1, <3>2, <4>1, <4>2
    <3> QED BY <1>3, <1>5, <2>1, <3>1, <3>2
  <2>3. Len(line) = q + 1 - s /\ Len(line) \in 1 .. Len(line)
    BY <1>3, <1>5, <2>1
  <2>4. line[Len(line)] = sent[q] /\ line # <<>>
    <3>1. s - 1 + Len(line) = q
      BY <1>3, <1>5, <2>3
    <3> HIDE DEF line
    <3> QED BY <2>1, <2>2, <2>3, <3>1
  <2>5. EndsLine(line) <=> sent[q] = "LF"
    BY <2>4 DEF EndsLine
  <2>6. From(s, line)
    BY <2>2 DEF From
  <2> QED BY <2>1, <2>3, <2>5, <2>6
<1> HIDE DEF line, s, q
<1>8. CASE Len(line) > Budget /\ BeginDrain(~EndsLine(line))
  <2>1. /\ mode' = "drain" /\ mid_line' = ~EndsLine(line) /\ line_buf' = <<>>
        /\ UNCHANGED <<data, line_head>>
    BY <1>8 DEF BeginDrain
  <2>2. Len(line) > max - Len(data) + 3
    BY <1>8 DEF Budget, TerminatorLen
  <2>3. LineEnd(s) \in q .. Len(sent)
    <3>1. /\ LineEnd(s) \in s .. Len(sent)
          /\ sent[LineEnd(s)] = "LF" \/ LineEnd(s) = Len(sent)
      BY <1>5, LineEndExists
    <3>2. ASSUME LineEnd(s) < q PROVE FALSE
      <4>1. LineEnd(s) \in s .. q - 1 /\ LineEnd(s) # Len(sent)
        BY <1>5, <3>1, <3>2
      <4> QED BY <1>6, <3>1, <4>1
    <3> QED BY <1>5, <3>1, <3>2
  <2>4. LineEnd(s) - s > 2 /\ LineEnd(s) + 1 - s + Len(data) > max
    BY <1>5, <1>7, <2>2, <2>3
  <2>5. s \notin Dots
    BY <1>5, <2>4, LongIsNoDot
  <2>6. IsTooLarge
    BY <1>2, <1>4, <1>5, <2>4, <2>5, LineTooLong
  <2>7. <<>> \in Seq(Bytes) /\ Len(<<>>) = 0 /\ 0 <= TerminatorLen /\ 0 < TerminatorLen
    BY DEF TerminatorLen
  <2>8. CASE EndsLine(line)
    <3>1. Where(q + 1, q)
      BY <1>4, <1>5, <1>6, <1>7, <2>5, <2>8, LineRead
    <3>2. q + 1 \in 1 .. Len(sent) + 1 /\ q + 1 - (q + 1) = 0 /\ From(q + 1, <<>>)
      BY <1>5 DEF From
    <3>3. mid_line' = FALSE
      BY <2>1, <2>8
    <3> QED BY <1>1, <1>2, <1>5, <2>1, <2>6, <2>7, <3>1, <3>2, <3>3, StillDraining
  <2>9. CASE ~EndsLine(line)
    <3>1. \A i \in s .. q : sent[i] # "LF"
      BY <1>5, <1>6, <1>7, <2>9
    <3>2. s \in 1 .. q + 1 /\ s \in 1 .. Len(sent) + 1
      BY <1>5
    <3>3. Where(s, q)
      BY <1>4, <1>5, <3>1, <3>2 DEF Where
    <3>4. mid_line' = TRUE
      BY <2>1, <2>9
    <3> QED BY <1>1, <1>2, <1>5, <2>1, <2>5, <2>6, <2>7, <3>2, <3>3, <3>4, StillDraining
  <2> QED BY <2>8, <2>9
<1>9. CASE EndsLine(chunk) /\ TakeLine(line)
  BY <1>1, <1>2, <1>3, <1>4, <1>5, <1>6, <1>7, <1>9, TakeLineStep
<1>10. CASE ~EndsLine(chunk) /\ line_buf' = line /\ UNCHANGED <<data, mid_line, line_head, mode>>
  <2>1. \A i \in s .. q : sent[i] # "LF"
    BY <1>3, <1>5, <1>6, <1>10
  <2>2. s \in 1 .. q + 1 /\ q + 1 - Len(line) = s
    BY <1>5, <1>7
  <2>3. Where(s, q)
    BY <1>4, <1>5, <2>1, <2>2 DEF Where
  <2> QED BY <1>1, <1>2, <1>5, <1>7, <1>10, <2>2, <2>3, StillReceiving
<1> QED BY <1>8, <1>9, <1>10 DEF Receive, line

\* The peer hung up: what is left of a line counts as one, then comes the end.
LEMMA ReceiveEofStep ==
    ASSUME DInv, ReceiveEof
    PROVE  DInv'
<1> USE TypesAre
<1> DEFINE s == pos + 1 - Len(line_buf)
<1>1. mode = "receive" /\ pos = Len(sent) /\ pos' = pos /\ UNCHANGED <<sent, max>>
  BY DEF ReceiveEof, AtEof
<1>2. /\ Where(s, pos) /\ From(s, line_buf) /\ Collected(s, data)
      /\ line_head = <<>> /\ ~mid_line
  BY <1>1 DEF DInv, Receiving
<1>3. /\ s \in 1 .. pos + 1 /\ (s \in LineStarts \/ s = Len(sent) + 1)
      /\ \A i \in s .. pos : sent[i] # "LF"
      /\ \A t \in Dots : s <= t
  BY <1>2 DEF Where
<1>4. CASE line_buf # <<>> /\ TakeLine(line_buf)
  <2>1. Len(line_buf) # 0
    BY <1>4, EmptySeq
  <2>2. s \in LineStarts /\ pos \in s .. Len(sent) /\ Len(line_buf) = pos + 1 - s
    BY <1>1, <1>3, <2>1
  <2>3. \A i \in s .. pos - 1 : sent[i] # "LF"
    BY <1>1, <1>3
  <2> HIDE DEF s
  <2> QED BY <1>1, <1>2, <1>3, <1>4, <2>2, <2>3, TakeLineStep
<1>5. CASE line_buf = <<>> /\ mode' = "none" /\ UNCHANGED <<data, line_buf, mid_line, line_head>>
  <2>1. s = Len(sent) + 1 /\ LineStarts \subseteq 1 .. Len(sent)
    BY <1>1, <1>5 DEF LineStarts
  <2>2. ~HasDot
    <3>1. ASSUME NEW t \in Dots PROVE FALSE
      BY <1>3, <2>1, <3>1 DEF Dots
    <3> QED BY <3>1 DEF HasDot
  <2>3. s \in Nat /\ \A t \in LineStarts : t < s
    BY <2>1
  <2>4. ~IsTooLarge
    <3> HIDE DEF s
    <3>1. \A t \in LineStarts : ~(LineEnd(t) - StuffedBefore(t) > max)
      BY <1>2, <2>2, <2>3, CollectedCounts
    <3> QED BY <2>2, <3>1 DEF IsTooLarge, BodyLines
  <2>5. Verdict = "none"
    BY <2>2, <2>4 DEF Verdict
  <2> QED BY <1>1, <1>5, <2>5, EndsEmpty
<1> QED BY <1>4, <1>5 DEF ReceiveEof

\* drain_data's head of a line grows to three bytes and no further.
LEMMA KeepHeadIs ==
    ASSUME line_head \in Seq(Bytes), Len(line_head) \in Nat, Len(line_head) <= TerminatorLen,
           NEW chunk \in Seq(Bytes)
    PROVE  LET h == KeepHead(chunk)
               n == Len(line_head)
               all == n + Len(chunk)
           IN  /\ h \in Seq(Bytes) /\ Len(h) = IF all < TerminatorLen THEN all ELSE TerminatorLen
               /\ \A k \in 1 .. n : h[k] = line_head[k]
               /\ \A k \in n + 1 .. Len(h) : h[k] = chunk[k - n]
<1> DEFINE n == Len(line_head)
           room == TerminatorLen - n
           m == IF Len(chunk) < room THEN Len(chunk) ELSE room
           part == SubSeq(chunk, 1, m)
<1>1. n \in Nat /\ Len(chunk) \in Nat /\ room \in Nat /\ m \in Nat /\ m <= Len(chunk)
  BY DEF TerminatorLen
<1>2. part \in Seq(Bytes) /\ Len(part) = m /\ \A k \in 1 .. m : part[k] = chunk[k]
  <2>1. 1 \in Int /\ m \in Int /\ \A i \in 1 .. m : chunk[i] \in Bytes
    BY <1>1
  <2>2. m - 1 + 1 = m /\ (IF 1 <= m THEN m - 1 + 1 ELSE 0) = m /\ \A i \in 1 .. m : 1 + i - 1 = i
    BY <1>1
  <2> HIDE DEF m
  <2> QED BY <2>1, <2>2, SubSeqProperties
<1>3. KeepHead(chunk) = line_head \o part
  BY DEF KeepHead
<1>4. n + m = IF n + Len(chunk) < TerminatorLen THEN n + Len(chunk) ELSE TerminatorLen
  BY <1>1 DEF TerminatorLen
<1> HIDE DEF part, m
<1>5. /\ line_head \o part \in Seq(Bytes) /\ Len(line_head \o part) = n + m
      /\ \A k \in 1 .. n : (line_head \o part)[k] = line_head[k]
      /\ \A k \in n + 1 .. n + m : (line_head \o part)[k] = part[k - n]
  <2> DEFINE cat == line_head \o part
  <2>1. /\ cat \in Seq(Bytes) /\ Len(cat) = Len(line_head) + Len(part)
        /\ \A k \in 1 .. Len(line_head) + Len(part) :
             cat[k] = IF k <= Len(line_head) THEN line_head[k] ELSE part[k - Len(line_head)]
    BY <1>2, ConcatProperties
  <2> HIDE DEF cat
  <2>2. /\ Len(cat) = n + m
        /\ \A k \in 1 .. n + m : cat[k] = IF k <= n THEN line_head[k] ELSE part[k - n]
    BY <1>2, <2>1
  <2>3. \A k \in 1 .. n : cat[k] = line_head[k]
    BY <1>1, <2>2
  <2>4. \A k \in n + 1 .. n + m : cat[k] = part[k - n]
    BY <1>1, <2>2
  <2> QED BY <2>1, <2>2, <2>3, <2>4 DEF cat
<1>6. \A k \in n + 1 .. n + m : (line_head \o part)[k] = chunk[k - n]
  BY <1>1, <1>2, <1>5
<1> QED BY <1>3, <1>4, <1>5, <1>6

\* The head of a complete line tells a dot from any other line.
LEMMA HeadIsDot ==
    ASSUME sent \in Streams, NEW s \in LineStarts, sent[LineEnd(s)] = "LF",
           NEW h \in Seq(Bytes), From(s, h),
           Len(h) = IF LineEnd(s) + 1 - s < TerminatorLen THEN LineEnd(s) + 1 - s
                    ELSE TerminatorLen
    PROVE  IsDataTerminator(h) <=> s \in Dots
<1>1. s \in 1 .. Len(sent) /\ Len(sent) \in Nat
  BY StreamIs DEF LineStarts
<1>2. /\ LineEnd(s) \in s .. Len(sent)
      /\ \A i \in s .. LineEnd(s) - 1 : sent[i] # "LF"
  BY <1>1, LineEndExists
<1>3. CASE LineEnd(s) - s > 2
  <2>1. s \notin Dots
    BY <1>1, <1>3, LongIsNoDot
  <2>2. Len(h) = 3 /\ h[3] = sent[s - 1 + 3] /\ s - 1 + 3 \in s .. LineEnd(s) - 1
    BY <1>1, <1>2, <1>3 DEF From, TerminatorLen
  <2>3. h[3] # "LF"
    BY <1>2, <2>2
  <2>4. ~IsDataTerminator(h)
    <3>1. IsDataTerminator(h) => Len(h) \in {1, 2} \/ h[3] = "LF"
      BY TerminatorIs
    <3>2. 3 \notin {1, 2}
      OBVIOUS
    <3> QED BY <2>2, <2>3, <3>1, <3>2, Zenon
  <2> QED BY <2>1, <2>4
<1>4. CASE ~(LineEnd(s) - s > 2)
  <2>1. Len(h) = LineEnd(s) + 1 - s
    BY <1>1, <1>2, <1>4 DEF TerminatorLen
  <2> QED BY <2>1, LineIsDot
<1> QED BY <1>3, <1>4

\* A line ends a line, in the reference's sense, when its newline arrived.
LEMMA LineIsWhole ==
    ASSUME sent \in Streams, NEW s \in 1 .. Len(sent)
    PROVE  EndsLine(LineAt(s)) <=> sent[LineEnd(s)] = "LF"
<1>1. PICK e \in s .. Len(sent) : e = LineEnd(s)
  BY LineEndExists
<1>2. /\ LineAt(s) \in Seq(Bytes) /\ Len(LineAt(s)) = e + 1 - s
      /\ \A k \in 1 .. e + 1 - s : LineAt(s)[k] = sent[s - 1 + k]
  BY <1>1, LineAtIs
<1>3. e + 1 - s \in 1 .. e + 1 - s /\ s - 1 + (e + 1 - s) = e
  BY <1>1, StreamIs
<1>4. LineAt(s)[Len(LineAt(s))] = sent[e] /\ Len(LineAt(s)) # 0
  BY <1>2, <1>3
<1> QED BY <1>1, <1>2, <1>4, EmptySeq DEF EndsLine

\* One read of drain_data.
LEMMA DrainStep ==
    ASSUME DInv, NEW chunk \in Chunks, Drain(chunk)
    PROVE  DInv'
<1> USE TypesAre
<1> DEFINE q == pos + Len(chunk)
           h == KeepHead(chunk)
<1>1. /\ mode = "drain" /\ Arrives(chunk) /\ pos' = q /\ UNCHANGED <<sent, max, data, line_buf>>
  BY DEF Drain
<1>2. IsTooLarge
  BY <1>1 DEF DInv, Draining
<1>3. PICK s \in 1 .. Len(sent) + 1 :
        /\ Where(s, pos)
        /\ mid_line => s \notin Dots
        /\ ~mid_line =>
             /\ Len(line_head) = IF pos + 1 - s < TerminatorLen THEN pos + 1 - s
                                 ELSE TerminatorLen
             /\ From(s, line_head)
  BY <1>1 DEF DInv, Draining
<1>4. /\ chunk \in Seq(Bytes) /\ Len(chunk) \in Nat \ {0} /\ q <= Len(sent)
      /\ From(pos + 1, chunk)
      /\ \A i \in pos + 1 .. q - 1 : sent[i] # "LF"
      /\ EndsLine(chunk) <=> sent[q] = "LF"
  BY <1>1, ChunkIs
<1>5. /\ s \in 1 .. pos + 1 /\ (s \in LineStarts \/ s = Len(sent) + 1)
      /\ \A i \in s .. pos : sent[i] # "LF"
      /\ \A t \in Dots : s <= t
  BY <1>3 DEF Where
<1>6. /\ pos \in Nat /\ s \in 1 .. Len(sent) /\ s \in LineStarts /\ q > pos
      /\ q \in s .. Len(sent) /\ q \in 0 .. Len(sent)
  BY <1>4, <1>5
<1>7. \A i \in s .. q - 1 : sent[i] # "LF"
  <2> SUFFICES ASSUME NEW i \in s .. q - 1 PROVE sent[i] # "LF"
    OBVIOUS
  <2>1. i \in s .. pos \/ i \in pos + 1 .. q - 1
    BY <1>4, <1>6
  <2> QED BY <1>4, <1>5, <2>1
<1>8. /\ h \in Seq(Bytes) /\ Len(h) \in Nat /\ Len(h) <= TerminatorLen
      /\ ~mid_line =>
           /\ Len(h) = IF q + 1 - s < TerminatorLen THEN q + 1 - s ELSE TerminatorLen
           /\ From(s, h)
  <2> DEFINE n == Len(line_head)
  <2>1. /\ h \in Seq(Bytes)
        /\ Len(h) = IF n + Len(chunk) < TerminatorLen THEN n + Len(chunk) ELSE TerminatorLen
        /\ \A k \in 1 .. n : h[k] = line_head[k]
        /\ \A k \in n + 1 .. Len(h) : h[k] = chunk[k - n]
    BY <1>4, KeepHeadIs
  <2> HIDE DEF h
  <2>2. Len(h) \in Nat /\ Len(h) <= TerminatorLen /\ n \in Nat
    BY <1>4, <2>1 DEF TerminatorLen
  <2>3. ASSUME ~mid_line
        PROVE  /\ Len(h) = IF q + 1 - s < TerminatorLen THEN q + 1 - s ELSE TerminatorLen
               /\ From(s, h)
    <3>1. /\ n = IF pos + 1 - s < TerminatorLen THEN pos + 1 - s ELSE TerminatorLen
          /\ \A k \in 1 .. n : line_head[k] = sent[s - 1 + k]
      BY <1>3, <2>3 DEF From
    <3>2. Len(h) = IF q + 1 - s < TerminatorLen THEN q + 1 - s ELSE TerminatorLen
      BY <1>4, <1>6, <2>1, <3>1 DEF TerminatorLen
    <3>3. ASSUME NEW k \in n + 1 .. Len(h) PROVE h[k] = sent[s - 1 + k]
      <4>1. n = pos + 1 - s
        BY <1>6, <2>2, <3>1, <3>3 DEF TerminatorLen
      <4>2. k - n \in 1 .. Len(chunk) /\ pos + (k - n) = s - 1 + k
        BY <1>4, <1>6, <2>1, <2>2, <3>3, <4>1 DEF TerminatorLen
      <4>3. \A j \in 1 .. Len(chunk) : chunk[j] = sent[pos + j]
        BY <1>4 DEF From
      <4> QED BY <2>1, <3>3, <4>2, <4>3
    <3>4. From(s, h)
      <4>1. ASSUME NEW k \in 1 .. n PROVE h[k] = sent[s - 1 + k]
        BY <2>1, <3>1
      <4>2. \A k \in 1 .. Len(h) : k \in 1 .. n \/ k \in n + 1 .. Len(h)
        BY <2>2
      <4> QED BY <3>3, <4>1, <4>2 DEF From
    <3> QED BY <3>2, <3>4
  <2> QED BY <2>1, <2>2, <2>3
<1> HIDE DEF q, h
<1>9. CASE ~EndsLine(chunk)
  <2>1. line_head' = h /\ UNCHANGED <<mid_line, mode>>
    BY <1>9 DEF Drain, h
  <2>2. \A i \in s .. q : sent[i] # "LF"
    BY <1>4, <1>6, <1>7, <1>9
  <2>3. s \in 1 .. q + 1 /\ s \in 1 .. Len(sent) + 1
    BY <1>6
  <2>4. Where(s, q)
    BY <1>5, <1>6, <2>2, <2>3 DEF Where
  <2> QED BY <1>1, <1>2, <1>3, <1>6, <1>8, <2>1, <2>3, <2>4, StillDraining
<1>10. CASE EndsLine(chunk)
  <2>1. /\ line_head' = <<>> /\ mid_line' = FALSE
        /\ mode' = IF ~mid_line /\ IsDataTerminator(h) THEN "too_large" ELSE "drain"
    BY <1>10 DEF Drain, h
  <2>2. LineEnd(s) = q /\ (s \notin Dots => Where(q + 1, q))
    BY <1>4, <1>5, <1>6, <1>7, <1>10, LineRead
  <2>3. ~mid_line => (IsDataTerminator(h) <=> s \in Dots)
    BY <1>4, <1>6, <1>8, <1>10, <2>2, HeadIsDot
  <2>4. CASE s \in Dots
    <3>1. mode' = "too_large"
      BY <1>3, <2>1, <2>3, <2>4
    <3>2. HasDot /\ Dot = s
      BY <1>5, <2>4, FirstDot
    <3>3. DotIsWhole
      BY <1>4, <1>6, <1>10, <2>2, <3>2, LineIsWhole DEF DotIsWhole
    <3>4. Verdict = "too_large"
      BY <1>2, <3>2, <3>3 DEF Verdict
    <3>5. <<>> \in Seq(Bytes) /\ Len(<<>>) <= TerminatorLen
      BY DEF TerminatorLen
    <3> QED BY <1>1, <1>6, <2>1, <2>2, <3>1, <3>2, <3>4, <3>5, EndsEmpty
  <2>5. CASE s \notin Dots
    <3>1. mode' = "drain"
      BY <2>1, <2>3, <2>5
    <3>2. /\ q + 1 \in 1 .. Len(sent) + 1 /\ q + 1 - (q + 1) = 0 /\ From(q + 1, <<>>)
          /\ <<>> \in Seq(Bytes) /\ Len(<<>>) = 0 /\ 0 <= TerminatorLen /\ 0 < TerminatorLen
      BY <1>6 DEF From, TerminatorLen
    <3> QED BY <1>1, <1>2, <1>6, <2>1, <2>2, <2>5, <3>1, <3>2, StillDraining
  <2> QED BY <2>4, <2>5
<1> QED BY <1>9, <1>10

\* The peer hung up while its message was being discarded.
LEMMA DrainEofStep ==
    ASSUME DInv, DrainEof
    PROVE  DInv'
<1> USE TypesAre
<1>1. /\ mode = "drain" /\ pos = Len(sent) /\ mode' = "eof" /\ pos' = pos
      /\ UNCHANGED <<sent, max, data, line_buf, mid_line, line_head>>
  BY DEF DrainEof, AtEof
<1>2. IsTooLarge
  BY <1>1 DEF DInv, Draining
<1>3. PICK s \in 1 .. Len(sent) + 1 : Where(s, pos)
  BY <1>1 DEF DInv, Draining
<1>4. /\ \A i \in s .. Len(sent) : sent[i] # "LF"
      /\ \A t \in Dots : s <= t
  BY <1>1, <1>3 DEF Where
<1>5. ASSUME HasDot PROVE ~DotIsWhole
  <2>1. Dot \in Dots
    BY <1>5, DotIs
  <2>2. Dot \in 1 .. Len(sent) /\ s <= Dot
    BY <1>4, <2>1 DEF Dots, LineStarts
  <2>3. LineEnd(Dot) \in Dot .. Len(sent)
    BY <2>2, LineEndExists
  <2>4. LineEnd(Dot) \in s .. Len(sent)
    BY <1>3, <2>2, <2>3
  <2>5. sent[LineEnd(Dot)] # "LF"
    BY <1>4, <2>4
  <2> QED BY <2>2, <2>5, LineIsWhole DEF DotIsWhole
<1>6. Verdict = "eof"
  BY <1>2, <1>5 DEF Verdict
<1> QED BY <1>1, <1>6, EndsEmpty

\* The deadline: the session ends without a reply.
LEMMA TimeoutStep ==
    ASSUME DInv, Timeout
    PROVE  DInv'
<1>1. /\ mode' = "timeout"
      /\ UNCHANGED <<sent, max, pos, data, line_buf, mid_line, line_head>>
  BY DEF Timeout
<1>2. TypeOK'
  BY <1>1, TypesAre DEF TypeOK, Ends
<1> QED BY <1>1, <1>2 DEF DInv, DataIsFramed, Receiving, Draining, StaysInStep,
                          SplitDoesNotMatter, BodyIsIntact

\* Nothing happens.
LEMMA StutterStep ==
    ASSUME DInv, UNCHANGED vars
    PROVE  DInv'
<1>1. UNCHANGED <<sent, max>>
  BY DEF vars
<1>2. TypeOK'
  BY DEF DInv, DataIsFramed, TypeOK, vars
<1>3. StaysInStep' /\ SplitDoesNotMatter' /\ BodyIsIntact'
  BY <1>1, ReferenceStays, LinesStay
     DEF DInv, DataIsFramed, StaysInStep, SplitDoesNotMatter, BodyIsIntact, vars
<1>4. Receiving'
  BY <1>1, PartsStay DEF DInv, Receiving, vars
<1>5. Draining'
  BY <1>1, PartsStay, ReferenceStays DEF DInv, Draining, vars
<1> QED BY <1>2, <1>3, <1>4, <1>5 DEF DInv, DataIsFramed

\* Nothing has been read, and the first line is in hand.
LEMMA InitDInv == Init => DInv
<1> SUFFICES ASSUME Init PROVE DInv
  OBVIOUS
<1>1. /\ sent \in Streams /\ max \in MaxSizes /\ pos = 0 /\ data = <<>> /\ line_buf = <<>>
      /\ mid_line = FALSE /\ line_head = <<>> /\ mode = "receive"
  BY DEF Init
<1>2. Len(sent) \in Nat /\ max \in Nat
  BY <1>1, StreamIs, DataPhaseAssumption
<1>3. TypeOK
  <2>1. <<>> \in Seq(Bytes) /\ Len(<<>>) = 0 /\ 0 <= max /\ 0 <= TerminatorLen
    BY <1>2 DEF TerminatorLen
  <2>2. 0 \in 0 .. Len(sent) /\ FALSE \in BOOLEAN
    BY <1>2
  <2> QED BY <1>1, <2>1, <2>2, Zenon DEF TypeOK
<1>4. \A t \in LineStarts : t >= 1 /\ ~(t < 1)
  BY <1>2 DEF LineStarts
<1>5. Where(1, 0)
  <2>1. 1 \in LineStarts \/ 1 = Len(sent) + 1
    BY <1>2 DEF LineStarts
  <2>2. \A t \in Dots : 1 <= t
    BY <1>4 DEF Dots
  <2> QED BY <2>1, <2>2 DEF Where
<1>6. Before(1) = 0
  <2>1. {t \in LineStarts : t < 1 /\ Stuffed(t)} = {}
    BY <1>4
  <2> QED BY <2>1, FS_EmptySet DEF Before
<1>7. Collected(1, <<>>)
  BY <1>4, <1>6 DEF Collected
<1>8. Receiving
  BY <1>1, <1>5, <1>7 DEF Receiving, From
<1> QED BY <1>1, <1>3, <1>8 DEF DInv, DataIsFramed, Draining, StaysInStep, SplitDoesNotMatter,
                                BodyIsIntact, Ends

\* Every read, every end and the deadline keep it.
LEMMA NextDInv == DInv /\ [Next]_vars => DInv'
BY ReceiveStep, ReceiveEofStep, DrainStep, DrainEofStep, TimeoutStep, StutterStep
   DEF Next, Over

\* The framing of DATA, for every stream, limit and way to split it: a message
\* ends at its dot and nowhere else, what is stored is what was sent, and the
\* verdict is that of the whole stream (receive_data, drain_data).
THEOREM DataIsFramedAlways == Spec => []DataIsFramed
<1>1. DInv => DataIsFramed
  BY DEF DInv
<1> QED BY <1>1, InitDInv, NextDInv, PTL DEF Spec
=============================================================================
