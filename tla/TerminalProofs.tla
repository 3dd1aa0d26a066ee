---------------------------- MODULE TerminalProofs ---------------------------
(***************************************************************************)
(* Proofs about the terminal interface, for any messages, page size, queue *)
(* sizes and bounds.  The screen: the cursor is on a row and stays on its  *)
(* message, the pane shows the selected message or waits for it, and the   *)
(* raw view shows the message it was asked for.  The feed: an event that   *)
(* the client's full queue or the server's ring dropped, or that passed    *)
(* while the connection was down, stays owed until the list is read past   *)
(* it, and arrivals are announced in the order of their ids.               *)
(***************************************************************************)
EXTENDS Terminal, FiniteSetTheorems, SequenceTheorems, TLAPS

-----------------------------------------------------------------------------
(* Numbers and lists *)

\* What the constants of Screen are.
LEMMA ScreenConstants ==
    /\ ListSize \in Nat /\ ListSize > 0 /\ S!None \notin Listed
    /\ MaxChanges \in Nat /\ MaxRequests \in Nat /\ MaxSteps \in Nat
<1>1. S!ScreenAssumption
  BY TerminalAssumption, Zenon
<1> QED
  BY <1>1 DEF S!ScreenAssumption

\* A non-empty set of positive numbers has a least element: the shortest of
\* the intervals that end in it.
LEMMA LeastOf ==
    ASSUME NEW D \in SUBSET (Nat \ {0}), D # {}
    PROVE  \E m \in D : \A t \in D : m <= t
<1> DEFINE T == {1 .. m : m \in D}
           R == StrictSubsetOrdering(UNION T)
<1>1. ASSUME NEW X \in T PROVE IsFiniteSet(X)
  BY FS_Interval
<1>2. T \subseteq FiniteSubsetsOf(UNION T) /\ T # {}
  BY <1>1 DEF FiniteSubsetsOf
<1>3. PICK X \in T : \A Y \in T : <<Y, X>> \notin R
  <2>1. IsWellFoundedOn(R, FiniteSubsetsOf(UNION T))
    BY FS_StrictSubsetOrderingWellFounded
  <2> HIDE DEF R, T
  <2> QED BY <1>2, <2>1, WFMin
<1>4. PICK m \in D : X = 1 .. m
  OBVIOUS
<1>5. ASSUME NEW t \in D, t < m PROVE FALSE
  <2>1. 1 .. t \subseteq 1 .. m /\ m \in 1 .. m /\ m \notin 1 .. t /\ 1 .. t \in T
    BY <1>5
  <2>2. 1 .. t # X
    BY <1>4, <2>1
  <2>3. <<1 .. t, X>> \in R
    <3> HIDE DEF T
    <3> QED BY <1>4, <2>1, <2>2 DEF StrictSubsetOrdering
  <2> HIDE DEF R, T
  <2> QED BY <1>3, <2>1, <2>3
<1> QED BY <1>5

\* The least and the greatest of some rows of a list.
LEMMA Extremes ==
    ASSUME NEW n \in Nat, NEW D \in SUBSET (1 .. n), D # {}
    PROVE  /\ S!Min(D) \in D /\ \A d \in D : S!Min(D) <= d
           /\ S!Max(D) \in D
<1>1. \E m \in D : \A d \in D : m <= d
  BY LeastOf
<1>2. \E m \in D : \A d \in D : m >= d
  <2> DEFINE U == {n + 1 - d : d \in D}
  <2>1. U \in SUBSET (Nat \ {0}) /\ U # {}
    <3>1. ASSUME NEW d \in D PROVE n + 1 - d \in Nat \ {0}
      OBVIOUS
    <3> QED BY <3>1
  <2>2. PICK u \in U : \A t \in U : u <= t
    <3> HIDE DEF U
    <3> QED BY <2>1, LeastOf
  <2>3. PICK m \in D : u = n + 1 - m
    OBVIOUS
  <2>4. ASSUME NEW d \in D PROVE m >= d
    <3>1. u <= n + 1 - d
      BY <2>2
    <3> QED BY <2>3, <3>1
  <2> QED BY <2>4
<1>3. S!Min(D) \in D /\ \A d \in D : S!Min(D) <= d
  BY <1>1 DEF S!Min
<1> QED BY <1>2, <1>3 DEF S!Max

\* A list is a sequence of different messages, a page of them at most.
LEMMA ListIs ==
    ASSUME NEW l \in S!Lists
    PROVE  /\ l \in Seq(Listed) /\ Len(l) \in 0 .. ListSize /\ Len(l) \in Nat
           /\ DOMAIN l = 1 .. Len(l)
           /\ \A i \in 1 .. Len(l) : l[i] \in Listed
           /\ \A i, j \in 1 .. Len(l) : l[i] = l[j] => i = j
<1>1. PICK n \in 0 .. ListSize :
        l \in [1 .. n -> Listed] /\ \A i, j \in 1 .. n : l[i] = l[j] => i = j
  BY DEF S!Lists
<1>2. n \in Nat /\ l \in Seq(Listed) /\ Len(l) = n
  BY <1>1, ScreenConstants
<1> QED BY <1>1, <1>2

\* And the other way round.
LEMMA IsList ==
    ASSUME NEW l \in Seq(Listed), Len(l) <= ListSize,
           \A i, j \in 1 .. Len(l) : l[i] = l[j] => i = j
    PROVE  l \in S!Lists
<1>1. Len(l) \in 0 .. ListSize
  BY ScreenConstants
<1>2. l \in [1 .. Len(l) -> Listed]
  OBVIOUS
<1> QED BY <1>1, <1>2 DEF S!Lists

\* The list after an arrival is a list.
LEMMA ArrivedIsList ==
    ASSUME list \in S!Lists, NEW id \in Listed, \A i \in DOMAIN list : list[i] # id
    PROVE  S!Arrived(id) \in S!Lists
<1> DEFINE n == Len(list)
           a == <<id>> \o list
           k == S!Min({ListSize, n + 1})
<1>1. /\ list \in Seq(Listed) /\ n \in Nat /\ DOMAIN list = 1 .. n
      /\ \A i, j \in 1 .. n : list[i] = list[j] => i = j
  BY ListIs
<1>2. /\ a \in Seq(Listed) /\ Len(a) = n + 1
      /\ \A i \in 1 .. n + 1 : a[i] = IF i = 1 THEN id ELSE list[i - 1]
  BY <1>1
<1>3. k \in 0 .. n + 1 /\ k <= ListSize /\ k \in {ListSize, n + 1}
  <2>1. \E x \in {ListSize, n + 1} : \A y \in {ListSize, n + 1} : x <= y
    BY <1>1, ScreenConstants
  <2>2. k \in {ListSize, n + 1} /\ \A y \in {ListSize, n + 1} : k <= y
    BY <2>1 DEF S!Min
  <2> HIDE DEF k
  <2> QED BY <1>1, <2>2, ScreenConstants
<1> HIDE DEF k, a, n
<1>4. /\ SubSeq(a, 1, k) \in Seq(Listed) /\ Len(SubSeq(a, 1, k)) = k
      /\ \A i \in 1 .. k : SubSeq(a, 1, k)[i] = a[i]
  BY <1>1, <1>2, <1>3
<1>5. \A i, j \in 1 .. k : a[i] = a[j] => i = j
  <2> SUFFICES ASSUME NEW i \in 1 .. k, NEW j \in 1 .. k, a[i] = a[j] PROVE i = j
    OBVIOUS
  <2>1. i \in 1 .. n + 1 /\ j \in 1 .. n + 1
    BY <1>1, <1>3
  <2>2. ASSUME NEW x \in 1 .. n + 1, a[x] = a[1] PROVE x = 1
    <3>1. a[1] = id /\ (x # 1 => a[x] = list[x - 1] /\ x - 1 \in DOMAIN list)
      BY <1>1, <1>2
    <3> QED BY <2>2, <3>1
  <2>3. CASE i # 1 /\ j # 1
    <3>1. i - 1 \in 1 .. n /\ j - 1 \in 1 .. n /\ list[i - 1] = list[j - 1]
      BY <1>1, <1>2, <2>1, <2>3
    <3> QED BY <1>1, <3>1, <2>1
  <2> QED BY <2>1, <2>2, <2>3
<1>6. SubSeq(a, 1, k) \in S!Lists
  BY <1>3, <1>4, <1>5, IsList
<1> QED BY <1>6 DEF S!Arrived, a, k, n

\* The list after a removal is a list.
LEMMA WithoutIsList ==
    ASSUME list \in S!Lists, NEW id \in Listed, \E i \in DOMAIN list : list[i] = id
    PROVE  S!Without(id) \in S!Lists
<1> DEFINE n == Len(list)
           c0 == CHOOSE i \in DOMAIN list : list[i] = id
           b == SubSeq(list, 1, c0 - 1)
           e == SubSeq(list, c0 + 1, n)
<1>1. /\ list \in Seq(Listed) /\ n \in Nat /\ DOMAIN list = 1 .. n /\ n <= ListSize
      /\ \A i, j \in 1 .. n : list[i] = list[j] => i = j
  BY ListIs, ScreenConstants
<1>2. c0 \in 1 .. n
  BY <1>1
<1> HIDE DEF c0
<1>3. /\ b \in Seq(Listed) /\ Len(b) = c0 - 1
      /\ \A i \in 1 .. c0 - 1 : b[i] = list[i]
  BY <1>1, <1>2
<1> HIDE DEF n
<1>4. /\ e \in Seq(Listed) /\ Len(e) = n - c0
      /\ \A i \in 1 .. n - c0 : e[i] = list[c0 + i]
  <2>1. c0 + 1 \in Int /\ n \in Int /\ \A i \in c0 + 1 .. n : list[i] \in Listed
    BY <1>1, <1>2 DEF n
  <2>2. /\ e \in Seq(Listed) /\ Len(e) = IF c0 + 1 <= n THEN n - (c0 + 1) + 1 ELSE 0
        /\ \A i \in 1 .. n - (c0 + 1) + 1 : e[i] = list[c0 + 1 + i - 1]
    BY <2>1, SubSeqProperties
  <2> HIDE DEF e
  <2> QED BY <1>1, <1>2, <2>2
<1> HIDE DEF b, e
<1>5. /\ b \o e \in Seq(Listed) /\ Len(b \o e) = n - 1
      /\ \A i \in 1 .. n - 1 : (b \o e)[i] = IF i < c0 THEN list[i] ELSE list[i + 1]
  <2>1. /\ b \o e \in Seq(Listed) /\ Len(b \o e) = Len(b) + Len(e)
        /\ \A i \in 1 .. Len(b) + Len(e) :
             (b \o e)[i] = IF i <= Len(b) THEN b[i] ELSE e[i - Len(b)]
    BY <1>3, <1>4, ConcatProperties
  <2>2. ASSUME NEW i \in 1 .. n - 1
        PROVE  (b \o e)[i] = IF i < c0 THEN list[i] ELSE list[i + 1]
    <3>1. CASE i < c0
      BY <1>1, <1>2, <1>3, <1>4, <2>1, <3>1
    <3>2. CASE ~(i < c0)
      <4>1. i - (c0 - 1) \in 1 .. n - c0 /\ c0 + (i - (c0 - 1)) = i + 1
        BY <1>1, <1>2, <3>2
      <4>2. (b \o e)[i] = e[i - (c0 - 1)]
        BY <1>1, <1>2, <1>3, <1>4, <2>1, <3>2
      <4> QED BY <1>4, <3>2, <4>1, <4>2
    <3> QED BY <3>1, <3>2
  <2>3. Len(b \o e) = n - 1
    BY <1>1, <1>2, <1>3, <1>4, <2>1
  <2> QED BY <2>1, <2>2, <2>3
<1>6. \A i, j \in 1 .. n - 1 : (b \o e)[i] = (b \o e)[j] => i = j
  <2> SUFFICES ASSUME NEW i \in 1 .. n - 1, NEW j \in 1 .. n - 1, (b \o e)[i] = (b \o e)[j]
               PROVE  i = j
    OBVIOUS
  <2> DEFINE at(x) == IF x < c0 THEN x ELSE x + 1
  <2>1. at(i) \in 1 .. n /\ at(j) \in 1 .. n /\ list[at(i)] = list[at(j)]
    BY <1>1, <1>2, <1>5
  <2>2. at(i) = at(j)
    BY <1>1, <2>1
  <2> QED BY <2>2, <1>1, <1>2
<1>7. b \o e \in S!Lists
  <2>1. n - 1 <= ListSize
    BY <1>1, ScreenConstants
  <2> HIDE DEF S!Lists
  <2> QED BY <1>5, <1>6, <2>1, IsList
<1> QED BY <1>7 DEF S!Without, b, e, n, c0

\* The empty list is a list.
LEMMA EmptyIsList == << >> \in S!Lists
<1>1. << >> \in Seq(Listed) /\ Len(<< >>) = 0
  OBVIOUS
<1>2. 1 .. Len(<< >>) = {} /\ Len(<< >>) <= ListSize
  BY <1>1, ScreenConstants
<1> QED BY <1>1, <1>2, IsList

-----------------------------------------------------------------------------
(* The cursor *)

\* The id at a row.
LEMMA IdAtIs ==
    ASSUME NEW l \in S!Lists, NEW index \in Nat
    PROVE  /\ S!IdAt(l, index) \in Listed \cup {S!None}
           /\ S!IdAt(l, index) # S!None <=> index < Len(l)
<1>1. Len(l) \in Nat /\ \A i \in 1 .. Len(l) : l[i] \in Listed
  BY ListIs
<1>2. CASE index < Len(l)
  BY <1>1, <1>2, ScreenConstants DEF S!IdAt
<1>3. CASE ~(index < Len(l))
  BY <1>3 DEF S!IdAt
<1> QED BY <1>2, <1>3

\* resolve_selection gives a row whenever there is one, and the row of the
\* selected message whenever it is still listed.
LEMMA Resolves ==
    ASSUME NEW old \in Seq(Listed), NEW index \in Nat, NEW new \in S!Lists
    PROVE  LET r == S!ResolveSelection(old, index, new)
           IN  /\ r \in Nat
               /\ new # << >> => r < Len(new)
               /\ \A j \in DOMAIN new :
                    index < Len(old) /\ new[j] = old[index + 1] => S!IdAt(new, r) = new[j]
<1> DEFINE survivors == {i \in DOMAIN old : \E j \in DOMAIN new : new[j] = old[i]}
           below == {i \in survivors : i > index}
           above == survivors \ below
           place(i) == (CHOOSE j \in DOMAIN new : new[j] = old[i]) - 1
           r == S!ResolveSelection(old, index, new)
<1>1. /\ Len(new) \in Nat /\ DOMAIN new = 1 .. Len(new) /\ new \in Seq(Listed)
      /\ Len(old) \in Nat /\ DOMAIN old = 1 .. Len(old)
  BY ListIs
<1>2. survivors \in SUBSET (1 .. Len(old)) /\ below \in SUBSET (1 .. Len(old))
      /\ above \in SUBSET (1 .. Len(old)) /\ (survivors = {} => below = {} /\ above = {})
      /\ (below = {} /\ above = {} => survivors = {})
  BY <1>1
<1>3. ASSUME NEW i \in survivors
      PROVE  /\ place(i) \in 0 .. Len(new) - 1 /\ place(i) \in Nat /\ place(i) < Len(new)
             /\ new[place(i) + 1] = old[i]
  <2>1. \E j \in DOMAIN new : new[j] = old[i]
    OBVIOUS
  <2>2. PICK j \in DOMAIN new : j = (CHOOSE x \in DOMAIN new : new[x] = old[i]) /\ new[j] = old[i]
    BY <2>1
  <2>3. place(i) = j - 1
    BY <2>2
  <2> HIDE DEF place
  <2> QED BY <1>1, <2>2, <2>3
<1>4. r = CASE below # {} -> place(S!Min(below))
            [] below = {} /\ above # {} -> place(S!Max(above))
            [] survivors = {} -> IF index < Len(new) THEN index
                                 ELSE IF new = << >> THEN 0 ELSE Len(new) - 1
  BY DEF S!ResolveSelection
<1>5. below \subseteq survivors /\ above \subseteq survivors /\ \A i \in below : i > index
  OBVIOUS
<1>6. ASSUME NEW j \in DOMAIN new, index < Len(old), new[j] = old[index + 1]
      PROVE  index + 1 \in below
  BY <1>1, <1>6
<1> HIDE DEF r, place, below, above, survivors
<1>7. CASE below # {}
  <2>1. S!Min(below) \in below /\ \A d \in below : S!Min(below) <= d
    BY <1>1, <1>2, <1>7, Extremes
  <2>2. r = place(S!Min(below)) /\ S!Min(below) \in survivors
    BY <1>4, <1>5, <1>7, <2>1
  <2>3. r \in Nat /\ r < Len(new) /\ new[r + 1] = old[S!Min(below)]
    BY <1>3, <2>2
  <2>4. ASSUME NEW j \in DOMAIN new, index < Len(old), new[j] = old[index + 1]
        PROVE  S!IdAt(new, r) = new[j]
    <3>1. S!Min(below) = index + 1
      <4>1. index + 1 \in below
        BY <1>6, <2>4
      <4>2. S!Min(below) <= index + 1 /\ S!Min(below) > index /\ S!Min(below) \in Nat
        <5>1. S!Min(below) \in 1 .. Len(old)
          BY <1>2, <2>1
        <5> QED BY <1>1, <1>5, <2>1, <4>1, <5>1
      <4> HIDE DEF S!Min
      <4> QED BY <4>2
    <3> QED BY <2>3, <2>4, <3>1 DEF S!IdAt
  <2> QED BY <2>3, <2>4 DEF r
<1>8. CASE below = {} /\ above # {}
  <2>1. S!Max(above) \in above
    BY <1>1, <1>2, <1>8, Extremes
  <2>2. r = place(S!Max(above)) /\ S!Max(above) \in survivors
    BY <1>4, <1>5, <1>8, <2>1
  <2>3. r \in Nat /\ r < Len(new)
    BY <1>3, <2>2
  <2> QED BY <2>3, <1>6, <1>8 DEF r
<1>9. CASE below = {} /\ above = {}
  <2>1. r = IF index < Len(new) THEN index ELSE IF new = << >> THEN 0 ELSE Len(new) - 1
    BY <1>2, <1>4, <1>9
  <2>2. new # << >> => Len(new) > 0
    BY <1>1
  <2>3. r \in Nat /\ (new # << >> => r < Len(new))
    <3>1. CASE index < Len(new)
      BY <2>1, <3>1
    <3>2. CASE ~(index < Len(new)) /\ new = << >>
      BY <2>1, <3>2
    <3>3. CASE ~(index < Len(new)) /\ new # << >>
      <4>1. r = Len(new) - 1 /\ Len(new) > 0
        BY <2>1, <2>2, <3>3
      <4> QED BY <1>1, <4>1
    <3> QED BY <3>1, <3>2, <3>3
  <2> QED BY <2>3, <1>6, <1>9 DEF r
<1> QED BY <1>7, <1>8, <1>9

-----------------------------------------------------------------------------
(* The invariant of the screen *)

Shown == Listed \cup {S!None}
Given(n) == 0 .. n   \* no request, and the numbers given out

\* The rows and the cursor on them.
RowsOK(l, s) == l \in S!Lists /\ s \in Nat /\ (l # << >> => s < Len(l))

\* Requests in flight carry numbers already given out.
RequestsOK(q0, n) ==
    /\ n \in Nat
    /\ q0 \subseteq [kind : {"preview", "rawPane", "rawView"}, request : 1 .. n, id : Listed]

\* The pane remembers the message it shows.
PaneOK(p, n) ==
    /\ p \in [preview : Shown, last : Shown, pending : Given(n), loading : BOOLEAN,
              raw : Shown, tab : S!Tabs]
    /\ p.last = p.preview

\* The one raw request the view waits for is of the message it was asked for.
SlotOK(r, q0, n) ==
    /\ r \in [target : {S!None, "Preview", "FullView"}, request : Given(n),
              content : Shown, asked : Shown]
    /\ r.target = "FullView" =>
         \A q \in q0 : q.kind = "rawView" /\ q.request = r.request => q.id = r.asked

\* A text is in the raw view only while that view is open.
ViewOK(r, m) == r.content # S!None => r.content = r.asked /\ m = "RawView"

\* The pane shows the selected message, waits for it, or has just failed.
ShownOK(p, l, s, fetching, fail) ==
    ~ fetching /\ ~ p.loading /\ ~ fail /\ p.preview # S!None => p.preview = S!IdAt(l, s)

FlagsOK(a, b, m, f, ch, fail) ==
    /\ a \in BOOLEAN /\ b \in BOOLEAN /\ m \in S!Modes /\ f \in {"List", "Preview"}
    /\ ch \in Nat /\ fail \in BOOLEAN

ScreenInv ==
    /\ RowsOK(list, selected)
    /\ RequestsOK(requests, lastRequest)
    /\ PaneOK(pane, lastRequest)
    /\ SlotOK(raw, requests, lastRequest)
    /\ ViewOK(raw, mode)
    /\ ShownOK(pane, list, selected, loading, failed)
    /\ FlagsOK(loading, viewChanged, mode, focus, changes, failed)

LEMMA GivenFacts ==
    ASSUME NEW n \in Nat
    PROVE  /\ S!NoRequest \in Given(n)
           /\ n + 1 \in Given(n + 1) /\ Given(n) \subseteq Given(n + 1)
BY DEF Given, S!NoRequest

\* It says what the run checks.
LEMMA ScreenInvShows == ScreenInv => PanesAreRight
<1> SUFFICES ASSUME ScreenInv PROVE PanesAreRight
  OBVIOUS
<1>1. S!TypeOK
  BY DEF ScreenInv, S!TypeOK, RowsOK, RequestsOK, PaneOK, SlotOK, FlagsOK, Shown, Given
<1>2. S!CursorOnARow
  BY DEF ScreenInv, S!CursorOnARow, RowsOK
<1>3. S!PreviewIsSelected
  BY DEF ScreenInv, S!PreviewIsSelected, ShownOK, S!SelectedId
<1>4. S!RawIsAsked
  BY DEF ScreenInv, S!RawIsAsked, ViewOK
<1> QED BY <1>1, <1>2, <1>3, <1>4 DEF PanesAreRight

LEMMA ScreenInit == S!Init => ScreenInv
<1> SUFFICES ASSUME S!Init PROVE ScreenInv
  OBVIOUS
<1>1. RowsOK(list, selected)
  BY EmptyIsList DEF S!Init, RowsOK
<1>2. RequestsOK(requests, lastRequest)
  BY DEF S!Init, RequestsOK
<1>3. PaneOK(pane, lastRequest)
  BY GivenFacts DEF S!Init, PaneOK, Shown, S!Tabs
<1>4. SlotOK(raw, requests, lastRequest) /\ ViewOK(raw, mode)
  BY GivenFacts DEF S!Init, SlotOK, ViewOK, Shown, S!None
<1>5. ShownOK(pane, list, selected, loading, failed)
  BY DEF S!Init, ShownOK
<1>6. FlagsOK(loading, viewChanged, mode, focus, changes, failed)
  BY DEF S!Init, FlagsOK, S!Modes
<1> QED BY <1>1, <1>2, <1>3, <1>4, <1>5, <1>6 DEF ScreenInv

-----------------------------------------------------------------------------
(* The preview and the raw slot *)

\* A pane without its preview, a slot without its request.
LEMMA BlankOK ==
    ASSUME NEW p, NEW n \in Nat, PaneOK(p, n)
    PROVE  PaneOK(S!Blank(p), n) /\ S!Blank(p).preview = S!None
BY GivenFacts DEF PaneOK, S!Blank, Shown

LEMMA NoRawOK ==
    ASSUME NEW r, NEW q0, NEW n \in Nat, SlotOK(r, q0, n)
    PROVE  /\ SlotOK(S!NoRawPending(r), q0, n)
           /\ S!NoRawPending(r).target = S!None
           /\ S!NoRawPending(r).content = r.content
           /\ S!NoRawPending(r).asked = r.asked
<1>1. /\ S!NoRawPending(r) \in [target : {S!None, "Preview", "FullView"}, request : Given(n),
                                content : Shown, asked : Shown]
      /\ S!NoRawPending(r).target = S!None
      /\ S!NoRawPending(r).content = r.content
      /\ S!NoRawPending(r).asked = r.asked
  BY GivenFacts DEF SlotOK, S!NoRawPending
<1>2. S!None # "FullView"
  BY DEF S!None
<1> QED BY <1>1, <1>2 DEF SlotOK

\* A new request has a number of its own.
LEMMA RequestOK ==
    ASSUME NEW kind \in {"preview", "rawPane", "rawView"}, NEW id \in Listed,
           RequestsOK(requests, lastRequest), S!Request(kind, id)
    PROVE  /\ RequestsOK(requests', lastRequest')
           /\ lastRequest' = lastRequest + 1 /\ lastRequest \in Nat
           /\ \A q \in requests' : \/ q \in requests /\ q.request <= lastRequest
                                   \/ /\ q.kind = kind /\ q.id = id
                                      /\ q.request = lastRequest + 1
<1> DEFINE new == [kind |-> kind, request |-> lastRequest + 1, id |-> id]
           K == {"preview", "rawPane", "rawView"}
<1>1. lastRequest \in Nat /\ lastRequest' = lastRequest + 1 /\ requests' = requests \cup {new}
  BY DEF S!Request, RequestsOK
<1>2. \A q \in requests : q \in [kind : K, request : 1 .. lastRequest, id : Listed]
  BY DEF RequestsOK
<1>3. new \in [kind : K, request : 1 .. lastRequest + 1, id : Listed]
  BY <1>1
<1>4. \A q \in requests : /\ q \in [kind : K, request : 1 .. lastRequest + 1, id : Listed]
                          /\ q.request <= lastRequest
  BY <1>1, <1>2
<1>5. new.kind = kind /\ new.id = id /\ new.request = lastRequest + 1
  OBVIOUS
<1> HIDE DEF new
<1> QED BY <1>1, <1>3, <1>4, <1>5 DEF RequestsOK

\* More numbers given out do no harm.
LEMMA PaneGrows ==
    ASSUME NEW p, NEW n \in Nat, PaneOK(p, n)
    PROVE  PaneOK(p, n + 1)
BY GivenFacts DEF PaneOK

\* load_preview: what it leaves is a pane that shows the message or waits
\* for it, and a slot that waits for nothing another message was asked for.
LEMMA LoadsPreview ==
    ASSUME NEW p, NEW r, NEW id \in Shown, NEW m,
           RequestsOK(requests, lastRequest), PaneOK(p, lastRequest),
           SlotOK(r, requests, lastRequest), ViewOK(r, m),
           S!LoadPreview(id, p, r)
    PROVE  /\ RequestsOK(requests', lastRequest')
           /\ PaneOK(pane', lastRequest')
           /\ SlotOK(raw', requests', lastRequest')
           /\ ViewOK(raw', m)
           /\ ~ pane'.loading /\ pane'.preview # S!None => pane'.preview = id
           /\ failed' = FALSE
<1>0. lastRequest \in Nat /\ failed' = FALSE
  BY DEF RequestsOK, S!LoadPreview
<1>1. CASE id = S!None
  <2>1. /\ pane' = S!Blank(p) /\ raw' = S!NoRawPending(r)
        /\ requests' = requests /\ lastRequest' = lastRequest
    BY <1>1 DEF S!LoadPreview, S!NoNewRequest
  <2>2. PaneOK(pane', lastRequest) /\ pane'.preview = S!None
    BY <1>0, <2>1, BlankOK
  <2>3. SlotOK(raw', requests, lastRequest) /\ raw'.content = r.content /\ raw'.asked = r.asked
    BY <1>0, <2>1, NoRawOK
  <2> QED BY <1>0, <2>1, <2>2, <2>3 DEF ViewOK
<1>2. CASE id # S!None /\ p.last = id
  <2>1. /\ pane' = [p EXCEPT !.pending = S!NoRequest, !.loading = FALSE] /\ raw' = r
        /\ requests' = requests /\ lastRequest' = lastRequest
    BY <1>2 DEF S!LoadPreview, S!NoNewRequest
  <2>2. PaneOK(pane', lastRequest) /\ pane'.preview = id
    BY <1>0, <1>2, <2>1, GivenFacts DEF PaneOK
  <2> QED BY <1>0, <2>1, <2>2
<1>3. CASE id # S!None /\ p.last # id
  <2>1. /\ S!Request("preview", id)
        /\ pane' = [p EXCEPT !.loading = TRUE, !.raw = S!None, !.tab = "Text",
                             !.pending = lastRequest + 1]
        /\ raw' = S!NoRawPending(r)
    BY <1>3 DEF S!LoadPreview
  <2>2. /\ RequestsOK(requests', lastRequest') /\ lastRequest' = lastRequest + 1
    BY <1>3, <2>1, RequestOK DEF Shown
  <2>3. PaneOK(pane', lastRequest') /\ pane'.loading = TRUE
    <3>1. PaneOK(p, lastRequest + 1)
      BY <1>0, PaneGrows
    <3> QED BY <1>0, <2>1, <2>2, <3>1, GivenFacts DEF PaneOK, Shown, S!Tabs
  <2>4. /\ SlotOK(raw', requests, lastRequest) /\ raw'.target = S!None
        /\ raw'.content = r.content /\ raw'.asked = r.asked
    BY <1>0, <2>1, NoRawOK
  <2>5. SlotOK(raw', requests', lastRequest')
    <3>1. Given(lastRequest) \subseteq Given(lastRequest + 1) /\ S!None # "FullView"
      BY <1>0, GivenFacts DEF S!None
    <3> QED BY <2>2, <2>4, <3>1 DEF SlotOK
  <2> QED BY <1>0, <2>2, <2>3, <2>4, <2>5 DEF ViewOK
<1> QED BY <1>1, <1>2, <1>3

\* retarget_preview: the same from a blank pane.
LEMMA Retargets ==
    ASSUME NEW id \in Shown, ScreenInv, S!RetargetPreview(id)
    PROVE  /\ RequestsOK(requests', lastRequest')
           /\ PaneOK(pane', lastRequest')
           /\ SlotOK(raw', requests', lastRequest')
           /\ ViewOK(raw', mode)
           /\ ~ pane'.loading /\ pane'.preview # S!None => pane'.preview = id
           /\ failed' = FALSE
<1>1. /\ RequestsOK(requests, lastRequest) /\ lastRequest \in Nat
      /\ PaneOK(S!Blank(pane), lastRequest)
      /\ SlotOK(S!NoRawPending(raw), requests, lastRequest)
      /\ ViewOK(S!NoRawPending(raw), mode)
  <2>1. lastRequest \in Nat /\ RequestsOK(requests, lastRequest)
    BY DEF ScreenInv, RequestsOK
  <2>2. PaneOK(S!Blank(pane), lastRequest)
    BY <2>1, BlankOK DEF ScreenInv
  <2>3. /\ SlotOK(S!NoRawPending(raw), requests, lastRequest)
        /\ S!NoRawPending(raw).content = raw.content
        /\ S!NoRawPending(raw).asked = raw.asked
    BY <2>1, NoRawOK DEF ScreenInv
  <2> QED BY <2>1, <2>2, <2>3 DEF ScreenInv, ViewOK
<1>2. S!LoadPreview(id, S!Blank(pane), S!NoRawPending(raw))
  BY DEF S!RetargetPreview
<1> QED BY <1>1, <1>2, LoadsPreview

-----------------------------------------------------------------------------
(* Every step keeps the invariant *)

\* The selected message, as the proofs use it.
LEMMA SelectedIs ==
    ASSUME ScreenInv
    PROVE  /\ S!SelectedId = S!IdAt(list, selected)
           /\ S!SelectedId \in Shown
           /\ S!SelectedId # S!None => S!SelectedId \in Listed
<1>1. list \in S!Lists /\ selected \in Nat
  BY DEF ScreenInv, RowsOK
<1>2. S!IdAt(list, selected) \in Listed \cup {S!None}
  BY <1>1, IdAtIs
<1> QED BY <1>2 DEF S!SelectedId, Shown

\* A step that leaves the rows, the requests, the panes and the views alone.
LEMMA FlagsOnly ==
    ASSUME ScreenInv,
           UNCHANGED <<list, selected, pane, raw, requests, lastRequest>>,
           FlagsOK(loading', viewChanged', mode', focus', changes', failed'),
           mode' = mode \/ raw.content = S!None,
           ~ loading' /\ ~ failed' => ~ loading /\ ~ failed
    PROVE  ScreenInv'
<1>1. RowsOK(list', selected') /\ RequestsOK(requests', lastRequest')
      /\ PaneOK(pane', lastRequest') /\ SlotOK(raw', requests', lastRequest')
  BY DEF ScreenInv
<1>2. ViewOK(raw', mode')
  BY DEF ScreenInv, ViewOK
<1>3. ShownOK(pane', list', selected', loading', failed')
  BY DEF ScreenInv, ShownOK
<1> QED BY <1>1, <1>2, <1>3 DEF ScreenInv

\* restore_selection, for any new list.
LEMMA RestoresSelection ==
    ASSUME ScreenInv, NEW new \in S!Lists, S!RestoreSelection(new), S!Changing,
           UNCHANGED <<loading, viewChanged, mode, focus>>
    PROVE  ScreenInv'
<1> DEFINE index == S!ResolveSelection(list, selected, new)
           id == S!IdAt(new, index)
<1>1. list \in Seq(Listed) /\ list \in S!Lists /\ selected \in Nat
  BY ListIs DEF ScreenInv, RowsOK
<1>2. index \in Nat /\ (new # << >> => index < Len(new))
  BY <1>1, Resolves
<1>3. list' = new /\ selected' = index
  BY DEF S!RestoreSelection
<1>4. RowsOK(list', selected')
  BY <1>2, <1>3 DEF RowsOK
<1>5. id \in Shown
  BY <1>2, IdAtIs DEF Shown
<1>6. changes' \in Nat /\ changes \in Nat
  BY DEF S!Changing, ScreenInv, FlagsOK
<1> HIDE DEF index
<1>7. CASE id # S!SelectedId /\ ~ loading
  <2>1. S!RetargetPreview(id)
    BY <1>7 DEF S!RestoreSelection, index
  <2>2. /\ RequestsOK(requests', lastRequest') /\ PaneOK(pane', lastRequest')
        /\ SlotOK(raw', requests', lastRequest') /\ ViewOK(raw', mode)
        /\ ~ pane'.loading /\ pane'.preview # S!None => pane'.preview = id
        /\ failed' = FALSE
    BY <1>5, <2>1, Retargets
  <2>3. ShownOK(pane', list', selected', loading', failed')
    BY <1>3, <2>2 DEF ShownOK
  <2>4. FlagsOK(loading', viewChanged', mode', focus', changes', failed')
    BY <1>6, <2>2 DEF FlagsOK, ScreenInv
  <2> QED BY <1>4, <2>2, <2>3, <2>4 DEF ScreenInv
<1>8. CASE ~(id # S!SelectedId /\ ~ loading)
  <2>1. UNCHANGED <<pane, raw, failed, requests, lastRequest>>
    BY <1>8 DEF S!RestoreSelection, index, S!NoNewRequest
  <2>2. ShownOK(pane', list', selected', loading', failed')
    BY <1>3, <1>8, <2>1, SelectedIs DEF ShownOK, ScreenInv
  <2>3. FlagsOK(loading', viewChanged', mode', focus', changes', failed')
    BY <1>6, <2>1 DEF FlagsOK, ScreenInv
  <2>4. /\ RequestsOK(requests', lastRequest') /\ PaneOK(pane', lastRequest')
        /\ SlotOK(raw', requests', lastRequest') /\ ViewOK(raw', mode')
    BY <2>1 DEF ScreenInv
  <2> QED BY <1>4, <2>2, <2>3, <2>4 DEF ScreenInv
<1> QED BY <1>7, <1>8

LEMMA LiveChangeKeeps ==
    ASSUME ScreenInv, S!LiveChange PROVE ScreenInv'
<1>1. list \in S!Lists
  BY DEF ScreenInv, RowsOK
<1>2. PICK new \in S!Lists : S!RestoreSelection(new)
  <2>1. CASE \E id \in Listed : /\ \A i \in DOMAIN list : list[i] # id
                                /\ S!RestoreSelection(S!Arrived(id))
    BY <1>1, <2>1, ArrivedIsList
  <2>2. CASE \E id \in Listed : /\ \E i \in DOMAIN list : list[i] = id
                                /\ S!RestoreSelection(S!Without(id))
    BY <1>1, <2>2, WithoutIsList
  <2>3. CASE S!RestoreSelection(<< >>)
    BY <2>3, EmptyIsList
  <2> QED BY <2>1, <2>2, <2>3 DEF S!LiveChange
<1>3. S!Changing /\ UNCHANGED <<loading, viewChanged, mode, focus>>
  BY DEF S!LiveChange, S!ui
<1> QED BY <1>2, <1>3, RestoresSelection

\* handle_messages_fetched.
LEMMA FetchLandsKeeps ==
    ASSUME ScreenInv, NEW new \in S!Lists, S!FetchLands(new) PROVE ScreenInv'
<1> DEFINE ids == IF ~ viewChanged THEN list
                  ELSE IF S!SelectedId = S!None THEN << >> ELSE <<S!SelectedId>>
           anchor == IF viewChanged THEN 0 ELSE selected
           index == S!ResolveSelection(ids, anchor, new)
           id == S!IdAt(new, index)
<1>1. list \in Seq(Listed) /\ selected \in Nat
  BY ListIs DEF ScreenInv, RowsOK
<1>2. ids \in Seq(Listed) /\ anchor \in Nat
  <2>1. S!SelectedId # S!None => <<S!SelectedId>> \in Seq(Listed)
    BY SelectedIs
  <2> QED BY <1>1, <2>1
<1>3. /\ list' = new /\ selected' = index /\ loading' = FALSE /\ viewChanged' = FALSE
      /\ UNCHANGED <<mode, focus, changes>>
      /\ IF id # S!IdAt(ids, anchor) \/ pane.last # id
         THEN S!RetargetPreview(id)
         ELSE UNCHANGED <<pane, raw, failed>> /\ S!NoNewRequest
  BY DEF S!FetchLands, S!ui
<1> HIDE DEF ids, anchor
<1>4. index \in Nat /\ (new # << >> => index < Len(new))
  BY <1>2, Resolves
<1> HIDE DEF index
<1>5. RowsOK(list', selected')
  BY <1>3, <1>4 DEF RowsOK
<1>6. id \in Shown
  BY <1>4, IdAtIs DEF Shown
<1>7. CASE id # S!IdAt(ids, anchor) \/ pane.last # id
  <2>1. /\ RequestsOK(requests', lastRequest') /\ PaneOK(pane', lastRequest')
        /\ SlotOK(raw', requests', lastRequest') /\ ViewOK(raw', mode)
        /\ ~ pane'.loading /\ pane'.preview # S!None => pane'.preview = id
        /\ failed' = FALSE
    BY <1>3, <1>6, <1>7, Retargets
  <2>2. ShownOK(pane', list', selected', loading', failed')
    BY <1>3, <2>1 DEF ShownOK
  <2>3. FlagsOK(loading', viewChanged', mode', focus', changes', failed')
    BY <1>3, <2>1 DEF FlagsOK, ScreenInv
  <2> QED BY <1>3, <1>5, <2>1, <2>2, <2>3 DEF ScreenInv
<1>8. CASE ~(id # S!IdAt(ids, anchor) \/ pane.last # id)
  <2>1. UNCHANGED <<pane, raw, failed, requests, lastRequest>>
    BY <1>3, <1>8 DEF S!NoNewRequest
  <2>2. pane.preview = id
    BY <1>8 DEF ScreenInv, PaneOK
  <2>3. ShownOK(pane', list', selected', loading', failed')
    BY <1>3, <2>1, <2>2 DEF ShownOK
  <2>4. FlagsOK(loading', viewChanged', mode', focus', changes', failed')
    BY <1>3, <2>1 DEF FlagsOK, ScreenInv
  <2>5. /\ RequestsOK(requests', lastRequest') /\ PaneOK(pane', lastRequest')
        /\ SlotOK(raw', requests', lastRequest') /\ ViewOK(raw', mode')
    BY <1>3, <2>1 DEF ScreenInv
  <2> QED BY <1>5, <2>3, <2>4, <2>5 DEF ScreenInv
<1> QED BY <1>7, <1>8

\* select_message and load_preview.
LEMMA SelectKeeps ==
    ASSUME ScreenInv, NEW index \in Nat, S!Select(index), UNCHANGED mode,
           focus' \in {"List", "Preview"}
    PROVE  ScreenInv'
<1>1. /\ index < Len(list) /\ selected' = index
      /\ S!LoadPreview(list[index + 1], pane, raw)
      /\ UNCHANGED <<list, loading, viewChanged, changes>>
  BY DEF S!Select
<1>2. list \in S!Lists
  BY DEF ScreenInv, RowsOK
<1>3. RowsOK(list', selected') /\ S!IdAt(list', selected') = list[index + 1]
  BY <1>1, <1>2 DEF RowsOK, S!IdAt
<1>4. list[index + 1] \in Shown
  BY <1>1, <1>2, IdAtIs DEF Shown, S!IdAt
<1>5. /\ RequestsOK(requests', lastRequest') /\ PaneOK(pane', lastRequest')
      /\ SlotOK(raw', requests', lastRequest') /\ ViewOK(raw', mode)
      /\ ~ pane'.loading /\ pane'.preview # S!None => pane'.preview = list[index + 1]
      /\ failed' = FALSE
  BY <1>1, <1>4, LoadsPreview DEF ScreenInv
<1>6. ShownOK(pane', list', selected', loading', failed')
  BY <1>3, <1>5 DEF ShownOK
<1>7. FlagsOK(loading', viewChanged', mode', focus', changes', failed')
  BY <1>1, <1>5 DEF FlagsOK, ScreenInv
<1> QED BY <1>3, <1>5, <1>6, <1>7 DEF ScreenInv

\* A message that is answered is one of those asked for.
LEMMA RequestIs ==
    ASSUME ScreenInv, NEW q \in requests
    PROVE  q.id \in Listed /\ q.kind \in {"preview", "rawPane", "rawView"}
           /\ RequestsOK(requests \ {q}, lastRequest)
           /\ SlotOK(raw, requests \ {q}, lastRequest)
<1>1. q \in [kind : {"preview", "rawPane", "rawView"}, request : 1 .. lastRequest, id : Listed]
  BY DEF ScreenInv, RequestsOK
<1>2. RequestsOK(requests \ {q}, lastRequest)
  BY DEF ScreenInv, RequestsOK
<1>3. SlotOK(raw, requests \ {q}, lastRequest)
  BY DEF ScreenInv, SlotOK
<1> QED BY <1>1, <1>2, <1>3

\* handle_preview_loaded.
LEMMA PreviewLoadedKeeps ==
    ASSUME ScreenInv, NEW q \in requests, NEW ok \in BOOLEAN, S!HandlePreviewLoaded(q, ok)
    PROVE  ScreenInv'
<1>1. /\ requests' = requests \ {q}
      /\ UNCHANGED <<list, selected, loading, viewChanged, raw, mode, focus, lastRequest, changes>>
  BY DEF S!HandlePreviewLoaded, S!ui
<1>2. RequestsOK(requests', lastRequest') /\ SlotOK(raw', requests', lastRequest')
      /\ ViewOK(raw', mode') /\ RowsOK(list', selected')
  BY <1>1, RequestIs DEF ScreenInv
<1>3. CASE pane.pending # q.request \/ S!SelectedId # q.id
  <2>1. UNCHANGED <<pane, failed>>
    BY <1>3 DEF S!HandlePreviewLoaded
  <2>2. PaneOK(pane', lastRequest') /\ ShownOK(pane', list', selected', loading', failed')
        /\ FlagsOK(loading', viewChanged', mode', focus', changes', failed')
    BY <1>1, <2>1 DEF ScreenInv
  <2> QED BY <1>2, <2>2 DEF ScreenInv
<1>4. CASE ~(pane.pending # q.request \/ S!SelectedId # q.id)
  <2>1. /\ pane' = [pane EXCEPT !.pending = S!NoRequest, !.loading = FALSE,
                                !.last = IF ok THEN q.id ELSE @,
                                !.preview = IF ok THEN q.id ELSE @]
        /\ failed' = ~ ok
    BY <1>4 DEF S!HandlePreviewLoaded
  <2>2. q.id \in Shown /\ lastRequest \in Nat
    BY RequestIs DEF Shown, ScreenInv, RequestsOK
  <2>3. PaneOK(pane', lastRequest') /\ (ok => pane'.preview = q.id)
    <3>1. CASE ok
      BY <1>1, <2>1, <2>2, <3>1, GivenFacts DEF ScreenInv, PaneOK
    <3>2. CASE ~ ok
      BY <1>1, <2>1, <2>2, <3>2, GivenFacts DEF ScreenInv, PaneOK
    <3> QED BY <3>1, <3>2
  <2>4. ShownOK(pane', list', selected', loading', failed')
    BY <1>1, <1>4, <2>1, <2>3, SelectedIs DEF ShownOK
  <2>5. FlagsOK(loading', viewChanged', mode', focus', changes', failed')
    <3>1. failed' \in BOOLEAN
      BY <2>1
    <3> QED BY <1>1, <3>1 DEF FlagsOK, ScreenInv
  <2> QED BY <1>2, <2>3, <2>4, <2>5 DEF ScreenInv
<1> QED BY <1>3, <1>4

\* handle_raw_loaded.
LEMMA RawLoadedKeeps ==
    ASSUME ScreenInv, NEW q \in requests, NEW ok \in BOOLEAN, S!HandleRawLoaded(q, ok)
    PROVE  ScreenInv'
<1> DEFINE inPane == q.kind = "rawPane"
           wanted == /\ raw.target = IF inPane THEN "Preview" ELSE "FullView"
                     /\ raw.request = q.request
                     /\ inPane => S!SelectedId = q.id
           shown == wanted /\ ok
<1>1. /\ requests' = requests \ {q} /\ q.kind \in {"rawPane", "rawView"}
      /\ UNCHANGED <<list, selected, loading, viewChanged, focus, lastRequest, changes, failed>>
      /\ raw' = IF ~ wanted THEN raw
                ELSE [S!NoRawPending(raw) EXCEPT
                        !.content = IF ok /\ ~ inPane THEN q.id ELSE @]
      /\ pane' = IF shown /\ inPane THEN [pane EXCEPT !.raw = q.id] ELSE pane
      /\ mode' = IF shown /\ ~ inPane THEN "RawView" ELSE mode
  BY DEF S!HandleRawLoaded
<1>2. /\ q.id \in Shown /\ lastRequest \in Nat
      /\ RequestsOK(requests', lastRequest') /\ SlotOK(raw, requests', lastRequest')
      /\ RowsOK(list', selected')
  BY <1>1, RequestIs DEF ScreenInv, RequestsOK, Shown
<1>3. wanted /\ ~ inPane => q.id = raw.asked
  BY <1>1 DEF ScreenInv, SlotOK
<1> HIDE DEF wanted
<1>4. PaneOK(pane', lastRequest') /\ ShownOK(pane', list', selected', loading', failed')
  <2>1. CASE shown /\ inPane
    <3>1. pane' = [pane EXCEPT !.raw = q.id]
      BY <1>1, <2>1
    <3>2. PaneOK(pane', lastRequest') /\ pane'.preview = pane.preview /\ pane'.loading = pane.loading
      BY <1>1, <1>2, <3>1 DEF ScreenInv, PaneOK
    <3> QED BY <1>1, <3>2 DEF ScreenInv, ShownOK
  <2>2. CASE ~(shown /\ inPane)
    BY <1>1, <2>2 DEF ScreenInv
  <2> QED BY <2>1, <2>2
<1>5. mode' \in S!Modes
  BY <1>1 DEF ScreenInv, FlagsOK, S!Modes
<1>6. FlagsOK(loading', viewChanged', mode', focus', changes', failed')
  BY <1>1, <1>5 DEF FlagsOK, ScreenInv
<1>7. SlotOK(raw', requests', lastRequest') /\ ViewOK(raw', mode')
  <2>1. CASE ~ wanted
    <3>1. raw' = raw /\ mode' = mode
      BY <1>1, <2>1
    <3> QED BY <1>2, <3>1 DEF ScreenInv
  <2>2. CASE wanted /\ ok /\ ~ inPane
    <3> DEFINE r == S!NoRawPending(raw)
    <3>1. SlotOK(r, requests', lastRequest') /\ r.target = S!None /\ r.asked = raw.asked
      BY <1>1, <1>2, NoRawOK
    <3>2. raw' = [r EXCEPT !.content = q.id] /\ mode' = "RawView"
      BY <1>1, <2>2
    <3> HIDE DEF r
    <3>3. /\ raw' \in [target : {S!None, "Preview", "FullView"}, request : Given(lastRequest'),
                       content : Shown, asked : Shown]
          /\ raw'.target = S!None /\ raw'.content = q.id /\ raw'.asked = raw.asked
      BY <1>2, <3>1, <3>2 DEF SlotOK
    <3>4. S!None # "FullView"
      BY DEF S!None
    <3> QED BY <1>3, <2>2, <3>2, <3>3, <3>4 DEF SlotOK, ViewOK
  <2>3. CASE wanted /\ ~(ok /\ ~ inPane)
    <3> DEFINE r == S!NoRawPending(raw)
    <3>1. /\ SlotOK(r, requests', lastRequest')
          /\ r.content = raw.content /\ r.asked = raw.asked
      BY <1>1, <1>2, NoRawOK
    <3>2. raw' = [r EXCEPT !.content = @] /\ mode' = mode
      BY <1>1, <2>3
    <3> HIDE DEF r
    <3>3. raw' = r
      BY <3>1, <3>2 DEF SlotOK
    <3> QED BY <3>1, <3>2, <3>3 DEF ScreenInv, ViewOK
  <2> QED BY <2>1, <2>2, <2>3
<1> QED BY <1>2, <1>4, <1>6, <1>7 DEF ScreenInv

\* A tab of the pane.
LEMMA TabOK ==
    ASSUME ScreenInv, NEW t \in S!Tabs, pane' = [pane EXCEPT !.tab = t],
           UNCHANGED <<list, selected, loading, failed>>
    PROVE  PaneOK(pane', lastRequest) /\ ShownOK(pane', list', selected', loading', failed')
<1>1. PaneOK(pane', lastRequest) /\ pane'.preview = pane.preview /\ pane'.loading = pane.loading
  BY DEF ScreenInv, PaneOK
<1> QED BY <1>1 DEF ScreenInv, ShownOK

\* The raw tab: ensure_raw_loaded.
LEMMA RawTabKeeps == ASSUME ScreenInv, S!RawTab PROVE ScreenInv'
<1>1. /\ focus' = "Preview" /\ pane' = [pane EXCEPT !.tab = "Raw"]
      /\ UNCHANGED <<list, selected, loading, viewChanged, mode, changes, failed>>
  BY DEF S!RawTab
<1>2. PaneOK(pane', lastRequest) /\ ShownOK(pane', list', selected', loading', failed')
  BY <1>1, TabOK DEF S!Tabs
<1>3. FlagsOK(loading', viewChanged', mode', focus', changes', failed') /\ RowsOK(list', selected')
  BY <1>1 DEF ScreenInv, FlagsOK
<1>4. CASE UNCHANGED <<raw, requests, lastRequest>>
  <2>1. /\ RequestsOK(requests', lastRequest') /\ PaneOK(pane', lastRequest')
        /\ SlotOK(raw', requests', lastRequest') /\ ViewOK(raw', mode')
    BY <1>1, <1>2, <1>4 DEF ScreenInv
  <2> QED BY <1>2, <1>3, <2>1 DEF ScreenInv
<1>5. CASE /\ S!SelectedId # S!None
           /\ S!Request("rawPane", S!SelectedId)
           /\ raw' = [raw EXCEPT !.target = "Preview", !.request = lastRequest + 1]
  <2>1. RequestsOK(requests', lastRequest') /\ lastRequest' = lastRequest + 1 /\ lastRequest \in Nat
    BY <1>5, SelectedIs, RequestOK DEF ScreenInv
  <2>2. PaneOK(pane', lastRequest')
    BY <1>2, <2>1, PaneGrows
  <2>3. /\ raw' \in [target : {S!None, "Preview", "FullView"}, request : Given(lastRequest + 1),
                     content : Shown, asked : Shown]
        /\ raw'.target = "Preview" /\ raw'.content = raw.content /\ raw'.asked = raw.asked
    BY <1>5, <2>1, GivenFacts DEF ScreenInv, SlotOK
  <2>4. SlotOK(raw', requests', lastRequest') /\ ViewOK(raw', mode')
    BY <1>1, <2>1, <2>3 DEF SlotOK, ViewOK, ScreenInv
  <2> QED BY <1>2, <1>3, <2>1, <2>2, <2>4 DEF ScreenInv
<1> QED BY <1>4, <1>5 DEF S!RawTab, S!NoNewRequest

\* show_raw: the number of its request is new, so no earlier answer fits.
LEMMA ShowRawKeeps == ASSUME ScreenInv, S!ShowRaw PROVE ScreenInv'
<1>1. /\ mode = "Normal" /\ S!SelectedId # S!None /\ S!Request("rawView", S!SelectedId)
      /\ raw' = [raw EXCEPT !.target = "FullView", !.request = lastRequest + 1,
                            !.asked = S!SelectedId]
      /\ UNCHANGED <<list, selected, loading, viewChanged, pane, mode, focus, changes, failed>>
  BY DEF S!ShowRaw, S!ui
<1>2. /\ RequestsOK(requests', lastRequest') /\ lastRequest' = lastRequest + 1 /\ lastRequest \in Nat
      /\ \A q \in requests' : \/ q \in requests /\ q.request <= lastRequest
                              \/ /\ q.kind = "rawView" /\ q.id = S!SelectedId
                                 /\ q.request = lastRequest + 1
  BY <1>1, SelectedIs, RequestOK DEF ScreenInv
<1>3. PaneOK(pane', lastRequest')
  BY <1>1, <1>2, PaneGrows DEF ScreenInv
<1>4. /\ raw' \in [target : {S!None, "Preview", "FullView"}, request : Given(lastRequest + 1),
                   content : Shown, asked : Shown]
      /\ raw'.request = lastRequest + 1 /\ raw'.content = raw.content
      /\ raw'.asked = S!SelectedId
  BY <1>1, <1>2, SelectedIs, GivenFacts DEF ScreenInv, SlotOK
<1>5. \A q \in requests' : q.request = raw'.request => q.id = raw'.asked
  BY <1>2, <1>4
<1>6. SlotOK(raw', requests', lastRequest')
  BY <1>2, <1>4, <1>5 DEF SlotOK
<1>7. ViewOK(raw', mode')
  BY <1>1, <1>4 DEF ScreenInv, ViewOK
<1>8. /\ RowsOK(list', selected') /\ ShownOK(pane', list', selected', loading', failed')
      /\ FlagsOK(loading', viewChanged', mode', focus', changes', failed')
  BY <1>1 DEF ScreenInv
<1> QED BY <1>2, <1>3, <1>6, <1>7, <1>8 DEF ScreenInv

LEMMA TabKeeps == ASSUME ScreenInv, NEW t \in S!Tabs, S!Tab(t) PROVE ScreenInv'
<1>1. /\ focus' = "Preview" /\ pane' = [pane EXCEPT !.tab = t]
      /\ UNCHANGED <<list, selected, loading, viewChanged, raw, mode, requests, lastRequest,
                     changes, failed>>
  BY DEF S!Tab
<1>2. PaneOK(pane', lastRequest) /\ ShownOK(pane', list', selected', loading', failed')
  BY <1>1, TabOK
<1>3. FlagsOK(loading', viewChanged', mode', focus', changes', failed')
  BY <1>1 DEF ScreenInv, FlagsOK
<1>4. /\ RowsOK(list', selected') /\ RequestsOK(requests', lastRequest')
      /\ SlotOK(raw', requests', lastRequest') /\ ViewOK(raw', mode')
      /\ PaneOK(pane', lastRequest')
  BY <1>1, <1>2 DEF ScreenInv
<1> QED BY <1>2, <1>3, <1>4 DEF ScreenInv

\* Leaving a dialog or the raw view, which forgets its text.
LEMMA LeaveKeeps == ASSUME ScreenInv, S!Leave PROVE ScreenInv'
<1>1. /\ mode # "Normal" /\ mode' = "Normal"
      /\ raw' = IF mode = "RawView" THEN [raw EXCEPT !.content = S!None] ELSE raw
      /\ UNCHANGED <<list, selected, loading, viewChanged, pane, focus, requests, lastRequest,
                     changes, failed>>
  BY DEF S!Leave
<1>2. SlotOK(raw', requests', lastRequest') /\ ViewOK(raw', mode')
  <2>1. CASE mode = "RawView"
    <3>1. /\ raw' \in [target : {S!None, "Preview", "FullView"}, request : Given(lastRequest),
                       content : Shown, asked : Shown]
          /\ raw'.content = S!None /\ raw'.request = raw.request /\ raw'.target = raw.target
          /\ raw'.asked = raw.asked
      BY <1>1, <2>1 DEF ScreenInv, SlotOK, Shown
    <3> QED BY <1>1, <3>1 DEF ScreenInv, SlotOK, ViewOK
  <2>2. CASE mode # "RawView"
    BY <1>1, <2>2 DEF ScreenInv, ViewOK
  <2> QED BY <2>1, <2>2
<1>3. FlagsOK(loading', viewChanged', mode', focus', changes', failed')
  BY <1>1 DEF ScreenInv, FlagsOK, S!Modes
<1>4. /\ RowsOK(list', selected') /\ RequestsOK(requests', lastRequest')
      /\ PaneOK(pane', lastRequest') /\ ShownOK(pane', list', selected', loading', failed')
  BY <1>1 DEF ScreenInv
<1> QED BY <1>2, <1>3, <1>4 DEF ScreenInv

\* Every step of the screen.
LEMMA ScreenNext == ASSUME ScreenInv, S!Next PROVE ScreenInv'
<1>1. ASSUME S!Answer PROVE ScreenInv'
  BY <1>1, PreviewLoadedKeeps, RawLoadedKeeps DEF S!Answer
<1>2. ASSUME NEW q \in requests, S!HandlePreviewLoaded(q, FALSE) \/ S!HandleRawLoaded(q, FALSE)
      PROVE  ScreenInv'
  BY <1>2, PreviewLoadedKeeps, RawLoadedKeeps
<1>3. ASSUME S!Land PROVE ScreenInv'
  BY <1>3, FetchLandsKeeps DEF S!Land
<1>4. ASSUME S!FetchFailed PROVE ScreenInv'
  <2>1. FlagsOK(loading', viewChanged', mode', focus', changes', failed')
    BY <1>4 DEF S!FetchFailed, S!ui, ScreenInv, FlagsOK
  <2> QED BY <1>4, <2>1, FlagsOnly DEF S!FetchFailed, S!ui
<1>5. ASSUME S!LiveChange PROVE ScreenInv'
  BY <1>5, LiveChangeKeeps
<1>6. ASSUME S!FetchBegins PROVE ScreenInv'
  <2>1. FlagsOK(loading', viewChanged', mode', focus', changes', failed')
    BY <1>6 DEF S!FetchBegins, S!Changing, S!ui, ScreenInv, FlagsOK
  <2> QED BY <1>6, <2>1, FlagsOnly DEF S!FetchBegins, S!ui
<1>7. ASSUME S!SelectByKey PROVE ScreenInv'
  <2>1. list \in S!Lists /\ selected \in Nat /\ Len(list) \in Nat
    BY ListIs DEF ScreenInv, RowsOK
  <2>2. PICK index \in {selected + 1, selected - 1, 0, Len(list) - 1} :
          index >= 0 /\ S!Select(index)
    BY <1>7 DEF S!SelectByKey
  <2>3. index \in Nat
    BY <2>1, <2>2
  <2>4. UNCHANGED <<mode, focus>> /\ focus \in {"List", "Preview"}
    BY <1>7 DEF S!SelectByKey, S!ui, ScreenInv, FlagsOK
  <2> QED BY <2>2, <2>3, <2>4, SelectKeeps
<1>8. ASSUME NEW index \in 0 .. ListSize - 1, S!Click(index) PROVE ScreenInv'
  BY <1>8, SelectKeeps DEF S!Click
<1>9. ASSUME NEW f \in {"List", "Preview"}, S!Focus(f) PROVE ScreenInv'
  <2>1. FlagsOK(loading', viewChanged', mode', focus', changes', failed')
    BY <1>9 DEF S!Focus, ScreenInv, FlagsOK
  <2> QED BY <1>9, <2>1, FlagsOnly DEF S!Focus
<1>10. ASSUME S!RawTab PROVE ScreenInv'
  BY <1>10, RawTabKeeps
<1>11. ASSUME NEW t \in S!Tabs, S!Tab(t) PROVE ScreenInv'
  BY <1>11, TabKeeps
<1>12. ASSUME S!ShowRaw PROVE ScreenInv'
  BY <1>12, ShowRawKeeps
<1>13. ASSUME NEW m \in S!Modes, S!Dialog(m) PROVE ScreenInv'
  <2>1. FlagsOK(loading', viewChanged', mode', focus', changes', failed')
    BY <1>13 DEF S!Dialog, ScreenInv, FlagsOK
  <2>2. raw.content = S!None
    BY <1>13 DEF S!Dialog, ScreenInv, ViewOK
  <2> QED BY <1>13, <2>1, <2>2, FlagsOnly DEF S!Dialog
<1>14. ASSUME S!Leave PROVE ScreenInv'
  BY <1>14, LeaveKeeps
<1>15. ASSUME S!ChangeView PROVE ScreenInv'
  <2>1. FlagsOK(loading', viewChanged', mode', focus', changes', failed')
    BY <1>15 DEF S!ChangeView, S!Changing, ScreenInv, FlagsOK, S!Modes
  <2>2. raw.content = S!None
    BY <1>15 DEF S!ChangeView, ScreenInv, ViewOK
  <2> QED BY <1>15, <2>1, <2>2, FlagsOnly DEF S!ChangeView
<1> QED
  BY <1>1, <1>2, <1>3, <1>4, <1>5, <1>6, <1>7, <1>8, <1>9, <1>10, <1>11, <1>12, <1>13, <1>14,
     <1>15
  DEF S!Next

\* A step of another part leaves the screen alone.
LEMMA ScreenStays == ASSUME ScreenInv, UNCHANGED screenVars PROVE ScreenInv'
<1>1. UNCHANGED <<list, selected, loading, viewChanged, pane, raw, mode, focus, requests,
                  lastRequest, changes, failed>>
  BY DEF screenVars
<1> QED BY <1>1 DEF ScreenInv

\* One step of the composition is one of the screen or leaves it alone.
LEMMA ScreenSteps ==
    ASSUME [TerminalNext]_terminalVars PROVE S!Next \/ UNCHANGED screenVars
BY DEF TerminalNext, terminalVars

\* Whatever the order in which answers arrive, fail and the list changes, the
\* cursor is on a row whenever there is one, the pane shows the selected
\* message or waits for it unless its request has just failed, and the raw
\* view shows the message it was last asked for, never an earlier one
\* answered late.
THEOREM PanesAreAlwaysRight == TerminalSpec => []PanesAreRight
<1>1. TerminalInit => ScreenInv
  BY ScreenInit DEF TerminalInit, Begin
<1>2. ScreenInv /\ [TerminalNext]_terminalVars => ScreenInv'
  BY ScreenNext, ScreenStays, ScreenSteps
<1>3. ScreenInv => PanesAreRight
  BY ScreenInvShows
<1> QED BY <1>1, <1>2, <1>3, PTL DEF TerminalSpec

-----------------------------------------------------------------------------
(* The cursor and its message *)

\* While the list changes, the selected message keeps the cursor if it is
\* still listed.
LEMMA CursorStep ==
    ASSUME ScreenInv, S!Next,
           list' # list, S!SelectedId # S!None,
           NEW j \in DOMAIN list', list'[j] = S!SelectedId
    PROVE  S!IdAt(list', selected') = S!SelectedId
<1>1. /\ list \in Seq(Listed) /\ list \in S!Lists /\ selected \in Nat /\ Len(list) \in Nat
      /\ S!SelectedId = S!IdAt(list, selected) /\ S!SelectedId \in Listed
  BY ListIs, SelectedIs DEF ScreenInv, RowsOK
<1>2. selected < Len(list) /\ list[selected + 1] = S!SelectedId
  BY <1>1, IdAtIs DEF S!IdAt
<1>3. ASSUME NEW new \in S!Lists, S!RestoreSelection(new) PROVE S!IdAt(list', selected') = S!SelectedId
  <2>1. list' = new /\ selected' = S!ResolveSelection(list, selected, new)
    BY <1>3 DEF S!RestoreSelection
  <2>2. \A i \in DOMAIN new : new[i] = list[selected + 1]
          => S!IdAt(new, S!ResolveSelection(list, selected, new)) = new[i]
    BY <1>1, <1>2, Resolves
  <2> QED BY <1>2, <2>1, <2>2
<1>4. CASE S!LiveChange
  <2>1. CASE \E id \in Listed : /\ \A i \in DOMAIN list : list[i] # id
                                /\ S!RestoreSelection(S!Arrived(id))
    BY <1>1, <1>3, <2>1, ArrivedIsList
  <2>2. CASE \E id \in Listed : /\ \E i \in DOMAIN list : list[i] = id
                                /\ S!RestoreSelection(S!Without(id))
    BY <1>1, <1>3, <2>2, WithoutIsList
  <2>3. CASE S!RestoreSelection(<< >>)
    BY <1>3, <2>3, EmptyIsList
  <2> QED BY <1>4, <2>1, <2>2, <2>3 DEF S!LiveChange
<1>5. CASE S!Land
  <2>1. PICK new \in S!Lists : S!FetchLands(new)
    BY <1>5 DEF S!Land
  <2>2. CASE ~ viewChanged
    <3>1. list' = new /\ selected' = S!ResolveSelection(list, selected, new)
      BY <2>1, <2>2 DEF S!FetchLands
    <3>2. \A i \in DOMAIN new : new[i] = list[selected + 1]
            => S!IdAt(new, S!ResolveSelection(list, selected, new)) = new[i]
      BY <1>1, <1>2, Resolves
    <3> QED BY <1>2, <3>1, <3>2
  <2>3. CASE viewChanged
    <3> DEFINE one == <<S!SelectedId>>
    <3>1. list' = new /\ selected' = S!ResolveSelection(one, 0, new)
      BY <2>1, <2>3 DEF S!FetchLands
    <3>2. one \in Seq(Listed) /\ Len(one) = 1 /\ one[0 + 1] = S!SelectedId /\ 0 \in Nat /\ 0 < Len(one)
      BY <1>1
    <3> HIDE DEF one
    <3>3. \A i \in DOMAIN new : new[i] = one[0 + 1]
            => S!IdAt(new, S!ResolveSelection(one, 0, new)) = new[i]
      BY <3>2, Resolves
    <3> QED BY <3>1, <3>2, <3>3
  <2> QED BY <2>2, <2>3
<1>6. CASE ~ S!LiveChange /\ ~ S!Land
  BY <1>6
  DEF S!Next, S!Answer, S!HandlePreviewLoaded, S!HandleRawLoaded, S!FetchFailed, S!FetchBegins,
      S!SelectByKey, S!Click, S!Select, S!Focus, S!RawTab, S!Tab, S!ShowRaw, S!Dialog, S!Leave,
      S!ChangeView
<1> QED BY <1>4, <1>5, <1>6

\* Whether its row moves, another is deleted, or a search, a page turn or a
\* resync replaces the whole list: the cursor never leaves a message that is
\* still listed.
THEOREM CursorAlwaysStays == TerminalSpec => CursorStays
<1>1. TerminalInit => ScreenInv
  BY ScreenInit DEF TerminalInit, Begin
<1>2. ScreenInv /\ [TerminalNext]_terminalVars => ScreenInv'
  BY ScreenNext, ScreenStays, ScreenSteps
<1>3. ScreenInv /\ [TerminalNext]_terminalVars
        => [list' # list /\ S!SelectedId # S!None
              /\ (\E i \in DOMAIN list' : list'[i] = S!SelectedId)
            => S!SelectedId' = S!SelectedId]_(S!vars)
  <2> SUFFICES ASSUME ScreenInv, [TerminalNext]_terminalVars,
                      list' # list, S!SelectedId # S!None,
                      NEW i \in DOMAIN list', list'[i] = S!SelectedId
               PROVE  S!SelectedId' = S!SelectedId
    OBVIOUS
  <2>1. S!Next
    BY ScreenSteps DEF screenVars
  <2>2. S!IdAt(list', selected') = S!SelectedId
    BY <2>1, CursorStep
  <2> QED BY <2>2 DEF S!SelectedId, S!IdAt
<1> QED BY <1>1, <1>2, <1>3, PTL DEF TerminalSpec, CursorStays, S!CursorStays

-----------------------------------------------------------------------------
(* The feed of the terminal: what the constants are, and sequences *)

\* What the constants of the feed are.
LEMMA FeedConstants ==
    BatchSize \in Nat /\ EventCap \in Nat /\ EventCap > 0 /\ DeltaCap \in Nat /\ RingSize \in Nat
<1>1. FX!FeedAssumption
  BY TerminalAssumption, Zenon
<1> QED
  BY <1>1 DEF FX!FeedAssumption

IsSeq(q) == \E T : q \in Seq(T)

\* What appending does to a sequence, index by index.
LEMMA Appended ==
    ASSUME NEW q, NEW x, IsSeq(q)
    PROVE  /\ IsSeq(Append(q, x)) /\ Len(q) \in Nat
           /\ DOMAIN q = 1 .. Len(q)
           /\ Len(Append(q, x)) = Len(q) + 1
           /\ DOMAIN Append(q, x) = 1 .. Len(q) + 1
           /\ \A i \in DOMAIN q : Append(q, x)[i] = q[i]
           /\ Append(q, x)[Len(q) + 1] = x
<1>1. PICK T : q \in Seq(T)
  BY DEF IsSeq
<1>2. q \in Seq(T \cup {x})
  BY <1>1
<1>3. Append(q, x) \in Seq(T \cup {x})
  BY <1>2
<1>4. IsSeq(Append(q, x))
  BY <1>3 DEF IsSeq
<1> QED BY <1>2, <1>3, <1>4

\* What taking the head does to a sequence, index by index.
LEMMA Taken ==
    ASSUME NEW q, IsSeq(q), q # << >>
    PROVE  /\ IsSeq(Tail(q)) /\ Len(q) \in Nat \ {0}
           /\ DOMAIN q = 1 .. Len(q) /\ 1 \in DOMAIN q
           /\ Len(Tail(q)) = Len(q) - 1 /\ DOMAIN Tail(q) = 1 .. Len(q) - 1
           /\ Head(q) = q[1]
           /\ \A i \in DOMAIN Tail(q) : i + 1 \in DOMAIN q /\ Tail(q)[i] = q[i + 1]
           /\ \A i \in DOMAIN q : i # 1 => i - 1 \in DOMAIN Tail(q) /\ Tail(q)[i - 1] = q[i]
<1>1. PICK T : q \in Seq(T)
  BY DEF IsSeq
<1>2. Tail(q) \in Seq(T) /\ Len(q) \in Nat \ {0}
  BY <1>1
<1>3. IsSeq(Tail(q))
  BY <1>2 DEF IsSeq
<1>4. Len(Tail(q)) = Len(q) - 1 /\ DOMAIN Tail(q) = 1 .. Len(q) - 1 /\ DOMAIN q = 1 .. Len(q)
  BY <1>1, <1>2
<1>5. \A i \in 1 .. Len(q) - 1 : Tail(q)[i] = q[i + 1]
  BY <1>1, <1>2
<1> QED BY <1>1, <1>2, <1>3, <1>4, <1>5

-----------------------------------------------------------------------------
(* Arrivals are announced in the order of their commits *)

Others == {e \in FX!Events : e.kind # "new"}

JobInv(j) ==
    /\ j = [n |-> j.n, kind |-> j.kind, own |-> j.own, pc |-> j.pc,
            events |-> j.events, what |-> j.what]
    /\ j.kind \in {"patched", "deleted", "cleared", "trim"}
    /\ j.pc = "announce" => j.events \in Seq(Others) /\ j.events # << >>

\* What is stored and not yet announced are the newest ids, in order; every
\* arrival in the log is older than they are.
ArrivalInv ==
    /\ spent = [ids |-> spent.ids, writes |-> spent.writes, breaks |-> spent.breaks,
                user |-> spent.user]
    /\ spent.ids \in Nat
    /\ DOMAIN box \subseteq 1 .. spent.ids
    /\ arrivals \in Seq(FX!Events) /\ Len(arrivals) <= spent.ids
    /\ \A i \in DOMAIN arrivals :
          arrivals[i].kind = "new" /\ arrivals[i].id = spent.ids - Len(arrivals) + i
    /\ \A j \in jobs : JobInv(j)
    /\ log \in Seq(FX!Events)
    /\ \A i \in DOMAIN log : log[i].kind = "new" => log[i].id <= spent.ids - Len(arrivals)
    /\ FX!ArrivalsInOrder

\* A step that neither commits an arrival nor announces anything.
LEMMA NothingAnnounced ==
    ASSUME ArrivalInv, UNCHANGED <<arrivals, log>>,
           spent'.ids = spent.ids,
           spent' = [ids |-> spent'.ids, writes |-> spent'.writes, breaks |-> spent'.breaks,
                     user |-> spent'.user],
           DOMAIN box' \subseteq DOMAIN box,
           \A j \in jobs' : JobInv(j)
    PROVE  ArrivalInv'
BY DEF ArrivalInv, FX!ArrivalsInOrder

\* A delivered batch gets ids above all the ids before it.
LEMMA InsertKeepsOrder ==
    ASSUME ArrivalInv, NEW n \in 1 .. BatchSize, BatchSize \in Nat, FX!Insert(n)
    PROVE  ArrivalInv'
<1>1. /\ arrivals = << >> /\ UNCHANGED <<jobs, log>>
      /\ arrivals' = [i \in 1 .. n |-> FX!New(spent.ids + i, FALSE)]
      /\ DOMAIN box' = DOMAIN box \cup (spent.ids + 1 .. spent.ids + n)
      /\ spent' = [spent EXCEPT !.ids = @ + n]
  BY DEF FX!Insert
<1>2. n \in Nat /\ n > 0 /\ spent.ids \in Nat
  BY DEF ArrivalInv
<1>3. /\ spent'.ids = spent.ids + n
      /\ spent' = [ids |-> spent'.ids, writes |-> spent'.writes, breaks |-> spent'.breaks,
                   user |-> spent'.user]
  BY <1>1, <1>2 DEF ArrivalInv
<1>4. /\ arrivals' \in Seq(FX!Events) /\ Len(arrivals') = n /\ DOMAIN arrivals' = 1 .. n
      /\ \A i \in 1 .. n : arrivals'[i].kind = "new" /\ arrivals'[i].id = spent.ids + i
  <2>1. \A i \in 1 .. n : FX!New(spent.ids + i, FALSE) \in FX!Events
    BY <1>2 DEF FX!New, FX!Events
  <2>2. arrivals' \in Seq(FX!Events) /\ Len(arrivals') = n /\ DOMAIN arrivals' = 1 .. n
    <3>1. arrivals' \in [1 .. n -> FX!Events]
      BY <1>1, <2>1
    <3> QED BY <1>2, <3>1
  <2> QED BY <1>1, <2>2 DEF FX!New
<1>5. DOMAIN box' \subseteq 1 .. spent.ids + n
  BY <1>1, <1>2 DEF ArrivalInv
<1>6. \A i \in DOMAIN log : log[i].kind = "new" => log[i].id <= spent.ids
  BY <1>1, <1>2 DEF ArrivalInv
<1>7. /\ FX!ArrivalsInOrder' /\ log' \in Seq(FX!Events) /\ \A j \in jobs' : JobInv(j)
  BY <1>1 DEF ArrivalInv, FX!ArrivalsInOrder
<1>8. spent'.ids \in Nat /\ Len(arrivals') <= spent'.ids /\ spent'.ids - Len(arrivals') = spent.ids
  BY <1>2, <1>3, <1>4
<1>9. /\ DOMAIN box' \subseteq 1 .. spent'.ids
      /\ \A i \in DOMAIN arrivals' :
            arrivals'[i].kind = "new" /\ arrivals'[i].id = spent'.ids - Len(arrivals') + i
      /\ \A i \in DOMAIN log' : log'[i].kind = "new" => log'[i].id <= spent'.ids - Len(arrivals')
  BY <1>1, <1>3, <1>4, <1>5, <1>6, <1>8
<1> QED BY <1>3, <1>4, <1>7, <1>8, <1>9 DEF ArrivalInv

\* The processor announces the oldest arrival, so announcements keep the order.
LEMMA ArrivalKeepsOrder ==
    ASSUME ArrivalInv, FX!AnnounceArrival
    PROVE  ArrivalInv'
<1>1. /\ arrivals # << >> /\ UNCHANGED <<box, jobs, spent>>
      /\ log' = Append(log, Head(arrivals)) /\ arrivals' = Tail(arrivals)
  BY DEF FX!AnnounceArrival
<1>2. /\ Head(arrivals) \in FX!Events /\ Head(arrivals) = arrivals[1] /\ 1 \in DOMAIN arrivals
      /\ Len(arrivals) \in Nat /\ Len(arrivals) > 0 /\ spent.ids \in Nat
      /\ arrivals' \in Seq(FX!Events) /\ Len(arrivals') = Len(arrivals) - 1
      /\ DOMAIN arrivals' = 1 .. Len(arrivals) - 1
      /\ \A i \in DOMAIN arrivals' : i + 1 \in DOMAIN arrivals /\ arrivals'[i] = arrivals[i + 1]
  BY <1>1 DEF ArrivalInv
<1>3. /\ log' \in Seq(FX!Events) /\ Len(log') = Len(log) + 1 /\ DOMAIN log' = 1 .. Len(log) + 1
      /\ DOMAIN log = 1 .. Len(log) /\ Len(log) \in Nat
      /\ \A i \in DOMAIN log : log'[i] = log[i]
      /\ log'[Len(log) + 1] = arrivals[1]
  BY <1>1, <1>2 DEF ArrivalInv
<1>4. arrivals[1].id = spent.ids - Len(arrivals) + 1
  BY <1>2 DEF ArrivalInv
<1>5. \A i \in DOMAIN log : log[i].kind = "new" => log[i].id < arrivals[1].id /\ log[i].id \in Nat
  <2>1. \A i \in DOMAIN log : log[i] \in FX!Events
    BY DEF ArrivalInv
  <2>2. \A i \in DOMAIN log : log[i].id \in Nat
    BY <2>1 DEF FX!Events
  <2>3. \A i \in DOMAIN log : log[i].kind = "new" => log[i].id <= spent.ids - Len(arrivals)
    BY DEF ArrivalInv
  <2> QED BY <1>2, <1>4, <2>2, <2>3
<1>6. \A i \in DOMAIN log' : log'[i].kind = "new" => log'[i].id <= spent.ids - Len(arrivals')
  BY <1>2, <1>3, <1>4, <1>5
<1>7. \A i, j \in DOMAIN log' :
        i < j /\ log'[i].kind = "new" /\ log'[j].kind = "new" => log'[i].id < log'[j].id
  <2> SUFFICES ASSUME NEW i \in DOMAIN log', NEW j \in DOMAIN log', i < j,
                      log'[i].kind = "new", log'[j].kind = "new"
               PROVE  log'[i].id < log'[j].id
    OBVIOUS
  <2>1. i \in DOMAIN log
    BY <1>3
  <2>2. CASE j \in DOMAIN log
    BY <1>3, <2>1, <2>2 DEF ArrivalInv, FX!ArrivalsInOrder
  <2>3. CASE j = Len(log) + 1
    BY <1>3, <1>5, <2>1, <2>3
  <2> QED BY <1>3, <2>2, <2>3
<1>8. \A i \in DOMAIN arrivals' :
        arrivals'[i].kind = "new" /\ arrivals'[i].id = spent.ids - Len(arrivals') + i
  BY <1>2 DEF ArrivalInv
<1> QED BY <1>1, <1>2, <1>3, <1>6, <1>7, <1>8 DEF ArrivalInv, FX!ArrivalsInOrder

\* A deletion or a change announced late adds no arrival to the log.
LEMMA JobKeepsOrder ==
    ASSUME ArrivalInv, NEW job \in jobs, FX!AnnounceJob(job)
    PROVE  ArrivalInv'
<1> DEFINE e == Head(job.events)
           rest == Tail(job.events)
<1>1. /\ job.pc = "announce" /\ UNCHANGED <<box, arrivals, spent>>
      /\ log' = Append(log, e)
      /\ jobs' = (jobs \ {job}) \cup
                   IF rest # << >> THEN {[job EXCEPT !.events = rest]}
                   ELSE IF job.own THEN {[job EXCEPT !.pc = "answer"]} ELSE {}
  BY DEF FX!AnnounceJob
<1>2. JobInv(job)
  BY DEF ArrivalInv
<1>3. e \in Others /\ rest \in Seq(Others)
  BY <1>1, <1>2 DEF JobInv
<1>4. \A j \in jobs' : JobInv(j)
  <2> HIDE DEF rest, e
  <2>1. rest # << >> => JobInv([job EXCEPT !.events = rest])
    BY <1>1, <1>2, <1>3 DEF JobInv
  <2>2. JobInv([job EXCEPT !.pc = "answer"])
    BY <1>1, <1>2, <1>3 DEF JobInv
  <2> QED BY <1>1, <2>1, <2>2 DEF ArrivalInv
<1> HIDE DEF rest, e
<1>5. e \in FX!Events /\ e.kind # "new"
  BY <1>3 DEF Others
<1>6. /\ log' \in Seq(FX!Events) /\ Len(log') = Len(log) + 1 /\ DOMAIN log' = 1 .. Len(log) + 1
      /\ DOMAIN log = 1 .. Len(log) /\ Len(log) \in Nat
      /\ \A i \in DOMAIN log : log'[i] = log[i]
      /\ log'[Len(log) + 1] = e
  BY <1>1, <1>5 DEF ArrivalInv
<1>7. \A i \in DOMAIN log' : log'[i].kind = "new" => i \in DOMAIN log /\ log'[i] = log[i]
  BY <1>5, <1>6
<1> QED BY <1>1, <1>4, <1>6, <1>7 DEF ArrivalInv, FX!ArrivalsInOrder

\* A commit: its events are other ones.
LEMMA CommitKeepsOrder ==
    ASSUME ArrivalInv, NEW kind, NEW events, NEW own, FX!Job(kind, events, own),
           kind \in {"patched", "deleted", "cleared", "trim"},
           events \in Seq(Others), events # << >>,
           DOMAIN box' \subseteq DOMAIN box
    PROVE  ArrivalInv'
<1>1. /\ jobs' = jobs \cup {[n |-> spent.writes, kind |-> kind, own |-> own,
                             pc |-> "announce", events |-> events, what |-> Head(events)]}
      /\ spent' = [spent EXCEPT !.writes = @ + 1]
      /\ UNCHANGED <<arrivals, log>>
  BY DEF FX!Job
<1>2. /\ spent'.ids = spent.ids
      /\ spent' = [ids |-> spent'.ids, writes |-> spent'.writes, breaks |-> spent'.breaks,
                   user |-> spent'.user]
  BY <1>1 DEF ArrivalInv
<1>3. \A j \in jobs' : JobInv(j)
  BY <1>1 DEF JobInv, ArrivalInv
<1> QED BY <1>1, <1>2, <1>3, NothingAnnounced

\* Changes by others and by the user leave the arrivals in order.
LEMMA WriteKeepsOrder ==
    ASSUME ArrivalInv, FX!OthersWrite \/ FX!UserWrites
    PROVE  ArrivalInv'
<1>0. spent.ids \in Nat /\ \A id \in DOMAIN box : id \in Nat
  BY DEF ArrivalInv
<1>1. ASSUME NEW id, NEW read \in BOOLEAN, NEW own, FX!UpdateMessage(id, read, own)
      PROVE  ArrivalInv'
  <2>1. FX!Read(id, read) \in Others
    BY <1>0, <1>1 DEF FX!UpdateMessage, FX!Read, Others, FX!Events
  <2>2. <<FX!Read(id, read)>> \in Seq(Others) /\ <<FX!Read(id, read)>> # << >>
    BY <2>1
  <2>3. DOMAIN box' = DOMAIN box /\ FX!Job("patched", <<FX!Read(id, read)>>, own)
    BY <1>1 DEF FX!UpdateMessage
  <2> QED BY <2>2, <2>3, CommitKeepsOrder
<1>2. ASSUME NEW id, NEW own, FX!DeleteMessage(id, own)
      PROVE  ArrivalInv'
  <2>1. FX!Delete(id) \in Others
    BY <1>0, <1>2 DEF FX!DeleteMessage, FX!Delete, Others, FX!Events
  <2>2. <<FX!Delete(id)>> \in Seq(Others) /\ <<FX!Delete(id)>> # << >>
    BY <2>1
  <2>3. DOMAIN box' \subseteq DOMAIN box /\ FX!Job("deleted", <<FX!Delete(id)>>, own)
    BY <1>2 DEF FX!DeleteMessage
  <2> QED BY <2>2, <2>3, CommitKeepsOrder
<1>3. ASSUME NEW own, FX!DeleteAllMessages(own)
      PROVE  ArrivalInv'
  <2>1. FX!Clear \in Others
    BY DEF FX!Clear, Others, FX!Events
  <2>2. <<FX!Clear>> \in Seq(Others) /\ <<FX!Clear>> # << >>
    BY <2>1
  <2>3. DOMAIN box' \subseteq DOMAIN box /\ FX!Job("cleared", <<FX!Clear>>, own)
    BY <1>3 DEF FX!DeleteAllMessages
  <2> QED BY <2>2, <2>3, CommitKeepsOrder
<1>4. ASSUME NEW oldest \in SUBSET DOMAIN box, FX!RetentionTrim(oldest)
      PROVE  ArrivalInv'
  <2> DEFINE n == Cardinality(oldest)
  <2>1. PICK ids \in [1 .. n -> oldest] :
          FX!Job("trim", [i \in DOMAIN ids |-> FX!Delete(ids[i])], FALSE)
    <3>0. FX!Cardinality(oldest) = Cardinality(oldest)
      BY DEF FX!Cardinality, Cardinality
    <3>1. \E ids \in [1 .. n -> oldest] :
            /\ \A i, j \in DOMAIN ids : i < j => ids[i] < ids[j]
            /\ FX!Job("trim", [i \in DOMAIN ids |-> FX!Delete(ids[i])], FALSE)
      BY <1>4, <3>0, Zenon DEF FX!RetentionTrim
    <3> QED BY <3>1, Zenon
  <2> DEFINE events == [i \in DOMAIN ids |-> FX!Delete(ids[i])]
  <2>2. n \in Nat /\ n # 0
    <3>1. IsFiniteSet(1 .. spent.ids)
      BY <1>0, FS_Interval
    <3>2. IsFiniteSet(oldest)
      BY <3>1, FS_Subset DEF ArrivalInv
    <3>3. oldest # {}
      BY <1>4 DEF FX!RetentionTrim
    <3> QED BY <3>2, <3>3, FS_CardinalityType, FS_EmptySet
  <2>3. \A i \in 1 .. n : FX!Delete(ids[i]) \in Others
    BY <1>0 DEF FX!Delete, Others, FX!Events
  <2>4. events \in Seq(Others) /\ events # << >>
    <3> HIDE DEF n
    <3>1. events \in Seq(Others) /\ Len(events) = n
      BY <2>2, <2>3
    <3> QED BY <2>2, <3>1
  <2>5. DOMAIN box' \subseteq DOMAIN box
    BY <1>4 DEF FX!RetentionTrim
  <2> HIDE DEF events
  <2> QED BY <2>1, <2>4, <2>5, CommitKeepsOrder DEF events
<1>5. CASE FX!OthersWrite
  BY <1>1, <1>2, <1>3, <1>4, <1>5 DEF FX!OthersWrite
<1>6. CASE FX!UserWrites
  <2>1. ASSUME NEW i \in DOMAIN view.list,
               FX!UpdateMessage(view.list[i].id, ~ view.list[i].read, TRUE)
        PROVE  ArrivalInv'
    BY <1>1, <2>1
  <2> QED BY <1>2, <1>3, <1>6, <2>1 DEF FX!UserWrites
<1> QED BY <1>5, <1>6

\* No step forgets an event or takes one back.
LEMMA OrderStep ==
    ASSUME ArrivalInv, FX!Next
    PROVE  ArrivalInv'
<1>1. CASE \E n \in 1 .. BatchSize : FX!Insert(n)
  BY <1>1, InsertKeepsOrder, FeedConstants
<1>2. CASE FX!OthersWrite \/ FX!UserWrites
  BY <1>2, WriteKeepsOrder
<1>3. CASE FX!Announce
  BY <1>3, ArrivalKeepsOrder, JobKeepsOrder DEF FX!Announce
<1>4. CASE \E job \in jobs : FX!AbandonJob(job) \/ FX!AnswerJob(job)
  <2>1. UNCHANGED <<box, arrivals, log, spent>> /\ jobs' \subseteq jobs
    BY <1>4 DEF FX!AbandonJob, FX!AnswerJob
  <2> QED BY <2>1, NothingAnnounced DEF ArrivalInv
<1>5. CASE FX!Serve \/ (\E f \in fetches : FX!FailFetch(f)) \/ FX!Link \/ FX!Pump \/ FX!Dispatch \/ FX!Tick
  <2>1. UNCHANGED <<box, arrivals, jobs, log, spent>>
    BY <1>5 DEF FX!Serve, FX!ReadPage, FX!ReadTotal, FX!AnswerFetch, FX!FailFetch, FX!Link, FX!Pump,
       FX!StatusDown, FX!Connect, FX!Subscribe, FX!StatusUp, FX!PumpFrame, FX!PumpDebt, FX!LagClose,
       FX!Closed, FX!ConnOnly, FX!Dispatch, FX!HandleWsMessage, FX!HandleWsOverflow,
       FX!HandleWsStatus, FX!HandleMessagesFetched, FX!HandleOwn, FX!Taking, FX!Tick, FX!server
  <2> QED BY <2>1, NothingAnnounced DEF ArrivalInv
<1>6. CASE FX!Break \/ FX!Search \/ FX!NextPage \/ FX!PrevPage
  <2>1. /\ UNCHANGED <<box, arrivals, jobs, log>>
        /\ \/ spent' = [spent EXCEPT !.breaks = @ + 1]
           \/ spent' = [spent EXCEPT !.user = @ + 1]
    BY <1>6 DEF FX!Break, FX!Closed, FX!Search, FX!NextPage, FX!PrevPage, FX!ChangeView, FX!server
  <2>2. /\ spent'.ids = spent.ids
        /\ spent' = [ids |-> spent'.ids, writes |-> spent'.writes, breaks |-> spent'.breaks,
                     user |-> spent'.user]
    BY <2>1 DEF ArrivalInv
  <2> QED BY <2>1, <2>2, NothingAnnounced DEF ArrivalInv
<1> QED BY <1>1, <1>2, <1>3, <1>4, <1>5, <1>6, Zenon DEF FX!Next

\* The broadcast log only grows.
LEMMA LogGrows ==
    ASSUME ArrivalInv, FX!Next
    PROVE  /\ Len(log) \in Nat /\ Len(log') \in Nat /\ Len(log) <= Len(log')
<1>1. log' = log \/ \E e : log' = Append(log, e)
  BY DEF FX!Next, FX!Insert, FX!OthersWrite, FX!UserWrites, FX!UpdateMessage, FX!DeleteMessage,
     FX!DeleteAllMessages, FX!RetentionTrim, FX!Job, FX!Announce, FX!AnnounceArrival, FX!AnnounceJob,
     FX!AbandonJob, FX!AnswerJob,
     FX!Serve, FX!ReadPage, FX!ReadTotal, FX!AnswerFetch, FX!FailFetch, FX!Link, FX!Pump,
     FX!StatusDown, FX!Connect, FX!Subscribe, FX!StatusUp, FX!PumpFrame, FX!PumpDebt, FX!LagClose,
     FX!Closed, FX!ConnOnly, FX!Dispatch, FX!HandleWsMessage, FX!HandleWsOverflow,
     FX!HandleWsStatus, FX!HandleMessagesFetched, FX!HandleOwn, FX!Taking, FX!Tick, FX!server,
     FX!Break, FX!Search, FX!NextPage, FX!PrevPage, FX!ChangeView
<1>2. IsSeq(log)
  BY DEF ArrivalInv, IsSeq
<1> QED BY <1>1, <1>2, Appended

-----------------------------------------------------------------------------
(* What a full queue turned away is read again *)

ConnInv(C, L) ==
    /\ C = [pc |-> C.pc, sub |-> C.sub, pos |-> C.pos, owed |-> C.owed, once |-> C.once]
    /\ C.pos \in Nat /\ C.pos <= L

AppInv(a) ==
    /\ a = [loading |-> a.loading, gen |-> a.gen, connected |-> a.connected, ever |-> a.ever,
            pending |-> a.pending, overflowed |-> a.overflowed]
    /\ a.gen \in Nat

ViewInv(v, L) ==
    /\ v = [list |-> v.list, total |-> v.total, stale |-> v.stale, offset |-> v.offset,
            searching |-> v.searching, at |-> v.at]
    /\ v.at \in Nat /\ v.at <= L

\* A list request of generation `g`, or its answer: what it has read is in the
\* log, and it was sent before generation `g` ended.
FetchInv(f, L, g) ==
    /\ f = [gen |-> f.gen, searching |-> f.searching, offset |-> f.offset, pc |-> f.pc,
            page |-> f.page, total |-> f.total, at |-> f.at]
    /\ f.gen \in Nat /\ f.gen <= g
    /\ f.at \in Nat /\ f.at <= L

Answered(q, i) == i \in DOMAIN q /\ q[i].k = "fetched"

\* The requests in flight and their answers in the queue.
RequestsInv(L, q, R, g) ==
    /\ IsSeq(q)
    /\ \A f \in R : FetchInv(f, L, g)
    /\ \A i : Answered(q, i) => FetchInv(q[i].fetch, L, g)

\* There is one of the generation the view waits for, at most.
CurrentInv(q, R, g) ==
    /\ \A e, f \in R : e.gen = g /\ f.gen = g => e = f
    /\ \A i, j : Answered(q, i) /\ Answered(q, j) /\ q[i].fetch.gen = g /\ q[j].fetch.gen = g
                   => i = j
    /\ \A f \in R : \A i : Answered(q, i) /\ q[i].fetch.gen = g => f.gen # g

\* While there is one, the view is loading.
LoadingInv(q, R, g, on) ==
    /\ \A f \in R : f.gen = g => on
    /\ \A i : Answered(q, i) /\ q[i].fetch.gen = g => on

\* What it has read is no older than `n`.
Past(q, R, g, n) ==
    /\ \A f \in R : f.gen = g => f.pc = "sent" \/ f.at >= n
    /\ \A i : Answered(q, i) /\ q[i].fetch.gen = g /\ q[i].ok => q[i].fetch.at >= n

\* Every frame queued was broadcast.
FramesInv(q, L) == \A i \in DOMAIN q : q[i].k = "frame" => q[i].n \in 1 .. L

Marker(q) == \E i \in DOMAIN q : q[i].k = "overflow"

\* Until the list has been read after the drop, the debt is owed, its marker
\* queued, or the view stale and nothing on its way that would clear it.
DebtInv(C, q, R, a, v, n) ==
    n > v.at => \/ C.owed
                \/ Marker(q)
                \/ v.stale /\ (a.overflowed \/ Past(q, R, a.gen, n))

FeedInv(L, C, q, R, a, v, n) ==
    /\ L \in Nat /\ n \in Nat /\ n <= L
    /\ ConnInv(C, L) /\ AppInv(a) /\ ViewInv(v, L)
    /\ RequestsInv(L, q, R, a.gen) /\ FramesInv(q, L)
    /\ CurrentInv(q, R, a.gen)
    /\ LoadingInv(q, R, a.gen, a.loading)
    /\ Past(q, R, a.gen, v.at)
    /\ DebtInv(C, q, R, a, v, n)

\* The same, of the variables.
DropInv == FeedInv(Len(log), conn, queue, fetches, app, view, dropped)

\* The log grows and nothing else happens.
LEMMA GrowsAlone ==
    ASSUME NEW L, NEW M, NEW C, NEW q, NEW R, NEW a, NEW v, NEW n,
           FeedInv(L, C, q, R, a, v, n), M \in Nat, L <= M
    PROVE  FeedInv(M, C, q, R, a, v, n)
<1>1. L \in Nat /\ n \in Nat /\ n <= M
  BY DEF FeedInv
<1>2. ConnInv(C, M) /\ ViewInv(v, M)
  BY <1>1 DEF FeedInv, ConnInv, ViewInv
<1>3. ASSUME NEW f, NEW g, FetchInv(f, L, g) PROVE FetchInv(f, M, g)
  BY <1>1, <1>3 DEF FetchInv
<1>4. RequestsInv(M, q, R, a.gen)
  BY <1>3 DEF FeedInv, RequestsInv
<1>5. FramesInv(q, M)
  BY <1>1 DEF FeedInv, FramesInv
<1> QED BY <1>1, <1>2, <1>4, <1>5 DEF FeedInv

\* A message that is no answer enters the queue.
LEMMA Enqueued ==
    ASSUME NEW q, NEW x, IsSeq(q), x.k # "fetched"
    PROVE  /\ IsSeq(Append(q, x))
           /\ \A i : Answered(Append(q, x), i) <=> Answered(q, i)
           /\ \A i : Answered(q, i) => Append(q, x)[i] = q[i]
           /\ Marker(q) => Marker(Append(q, x))
           /\ x.k = "overflow" => Marker(Append(q, x))
           /\ \A L : FramesInv(q, L) /\ (x.k = "frame" => x.n \in 1 .. L) => FramesInv(Append(q, x), L)
<1> DEFINE r == Append(q, x)
<1>1. /\ IsSeq(r) /\ Len(q) \in Nat /\ DOMAIN q = 1 .. Len(q) /\ DOMAIN r = 1 .. Len(q) + 1
      /\ \A i \in DOMAIN q : r[i] = q[i]
      /\ r[Len(q) + 1] = x
  BY Appended
<1> HIDE DEF r
<1>2. \A i \in DOMAIN q : i \in DOMAIN r
  BY <1>1
<1>3. \A i \in DOMAIN r : i \in DOMAIN q \/ i = Len(q) + 1
  BY <1>1
<1>4. Len(q) + 1 \in DOMAIN r
  BY <1>1
<1>5. \A i : Answered(r, i) <=> Answered(q, i)
  BY <1>1, <1>2, <1>3 DEF Answered
<1>6. \A i : Answered(q, i) => r[i] = q[i]
  BY <1>1 DEF Answered
<1>7. Marker(q) => Marker(r)
  BY <1>1, <1>2 DEF Marker
<1>8. x.k = "overflow" => Marker(r)
  BY <1>1, <1>4 DEF Marker
<1>9. \A L : FramesInv(q, L) /\ (x.k = "frame" => x.n \in 1 .. L) => FramesInv(r, L)
  BY <1>1, <1>3 DEF FramesInv
<1> QED BY <1>1, <1>5, <1>6, <1>7, <1>8, <1>9 DEF r

\* The connection changes and a message that is no answer enters the queue, or
\* none does: the debt must be kept, or its marker queued.
LEMMA QueueGrows ==
    ASSUME NEW L, NEW C, NEW d, NEW q, NEW r, NEW R, NEW a, NEW v, NEW n, NEW m,
           FeedInv(L, C, q, R, a, v, n), ConnInv(d, L),
           m \in Nat, m <= L,
           IsSeq(r), FramesInv(r, L),
           \A i : Answered(r, i) <=> Answered(q, i),
           \A i : Answered(q, i) => r[i] = q[i],
           Marker(q) => Marker(r),
           (m = n /\ (C.owed => d.owed \/ Marker(r))) \/ d.owed
    PROVE  FeedInv(L, d, r, R, a, v, m)
<1>1. RequestsInv(L, r, R, a.gen)
  BY DEF FeedInv, RequestsInv
<1>2. CurrentInv(r, R, a.gen)
  <2>1. CurrentInv(q, R, a.gen)
    BY DEF FeedInv
  <2> QED BY <2>1 DEF CurrentInv
<1>3. LoadingInv(r, R, a.gen, a.loading)
  <2>1. LoadingInv(q, R, a.gen, a.loading)
    BY DEF FeedInv
  <2> QED BY <2>1 DEF LoadingInv
<1>4. ASSUME NEW k, Past(q, R, a.gen, k) PROVE Past(r, R, a.gen, k)
  BY <1>4 DEF Past
<1>5. DebtInv(d, r, R, a, v, m)
  <2>1. CASE d.owed
    BY <2>1 DEF DebtInv
  <2>2. CASE m = n /\ (C.owed => d.owed \/ Marker(r))
    BY <1>4, <2>2 DEF FeedInv, DebtInv
  <2> QED BY <2>1, <2>2
<1> QED BY <1>1, <1>2, <1>3, <1>4, <1>5 DEF FeedInv

\* A message leaves the queue.
LEMMA Dequeued ==
    ASSUME NEW q, IsSeq(q), q # << >>
    PROVE  /\ IsSeq(Tail(q)) /\ Head(q) = q[1]
           /\ \A i : Answered(Tail(q), i) =>
                 i \in Int /\ i # 0 /\ Answered(q, i + 1) /\ Tail(q)[i] = q[i + 1]
           /\ Marker(q) => Marker(Tail(q)) \/ Head(q).k = "overflow"
           /\ Head(q).k = "fetched" => Answered(q, 1)
           /\ \A L : FramesInv(q, L) =>
                 FramesInv(Tail(q), L) /\ (Head(q).k = "frame" => Head(q).n \in 1 .. L)
<1> DEFINE r == Tail(q)
<1>1. /\ IsSeq(r) /\ Len(q) \in Nat \ {0} /\ DOMAIN q = 1 .. Len(q) /\ 1 \in DOMAIN q
      /\ DOMAIN r = 1 .. Len(q) - 1 /\ Head(q) = q[1]
      /\ \A i \in DOMAIN r : i + 1 \in DOMAIN q /\ r[i] = q[i + 1]
      /\ \A i \in DOMAIN q : i # 1 => i - 1 \in DOMAIN r /\ r[i - 1] = q[i]
  BY Taken
<1> HIDE DEF r
<1>2. \A i : Answered(r, i) => i \in Int /\ i # 0 /\ Answered(q, i + 1) /\ r[i] = q[i + 1]
  BY <1>1 DEF Answered
<1>3. Marker(q) => Marker(r) \/ Head(q).k = "overflow"
  BY <1>1 DEF Marker
<1>4. Head(q).k = "fetched" => Answered(q, 1)
  BY <1>1 DEF Answered
<1>5. ASSUME NEW L, FramesInv(q, L)
      PROVE  FramesInv(r, L) /\ (Head(q).k = "frame" => Head(q).n \in 1 .. L)
  BY <1>1, <1>5 DEF FramesInv
<1> QED BY <1>1, <1>2, <1>3, <1>4, <1>5 DEF r

\* The answers left are among those there were.
LEMMA FewerAnswers ==
    ASSUME NEW q, IsSeq(q), q # << >>, NEW L, NEW R, NEW g, NEW on,
           RequestsInv(L, q, R, g), CurrentInv(q, R, g), LoadingInv(q, R, g, on)
    PROVE  /\ RequestsInv(L, Tail(q), R, g) /\ CurrentInv(Tail(q), R, g)
           /\ LoadingInv(Tail(q), R, g, on)
           /\ \A n : Past(q, R, g, n) => Past(Tail(q), R, g, n)
           /\ Head(q).k = "fetched" /\ Head(q).fetch.gen = g =>
                /\ \A f \in R : f.gen # g
                /\ \A i : Answered(Tail(q), i) => Tail(q)[i].fetch.gen # g
<1> DEFINE r == Tail(q)
<1>1. /\ IsSeq(r) /\ Head(q) = q[1]
      /\ \A i : Answered(r, i) => i \in Int /\ i # 0 /\ Answered(q, i + 1) /\ r[i] = q[i + 1]
      /\ Head(q).k = "fetched" => Answered(q, 1)
  BY Dequeued
<1> HIDE DEF r
<1>2. RequestsInv(L, r, R, g)
  BY <1>1 DEF RequestsInv
<1>3. CurrentInv(r, R, g)
  <2>1. ASSUME NEW i, NEW j, Answered(r, i), Answered(r, j), r[i].fetch.gen = g, r[j].fetch.gen = g
        PROVE  i = j
    <3>1. i + 1 = j + 1
      BY <1>1, <2>1 DEF CurrentInv
    <3> QED BY <1>1, <2>1, <3>1
  <2> QED BY <1>1, <2>1 DEF CurrentInv
<1>4. LoadingInv(r, R, g, on)
  BY <1>1 DEF LoadingInv
<1>5. \A n : Past(q, R, g, n) => Past(r, R, g, n)
  BY <1>1 DEF Past
<1>6. ASSUME Head(q).k = "fetched", Head(q).fetch.gen = g
      PROVE  /\ \A f \in R : f.gen # g
             /\ \A i : Answered(r, i) => r[i].fetch.gen # g
  <2>1. \A f \in R : f.gen # g
    BY <1>1, <1>6 DEF CurrentInv
  <2>2. ASSUME NEW i, Answered(r, i), r[i].fetch.gen = g PROVE FALSE
    <3>1. i + 1 = 1
      BY <1>1, <1>6, <2>2 DEF CurrentInv
    <3> QED BY <1>1, <2>2, <3>1
  <2> QED BY <2>1, <2>2
<1> QED BY <1>1, <1>2, <1>3, <1>4, <1>5, <1>6 DEF r

\* A message that is neither an answer nor the marker of a drop is taken.
LEMMA QueueShrinks ==
    ASSUME NEW L, NEW C, NEW q, NEW R, NEW a, NEW v, NEW n,
           FeedInv(L, C, q, R, a, v, n), q # << >>, Head(q).k # "overflow"
    PROVE  FeedInv(L, C, Tail(q), R, a, v, n)
<1>1. /\ IsSeq(q) /\ RequestsInv(L, q, R, a.gen) /\ CurrentInv(q, R, a.gen)
      /\ LoadingInv(q, R, a.gen, a.loading) /\ FramesInv(q, L)
  BY DEF FeedInv, RequestsInv
<1>2. /\ RequestsInv(L, Tail(q), R, a.gen) /\ CurrentInv(Tail(q), R, a.gen)
      /\ LoadingInv(Tail(q), R, a.gen, a.loading)
      /\ \A k : Past(q, R, a.gen, k) => Past(Tail(q), R, a.gen, k)
  BY <1>1, FewerAnswers
<1>3. (Marker(q) => Marker(Tail(q))) /\ FramesInv(Tail(q), L)
  BY <1>1, Dequeued
<1>4. DebtInv(C, Tail(q), R, a, v, n)
  BY <1>2, <1>3 DEF FeedInv, DebtInv
<1> QED BY <1>2, <1>3, <1>4 DEF FeedInv

\* The list is changed in place.
LEMMA ListChanges ==
    ASSUME NEW L, NEW C, NEW q, NEW R, NEW a, NEW b, NEW v, NEW w, NEW n,
           FeedInv(L, C, q, R, a, v, n), AppInv(b), ViewInv(w, L),
           b.gen = a.gen, b.loading = a.loading, a.overflowed => b.overflowed,
           w.at = v.at, v.stale => w.stale
    PROVE  FeedInv(L, C, q, R, b, w, n)
<1>1. DebtInv(C, q, R, b, w, n)
  BY DEF FeedInv, DebtInv
<1> QED BY <1>1 DEF FeedInv

\* The list is asked for again.
LEMMA NewGeneration ==
    ASSUME NEW L, NEW C, NEW q, NEW R, NEW a, NEW b, NEW v, NEW w, NEW n, NEW f,
           FeedInv(L, C, q, R, a, v, n), AppInv(b), ViewInv(w, L),
           b.gen = a.gen + 1, b.loading,
           w.at = v.at, v.stale => w.stale,
           FetchInv(f, L, b.gen), f.gen = b.gen, f.pc = "sent"
    PROVE  FeedInv(L, C, q, R \cup {f}, b, w, n)
<1> DEFINE G == R \cup {f}
<1>0. a.gen \in Nat /\ b.gen \in Nat
  BY DEF FeedInv, AppInv
<1>1. ASSUME NEW e, FetchInv(e, L, a.gen) PROVE FetchInv(e, L, b.gen) /\ e.gen # b.gen
  BY <1>0, <1>1 DEF FetchInv
<1>2. /\ IsSeq(q) /\ \A e \in R : FetchInv(e, L, a.gen)
      /\ \A i : Answered(q, i) => FetchInv(q[i].fetch, L, a.gen)
  BY DEF FeedInv, RequestsInv
<1>3. RequestsInv(L, q, G, b.gen)
  BY <1>1, <1>2 DEF RequestsInv
<1>4. CurrentInv(q, G, b.gen)
  BY <1>1, <1>2 DEF CurrentInv
<1>5. LoadingInv(q, G, b.gen, b.loading)
  BY DEF LoadingInv
<1>6. \A k : Past(q, G, b.gen, k)
  BY <1>1, <1>2 DEF Past
<1>7. DebtInv(C, q, G, b, w, n)
  BY <1>6 DEF FeedInv, DebtInv
<1> HIDE DEF G
<1>8. FeedInv(L, C, q, G, b, w, n)
  BY <1>3, <1>4, <1>5, <1>6, <1>7 DEF FeedInv
<1> QED BY <1>8 DEF G

\* A request that reads, now or another time after its page.
Reads(f, g, L) == g.at = L \/ (f.pc # "sent" /\ g.at = f.at)

\* A request reads its page or its total.
LEMMA RequestReads ==
    ASSUME NEW L, NEW C, NEW q, NEW R, NEW a, NEW v, NEW n, NEW f \in R, NEW g,
           FeedInv(L, C, q, R, a, v, n), FetchInv(g, L, a.gen), g.gen = f.gen,
           Reads(f, g, L)
    PROVE  FeedInv(L, C, q, (R \ {f}) \cup {g}, a, v, n)
<1> DEFINE G == (R \ {f}) \cup {g}
<1>0. L \in Nat /\ n \in Nat /\ n <= L /\ v.at \in Nat /\ v.at <= L
  BY DEF FeedInv, ViewInv
<1>1. RequestsInv(L, q, R, a.gen) /\ CurrentInv(q, R, a.gen) /\ LoadingInv(q, R, a.gen, a.loading)
  BY DEF FeedInv
<1>2. RequestsInv(L, q, G, a.gen)
  BY <1>1 DEF RequestsInv
<1>3. CurrentInv(q, G, a.gen)
  <2>1. ASSUME NEW d \in G, NEW e \in G, d.gen = a.gen, e.gen = a.gen PROVE d = e
    BY <1>1, <2>1 DEF CurrentInv
  <2>2. ASSUME NEW d \in G, NEW i, Answered(q, i), q[i].fetch.gen = a.gen PROVE d.gen # a.gen
    BY <1>1, <2>2 DEF CurrentInv
  <2> QED BY <1>1, <2>1, <2>2 DEF CurrentInv
<1>4. LoadingInv(q, G, a.gen, a.loading)
  BY <1>1 DEF LoadingInv
<1>5. ASSUME NEW k \in Nat, k <= L, Past(q, R, a.gen, k) PROVE Past(q, G, a.gen, k)
  <2>1. g.gen = a.gen => g.at >= k
    BY <1>0, <1>5 DEF Past, Reads
  <2> QED BY <1>5, <2>1 DEF Past
<1>6. Past(q, G, a.gen, v.at)
  BY <1>0, <1>5 DEF FeedInv
<1>7. DebtInv(C, q, G, a, v, n)
  BY <1>0, <1>5 DEF FeedInv, DebtInv
<1> HIDE DEF G
<1>8. FeedInv(L, C, q, G, a, v, n)
  BY <1>2, <1>3, <1>4, <1>6, <1>7 DEF FeedInv
<1> QED BY <1>8 DEF G

\* A request is answered, or fails.
LEMMA RequestAnswered ==
    ASSUME NEW L, NEW C, NEW q, NEW R, NEW a, NEW v, NEW n, NEW f \in R, NEW x,
           FeedInv(L, C, q, R, a, v, n),
           x.k = "fetched", x.fetch = f, x.ok => f.pc # "sent"
    PROVE  FeedInv(L, C, Append(q, x), R \ {f}, a, v, n)
<1> DEFINE r == Append(q, x)
           G == R \ {f}
<1>1. RequestsInv(L, q, R, a.gen) /\ CurrentInv(q, R, a.gen) /\ LoadingInv(q, R, a.gen, a.loading)
  BY DEF FeedInv
<1>2. /\ IsSeq(r) /\ Len(q) \in Nat /\ DOMAIN q = 1 .. Len(q) /\ DOMAIN r = 1 .. Len(q) + 1
      /\ \A i \in DOMAIN q : r[i] = q[i]
      /\ r[Len(q) + 1] = x
  BY <1>1, Appended DEF RequestsInv
<1> HIDE DEF r, G
<1>3. \A i : Answered(r, i) => (i = Len(q) + 1 /\ r[i] = x) \/ (Answered(q, i) /\ r[i] = q[i])
  <2>1. \A i \in DOMAIN r : i \in DOMAIN q \/ i = Len(q) + 1
    BY <1>2
  <2>2. ASSUME NEW i, Answered(r, i), i # Len(q) + 1 PROVE Answered(q, i) /\ r[i] = q[i]
    <3>1. i \in DOMAIN q /\ r[i].k = "fetched"
      BY <2>1, <2>2 DEF Answered
    <3>2. r[i] = q[i]
      BY <1>2, <3>1
    <3> QED BY <3>1, <3>2 DEF Answered
  <2> QED BY <1>2, <2>2
<1>4. G \subseteq R /\ f \notin G
  BY DEF G
<1>5. RequestsInv(L, r, G, a.gen)
  BY <1>1, <1>2, <1>3, <1>4 DEF RequestsInv
<1>6. CurrentInv(r, G, a.gen)
  <2>1. ASSUME NEW i, NEW j, Answered(r, i), Answered(r, j),
               r[i].fetch.gen = a.gen, r[j].fetch.gen = a.gen
        PROVE  i = j
    BY <1>1, <1>3, <2>1 DEF CurrentInv
  <2>2. ASSUME NEW d \in G, NEW i, Answered(r, i), r[i].fetch.gen = a.gen PROVE d.gen # a.gen
    BY <1>1, <1>3, <1>4, <2>2 DEF CurrentInv
  <2>3. ASSUME NEW d \in G, NEW e \in G, d.gen = a.gen, e.gen = a.gen PROVE d = e
    BY <1>1, <1>4, <2>3 DEF CurrentInv
  <2> QED BY <2>1, <2>2, <2>3 DEF CurrentInv
<1>7. LoadingInv(r, G, a.gen, a.loading)
  BY <1>1, <1>3, <1>4 DEF LoadingInv
<1>8. ASSUME NEW k, Past(q, R, a.gen, k) PROVE Past(r, G, a.gen, k)
  BY <1>3, <1>4, <1>8 DEF Past
<1>9. FramesInv(r, L)
  BY <1>2 DEF FramesInv, FeedInv
<1>10. Marker(q) => Marker(r)
  BY <1>2 DEF Marker
<1>11. DebtInv(C, r, G, a, v, n)
  BY <1>8, <1>10 DEF FeedInv, DebtInv
<1>12. FeedInv(L, C, r, G, a, v, n)
  BY <1>5, <1>6, <1>7, <1>8, <1>9, <1>11 DEF FeedInv
<1> QED BY <1>12 DEF r, G

\* The marker of a drop is taken: the view is stale, and an answer on its way
\* does not clear it.
LEMMA MarkerTaken ==
    ASSUME NEW L, NEW C, NEW q, NEW R, NEW a, NEW b, NEW v, NEW w, NEW n,
           FeedInv(L, C, q, R, a, v, n), q # << >>, AppInv(b), ViewInv(w, L),
           b.gen = a.gen, b.loading = a.loading, a.loading => b.overflowed,
           w.at = v.at, w.stale
    PROVE  FeedInv(L, C, Tail(q), R, b, w, n)
<1>1. /\ IsSeq(q) /\ RequestsInv(L, q, R, a.gen) /\ CurrentInv(q, R, a.gen)
      /\ LoadingInv(q, R, a.gen, a.loading) /\ FramesInv(q, L)
  BY DEF FeedInv, RequestsInv
<1>2. /\ RequestsInv(L, Tail(q), R, a.gen) /\ CurrentInv(Tail(q), R, a.gen)
      /\ LoadingInv(Tail(q), R, a.gen, a.loading)
      /\ \A k : Past(q, R, a.gen, k) => Past(Tail(q), R, a.gen, k)
  BY <1>1, FewerAnswers
<1>3. FramesInv(Tail(q), L)
  BY <1>1, Dequeued
<1>4. ~ a.loading => Past(Tail(q), R, b.gen, n)
  BY <1>2 DEF LoadingInv, Past
<1>5. DebtInv(C, Tail(q), R, b, w, n)
  BY <1>4 DEF DebtInv
<1> QED BY <1>2, <1>3, <1>5 DEF FeedInv

\* The answer the view waits for is taken, with what it was reset to.
LEMMA AnswerTaken ==
    ASSUME NEW L, NEW C, NEW q, NEW R, NEW a, NEW b, NEW v, NEW w, NEW n,
           FeedInv(L, C, q, R, a, v, n), q # << >>, AppInv(b), ViewInv(w, L),
           Head(q).k = "fetched", Head(q).fetch.gen = a.gen, b.gen = a.gen,
           \/ w = v
           \/ Head(q).ok /\ w.at = Head(q).fetch.at /\ (a.overflowed => w.stale)
    PROVE  FeedInv(L, C, Tail(q), R, b, w, n)
<1>1. /\ IsSeq(q) /\ RequestsInv(L, q, R, a.gen) /\ CurrentInv(q, R, a.gen)
      /\ LoadingInv(q, R, a.gen, a.loading) /\ FramesInv(q, L) /\ Past(q, R, a.gen, v.at)
  BY DEF FeedInv, RequestsInv
<1>2. /\ RequestsInv(L, Tail(q), R, b.gen) /\ CurrentInv(Tail(q), R, b.gen)
      /\ \A f \in R : f.gen # b.gen
      /\ \A i : Answered(Tail(q), i) => Tail(q)[i].fetch.gen # b.gen
  BY <1>1, FewerAnswers
<1>3. FramesInv(Tail(q), L) /\ (Marker(q) => Marker(Tail(q))) /\ Answered(q, 1) /\ Head(q) = q[1]
  BY <1>1, Dequeued
<1>4. LoadingInv(Tail(q), R, b.gen, b.loading)
  BY <1>2 DEF LoadingInv
<1>5. \A k : Past(Tail(q), R, b.gen, k)
  BY <1>2 DEF Past
<1>6. DebtInv(C, Tail(q), R, b, w, n)
  <2>1. CASE w = v
    BY <1>3, <1>5, <2>1 DEF FeedInv, DebtInv
  <2>2. CASE Head(q).ok /\ w.at = Head(q).fetch.at /\ (a.overflowed => w.stale)
    <3>1. w.at >= v.at
      BY <1>1, <1>3, <2>2 DEF Past
    <3>2. n \in Nat /\ v.at \in Nat /\ w.at \in Nat
      BY DEF FeedInv, ViewInv
    <3>3. Past(q, R, a.gen, n) => w.at >= n
      BY <1>3, <2>2 DEF Past
    <3>4. CASE n > w.at
      <4>1. C.owed \/ Marker(q) \/ a.overflowed
        BY <3>1, <3>2, <3>3, <3>4 DEF FeedInv, DebtInv
      <4> QED BY <1>3, <1>5, <2>2, <4>1 DEF DebtInv
    <3> QED BY <3>4 DEF DebtInv
  <2> QED BY <2>1, <2>2
<1> QED BY <1>2, <1>3, <1>4, <1>5, <1>6 DEF FeedInv

-----------------------------------------------------------------------------
(* The steps of the feed *)

\* Everything the live list does to the view leaves what it has read, and
\* never takes back that it is stale.
LEMMA LiveKeeps ==
    ASSUME NEW v, NEW L, NEW e \in FX!Events, ViewInv(v, L)
    PROVE  /\ ViewInv(FX!Live(v, e), L)
           /\ FX!Live(v, e).at = v.at
           /\ v.stale => FX!Live(v, e).stale
<1> DEFINE Keeps(w) == ViewInv(w, L) /\ w.at = v.at /\ (v.stale => w.stale)
<1>1. Keeps(v)
  OBVIOUS
<1>2. ASSUME NEW l PROVE Keeps([v EXCEPT !.list = l])
  BY DEF ViewInv
<1>3. ASSUME NEW w, w = [v EXCEPT !.stale = TRUE] PROVE Keeps(w)
  <2>1. w.at = v.at /\ w.stale
    BY <1>3 DEF ViewInv
  <2>2. w = [list |-> w.list, total |-> w.total, stale |-> w.stale, offset |-> w.offset,
             searching |-> w.searching, at |-> w.at]
    BY <1>3 DEF ViewInv
  <2> QED BY <2>1, <2>2 DEF ViewInv
<1>4. ASSUME NEW w, NEW l, NEW t, w = [v EXCEPT !.total = t, !.list = l] PROVE Keeps(w)
  <2>1. w.at = v.at /\ w.stale = v.stale
    BY <1>4 DEF ViewInv
  <2>2. w = [list |-> w.list, total |-> w.total, stale |-> w.stale, offset |-> w.offset,
             searching |-> w.searching, at |-> w.at]
    BY <1>4 DEF ViewInv
  <2> QED BY <2>1, <2>2 DEF ViewInv
<1>5. ASSUME NEW w, NEW l, NEW t, w = [v EXCEPT !.list = l, !.total = t] PROVE Keeps(w)
  <2>1. w.at = v.at /\ w.stale = v.stale
    BY <1>5 DEF ViewInv
  <2>2. w = [list |-> w.list, total |-> w.total, stale |-> w.stale, offset |-> w.offset,
             searching |-> w.searching, at |-> w.at]
    BY <1>5 DEF ViewInv
  <2> QED BY <2>1, <2>2 DEF ViewInv
<1> HIDE DEF Keeps
<1>6. CASE e.kind = "new"
  <2>1. CASE FX!IsListed(v, e.id)
    <3>1. FX!Live(v, e) = v
      BY <1>6, <2>1 DEF FX!Live
    <3> QED BY <1>1, <3>1 DEF Keeps
  <2>2. CASE ~ FX!IsListed(v, e.id) /\ v.searching
    <3>1. FX!Live(v, e) = [v EXCEPT !.stale = TRUE]
      BY <1>6, <2>2 DEF FX!Live
    <3> QED BY <1>3, <3>1 DEF Keeps
  <2>3. CASE ~ FX!IsListed(v, e.id) /\ ~ v.searching
    <3>1. FX!Live(v, e) =
            [v EXCEPT !.total = v.total + 1,
                      !.list = IF v.offset = 0
                               THEN FX!Insert0(v.list, [id |-> e.id, read |-> e.read]) ELSE v.list]
      BY <1>6, <2>3 DEF FX!Live
    <3> QED BY <1>4, <3>1 DEF Keeps
  <2> QED BY <2>1, <2>2, <2>3
<1>7. CASE e.kind = "delete"
  <2>1. CASE FX!IsListed(v, e.id) \/ ~ v.searching
    <3>1. FX!Live(v, e) =
            [v EXCEPT !.list = FX!Dropped(v.list, e.id), !.total = FX!Minus1(v.total)]
      BY <1>7, <2>1 DEF FX!Live
    <3> QED BY <1>5, <3>1 DEF Keeps
  <2>2. CASE ~ (FX!IsListed(v, e.id) \/ ~ v.searching)
    <3>1. FX!Live(v, e) = [v EXCEPT !.stale = TRUE]
      BY <1>7, <2>2 DEF FX!Live
    <3> QED BY <1>3, <3>1 DEF Keeps
  <2> QED BY <2>1, <2>2
<1>8. CASE e.kind = "read"
  <2>1. FX!Live(v, e) = FX!ApplyUpdate(v, e)
    BY <1>8 DEF FX!Live
  <2>2. Keeps(FX!ApplyUpdate(v, e))
    BY <1>2 DEF FX!ApplyUpdate
  <2> QED BY <2>1, <2>2 DEF Keeps
<1>9. CASE e.kind = "clear"
  <2>1. FX!Live(v, e) = FX!Emptied(v)
    BY <1>9 DEF FX!Live
  <2>2. Keeps(FX!Emptied(v))
    BY <1>5 DEF FX!Emptied
  <2> QED BY <2>1, <2>2 DEF Keeps
<1> QED BY <1>6, <1>7, <1>8, <1>9 DEF FX!Events

\* The server commits and announces, other clients come and go.
LEMMA ServerStep ==
    ASSUME DropInv, UNCHANGED <<conn, queue, fetches, app, view, dropped>>,
           Len(log') \in Nat, Len(log) <= Len(log')
    PROVE  DropInv'
BY GrowsAlone DEF DropInv

\* The answer to the user's own change keeps the invariant.
LEMMA OwnAnswerStep ==
    ASSUME DropInv, ArrivalInv, NEW job \in jobs, FX!AnswerJob(job)
    PROVE  DropInv'
<1> DEFINE x == [k |-> job.kind, id |-> job.what.id, read |-> job.what.read]
<1>1. /\ queue' = Append(queue, x)
      /\ UNCHANGED <<log, conn, fetches, app, view, dropped>>
  BY DEF FX!AnswerJob, FX!Send
<1>2. x.k # "fetched" /\ x.k # "frame"
  BY DEF ArrivalInv, JobInv
<1> HIDE DEF x
<1>3. IsSeq(queue) /\ FramesInv(queue, Len(log)) /\ ConnInv(conn, Len(log))
      /\ dropped \in Nat /\ dropped <= Len(log)
  BY DEF DropInv, FeedInv, RequestsInv
<1>4. FeedInv(Len(log), conn, Append(queue, x), fetches, app, view, dropped)
  BY <1>2, <1>3, Enqueued, QueueGrows DEF DropInv
<1> QED BY <1>1, <1>4 DEF DropInv

\* The server's reads, answers and failures keep the invariant.
LEMMA ServeStep ==
    ASSUME DropInv, NEW f \in fetches,
           FX!ReadPage(f) \/ FX!ReadTotal(f) \/ FX!AnswerFetch(f) \/ FX!FailFetch(f)
    PROVE  DropInv'
<1>0. /\ FetchInv(f, Len(log), app.gen) /\ Len(log) \in Nat
      /\ FeedInv(Len(log), conn, queue, fetches, app, view, dropped)
  BY DEF DropInv, FeedInv, RequestsInv
<1>1. CASE FX!ReadPage(f)
  <2>1. PICK pc, page, total, g : /\ fetches' = (fetches \ {f}) \cup {g}
                     /\ g = [f EXCEPT !.pc = pc, !.page = page, !.total = total, !.at = Len(log)]
    BY <1>1 DEF FX!ReadPage
  <2>2. g.gen = f.gen /\ g.at = Len(log)
    BY <1>0, <2>1 DEF FetchInv
  <2>3. g = [gen |-> g.gen, searching |-> g.searching, offset |-> g.offset, pc |-> g.pc,
             page |-> g.page, total |-> g.total, at |-> g.at]
    BY <1>0, <2>1 DEF FetchInv
  <2>4. FetchInv(g, Len(log), app.gen)
    BY <1>0, <2>2, <2>3 DEF FetchInv
  <2>5. Reads(f, g, Len(log))
    BY <1>1, <2>2 DEF Reads, FX!ReadPage
  <2>6. FeedInv(Len(log), conn, queue, (fetches \ {f}) \cup {g}, app, view, dropped)
    BY <1>0, <2>2, <2>4, <2>5, RequestReads
  <2>7. UNCHANGED <<log, conn, queue, app, view, dropped>>
    BY <1>1 DEF FX!ReadPage, FX!server
  <2> QED BY <2>1, <2>6, <2>7 DEF DropInv
<1>2. CASE FX!ReadTotal(f)
  <2>1. PICK total, g : /\ fetches' = (fetches \ {f}) \cup {g}
                     /\ g = [f EXCEPT !.pc = "answer", !.total = total]
    BY <1>2 DEF FX!ReadTotal
  <2>2. g.gen = f.gen /\ g.at = f.at
    BY <1>0, <2>1 DEF FetchInv
  <2>3. g = [gen |-> g.gen, searching |-> g.searching, offset |-> g.offset, pc |-> g.pc,
             page |-> g.page, total |-> g.total, at |-> g.at]
    BY <1>0, <2>1 DEF FetchInv
  <2>4. FetchInv(g, Len(log), app.gen)
    BY <1>0, <2>2, <2>3 DEF FetchInv
  <2>5. Reads(f, g, Len(log))
    BY <1>2, <2>2 DEF Reads, FX!ReadTotal
  <2>6. FeedInv(Len(log), conn, queue, (fetches \ {f}) \cup {g}, app, view, dropped)
    BY <1>0, <2>2, <2>4, <2>5, RequestReads
  <2>7. UNCHANGED <<log, conn, queue, app, view, dropped>>
    BY <1>2 DEF FX!ReadTotal, FX!server
  <2> QED BY <2>1, <2>6, <2>7 DEF DropInv
<1>3. CASE FX!AnswerFetch(f) \/ FX!FailFetch(f)
  <2>1. PICK ok \in BOOLEAN :
          /\ queue' = Append(queue, [k |-> "fetched", ok |-> ok, fetch |-> f])
          /\ ok => f.pc # "sent"
    BY <1>3 DEF FX!AnswerFetch, FX!FailFetch, FX!Send
  <2> DEFINE x == [k |-> "fetched", ok |-> ok, fetch |-> f]
  <2>2. x.k = "fetched" /\ x.fetch = f /\ (x.ok => f.pc # "sent")
    BY <2>1
  <2> HIDE DEF x
  <2>3. FeedInv(Len(log), conn, Append(queue, x), fetches \ {f}, app, view, dropped)
    BY <1>0, <2>2, RequestAnswered
  <2>4. UNCHANGED <<log, conn, app, view, dropped>> /\ fetches' = fetches \ {f}
    BY <1>3 DEF FX!AnswerFetch, FX!FailFetch, FX!server
  <2> QED BY <2>1, <2>3, <2>4 DEF DropInv, x
<1> QED BY <1>1, <1>2, <1>3

\* What the reader of the connection does keeps the invariant.
LEMMA LinkStep ==
    ASSUME DropInv, FX!Link \/ FX!Pump \/ FX!Break
    PROVE  DropInv'
<1>0. /\ FeedInv(Len(log), conn, queue, fetches, app, view, dropped)
      /\ IsSeq(queue) /\ FramesInv(queue, Len(log)) /\ ConnInv(conn, Len(log))
      /\ Len(log) \in Nat /\ dropped \in Nat /\ dropped <= Len(log)
  BY DEF DropInv, FeedInv, RequestsInv
<1>1. UNCHANGED <<log, fetches, app, view>>
  BY DEF FX!Link, FX!Pump, FX!Break, FX!StatusDown, FX!Connect, FX!Subscribe, FX!StatusUp,
     FX!PumpFrame, FX!PumpDebt, FX!LagClose, FX!Closed, FX!ConnOnly, FX!server
<1>2. ASSUME ConnInv(conn', Len(log)), UNCHANGED <<queue, dropped>>, conn'.owed = conn.owed
      PROVE  DropInv'
  <2>1. FeedInv(Len(log), conn', queue, fetches, app, view, dropped)
    BY <1>0, <1>2, QueueGrows
  <2> QED BY <1>1, <1>2, <2>1 DEF DropInv
<1>3. ASSUME NEW x, x.k \notin {"fetched", "frame"}, ConnInv(conn', Len(log)),
             queue' = Append(queue, x), UNCHANGED dropped,
             conn'.owed = conn.owed \/ x.k = "overflow"
      PROVE  DropInv'
  <2> DEFINE r == Append(queue, x)
  <2>1. /\ IsSeq(r) /\ FramesInv(r, Len(log))
        /\ \A i : Answered(r, i) <=> Answered(queue, i)
        /\ \A i : Answered(queue, i) => r[i] = queue[i]
        /\ Marker(queue) => Marker(r)
        /\ x.k = "overflow" => Marker(r)
    BY <1>0, <1>3, Enqueued
  <2> HIDE DEF r
  <2>2. conn.owed => conn'.owed \/ Marker(r)
    BY <1>3, <2>1
  <2>3. FeedInv(Len(log), conn', r, fetches, app, view, dropped)
    BY <1>0, <1>3, <2>1, <2>2, QueueGrows
  <2> QED BY <1>1, <1>3, <2>3 DEF DropInv, r
<1>4. CASE FX!StatusDown
  <2>1. ConnInv(conn', Len(log)) /\ conn'.owed = conn.owed
    BY <1>0, <1>4 DEF FX!StatusDown, ConnInv
  <2>2. queue' = Append(queue, [k |-> "status", up |-> FALSE]) /\ UNCHANGED dropped
    BY <1>4 DEF FX!StatusDown, FX!Send
  <2> QED BY <1>3, <2>1, <2>2
<1>5. CASE FX!StatusUp
  <2>1. ConnInv(conn', Len(log)) /\ conn'.owed = conn.owed
    BY <1>0, <1>5 DEF FX!StatusUp, ConnInv
  <2>2. queue' = Append(queue, [k |-> "status", up |-> TRUE]) /\ UNCHANGED dropped
    BY <1>5 DEF FX!StatusUp, FX!Send
  <2> QED BY <1>3, <2>1, <2>2
<1>6. ASSUME NEW pc, FX!Subscription(pc)
      PROVE  ConnInv(conn', Len(log)) /\ conn'.owed = conn.owed /\ UNCHANGED dropped
  <2>1. /\ conn' = [conn EXCEPT !.pc = pc, !.sub = "open", !.pos = Len(log), !.once = TRUE]
        /\ UNCHANGED dropped
    BY <1>6 DEF FX!Subscription
  <2>2. conn'.pos = Len(log) /\ conn'.owed = conn.owed
    BY <1>0, <2>1 DEF ConnInv
  <2>3. conn' = [pc |-> conn'.pc, sub |-> conn'.sub, pos |-> conn'.pos, owed |-> conn'.owed,
                 once |-> conn'.once]
    BY <1>0, <2>1 DEF ConnInv
  <2> QED BY <1>0, <2>1, <2>2, <2>3 DEF ConnInv
<1>7. CASE FX!Connect
  <2>1. UNCHANGED queue
    BY <1>7 DEF FX!Connect
  <2>2. CASE FX!Subscription("announce")
    BY <1>2, <1>6, <2>1, <2>2
  <2>3. CASE /\ conn' = [conn EXCEPT !.pc = "announce", !.sub = "upgraded"]
             /\ UNCHANGED <<missed, dropped>>
    <3>1. conn'.pos = conn.pos /\ conn'.owed = conn.owed
      BY <1>0, <2>3 DEF ConnInv
    <3>2. conn' = [pc |-> conn'.pc, sub |-> conn'.sub, pos |-> conn'.pos, owed |-> conn'.owed,
                   once |-> conn'.once]
      BY <1>0, <2>3 DEF ConnInv
    <3>3. ConnInv(conn', Len(log))
      BY <1>0, <3>1, <3>2 DEF ConnInv
    <3> QED BY <1>2, <2>1, <2>3, <3>1, <3>3
  <2> QED BY <1>7, <2>2, <2>3, Zenon DEF FX!Connect
<1>8. CASE FX!Subscribe
  <2>1. UNCHANGED queue /\ FX!Subscription(conn.pc)
    BY <1>8 DEF FX!Subscribe
  <2> QED BY <1>2, <1>6, <2>1
<1>9. CASE FX!PumpDebt
  <2>1. PICK pc : conn' = [conn EXCEPT !.owed = FALSE, !.pc = pc]
    BY <1>9 DEF FX!PumpDebt
  <2>2. conn'.pos = conn.pos
    BY <1>0, <2>1 DEF ConnInv
  <2>3. conn' = [pc |-> conn'.pc, sub |-> conn'.sub, pos |-> conn'.pos, owed |-> conn'.owed,
                 once |-> conn'.once]
    BY <1>0, <2>1 DEF ConnInv
  <2>4. ConnInv(conn', Len(log))
    BY <1>0, <2>2, <2>3 DEF ConnInv
  <2>5. queue' = Append(queue, [k |-> "overflow"]) /\ UNCHANGED dropped
    BY <1>9 DEF FX!PumpDebt, FX!Send
  <2> QED BY <1>3, <2>4, <2>5
<1>10. CASE FX!LagClose \/ FX!Break
  <2>1. PICK pc : conn' = [conn EXCEPT !.pc = pc, !.sub = "none"]
    BY <1>10 DEF FX!LagClose, FX!Break, FX!Closed
  <2>2. conn'.pos = conn.pos /\ conn'.owed = conn.owed
    BY <1>0, <2>1 DEF ConnInv
  <2>3. conn' = [pc |-> conn'.pc, sub |-> conn'.sub, pos |-> conn'.pos, owed |-> conn'.owed,
                 once |-> conn'.once]
    BY <1>0, <2>1 DEF ConnInv
  <2>4. ConnInv(conn', Len(log))
    BY <1>0, <2>2, <2>3 DEF ConnInv
  <2>5. UNCHANGED <<queue, dropped>>
    BY <1>10 DEF FX!LagClose, FX!Break, FX!Closed
  <2> QED BY <1>2, <2>2, <2>4, <2>5
<1>11. CASE FX!PumpFrame
  <2> DEFINE fits == ~ conn.owed /\ FX!Room
             x == [k |-> "frame", n |-> conn.pos + 1]
  <2>1. /\ FX!Unread
        /\ conn' = [conn EXCEPT !.pos = conn.pos + 1, !.owed = ~ fits]
        /\ queue' = IF fits THEN Append(queue, x) ELSE queue
        /\ dropped' = IF fits THEN dropped ELSE conn.pos + 1
    BY <1>11 DEF FX!PumpFrame
  <2>2. conn'.pos = conn.pos + 1 /\ (conn'.owed <=> (~ fits))
    BY <1>0, <2>1 DEF ConnInv
  <2>3. conn' = [pc |-> conn'.pc, sub |-> conn'.sub, pos |-> conn'.pos, owed |-> conn'.owed,
                 once |-> conn'.once]
    BY <1>0, <2>1 DEF ConnInv
  <2>4. conn.pos \in Nat /\ conn.pos + 1 <= Len(log)
    BY <1>0, <2>1 DEF ConnInv, FX!Unread
  <2>5. ConnInv(conn', Len(log))
    BY <1>0, <2>2, <2>3, <2>4 DEF ConnInv
  <2>6. CASE fits
    <3>1. x.k # "fetched" /\ x.n \in 1 .. Len(log)
      BY <1>0, <2>4
    <3> HIDE DEF x
    <3> DEFINE r == Append(queue, x)
    <3>2. /\ IsSeq(r) /\ FramesInv(r, Len(log))
          /\ \A i : Answered(r, i) <=> Answered(queue, i)
          /\ \A i : Answered(queue, i) => r[i] = queue[i]
          /\ Marker(queue) => Marker(r)
      BY <1>0, <3>1, Enqueued
    <3> HIDE DEF r
    <3>3. FeedInv(Len(log), conn', r, fetches, app, view, dropped)
      BY <1>0, <2>5, <2>6, <3>2, QueueGrows
    <3> QED BY <1>1, <2>1, <2>6, <3>3 DEF DropInv, r
  <2>7. CASE ~ fits
    <3>0. conn'.owed /\ conn.pos + 1 \in Nat
      BY <2>2, <2>4, <2>7
    <3> HIDE DEF fits
    <3>1. FeedInv(Len(log), conn', queue, fetches, app, view, conn.pos + 1)
      BY <1>0, <2>4, <2>5, <3>0, QueueGrows
    <3> QED BY <1>1, <2>1, <2>7, <3>1 DEF DropInv
  <2> QED BY <2>6, <2>7
<1> QED BY <1>4, <1>5, <1>7, <1>8, <1>9, <1>10, <1>11 DEF FX!Link, FX!Pump

\* fetch_messages of the view `v`, by the state `a` of the rest.
LEMMA FetchingStep ==
    ASSUME NEW q, NEW a, NEW v, NEW old,
           FeedInv(Len(log), conn, q, fetches, a, old, dropped), FX!Fetching(v, a),
           ViewInv(v, Len(log)), v.at = old.at, v.stale = old.stale
    PROVE  FeedInv(Len(log), conn, q, fetches', app', view', dropped)
<1> DEFINE f == [gen |-> a.gen + 1, searching |-> v.searching, offset |-> v.offset,
                 pc |-> "sent", page |-> << >>, total |-> 0, at |-> 0]
<1>1. /\ app' = [a EXCEPT !.loading = TRUE, !.gen = a.gen + 1]
      /\ fetches' = fetches \cup {f} /\ view' = v
  BY DEF FX!Fetching
<1>2. AppInv(a) /\ Len(log) \in Nat
  BY DEF FeedInv
<1>3. app'.loading /\ app'.gen = a.gen + 1
  BY <1>1, <1>2 DEF AppInv
<1>4. app' = [loading |-> app'.loading, gen |-> app'.gen, connected |-> app'.connected,
              ever |-> app'.ever, pending |-> app'.pending, overflowed |-> app'.overflowed]
  BY <1>1, <1>2 DEF AppInv
<1>5. AppInv(app') /\ a.gen + 1 \in Nat
  BY <1>2, <1>3, <1>4 DEF AppInv
<1>6. FetchInv(f, Len(log), app'.gen) /\ f.gen = app'.gen /\ f.pc = "sent"
  BY <1>2, <1>3, <1>5 DEF FetchInv
<1> HIDE DEF f
<1>7. FeedInv(Len(log), conn, q, fetches \cup {f}, app', v, dropped)
  BY <1>3, <1>5, <1>6, NewGeneration
<1> QED BY <1>1, <1>7

\* Ticks, searches and pages keep the invariant.
LEMMA ViewStep ==
    ASSUME DropInv, FX!Tick \/ FX!Search \/ FX!NextPage \/ FX!PrevPage
    PROVE  DropInv'
<1>0. FeedInv(Len(log), conn, queue, fetches, app, view, dropped) /\ ViewInv(view, Len(log))
  BY DEF DropInv, FeedInv
<1>1. /\ UNCHANGED <<log, conn, queue, dropped>>
      /\ \/ FX!Fetching(view, app)
         \/ \E o, s : FX!Fetching([view EXCEPT !.searching = s, !.offset = o], app)
         \/ \E o : FX!Fetching([view EXCEPT !.offset = o], app)
  BY DEF FX!Tick, FX!Search, FX!NextPage, FX!PrevPage, FX!ChangeView, FX!server
<1>2. ASSUME NEW v, FX!Fetching(v, app), ViewInv(v, Len(log)), v.at = view.at, v.stale = view.stale
      PROVE  DropInv'
  <2>1. FeedInv(Len(log), conn, queue, fetches', app', view', dropped)
    BY <1>0, <1>2, FetchingStep
  <2> QED BY <1>1, <2>1 DEF DropInv
<1>3. CASE FX!Fetching(view, app)
  BY <1>0, <1>2, <1>3
<1>4. ASSUME NEW o, NEW s, NEW v, v = [view EXCEPT !.searching = s, !.offset = o],
             FX!Fetching(v, app)
      PROVE  DropInv'
  <2>1. v.at = view.at /\ v.stale = view.stale
    BY <1>0, <1>4 DEF ViewInv
  <2>2. v = [list |-> v.list, total |-> v.total, stale |-> v.stale, offset |-> v.offset,
             searching |-> v.searching, at |-> v.at]
    BY <1>0, <1>4 DEF ViewInv
  <2>3. ViewInv(v, Len(log))
    BY <1>0, <2>1, <2>2 DEF ViewInv
  <2> QED BY <1>2, <1>4, <2>1, <2>3
<1>5. ASSUME NEW o, NEW v, v = [view EXCEPT !.offset = o], FX!Fetching(v, app)
      PROVE  DropInv'
  <2>1. v.at = view.at /\ v.stale = view.stale
    BY <1>0, <1>5 DEF ViewInv
  <2>2. v = [list |-> v.list, total |-> v.total, stale |-> v.stale, offset |-> v.offset,
             searching |-> v.searching, at |-> v.at]
    BY <1>0, <1>5 DEF ViewInv
  <2>3. ViewInv(v, Len(log))
    BY <1>0, <2>1, <2>2 DEF ViewInv
  <2> QED BY <1>2, <1>5, <2>1, <2>3
<1> QED BY <1>1, <1>3, <1>4, <1>5

\* Every event the terminal takes from its queue keeps the invariant.
LEMMA DispatchStep ==
    ASSUME DropInv, ArrivalInv, FX!Dispatch
    PROVE  DropInv'
<1>0. /\ FeedInv(Len(log), conn, queue, fetches, app, view, dropped)
      /\ IsSeq(queue) /\ FramesInv(queue, Len(log)) /\ AppInv(app) /\ ViewInv(view, Len(log))
      /\ Len(log) \in Nat
  BY DEF DropInv, FeedInv, RequestsInv
<1>1. /\ queue # << >> /\ queue' = Tail(queue) /\ UNCHANGED <<log, conn, dropped>>
  BY DEF FX!Dispatch, FX!HandleWsMessage, FX!HandleWsOverflow, FX!HandleWsStatus,
     FX!HandleMessagesFetched, FX!HandleOwn, FX!Taking, FX!server
<1>2. Head(queue).k # "overflow" =>
        FeedInv(Len(log), conn, Tail(queue), fetches, app, view, dropped)
  BY <1>0, <1>1, QueueShrinks
<1>3. ASSUME Head(queue).k # "overflow", UNCHANGED fetches, AppInv(app'), ViewInv(view', Len(log)),
             app'.gen = app.gen, app'.loading = app.loading, app.overflowed => app'.overflowed,
             view'.at = view.at, view.stale => view'.stale
      PROVE  DropInv'
  <2>1. FeedInv(Len(log), conn, Tail(queue), fetches, app', view', dropped)
    BY <1>2, <1>3, ListChanges
  <2> QED BY <1>1, <1>3, <2>1 DEF DropInv
<1>4. CASE FX!HandleWsMessage
  <2> DEFINE e == Head(queue)
  <2>1. /\ e.k = "frame" /\ UNCHANGED fetches
        /\ app' = IF app.loading THEN FX!Record(app, e.n) ELSE app
        /\ view' = FX!Live(view, log[e.n])
    BY <1>4, Zenon DEF FX!HandleWsMessage
  <2>2. e.n \in 1 .. Len(log)
    BY <1>0, <1>1, <2>1, Dequeued
  <2>3. log[e.n] \in FX!Events
    BY <2>2 DEF ArrivalInv
  <2> HIDE DEF e
  <2>4. ViewInv(view', Len(log)) /\ view'.at = view.at /\ (view.stale => view'.stale)
    BY <1>0, <2>1, <2>3, LiveKeeps
  <2>5. /\ AppInv(app') /\ app'.gen = app.gen /\ app'.loading = app.loading
        /\ app.overflowed => app'.overflowed
    <3>1. CASE app' = app
      BY <1>0, <3>1
    <3>2. ASSUME NEW p, app' = [app EXCEPT !.pending = p] PROVE <2>5!:
      BY <1>0, <3>2 DEF AppInv
    <3>3. CASE app' = [app EXCEPT !.pending = << >>, !.overflowed = TRUE]
      <4>1. app'.gen = app.gen /\ app'.loading = app.loading /\ app'.overflowed
        BY <1>0, <3>3 DEF AppInv
      <4>2. app' = [loading |-> app'.loading, gen |-> app'.gen, connected |-> app'.connected,
                    ever |-> app'.ever, pending |-> app'.pending, overflowed |-> app'.overflowed]
        BY <1>0, <3>3 DEF AppInv
      <4> QED BY <1>0, <4>1, <4>2 DEF AppInv
    <3> QED BY <2>1, <3>1, <3>2, <3>3 DEF FX!Record
  <2> QED BY <1>3, <2>1, <2>4, <2>5 DEF e
<1>5. CASE FX!HandleWsOverflow
  <2>1. /\ UNCHANGED fetches
        /\ view' = [view EXCEPT !.stale = TRUE]
        /\ app' = IF app.loading THEN [app EXCEPT !.overflowed = TRUE] ELSE app
    BY <1>5, Zenon DEF FX!HandleWsOverflow
  <2>2. view'.at = view.at /\ view'.stale
    BY <1>0, <2>1 DEF ViewInv
  <2>3. view' = [list |-> view'.list, total |-> view'.total, stale |-> view'.stale,
                 offset |-> view'.offset, searching |-> view'.searching, at |-> view'.at]
    BY <1>0, <2>1 DEF ViewInv
  <2>4. ViewInv(view', Len(log))
    BY <1>0, <2>2, <2>3 DEF ViewInv
  <2>5. /\ AppInv(app') /\ app'.gen = app.gen /\ app'.loading = app.loading
        /\ app.loading => app'.overflowed
    <3>1. CASE ~ app.loading
      BY <1>0, <2>1, <3>1
    <3>2. CASE app.loading
      <4>0. app' = [app EXCEPT !.overflowed = TRUE]
        BY <2>1, <3>2
      <4>1. app'.gen = app.gen /\ app'.loading = app.loading /\ app'.overflowed
        BY <1>0, <4>0 DEF AppInv
      <4>2. app' = [loading |-> app'.loading, gen |-> app'.gen, connected |-> app'.connected,
                    ever |-> app'.ever, pending |-> app'.pending, overflowed |-> app'.overflowed]
        BY <1>0, <4>0 DEF AppInv
      <4> QED BY <1>0, <4>1, <4>2 DEF AppInv
    <3> QED BY <3>1, <3>2
  <2>6. FeedInv(Len(log), conn, Tail(queue), fetches, app', view', dropped)
    BY <1>0, <1>1, <2>2, <2>4, <2>5, MarkerTaken
  <2> QED BY <1>1, <2>1, <2>6 DEF DropInv
<1>6. CASE FX!HandleWsStatus
  <2>1. PICK a, up, ever :
          /\ Head(queue).k = "status"
          /\ a = [app EXCEPT !.connected = up, !.ever = ever]
          /\ FX!Fetching(view, a) \/ (app' = a /\ UNCHANGED <<fetches, view>>)
    BY <1>6 DEF FX!HandleWsStatus
  <2>2. a.gen = app.gen /\ a.loading = app.loading /\ a.overflowed = app.overflowed
    BY <1>0, <2>1 DEF AppInv
  <2>3. a = [loading |-> a.loading, gen |-> a.gen, connected |-> a.connected,
             ever |-> a.ever, pending |-> a.pending, overflowed |-> a.overflowed]
    BY <1>0, <2>1 DEF AppInv
  <2>4. AppInv(a)
    BY <1>0, <2>2, <2>3 DEF AppInv
  <2>5. FeedInv(Len(log), conn, Tail(queue), fetches, a, view, dropped)
    BY <1>0, <1>2, <2>1, <2>2, <2>4, ListChanges
  <2>6. CASE FX!Fetching(view, a)
    <3>1. FeedInv(Len(log), conn, Tail(queue), fetches', app', view', dropped)
      BY <1>0, <2>5, <2>6, FetchingStep
    <3> QED BY <1>1, <3>1 DEF DropInv
  <2>7. CASE app' = a /\ UNCHANGED <<fetches, view>>
    BY <1>1, <2>5, <2>7 DEF DropInv
  <2> QED BY <2>1, <2>6, <2>7
<1>7. CASE FX!HandleMessagesFetched
  <2> DEFINE e == Head(queue)
             shown == FX!ReplayDeltas([view EXCEPT !.list = e.fetch.page, !.total = e.fetch.total,
                                                   !.stale = FALSE], app.pending)
  <2>1. /\ e.k = "fetched" /\ UNCHANGED fetches
        /\ IF e.fetch.gen # app.gen THEN UNCHANGED <<app, view>>
           ELSE /\ app' = [app EXCEPT !.loading = FALSE, !.pending = << >>, !.overflowed = FALSE]
                /\ view' = IF ~ e.ok THEN view
                           ELSE [view EXCEPT !.list = shown.list, !.total = shown.total,
                                             !.stale = app.overflowed \/ shown.stale,
                                             !.at = e.fetch.at]
    BY <1>7, Zenon DEF FX!HandleMessagesFetched
  <2> HIDE DEF shown
  <2>2. CASE e.fetch.gen # app.gen
    BY <1>0, <1>3, <2>1, <2>2
  <2>3. CASE e.fetch.gen = app.gen
    <3>1. /\ app' = [app EXCEPT !.loading = FALSE, !.pending = << >>, !.overflowed = FALSE]
          /\ view' = IF ~ e.ok THEN view
                     ELSE [view EXCEPT !.list = shown.list, !.total = shown.total,
                                       !.stale = app.overflowed \/ shown.stale,
                                       !.at = e.fetch.at]
      BY <2>1, <2>3
    <3>2. app'.gen = app.gen
      BY <1>0, <3>1 DEF AppInv
    <3>3. app' = [loading |-> app'.loading, gen |-> app'.gen, connected |-> app'.connected,
                  ever |-> app'.ever, pending |-> app'.pending, overflowed |-> app'.overflowed]
      BY <1>0, <3>1 DEF AppInv
    <3>4. AppInv(app')
      BY <1>0, <3>2, <3>3 DEF AppInv
    <3>5. e.fetch.at \in Nat /\ e.fetch.at <= Len(log)
      <4>1. Answered(queue, 1) /\ e = queue[1]
        BY <1>0, <1>1, <2>1, Dequeued
      <4>2. FetchInv(queue[1].fetch, Len(log), app.gen)
        BY <1>0, <4>1 DEF FeedInv, RequestsInv
      <4> QED BY <4>1, <4>2 DEF FetchInv
    <3> HIDE DEF e
    <3>6. /\ ViewInv(view', Len(log))
          /\ view' = view \/ (e.ok /\ view'.at = e.fetch.at /\ (app.overflowed => view'.stale))
      <4>1. CASE ~ e.ok
        BY <1>0, <3>1, <4>1
      <4>2. CASE e.ok
        <5>1. view' = [view EXCEPT !.list = shown.list, !.total = shown.total,
                                   !.stale = app.overflowed \/ shown.stale, !.at = e.fetch.at]
          BY <3>1, <4>2
        <5>2. view'.at = e.fetch.at /\ (app.overflowed => view'.stale)
          BY <1>0, <5>1 DEF ViewInv
        <5>3. view' = [list |-> view'.list, total |-> view'.total, stale |-> view'.stale,
                       offset |-> view'.offset, searching |-> view'.searching, at |-> view'.at]
          BY <1>0, <5>1 DEF ViewInv
        <5> QED BY <3>5, <4>2, <5>2, <5>3 DEF ViewInv
      <4> QED BY <4>1, <4>2
    <3>7. FeedInv(Len(log), conn, Tail(queue), fetches, app', view', dropped)
      BY <1>0, <1>1, <2>1, <2>3, <3>2, <3>4, <3>6, AnswerTaken DEF e
    <3> QED BY <1>1, <2>1, <3>7 DEF DropInv
  <2> QED BY <2>2, <2>3
<1>8. CASE FX!HandleOwn
  <2>1. /\ Head(queue).k # "overflow" /\ UNCHANGED <<app, fetches>>
        /\ \E l : view' = [view EXCEPT !.list = l]
    <3>1. /\ Head(queue).k \in {"patched", "deleted", "cleared"} /\ UNCHANGED <<app, fetches>>
          /\ view' = CASE Head(queue).k = "patched" -> FX!ApplyUpdate(view, Head(queue))
                       [] Head(queue).k = "deleted" ->
                            [view EXCEPT !.list = FX!Dropped(view.list, Head(queue).id)]
                       [] Head(queue).k = "cleared" -> [view EXCEPT !.list = << >>]
      BY <1>8 DEF FX!HandleOwn
    <3> QED BY <3>1 DEF FX!ApplyUpdate
  <2>2. view'.at = view.at /\ view'.stale = view.stale /\ ViewInv(view', Len(log))
    BY <1>0, <2>1 DEF ViewInv
  <2> QED BY <1>0, <1>3, <2>1, <2>2
<1> QED BY <1>4, <1>5, <1>6, <1>7, <1>8 DEF FX!Dispatch

\* The invariant holds when the terminal starts.
LEMMA FeedInit ==
    ASSUME FX!Init
    PROVE  ArrivalInv /\ DropInv
<1>1. /\ box = << >> /\ arrivals = << >> /\ jobs = {} /\ log = << >>
      /\ conn = [pc |-> "down", sub |-> "none", pos |-> 0, owed |-> FALSE, once |-> FALSE]
      /\ queue = << >>
      /\ fetches = {[gen |-> 1, searching |-> FALSE, offset |-> 0,
                     pc |-> "sent", page |-> << >>, total |-> 0, at |-> 0]}
      /\ app = [loading |-> TRUE, gen |-> 1, connected |-> FALSE,
                ever |-> FALSE, pending |-> << >>, overflowed |-> FALSE]
      /\ view = [list |-> << >>, total |-> 0, stale |-> FALSE, offset |-> 0,
                 searching |-> FALSE, at |-> 0]
      /\ spent = [ids |-> 0, writes |-> 0, breaks |-> 0, user |-> 0]
      /\ dropped = 0
  BY DEF FX!Init
<1>2. ArrivalInv
  <2>1. arrivals \in Seq(FX!Events) /\ log \in Seq(FX!Events) /\ Len(arrivals) = 0
        /\ DOMAIN arrivals = {} /\ DOMAIN log = {} /\ DOMAIN box = {}
    BY <1>1
  <2>2. spent.ids = 0 /\ spent = [ids |-> spent.ids, writes |-> spent.writes,
                                  breaks |-> spent.breaks, user |-> spent.user]
    BY <1>1
  <2> QED BY <1>1, <2>1, <2>2 DEF ArrivalInv, FX!ArrivalsInOrder
<1>3. /\ IsSeq(queue) /\ DOMAIN queue = {} /\ Len(log) = 0
  <2>1. queue \in Seq({})
    BY <1>1
  <2> QED BY <1>1, <2>1 DEF IsSeq
<1>4. \A i : ~ Answered(queue, i)
  BY <1>3 DEF Answered
<1>5. ConnInv(conn, 0) /\ AppInv(app) /\ ViewInv(view, 0) /\ view.at = 0 /\ app.gen = 1 /\ app.loading
  BY <1>1 DEF ConnInv, AppInv, ViewInv
<1>6. ASSUME NEW f \in fetches
      PROVE  FetchInv(f, 0, 1) /\ f.pc = "sent"
  BY <1>1 DEF FetchInv
<1>7. RequestsInv(0, queue, fetches, 1)
  BY <1>3, <1>4, <1>6 DEF RequestsInv
<1>8. CurrentInv(queue, fetches, 1)
  BY <1>1, <1>4 DEF CurrentInv
<1>9. LoadingInv(queue, fetches, 1, app.loading) /\ FramesInv(queue, 0) /\ Past(queue, fetches, 1, 0)
  BY <1>3, <1>4, <1>5, <1>6 DEF LoadingInv, FramesInv, Past
<1>10. DebtInv(conn, queue, fetches, app, view, 0)
  BY <1>5 DEF DebtInv
<1>11. dropped = 0
  BY <1>1
<1>12. FeedInv(0, conn, queue, fetches, app, view, 0)
  <2>1. /\ RequestsInv(0, queue, fetches, app.gen) /\ CurrentInv(queue, fetches, app.gen)
        /\ LoadingInv(queue, fetches, app.gen, app.loading) /\ Past(queue, fetches, app.gen, view.at)
    BY <1>5, <1>7, <1>8, <1>9, Zenon
  <2>2. 0 \in Nat /\ 0 <= 0
    OBVIOUS
  <2> QED BY <1>5, <1>9, <1>10, <2>1, <2>2, Zenon DEF FeedInv
<1> QED BY <1>2, <1>3, <1>11, <1>12 DEF DropInv

\* Every step of the feed keeps the invariant.
LEMMA DropStep ==
    ASSUME ArrivalInv, DropInv, FX!Next
    PROVE  DropInv'
<1>1. Len(log') \in Nat /\ Len(log) <= Len(log')
  BY LogGrows
<1>2. CASE \/ \E n \in 1 .. BatchSize : FX!Insert(n)
           \/ FX!OthersWrite \/ FX!UserWrites \/ FX!Announce
           \/ \E job \in jobs : FX!AbandonJob(job)
  <2>1. UNCHANGED <<conn, queue, fetches, app, view, dropped>>
    BY <1>2 DEF FX!Insert, FX!OthersWrite, FX!UserWrites, FX!UpdateMessage, FX!DeleteMessage,
       FX!DeleteAllMessages, FX!RetentionTrim, FX!Job, FX!Announce, FX!AnnounceArrival,
       FX!AnnounceJob, FX!AbandonJob, FX!client
  <2> QED BY <1>1, <2>1, ServerStep
<1>3. CASE \E job \in jobs : FX!AnswerJob(job)
  BY <1>3, OwnAnswerStep
<1>4. CASE FX!Serve \/ \E f \in fetches : FX!FailFetch(f)
  BY <1>4, ServeStep DEF FX!Serve
<1>5. CASE FX!Link \/ FX!Pump \/ FX!Break
  BY <1>5, LinkStep
<1>6. CASE FX!Dispatch
  BY <1>6, DispatchStep
<1>7. CASE FX!Tick \/ FX!Search \/ FX!NextPage \/ FX!PrevPage
  BY <1>7, ViewStep
<1> QED BY <1>2, <1>3, <1>4, <1>5, <1>6, <1>7, Zenon DEF FX!Next


-----------------------------------------------------------------------------
(* What a connection missed is read again *)

Up(q, i) == i \in DOMAIN q /\ q[i].k = "status" /\ q[i].up
Down(q, i) == i \in DOMAIN q /\ q[i].k = "status" /\ ~ q[i].up
NoUp(q) == \A i : ~ Up(q, i)

\* The last status the interface will have seen before it takes message `n`,
\* or once it has taken all of them, is "down".
QuietBefore(q, up, n) ==
    \/ \E j : Down(q, j) /\ j < n /\ \A k : Up(q, k) => ~ (j < k /\ k < n)
    \/ ~ up /\ \A k : Up(q, k) => ~ (k < n)
QuietEnd(q, up) ==
    \/ \E j : Down(q, j) /\ \A k : Up(q, k) => k < j
    \/ ~ up /\ NoUp(q)

\* The statuses alternate, so that an "up" always finds the interface down.
StatusInv(C, q, a) ==
    /\ \A i : Up(q, i) => QuietBefore(q, a.connected, i)
    /\ C.pc \in {"connecting", "announce"} => QuietEnd(q, a.connected)

\* No "up" has been queued yet.
Fresh(q, a) == ~ a.ever /\ NoUp(q)

\* Until the first subscription nothing has been read.
FirstInv(C, q, R, a) ==
    /\ C.sub # "upgraded"
    /\ Fresh(q, a) => ~ C.once \/ C.pc = "announce"
    /\ ~ C.once => /\ C.pc \in {"down", "connecting"}
                   /\ \A f \in R : f.pc = "sent"
                   /\ \A i : ~ Answered(q, i)
                   /\ \E f \in R : f.gen = a.gen

OkInv(q) == \A i : Answered(q, i) => q[i].ok

\* A list is on its way.
Current(q, R, g) ==
    \/ \E f \in R : f.gen = g
    \/ \E i : Answered(q, i) /\ q[i].fetch.gen = g

\* An "up" is on its way that is not the first one: it asks for the list.
Coming(C, q, a) ==
    \/ C.pc # "pump" /\ (a.ever \/ ~ NoUp(q))
    \/ \E i : Up(q, i) /\ (a.ever \/ \E j : Up(q, j) /\ j < i)

\* A full read is owed, stale or on its way that comes after event `n`.
Repair(C, q, R, a, v, n) ==
    \/ C.owed \/ Marker(q) \/ a.overflowed
    \/ Past(q, R, a.gen, n) /\ (v.stale \/ Current(q, R, a.gen))

ResyncInv(L, C, q, R, a, v, n) ==
    /\ n \in Nat /\ n <= L
    /\ StatusInv(C, q, a) /\ FirstInv(C, q, R, a) /\ OkInv(q)
    /\ n > v.at => Repair(C, q, R, a, v, n) \/ Coming(C, q, a)

\* The same, of the variables.
MissInv == ResyncInv(Len(log), conn, queue, fetches, app, view, missed)

\* Statuses when a message enters the queue, and when one leaves it.
LEMMA StatusEntered ==
    ASSUME NEW q, NEW x, IsSeq(q)
    PROVE  LET r == Append(q, x)
           IN  /\ \A i : Up(q, i) => i \in Int /\ i < Len(q) + 1 /\ Up(r, i)
               /\ \A i : Down(q, i) => i \in Int /\ i < Len(q) + 1 /\ Down(r, i)
               /\ \A i : Up(r, i) => Up(q, i) \/ (i = Len(q) + 1 /\ x.k = "status" /\ x.up)
               /\ x.k = "status" /\ x.up => Up(r, Len(q) + 1)
               /\ x.k = "status" /\ ~ x.up => Down(r, Len(q) + 1)
               /\ Len(q) \in Nat
<1> DEFINE r == Append(q, x)
<1>1. /\ Len(q) \in Nat /\ DOMAIN q = 1 .. Len(q) /\ DOMAIN r = 1 .. Len(q) + 1
      /\ \A i \in DOMAIN q : r[i] = q[i]
      /\ r[Len(q) + 1] = x
  BY Appended
<1> HIDE DEF r
<1>2. \A i \in DOMAIN q : i \in Int /\ i < Len(q) + 1 /\ i \in DOMAIN r
  BY <1>1
<1>3. \A i \in DOMAIN r : i \in DOMAIN q \/ i = Len(q) + 1
  BY <1>1
<1>4. Len(q) + 1 \in DOMAIN r
  BY <1>1
<1>5. \A i : Up(q, i) => i \in Int /\ i < Len(q) + 1 /\ Up(r, i)
  BY <1>1, <1>2 DEF Up
<1>6. \A i : Down(q, i) => i \in Int /\ i < Len(q) + 1 /\ Down(r, i)
  BY <1>1, <1>2 DEF Down
<1>7. ASSUME NEW i, Up(r, i), ~ Up(q, i) PROVE i = Len(q) + 1 /\ x.k = "status" /\ x.up
  BY <1>1, <1>3, <1>7 DEF Up
<1>8. /\ x.k = "status" /\ x.up => Up(r, Len(q) + 1)
      /\ x.k = "status" /\ ~ x.up => Down(r, Len(q) + 1)
  BY <1>1, <1>4 DEF Up, Down
<1> QED BY <1>1, <1>5, <1>6, <1>7, <1>8 DEF r

\* The statuses and answers left once the head of the queue is taken.
LEMMA StatusLeft ==
    ASSUME NEW q, IsSeq(q), q # << >>
    PROVE  LET r == Tail(q)
           IN  /\ \A i : Up(q, i) => i \in Int /\ i >= 1 /\ (i = 1 \/ Up(r, i - 1))
               /\ \A i : Down(q, i) => i \in Int /\ i >= 1 /\ (i = 1 \/ Down(r, i - 1))
               /\ \A i : Up(r, i) => i \in Int /\ i >= 1 /\ Up(q, i + 1)
               /\ \A i : Answered(q, i) =>
                     i \in Int /\ (i = 1 \/ (Answered(r, i - 1) /\ r[i - 1] = q[i]))
               /\ Up(q, 1) <=> Head(q).k = "status" /\ Head(q).up
               /\ Down(q, 1) <=> Head(q).k = "status" /\ ~ Head(q).up
<1> DEFINE r == Tail(q)
<1>1. /\ Len(q) \in Nat \ {0} /\ DOMAIN q = 1 .. Len(q) /\ 1 \in DOMAIN q
      /\ DOMAIN r = 1 .. Len(q) - 1 /\ Head(q) = q[1]
      /\ \A i \in DOMAIN r : i + 1 \in DOMAIN q /\ r[i] = q[i + 1]
      /\ \A i \in DOMAIN q : i # 1 => i - 1 \in DOMAIN r /\ r[i - 1] = q[i]
  BY Taken
<1> HIDE DEF r
<1>2. /\ \A i \in DOMAIN q : i \in Int /\ i >= 1
      /\ \A i \in DOMAIN r : i \in Int /\ i >= 1
  BY <1>1
<1>3. \A i : Up(q, i) => i \in Int /\ i >= 1 /\ (i = 1 \/ Up(r, i - 1))
  BY <1>1, <1>2 DEF Up
<1>4. \A i : Down(q, i) => i \in Int /\ i >= 1 /\ (i = 1 \/ Down(r, i - 1))
  BY <1>1, <1>2 DEF Down
<1>5. \A i : Up(r, i) => i \in Int /\ i >= 1 /\ Up(q, i + 1)
  BY <1>1, <1>2 DEF Up
<1>6. \A i : Answered(q, i) => i \in Int /\ (i = 1 \/ (Answered(r, i - 1) /\ r[i - 1] = q[i]))
  BY <1>1, <1>2 DEF Answered
<1>7. /\ Up(q, 1) <=> Head(q).k = "status" /\ Head(q).up
      /\ Down(q, 1) <=> Head(q).k = "status" /\ ~ Head(q).up
  BY <1>1 DEF Up, Down
<1> QED BY <1>3, <1>4, <1>5, <1>6, <1>7 DEF r

\* A message is taken: the next "up" still finds the interface down.
LEMMA StatusTaken ==
    ASSUME NEW q, IsSeq(q), q # << >>, NEW C, NEW a, NEW b, StatusInv(C, q, a),
           Head(q).k # "status" => b.connected = a.connected,
           Head(q).k = "status" => (b.connected <=> Head(q).up)
    PROVE  StatusInv(C, Tail(q), b)
<1> DEFINE r == Tail(q)
<1>1. /\ \A i : Up(q, i) => i \in Int /\ i >= 1 /\ (i = 1 \/ Up(r, i - 1))
      /\ \A i : Down(q, i) => i \in Int /\ i >= 1 /\ (i = 1 \/ Down(r, i - 1))
      /\ \A i : Up(r, i) => i \in Int /\ i >= 1 /\ Up(q, i + 1)
      /\ Up(q, 1) <=> Head(q).k = "status" /\ Head(q).up
      /\ Down(q, 1) <=> Head(q).k = "status" /\ ~ Head(q).up
  BY StatusLeft
<1> HIDE DEF r
<1>2. ASSUME NEW i, Up(r, i) PROVE QuietBefore(r, b.connected, i)
  <2>1. i \in Int /\ i >= 1 /\ QuietBefore(q, a.connected, i + 1)
    BY <1>1, <1>2 DEF StatusInv
  <2>2. CASE \E j : Down(q, j) /\ j < i + 1 /\ \A k : Up(q, k) => ~ (j < k /\ k < i + 1)
    <3>1. PICK j : Down(q, j) /\ j < i + 1 /\ \A k : Up(q, k) => ~ (j < k /\ k < i + 1)
      BY <2>2
    <3>2. j \in Int /\ j >= 1
      BY <1>1, <3>1
    <3>3. CASE j # 1
      <4>1. Down(r, j - 1) /\ j - 1 < i
        BY <1>1, <2>1, <3>1, <3>2, <3>3
      <4>2. ASSUME NEW k, Up(r, k) PROVE ~ (j - 1 < k /\ k < i)
        BY <1>1, <2>1, <3>1, <3>2, <4>2
      <4> QED BY <4>1, <4>2 DEF QuietBefore
    <3>4. CASE j = 1
      <4>1. ~ b.connected
        BY <1>1, <3>1, <3>4
      <4>2. ASSUME NEW k, Up(r, k) PROVE ~ (k < i)
        BY <1>1, <2>1, <3>1, <3>4, <4>2
      <4> QED BY <4>1, <4>2 DEF QuietBefore
    <3> QED BY <3>3, <3>4
  <2>3. CASE ~ a.connected /\ \A k : Up(q, k) => ~ (k < i + 1)
    <3>1. ~ Up(q, 1)
      BY <2>1, <2>3
    <3>2. ~ b.connected
      BY <1>1, <2>3, <3>1
    <3>3. ASSUME NEW k, Up(r, k) PROVE ~ (k < i)
      BY <1>1, <2>1, <2>3, <3>3
    <3> QED BY <3>2, <3>3 DEF QuietBefore
  <2> QED BY <2>1, <2>2, <2>3 DEF QuietBefore
<1>3. ASSUME QuietEnd(q, a.connected) PROVE QuietEnd(r, b.connected)
  <2>2. CASE \E j : Down(q, j) /\ \A k : Up(q, k) => k < j
    <3>1. PICK j : Down(q, j) /\ \A k : Up(q, k) => k < j
      BY <2>2
    <3>2. j \in Int /\ j >= 1
      BY <1>1, <3>1
    <3>3. CASE j # 1
      <4>1. Down(r, j - 1)
        BY <1>1, <3>1, <3>2, <3>3
      <4>2. ASSUME NEW k, Up(r, k) PROVE k < j - 1
        BY <1>1, <3>1, <3>2, <4>2
      <4> QED BY <4>1, <4>2 DEF QuietEnd
    <3>4. CASE j = 1
      <4>1. ~ b.connected
        BY <1>1, <3>1, <3>4
      <4>2. ASSUME NEW k, Up(r, k) PROVE FALSE
        BY <1>1, <3>1, <3>4, <4>2
      <4> QED BY <4>1, <4>2 DEF QuietEnd, NoUp
    <3> QED BY <3>3, <3>4
  <2>3. CASE ~ a.connected /\ NoUp(q)
    <3>1. ~ b.connected
      BY <1>1, <2>3 DEF NoUp
    <3>2. ASSUME NEW k, Up(r, k) PROVE FALSE
      BY <1>1, <2>3, <3>2 DEF NoUp
    <3> QED BY <3>1, <3>2 DEF QuietEnd, NoUp
  <2> QED BY <1>3, <2>2, <2>3 DEF QuietEnd
<1> QED BY <1>2, <1>3 DEF StatusInv, r

\* A message that is neither an answer nor a status enters the queue, or none
\* does, and the connection stays as it is or its pump goes on or ends.
Pumps(C, d) ==
    \/ d = C
    \/ /\ C.pc \in {"pump", "debt"} /\ d.pc \in {"pump", "debt", "down"}
       /\ C.pc # "pump" => d.pc # "pump"
       /\ d.once = C.once /\ d.sub # "upgraded"

\* A pumped frame, or one that is missed and owed, keeps the resync debt.
LEMMA MissKeptByPump ==
    ASSUME NEW L, NEW C, NEW d, NEW q, NEW r, NEW R, NEW a, NEW v, NEW n, NEW m,
           ResyncInv(L, C, q, R, a, v, n), Pumps(C, d),
           m \in Nat, m <= L,
           \A i : Answered(r, i) <=> Answered(q, i),
           \A i : Answered(q, i) => r[i] = q[i],
           \A i : Up(r, i) <=> Up(q, i),
           \A i : Down(q, i) => Down(r, i),
           Marker(q) => Marker(r),
           (m = n /\ (C.owed => d.owed \/ Marker(r))) \/ d.owed
    PROVE  ResyncInv(L, d, r, R, a, v, m)
<1>1. StatusInv(C, q, a) /\ FirstInv(C, q, R, a) /\ OkInv(q)
  BY DEF ResyncInv
<1>2. NoUp(r) <=> NoUp(q)
  BY DEF NoUp
<1>3. d.pc \in {"connecting", "announce"} => C.pc = d.pc
  BY DEF Pumps
<1>4. StatusInv(d, r, a)
  <2>1. \A i : Up(r, i) => QuietBefore(r, a.connected, i)
    BY <1>1 DEF StatusInv, QuietBefore
  <2>2. QuietEnd(q, a.connected) => QuietEnd(r, a.connected)
    BY <1>2 DEF QuietEnd
  <2> QED BY <1>1, <1>3, <2>1, <2>2 DEF StatusInv
<1>5. FirstInv(d, r, R, a)
  <2>1. CASE d = C
    BY <1>1, <1>2, <2>1 DEF FirstInv, Fresh
  <2>2. CASE d # C
    BY <1>1, <1>2, <2>2 DEF FirstInv, Fresh, Pumps
  <2> QED BY <2>1, <2>2
<1>6. OkInv(r)
  BY <1>1 DEF OkInv
<1>7. Past(q, R, a.gen, n) => Past(r, R, a.gen, n)
  BY DEF Past
<1>8. Current(q, R, a.gen) => Current(r, R, a.gen)
  BY DEF Current
<1>9. Coming(C, q, a) => Coming(d, r, a)
  <2>1. C.pc # "pump" => d.pc # "pump"
    BY DEF Pumps
  <2> QED BY <1>2, <2>1 DEF Coming
<1>10. m > v.at => Repair(d, r, R, a, v, m) \/ Coming(d, r, a)
  <2>1. CASE d.owed
    BY <2>1 DEF Repair
  <2>2. CASE m = n /\ (C.owed => d.owed \/ Marker(r))
    BY <1>7, <1>8, <1>9, <2>2 DEF ResyncInv, Repair
  <2> QED BY <2>1, <2>2
<1> QED BY <1>4, <1>5, <1>6, <1>10 DEF ResyncInv

\* StatusDown.
LEMMA MissKeptByDown ==
    ASSUME NEW L, NEW C, NEW d, NEW q, NEW x, NEW R, NEW a, NEW v, NEW n,
           IsSeq(q), ResyncInv(L, C, q, R, a, v, n),
           C.pc = "down", d.pc = "connecting", d.once = C.once, d.sub = C.sub, d.owed = C.owed,
           x.k = "status", ~ x.up
    PROVE  ResyncInv(L, d, Append(q, x), R, a, v, n)
<1> DEFINE r == Append(q, x)
<1>0. StatusInv(C, q, a) /\ FirstInv(C, q, R, a) /\ OkInv(q)
  BY DEF ResyncInv
<1>1. /\ \A i : Up(q, i) => i < Len(q) + 1
      /\ \A i : Up(r, i) <=> Up(q, i)
      /\ \A i : Down(q, i) => Down(r, i)
      /\ Down(r, Len(q) + 1)
  BY StatusEntered
<1>2. /\ \A i : Answered(r, i) <=> Answered(q, i)
      /\ \A i : Answered(q, i) => r[i] = q[i]
      /\ Marker(q) => Marker(r)
  BY Enqueued
<1> HIDE DEF r
<1>3. NoUp(r) <=> NoUp(q)
  BY <1>1 DEF NoUp
<1>4. StatusInv(d, r, a)
  <2>1. \A i : Up(r, i) => QuietBefore(r, a.connected, i)
    BY <1>0, <1>1 DEF StatusInv, QuietBefore
  <2>2. QuietEnd(r, a.connected)
    BY <1>1 DEF QuietEnd
  <2> QED BY <2>1, <2>2 DEF StatusInv
<1>5. FirstInv(d, r, R, a)
  BY <1>0, <1>2, <1>3 DEF FirstInv, Fresh
<1>6. OkInv(r)
  BY <1>0, <1>2 DEF OkInv
<1>7. Past(q, R, a.gen, n) => Past(r, R, a.gen, n)
  BY <1>2 DEF Past
<1>8. Current(q, R, a.gen) => Current(r, R, a.gen)
  BY <1>2 DEF Current
<1>9. Coming(C, q, a) => Coming(d, r, a)
  BY <1>1, <1>3 DEF Coming
<1>10. n > v.at => Repair(d, r, R, a, v, n) \/ Coming(d, r, a)
  BY <1>2, <1>7, <1>8, <1>9 DEF ResyncInv, Repair
<1>11. ResyncInv(L, d, r, R, a, v, n)
  BY <1>4, <1>5, <1>6, <1>10 DEF ResyncInv
<1> QED BY <1>11 DEF r

\* StatusUp.
LEMMA MissKeptByUp ==
    ASSUME NEW L, NEW C, NEW d, NEW q, NEW x, NEW R, NEW a, NEW v, NEW n,
           IsSeq(q), ResyncInv(L, C, q, R, a, v, n),
           C.pc = "announce", d.pc = "pump", d.once = C.once, d.sub = C.sub, d.owed = C.owed,
           x.k = "status", x.up
    PROVE  ResyncInv(L, d, Append(q, x), R, a, v, n)
<1> DEFINE r == Append(q, x)
<1>0. StatusInv(C, q, a) /\ FirstInv(C, q, R, a) /\ OkInv(q)
  BY DEF ResyncInv
<1>1. /\ \A i : Up(q, i) => i \in Int /\ i < Len(q) + 1 /\ Up(r, i)
      /\ \A i : Down(q, i) => i \in Int /\ i < Len(q) + 1 /\ Down(r, i)
      /\ \A i : Up(r, i) => Up(q, i) \/ i = Len(q) + 1
      /\ Up(r, Len(q) + 1) /\ Len(q) \in Nat
  BY StatusEntered
<1>2. /\ \A i : Answered(r, i) <=> Answered(q, i)
      /\ \A i : Answered(q, i) => r[i] = q[i]
      /\ Marker(q) => Marker(r)
  BY Enqueued
<1> HIDE DEF r
<1>3. StatusInv(d, r, a)
  <2>1. ASSUME NEW i, Up(q, i) PROVE QuietBefore(r, a.connected, i)
    <3>1. QuietBefore(q, a.connected, i) /\ i \in Int /\ i < Len(q) + 1
      BY <1>0, <1>1, <2>1 DEF StatusInv
    <3>2. CASE \E j : Down(q, j) /\ j < i /\ \A k : Up(q, k) => ~ (j < k /\ k < i)
      <4>1. PICK j : Down(q, j) /\ j < i /\ \A k : Up(q, k) => ~ (j < k /\ k < i)
        BY <3>2
      <4>2. \A k : Up(r, k) => ~ (j < k /\ k < i)
        BY <1>1, <3>1, <4>1
      <4> QED BY <1>1, <4>1, <4>2 DEF QuietBefore
    <3>3. CASE ~ a.connected /\ \A k : Up(q, k) => ~ (k < i)
      <4>1. \A k : Up(r, k) => ~ (k < i)
        BY <1>1, <3>1, <3>3
      <4> QED BY <3>3, <4>1 DEF QuietBefore
    <3> QED BY <3>1, <3>2, <3>3 DEF QuietBefore
  <2>2. QuietBefore(r, a.connected, Len(q) + 1)
    <3>1. QuietEnd(q, a.connected)
      BY <1>0 DEF StatusInv
    <3>2. CASE \E j : Down(q, j) /\ \A k : Up(q, k) => k < j
      <4>1. PICK j : Down(q, j) /\ \A k : Up(q, k) => k < j
        BY <3>2
      <4>2. \A k : Up(r, k) => ~ (j < k /\ k < Len(q) + 1)
        BY <1>1, <4>1
      <4> QED BY <1>1, <4>1, <4>2 DEF QuietBefore
    <3>3. CASE ~ a.connected /\ NoUp(q)
      <4>1. \A k : Up(r, k) => ~ (k < Len(q) + 1)
        BY <1>1, <3>3 DEF NoUp
      <4> QED BY <3>3, <4>1 DEF QuietBefore
    <3> QED BY <3>1, <3>2, <3>3 DEF QuietEnd
  <2> QED BY <1>1, <2>1, <2>2 DEF StatusInv
<1>4. ~ NoUp(r)
  BY <1>1 DEF NoUp
<1>5. FirstInv(d, r, R, a)
  BY <1>0, <1>2, <1>4 DEF FirstInv, Fresh
<1>6. OkInv(r)
  BY <1>0, <1>2 DEF OkInv
<1>7. Past(q, R, a.gen, n) => Past(r, R, a.gen, n)
  BY <1>2 DEF Past
<1>8. Current(q, R, a.gen) => Current(r, R, a.gen)
  BY <1>2 DEF Current
<1>9. Coming(C, q, a) => Coming(d, r, a)
  <2>1. CASE a.ever \/ ~ NoUp(q)
    <3>1. a.ever \/ \E j : Up(r, j) /\ j < Len(q) + 1
      BY <1>1, <2>1 DEF NoUp
    <3> QED BY <1>1, <3>1 DEF Coming
  <2>2. CASE \E i : Up(q, i) /\ (a.ever \/ \E j : Up(q, j) /\ j < i)
    BY <1>1, <2>2 DEF Coming
  <2> QED BY <2>1, <2>2 DEF Coming
<1>10. n > v.at => Repair(d, r, R, a, v, n) \/ Coming(d, r, a)
  BY <1>2, <1>7, <1>8, <1>9 DEF ResyncInv, Repair
<1>11. ResyncInv(L, d, r, R, a, v, n)
  BY <1>3, <1>5, <1>6, <1>10 DEF ResyncInv
<1> QED BY <1>11 DEF r

\* A subscription: the first one has nothing to make up for that the list on
\* its way will not show, and any other one is announced by an "up".
LEMMA MissKeptBySubscription ==
    ASSUME NEW L, NEW C, NEW d, NEW q, NEW R, NEW a, NEW v, NEW n, NEW m,
           ResyncInv(L, C, q, R, a, v, n), m \in Nat, m <= L,
           C.pc = "connecting", d.pc = "announce", d.once, d.sub = "open"
    PROVE  ResyncInv(L, d, q, R, a, v, m)
<1>0. StatusInv(C, q, a) /\ FirstInv(C, q, R, a) /\ OkInv(q)
  BY DEF ResyncInv
<1>1. StatusInv(d, q, a)
  BY <1>0 DEF StatusInv
<1>2. FirstInv(d, q, R, a)
  BY <1>0 DEF FirstInv
<1>3. Repair(d, q, R, a, v, m) \/ Coming(d, q, a)
  <2>1. CASE C.once
    BY <1>0, <2>1 DEF FirstInv, Fresh, Coming
  <2>2. CASE ~ C.once
    <3>1. Past(q, R, a.gen, m) /\ Current(q, R, a.gen)
      BY <1>0, <2>2 DEF FirstInv, Past, Current
    <3> QED BY <3>1 DEF Repair
  <2> QED BY <2>1, <2>2
<1> QED BY <1>0, <1>1, <1>2, <1>3 DEF ResyncInv

\* The list is asked for again: whatever was missed, it will show.
LEMMA MissKeptByFetching ==
    ASSUME NEW L, NEW C, NEW q, NEW R, NEW a, NEW b, NEW w, NEW n, NEW f,
           n \in Nat, n <= L, StatusInv(C, q, a), FirstInv(C, q, R, a), OkInv(q),
           RequestsInv(L, q, R, a.gen),
           a.gen \in Nat, b.gen = a.gen + 1, b.connected = a.connected, b.ever = a.ever,
           f.gen = b.gen, f.pc = "sent"
    PROVE  ResyncInv(L, C, q, R \cup {f}, b, w, n)
<1> DEFINE G == R \cup {f}
<1>1. ASSUME NEW e, FetchInv(e, L, a.gen) PROVE e.gen # b.gen
  BY <1>1 DEF FetchInv
<1>2. Past(q, G, b.gen, n)
  BY <1>1 DEF Past, RequestsInv
<1>3. Current(q, G, b.gen)
  BY DEF Current
<1>4. StatusInv(C, q, b)
  BY DEF StatusInv
<1>5. FirstInv(C, q, G, b)
  BY DEF FirstInv, Fresh
<1> HIDE DEF G
<1>6. ResyncInv(L, C, q, G, b, w, n)
  BY <1>2, <1>3, <1>4, <1>5 DEF ResyncInv, Repair
<1> QED BY <1>6 DEF G

\* The server's read of a page keeps the resync debt.
LEMMA MissKeptByRead ==
    ASSUME NEW L, NEW C, NEW q, NEW R, NEW a, NEW v, NEW n, NEW f \in R, NEW g,
           L \in Nat, ResyncInv(L, C, q, R, a, v, n), C.once, g.gen = f.gen, Reads(f, g, L)
    PROVE  ResyncInv(L, C, q, (R \ {f}) \cup {g}, a, v, n)
<1> DEFINE G == (R \ {f}) \cup {g}
<1>0. StatusInv(C, q, a) /\ FirstInv(C, q, R, a) /\ OkInv(q) /\ n \in Nat /\ n <= L
  BY DEF ResyncInv
<1>1. Past(q, R, a.gen, n) => Past(q, G, a.gen, n)
  <2>1. ASSUME Past(q, R, a.gen, n), g.gen = a.gen PROVE g.at >= n
    BY <1>0, <2>1 DEF Past, Reads
  <2> QED BY <2>1 DEF Past
<1>2. Current(q, R, a.gen) => Current(q, G, a.gen)
  BY DEF Current
<1>3. FirstInv(C, q, G, a)
  BY <1>0 DEF FirstInv
<1> HIDE DEF G
<1>4. ResyncInv(L, C, q, G, a, v, n)
  BY <1>0, <1>1, <1>2, <1>3 DEF ResyncInv, Repair
<1> QED BY <1>4 DEF G

\* An answer that succeeds carries its part of the resync debt to the queue.
LEMMA MissKeptByAnswer ==
    ASSUME NEW L, NEW C, NEW q, NEW R, NEW a, NEW v, NEW n, NEW f \in R, NEW x,
           IsSeq(q), ResyncInv(L, C, q, R, a, v, n), f.pc # "sent",
           x.k = "fetched", x.fetch = f, x.ok
    PROVE  ResyncInv(L, C, Append(q, x), R \ {f}, a, v, n)
<1> DEFINE r == Append(q, x)
           G == R \ {f}
<1>0. StatusInv(C, q, a) /\ FirstInv(C, q, R, a) /\ OkInv(q)
  BY DEF ResyncInv
<1>1. C.once
  BY <1>0 DEF FirstInv
<1>2. /\ \A i : Up(r, i) <=> Up(q, i)
      /\ \A i : Down(q, i) => Down(r, i)
  BY StatusEntered
<1>3. /\ Len(q) \in Nat /\ DOMAIN q = 1 .. Len(q) /\ DOMAIN r = 1 .. Len(q) + 1
      /\ \A i \in DOMAIN q : r[i] = q[i]
      /\ r[Len(q) + 1] = x
  BY Appended
<1> HIDE DEF r, G
<1>4. /\ \A i \in DOMAIN r : i \in DOMAIN q \/ i = Len(q) + 1
      /\ \A i \in DOMAIN q : i \in DOMAIN r
      /\ Len(q) + 1 \in DOMAIN r
  BY <1>3
<1>5. \A i : Answered(r, i) => (Answered(q, i) /\ r[i] = q[i]) \/ r[i] = x
  BY <1>3, <1>4 DEF Answered
<1>6. \A i : Answered(q, i) => Answered(r, i) /\ r[i] = q[i]
  BY <1>3, <1>4 DEF Answered
<1>7. Answered(r, Len(q) + 1) /\ r[Len(q) + 1] = x
  BY <1>3, <1>4 DEF Answered
<1>8. G \subseteq R /\ \A e \in R : e = f \/ e \in G
  BY DEF G
<1>9. StatusInv(C, r, a)
  <2>1. \A i : Up(r, i) => QuietBefore(r, a.connected, i)
    BY <1>0, <1>2 DEF StatusInv, QuietBefore
  <2>2. QuietEnd(q, a.connected) => QuietEnd(r, a.connected)
    BY <1>2 DEF QuietEnd, NoUp
  <2> QED BY <1>0, <2>1, <2>2 DEF StatusInv
<1>10. NoUp(r) <=> NoUp(q)
  BY <1>2 DEF NoUp
<1>11. FirstInv(C, r, G, a)
  BY <1>0, <1>1, <1>10 DEF FirstInv, Fresh
<1>12. OkInv(r)
  BY <1>0, <1>5 DEF OkInv
<1>13. Past(q, R, a.gen, n) => Past(r, G, a.gen, n)
  BY <1>5, <1>8 DEF Past
<1>14. Current(q, R, a.gen) => Current(r, G, a.gen)
  BY <1>6, <1>7, <1>8 DEF Current
<1>15. Marker(q) => Marker(r)
  BY <1>3, <1>4 DEF Marker
<1>16. Coming(C, q, a) => Coming(C, r, a)
  BY <1>2, <1>10 DEF Coming
<1>17. ResyncInv(L, C, r, G, a, v, n)
  BY <1>9, <1>11, <1>12, <1>13, <1>14, <1>15, <1>16 DEF ResyncInv, Repair
<1> QED BY <1>17 DEF r, G

\* A message other than the awaited answer is taken, and the marker of a drop
\* is not: what was owed still is.
LEMMA MissKeptByTaking ==
    ASSUME NEW L, NEW C, NEW q, NEW R, NEW a, NEW b, NEW v, NEW w, NEW n, NEW m,
           IsSeq(q), q # << >>, ResyncInv(L, C, q, R, a, v, n), m \in Nat, m <= L,
           Head(q).k \notin {"overflow", "status"},
           Head(q).k = "fetched" => Head(q).fetch.gen # a.gen,
           b.gen = a.gen, b.connected = a.connected, b.ever = a.ever,
           a.overflowed => b.overflowed, w.at = v.at, v.stale => w.stale,
           m = n \/ b.overflowed
    PROVE  ResyncInv(L, C, Tail(q), R, b, w, m)
<1> DEFINE r == Tail(q)
<1>0. StatusInv(C, q, a) /\ FirstInv(C, q, R, a) /\ OkInv(q)
  BY DEF ResyncInv
<1>1. StatusInv(C, r, b)
  BY <1>0, StatusTaken
<1>2. /\ \A i : Up(q, i) => i \in Int /\ i >= 1 /\ (i = 1 \/ Up(r, i - 1))
      /\ \A i : Up(r, i) => i \in Int /\ i >= 1 /\ Up(q, i + 1)
      /\ \A i : Answered(q, i) => i \in Int /\ (i = 1 \/ (Answered(r, i - 1) /\ r[i - 1] = q[i]))
      /\ ~ Up(q, 1)
  BY StatusLeft
<1>3. /\ Head(q) = q[1]
      /\ \A i : Answered(r, i) => Answered(q, i + 1) /\ r[i] = q[i + 1]
      /\ Marker(q) => Marker(r)
  BY Dequeued
<1> HIDE DEF r
<1>4. NoUp(r) <=> NoUp(q)
  BY <1>2 DEF NoUp
<1>5. FirstInv(C, r, R, b)
  BY <1>0, <1>3, <1>4 DEF FirstInv, Fresh
<1>6. OkInv(r)
  BY <1>0, <1>3 DEF OkInv
<1>7. Past(q, R, a.gen, n) => Past(r, R, b.gen, n)
  BY <1>3 DEF Past
<1>8. Current(q, R, a.gen) => Current(r, R, b.gen)
  <2>1. ASSUME NEW i, Answered(q, i), q[i].fetch.gen = a.gen
        PROVE  Answered(r, i - 1) /\ r[i - 1] = q[i]
    <3>1. i # 1
      BY <1>3, <2>1 DEF Answered
    <3> QED BY <1>2, <2>1, <3>1
  <2> QED BY <2>1 DEF Current
<1>9. Coming(C, q, a) => Coming(C, r, b)
  <2>1. ASSUME NEW i, Up(q, i), a.ever \/ \E j : Up(q, j) /\ j < i
        PROVE  Up(r, i - 1) /\ (b.ever \/ \E j : Up(r, j) /\ j < i - 1)
    <3>1. i \in Int /\ Up(r, i - 1)
      BY <1>2, <2>1
    <3>2. ASSUME NEW j, Up(q, j), j < i PROVE Up(r, j - 1) /\ j - 1 < i - 1
      BY <1>2, <3>1, <3>2
    <3> QED BY <2>1, <3>1, <3>2
  <2> QED BY <1>4, <2>1 DEF Coming
<1>10. m > w.at => Repair(C, r, R, b, w, m) \/ Coming(C, r, b)
  <2>1. CASE b.overflowed
    BY <2>1 DEF Repair
  <2>2. CASE m = n
    BY <1>3, <1>7, <1>8, <1>9, <2>2 DEF ResyncInv, Repair
  <2> QED BY <2>1, <2>2
<1>11. ResyncInv(L, C, r, R, b, w, m)
  BY <1>1, <1>5, <1>6, <1>10 DEF ResyncInv
<1> QED BY <1>11 DEF r

\* The marker of a drop is taken, or the awaited answer is.
LEMMA MissKeptByMarker ==
    ASSUME NEW L, NEW C, NEW q, NEW R, NEW a, NEW b, NEW v, NEW w, NEW n,
           IsSeq(q), q # << >>, ResyncInv(L, C, q, R, a, v, n),
           LoadingInv(q, R, a.gen, a.loading), Head(q).k = "overflow",
           b.gen = a.gen, b.connected = a.connected, b.ever = a.ever,
           a.loading => b.overflowed, w.stale
    PROVE  ResyncInv(L, C, Tail(q), R, b, w, n)
<1> DEFINE r == Tail(q)
<1>0. StatusInv(C, q, a) /\ FirstInv(C, q, R, a) /\ OkInv(q)
  BY DEF ResyncInv
<1>1. StatusInv(C, r, b)
  BY <1>0, StatusTaken
<1>2. /\ \A i : Up(q, i) => i \in Int /\ i >= 1 /\ (i = 1 \/ Up(r, i - 1))
      /\ \A i : Up(r, i) => i \in Int /\ i >= 1 /\ Up(q, i + 1)
      /\ ~ Up(q, 1)
  BY StatusLeft
<1>3. \A i : Answered(r, i) => Answered(q, i + 1) /\ r[i] = q[i + 1]
  BY Dequeued
<1> HIDE DEF r
<1>4. NoUp(r) <=> NoUp(q)
  BY <1>2 DEF NoUp
<1>5. FirstInv(C, r, R, b)
  BY <1>0, <1>3, <1>4 DEF FirstInv, Fresh
<1>6. OkInv(r)
  BY <1>0, <1>3 DEF OkInv
<1>7. Repair(C, r, R, b, w, n)
  <2>1. CASE a.loading
    BY <2>1 DEF Repair
  <2>2. CASE ~ a.loading
    <3>1. Past(r, R, b.gen, n)
      BY <1>3, <2>2 DEF LoadingInv, Past
    <3> QED BY <3>1 DEF Repair
  <2> QED BY <2>1, <2>2
<1>8. ResyncInv(L, C, r, R, b, w, n)
  BY <1>1, <1>5, <1>6, <1>7 DEF ResyncInv
<1> QED BY <1>8 DEF r

\* The list taken from the current answer keeps, or pays, the resync debt.
LEMMA MissKeptByList ==
    ASSUME NEW L, NEW C, NEW q, NEW R, NEW a, NEW b, NEW v, NEW w, NEW n,
           IsSeq(q), q # << >>, ResyncInv(L, C, q, R, a, v, n),
           RequestsInv(L, q, R, a.gen), CurrentInv(q, R, a.gen), Past(q, R, a.gen, v.at),
           L \in Nat, v.at \in Nat, w.at \in Nat,
           Head(q).k = "fetched", Head(q).fetch.gen = a.gen,
           b.gen = a.gen, b.connected = a.connected, b.ever = a.ever,
           Head(q).ok => w.at = Head(q).fetch.at /\ (a.overflowed => w.stale)
    PROVE  ResyncInv(L, C, Tail(q), R, b, w, n)
<1> DEFINE r == Tail(q)
<1>0. /\ StatusInv(C, q, a) /\ FirstInv(C, q, R, a) /\ OkInv(q) /\ n \in Nat
      /\ n > v.at => Repair(C, q, R, a, v, n) \/ Coming(C, q, a)
  BY DEF ResyncInv
<1>1. StatusInv(C, r, b)
  BY <1>0, StatusTaken
<1>2. /\ \A i : Up(q, i) => i \in Int /\ i >= 1 /\ (i = 1 \/ Up(r, i - 1))
      /\ \A i : Up(r, i) => i \in Int /\ i >= 1 /\ Up(q, i + 1)
      /\ ~ Up(q, 1)
  BY StatusLeft
<1>3. /\ Head(q) = q[1] /\ Answered(q, 1)
      /\ \A i : Answered(r, i) => i \in Int /\ i # 0 /\ Answered(q, i + 1) /\ r[i] = q[i + 1]
      /\ Marker(q) => Marker(r)
  BY Dequeued
<1> HIDE DEF r
<1>4. NoUp(r) <=> NoUp(q)
  BY <1>2 DEF NoUp
<1>5. FirstInv(C, r, R, b)
  BY <1>0, <1>3, <1>4 DEF FirstInv, Fresh
<1>6. OkInv(r)
  BY <1>0, <1>3 DEF OkInv
<1>7. Past(r, R, b.gen, n)
  <2>1. \A f \in R : f.gen # b.gen
    BY <1>3 DEF CurrentInv
  <2>2. ASSUME NEW i, Answered(r, i), r[i].fetch.gen = b.gen PROVE FALSE
    <3>1. i + 1 = 1
      BY <1>3, <2>2 DEF CurrentInv
    <3> QED BY <1>3, <2>2, <3>1
  <2> QED BY <2>1, <2>2 DEF Past
<1>8. Coming(C, q, a) => Coming(C, r, b)
  <2>1. ASSUME NEW i, Up(q, i), a.ever \/ \E j : Up(q, j) /\ j < i
        PROVE  Up(r, i - 1) /\ (b.ever \/ \E j : Up(r, j) /\ j < i - 1)
    <3>1. i \in Int /\ Up(r, i - 1)
      BY <1>2, <2>1
    <3>2. ASSUME NEW j, Up(q, j), j < i PROVE Up(r, j - 1) /\ j - 1 < i - 1
      BY <1>2, <3>1, <3>2
    <3> QED BY <2>1, <3>1, <3>2
  <2> QED BY <1>4, <2>1 DEF Coming
<1>9. /\ w.at = Head(q).fetch.at /\ (a.overflowed => w.stale) /\ w.at >= v.at
      /\ Past(q, R, a.gen, n) => w.at >= n
  BY <1>0, <1>3 DEF OkInv, Past
<1>10. ASSUME n > w.at PROVE Repair(C, r, R, b, w, n) \/ Coming(C, r, b)
  <2>1. C.owed \/ Marker(q) \/ a.overflowed \/ Coming(C, q, a)
    BY <1>0, <1>9, <1>10 DEF Repair
  <2> QED BY <1>3, <1>7, <1>8, <1>9, <2>1 DEF Repair
<1>11. ResyncInv(L, C, r, R, b, w, n)
  BY <1>1, <1>5, <1>6, <1>10 DEF ResyncInv
<1> QED BY <1>11 DEF r

\* A status is taken: the first "up" is remembered.
LEMMA FirstTaken ==
    ASSUME NEW C, NEW q, NEW R, NEW a, NEW b, IsSeq(q), q # << >>, FirstInv(C, q, R, a), OkInv(q),
           Head(q).k = "status", b.ever <=> a.ever \/ Head(q).up, b.gen = a.gen
    PROVE  /\ FirstInv(C, Tail(q), R, b) /\ OkInv(Tail(q))
           /\ b.ever \/ (NoUp(Tail(q)) <=> NoUp(q))
<1> DEFINE r == Tail(q)
<1>1. /\ \A i : Up(q, i) => i = 1 \/ Up(r, i - 1)
      /\ \A i : Up(r, i) => Up(q, i + 1)
      /\ Up(q, 1) <=> Head(q).up
  BY StatusLeft
<1>2. \A i : Answered(r, i) => Answered(q, i + 1) /\ r[i] = q[i + 1]
  BY Dequeued
<1> HIDE DEF r
<1>3. b.ever \/ (NoUp(r) <=> NoUp(q))
  BY <1>1 DEF NoUp
<1>4. FirstInv(C, r, R, b)
  <2>1. Fresh(r, b) => Fresh(q, a)
    BY <1>3 DEF Fresh
  <2> QED BY <1>2, <2>1 DEF FirstInv
<1>5. OkInv(r)
  BY <1>2 DEF OkInv
<1> QED BY <1>3, <1>4, <1>5 DEF r

\* A status is taken and the list is not asked for.
LEMMA MissKeptByStatus ==
    ASSUME NEW L, NEW C, NEW q, NEW R, NEW a, NEW b, NEW v, NEW n,
           IsSeq(q), q # << >>, ResyncInv(L, C, q, R, a, v, n),
           Head(q).k = "status", b.connected <=> Head(q).up, b.ever <=> a.ever \/ Head(q).up,
           b.gen = a.gen, b.overflowed = a.overflowed,
           ~ (Head(q).up /\ ~ a.connected /\ a.ever)
    PROVE  ResyncInv(L, C, Tail(q), R, b, v, n)
<1> DEFINE r == Tail(q)
<1>0. StatusInv(C, q, a) /\ FirstInv(C, q, R, a) /\ OkInv(q)
  BY DEF ResyncInv
<1>1. StatusInv(C, r, b)
  BY <1>0, StatusTaken
<1>4. FirstInv(C, r, R, b) /\ OkInv(r) /\ (b.ever \/ (NoUp(r) <=> NoUp(q)))
  BY <1>0, FirstTaken
<1>2. /\ \A i : Up(q, i) => i \in Int /\ i >= 1 /\ (i = 1 \/ Up(r, i - 1))
      /\ \A i : Up(r, i) => i \in Int /\ i >= 1 /\ Up(q, i + 1)
      /\ \A i : Answered(q, i) => i \in Int /\ (i = 1 \/ (Answered(r, i - 1) /\ r[i - 1] = q[i]))
      /\ Up(q, 1) <=> Head(q).up
  BY StatusLeft
<1>3. /\ Head(q) = q[1]
      /\ \A i : Answered(r, i) => Answered(q, i + 1) /\ r[i] = q[i + 1]
      /\ Marker(q) => Marker(r)
  BY Dequeued
<1> HIDE DEF r
<1>7. Past(q, R, a.gen, n) => Past(r, R, b.gen, n)
  BY <1>3 DEF Past
<1>8. Current(q, R, a.gen) => Current(r, R, b.gen)
  <2>1. ASSUME NEW i, Answered(q, i) PROVE Answered(r, i - 1) /\ r[i - 1] = q[i]
    <3>1. i # 1
      BY <1>3, <2>1 DEF Answered
    <3> QED BY <1>2, <2>1, <3>1
  <2> QED BY <2>1 DEF Current
<1>9. Head(q).up => ~ a.ever
  <2>1. ASSUME Up(q, 1) PROVE ~ a.connected
    <3>1. QuietBefore(q, a.connected, 1)
      BY <1>0, <2>1 DEF StatusInv
    <3>2. \A j : Down(q, j) => ~ (j < 1)
      BY StatusLeft
    <3> QED BY <3>1, <3>2 DEF QuietBefore
  <2> QED BY <1>2, <2>1
<1>10. Coming(C, q, a) => Coming(C, r, b)
  <2>1. CASE C.pc # "pump" /\ (a.ever \/ ~ NoUp(q))
    BY <1>4, <2>1 DEF Coming
  <2>2. ASSUME NEW i, Up(q, i), a.ever \/ \E j : Up(q, j) /\ j < i
        PROVE  Coming(C, r, b)
    <3>1. i \in Int /\ i >= 1
      BY <1>2, <2>2
    <3>2. CASE Head(q).up
      <4>1. PICK j : Up(q, j) /\ j < i
        BY <1>9, <2>2, <3>2
      <4>2. j \in Int /\ j >= 1
        BY <1>2, <4>1
      <4>3. Up(r, i - 1)
        BY <1>2, <2>2, <3>1, <4>1, <4>2
      <4> QED BY <3>2, <4>3 DEF Coming
    <3>3. CASE ~ Head(q).up
      <4>1. Up(r, i - 1)
        BY <1>2, <2>2, <3>3
      <4>2. ASSUME NEW j, Up(q, j), j < i PROVE Up(r, j - 1) /\ j - 1 < i - 1
        BY <1>2, <3>1, <3>3, <4>2
      <4>3. b.ever \/ \E j : Up(r, j) /\ j < i - 1
        BY <2>2, <4>2
      <4> QED BY <4>1, <4>3 DEF Coming
    <3> QED BY <3>2, <3>3
  <2> QED BY <2>1, <2>2 DEF Coming
<1>11. n > v.at => Repair(C, r, R, b, v, n) \/ Coming(C, r, b)
  BY <1>3, <1>7, <1>8, <1>10 DEF ResyncInv, Repair
<1>12. ResyncInv(L, C, r, R, b, v, n)
  BY <1>1, <1>4, <1>11 DEF ResyncInv
<1> QED BY <1>12 DEF r

\* A request reads, or its answer enters the queue.
LEMMA ServeResync ==
    ASSUME DropInv, MissInv, "first" \notin Allowed, NEW f \in fetches,
           FX!ReadPage(f) \/ FX!ReadTotal(f) \/ FX!AnswerFetch(f)
    PROVE  MissInv'
<1>0. /\ FetchInv(f, Len(log), app.gen) /\ Len(log) \in Nat /\ IsSeq(queue)
      /\ ResyncInv(Len(log), conn, queue, fetches, app, view, missed)
      /\ FirstInv(conn, queue, fetches, app)
  BY DEF DropInv, FeedInv, RequestsInv, MissInv, ResyncInv
<1>1. CASE FX!ReadPage(f)
  <2>1. PICK pc, page, total, g :
          /\ fetches' = (fetches \ {f}) \cup {g}
          /\ g = [f EXCEPT !.pc = pc, !.page = page, !.total = total, !.at = Len(log)]
    BY <1>1 DEF FX!ReadPage
  <2>2. g.gen = f.gen /\ g.at = Len(log)
    BY <1>0, <2>1 DEF FetchInv
  <2>3. Reads(f, g, Len(log)) /\ conn.once
    BY <1>1, <2>2 DEF Reads, FX!ReadPage
  <2>4. ResyncInv(Len(log), conn, queue, (fetches \ {f}) \cup {g}, app, view, missed)
    BY <1>0, <2>2, <2>3, MissKeptByRead
  <2>5. UNCHANGED <<log, conn, queue, app, view, missed>>
    BY <1>1 DEF FX!ReadPage, FX!server
  <2> QED BY <2>1, <2>4, <2>5 DEF MissInv
<1>2. CASE FX!ReadTotal(f)
  <2>1. PICK total, g :
          /\ fetches' = (fetches \ {f}) \cup {g}
          /\ g = [f EXCEPT !.pc = "answer", !.total = total]
    BY <1>2 DEF FX!ReadTotal
  <2>2. g.gen = f.gen /\ g.at = f.at
    BY <1>0, <2>1 DEF FetchInv
  <2>3. Reads(f, g, Len(log)) /\ conn.once
    BY <1>0, <1>2, <2>2 DEF Reads, FX!ReadTotal, FirstInv
  <2>4. ResyncInv(Len(log), conn, queue, (fetches \ {f}) \cup {g}, app, view, missed)
    BY <1>0, <2>2, <2>3, MissKeptByRead
  <2>5. UNCHANGED <<log, conn, queue, app, view, missed>>
    BY <1>2 DEF FX!ReadTotal, FX!server
  <2> QED BY <2>1, <2>4, <2>5 DEF MissInv
<1>3. CASE FX!AnswerFetch(f)
  <2> DEFINE x == [k |-> "fetched", ok |-> TRUE, fetch |-> f]
  <2>1. queue' = Append(queue, x) /\ fetches' = fetches \ {f} /\ f.pc # "sent"
    BY <1>3 DEF FX!AnswerFetch, FX!Send
  <2>2. x.k = "fetched" /\ x.fetch = f /\ x.ok
    OBVIOUS
  <2> HIDE DEF x
  <2>3. ResyncInv(Len(log), conn, Append(queue, x), fetches \ {f}, app, view, missed)
    BY <1>0, <2>1, <2>2, MissKeptByAnswer
  <2>4. UNCHANGED <<log, conn, app, view, missed>>
    BY <1>3 DEF FX!AnswerFetch, FX!server
  <2> QED BY <2>1, <2>3, <2>4 DEF MissInv
<1> QED BY <1>1, <1>2, <1>3

\* The answer to the user's own change keeps the resync debt.
LEMMA OwnAnswerResync ==
    ASSUME DropInv, MissInv, ArrivalInv, NEW job \in jobs, FX!AnswerJob(job)
    PROVE  MissInv'
<1> DEFINE x == [k |-> job.kind, id |-> job.what.id, read |-> job.what.read]
<1>1. /\ queue' = Append(queue, x)
      /\ UNCHANGED <<log, conn, fetches, app, view, missed>>
  BY DEF FX!AnswerJob, FX!Send
<1>2. x.k # "fetched" /\ x.k # "status"
  BY DEF ArrivalInv, JobInv
<1> HIDE DEF x
<1> DEFINE r == Append(queue, x)
<1>3. /\ IsSeq(queue) /\ missed \in Nat /\ missed <= Len(log)
      /\ ResyncInv(Len(log), conn, queue, fetches, app, view, missed)
  BY DEF DropInv, FeedInv, RequestsInv, MissInv, ResyncInv
<1>4. /\ \A i : Answered(r, i) <=> Answered(queue, i)
      /\ \A i : Answered(queue, i) => r[i] = queue[i]
      /\ Marker(queue) => Marker(r)
  BY <1>2, <1>3, Enqueued
<1>5. (\A i : Up(r, i) <=> Up(queue, i)) /\ (\A i : Down(queue, i) => Down(r, i))
  BY <1>2, <1>3, StatusEntered
<1>6. Pumps(conn, conn)
  BY DEF Pumps
<1> HIDE DEF r
<1>7. ResyncInv(Len(log), conn, r, fetches, app, view, missed)
  BY <1>3, <1>4, <1>5, <1>6, MissKeptByPump
<1> QED BY <1>1, <1>7 DEF MissInv, r

\* The reader of the connection keeps the resync debt when it subscribes in time.
LEMMA LinkResync ==
    ASSUME DropInv, MissInv, "upgrade" \notin Allowed, FX!Link \/ FX!Pump \/ FX!Break
    PROVE  MissInv'
<1>0. /\ ResyncInv(Len(log), conn, queue, fetches, app, view, missed)
      /\ IsSeq(queue) /\ ConnInv(conn, Len(log)) /\ conn.sub # "upgraded"
      /\ Len(log) \in Nat /\ missed \in Nat /\ missed <= Len(log)
  BY DEF DropInv, FeedInv, RequestsInv, MissInv, ResyncInv, FirstInv
<1>1. UNCHANGED <<log, fetches, app, view>>
  BY DEF FX!Link, FX!Pump, FX!Break, FX!StatusDown, FX!Connect, FX!Subscribe, FX!StatusUp,
     FX!PumpFrame, FX!PumpDebt, FX!LagClose, FX!Closed, FX!ConnOnly, FX!server
<1>2. CASE FX!StatusDown
  <2> DEFINE x == [k |-> "status", up |-> FALSE]
  <2>1. /\ conn.pc = "down" /\ queue' = Append(queue, x) /\ UNCHANGED missed
        /\ conn' = [conn EXCEPT !.pc = "connecting"]
    BY <1>2 DEF FX!StatusDown, FX!Send
  <2>2. /\ conn'.pc = "connecting" /\ conn'.once = conn.once /\ conn'.sub = conn.sub
        /\ conn'.owed = conn.owed
    BY <1>0, <2>1 DEF ConnInv
  <2>3. x.k = "status" /\ ~ x.up
    OBVIOUS
  <2> HIDE DEF x
  <2>4. ResyncInv(Len(log), conn', Append(queue, x), fetches, app, view, missed)
    BY <1>0, <2>1, <2>2, <2>3, MissKeptByDown
  <2> QED BY <1>1, <2>1, <2>4 DEF MissInv
<1>3. CASE FX!StatusUp
  <2> DEFINE x == [k |-> "status", up |-> TRUE]
  <2>1. /\ conn.pc = "announce" /\ queue' = Append(queue, x) /\ UNCHANGED missed
        /\ conn' = [conn EXCEPT !.pc = "pump"]
    BY <1>3 DEF FX!StatusUp, FX!Send
  <2>2. /\ conn'.pc = "pump" /\ conn'.once = conn.once /\ conn'.sub = conn.sub
        /\ conn'.owed = conn.owed
    BY <1>0, <2>1 DEF ConnInv
  <2>3. x.k = "status" /\ x.up
    OBVIOUS
  <2> HIDE DEF x
  <2>4. ResyncInv(Len(log), conn', Append(queue, x), fetches, app, view, missed)
    BY <1>0, <2>1, <2>2, <2>3, MissKeptByUp
  <2> QED BY <1>1, <2>1, <2>4 DEF MissInv
<1>4. CASE FX!Connect
  <2>1. conn.pc = "connecting" /\ FX!Subscription("announce") /\ UNCHANGED queue
    BY <1>4 DEF FX!Connect
  <2>2. /\ conn' = [conn EXCEPT !.pc = "announce", !.sub = "open", !.pos = Len(log), !.once = TRUE]
        /\ missed' = IF FX!Unread THEN Len(log) ELSE missed
    BY <2>1 DEF FX!Subscription
  <2>3. conn'.pc = "announce" /\ conn'.once /\ conn'.sub = "open"
    BY <1>0, <2>2 DEF ConnInv
  <2>4. missed' \in Nat /\ missed' <= Len(log)
    BY <1>0, <2>2
  <2>5. ResyncInv(Len(log), conn', queue, fetches, app, view, missed')
    BY <1>0, <2>1, <2>3, <2>4, MissKeptBySubscription
  <2> QED BY <1>1, <2>1, <2>5 DEF MissInv
<1>5. CASE FX!Subscribe
  BY <1>0, <1>5 DEF FX!Subscribe
<1>6. CASE FX!PumpDebt
  <2> DEFINE x == [k |-> "overflow"]
             r == Append(queue, x)
  <2>1. /\ conn.pc \in {"pump", "debt"} /\ queue' = r /\ UNCHANGED missed
        /\ conn' = [conn EXCEPT !.owed = FALSE, !.pc = IF @ = "debt" THEN "down" ELSE @]
    BY <1>6 DEF FX!PumpDebt, FX!Send
  <2>2. /\ conn'.pc = IF conn.pc = "debt" THEN "down" ELSE conn.pc
        /\ conn'.once = conn.once /\ conn'.sub = conn.sub
    BY <1>0, <2>1 DEF ConnInv
  <2>3. Pumps(conn, conn')
    BY <1>0, <2>1, <2>2 DEF Pumps
  <2>4. x.k = "overflow"
    OBVIOUS
  <2> HIDE DEF x
  <2>5. /\ \A i : Answered(r, i) <=> Answered(queue, i)
        /\ \A i : Answered(queue, i) => r[i] = queue[i]
        /\ Marker(r)
    BY <1>0, <2>4, Enqueued
  <2>6. (\A i : Up(r, i) <=> Up(queue, i)) /\ (\A i : Down(queue, i) => Down(r, i))
    BY <1>0, <2>4, StatusEntered
  <2> HIDE DEF r
  <2>7. ResyncInv(Len(log), conn', r, fetches, app, view, missed)
    BY <1>0, <2>3, <2>5, <2>6, MissKeptByPump
  <2> QED BY <1>1, <2>1, <2>7 DEF MissInv
<1>7. CASE FX!LagClose \/ FX!Break
  <2>1. /\ conn.pc = "pump" /\ UNCHANGED <<queue, missed>>
        /\ conn' = [conn EXCEPT !.pc = IF conn.owed THEN "debt" ELSE "down", !.sub = "none"]
    BY <1>7 DEF FX!LagClose, FX!Break, FX!Closed
  <2>2. /\ conn'.pc \in {"debt", "down"} /\ conn'.once = conn.once /\ conn'.sub = "none"
        /\ conn'.owed = conn.owed
    BY <1>0, <2>1 DEF ConnInv
  <2>3. Pumps(conn, conn')
    BY <2>1, <2>2 DEF Pumps
  <2>4. ResyncInv(Len(log), conn', queue, fetches, app, view, missed)
    BY <1>0, <2>2, <2>3, MissKeptByPump
  <2> QED BY <1>1, <2>1, <2>4 DEF MissInv
<1>8. CASE FX!PumpFrame
  <2> DEFINE fits == ~ conn.owed /\ FX!Room
             x == [k |-> "frame", n |-> conn.pos + 1]
  <2>1. /\ FX!Unread /\ conn.pc = "pump"
        /\ conn' = [conn EXCEPT !.pos = conn.pos + 1, !.owed = ~ fits]
        /\ queue' = IF fits THEN Append(queue, x) ELSE queue
        /\ missed' = IF fits THEN missed ELSE conn.pos + 1
    BY <1>8 DEF FX!PumpFrame
  <2>2. /\ conn'.pc = conn.pc /\ conn'.once = conn.once /\ conn'.sub = conn.sub
        /\ conn'.owed <=> (~ fits)
    BY <1>0, <2>1 DEF ConnInv
  <2>3. Pumps(conn, conn')
    BY <1>0, <2>1, <2>2 DEF Pumps
  <2>4. conn.pos + 1 \in Nat /\ conn.pos + 1 <= Len(log)
    BY <1>0, <2>1 DEF ConnInv, FX!Unread
  <2>5. CASE fits
    <3>1. x.k # "fetched" /\ x.k # "status"
      OBVIOUS
    <3> HIDE DEF x
    <3> DEFINE r == Append(queue, x)
    <3>2. /\ \A i : Answered(r, i) <=> Answered(queue, i)
          /\ \A i : Answered(queue, i) => r[i] = queue[i]
          /\ Marker(queue) => Marker(r)
      BY <1>0, <3>1, Enqueued
    <3>3. (\A i : Up(r, i) <=> Up(queue, i)) /\ (\A i : Down(queue, i) => Down(r, i))
      BY <1>0, <3>1, StatusEntered
    <3> HIDE DEF r
    <3>4. ResyncInv(Len(log), conn', r, fetches, app, view, missed)
      BY <1>0, <2>3, <2>5, <3>2, <3>3, MissKeptByPump
    <3> QED BY <1>1, <2>1, <2>5, <3>4 DEF MissInv, r
  <2>6. CASE ~ fits
    <3>1. conn'.owed
      BY <2>2, <2>6
    <3> HIDE DEF fits
    <3>2. ResyncInv(Len(log), conn', queue, fetches, app, view, conn.pos + 1)
      BY <1>0, <2>3, <2>4, <3>1, MissKeptByPump
    <3> QED BY <1>1, <2>1, <2>6, <3>2 DEF MissInv
  <2> QED BY <2>5, <2>6
<1> QED BY <1>2, <1>3, <1>4, <1>5, <1>6, <1>7, <1>8 DEF FX!Link, FX!Pump

\* fetch_messages of the view `v`, by the state `a` of the rest.
LEMMA FetchingResync ==
    ASSUME NEW q, NEW a, NEW v, AppInv(a), RequestsInv(Len(log), q, fetches, a.gen),
           missed \in Nat, missed <= Len(log),
           StatusInv(conn, q, a), FirstInv(conn, q, fetches, a), OkInv(q), FX!Fetching(v, a)
    PROVE  ResyncInv(Len(log), conn, q, fetches', app', view', missed)
<1> DEFINE f == [gen |-> a.gen + 1, searching |-> v.searching, offset |-> v.offset,
                 pc |-> "sent", page |-> << >>, total |-> 0, at |-> 0]
<1>1. /\ app' = [a EXCEPT !.loading = TRUE, !.gen = a.gen + 1]
      /\ fetches' = fetches \cup {f}
  BY DEF FX!Fetching
<1>2. a.gen \in Nat /\ app'.gen = a.gen + 1 /\ app'.connected = a.connected /\ app'.ever = a.ever
  BY <1>1 DEF AppInv
<1>3. f.gen = app'.gen /\ f.pc = "sent"
  BY <1>2
<1> HIDE DEF f
<1>4. ResyncInv(Len(log), conn, q, fetches \cup {f}, app', view', missed)
  BY <1>2, <1>3, MissKeptByFetching
<1> QED BY <1>1, <1>4

\* Ticks, searches and pages keep the resync debt.
LEMMA ViewResync ==
    ASSUME DropInv, MissInv, FX!Tick \/ FX!Search \/ FX!NextPage \/ FX!PrevPage
    PROVE  MissInv'
<1>1. /\ UNCHANGED <<log, conn, queue, missed>>
      /\ \E v : FX!Fetching(v, app)
  BY DEF FX!Tick, FX!Search, FX!NextPage, FX!PrevPage, FX!ChangeView, FX!server
<1>2. PICK v : FX!Fetching(v, app)
  BY <1>1
<1>3. /\ AppInv(app) /\ RequestsInv(Len(log), queue, fetches, app.gen)
      /\ missed \in Nat /\ missed <= Len(log)
      /\ StatusInv(conn, queue, app) /\ FirstInv(conn, queue, fetches, app) /\ OkInv(queue)
  BY DEF DropInv, FeedInv, MissInv, ResyncInv
<1>4. ResyncInv(Len(log), conn, queue, fetches', app', view', missed)
  BY <1>2, <1>3, FetchingResync
<1> QED BY <1>1, <1>4 DEF MissInv

\* Every event the terminal takes from its queue keeps or pays the resync debt.
LEMMA DispatchResync ==
    ASSUME DropInv, MissInv, ArrivalInv, FX!Dispatch
    PROVE  MissInv'
<1>0. /\ ResyncInv(Len(log), conn, queue, fetches, app, view, missed)
      /\ IsSeq(queue) /\ FramesInv(queue, Len(log)) /\ AppInv(app) /\ ViewInv(view, Len(log))
      /\ Len(log) \in Nat /\ missed \in Nat /\ missed <= Len(log)
  BY DEF DropInv, FeedInv, RequestsInv, MissInv, ResyncInv
<1>1. /\ queue # << >> /\ queue' = Tail(queue) /\ UNCHANGED <<log, conn>>
  BY DEF FX!Dispatch, FX!HandleWsMessage, FX!HandleWsOverflow, FX!HandleWsStatus,
     FX!HandleMessagesFetched, FX!HandleOwn, FX!Taking, FX!server
<1>2. CASE FX!HandleWsMessage
  <2> DEFINE e == Head(queue)
  <2>1. /\ e.k = "frame" /\ UNCHANGED fetches
        /\ app' = IF app.loading THEN FX!Record(app, e.n) ELSE app
        /\ view' = FX!Live(view, log[e.n])
        /\ missed' = IF app'.overflowed /\ e.n > missed THEN e.n ELSE missed
    BY <1>2, Zenon DEF FX!HandleWsMessage
  <2>2. e.n \in 1 .. Len(log)
    BY <1>0, <1>1, <2>1, Dequeued
  <2>3. log[e.n] \in FX!Events
    BY <2>2 DEF ArrivalInv
  <2> HIDE DEF e
  <2>4. view'.at = view.at /\ (view.stale => view'.stale)
    BY <1>0, <2>1, <2>3, LiveKeeps
  <2>5. /\ app'.gen = app.gen /\ app'.connected = app.connected /\ app'.ever = app.ever
        /\ app.overflowed => app'.overflowed
    <3>1. CASE app' = app
      BY <3>1
    <3>2. ASSUME NEW p, app' = [app EXCEPT !.pending = p] PROVE <2>5!:
      BY <1>0, <3>2 DEF AppInv
    <3>3. CASE app' = [app EXCEPT !.pending = << >>, !.overflowed = TRUE]
      BY <1>0, <3>3 DEF AppInv
    <3> QED BY <2>1, <3>1, <3>2, <3>3 DEF FX!Record
  <2>6. missed' \in Nat /\ missed' <= Len(log) /\ (missed' = missed \/ app'.overflowed)
    BY <1>0, <2>1, <2>2
  <2>7. ResyncInv(Len(log), conn, Tail(queue), fetches, app', view', missed')
    BY <1>0, <1>1, <2>1, <2>4, <2>5, <2>6, MissKeptByTaking DEF e
  <2> QED BY <1>1, <2>1, <2>7 DEF MissInv
<1>3. CASE FX!HandleWsOverflow
  <2>1. /\ Head(queue).k = "overflow" /\ UNCHANGED <<fetches, missed>>
        /\ view' = [view EXCEPT !.stale = TRUE]
        /\ app' = IF app.loading THEN [app EXCEPT !.overflowed = TRUE] ELSE app
    BY <1>3, Zenon DEF FX!HandleWsOverflow
  <2>2. view'.stale
    BY <1>0, <2>1 DEF ViewInv
  <2>3. /\ app'.gen = app.gen /\ app'.connected = app.connected /\ app'.ever = app.ever
        /\ app.loading => app'.overflowed
    BY <1>0, <2>1 DEF AppInv
  <2>4. LoadingInv(queue, fetches, app.gen, app.loading)
    BY DEF DropInv, FeedInv
  <2>5. ResyncInv(Len(log), conn, Tail(queue), fetches, app', view', missed)
    BY <1>0, <1>1, <2>1, <2>2, <2>3, <2>4, MissKeptByMarker
  <2> QED BY <1>1, <2>1, <2>5 DEF MissInv
<1>4. CASE FX!HandleWsStatus
  <2> DEFINE e == Head(queue)
             again == e.up /\ ~ app.connected /\ app.ever
  <2>1. PICK a :
          /\ e.k = "status" /\ UNCHANGED missed
          /\ a = [app EXCEPT !.connected = e.up, !.ever = app.ever \/ e.up]
          /\ IF again THEN FX!Fetching(view, a) ELSE app' = a /\ UNCHANGED <<fetches, view>>
    BY <1>4 DEF FX!HandleWsStatus
  <2>2. /\ a.gen = app.gen /\ a.overflowed = app.overflowed
        /\ a.connected <=> e.up
        /\ a.ever <=> app.ever \/ e.up
    BY <1>0, <2>1 DEF AppInv
  <2>3. a = [loading |-> a.loading, gen |-> a.gen, connected |-> a.connected,
             ever |-> a.ever, pending |-> a.pending, overflowed |-> a.overflowed]
    BY <1>0, <2>1 DEF AppInv
  <2>4. AppInv(a)
    BY <1>0, <2>2, <2>3 DEF AppInv
  <2>5. CASE again
    <3>1. /\ StatusInv(conn, queue, app) /\ FirstInv(conn, queue, fetches, app) /\ OkInv(queue)
      BY <1>0 DEF ResyncInv
    <3>2. StatusInv(conn, Tail(queue), a)
      BY <1>0, <1>1, <2>1, <2>2, <3>1, StatusTaken
    <3>3. FirstInv(conn, Tail(queue), fetches, a) /\ OkInv(Tail(queue))
      BY <1>0, <1>1, <2>1, <2>2, <3>1, FirstTaken
    <3>4. RequestsInv(Len(log), Tail(queue), fetches, a.gen)
      <4>1. /\ RequestsInv(Len(log), queue, fetches, app.gen) /\ CurrentInv(queue, fetches, app.gen)
            /\ LoadingInv(queue, fetches, app.gen, app.loading)
        BY DEF DropInv, FeedInv
      <4> QED BY <1>0, <1>1, <2>2, <4>1, FewerAnswers
    <3>5. FX!Fetching(view, a)
      BY <2>1, <2>5
    <3>6. ResyncInv(Len(log), conn, Tail(queue), fetches', app', view', missed)
      BY <1>0, <2>4, <3>2, <3>3, <3>4, <3>5, FetchingResync
    <3> QED BY <1>1, <2>1, <3>6 DEF MissInv
  <2>6. CASE ~ again
    <3>1. ResyncInv(Len(log), conn, Tail(queue), fetches, a, view, missed)
      BY <1>0, <1>1, <2>1, <2>2, <2>6, MissKeptByStatus
    <3> QED BY <1>1, <2>1, <2>6, <3>1 DEF MissInv
  <2> QED BY <2>5, <2>6
<1>5. CASE FX!HandleMessagesFetched
  <2> DEFINE e == Head(queue)
             shown == FX!ReplayDeltas([view EXCEPT !.list = e.fetch.page, !.total = e.fetch.total,
                                                   !.stale = FALSE], app.pending)
  <2>1. /\ e.k = "fetched" /\ UNCHANGED <<fetches, missed>>
        /\ IF e.fetch.gen # app.gen THEN UNCHANGED <<app, view>>
           ELSE /\ app' = [app EXCEPT !.loading = FALSE, !.pending = << >>, !.overflowed = FALSE]
                /\ view' = IF ~ e.ok THEN view
                           ELSE [view EXCEPT !.list = shown.list, !.total = shown.total,
                                             !.stale = app.overflowed \/ shown.stale,
                                             !.at = e.fetch.at]
    BY <1>5, Zenon DEF FX!HandleMessagesFetched
  <2> HIDE DEF shown
  <2>2. CASE e.fetch.gen # app.gen
    <3>1. ResyncInv(Len(log), conn, Tail(queue), fetches, app, view, missed)
      BY <1>0, <1>1, <2>1, <2>2, MissKeptByTaking
    <3> QED BY <1>1, <2>1, <2>2, <3>1 DEF MissInv
  <2>3. CASE e.fetch.gen = app.gen
    <3>1. /\ app' = [app EXCEPT !.loading = FALSE, !.pending = << >>, !.overflowed = FALSE]
          /\ view' = IF ~ e.ok THEN view
                     ELSE [view EXCEPT !.list = shown.list, !.total = shown.total,
                                       !.stale = app.overflowed \/ shown.stale,
                                       !.at = e.fetch.at]
      BY <2>1, <2>3
    <3>2. app'.gen = app.gen /\ app'.connected = app.connected /\ app'.ever = app.ever
      BY <1>0, <3>1 DEF AppInv
    <3>3. /\ RequestsInv(Len(log), queue, fetches, app.gen) /\ CurrentInv(queue, fetches, app.gen)
          /\ Past(queue, fetches, app.gen, view.at) /\ view.at \in Nat
      BY DEF DropInv, FeedInv, ViewInv
    <3>4. e.fetch.at \in Nat
      <4>1. Answered(queue, 1) /\ e = queue[1]
        BY <1>0, <1>1, <2>1, Dequeued
      <4>2. FetchInv(queue[1].fetch, Len(log), app.gen)
        BY <3>3, <4>1 DEF RequestsInv
      <4> QED BY <4>1, <4>2 DEF FetchInv
    <3> HIDE DEF e
    <3>5. ASSUME e.ok PROVE view'.at = e.fetch.at /\ (app.overflowed => view'.stale)
      <4>1. view' = [view EXCEPT !.list = shown.list, !.total = shown.total,
                                 !.stale = app.overflowed \/ shown.stale, !.at = e.fetch.at]
        BY <3>1, <3>5
      <4> QED BY <1>0, <4>1 DEF ViewInv
    <3>6. view'.at \in Nat
      BY <3>1, <3>3, <3>4, <3>5
    <3>7. ResyncInv(Len(log), conn, Tail(queue), fetches, app', view', missed)
      BY <1>0, <1>1, <2>1, <2>3, <3>2, <3>3, <3>5, <3>6, MissKeptByList DEF e
    <3> QED BY <1>1, <2>1, <3>7 DEF MissInv
  <2> QED BY <2>2, <2>3
<1>6. CASE FX!HandleOwn
  <2>1. /\ Head(queue).k \in {"patched", "deleted", "cleared"} /\ UNCHANGED <<app, fetches, missed>>
        /\ view' = CASE Head(queue).k = "patched" -> FX!ApplyUpdate(view, Head(queue))
                     [] Head(queue).k = "deleted" ->
                          [view EXCEPT !.list = FX!Dropped(view.list, Head(queue).id)]
                     [] Head(queue).k = "cleared" -> [view EXCEPT !.list = << >>]
    BY <1>6 DEF FX!HandleOwn
  <2>2. \E l : view' = [view EXCEPT !.list = l]
    BY <2>1 DEF FX!ApplyUpdate
  <2>3. view'.at = view.at /\ view'.stale = view.stale
    BY <1>0, <2>2 DEF ViewInv
  <2>4. ResyncInv(Len(log), conn, Tail(queue), fetches, app, view', missed)
    BY <1>0, <1>1, <2>1, <2>3, MissKeptByTaking
  <2> QED BY <1>1, <2>1, <2>4 DEF MissInv
<1> QED BY <1>2, <1>3, <1>4, <1>5, <1>6 DEF FX!Dispatch

\* No resync is owed when the terminal starts.
LEMMA ResyncInit ==
    ASSUME FX!Init
    PROVE  MissInv
<1>1. /\ log = << >>
      /\ conn = [pc |-> "down", sub |-> "none", pos |-> 0, owed |-> FALSE, once |-> FALSE]
      /\ queue = << >>
      /\ fetches = {[gen |-> 1, searching |-> FALSE, offset |-> 0,
                     pc |-> "sent", page |-> << >>, total |-> 0, at |-> 0]}
      /\ app = [loading |-> TRUE, gen |-> 1, connected |-> FALSE,
                ever |-> FALSE, pending |-> << >>, overflowed |-> FALSE]
      /\ view = [list |-> << >>, total |-> 0, stale |-> FALSE, offset |-> 0,
                 searching |-> FALSE, at |-> 0]
      /\ missed = 0
  BY DEF FX!Init
<1>2. DOMAIN queue = {} /\ Len(log) = 0
  BY <1>1
<1>3. (\A i : ~ Answered(queue, i)) /\ (\A i : ~ Up(queue, i))
  BY <1>2 DEF Answered, Up
<1>4. StatusInv(conn, queue, app)
  BY <1>1, <1>3 DEF StatusInv
<1>5. /\ conn.sub # "upgraded" /\ ~ conn.once /\ conn.pc = "down"
      /\ \A f \in fetches : f.pc = "sent"
      /\ \E f \in fetches : f.gen = app.gen
  BY <1>1
<1>6. FirstInv(conn, queue, fetches, app) /\ OkInv(queue)
  BY <1>3, <1>5 DEF FirstInv, OkInv
<1>7. missed = 0 /\ view.at = 0
  BY <1>1
<1> QED BY <1>2, <1>4, <1>6, <1>7 DEF MissInv, ResyncInv

\* Every step of the feed without a late overlap keeps the resync debt.
LEMMA ResyncStep ==
    ASSUME ArrivalInv, DropInv, MissInv, FX!Next, Allowed \cap Late = {}
    PROVE  MissInv'
<1>0. "first" \notin Allowed /\ "upgrade" \notin Allowed /\ "fetch fails" \notin Allowed
  BY DEF Late
<1>1. Len(log) \in Nat /\ Len(log') \in Nat /\ Len(log) <= Len(log')
  BY LogGrows
<1>2. CASE \/ \E n \in 1 .. BatchSize : FX!Insert(n)
           \/ FX!OthersWrite \/ FX!UserWrites \/ FX!Announce
           \/ \E job \in jobs : FX!AbandonJob(job)
  <2>1. UNCHANGED <<conn, queue, fetches, app, view, missed>>
    BY <1>2 DEF FX!Insert, FX!OthersWrite, FX!UserWrites, FX!UpdateMessage, FX!DeleteMessage,
       FX!DeleteAllMessages, FX!RetentionTrim, FX!Job, FX!Announce, FX!AnnounceArrival,
       FX!AnnounceJob, FX!AbandonJob, FX!client
  <2> QED BY <1>1, <2>1 DEF MissInv, ResyncInv
<1>3. CASE \E job \in jobs : FX!AnswerJob(job)
  BY <1>3, OwnAnswerResync
<1>4. CASE FX!Serve
  BY <1>0, <1>4, ServeResync DEF FX!Serve
<1>5. CASE \E f \in fetches : FX!FailFetch(f)
  BY <1>0, <1>5 DEF FX!FailFetch
<1>6. CASE FX!Link \/ FX!Pump \/ FX!Break
  BY <1>0, <1>6, LinkResync
<1>7. CASE FX!Dispatch
  BY <1>7, DispatchResync
<1>8. CASE FX!Tick \/ FX!Search \/ FX!NextPage \/ FX!PrevPage
  BY <1>8, ViewResync
<1> QED BY <1>2, <1>3, <1>4, <1>5, <1>6, <1>7, <1>8, Zenon DEF FX!Next

\* The invariant gives what the property says: what was missed is on its way.
LEMMA ResyncOwed ==
    ASSUME DropInv, MissInv
    PROVE  FX!ResyncIsOwed
<1> SUFFICES ASSUME missed > view.at
             PROVE  \/ conn.owed \/ FX!Queued("overflow") \/ view.stale \/ FX!ReadingPast(missed)
                    \/ app.overflowed
                    \/ conn.pc # "pump"
                    \/ \E i \in DOMAIN queue : queue[i].k = "status" /\ queue[i].up
  BY DEF FX!ResyncIsOwed
<1>1. Repair(conn, queue, fetches, app, view, missed) \/ Coming(conn, queue, app)
  BY DEF MissInv, ResyncInv
<1>2. CASE Coming(conn, queue, app)
  BY <1>2 DEF Coming, Up
<1>3. CASE Repair(conn, queue, fetches, app, view, missed)
  <2>1. CASE Past(queue, fetches, app.gen, missed) /\ Current(queue, fetches, app.gen)
    <3>1. CASE \E f \in fetches : f.gen = app.gen
      BY <2>1, <3>1 DEF Past, FX!ReadingPast
    <3>2. CASE \E i : Answered(queue, i) /\ queue[i].fetch.gen = app.gen
      <4>1. PICK i : Answered(queue, i) /\ queue[i].fetch.gen = app.gen
        BY <3>2
      <4>2. queue[i].ok
        BY <4>1 DEF MissInv, ResyncInv, OkInv
      <4>3. queue[i].fetch.at >= missed
        BY <2>1, <4>1, <4>2 DEF Past
      <4> QED BY <4>1, <4>2, <4>3 DEF Answered, FX!ReadingPast
    <3> QED BY <2>1, <3>1, <3>2 DEF Current
  <2>2. CASE Marker(queue)
    BY <2>2 DEF Marker, FX!Queued
  <2> QED BY <1>3, <2>1, <2>2 DEF Repair
<1> QED BY <1>1, <1>2, <1>3

\* Feed's part of the invariant; only the part that runs moves.
FeedPartInv ==
    /\ part \in {"feed races", "feed resync"} => ArrivalInv /\ DropInv
    /\ part = "feed resync" => MissInv

\* However many messages, clients, requests and connections there are and
\* however small the queue, the ring and the delta buffer: a frame the queue
\* of the terminal turned away is owed a full read until one has been made,
\* whatever overlaps and whichever requests fail; so is every event a lost
\* or lagging connection missed, as long as the first page and every
\* subscription are in time and no request fails; and arrivals are announced
\* in the order of their commits.
THEOREM MissedIsAlwaysRepaid == TerminalSpec => []MissedIsRepaid
<1>1. TerminalInit => FeedPartInv
  BY FeedInit, ResyncInit DEF TerminalInit, Begin, FeedPartInv
<1>2. FeedPartInv /\ [TerminalNext]_terminalVars => FeedPartInv'
  <2> SUFFICES ASSUME FeedPartInv, [TerminalNext]_terminalVars, part' \in {"feed races", "feed resync"}
               PROVE  /\ (ArrivalInv /\ DropInv)'
                      /\ part' = "feed resync" => MissInv'
    BY DEF FeedPartInv
  <2>1. part' = part
    BY DEF TerminalNext, terminalVars
  <2>2. ArrivalInv /\ DropInv
    BY <2>1 DEF FeedPartInv
  <2>3. FX!Next \/ UNCHANGED feedVars
    BY <2>1 DEF TerminalNext, terminalVars
  <2>4. CASE FX!Next
    <3>1. (ArrivalInv /\ DropInv)'
      BY <2>2, <2>4, OrderStep, DropStep
    <3>2. ASSUME part = "feed resync" PROVE MissInv'
      <4>1. MissInv
        BY <3>2 DEF FeedPartInv
      <4>2. Allowed \cap Late = {}
        BY <3>2 DEF Allowed
      <4> QED BY <2>2, <2>4, <4>1, <4>2, ResyncStep
    <3> QED BY <2>1, <3>1, <3>2
  <2>5. CASE UNCHANGED feedVars
    <3>1. (ArrivalInv /\ DropInv)'
      BY <2>2, <2>5 DEF feedVars, ArrivalInv, FX!ArrivalsInOrder, DropInv
    <3>2. MissInv => MissInv'
      BY <2>5 DEF feedVars, MissInv
    <3> QED BY <2>1, <3>1, <3>2 DEF FeedPartInv
  <2> QED BY <2>3, <2>4, <2>5
<1>3. FeedPartInv => MissedIsRepaid
  <2>1. ASSUME ArrivalInv, DropInv PROVE FX!DropIsRepaid /\ FX!ArrivalsInOrder
    <3>1. dropped > view.at => conn.owed \/ Marker(queue) \/ view.stale
      BY <2>1 DEF DropInv, FeedInv, DebtInv
    <3> QED BY <2>1, <3>1 DEF ArrivalInv, FX!DropIsRepaid, FX!Queued, Marker
  <2> QED BY <2>1, ResyncOwed DEF FeedPartInv, MissedIsRepaid
<1> QED BY <1>1, <1>2, <1>3, PTL DEF TerminalSpec
=============================================================================
