---------------------------- MODULE StoreProofs -----------------------------
(***************************************************************************)
(* What the repository promises, for every number of messages, every batch *)
(* and page size and every bound: the tables agree although row numbers    *)
(* are used again, a trim keeps the newest, and a walk from page to page   *)
(* misses nothing that stays and lists nothing twice.                      *)
(***************************************************************************)
EXTENDS Store, FiniteSetTheorems, SequenceTheorems, TLAPS

-----------------------------------------------------------------------------
(* Finite sets of numbers, in descending order *)

\* Strict inclusion is well founded among finite sets: the induction of this
\* module, in the one form that needs no operator for a parameter.
LEMMA SmallestOf ==
    ASSUME NEW T, T # {}, \A X \in T : IsFiniteSet(X)
    PROVE  \E X \in T : \A Y \in T : Y \subseteq X => Y = X
<1> DEFINE S == UNION T
           R == StrictSubsetOrdering(S)
<1>1. IsWellFoundedOn(R, FiniteSubsetsOf(S))
  BY FS_StrictSubsetOrderingWellFounded
<1>2. T \subseteq FiniteSubsetsOf(S)
  BY DEF FiniteSubsetsOf
<1>3. PICK X \in T : \A Y \in T : <<Y, X>> \notin R
  <2> HIDE DEF R
  <2> QED BY <1>1, <1>2, WFMin
<1>4. \A Y \in T : Y \subseteq X /\ Y # X => <<Y, X>> \in R
  BY DEF StrictSubsetOrdering
<1>5. ASSUME NEW Y \in T, Y \subseteq X PROVE Y = X
  <2> HIDE DEF R
  <2> QED BY <1>3, <1>4, <1>5
<1> QED BY <1>5

\* A finite set of numbers has a least element.
LEMMA LeastOf ==
    ASSUME NEW S \in SUBSET Nat, IsFiniteSet(S), S # {}
    PROVE  \E m \in S : \A t \in S : m <= t
<1> DEFINE Below(s) == {t \in S : t < s}
           T == {Below(s) : s \in S}
<1>1. \A X \in T : IsFiniteSet(X)
  BY FS_Subset
<1>2. PICK m \in S : \A s \in S : Below(s) \subseteq Below(m) => Below(s) = Below(m)
  <2>1. T # {}
    OBVIOUS
  <2>2. PICK X \in T : \A Y \in T : Y \subseteq X => Y = X
    <3> HIDE DEF T
    <3> QED BY <1>1, <2>1, SmallestOf
  <2>3. PICK m \in S : X = Below(m)
    BY <2>2
  <2>4. \A s \in S : Below(s) \in T
    OBVIOUS
  <2> HIDE DEF T, Below
  <2> QED BY <2>2, <2>3, <2>4
<1>3. ASSUME NEW t \in S, ~(m <= t) PROVE FALSE
  <2>1. m \in Nat /\ t \in Nat /\ t < m
    BY <1>3
  <2>2. t \in Below(m) /\ t \notin Below(t)
    BY <2>1
  <2>3. ASSUME NEW u \in Below(t) PROVE u \in Below(m)
    BY <2>1
  <2> HIDE DEF Below
  <2> QED BY <1>2, <2>2, <2>3
<1> QED BY <1>3

\* `o` lists the set downwards.
Descends(o, S) ==
    /\ o \in [1 .. Cardinality(S) -> S]
    /\ \A i, j \in DOMAIN o : i < j => o[i] > o[j]

\* Such an order lists all of the set.
LEMMA DescendsOnto ==
    ASSUME NEW S \in SUBSET Nat, IsFiniteSet(S), NEW o, Descends(o, S)
    PROVE  \A s \in S : \E i \in 1 .. Cardinality(S) : o[i] = s
<1> DEFINE n == Cardinality(S)
<1>1. n \in Nat
  BY FS_CardinalityType
<1>2. IsFiniteSet(1 .. n) /\ Cardinality(1 .. n) = n
  BY <1>1, FS_Interval
<1>3. o \in [1 .. n -> S] /\ \A i, j \in 1 .. n : o[i] = o[j] => i = j
  <2> SUFFICES ASSUME NEW i \in 1 .. n, NEW j \in 1 .. n, i # j PROVE o[i] # o[j]
    BY DEF Descends
  <2>1. o[i] \in Nat /\ o[j] \in Nat /\ DOMAIN o = 1 .. n
    BY DEF Descends
  <2>2. CASE i < j
    BY <2>1, <2>2 DEF Descends
  <2>3. CASE j < i
    BY <2>1, <2>3 DEF Descends
  <2> QED BY <1>1, <2>2, <2>3
<1>4. o \in Injection(1 .. n, S)
  BY <1>3 DEF Injection, IsInjective
<1>5. o \in Surjection(1 .. n, S)
  BY <1>2, <1>4, FS_Injection
<1> QED BY <1>5 DEF Surjection

\* Every finite set of numbers can be listed downwards.
LEMMA DescendingOrder ==
    ASSUME NEW S \in SUBSET Nat, IsFiniteSet(S)
    PROVE  \E o : Descends(o, S)
<1> DEFINE Listable(X) == \E o : Descends(o, X)
           T == {X \in SUBSET S : ~Listable(X)}
<1> SUFFICES ASSUME T # {} PROVE FALSE
  BY DEF T
<1>1. \A X \in T : IsFiniteSet(X)
  BY FS_Subset
<1>2. PICK X \in T : \A Y \in T : Y \subseteq X => Y = X
  <2> HIDE DEF T
  <2> QED BY <1>1, SmallestOf
<1>3. X \subseteq Nat /\ IsFiniteSet(X) /\ Cardinality(X) \in Nat
  BY <1>1, FS_CardinalityType
<1>4. X # {}
  <2> SUFFICES ASSUME X = {} PROVE FALSE
    OBVIOUS
  <2>1. Cardinality(X) = 0
    BY FS_EmptySet
  <2>2. Descends([i \in 1 .. 0 |-> 0], X)
    BY <2>1 DEF Descends
  <2> QED BY <2>2
<1>5. PICK m \in X : \A t \in X : m <= t
  BY <1>3, <1>4, LeastOf
<1> DEFINE Y == X \ {m}
           n == Cardinality(X)
<1>6. IsFiniteSet(Y) /\ Cardinality(Y) = n - 1 /\ n - 1 \in Nat
  <2>1. IsFiniteSet(Y) /\ Cardinality(Y) = n - 1
    BY <1>3, FS_RemoveElement
  <2>2. Cardinality(Y) \in Nat
    BY <2>1, FS_CardinalityType
  <2> QED BY <2>1, <2>2
<1>7. PICK o : Descends(o, Y)
  <2>1. Y \notin T
    BY <1>2
  <2> QED BY <2>1
<1>8. Descends([i \in 1 .. n |-> IF i = n THEN m ELSE o[i]], X)
  <2> DEFINE q == [i \in 1 .. n |-> IF i = n THEN m ELSE o[i]]
  <2>1. \A i \in 1 .. n - 1 : o[i] \in Y /\ o[i] \in X /\ o[i] > m
    <3> SUFFICES ASSUME NEW i \in 1 .. n - 1 PROVE o[i] \in Y /\ o[i] > m
      OBVIOUS
    <3>1. o[i] \in Y
      BY <1>6, <1>7 DEF Descends
    <3>2. o[i] \in Nat /\ m \in Nat /\ m <= o[i] /\ m # o[i]
      BY <1>3, <1>5, <3>1
    <3> QED BY <3>1, <3>2
  <2>2. q \in [1 .. n -> X]
    BY <1>3, <2>1
  <2>3. ASSUME NEW i \in 1 .. n, NEW j \in 1 .. n, i < j PROVE q[i] > q[j]
    <3>1. i \in 1 .. n - 1 /\ i # n
      BY <1>3, <2>3
    <3>2. CASE j = n
      BY <2>1, <3>1, <3>2
    <3>3. CASE j # n
      <4>1. j \in 1 .. n - 1
        BY <1>3, <3>3
      <4> QED BY <1>6, <1>7, <2>3, <3>1, <3>3, <4>1 DEF Descends
    <3> QED BY <3>2, <3>3
  <2> QED BY <2>2, <2>3 DEF Descends
<1> QED BY <1>8

-----------------------------------------------------------------------------
(* NewestOf: what ORDER BY seq DESC LIMIT n returns *)

\* Above the i-th of a descending order are the i - 1 before it.
LEMMA CountAbove ==
    ASSUME NEW S \in SUBSET Nat, IsFiniteSet(S), NEW o, Descends(o, S),
           NEW i \in 1 .. Cardinality(S)
    PROVE  Cardinality({t \in S : t > o[i]}) = i - 1
<1> DEFINE n == Cardinality(S)
           A == {t \in S : t > o[i]}
           f == [k \in 1 .. i - 1 |-> o[k]]
<1>1. /\ n \in Nat /\ i \in 1 .. n /\ i \in Nat
      /\ o \in [1 .. n -> S] /\ \A k \in 1 .. n : o[k] \in Nat
  <2>1. n \in Nat
    BY FS_CardinalityType
  <2>2. i \in 1 .. n /\ i \in Nat
    BY <2>1
  <2>3. o \in [1 .. n -> S]
    BY DEF Descends
  <2> QED BY <2>1, <2>2, <2>3
<1>2. \A k, l \in 1 .. n : k < l => o[k] > o[l]
  BY DEF Descends
<1>3. f \in [1 .. i - 1 -> A]
  <2> SUFFICES ASSUME NEW k \in 1 .. i - 1 PROVE o[k] \in A
    OBVIOUS
  <2>1. k \in 1 .. n /\ k < i
    BY <1>1
  <2> QED BY <1>1, <1>2, <2>1
<1>4. ASSUME NEW a \in A PROVE \E k \in 1 .. i - 1 : f[k] = a
  <2>1. PICK k \in 1 .. n : o[k] = a
    BY DescendsOnto
  <2>2. k < i
    <3> SUFFICES ASSUME ~(k < i) PROVE FALSE
      OBVIOUS
    <3>1. k = i \/ i < k
      BY <1>1
    <3> QED BY <1>1, <1>2, <2>1, <3>1
  <2>3. k \in 1 .. i - 1
    BY <1>1, <2>2
  <2> QED BY <2>1, <2>3
<1>5. \A k, l \in 1 .. i - 1 : f[k] = f[l] => k = l
  <2> SUFFICES ASSUME NEW k \in 1 .. i - 1, NEW l \in 1 .. i - 1, k # l PROVE o[k] # o[l]
    OBVIOUS
  <2>1. k \in 1 .. n /\ l \in 1 .. n /\ (k < l \/ l < k)
    BY <1>1
  <2> QED BY <1>1, <1>2, <2>1
<1>6. f \in Bijection(1 .. i - 1, A)
  BY <1>3, <1>4, <1>5 DEF Bijection, Injection, Surjection, IsInjective
<1>7. IsFiniteSet(1 .. i - 1) /\ Cardinality(1 .. i - 1) = i - 1
  <2>1. i - 1 \in Nat
    BY <1>1
  <2> QED BY <2>1, FS_Interval, SMTT(20)
<1>8. ExistsBijection(1 .. i - 1, A)
  BY <1>6 DEF ExistsBijection
<1>9. Cardinality(A) = Cardinality(1 .. i - 1)
  <2> HIDE DEF A
  <2> QED BY <1>7, <1>8, FS_Bijection
<1> QED BY <1>7, <1>9

\* A page is of the set it is taken from, and what it leaves out is older than
\* what it shows.
LEMMA NewestOfAbove ==
    ASSUME NEW S \in SUBSET Nat, IsFiniteSet(S), NEW n \in Nat
    PROVE  /\ NewestOf(S, n) \subseteq S
           /\ IsFiniteSet(NewestOf(S, n))
           /\ \A s \in S \ NewestOf(S, n), t \in NewestOf(S, n) : s < t
<1> DEFINE Above(s) == {t \in S : t > s}
<1>1. NewestOf(S, n) = {s \in S : Cardinality(Above(s)) < n}
  BY DEF NewestOf
<1>2. ASSUME NEW s \in S \ NewestOf(S, n), NEW t \in NewestOf(S, n), ~(s < t)
      PROVE  FALSE
  <2>1. t \in S /\ s # t
    BY <1>1
  <2>2. s \in Nat /\ t \in Nat /\ t < s
    BY <1>2, <2>1
  <2>6. ASSUME NEW u \in Above(s) PROVE u \in Above(t)
    BY <2>2
  <2>3. IsFiniteSet(Above(t)) /\ IsFiniteSet(Above(s))
    BY FS_Subset
  <2>4. /\ Cardinality(Above(s)) <= Cardinality(Above(t))
        /\ Cardinality(Above(s)) \in Nat /\ Cardinality(Above(t)) \in Nat
    <3> HIDE DEF Above
    <3> QED BY <2>6, <2>3, FS_Subset, FS_CardinalityType
  <2>5. Cardinality(Above(t)) < n /\ ~(Cardinality(Above(s)) < n)
    BY <1>1, <2>1
  <2> HIDE DEF Above
  <2> QED BY <2>4, <2>5
<1> QED BY <1>1, <1>2, FS_Subset

\* It is as long as the limit and the set allow.
LEMMA NewestOfSize ==
    ASSUME NEW S \in SUBSET Nat, IsFiniteSet(S), NEW n \in Nat
    PROVE  /\ Cardinality(S) <= n => NewestOf(S, n) = S
           /\ Cardinality(S) > n => Cardinality(NewestOf(S, n)) = n
<1> DEFINE c == Cardinality(S)
           N == NewestOf(S, n)
           m == IF c <= n THEN c ELSE n
<1>1. PICK o : Descends(o, S)
  BY DescendingOrder
<1>2. c \in Nat /\ m \in Nat /\ m <= c
  BY FS_CardinalityType
<1>3. o \in [1 .. c -> S] /\ \A k, l \in 1 .. c : k < l => o[k] > o[l]
  BY <1>1 DEF Descends
<1>4. \A k \in 1 .. c : o[k] \in S /\ o[k] \in Nat
  BY <1>3
<1>5. \A k \in 1 .. c : o[k] \in N <=> k <= n
  <2> TAKE k \in 1 .. c
  <2>1. Cardinality({t \in S : t > o[k]}) = k - 1
    BY <1>1, CountAbove
  <2>2. o[k] \in N <=> k - 1 < n
    BY <1>4, <2>1 DEF NewestOf
  <2> QED BY <1>2, <2>2
<1>6. \A s \in S : \E k \in 1 .. c : o[k] = s
  BY <1>1, DescendsOnto
<1>7. ASSUME c <= n PROVE N = S
  <2>1. \A k \in 1 .. c : o[k] \in N
    BY <1>2, <1>5, <1>7
  <2>2. S \subseteq N
    BY <1>6, <2>1
  <2>3. N \subseteq S
    BY NewestOfAbove
  <2> QED BY <2>2, <2>3
<1>8. ASSUME c > n PROVE Cardinality(N) = n
  <2> DEFINE f == [k \in 1 .. n |-> o[k]]
  <2>1. \A k \in 1 .. n : k \in 1 .. c /\ k <= n
    BY <1>2, <1>8
  <2>2. f \in [1 .. n -> N]
    BY <1>5, <2>1
  <2>3. ASSUME NEW s \in N PROVE \E k \in 1 .. n : f[k] = s
    <3>1. PICK k \in 1 .. c : o[k] = s
      BY <1>6, <2>3, NewestOfAbove
    <3>2. k \in 1 .. n
      BY <1>2, <1>5, <3>1
    <3> QED BY <3>1, <3>2
  <2>4. ASSUME NEW k \in 1 .. n, NEW l \in 1 .. n, k # l PROVE f[k] # f[l]
    <3>1. k \in 1 .. c /\ l \in 1 .. c /\ (k < l \/ l < k)
      BY <1>2, <2>1, <2>4
    <3> QED BY <1>3, <1>4, <3>1
  <2>5. f \in Bijection(1 .. n, N)
    <3> HIDE DEF N
    <3> QED BY <2>2, <2>3, <2>4 DEF Bijection, Injection, Surjection, IsInjective
  <2>6. ExistsBijection(1 .. n, N)
    BY <2>5 DEF ExistsBijection
  <2>7. IsFiniteSet(1 .. n) /\ Cardinality(1 .. n) = n
    BY FS_Interval, SMTT(20)
  <2> HIDE DEF N
  <2> QED BY <2>6, <2>7, FS_Bijection
<1> QED BY <1>2, <1>7, <1>8

-----------------------------------------------------------------------------
(***************************************************************************)
(* The inductive invariant.  Every table is what the rows of `messages`    *)
(* say it is; a row's number and its id grow together, no number is ahead  *)
(* of its id and no id ahead of the last one minted, which is why a number *)
(* used again never brings back an old place in the order; and where the   *)
(* walk stands, what is still to come was not listed yet, and what has to  *)
(* be listed was or is still to come.                                      *)
(***************************************************************************)

TextOf(s) == [of |-> messages[s].id, mail |-> messages[s].mail]

\* Content and index have a row for each message, made for it.
RowsAgree ==
    /\ DOMAIN content = DOMAIN messages
    /\ DOMAIN fts = DOMAIN messages
    /\ \A s \in DOMAIN messages : content[s] = TextOf(s) /\ fts[s] = TextOf(s)

\* So do the attachments, one for each part.
PartsAgree ==
    /\ \A a \in attachments :
         /\ a.seq \in DOMAIN messages
         /\ a.of = messages[a.seq].id
         /\ a.cid \in messages[a.seq].mail.cids
    /\ \A s \in DOMAIN messages : \A c \in messages[s].mail.cids :
         [seq |-> s, of |-> messages[s].id, cid |-> c] \in attachments

\* And the tags, one for each tag in the column.
TagsAgree ==
    /\ \A r \in tagRows :
         r[2] \in DOMAIN messages /\ r[1] \in TagSet(messages[r[2]].tags)
    /\ \A s \in DOMAIN messages : \A t \in TagSet(messages[s].tags) : <<t, s>> \in tagRows

\* Numbers and ids grow together.
Arrival ==
    /\ minted <= MaxIds
    /\ \A s \in DOMAIN messages : s <= messages[s].id /\ messages[s].id <= minted
    /\ SeqIsArrivalOrder

Seen == {walk.seen[i] : i \in DOMAIN walk.seen}
Wanted(s) ==
    /\ messages[s].id \in walk.start
    /\ walk.word = NoWord \/ messages[s].mail.word = walk.word

WalkFrom ==
    /\ \A i \in DOMAIN walk.seen : walk.seen[i] <= minted
    /\ \A id \in walk.start : id <= minted
    /\ \A i, j \in DOMAIN walk.seen : walk.seen[i] = walk.seen[j] => i = j
    /\ walk.pc = Idle => walk.seen = << >>
    /\ walk.pc = "cursor" => walk.last # 0

WalkAt(s) ==
    LET id == messages[s].id
    IN  /\ walk.pc = "page" =>
             /\ s < walk.bound => id \notin Seen
             /\ Wanted(s) => id \in Seen \/ s < walk.bound
        /\ walk.pc \in {"count", "cursor"} /\ walk.last # 0 =>
             /\ id < walk.last => id \notin Seen
             /\ Wanted(s) => id \in Seen \/ id < walk.last
        /\ walk.pc = "done" \/ (walk.pc = "count" /\ walk.last = 0) =>
             (Wanted(s) => id \in Seen)

WalkInv == WalkFrom /\ \A s \in DOMAIN messages : WalkAt(s)

SInv ==
    /\ StoreTypeOK
    /\ RowsAgree /\ PartsAgree /\ TagsAgree
    /\ Arrival
    /\ WalkInv

\* The bounds the proofs use.
LEMMA Bounds ==
    /\ MaxIds \in Nat /\ MaxMessages \in Nat /\ MaxTagCount \in Nat
    /\ PageLimit \in Nat /\ PageLimit # 0
BY StoreAssumption, Zenon

\* No more rows than the bound on ids: every set of stored numbers is finite.
LEMMA RowsFinite ==
    ASSUME StoreTypeOK, Arrival, NEW S \in SUBSET DOMAIN messages
    PROVE  IsFiniteSet(S) /\ S \in SUBSET Nat
<1>1. DOMAIN messages \subseteq 1 .. MaxIds
  <2> SUFFICES ASSUME NEW s \in DOMAIN messages PROVE s \in 1 .. MaxIds
    OBVIOUS
  <2>1. s \in Nat \ {0} /\ messages[s].id \in Nat
    BY DEF StoreTypeOK, Seqs, MessageIds, Row
  <2>2. s <= messages[s].id /\ messages[s].id <= minted /\ minted <= MaxIds /\ minted \in Nat
    BY DEF Arrival, StoreTypeOK
  <2> QED BY <2>1, <2>2, Bounds
<1>2. IsFiniteSet(1 .. MaxIds)
  BY Bounds, FS_Interval, SMTT(20)
<1>3. S \subseteq 1 .. MaxIds
  BY <1>1
<1>4. 1 .. MaxIds \subseteq Nat
  BY Bounds
<1> QED BY <1>2, <1>3, <1>4, FS_Subset

\* Two rows have two ids.
LEMMA OneRowPerId ==
    ASSUME StoreTypeOK, Arrival, NEW s \in DOMAIN messages, NEW t \in DOMAIN messages
    PROVE  /\ messages[s].id = messages[t].id => s = t
           /\ messages[s].id < messages[t].id <=> s < t
<1>1. s \in Nat /\ t \in Nat /\ messages[s].id \in Nat /\ messages[t].id \in Nat
  BY DEF StoreTypeOK, Seqs, MessageIds, Row
<1>2. /\ s < t => messages[s].id < messages[t].id
      /\ t < s => messages[t].id < messages[s].id
  BY DEF Arrival, SeqIsArrivalOrder
<1> QED BY <1>1, <1>2

\* The walk does not mind rows that go, or come with an id it cannot know.
LEMMA WalkKeeps ==
    ASSUME StoreTypeOK, WalkInv, walk' = walk, minted <= minted', minted' \in Nat,
           \A s \in DOMAIN messages' :
               \/ /\ s \in DOMAIN messages
                  /\ messages'[s].id = messages[s].id
                  /\ messages'[s].mail = messages[s].mail
               \/ messages'[s].id \in Nat /\ messages'[s].id > minted
    PROVE  WalkInv'
<1>1. /\ walk.seen \in Seq(Nat) /\ walk.start \subseteq Nat /\ minted \in Nat
      /\ \A i \in DOMAIN walk.seen : walk.seen[i] \in Nat
  <2>1. walk.seen \in Seq(MessageIds) /\ walk.start \subseteq MessageIds /\ minted \in Nat
    BY DEF StoreTypeOK, Walks
  <2> QED BY <2>1 DEF MessageIds
<1>2. WalkFrom'
  <2>1. Seen' = Seen
    BY DEF Seen
  <2>2. WalkFrom
    BY DEF WalkInv
  <2> QED BY <1>1, <2>2 DEF WalkFrom
<1>3. ASSUME NEW s \in DOMAIN messages' PROVE WalkAt(s)'
  <2>1. Seen' = Seen
    BY DEF Seen
  <2>2. CASE /\ s \in DOMAIN messages
             /\ messages'[s].id = messages[s].id
             /\ messages'[s].mail = messages[s].mail
    <3>1. WalkAt(s)
      BY <2>2 DEF WalkInv
    <3> QED BY <2>1, <2>2, <3>1 DEF WalkAt, Wanted
  <2>3. CASE messages'[s].id \in Nat /\ messages'[s].id > minted
    <3>1. messages'[s].id \notin Seen
      BY <1>1, <2>3 DEF WalkInv, WalkFrom, Seen
    <3>2. messages'[s].id \notin walk.start
      BY <1>1, <2>3 DEF WalkInv, WalkFrom
    <3>3. ~ Wanted(s)'
      BY <3>2 DEF Wanted
    <3> QED BY <2>1, <3>1, <3>3 DEF WalkAt
  <2> QED BY <1>3, <2>2, <2>3
<1> QED BY <1>2, <1>3 DEF WalkInv

\* The tables' part of StoreTypeOK.
Tables ==
    /\ DOMAIN messages \subseteq Seqs
    /\ messages \in [DOMAIN messages -> Row]
    /\ DOMAIN content \subseteq Seqs
    /\ content \in [DOMAIN content -> Text]
    /\ DOMAIN fts \subseteq Seqs
    /\ fts \in [DOMAIN fts -> Text]
    /\ attachments \subseteq AttachmentRow
    /\ tagRows \subseteq Tags \X Seqs

\* A delete takes a message from every table at once, and the rest agree as
\* they did.
LEMMA Removal ==
    ASSUME SInv, NEW gone, DeleteIndex(gone), DeleteRows(gone),
           UNCHANGED <<minted, walk>>
    PROVE  Tables' /\ RowsAgree' /\ PartsAgree' /\ TagsAgree' /\ Arrival' /\ WalkInv'
<1> USE DEF SInv
<1>1. /\ DOMAIN messages' = DOMAIN messages \ gone
      /\ DOMAIN content' = DOMAIN content \ gone
      /\ DOMAIN fts' = DOMAIN fts \ gone
      /\ \A s \in DOMAIN messages' : messages'[s] = messages[s]
      /\ \A s \in DOMAIN content' : content'[s] = content[s]
      /\ \A s \in DOMAIN fts' : fts'[s] = fts[s]
  BY DEF DeleteIndex, DeleteRows, Without
<1>2. /\ attachments' = {a \in attachments : a.seq \notin gone}
      /\ tagRows' = {r \in tagRows : r[2] \notin gone}
  BY DEF DeleteRows
<1>3. Tables'
  <2>1. /\ messages' \in [DOMAIN messages' -> Row]
        /\ content' \in [DOMAIN content' -> Text]
        /\ fts' \in [DOMAIN fts' -> Text]
    BY <1>1 DEF StoreTypeOK, DeleteIndex, DeleteRows, Without
  <2>2. attachments' \subseteq AttachmentRow /\ tagRows' \subseteq Tags \X Seqs
    BY <1>2 DEF StoreTypeOK
  <2> QED BY <1>1, <2>1, <2>2 DEF StoreTypeOK, Tables
<1>4. RowsAgree'
  <2>1. RowsAgree
    OBVIOUS
  <2> QED BY <1>1, <2>1 DEF RowsAgree, TextOf
<1>5. PartsAgree'
  <2>1. ASSUME NEW a \in attachments'
        PROVE  /\ a.seq \in DOMAIN messages'
               /\ a.of = messages'[a.seq].id
               /\ a.cid \in messages'[a.seq].mail.cids
    BY <1>1, <1>2 DEF PartsAgree
  <2>2. ASSUME NEW s \in DOMAIN messages', NEW c \in messages'[s].mail.cids
        PROVE  [seq |-> s, of |-> messages'[s].id, cid |-> c] \in attachments'
    BY <1>1, <1>2 DEF PartsAgree
  <2> QED BY <2>1, <2>2 DEF PartsAgree
<1>6. TagsAgree'
  <2>1. ASSUME NEW r \in tagRows'
        PROVE  r[2] \in DOMAIN messages' /\ r[1] \in TagSet(messages'[r[2]].tags)
    BY <1>1, <1>2 DEF TagsAgree
  <2>2. ASSUME NEW s \in DOMAIN messages', NEW t \in TagSet(messages'[s].tags)
        PROVE  <<t, s>> \in tagRows'
    BY <1>1, <1>2 DEF TagsAgree
  <2> QED BY <2>1, <2>2 DEF TagsAgree
<1>7. Arrival'
  BY <1>1 DEF Arrival, SeqIsArrivalOrder
<1>8. WalkInv'
  <2>1. minted \in Nat
    BY DEF StoreTypeOK
  <2> QED BY <1>1, <2>1, WalkKeeps
<1> QED BY <1>3, <1>4, <1>5, <1>6, <1>7, <1>8


\* A function on 1 .. n is a sequence of that length.
LEMMA SeqOfLength ==
    ASSUME NEW S, NEW n \in Nat, NEW q \in [1 .. n -> S]
    PROVE  q \in Seq(S) /\ Len(q) = n /\ DOMAIN q = 1 .. n
<1>1. q \in Seq(S)
  BY SeqDef
<1>2. DOMAIN q = 1 .. n
  OBVIOUS
<1>3. Len(q) \in Nat /\ DOMAIN q = 1 .. Len(q)
  BY <1>1, LenProperties
<1>4. 1 .. n = 1 .. Len(q)
  BY <1>2, <1>3
<1>5. Len(q) = n
  <2>1. CASE n < Len(q)
    <3>1. Len(q) \in 1 .. Len(q) /\ Len(q) \notin 1 .. n
      BY <1>3, <2>1
    <3> QED BY <1>4, <3>1
  <2>2. CASE Len(q) < n
    <3>1. n \in 1 .. n /\ n \notin 1 .. Len(q)
      BY <1>3, <2>2
    <3> QED BY <1>4, <3>1
  <2> QED BY <1>3, <2>1, <2>2
<1> QED BY <1>1, <1>2, <1>5

\* insert_batch: the new rows lie above all others and carry ids above all
\* others, in every table at once.
LEMMA Insertion ==
    ASSUME SInv, NEW n \in Nat, NEW batch \in [1 .. n -> Mails], InsertBatch(batch)
    PROVE  Tables' /\ RowsAgree' /\ PartsAgree' /\ TagsAgree' /\ Arrival' /\ WalkInv'
<1> USE DEF SInv
<1>1. Len(batch) = n
  BY SeqOfLength
<1>2. PICK first \in 1 .. MaxIds :
        LET new == first .. first + n - 1
            id(s) == minted + (s - first) + 1
            text(s) == [of |-> id(s), mail |-> batch[s - first + 1]]
        IN  /\ IsNextSeq(first)
            /\ messages' = With(messages, [s \in new |->
                   [id |-> id(s), mail |-> batch[s - first + 1],
                    tags |-> << >>, createdAt |-> clock]])
            /\ content' = With(content, [s \in new |-> text(s)])
            /\ attachments' = attachments \cup
                   UNION {{[seq |-> s, of |-> id(s), cid |-> c] :
                           c \in batch[s - first + 1].cids} : s \in new}
            /\ fts' = With(fts, [s \in new |-> text(s)])
  BY <1>1 DEF InsertBatch
<1> DEFINE new == first .. first + n - 1
           id(s) == minted + (s - first) + 1
           mail(s) == batch[s - first + 1]
           text(s) == [of |-> id(s), mail |-> mail(s)]
           row(s) == [id |-> id(s), mail |-> mail(s), tags |-> << >>, createdAt |-> clock]
<1>3. /\ minted + n <= MaxIds /\ minted' = minted + n
      /\ tagRows' = tagRows /\ walk' = walk
  BY <1>1 DEF InsertBatch
<1>4. first \in Nat \ {0} /\ minted \in Nat /\ MaxIds \in Nat /\ clock \in Nat
  BY Bounds DEF StoreTypeOK
<1>5. \A s \in new :
        /\ s \in Seqs /\ s >= first /\ id(s) \in MessageIds
        /\ mail(s) \in Mails /\ minted < id(s) /\ id(s) <= minted + n
  <2> TAKE s \in new
  <2>1. s \in Nat \ {0} /\ s >= first /\ s - first + 1 \in 1 .. n
    BY <1>4
  <2>2. mail(s) \in Mails
    BY <2>1
  <2> QED BY <1>4, <2>1, <2>2 DEF MessageIds, Seqs
<1>6. \A s \in DOMAIN messages : s \in Nat /\ s < first /\ s \notin new
  <2>1. \A s \in DOMAIN messages : s \in Nat /\ s < first
    BY <1>2 DEF IsNextSeq, StoreTypeOK, Seqs
  <2> QED BY <1>4, <2>1
<1> HIDE DEF new
<1>7. /\ DOMAIN messages' = DOMAIN messages \cup new
      /\ DOMAIN content' = DOMAIN content \cup new
      /\ DOMAIN fts' = DOMAIN fts \cup new
  BY <1>2 DEF With, new
<1>8. \A s \in new : messages'[s] = row(s) /\ content'[s] = text(s) /\ fts'[s] = text(s)
  BY <1>2 DEF With, new
<1>9. DOMAIN content = DOMAIN messages /\ DOMAIN fts = DOMAIN messages
  BY DEF RowsAgree
<1>10. \A s \in DOMAIN messages :
         messages'[s] = messages[s] /\ content'[s] = content[s] /\ fts'[s] = fts[s]
  BY <1>2, <1>6, <1>9 DEF With, new
<1>11. \A a : a \in attachments' <=>
         \/ a \in attachments
         \/ \E s \in new : \E c \in mail(s).cids : a = [seq |-> s, of |-> id(s), cid |-> c]
  BY <1>2 DEF new
<1>18. \A s \in new :
         messages'[s].id = id(s) /\ messages'[s].mail = mail(s) /\ messages'[s].tags = << >>
  <2> HIDE DEF id, mail
  <2>1. \A s \in new : row(s).id = id(s) /\ row(s).mail = mail(s) /\ row(s).tags = << >>
    OBVIOUS
  <2> HIDE DEF row
  <2> QED BY <1>8, <2>1
<1> HIDE DEF id, mail, row
<1>12. Tables'
  <2>1. \A s \in new : text(s) \in Text /\ row(s) \in Row
    <3>1. << >> \in TagLists
      <4>1. << >> \in [1 .. 0 -> Tags]
        OBVIOUS
      <4>2. 0 \in 0 .. MaxTagCount
        BY Bounds
      <4> QED BY <4>1, <4>2 DEF TagLists
    <3> QED BY <1>4, <1>5, <3>1 DEF Text, Row, row
  <2>2. /\ messages' \in [DOMAIN messages' -> Row]
        /\ content' \in [DOMAIN content' -> Text]
        /\ fts' \in [DOMAIN fts' -> Text]
    <3>1. /\ messages' = [s \in DOMAIN messages' |-> messages'[s]]
          /\ content' = [s \in DOMAIN content' |-> content'[s]]
          /\ fts' = [s \in DOMAIN fts' |-> fts'[s]]
      BY <1>2 DEF With
    <3>2. /\ \A s \in DOMAIN messages' : messages'[s] \in Row
          /\ \A s \in DOMAIN content' : content'[s] \in Text
          /\ \A s \in DOMAIN fts' : fts'[s] \in Text
      <4>1. /\ \A s \in DOMAIN messages : messages[s] \in Row
            /\ \A s \in DOMAIN content : content[s] \in Text
            /\ \A s \in DOMAIN fts : fts[s] \in Text
        BY DEF StoreTypeOK
      <4> QED BY <1>7, <1>8, <1>9, <1>10, <2>1, <4>1
    <3> QED BY <3>1, <3>2
  <2>3. /\ DOMAIN messages' \subseteq Seqs
        /\ DOMAIN content' \subseteq Seqs /\ DOMAIN fts' \subseteq Seqs
    BY <1>5, <1>7 DEF StoreTypeOK
  <2>4. attachments' \subseteq AttachmentRow
    <3> SUFFICES ASSUME NEW a \in attachments' PROVE a \in AttachmentRow
      OBVIOUS
    <3>1. CASE a \in attachments
      BY <3>1 DEF StoreTypeOK
    <3>2. CASE \E s \in new : \E c \in mail(s).cids : a = [seq |-> s, of |-> id(s), cid |-> c]
      BY <1>5, <3>2 DEF AttachmentRow, Mails
    <3> QED BY <1>11, <3>1, <3>2
  <2> QED BY <1>3, <2>2, <2>3, <2>4 DEF StoreTypeOK, Tables
<1>13. RowsAgree'
  <2>1. ASSUME NEW s \in DOMAIN messages' PROVE (content[s] = TextOf(s) /\ fts[s] = TextOf(s))'
    <3>1. CASE s \in DOMAIN messages
      BY <1>10, <3>1 DEF RowsAgree, TextOf
    <3>2. CASE s \in new
      BY <1>8, <1>18, <3>2 DEF TextOf
    <3> QED BY <1>7, <3>1, <3>2
  <2> QED BY <1>7, <1>9, <2>1 DEF RowsAgree
<1>14. PartsAgree'
  <2>1. ASSUME NEW a \in attachments'
        PROVE  /\ a.seq \in DOMAIN messages'
               /\ a.of = messages'[a.seq].id
               /\ a.cid \in messages'[a.seq].mail.cids
    <3>1. CASE a \in attachments
      BY <1>7, <1>10, <3>1 DEF PartsAgree
    <3>2. CASE \E s \in new : \E c \in mail(s).cids : a = [seq |-> s, of |-> id(s), cid |-> c]
      BY <1>7, <1>18, <3>2
    <3> QED BY <1>11, <3>1, <3>2
  <2>2. ASSUME NEW s \in DOMAIN messages', NEW c \in messages'[s].mail.cids
        PROVE  [seq |-> s, of |-> messages'[s].id, cid |-> c] \in attachments'
    <3>1. CASE s \in DOMAIN messages
      BY <1>10, <1>11, <3>1 DEF PartsAgree
    <3>2. CASE s \in new
      BY <1>11, <1>18, <3>2
    <3> QED BY <1>7, <3>1, <3>2
  <2> QED BY <2>1, <2>2 DEF PartsAgree
<1>15. TagsAgree'
  <2>1. ASSUME NEW r \in tagRows'
        PROVE  r[2] \in DOMAIN messages' /\ r[1] \in TagSet(messages'[r[2]].tags)
    BY <1>3, <1>7, <1>10 DEF TagsAgree
  <2>2. ASSUME NEW s \in DOMAIN messages', NEW t \in TagSet(messages'[s].tags)
        PROVE  <<t, s>> \in tagRows'
    <3>1. CASE s \in DOMAIN messages
      BY <1>3, <1>10, <3>1 DEF TagsAgree
    <3>2. CASE s \in new
      <4>1. messages'[s].tags = << >>
        BY <1>18, <3>2
      <4>2. TagSet(<< >>) = {}
        BY DEF TagSet
      <4> QED BY <4>1, <4>2
    <3> QED BY <1>7, <3>1, <3>2
  <2> QED BY <2>1, <2>2 DEF TagsAgree
<1>16. Arrival'
  <2>1. \A s \in DOMAIN messages :
          messages[s].id \in Nat /\ s <= messages[s].id /\ messages[s].id <= minted
    BY DEF StoreTypeOK, MessageIds, Row, Arrival
  <2>2. first <= minted + 1
    <3>1. CASE first = 1
      BY <1>4, <3>1
    <3>2. CASE first - 1 \in DOMAIN messages
      BY <1>4, <2>1, <3>2
    <3> QED BY <1>2, <3>1, <3>2 DEF IsNextSeq
  <2>3. ASSUME NEW s \in DOMAIN messages'
        PROVE  s <= messages'[s].id /\ messages'[s].id <= minted'
    <3>1. CASE s \in DOMAIN messages
      BY <1>3, <1>4, <1>10, <2>1, <3>1
    <3>2. CASE s \in new
      <4>1. s \in Nat /\ s <= id(s)
        BY <1>4, <1>5, <2>2, <3>2 DEF id, Seqs
      <4> QED BY <1>3, <1>5, <1>18, <3>2, <4>1
    <3> QED BY <1>7, <3>1, <3>2
  <2>4. ASSUME NEW s \in DOMAIN messages', NEW t \in DOMAIN messages', s < t
        PROVE  messages'[s].id < messages'[t].id
    <3>1. CASE s \in DOMAIN messages /\ t \in DOMAIN messages
      BY <1>10, <2>4, <3>1 DEF Arrival, SeqIsArrivalOrder
    <3>2. CASE s \in DOMAIN messages /\ t \in new
      BY <1>4, <1>5, <1>18, <1>10, <2>1, <3>2 DEF MessageIds
    <3>3. CASE s \in new /\ t \in DOMAIN messages
      BY <1>4, <1>5, <1>6, <2>4, <3>3 DEF Seqs
    <3>4. CASE s \in new /\ t \in new
      BY <1>4, <1>5, <1>18, <2>4, <3>4 DEF id, Seqs
    <3> QED BY <1>7, <3>1, <3>2, <3>3, <3>4
  <2> QED BY <1>3, <2>3, <2>4 DEF Arrival, SeqIsArrivalOrder
<1>17. WalkInv'
  <2>1. minted <= minted' /\ minted' \in Nat
    BY <1>3, <1>4
  <2>2. \A s \in DOMAIN messages' :
               \/ /\ s \in DOMAIN messages
                  /\ messages'[s].id = messages[s].id
                  /\ messages'[s].mail = messages[s].mail
               \/ messages'[s].id \in Nat /\ messages'[s].id > minted
    BY <1>4, <1>5, <1>7, <1>18, <1>10 DEF MessageIds
  <2> QED BY <1>3, <2>1, <2>2, WalkKeeps
<1> QED BY <1>12, <1>13, <1>14, <1>15, <1>16, <1>17


\* update_message: the trigger follows the column, and no other table moves.
LEMMA Retagging ==
    ASSUME SInv, NEW seq \in DOMAIN messages, NEW tags \in Optional(TagLists),
           UpdateMessage(seq, tags)
    PROVE  Tables' /\ RowsAgree' /\ PartsAgree' /\ TagsAgree' /\ Arrival' /\ WalkInv'
<1> USE DEF SInv
<1> DEFINE newTags == Coalesce(tags, messages[seq].tags)
<1>1. newTags \in TagLists
  <2>1. CASE tags = {}
    BY <2>1 DEF Coalesce, StoreTypeOK, Row
  <2>2. CASE \E v \in TagLists : tags = {v}
    BY <2>2 DEF Coalesce
  <2> QED BY <2>1, <2>2 DEF Optional
<1>2. /\ messages' = [messages EXCEPT ![seq] = [@ EXCEPT !.tags = newTags]]
      /\ tagRows' = IF newTags = messages[seq].tags THEN tagRows
                    ELSE {r \in tagRows : r[2] # seq} \cup {<<t, seq>> : t \in TagSet(newTags)}
      /\ UNCHANGED <<content, attachments, fts, minted, walk>>
  BY DEF UpdateMessage, TagsTrigger
<1> HIDE DEF newTags
<1>3. messages[seq] \in Row /\ messages \in [DOMAIN messages -> Row] /\ seq \in Seqs
  BY DEF StoreTypeOK
<1> DEFINE row == [messages[seq] EXCEPT !.tags = newTags]
<1>4. row \in Row /\ row.id = messages[seq].id /\ row.mail = messages[seq].mail /\ row.tags = newTags
  BY <1>1, <1>3 DEF Row
<1>5. /\ DOMAIN messages' = DOMAIN messages
      /\ messages'[seq] = row
      /\ \A s \in DOMAIN messages \ {seq} : messages'[s] = messages[s]
      /\ messages' \in [DOMAIN messages -> Row]
  <2> HIDE DEF row
  <2>1. messages' = [messages EXCEPT ![seq] = row]
    BY <1>2 DEF row
  <2> QED BY <1>3, <1>4, <2>1
<1> HIDE DEF row
<1>6. \A s \in DOMAIN messages :
        messages'[s].id = messages[s].id /\ messages'[s].mail = messages[s].mail
  BY <1>4, <1>5
<1>7. \A s \in DOMAIN messages :
        messages'[s].tags = IF s = seq THEN newTags ELSE messages[s].tags
  BY <1>4, <1>5
<1>8. Tables'
  <2>1. TagSet(newTags) \subseteq Tags
    <3>1. PICK n \in 0 .. MaxTagCount : newTags \in [1 .. n -> Tags]
      BY <1>1 DEF TagLists
    <3> QED BY <3>1 DEF TagSet
  <2>2. tagRows \subseteq Tags \X Seqs
    BY DEF StoreTypeOK
  <2>3. {<<t, seq>> : t \in TagSet(newTags)} \subseteq Tags \X Seqs
    BY <1>3, <2>1
  <2>4. tagRows' \subseteq Tags \X Seqs
    BY <1>2, <2>2, <2>3
  <2> QED BY <1>2, <1>5, <2>4 DEF StoreTypeOK, Tables
<1>9. RowsAgree'
  BY <1>2, <1>5, <1>6 DEF RowsAgree, TextOf
<1>10. PartsAgree'
  <2>1. ASSUME NEW a \in attachments'
        PROVE  /\ a.seq \in DOMAIN messages'
               /\ a.of = messages'[a.seq].id
               /\ a.cid \in messages'[a.seq].mail.cids
    BY <1>2, <1>5, <1>6 DEF PartsAgree
  <2>2. ASSUME NEW s \in DOMAIN messages', NEW c \in messages'[s].mail.cids
        PROVE  [seq |-> s, of |-> messages'[s].id, cid |-> c] \in attachments'
    BY <1>2, <1>5, <1>6 DEF PartsAgree
  <2> QED BY <2>1, <2>2 DEF PartsAgree
<1>11. TagsAgree'
  <2>1. ASSUME NEW r \in tagRows'
        PROVE  r[2] \in DOMAIN messages' /\ r[1] \in TagSet(messages'[r[2]].tags)
    <3>1. CASE r \in tagRows /\ r[2] # seq
      BY <1>5, <1>7, <3>1 DEF TagsAgree
    <3>2. CASE r \in tagRows /\ r[2] = seq /\ newTags = messages[seq].tags
      BY <1>5, <1>7, <3>2 DEF TagsAgree
    <3>3. CASE r \in {<<t, seq>> : t \in TagSet(newTags)}
      <4>1. PICK t \in TagSet(newTags) : r = <<t, seq>>
        BY <3>3
      <4>2. r[1] \in TagSet(newTags) /\ r[2] = seq
        BY <4>1
      <4> QED BY <1>5, <1>7, <4>2
    <3> QED BY <1>2, <3>1, <3>2, <3>3
  <2>2. ASSUME NEW s \in DOMAIN messages', NEW t \in TagSet(messages'[s].tags)
        PROVE  <<t, s>> \in tagRows'
    <3>1. CASE s # seq
      <4>1. <<t, s>> \in tagRows /\ <<t, s>>[2] # seq
        BY <1>5, <1>7, <3>1 DEF TagsAgree
      <4> QED BY <1>2, <4>1
    <3>2. CASE s = seq
      <4>1. t \in TagSet(newTags)
        BY <1>5, <1>7, <3>2
      <4>2. CASE newTags = messages[seq].tags
        BY <1>2, <3>2, <4>1, <4>2 DEF TagsAgree
      <4>3. CASE newTags # messages[seq].tags
        BY <1>2, <3>2, <4>1, <4>3
      <4> QED BY <4>2, <4>3
    <3> QED BY <3>1, <3>2
  <2> QED BY <2>1, <2>2 DEF TagsAgree
<1>12. Arrival'
  BY <1>2, <1>5, <1>6 DEF Arrival, SeqIsArrivalOrder
<1>13. WalkInv'
  <2>1. minted \in Nat
    BY DEF StoreTypeOK
  <2> QED BY <1>2, <1>5, <1>6, <2>1, WalkKeeps
<1> QED BY <1>8, <1>9, <1>10, <1>11, <1>12, <1>13

\* delete_all: no table keeps a row.
LEMMA Emptying ==
    ASSUME SInv, DeleteAll
    PROVE  Tables' /\ RowsAgree' /\ PartsAgree' /\ TagsAgree' /\ Arrival' /\ WalkInv'
<1> USE DEF SInv
<1>1. /\ messages' = << >> /\ content' = << >> /\ fts' = << >>
      /\ attachments' = {} /\ tagRows' = {} /\ minted' = minted /\ walk' = walk
  BY DEF DeleteAll
<1>2. DOMAIN messages' = {} /\ DOMAIN content' = {} /\ DOMAIN fts' = {}
  BY <1>1
<1>3. Tables'
  <2>1. /\ messages' \in [{} -> Row] /\ content' \in [{} -> Text] /\ fts' \in [{} -> Text]
    BY <1>1
  <2> QED BY <1>1, <1>2, <2>1 DEF Tables
<1>4. RowsAgree' /\ PartsAgree' /\ TagsAgree'
  BY <1>1, <1>2 DEF RowsAgree, PartsAgree, TagsAgree
<1>5. Arrival'
  BY <1>1, <1>2 DEF Arrival, SeqIsArrivalOrder
<1>6. WalkInv'
  <2>1. minted \in Nat
    BY DEF StoreTypeOK
  <2> QED BY <1>1, <1>2, <2>1, WalkKeeps
<1> QED BY <1>3, <1>4, <1>5, <1>6

\* The trim's two deletes agree on what is too old: the index loses exactly
\* the rows that `messages` loses.
LEMMA TrimIsRemoval ==
    ASSUME SInv, TrimToMax
    PROVE  /\ DeleteIndex(Doomed) /\ DeleteRows(Doomed)
           /\ \A s \in Doomed, t \in DOMAIN messages \ Doomed : s < t
<1> USE DEF SInv
<1> DEFINE D == DOMAIN messages
           N == NewestOf(D, MaxMessages)
<1>1. IsFiniteSet(D) /\ D \in SUBSET Nat
  BY RowsFinite
<1>2. N \subseteq D /\ \A s \in D \ N, t \in N : s < t
  BY <1>1, Bounds, NewestOfAbove
<1>3. Doomed = D \ N /\ D \ Doomed = N
  BY <1>2 DEF Doomed
<1>4. DOMAIN fts = D
  BY DEF RowsAgree
<1>5. {r \in DOMAIN fts : \E t \in Doomed : r <= t} = Doomed
  <2>1. ASSUME NEW r \in D, NEW t \in Doomed, r <= t PROVE r \in Doomed
    <3> SUFFICES ASSUME r \in N PROVE FALSE
      BY <1>3
    <3>1. t < r /\ t \in Nat /\ r \in Nat
      BY <1>1, <1>2, <1>3
    <3> QED BY <2>1, <3>1
  <2>2. ASSUME NEW t \in Doomed PROVE t \in D /\ t <= t
    BY <1>1, <1>3
  <2> HIDE DEF D
  <2> QED BY <1>4, <2>1, <2>2
<1>6. DeleteIndex(Doomed) /\ DeleteRows(Doomed)
  <2> HIDE DEF D, N
  <2> QED BY <1>5 DEF TrimToMax, DeleteIndex
<1> QED BY <1>2, <1>3, <1>6


-----------------------------------------------------------------------------
(* The walk *)

\* One page: what it shows comes after everything listed before, and what it
\* does not show and is still to be listed lies below its cursor.
LEMMA PageStep ==
    ASSUME SInv, WalkPage
    PROVE  walk' \in Walks /\ WalkInv'
<1> USE DEF SInv
<1> DEFINE B == {s \in Listed : s < walk.bound}
           rows == NewestOf(B, PageLimit + 1)
           shown == NewestOf(rows, PageLimit)
           c == Cardinality(shown)
           order == CHOOSE o \in [1 .. Cardinality(shown) -> shown] :
                        \A i, j \in DOMAIN o : i < j => o[i] > o[j]
           ids == [i \in DOMAIN order |-> messages[order[i]].id]
           more == Cardinality(rows) > PageLimit
<1>1. /\ walk.pc = "page"
      /\ walk' = [walk EXCEPT !.pc = "count", !.page = IdsAt(shown), !.seen = @ \o ids,
                              !.last = IF more THEN ids[Len(ids)] ELSE 0]
      /\ messages' = messages /\ minted' = minted
  BY DEF WalkPage, PageBefore, WalkOnly, tables
<1>2. PageLimit \in Nat /\ PageLimit # 0 /\ PageLimit + 1 \in Nat
  BY Bounds
<1>3. Listed = {s \in DOMAIN messages : walk.word = NoWord \/ messages[s].mail.word = walk.word}
  <2>1. CASE walk.word = NoWord
    BY <2>1 DEF Listed
  <2>2. CASE walk.word # NoWord
    <3>1. DOMAIN fts = DOMAIN messages
          /\ \A s \in DOMAIN messages : fts[s].mail = messages[s].mail
      BY DEF RowsAgree, TextOf
    <3> QED BY <2>2, <3>1 DEF Listed, SearchHits
  <2> QED BY <2>1, <2>2
<1>4. /\ B = {s \in DOMAIN messages : /\ walk.word = NoWord \/ messages[s].mail.word = walk.word
                                      /\ s < walk.bound}
      /\ B \subseteq DOMAIN messages
  BY <1>3
<1> HIDE DEF B
<1>5. IsFiniteSet(B) /\ B \in SUBSET Nat
  BY <1>4, RowsFinite
<1>6. /\ rows \subseteq B /\ IsFiniteSet(rows) /\ rows \in SUBSET Nat
      /\ \A s \in B \ rows, t \in rows : s < t
  BY <1>2, <1>5, NewestOfAbove
<1>7. rows = B \/ more
  <2>1. CASE Cardinality(B) <= PageLimit + 1
    BY <1>2, <1>5, <2>1, NewestOfSize
  <2>2. CASE Cardinality(B) > PageLimit + 1
    <3>1. Cardinality(rows) = PageLimit + 1
      BY <1>2, <1>5, <2>2, NewestOfSize
    <3> QED BY <1>2, <3>1
  <2>3. Cardinality(B) \in Nat
    BY <1>5, FS_CardinalityType
  <2> QED BY <1>2, <2>1, <2>2, <2>3
<1> HIDE DEF rows
<1>8. /\ shown \subseteq rows /\ IsFiniteSet(shown) /\ shown \in SUBSET Nat
      /\ \A s \in rows \ shown, t \in shown : s < t
  BY <1>2, <1>6, NewestOfAbove
<1>9. /\ more => c = PageLimit
      /\ ~more => shown = B
  <2>1. Cardinality(rows) \in Nat
    BY <1>6, FS_CardinalityType
  <2>2. ASSUME ~more PROVE shown = B
    <3>1. Cardinality(rows) <= PageLimit
      BY <1>2, <2>1, <2>2
    <3>2. shown = rows
      BY <1>2, <1>6, <3>1, NewestOfSize
    <3> QED BY <1>7, <2>2, <3>2
  <2>3. ASSUME more PROVE c = PageLimit
    BY <1>2, <1>6, <2>3, NewestOfSize
  <2> QED BY <2>2, <2>3
<1>10. \A s \in B \ shown, t \in shown : s < t
  BY <1>6, <1>8
<1> HIDE DEF shown, more
<1>11. /\ Descends(order, shown)
       /\ order \in [1 .. c -> shown]
       /\ \A i, j \in 1 .. c : i < j => order[i] > order[j]
  <2>1. \E o : Descends(o, shown)
    BY <1>8, DescendingOrder
  <2>2. \E o \in [1 .. c -> shown] : \A i, j \in DOMAIN o : i < j => o[i] > o[j]
    BY <2>1 DEF Descends
  <2>3. order \in [1 .. c -> shown] /\ \A i, j \in DOMAIN order : i < j => order[i] > order[j]
    BY <2>2
  <2> HIDE DEF order
  <2> QED BY <2>3 DEF Descends
<1> HIDE DEF order
<1>12. \A s \in shown : \E i \in 1 .. c : order[i] = s
  BY <1>8, <1>11, DescendsOnto
<1>13. /\ \A s \in DOMAIN messages : messages[s].id \in MessageIds /\ messages[s].id \in Nat
       /\ shown \subseteq DOMAIN messages
       /\ c \in Nat
  <2>1. \A s \in DOMAIN messages : messages[s].id \in MessageIds /\ messages[s].id \in Nat
    BY DEF StoreTypeOK, Row, MessageIds
  <2>2. shown \subseteq DOMAIN messages
    BY <1>4, <1>6, <1>8
  <2>3. c \in Nat
    BY <1>8, FS_CardinalityType
  <2> QED BY <2>1, <2>2, <2>3
<1> HIDE DEF c
<1>14. /\ ids \in [1 .. c -> MessageIds]
       /\ \A i \in 1 .. c : order[i] \in shown /\ ids[i] = messages[order[i]].id
  BY <1>11, <1>13
<1> HIDE DEF ids
<1>15. ids \in Seq(MessageIds) /\ Len(ids) = c /\ DOMAIN ids = 1 .. c
  BY <1>13, <1>14, SeqOfLength
<1>16. \A i, j \in 1 .. c : ids[i] = ids[j] => i = j
  <2> SUFFICES ASSUME NEW i \in 1 .. c, NEW j \in 1 .. c, i # j PROVE ids[i] # ids[j]
    OBVIOUS
  <2>1. i < j \/ j < i
    BY <1>13
  <2>2. order[i] # order[j]
    <3>1. order[i] \in Nat /\ order[j] \in Nat
      BY <1>8, <1>14
    <3> QED BY <1>11, <2>1, <3>1
  <2> QED BY <1>13, <1>14, <2>2, OneRowPerId
<1>17. /\ walk \in Walks /\ walk.seen \in Seq(MessageIds) /\ walk.start \subseteq MessageIds
       /\ Len(walk.seen) \in Nat /\ DOMAIN walk.seen = 1 .. Len(walk.seen)
       /\ minted \in Nat /\ walk.bound \in Nat
  <2>1. walk \in Walks /\ minted \in Nat
    BY DEF StoreTypeOK
  <2>2. walk.seen \in Seq(MessageIds) /\ walk.start \subseteq MessageIds /\ walk.bound \in Nat
    BY <2>1 DEF Walks
  <2> QED BY <2>1, <2>2, LenProperties
<1> DEFINE seen2 == walk.seen \o ids
           n == Len(walk.seen)
<1>18. /\ walk'.pc = "count" /\ walk'.seen = seen2 /\ walk'.start = walk.start
       /\ walk'.word = walk.word
       /\ walk'.last = IF more THEN ids[c] ELSE 0
  BY <1>1, <1>15, <1>17 DEF Walks
<1>19. /\ seen2 \in Seq(MessageIds) /\ DOMAIN seen2 = 1 .. n + c
       /\ \A i \in 1 .. n + c : seen2[i] = IF i <= n THEN walk.seen[i] ELSE ids[i - n]
  <2>1. /\ seen2 \in Seq(MessageIds) /\ Len(seen2) = n + c
        /\ \A i \in 1 .. n + c : seen2[i] = IF i <= n THEN walk.seen[i] ELSE ids[i - n]
    BY <1>15, <1>17, ConcatProperties
  <2>2. DOMAIN seen2 = 1 .. Len(seen2)
    BY <2>1, LenProperties
  <2> QED BY <2>1, <2>2
<1> HIDE DEF seen2, n
<1>20. n \in Nat /\ DOMAIN walk.seen = 1 .. n
  BY <1>17 DEF n
<1>21. \A i \in 1 .. n + c :
         \/ i \in 1 .. n /\ seen2[i] = walk.seen[i]
         \/ i - n \in 1 .. c /\ i > n /\ seen2[i] = ids[i - n]
  BY <1>13, <1>19, <1>20
<1>22. \A x : x \in Seen' <=> x \in Seen \/ \E s \in shown : x = messages[s].id
  <2> TAKE x
  <2>1. ASSUME x \in Seen' PROVE x \in Seen \/ \E s \in shown : x = messages[s].id
    <3>1. PICK i \in 1 .. n + c : x = seen2[i]
      BY <1>18, <1>19, <2>1 DEF Seen
    <3>2. CASE i \in 1 .. n /\ seen2[i] = walk.seen[i]
      BY <1>20, <3>1, <3>2 DEF Seen
    <3>3. CASE i - n \in 1 .. c /\ i > n /\ seen2[i] = ids[i - n]
      BY <1>14, <3>1, <3>3
    <3> QED BY <1>21, <3>2, <3>3
  <2>2. ASSUME x \in Seen PROVE x \in Seen'
    <3>1. PICK i \in 1 .. n : x = walk.seen[i]
      BY <1>20, <2>2 DEF Seen
    <3>2. i \in 1 .. n + c /\ seen2[i] = x
      BY <1>13, <1>19, <1>20, <3>1
    <3> QED BY <1>18, <1>19, <3>2 DEF Seen
  <2>3. ASSUME NEW s \in shown, x = messages[s].id PROVE x \in Seen'
    <3>1. PICK i \in 1 .. c : order[i] = s
      BY <1>12
    <3>2. n + i \in 1 .. n + c /\ ~(n + i <= n) /\ (n + i) - n = i
      BY <1>13, <1>20
    <3>3. seen2[n + i] = x
      BY <1>14, <1>19, <2>3, <3>1, <3>2
    <3> QED BY <1>18, <1>19, <3>2, <3>3 DEF Seen
  <2> QED BY <2>1, <2>2, <2>3
<1>23. \A s \in DOMAIN messages : s < walk.bound => messages[s].id \notin Seen
  BY <1>1 DEF WalkInv, WalkAt
<1>24. \A s \in shown : messages[s].id \notin Seen
  BY <1>4, <1>6, <1>8, <1>23
<1>25. WalkFrom'
  <2>1. \A i \in DOMAIN walk'.seen : walk'.seen[i] <= minted'
    <3> SUFFICES ASSUME NEW i \in 1 .. n + c PROVE seen2[i] <= minted
      BY <1>1, <1>18, <1>19
    <3>1. CASE i \in 1 .. n /\ seen2[i] = walk.seen[i]
      BY <1>20, <3>1 DEF WalkInv, WalkFrom
    <3>2. CASE i - n \in 1 .. c /\ i > n /\ seen2[i] = ids[i - n]
      BY <1>13, <1>14, <3>2 DEF Arrival
    <3> QED BY <1>21, <3>1, <3>2
  <2>2. \A id \in walk'.start : id <= minted'
    BY <1>1, <1>18 DEF WalkInv, WalkFrom
  <2>3. \A i, j \in DOMAIN walk'.seen : walk'.seen[i] = walk'.seen[j] => i = j
    <3> SUFFICES ASSUME NEW i \in 1 .. n + c, NEW j \in 1 .. n + c, seen2[i] = seen2[j]
                 PROVE  i = j
      BY <1>18, <1>19
    <3>1. \A k \in 1 .. c : ids[k] \notin Seen
      BY <1>14, <1>24
    <3>2. \A k \in 1 .. n : walk.seen[k] \in Seen
      BY <1>20 DEF Seen
    <3>3. \A k, l \in 1 .. n : walk.seen[k] = walk.seen[l] => k = l
      BY <1>20 DEF WalkInv, WalkFrom
    <3>4. CASE i \in 1 .. n /\ seen2[i] = walk.seen[i]
      BY <1>21, <3>1, <3>2, <3>3, <3>4
    <3>5. CASE i - n \in 1 .. c /\ i > n /\ seen2[i] = ids[i - n]
      <4>1. CASE j \in 1 .. n /\ seen2[j] = walk.seen[j]
        BY <3>1, <3>2, <3>5, <4>1
      <4>2. CASE j - n \in 1 .. c /\ j > n /\ seen2[j] = ids[j - n]
        <5>1. i - n = j - n
          BY <1>16, <3>5, <4>2
        <5> QED BY <1>13, <1>20, <5>1
      <4> QED BY <1>21, <4>1, <4>2
    <3> QED BY <1>21, <3>4, <3>5
  <2>4. walk'.pc # Idle /\ walk'.pc # "cursor"
    BY <1>18 DEF Idle
  <2> QED BY <2>1, <2>2, <2>3, <2>4 DEF WalkFrom
<1>26. ASSUME more
       PROVE  /\ order[c] \in shown /\ walk'.last = messages[order[c]].id
              /\ \A t \in shown : order[c] <= t
  <2>1. c \in 1 .. c
    BY <1>2, <1>9, <1>13, <1>26 DEF c
  <2>2. ASSUME NEW t \in shown PROVE order[c] <= t
    <3>1. PICK i \in 1 .. c : order[i] = t
      BY <1>12
    <3>2. i = c \/ i < c
      BY <1>13
    <3>3. order[c] \in Nat /\ t \in Nat
      BY <1>8, <1>14, <2>1
    <3> QED BY <1>11, <2>1, <3>1, <3>2, <3>3
  <2> QED BY <1>14, <1>18, <1>26, <2>1, <2>2
<1>27. ASSUME NEW s \in DOMAIN messages PROVE WalkAt(s)'
  <2> DEFINE id == messages[s].id
  <2>1. id \in Nat /\ s \in Nat
    BY <1>13 DEF StoreTypeOK, Seqs
  <2>2. Wanted(s)' <=> Wanted(s)
    BY <1>1, <1>18 DEF Wanted
  <2>3. ASSUME Wanted(s) PROVE id \in Seen' \/ s \in B \ shown
    <3>1. id \in Seen \/ s < walk.bound
      BY <1>1, <2>3 DEF WalkInv, WalkAt
    <3>2. s < walk.bound => s \in B
      BY <1>4, <2>3 DEF Wanted
    <3> QED BY <1>22, <3>1, <3>2
  <2>4. CASE ~more
    <3>1. Wanted(s) => id \in Seen'
      BY <1>9, <2>3, <2>4
    <3>2. walk'.last = 0
      BY <1>18, <2>4
    <3> QED BY <1>1, <1>18, <2>2, <3>1, <3>2 DEF WalkAt
  <2>5. CASE more
    <3> DEFINE m == order[c]
    <3>1. m \in shown /\ m \in DOMAIN messages /\ m \in Nat /\ walk'.last = messages[m].id
          /\ messages[m].id # 0 /\ m < walk.bound
      <4>1. m \in shown /\ walk'.last = messages[m].id
        BY <1>26, <2>5
      <4>2. m \in B /\ m \in DOMAIN messages /\ m \in Nat
        BY <1>6, <1>8, <1>13, <4>1
      <4> QED BY <1>4, <1>13, <4>1, <4>2 DEF MessageIds
    <3>2. \A t \in shown : m <= t
      BY <1>26, <2>5
    <3>3. ASSUME id < walk'.last PROVE id \notin Seen'
      <4>1. s < m
        BY <3>1, <3>3, OneRowPerId
      <4>2. s \notin shown /\ s < walk.bound
        BY <1>17, <2>1, <3>1, <3>2, <4>1
      <4>3. \A t \in shown : messages[t].id # id
        BY <1>13, <4>2, OneRowPerId
      <4> QED BY <1>22, <1>23, <4>2, <4>3
    <3>4. ASSUME Wanted(s) PROVE id \in Seen' \/ id < walk'.last
      <4> SUFFICES ASSUME s \in B \ shown PROVE id < walk'.last
        BY <2>3, <3>4
      <4>1. s < m
        BY <1>10, <3>1
      <4> QED BY <3>1, <4>1, OneRowPerId
    <3> HIDE DEF m
    <3> QED BY <1>1, <1>18, <2>2, <3>1, <3>3, <3>4 DEF WalkAt
  <2> QED BY <2>4, <2>5
<1>28. walk' \in Walks
  <2>1. IdsAt(shown) \subseteq MessageIds
    BY <1>13 DEF IdsAt
  <2>2. (IF more THEN ids[Len(ids)] ELSE 0) \in Nat
    <3>1. CASE more
      BY <1>13, <1>18, <1>26, <3>1, <1>15
    <3>2. CASE ~more
      BY <3>2
    <3> QED BY <3>1, <3>2
  <2>3. walk.seen \o ids \in Seq(MessageIds)
    BY <1>19 DEF seen2
  <2> QED BY <1>1, <1>17, <2>1, <2>2, <2>3 DEF Walks
<1> QED BY <1>1, <1>25, <1>27, <1>28 DEF WalkInv


\* The rest of a request and the next one's cursor.
LEMMA CursorStep ==
    ASSUME SInv, WalkCount \/ WalkCursor \/ \E word \in Queries : WalkBegin(word)
    PROVE  walk' \in Walks /\ WalkInv'
<1> USE DEF SInv
<1>1. walk \in Walks /\ WalkInv /\ messages' = messages /\ minted' = minted /\ minted \in Nat
  BY DEF StoreTypeOK, WalkCount, WalkCursor, WalkBegin, WalkOnly, tables
<1>2. \A s \in DOMAIN messages : s \in Nat /\ messages[s].id \in Nat /\ messages[s].id \in MessageIds
  BY DEF StoreTypeOK, Row, MessageIds, Seqs
<1>3. CASE WalkCount
  <2>1. walk.pc = "count" /\ walk' = [walk EXCEPT !.pc = IF walk.last = 0 THEN "done" ELSE "cursor"]
    BY <1>3 DEF WalkCount
  <2>2. walk' \in Walks
    BY <1>1, <2>1 DEF Walks
  <2>3. /\ walk'.seen = walk.seen /\ walk'.start = walk.start /\ walk'.word = walk.word
        /\ walk'.last = walk.last
        /\ walk'.pc = IF walk.last = 0 THEN "done" ELSE "cursor"
    BY <1>1, <2>1 DEF Walks
  <2>4. Seen' = Seen /\ \A s : Wanted(s)' <=> Wanted(s)
    BY <1>1, <2>3 DEF Seen, Wanted
  <2>5. WalkFrom'
    BY <1>1, <2>3 DEF WalkInv, WalkFrom, Idle
  <2>6. ASSUME NEW s \in DOMAIN messages PROVE WalkAt(s)'
    <3>1. WalkAt(s)
      BY DEF WalkInv
    <3> QED BY <1>1, <2>1, <2>3, <2>4, <3>1 DEF WalkAt
  <2> QED BY <1>1, <2>2, <2>5, <2>6 DEF WalkInv
<1>4. CASE WalkCursor /\ SeqsOf(walk.last) = {}
  <2>1. walk' = [walk EXCEPT !.pc = "lost"]
    BY <1>4 DEF WalkCursor
  <2>2. walk' \in Walks
    BY <1>1, <2>1 DEF Walks
  <2>3. walk'.seen = walk.seen /\ walk'.start = walk.start /\ walk'.pc = "lost"
    BY <1>1, <2>1 DEF Walks
  <2>4. WalkFrom'
    BY <1>1, <2>3 DEF WalkInv, WalkFrom, Idle
  <2>5. \A s \in DOMAIN messages : WalkAt(s)'
    BY <2>3 DEF WalkAt
  <2> QED BY <1>1, <2>2, <2>4, <2>5 DEF WalkInv
<1>5. ASSUME WalkCursor, NEW b \in SeqsOf(walk.last),
             walk' = [walk EXCEPT !.pc = "page", !.bound = b]
      PROVE  walk' \in Walks /\ WalkInv'
  <2>1. walk.pc = "cursor" /\ walk.last # 0
    BY <1>5 DEF WalkCursor, WalkInv, WalkFrom
  <2>2. b \in DOMAIN messages /\ b \in Nat /\ messages[b].id = walk.last
    BY <1>2 DEF SeqsOf
  <2>3. walk' \in Walks
    BY <1>1, <1>5, <2>2 DEF Walks
  <2>4. /\ walk'.seen = walk.seen /\ walk'.start = walk.start /\ walk'.word = walk.word
        /\ walk'.bound = b /\ walk'.pc = "page"
    BY <1>1, <1>5 DEF Walks
  <2>5. Seen' = Seen /\ \A s : Wanted(s)' <=> Wanted(s)
    BY <1>1, <2>4 DEF Seen, Wanted
  <2>6. WalkFrom'
    BY <1>1, <2>4 DEF WalkInv, WalkFrom, Idle
  <2>7. ASSUME NEW s \in DOMAIN messages PROVE WalkAt(s)'
    <3>1. WalkAt(s)
      BY DEF WalkInv
    <3>2. messages[s].id < walk.last <=> s < b
      BY <2>2, OneRowPerId
    <3> QED BY <1>1, <2>1, <2>4, <2>5, <3>1, <3>2 DEF WalkAt
  <2> QED BY <1>1, <2>3, <2>6, <2>7 DEF WalkInv
<1>6. ASSUME NEW word \in Queries, WalkBegin(word) PROVE walk' \in Walks /\ WalkInv'
  <2>1. /\ walk.pc = Idle
        /\ walk' = [walk EXCEPT !.pc = "page", !.word = word, !.bound = Unbounded,
                                !.start = IdsAt(DOMAIN messages)]
    BY <1>6 DEF WalkBegin
  <2>2. IdsAt(DOMAIN messages) \subseteq MessageIds /\ \A id \in IdsAt(DOMAIN messages) : id <= minted
    BY <1>2 DEF IdsAt, Arrival
  <2>3. word \in Words \cup {NoWord}
    BY StoreAssumption, Zenon DEF NoWord
  <2>4. Unbounded \in Nat /\ \A s \in DOMAIN messages : s < Unbounded
    BY <1>1, <1>2, Bounds DEF Arrival, Unbounded
  <2> HIDE DEF Unbounded
  <2>5. walk' \in Walks
    BY <1>1, <2>1, <2>2, <2>3, <2>4 DEF Walks
  <2>6. /\ walk'.seen = walk.seen /\ walk'.start = IdsAt(DOMAIN messages)
        /\ walk'.bound = Unbounded /\ walk'.pc = "page"
    BY <1>1, <2>1 DEF Walks
  <2>7. walk.seen = << >>
    BY <2>1 DEF WalkInv, WalkFrom
  <2>8. Seen' = {}
    BY <2>6, <2>7 DEF Seen
  <2>9. WalkFrom'
    BY <1>1, <2>2, <2>6, <2>7 DEF WalkInv, WalkFrom, Idle
  <2>10. \A s \in DOMAIN messages : WalkAt(s)'
    BY <1>1, <2>4, <2>6, <2>8 DEF WalkAt
  <2> QED BY <1>1, <2>5, <2>9, <2>10 DEF WalkInv
<1> QED BY <1>3, <1>4, <1>5, <1>6 DEF WalkCursor

-----------------------------------------------------------------------------
(* The invariant *)

\* An empty repository.
LEMMA SInvInit == StoreInit => SInv
<1> SUFFICES ASSUME StoreInit PROVE SInv
  OBVIOUS
<1>1. DOMAIN messages = {} /\ DOMAIN content = {} /\ DOMAIN fts = {}
  BY DEF StoreInit
<1>2. messages \in [{} -> Row] /\ content \in [{} -> Text] /\ fts \in [{} -> Text]
  BY DEF StoreInit
<1>3. sweep \in Sweeps
  BY DEF StoreInit, Sweeps, Idle
<1>4. walk \in Walks
  <2>1. << >> \in Seq(MessageIds)
    BY EmptySeq
  <2>2. walk = [pc |-> Idle, word |-> NoWord, bound |-> 0, page |-> {},
                last |-> 0, seen |-> << >>, start |-> {}]
    BY DEF StoreInit
  <2> DEFINE nothing == << >>
  <2>3. nothing \in Seq(MessageIds)
    BY <2>1
  <2>4. walk = [pc |-> Idle, word |-> NoWord, bound |-> 0, page |-> {},
                last |-> 0, seen |-> nothing, start |-> {}]
    BY <2>2
  <2> HIDE DEF nothing
  <2> QED BY <2>3, <2>4 DEF Walks
<1>5. StoreTypeOK
  BY <1>1, <1>2, <1>3, <1>4 DEF StoreInit, StoreTypeOK
<1>6. RowsAgree /\ PartsAgree /\ TagsAgree
  BY <1>1 DEF StoreInit, RowsAgree, PartsAgree, TagsAgree
<1>7. Arrival
  BY <1>1, Bounds DEF StoreInit, Arrival, SeqIsArrivalOrder
<1>8. walk.seen = << >> /\ walk.start = {} /\ walk.pc = "idle"
  BY DEF StoreInit, Idle
<1>9. WalkInv
  BY <1>1, <1>8 DEF WalkInv, WalkFrom
<1> QED BY <1>5, <1>6, <1>7, <1>9 DEF SInv

\* Where the sweep stands after any step of it.
LEMMA SweepStep ==
    ASSUME StoreTypeOK,
           \/ SweepBegin \/ CheckOlder \/ DeleteOlderThan \/ CheckTrim
           \/ TrimToMax \/ SweepContended \/ SweepGivesUp
    PROVE  sweep' \in Sweeps
<1>1. sweep \in Sweeps /\ clock \in Nat /\ sweep.attempt + 1 \in Nat
  BY DEF StoreTypeOK, Sweeps
<1>2. Retention \in Nat
  BY StoreAssumption, Zenon
<1>3. AfterOlder \in {Idle, "trim"}
  BY DEF AfterOlder
<1>4. CASE SweepBegin
  <2>1. sweep' = [pc |-> IF Retention > 0 THEN "older" ELSE "trim",
                  cutoff |-> clock - Retention, attempt |-> 0]
    BY <1>4 DEF SweepBegin
  <2>2. clock - Retention \in Int
    BY <1>1, <1>2
  <2> QED BY <2>1, <2>2 DEF Sweeps
<1>5. \A place \in {Idle, "trim"} : SweepTo(place) => sweep' \in Sweeps
  <2> TAKE place \in {Idle, "trim"}
  <2> HAVE SweepTo(place)
  <2>1. sweep' = [sweep EXCEPT !.pc = place, !.attempt = 0]
    BY DEF SweepTo
  <2> QED BY <1>1, <2>1 DEF Sweeps
<1>6. \A place \in {"older", "delete_older", "trim", "delete_trim"} :
        sweep' = [sweep EXCEPT !.pc = place] => sweep' \in Sweeps
  BY <1>1 DEF Sweeps
<1>7. CASE CheckOlder
  BY <1>3, <1>5, <1>6, <1>7 DEF CheckOlder
<1>8. CASE DeleteOlderThan
  BY <1>3, <1>5, <1>8 DEF DeleteOlderThan
<1>9. CASE CheckTrim
  BY <1>5, <1>6, <1>9 DEF CheckTrim
<1>10. CASE TrimToMax
  BY <1>5, <1>10 DEF TrimToMax
<1>11. CASE SweepContended
  <2>1. \E place \in {"older", "trim"} :
          sweep' = [sweep EXCEPT !.pc = place, !.attempt = sweep.attempt + 1]
    BY <1>11 DEF SweepContended
  <2> QED BY <1>1, <2>1 DEF Sweeps
<1>12. CASE SweepGivesUp
  <2>1. \E place \in {Idle, "trim"} : SweepTo(place)
    BY <1>3, <1>12 DEF SweepGivesUp
  <2> QED BY <1>5, <2>1
<1> QED BY <1>4, <1>7, <1>8, <1>9, <1>10, <1>11, <1>12

\* Every operation, sweep and request keeps it.
LEMMA SInvNext == SInv /\ [StoreNext]_storeVars => SInv'
<1> SUFFICES ASSUME SInv, [StoreNext]_storeVars PROVE SInv'
  OBVIOUS
<1> DEFINE Rows == /\ Tables' /\ RowsAgree' /\ PartsAgree' /\ TagsAgree'
                   /\ Arrival' /\ WalkInv'
           Same == UNCHANGED <<messages, content, attachments, tagRows, fts, minted>>
<1>1. StoreTypeOK /\ Tables /\ minted \in Nat /\ clock \in Nat /\ sweep \in Sweeps /\ walk \in Walks
  BY DEF SInv, StoreTypeOK, Tables
<1>2. ASSUME Rows, minted' \in Nat, clock' \in Nat, sweep' \in Sweeps, walk' \in Walks
      PROVE  SInv'
  BY <1>2 DEF SInv, StoreTypeOK, Tables
<1>3. ASSUME Same PROVE Tables' /\ RowsAgree' /\ PartsAgree' /\ TagsAgree' /\ Arrival'
  <2>1. Tables'
    BY <1>1, <1>3 DEF Tables
  <2>2. RowsAgree' /\ PartsAgree' /\ TagsAgree'
    BY <1>3 DEF SInv, RowsAgree, PartsAgree, TagsAgree, TextOf
  <2>3. Arrival'
    BY <1>3 DEF SInv, Arrival, SeqIsArrivalOrder
  <2> QED BY <2>1, <2>2, <2>3
<1>4. ASSUME Same, walk' = walk PROVE Rows
  <2>1. WalkInv'
    BY <1>4 DEF SInv, WalkInv, WalkFrom, WalkAt, Wanted, Seen
  <2> QED BY <1>3, <1>4, <2>1
<1>5. ASSUME NEW n \in 1 .. MaxInserts, NEW batch \in [1 .. n -> Mails], InsertBatch(batch)
      PROVE  SInv'
  <2>1. n \in Nat
    <3>1. MaxInserts \in Nat
      BY StoreAssumption, Zenon
    <3> QED BY <3>1
  <2>2. Rows
    BY <1>5, <2>1, Insertion
  <2>3. clock' = clock /\ sweep' = sweep /\ walk' = walk /\ minted' = minted + Len(batch)
    BY <1>5 DEF InsertBatch
  <2>4. Len(batch) = n
    BY <2>1, SeqOfLength
  <2> HIDE DEF Rows
  <2> QED BY <1>1, <1>2, <2>1, <2>2, <2>3, <2>4
<1>6. ASSUME NEW seq \in DOMAIN messages, NEW tags \in Optional(TagLists),
             UpdateMessage(seq, tags)
      PROVE  SInv'
  <2>1. Rows
    BY <1>6, Retagging
  <2>2. minted' = minted /\ clock' = clock /\ sweep' = sweep /\ walk' = walk
    BY <1>6 DEF UpdateMessage
  <2> HIDE DEF Rows
  <2> QED BY <1>1, <1>2, <2>1, <2>2
<1>7. ASSUME NEW seq \in DOMAIN messages, DeleteMessage(seq) PROVE SInv'
  <2>1. minted' = minted /\ clock' = clock /\ sweep' = sweep /\ walk' = walk
    BY <1>7 DEF DeleteMessage
  <2>2. Rows
    BY <1>7, <2>1, Removal DEF DeleteMessage
  <2> HIDE DEF Rows
  <2> QED BY <1>1, <1>2, <2>1, <2>2
<1>8. CASE DeleteAll
  <2>1. minted' = minted /\ clock' = clock /\ sweep' = sweep /\ walk' = walk
    BY <1>8 DEF DeleteAll
  <2>2. Rows
    BY <1>8, Emptying
  <2> HIDE DEF Rows
  <2> QED BY <1>1, <1>2, <2>1, <2>2
<1>9. CASE SweepBegin \/ CheckOlder \/ CheckTrim \/ SweepContended \/ SweepGivesUp
  <2>1. Same /\ clock' = clock /\ walk' = walk
    BY <1>9 DEF SweepBegin, CheckOlder, CheckTrim, SweepContended, SweepGivesUp, SweepOnly,
                tables
  <2>2. sweep' \in Sweeps
    BY <1>1, <1>9, SweepStep
  <2>3. Rows
    BY <1>4, <2>1
  <2> HIDE DEF Rows
  <2> QED BY <1>1, <1>2, <2>1, <2>2, <2>3
<1>10. CASE DeleteOlderThan
  <2>1. minted' = minted /\ clock' = clock /\ walk' = walk
    BY <1>10 DEF DeleteOlderThan
  <2>2. Rows
    BY <1>10, <2>1, Removal DEF DeleteOlderThan
  <2>3. sweep' \in Sweeps
    BY <1>1, <1>10, SweepStep
  <2> HIDE DEF Rows
  <2> QED BY <1>1, <1>2, <2>1, <2>2, <2>3
<1>11. CASE TrimToMax
  <2>1. minted' = minted /\ clock' = clock /\ walk' = walk
    BY <1>11 DEF TrimToMax
  <2>2. DeleteIndex(Doomed) /\ DeleteRows(Doomed)
    BY <1>11, TrimIsRemoval
  <2>3. Rows
    BY <2>1, <2>2, Removal
  <2>4. sweep' \in Sweeps
    BY <1>1, <1>11, SweepStep
  <2> HIDE DEF Rows
  <2> QED BY <1>1, <1>2, <2>1, <2>3, <2>4
<1>12. CASE WalkPage \/ WalkCount \/ WalkCursor \/ \E word \in Queries : WalkBegin(word)
  <2>1. Same /\ clock' = clock /\ sweep' = sweep
    BY <1>12 DEF WalkPage, WalkCount, WalkCursor, WalkBegin, WalkOnly, tables
  <2>2. walk' \in Walks /\ WalkInv'
    BY <1>12, PageStep, CursorStep
  <2>3. Rows
    BY <1>3, <2>1, <2>2
  <2> HIDE DEF Rows
  <2> QED BY <1>1, <1>2, <2>1, <2>2, <2>3
<1>13. ASSUME NEW t \in 0 .. MaxClock, Tick(t) PROVE SInv'
  <2>1. Same /\ sweep' = sweep /\ walk' = walk /\ clock' = t /\ t \in Nat
    BY <1>13 DEF Tick, tables
  <2>2. Rows
    BY <1>4, <2>1
  <2> HIDE DEF Rows
  <2> QED BY <1>1, <1>2, <2>1, <2>2
<1>14. CASE UNCHANGED storeVars
  <2>1. Same /\ sweep' = sweep /\ walk' = walk /\ clock' = clock
    BY <1>14 DEF storeVars
  <2>2. Rows
    BY <1>4, <2>1
  <2> HIDE DEF Rows
  <2> QED BY <1>1, <1>2, <2>1, <2>2
<1> QED
  BY <1>5, <1>6, <1>7, <1>8, <1>9, <1>10, <1>11, <1>12, <1>13, <1>14 DEF StoreNext

-----------------------------------------------------------------------------
(* What readers see *)

\* What the tables hold is what each read, which joins only some of them, shows.
LEMMA TablesAgreeInv == SInv => TablesAgree
<1> SUFFICES ASSUME SInv PROVE TablesAgree
  OBVIOUS
<1> USE DEF SInv
<1>1. SearchIsExact
  <2>1. ASSUME NEW w \in Words PROVE SearchCount(w) = Cardinality(SearchHits(w))
    <3>1. {s \in DOMAIN fts : fts[s].mail.word = w} = SearchHits(w)
      BY DEF RowsAgree, SearchHits
    <3> QED BY <3>1 DEF SearchCount
  <2> QED BY <2>1 DEF SearchIsExact, RowsAgree, TextOf
<1>2. TagFilterIsExact
  <2>1. ASSUME NEW tag \in Tags
        PROVE  TagFilter(tag) = {s \in DOMAIN messages : tag \in TagSet(messages[s].tags)}
    <3>1. ASSUME NEW s \in DOMAIN messages
          PROVE  (\E r \in tagRows : r = <<tag, s>>) <=> tag \in TagSet(messages[s].tags)
      <4>1. ASSUME NEW r \in tagRows, r = <<tag, s>> PROVE tag \in TagSet(messages[s].tags)
        <5>1. r[1] = tag /\ r[2] = s
          BY <4>1
        <5>2. r[1] \in TagSet(messages[r[2]].tags)
          BY DEF TagsAgree
        <5> QED BY <5>1, <5>2
      <4>2. ASSUME tag \in TagSet(messages[s].tags) PROVE <<tag, s>> \in tagRows
        BY <4>2 DEF TagsAgree
      <4> QED BY <4>1, <4>2
    <3> QED BY <3>1 DEF TagFilter
  <2> QED BY <2>1 DEF TagFilterIsExact
<1>3. ReadsAreOwn
  <2> SUFFICES ASSUME NEW s \in DOMAIN messages
               PROVE  /\ Get(messages[s].id) = {TextOf(s)}
                      /\ GetAttachments(messages[s].id)
                           = {[seq |-> s, of |-> messages[s].id, cid |-> c] :
                                c \in messages[s].mail.cids}
    BY DEF ReadsAreOwn, TextOf
  <2>1. SeqsOf(messages[s].id) = {s}
    BY OneRowPerId DEF SeqsOf
  <2>2. Get(messages[s].id) = {TextOf(s)}
    BY <2>1 DEF Get, RowsAgree
  <2>3. ASSUME NEW a \in attachments, a.seq = s
        PROVE  \E c \in messages[s].mail.cids :
                  a = [seq |-> s, of |-> messages[s].id, cid |-> c]
    <3>1. a \in AttachmentRow
      BY DEF StoreTypeOK
    <3>2. a = [seq |-> a.seq, of |-> a.of, cid |-> a.cid]
      BY <3>1 DEF AttachmentRow
    <3> QED BY <2>3, <3>2 DEF PartsAgree
  <2>4. ASSUME NEW c \in messages[s].mail.cids
        PROVE  [seq |-> s, of |-> messages[s].id, cid |-> c] \in attachments
    BY DEF PartsAgree
  <2>5. GetAttachments(messages[s].id) = {a \in attachments : a.seq = s}
    BY <2>1 DEF GetAttachments
  <2> QED BY <2>2, <2>3, <2>4, <2>5
<1>4. NoOrphans
  BY DEF NoOrphans, RowsAgree, PartsAgree, TagsAgree
<1> QED BY <1>1, <1>2, <1>3, <1>4 DEF TablesAgree, Arrival

\* The invariant holds in every state of every behaviour.
LEMMA SInvAlways == StoreSpec => []SInv
BY SInvInit, SInvNext, PTL DEF StoreSpec

\* The repository: every search, count, filter and read speaks of the message
\* it names, for any number of messages, batches and tags.
THEOREM TablesAgreeAlways == StoreSpec => []TablesAgree
BY SInvAlways, TablesAgreeInv, PTL

\* At the end of the walk nothing that had to be listed is still to come.
LEMMA WalkIsExactInv == SInv => WalkIsExact
<1> SUFFICES ASSUME SInv PROVE WalkIsExact
  OBVIOUS
<1>1. \A i, j \in DOMAIN walk.seen : walk.seen[i] = walk.seen[j] => i = j
  BY DEF SInv, WalkInv, WalkFrom
<1>2. ASSUME walk.pc = "done", NEW s \in DOMAIN messages, Wanted(s)
      PROVE  \E i \in DOMAIN walk.seen : walk.seen[i] = messages[s].id
  <2>1. messages[s].id \in Seen
    BY <1>2 DEF SInv, WalkInv, WalkAt
  <2> QED BY <2>1 DEF Seen
<1> QED BY <1>1, <1>2 DEF WalkIsExact, Wanted

\* A walk through list_messages lists what stays, and nothing twice, whatever
\* the page size and however much comes and goes between two requests.
THEOREM WalkIsExactAlways == StoreSpec => []WalkIsExact
BY SInvAlways, WalkIsExactInv, PTL

\* trim_to_max keeps the newest MaxMessages and nothing else, whatever changed
\* between the sweep's count and its transaction.
THEOREM TrimKeepsNewestAlways == StoreSpec => TrimKeepsNewest
<1> DEFINE Kept == sweep.pc = "delete_trim" /\ sweep' # sweep /\ messages' # messages =>
                     /\ Cardinality(DOMAIN messages') = MaxMessages
                     /\ \A s \in DOMAIN messages \ DOMAIN messages' :
                          \A t \in DOMAIN messages' : messages[s].id < messages[t].id
<1>1. ASSUME SInv, [StoreNext]_storeVars PROVE [Kept]_storeVars
  <2> SUFFICES ASSUME sweep.pc = "delete_trim", sweep' # sweep, messages' # messages
               PROVE  /\ Cardinality(DOMAIN messages') = MaxMessages
                      /\ \A s \in DOMAIN messages \ DOMAIN messages' :
                           \A t \in DOMAIN messages' : messages[s].id < messages[t].id
    OBVIOUS
  <2> USE DEF SInv
  <2>1. TrimToMax
    BY <1>1 DEF StoreNext, storeVars, InsertBatch, UpdateMessage, DeleteMessage, DeleteAll, SweepBegin,
                CheckOlder, DeleteOlderThan, CheckTrim, SweepContended, SweepGivesUp,
                WalkBegin, WalkPage,
                WalkCount, WalkCursor, Tick, SweepOnly, WalkOnly, tables
  <2>2. /\ DeleteRows(Doomed)
        /\ \A s \in Doomed, t \in DOMAIN messages \ Doomed : s < t
    BY <1>1, <2>1, TrimIsRemoval
  <2> DEFINE D == DOMAIN messages
             N == NewestOf(D, MaxMessages)
  <2>3. IsFiniteSet(D) /\ D \in SUBSET Nat
    BY <1>1, RowsFinite
  <2>4. N \subseteq D
    BY <2>3, Bounds, NewestOfAbove
  <2>5. DOMAIN messages' = D \ Doomed /\ Doomed = D \ N
    BY <2>2 DEF DeleteRows, Without, Doomed
  <2>6. DOMAIN messages' = N
    BY <2>4, <2>5
  <2>7. Cardinality(D) > MaxMessages
    <3> SUFFICES ASSUME ~(Cardinality(D) > MaxMessages) PROVE FALSE
      OBVIOUS
    <3>1. Cardinality(D) \in Nat
      BY <2>3, FS_CardinalityType
    <3>2. N = D
      BY <2>3, <3>1, Bounds, NewestOfSize
    <3>3. Doomed = {}
      BY <2>5, <3>2
    <3>4. messages' = messages
      BY <1>1, <2>2, <3>3 DEF DeleteRows, Without, StoreTypeOK
    <3> QED BY <3>4
  <2>8. Cardinality(N) = MaxMessages
    BY <2>3, <2>7, Bounds, NewestOfSize
  <2>9. ASSUME NEW s \in DOMAIN messages \ DOMAIN messages', NEW t \in DOMAIN messages'
        PROVE  messages[s].id < messages[t].id
    <3>1. s \in Doomed /\ t \in D \ Doomed /\ s \in D /\ t \in D
      BY <2>5
    <3> QED BY <1>1, <2>2, <3>1, OneRowPerId
  <2> HIDE DEF N
  <2> QED BY <2>6, <2>8, <2>9
<1> QED BY <1>1, SInvAlways, PTL DEF StoreSpec, TrimKeepsNewest
=============================================================================
