------------------------------ MODULE Matching ------------------------------
(* How count_matching decides that a stored text matches a filter: the filter *)
(* is lowered by Rust and escaped into a LIKE pattern, the column is lowered  *)
(* by SQLite, and SQLite matches one against the other.  Both `rustmail       *)
(* assert` and GET /assert/count answer from it.                              *)
EXTENDS Naturals, Sequences

CONSTANTS
  Letters,     \* letters of texts and filters, out of Alphabet
  MaxText, MaxFilter   \* bounds: their lengths

(* An ASCII letter in both cases, a letter outside ASCII (an e with an acute  *)
(* accent) in both cases, the characters LIKE gives a meaning, and the one    *)
(* the statement names as its ESCAPE.                                         *)
Alphabet == {"a", "A", "ea", "EA", "percent", "underscore", "backslash"}

LettersAssumption ==
  Letters \subseteq Alphabet /\ MaxText \in Nat /\ MaxFilter \in Nat

VARIABLES text, filter, answer

vars == <<text, filter, answer>>

Strings(n) == UNION {[1..k -> Letters] : k \in 0..n}

(* str::to_lowercase: Unicode.                                                *)
ToLowercase(c) == CASE c = "A" -> "a" [] c = "EA" -> "ea" [] OTHER -> c

(* SQLite's LOWER(), and the case LIKE itself ignores: ASCII alone.           *)
SqlLower(c) == IF c = "A" THEN "a" ELSE c

(* str::replace: every c becomes `by`, in one pass over the text.             *)
Replace(s, c, by) ==
  LET out[k \in 0..Len(s)] ==
        IF k = 0 THEN <<>> ELSE out[k - 1] \o (IF s[k] = c THEN by ELSE <<s[k]>>)
  IN out[Len(s)]

(* Mutant: the backslash last, which escapes the escapes just written *)
EscapeBackslashLast(s) ==
  Replace(Replace(Replace(s, "percent", <<"backslash", "percent">>),
                  "underscore", <<"backslash", "underscore">>),
          "backslash", <<"backslash", "backslash">>)

(* escape_like: three passes, each over what the one before it wrote.         *)
EscapeLike(s) ==
  Replace(Replace(Replace(s, "backslash", <<"backslash", "backslash">>),
                  "percent", <<"backslash", "percent">>),
          "underscore", <<"backslash", "underscore">>)

Pattern(f) ==
  <<"percent">> \o EscapeLike([i \in DOMAIN f |-> ToLowercase(f[i])]) \o <<"percent">>

(* SQLite's LIKE reads a pattern from the left.  `at`: how much of the text   *)
(* the part read so far may stand for; `esc`: the last one was the ESCAPE.    *)
NothingRead == [esc |-> FALSE, at |-> {0}]

Follows(t, c, q) == q < Len(t) /\ SqlLower(t[q + 1]) = SqlLower(c)

ReadLetter(t, r, c) ==
  CASE ~r.esc /\ c = "backslash" -> [esc |-> TRUE, at |-> r.at]
    [] ~r.esc /\ c = "percent" ->
         [esc |-> FALSE, at |-> {q \in 0..Len(t) : \E o \in r.at : o <= q}]
    [] ~r.esc /\ c = "underscore" ->
         [esc |-> FALSE, at |-> {q \in 1..Len(t) : q - 1 \in r.at}]
    [] OTHER ->
         [esc |-> FALSE, at |-> {q \in 1..Len(t) : q - 1 \in r.at /\ Follows(t, c, q - 1)}]

ReadPattern(t, p) ==
  LET read[k \in 0..Len(p)] ==
        IF k = 0 THEN NothingRead ELSE ReadLetter(t, read[k - 1], p[k])
  IN read[Len(p)]

(* t LIKE p ESCAPE backslash: a pattern that ends in its ESCAPE matches nothing *)
Like(t, p) == LET r == ReadPattern(t, p) IN ~r.esc /\ Len(t) \in r.at

(* LOWER(column) LIKE ? ESCAPE backslash, bound to percent, filter, percent   *)
Matches(t, f) == Like([i \in DOMAIN t |-> SqlLower(t[i])], Pattern(f))

Init == text \in Strings(MaxText) /\ filter \in Strings(MaxFilter) /\ answer = "none"

CountMatching ==
  /\ answer = "none"
  /\ answer' = IF Matches(text, filter) THEN "counted" ELSE "left"
  /\ UNCHANGED <<text, filter>>

Next == CountMatching

Spec == Init /\ [][Next]_vars

(* "Filter by subject substring (case-insensitive)": escape_like and LIKE's   *)
(* reading of what it wrote cancel out, so that percent, underscore and       *)
(* backslash stand for themselves.  Only a message whose text contains the    *)
(* filter, case apart, is counted, and every such message is, unless its text *)
(* has a capital outside ASCII, which SQLite leaves as it is.                 *)
Contains ==
  \E at \in 0..Len(text) :
    /\ at + Len(filter) <= Len(text)
    /\ \A i \in DOMAIN filter : ToLowercase(text[at + i]) = ToLowercase(filter[i])

CountedIffItContains ==
  /\ answer = "counted" => Contains
  /\ answer = "left" /\ Contains => \E i \in DOMAIN text : text[i] = "EA"
============================================================================
