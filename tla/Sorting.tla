------------------------------ MODULE Sorting ------------------------------
(***************************************************************************)
(* Python's sorted() with a key: a stable sort.  Sequences are sorted by   *)
(* the place of each element, the number of those that come before it,     *)
(* rather than with TLC's SortSeq, of which the proof system knows nothing *)
(* and whose definition wants an order without ties.                       *)
(***************************************************************************)
EXTENDS Integers, FiniteSets

\* The sequence s in the order of before, a set of pairs of its elements;
\* elements of which neither is before the other stay in the order of s.
SortedBy(s, before) ==
  LET Earlier(i, j) == \/ << s[i], s[j] >> \in before
                       \/ << s[j], s[i] >> \notin before /\ i < j
      place == [ j \in DOMAIN s |-> Cardinality({ i \in DOMAIN s : Earlier(i, j) }) + 1 ]
  IN  [ k \in DOMAIN s |-> s[CHOOSE j \in DOMAIN s : place[j] = k] ]

=============================================================================
