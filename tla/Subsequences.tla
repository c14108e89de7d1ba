----------------------------- MODULE Subsequences -----------------------------
(***************************************************************************)
(* Array.prototype.filter and sort, as the pages use them on the rows of a *)
(* list: by recursion over the sequence and by the rank of each row, so    *)
(* that they can be reasoned about. What they keep is proved in            *)
(* SubsequencesProofs.                                                     *)
(***************************************************************************)
EXTENDS Integers, Sequences, FiniteSets, SequencesExt

\* The elements of s that are in S, in the order of s.
Within(s, S) ==
  LET kept[i \in 0..Len(s)] ==
        IF i = 0 THEN <<>>
        ELSE IF s[i] \in S THEN Append(kept[i - 1], s[i]) ELSE kept[i - 1]
  IN  kept[Len(s)]
\* A list that grows by the rows of q it does not have, and one that loses a row.
WithNew(p, q) == p \o Within(q, ToSet(q) \ ToSet(p))
WithoutValue(s, e) == Within(s, ToSet(s) \ {e})

\* s in the order of the relation R, a set of pairs; what R does not order stays
\* as it stood. The n-th element is the one that n - 1 others come before.
Precedes(s, R) == {p \in (DOMAIN s) \X (DOMAIN s) :
                     <<s[p[1]], s[p[2]]>> \in R \/ (<<s[p[2]], s[p[1]]>> \notin R /\ p[1] < p[2])}
SortedBy(s, R) ==
  LET ranked(n) == CHOOSE i \in DOMAIN s : Cardinality({j \in DOMAIN s : <<j, i>> \in Precedes(s, R)}) = n - 1
  IN  [n \in DOMAIN s |-> s[ranked(n)]]
===============================================================================
