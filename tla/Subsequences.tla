---------------------------- MODULE Subsequences ----------------------------
(***************************************************************************)
(* The part of a sequence that lies in a set.  It is SelectSeq with the    *)
(* test written as a set, by a recursive function: the provers have no     *)
(* definition of SelectSeq, and SubsequencesProofs has the facts of this.  *)
(***************************************************************************)
EXTENDS Naturals, Sequences

\* kept[n]: the elements of s[1..n] that are in S, in their order.
Filtered(s, S) ==
  LET kept[n \in 0..Len(s)] ==
        IF n = 0 THEN <<>>
        ELSE IF s[n] \in S THEN Append(kept[n-1], s[n]) ELSE kept[n-1]
  IN kept

Among(s, S) == Filtered(s, S)[Len(s)]

\* a is in s before b.
Precedes(s, a, b) == \E i, j \in 1..Len(s) : i < j /\ s[i] = a /\ s[j] = b
=============================================================================
