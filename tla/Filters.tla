------------------------------- MODULE Filters -------------------------------
(***************************************************************************)
(* Filters of sequences by a set, as recursive functions over prefixes: a  *)
(* form the proofs can unfold.                                             *)
(***************************************************************************)
EXTENDS Naturals, Sequences

\* The elements of s that are in S, in their order.
Within(s, S) ==
  LET kept[n \in 0..Len(s)] ==
        IF n = 0 THEN <<>>
        ELSE IF s[n] \in S THEN Append(kept[n - 1], s[n]) ELSE kept[n - 1]
  IN kept[Len(s)]

\* The others.
Without(s, S) == Within(s, {s[i] : i \in 1..Len(s)} \ S)
=============================================================================
