------------------------------ MODULE Filters ------------------------------
(***************************************************************************)
(* The filter of an array. SelectSeq without an operator for a parameter:  *)
(* what is kept is a set.                                                  *)
(***************************************************************************)
EXTENDS Naturals, Sequences

\* The elements of s that are in S, in their order.
Filter(s, S) ==
  LET kept[n \in 0..Len(s)] ==
        IF n = 0 THEN << >>
        ELSE IF s[n] \in S THEN Append(kept[n - 1], s[n]) ELSE kept[n - 1]
  IN kept[Len(s)]
=============================================================================
