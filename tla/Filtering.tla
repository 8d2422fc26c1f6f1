----------------------------- MODULE Filtering -----------------------------
(***************************************************************************)
(* Array.prototype.filter, for the lists the pages keep, and what is left  *)
(* of a list whose entries of one kind another entry replaces.  It is      *)
(* SelectSeq of the module Sequences with a set for the test, and written  *)
(* as a recursive function, which the proof system can unfold.             *)
(***************************************************************************)
EXTENDS Integers, Sequences

\* The elements of s that are in S, in their order.
Filtered(s, S) ==
  LET upTo[n \in 0..Len(s)] ==
        IF n = 0 THEN <<>>
        ELSE IF s[n] \in S THEN Append(upTo[n - 1], s[n]) ELSE upTo[n - 1]
  IN upTo[Len(s)]
=============================================================================
