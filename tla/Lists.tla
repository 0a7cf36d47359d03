-------------------------------- MODULE Lists --------------------------------
(***************************************************************************)
(* What several components do with the lists of messages, calls and events *)
(* they keep: pick some, by membership in a set, without changing their    *)
(* order.  The set takes the place of SelectSeq's test, so that facts      *)
(* about it can be proved once, for all of them (ListsProofs).             *)
(***************************************************************************)
EXTENDS Naturals, Sequences

\* The elements of s that are in T, in the order of s.
Only(s, T) ==
  LET picked[n \in 0 .. Len(s)] ==
        IF n = 0 THEN <<>>
        ELSE IF s[n] \in T THEN Append(picked[n - 1], s[n]) ELSE picked[n - 1]
  IN  picked[Len(s)]
=============================================================================
