--------------------------- MODULE MCSessionStore ---------------------------
(* SessionStore for TLC.  The sets of ids come from each cfg. *)
EXTENDS SessionStore, TLC

Symmetry == Permutations(Sessions) \cup Permutations(Entries)
=============================================================================
