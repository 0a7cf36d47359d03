--------------------------- MODULE MCModelRequest ---------------------------
(* ModelRequest for TLC: a model without special wishes. *)
EXTENDS ModelRequest

PlainModel == {[normalizes |-> FALSE, images |-> FALSE, bridges |-> FALSE,
                thinkingAsText |-> FALSE]}
=============================================================================
