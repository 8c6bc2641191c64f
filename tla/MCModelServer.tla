----------------------------- MODULE MCModelServer -----------------------------
(* Two requests that compete for the row of a server with a small window.   *)
EXTENDS ModelServer, TLC

Symmetry == Permutations(Request)

=============================================================================
