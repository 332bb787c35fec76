--------------------------- MODULE MCSessionEgress ---------------------------
(* SessionEgress for TLC: the constants are numbers given by the .cfg files. *)
EXTENDS SessionEgress
=============================================================================
