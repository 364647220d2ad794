---------------------------- MODULE MCAcceptLoop ----------------------------
(* Instances of AcceptLoop.tla for TLC. *)
EXTENDS AcceptLoop

CONSTANTS c1, c2
=============================================================================
