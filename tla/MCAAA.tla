------------------------------- MODULE MCAAA -------------------------------
(* An instance of AAA.tla for TLC: the new configuration no longer has the *)
(* user and permits what the old one denies.                               *)
EXTENDS AAA

CONSTANTS c1, old, new, bad

MCKnows(cfg, u) == cfg = old
MCAuthenticates(cfg, u, pw) == cfg = old /\ pw = "p1"
MCPermits(cfg, cmd) == cfg = new
=============================================================================
