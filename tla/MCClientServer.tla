--------------------------- MODULE MCClientServer ---------------------------
(* Instances of ClientServer.tla for TLC. *)
EXTENDS ClientServer, TLC

CONSTANTS c1, c2, u1

\* Each Client draws its own session id.
TwoIds == (c1 :> {1}) @@ (c2 :> {2})

OneId == (c1 :> {1})

BothFlags == {{}, {"unencrypted"}}
=============================================================================
