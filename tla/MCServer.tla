------------------------------ MODULE MCServer ------------------------------
(* Instances of Server.tla for TLC. *)
EXTENDS ServerRefinement, TLC

CONSTANTS c1, c2, u1, u2

\* Clients that pick distinct session ids.
DisjointIds == (c1 :> {1}) @@ (c2 :> {2})

\* Clients that happen to pick the same session id.
SharedIds == (c1 :> {1}) @@ (c2 :> {1})

\* One client that multiplexes two sessions on its connection.
MultiplexedIds == (c1 :> {1, 2})

OneId == (c1 :> {1})

Plain == {{}}
AllFlags == {{}, {"unencrypted"}, {"single_connect"}}
=============================================================================
