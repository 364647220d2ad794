------------------------- MODULE MCSecretProviders -------------------------
(* Instances of SecretProviders.tla for TLC: two hosts own the address a,  *)
(* the first of them until its DNS answer changes, and one of the prefix   *)
(* configurations covers it.                                               *)
EXTENDS SecretProviders

CONSTANTS c1, r1, r2

Addr(ip, form) == [ip |-> ip, form |-> form]
MCHosts == <<"h1", "h2">>
MCMaxVersion(h) == IF h = "h1" THEN 1 ELSE 0
MCAnswer(h, v) ==
    IF h = "h1" /\ v = 1 THEN {Addr("b", 4)} ELSE {Addr("a", 4)}
MCHostSecret(h) == h
MCAddresses == {Addr("a", 16)}
MCPrefixConfigs ==
    {[rules |-> <<>>, fallback |-> "dns"],
     [rules |-> <<[net |-> {"a"}, secret |-> "p1"],
                  [net |-> {"a"}, secret |-> "p2"]>>, fallback |-> "none"]}
=============================================================================
