-------------------------- MODULE SessionProtocol --------------------------
(***************************************************************************)
(* What the server promises about each interactive authentication session: *)
(* the abstract specification that Server.tla implements when clients do   *)
(* not share session ids (ServerRefinement.tla).                           *)
(*                                                                         *)
(* A session is closed, or open with the START that opened it.  Client and *)
(* server take turns.  On the server's turn seq is the packet being judged *)
(* and on the client's turn the only seq_no the server will accept next.   *)
(* A CONTINUE is judged once, in order and together with its own START.    *)
(* The one exception is a Handler that crashes: the turn goes back to the  *)
(* client without a reply on record and the same seq_no is accepted again. *)
(***************************************************************************)
EXTENDS Naturals

CONSTANTS SessionIDs, Starts, SeqMod

VARIABLE exch

Closed == [turn |-> "none"]
Succ(n) == IF n = SeqMod - 1 THEN 0 ELSE n + 1

Init == exch = [id \in SessionIDs |-> Closed]

\* The client sends a START; whatever the session was doing is forgotten.
Open(id, st) ==
    exch' = [exch EXCEPT ![id] = [start |-> st, turn |-> "server", seq |-> 1]]

\* The server asks for more.
Prompt(id) ==
    /\ exch[id].turn = "server"
    /\ exch' = [exch EXCEPT ![id].turn = "client",
                            ![id].seq = Succ(Succ(@))]

\* The client answers in order; seq_no 1 is never an answer.
Answer(id) ==
    /\ exch[id].turn = "client"
    /\ exch[id].seq # 1
    /\ exch' = [exch EXCEPT ![id].turn = "server"]

\* The Handler crashed on the packet being judged.
Crash(id) ==
    /\ exch[id].turn = "server"
    /\ exch' = [exch EXCEPT ![id].turn = "client"]

\* Sessions end: a verdict, an out-of-order packet, or idleness.
End(S) ==
    exch' = [id \in SessionIDs |-> IF id \in S THEN Closed ELSE exch[id]]

Next ==
    \/ \E id \in SessionIDs :
         \/ \E st \in Starts : Open(id, st)
         \/ Prompt(id)
         \/ Answer(id)
         \/ Crash(id)
    \/ \E S \in SUBSET SessionIDs : End(S)

Spec == Init /\ [][Next]_exch
=============================================================================
