-------------------------- MODULE ServerRefinement --------------------------
(***************************************************************************)
(* Server.tla, with clients that do not share session ids, implements      *)
(* SessionProtocol.tla.                                                    *)
(***************************************************************************)
EXTENDS Server

\* Connection c's goroutine has handed a packet of session id to the Handler.
Judging(c, id) == pc[c] = "authen" /\ req[c].id = id

\* A session is at the server while a Handler judges one of its packets,
\* otherwise its state is what the registry holds.
Exchange(id) ==
    IF \E c \in Conns : Judging(c, id)
    THEN LET c == CHOOSE d \in Conns : Judging(d, id)
         IN [start |-> start[c], turn |-> "server", seq |-> req[c].seq]
    ELSE IF Registered(id)
    THEN [start |-> sessions[id].start, turn |-> "client",
          seq |-> NextByte(sessions[id].lastOutboundSeq)]
    ELSE [turn |-> "none"]

SP == INSTANCE SessionProtocol WITH exch <- [id \in SessionIDs |-> Exchange(id)]

\* Every behaviour of the server is, session by session, a behaviour of the
\* turn-taking protocol: START, then strictly alternating prompts and answers
\* that advance seq_no by two and stay with their START, until the session
\* ends (handleAuthen, sessionManager and the sweeper together).
ImplementsSessionProtocol == SP!Spec
=============================================================================
