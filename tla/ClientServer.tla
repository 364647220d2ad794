---------------------------- MODULE ClientServer ----------------------------
(***************************************************************************)
(* The repository's client (client/client.go with protocol/session.go)     *)
(* talking to the server of Server.tla, one Client per connection.         *)
(*                                                                         *)
(* A Client owns one protocol.Session: a random session id and the next    *)
(* seq_no to send.  It writes one packet, waits for one reply and looks at *)
(* the body only: it compares neither the session id nor the seq_no of     *)
(* what it reads with what it sent.  That a reply answers the packet just  *)
(* sent is therefore a property of the two ends together.                  *)
(*                                                                         *)
(*   none --Dial--> ready --Authenticate, Authorize, Account--> wait       *)
(*   wait --Receive--> ready | prompt    prompt --Answer--> wait           *)
(*                                                                         *)
(* The connection is a FIFO in each direction.  A connection slot is       *)
(* dialled once, because a later dial draws another session id.            *)
(***************************************************************************)
EXTENDS Server, Sequences

CONSTANTS
    Calls,        \* the calls the application makes on a Client
    AuthenOnce    \* it calls Authenticate only first on a Client

\* A Client draws one session id, and what it sends is among the packets that
\* Server.tla's unconstrained clients may send.
ASSUME ClientServerAssumption ==
    /\ Calls \subseteq {"authen", "author", "acct"} \cap PacketTypes
    /\ AuthenOnce \in BOOLEAN
    /\ \A c \in Conns : \E id \in SessionIDs : IdsOf[c] = {id}
    /\ {{}, {"unencrypted"}} \subseteq HdrFlags
    /\ {n \in SeqNo : n % 2 = 1} \subseteq InboundSeqs

VARIABLES
    cpc,          \* where each Client is
    call,         \* the call in progress
    nextSeq,      \* Session.nextSeq, an int
    sent,         \* history: the seq_no of the last packet sent, 0 for none
    result,       \* what the last call returned
    toServer,     \* packets on their way
    toClient      \* replies on their way

clientVars == <<cpc, call, nextSeq, sent, result>>
allVars == <<vars, clientVars, toServer, toClient>>

\* maxSeqNo: 255.
MaxSeqNo == SeqMod - 1

ClientPCs == {"none", "ready", "wait", "prompt", "failed", "closed"}
NoResult == [type |-> "none"]
Error == [type |-> "error"]

ClientTypeOK ==
    /\ TypeOK
    /\ cpc \in [Conns -> ClientPCs]
    /\ call \in [Conns -> Calls \cup {"none"}]
    /\ nextSeq \in [Conns -> 1 .. MaxSeqNo + 2]
    /\ sent \in [Conns -> SeqNo]
    /\ result \in [Conns -> Reply \cup {NoResult, Error}]
    /\ \A c \in Conns : Len(toServer[c]) <= 1 /\ Len(toClient[c]) <= 1

ClientInit ==
    /\ Init
    /\ cpc = [c \in Conns |-> "none"]
    /\ call = [c \in Conns |-> "none"]
    /\ nextSeq = [c \in Conns |-> 1]
    /\ sent = [c \in Conns |-> 0]
    /\ result = [c \in Conns |-> NoResult]
    /\ toServer = [c \in Conns |-> <<>>]
    /\ toClient = [c \in Conns |-> <<>>]

-----------------------------------------------------------------------------
(* The client. *)

\* NewSession's random id.
ClientId(c) == CHOOSE id \in IdsOf[c] : TRUE

\* Mutant: the unencrypted flag is left as the caller gave it.
ClientFlagsAsGiven(c) == {}

\* send passes Flags 0; Conn.WritePacket forces the unencrypted flag on TLS.
ClientFlags(c) == IF mode[c] = "tls" THEN {"unencrypted"} ELSE {}

\* The connection is dialled, the server accepts it, client.New.
Dial(c) ==
    /\ cpc[c] = "none"
    /\ AcceptConn(c)
    /\ cpc' = [cpc EXCEPT ![c] = "ready"]
    /\ UNCHANGED <<call, nextSeq, sent, result, toServer, toClient>>

\* Mutant: the counter wraps like the byte it is sent in.
NextSeqWraps(c) ==
    nextSeq' = [nextSeq EXCEPT ![c] = IF @ = MaxSeqNo THEN 1 ELSE @ + 2]

\* Session.NextSeq.
NextSeq(c) ==
    /\ nextSeq[c] <= MaxSeqNo
    /\ nextSeq' = [nextSeq EXCEPT ![c] = @ + 2]

\* send: the next seq_no, the header, Conn.WritePacket.
Send(c, type, body) ==
    /\ NextSeq(c)
    /\ sent' = [sent EXCEPT ![c] = nextSeq[c]]
    /\ toServer' = [toServer EXCEPT ![c] =
           Append(@, [type |-> type, id |-> ClientId(c), seq |-> nextSeq[c],
                      flags |-> ClientFlags(c), body |-> body])]
    /\ cpc' = [cpc EXCEPT ![c] = "wait"]

Return(c, r) ==
    /\ cpc' = [cpc EXCEPT ![c] = "ready"]
    /\ result' = [result EXCEPT ![c] = r]

\* Authenticate up to its first ReadPacket.  The START goes out under the
\* Client's next seq_no, whatever that is; under another seq_no than 1 the
\* server decodes it as a CONTINUE, which may or may not succeed.
Authenticate(c) ==
    /\ cpc[c] = "ready" /\ "authen" \in Calls
    /\ AuthenOnce => sent[c] = 0
    /\ \E body \in IF nextSeq[c] = 1 THEN Starts ELSE {"ok", "undecodable"} :
         Send(c, "authen", body)
    /\ call' = [call EXCEPT ![c] = "authen"]
    /\ UNCHANGED <<vars, result, toClient>>

\* Authorize up to ReadPacket.
Authorize(c) ==
    /\ cpc[c] = "ready" /\ "author" \in Calls
    /\ Send(c, "author", "ok")
    /\ call' = [call EXCEPT ![c] = "author"]
    /\ UNCHANGED <<vars, result, toClient>>

\* Account up to ReadPacket; the server refuses some flag combinations.
Account(c) ==
    /\ cpc[c] = "ready" /\ "acct" \in Calls
    /\ \E body \in {"ok", "refused"} : Send(c, "acct", body)
    /\ call' = [call EXCEPT ![c] = "acct"]
    /\ UNCHANGED <<vars, result, toClient>>

\* The session has run out of sequence numbers: every call fails in NextSeq.
OutOfSeqNos(c) ==
    /\ cpc[c] = "ready"
    /\ nextSeq[c] > MaxSeqNo
    /\ Return(c, Error)
    /\ UNCHANGED <<vars, call, nextSeq, sent, toServer, toClient>>

\* NormalizeAuthenStatus: FOLLOW counts as FAIL.
NormalizeAuthenStatus(s) == IF s = "FOLLOW" THEN "FAIL" ELSE s

\* IsTerminal.
IsTerminal(s) == s \in TerminalStatus

\* Conn.ReadPacket returns a reply and the call goes on: a header-only packet
\* is an error, Authorize (unless it cannot parse an argument) and Account
\* return what they read (their statuses are abstract), Authenticate returns a
\* verdict, refuses RESTART and asks contFn about a prompt.
Receive(c) ==
    LET r == Head(toClient[c])
        status == NormalizeAuthenStatus(r.status)
    IN
    /\ cpc[c] = "wait" /\ toClient[c] # <<>>
    /\ toClient' = [toClient EXCEPT ![c] = Tail(@)]
    /\ \/ r.type = "generic" /\ Return(c, Error)
       \/ /\ r.type # "generic" /\ call[c] # "authen"
          /\ Return(c, r) \/ (call[c] = "author" /\ Return(c, Error))
       \/ /\ r.type # "generic" /\ call[c] = "authen"
          /\ \/ IsTerminal(status) /\ Return(c, [r EXCEPT !.status = status])
             \/ status = "RESTART" /\ Return(c, Error)
             \/ /\ ~IsTerminal(status) /\ status # "RESTART"
                /\ cpc' = [cpc EXCEPT ![c] = "prompt"]
                /\ UNCHANGED result
    /\ UNCHANGED <<vars, call, nextSeq, sent, toServer>>

\* contFn supplied a message: send a CONTINUE.
Answer(c) ==
    /\ cpc[c] = "prompt"
    /\ Send(c, "authen", "ok")
    /\ UNCHANGED <<vars, call, result, toClient>>

\* There is no contFn, it failed, the context is done or NextSeq failed.
GiveUp(c) ==
    /\ cpc[c] = "prompt"
    /\ Return(c, Error)
    /\ UNCHANGED <<vars, call, nextSeq, sent, toServer, toClient>>

\* Mutant: the Client is used again after a read failed.
ReadErrorGoesOn(c) ==
    /\ cpc[c] = "wait"
    /\ Return(c, Error)
    /\ UNCHANGED <<vars, call, nextSeq, sent, toServer, toClient>>

\* Conn.ReadPacket fails: a deadline passed or the connection broke.  Callers
\* then give the connection up.
ReadError(c) ==
    /\ cpc[c] = "wait"
    /\ cpc' = [cpc EXCEPT ![c] = "failed"]
    /\ result' = [result EXCEPT ![c] = Error]
    /\ UNCHANGED <<vars, call, nextSeq, sent, toServer, toClient>>

\* conn.Close, deferred by every caller.
HangUp(c) ==
    /\ cpc[c] \in {"ready", "failed"}
    /\ cpc' = [cpc EXCEPT ![c] = "closed"]
    /\ toClient' = [toClient EXCEPT ![c] = <<>>]
    /\ UNCHANGED <<vars, call, nextSeq, sent, result, toServer>>

-----------------------------------------------------------------------------
(* The server's end of the connection. *)

\* ServeConn reads the packet that came first.
Deliver(c) ==
    /\ toServer[c] # <<>>
    /\ ReadPacket(c, Head(toServer[c]))
    /\ toServer' = [toServer EXCEPT ![c] = Tail(@)]
    /\ UNCHANGED <<clientVars, toClient>>

\* ServeConn stops reading: end of file, a timeout or shutdown.
Abandon(c) ==
    /\ EndConn(c)
    /\ UNCHANGED <<clientVars, toServer, toClient>>

\* ServeConn handles the packet in hand.
Process(c) ==
    /\ \/ StartAuthen(c) \/ ContinueAuthen(c) \/ RejectSeq(c)
       \/ AuthenDecide(c) \/ AuthenFail(c) \/ AuthenPanic(c)
       \/ HandleAuthor(c) \/ HandleAcct(c) \/ HandleUnknown(c)
    /\ UNCHANGED <<clientVars, toServer, toClient>>

\* Mutant: a packet without a body is not written.
RespondNeedsBody(c) ==
    /\ WriteReply(c)
    /\ \/ /\ pc'[c] = "read" \/ term[c]
          /\ toClient' = IF cpc[c] = "closed" \/ reply[c].type = "generic"
                         THEN toClient
                         ELSE [toClient EXCEPT ![c] = Append(@, reply[c])]
       \/ pc'[c] = "none" /\ UNCHANGED toClient
    /\ UNCHANGED <<clientVars, toServer>>

\* The reply leaves, or the write fails and the connection ends.  What is
\* written to a connection its client has closed is never read.
Respond(c) ==
    /\ WriteReply(c)
    /\ \/ /\ pc'[c] = "read" \/ term[c]
          /\ toClient' = IF cpc[c] = "closed"
                         THEN toClient
                         ELSE [toClient EXCEPT ![c] = Append(@, reply[c])]
       \/ pc'[c] = "none" /\ UNCHANGED toClient
    /\ UNCHANGED <<clientVars, toServer>>

Background ==
    /\ Tick \/ Sweep \/ Close
    /\ UNCHANGED <<clientVars, toServer, toClient>>

-----------------------------------------------------------------------------
ClientCalls(c) == Authenticate(c) \/ Authorize(c) \/ Account(c) \/ OutOfSeqNos(c)
ServerRuns(c) == Deliver(c) \/ Process(c) \/ Respond(c)

ClientNext ==
    \/ \E c \in Conns :
         \/ Dial(c) \/ ClientCalls(c) \/ Receive(c) \/ Answer(c) \/ GiveUp(c)
         \/ ReadError(c) \/ HangUp(c)
         \/ ServerRuns(c) \/ Abandon(c)
    \/ Background

ClientSpec == ClientInit /\ [][ClientNext]_allVars

\* Both ends' goroutines run, the Handler and contFn return, and what was
\* sent arrives.  No deadline is assumed and nobody is obliged to call.
ClientFairSpec ==
    /\ ClientSpec
    /\ \A c \in Conns :
         /\ WF_allVars(Receive(c) \/ Answer(c) \/ GiveUp(c))
         /\ WF_allVars(ServerRuns(c))

-----------------------------------------------------------------------------
\* What a call returns was sent in reply to the packet it sent last, although
\* the client looks at no reply header: same kind of packet, next seq_no
\* (client.go's ReadPacket calls, writeReply).
ReplyAnswersRequest ==
    \A c \in Conns :
        (cpc[c] = "ready" /\ result[c].type \in AllTypes) =>
            result[c].type = call[c] /\ result[c].seq = NextByte(sent[c])

\* While a user is being prompted, the server's registry and the client's
\* Session, which count separately, agree on the seq_no of the answer, unless
\* the session expired (NextSeq and ValidateNextSeqNo).
AnswerExpected ==
    \A c \in Conns :
        (cpc[c] = "prompt" /\ Registered(ClientId(c)) /\ nextSeq[c] <= MaxSeqNo)
            => ValidateNextSeqNo(nextSeq[c],
                                 sessions[ClientId(c)].lastOutboundSeq)

\* The client never makes the server take it for a misbehaving peer: none of
\* its packets is refused for its seq_no or its flags (RejectSeq, checkFlags
\* and the comparison with the first packet's flags in ServeConn).
ClientKeepsRules ==
    \A c \in Conns :
        /\ pc[c] # "reject"
        /\ pc[c] = "read" /\ toServer[c] # <<>> =>
             LET flags == Head(toServer[c]).flags IN
             CheckFlags(mode[c], flags) /\ (first[c] \/ flags = connFlags[c])

\* Once a client has a verdict the server has forgotten the session, for
\* good: nothing is left to expire (Delete before the reply in handleAuthen).
\* FAIL says less, since it may be a FOLLOW, which only the client takes for
\* a verdict.
VerdictEndsSession ==
    \A c \in Conns :
        (cpc[c] = "ready" /\ call[c] = "authen" /\ result[c].type = "authen"
           /\ result[c].status \in {"PASS", "ERROR"})
            => ~Registered(ClientId(c))

\* The two ends never wait for each other: when a call waits for its reply
\* and ServeConn for a packet, one of the two is on its way.
NoMutualWait ==
    \A c \in Conns :
        cpc[c] = "wait" /\ pc[c] = "read" =>
            toServer[c] # <<>> \/ toClient[c] # <<>>

\* "the sequence number must never wrap" (NextSeq): the packets of a Client
\* carry ever larger odd numbers, over all its calls.
ClientSeqNeverWraps ==
    [][\A c \in Conns :
         sent'[c] # sent[c] => sent'[c] > sent[c] /\ sent'[c] % 2 = 1]_sent

\* Every call returns while the server keeps serving the connection, even if
\* the server prompts again and again: the client runs out of seq_nos first.
CallReturns ==
    \A c \in Conns :
        cpc[c] \in {"wait", "prompt"}
            ~> (cpc[c] \notin {"wait", "prompt"} \/ pc[c] = "none")

-----------------------------------------------------------------------------
(* What the repository's documentation says and the code does not do. *)

\* "The first packet of a session is a START (seq_no 1)" (handleAuthen) and
\* "one session per request/response exchange" (Session): an Authenticate
\* call opens its exchange with seq_no 1.
StartIsFirst ==
    [][\A c \in Conns :
         (cpc[c] = "ready" /\ cpc'[c] = "wait" /\ call'[c] = "authen")
             => sent'[c] = 1]_clientVars
=============================================================================
