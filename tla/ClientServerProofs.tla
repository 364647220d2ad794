------------------------- MODULE ClientServerProofs -------------------------
(***************************************************************************)
(* Proofs about ClientServer.tla: the repository's client and server       *)
(* together, for every number of connections, every seq_no width, TTL and  *)
(* configuration.                                                          *)
(*                                                                         *)
(* The client looks at no reply header.  That its calls return the right   *)
(* replies rests on LinkInv: a connection carries at most one packet or    *)
(* reply at a time, the packet is the one the client sent last, and the    *)
(* reply is to that packet.  This holds whatever session ids the clients   *)
(* share.                                                                  *)
(*                                                                         *)
(* ClientSpec implements Spec of Server.tla, so the invariants proved      *)
(* there hold here too.                                                    *)
(*                                                                         *)
(* The second half is about clients that do not share session ids          *)
(* (DisjointClients).  RegistryAgrees says what the client may conclude    *)
(* from a reply about the server's registry.  InOrder adds, for Clients    *)
(* that log in at most once and first (AuthenOnce), that what the client   *)
(* sends next is what the registry expects.                                *)
(***************************************************************************)
EXTENDS ClientServer, DisjointProofs

\* p is the packet the client of connection c sent last.
Mine(c, p) ==
    /\ p.id = ClientId(c)
    /\ p.type = call[c]
    /\ p.seq = sent[c]
    /\ p.flags = ClientFlags(c)

\* r is a reply to that packet.
Answers(c, r) == r.type \in {"generic", call[c]} /\ r.seq = NextByte(sent[c])

\* The exchange in progress on connection c: there is none, or the packet is
\* on its way, or the server has it, or the reply is on its way.
Idle(c) ==
    toServer[c] = <<>> /\ toClient[c] = <<>> /\ pc[c] \notin InHand
Asked(c) ==
    /\ \E p \in Packets(c) : toServer[c] = <<p>> /\ Mine(c, p)
    /\ toClient[c] = <<>>
    /\ pc[c] \notin InHand
Served(c) ==
    /\ toServer[c] = <<>>
    /\ toClient[c] = <<>>
    /\ pc[c] \in InHand
    /\ Mine(c, req[c])
    /\ pc[c] = "write" => Answers(c, reply[c])
Answered(c) ==
    /\ toServer[c] = <<>>
    /\ \E r \in Reply : toClient[c] = <<r>> /\ Answers(c, r)
    /\ pc[c] \notin InHand

LinkAt(c) ==
    /\ Idle(c) \/ Asked(c) \/ Served(c) \/ Answered(c)
    /\ cpc[c] \in {"none", "ready", "prompt"} => Idle(c)
    /\ cpc[c] = "wait" => ~Idle(c) \/ pc[c] = "none"
    /\ cpc[c] = "none" => pc[c] = "none" /\ result[c] = NoResult
    /\ cpc[c] = "prompt" => call[c] = "authen"
    /\ cpc[c] \in {"none", "ready", "closed"} \/ sent[c] # 0
    /\ sent[c] # 0 => sent[c] % 2 = 1
    /\ nextSeq[c] = IF sent[c] = 0 THEN 1 ELSE sent[c] + 2
    /\ first[c] \/ cpc[c] = "none" \/ connFlags[c] = ClientFlags(c)
    /\ (cpc[c] = "ready" /\ result[c].type \in AllTypes) =>
          result[c].type = call[c] /\ result[c].seq = NextByte(sent[c])

ClientTypeInv ==
    /\ cpc \in [Conns -> ClientPCs]
    /\ call \in [Conns -> Calls \cup {"none"}]
    /\ nextSeq \in [Conns -> 1 .. MaxSeqNo + 2]
    /\ sent \in [Conns -> SeqNo]
    /\ result \in [Conns -> Reply \cup {NoResult, Error}]
    /\ toServer \in [Conns -> Seq(Packet)]
    /\ toClient \in [Conns -> Seq(Reply)]

LinkInv == ClientTypeInv /\ \A c \in Conns : LinkAt(c)

-----------------------------------------------------------------------------
(* Facts about the parts. *)

\* Sequences of one element, which is all a connection ever carries.
LEMMA One ==
    ASSUME NEW x
    PROVE  /\ <<x>> # <<>>
           /\ Head(<<x>>) = x
           /\ Tail(<<x>>) = <<>>
           /\ Append(<<>>, x) = <<x>>
           /\ Len(<<x>>) = 1
           /\ \A y : <<x>> = <<y>> => x = y
OBVIOUS

\* A Client's session id is the one its connection uses.
LEMMA ClientIdType ==
    ASSUME NEW c \in Conns
    PROVE  IdsOf[c] = {ClientId(c)} /\ ClientId(c) \in SessionIDs
BY ClientServerAssumption, ServerAssumption DEF ClientId

\* MaxSeqNo is the largest byte, and odd.
LEMMA MaxSeqNoFacts ==
    /\ MaxSeqNo \in SeqNo /\ MaxSeqNo % 2 = 1 /\ MaxSeqNo >= 3
    /\ \A n \in SeqNo : n <= MaxSeqNo
BY SessionsAssumption DEF MaxSeqNo, SeqNo

\* The seq_no a Client sends next is a byte, odd and larger than the last.
LEMMA NextSeqFacts ==
    ASSUME NEW c \in Conns, LinkInv, nextSeq[c] <= MaxSeqNo
    PROVE  /\ nextSeq[c] \in SeqNo
           /\ nextSeq[c] % 2 = 1
           /\ nextSeq[c] > sent[c]
           /\ nextSeq[c] \in InboundSeqs
           /\ nextSeq[c] + 2 \in 1 .. MaxSeqNo + 2
<1>1. sent[c] \in SeqNo /\ nextSeq[c] \in 1 .. MaxSeqNo + 2
  BY DEF LinkInv, ClientTypeInv
<1>2. /\ sent[c] # 0 => sent[c] % 2 = 1
      /\ nextSeq[c] = IF sent[c] = 0 THEN 1 ELSE sent[c] + 2
  BY DEF LinkInv, LinkAt
<1>3. nextSeq[c] \in SeqNo /\ nextSeq[c] + 2 \in 1 .. MaxSeqNo + 2
  BY <1>1, MaxSeqNoFacts, SessionsAssumption DEF SeqNo, MaxSeqNo
<1>4. nextSeq[c] % 2 = 1 /\ nextSeq[c] > sent[c]
  BY <1>1, <1>2 DEF SeqNo
<1>. QED BY <1>3, <1>4, ClientServerAssumption

\* What a Client sends is a packet of its connection.
LEMMA ClientPacket ==
    ASSUME NEW c \in Conns, LinkInv, nextSeq[c] <= MaxSeqNo,
           NEW type \in Calls, NEW body,
           IF type = "authen"
           THEN body \in IF nextSeq[c] = 1 THEN Starts
                                           ELSE {"ok", "undecodable"}
           ELSE body \in {"ok", "refused"}
    PROVE  [type |-> type, id |-> ClientId(c), seq |-> nextSeq[c],
            flags |-> ClientFlags(c), body |-> body] \in Packets(c)
<1>1. ClientFlags(c) \in HdrFlags
  BY ClientServerAssumption DEF ClientFlags
<1>2. type \in PacketTypes /\ ClientId(c) \in IdsOf[c]
  BY ClientServerAssumption, ClientIdType
<1>3. nextSeq[c] \in InboundSeqs
  BY NextSeqFacts
<1>4. body \in Starts \cup BodyKinds
  BY DEF BodyKinds
<1>. QED BY <1>1, <1>2, <1>3, <1>4 DEF Packets, BodyKinds

\* The client's flags are what the server wants of its connection.
LEMMA ClientFlagsPass == ASSUME NEW c PROVE CheckFlags(mode[c], ClientFlags(c))
BY DEF CheckFlags, ClientFlags

-----------------------------------------------------------------------------
(* The server's steps, seen from a connection. *)

\* Handling a packet leaves it in hand, and what is written is a reply to it.
LEMMA ProcessReplies ==
    ASSUME Inv, NEW c \in Conns, Process(c)
    PROVE  /\ pc[c] \in InHand /\ pc'[c] \in InHand
           /\ UNCHANGED <<req, mode, first, connFlags>>
           /\ pc'[c] = "write" =>
                /\ reply'[c].type \in {"generic", req[c].type}
                /\ reply'[c].seq = NextByte(req[c].seq)
           /\ \A d \in Conns : d # c => pc'[d] = pc[d] /\ reply'[d] = reply[d]
<1>1. ASSUME NEW r, Write(c, r)
      PROVE  /\ pc'[c] = "write" /\ reply'[c] = r
             /\ \A d \in Conns : d # c => pc'[d] = pc[d] /\ reply'[d] = reply[d]
  BY <1>1 DEF Write, Inv, TypeOK
<1>2. ASSUME NEW x, pc' = [pc EXCEPT ![c] = x], UNCHANGED reply
      PROVE  /\ pc'[c] = x
             /\ \A d \in Conns : d # c => pc'[d] = pc[d] /\ reply'[d] = reply[d]
  BY <1>2 DEF Inv, TypeOK
<1>3. /\ GenericReply(req[c]).type = "generic"
      /\ GenericReply(req[c]).seq = NextByte(req[c].seq)
      /\ \A t, s : /\ StatusReply(req[c], t, s).type = t
                   /\ StatusReply(req[c], t, s).seq = NextByte(req[c].seq)
  BY DEF GenericReply, StatusReply
<1>4. CASE StartAuthen(c)
  BY <1>1, <1>2, <1>3, <1>4 DEF StartAuthen, InHand
<1>5. CASE ContinueAuthen(c)
  BY <1>1, <1>2, <1>3, <1>5 DEF ContinueAuthen, InHand
<1>6. CASE RejectSeq(c) \/ AuthenPanic(c) \/ HandleUnknown(c)
  BY <1>1, <1>3, <1>6 DEF RejectSeq, AuthenPanic, HandleUnknown, InHand
<1>7. CASE AuthenDecide(c) \/ AuthenFail(c)
  <2>1. req[c].type = "authen"
    BY <1>7 DEF AuthenDecide, AuthenFail, Inv, ControlInv
  <2>. QED BY <1>1, <1>3, <1>7, <2>1 DEF AuthenDecide, AuthenFail, InHand
<1>8. CASE HandleAuthor(c) \/ HandleAcct(c)
  BY <1>1, <1>3, <1>8 DEF HandleAuthor, HandleAcct, HandleStateless, InHand
<1>. QED BY <1>4, <1>5, <1>6, <1>7, <1>8 DEF Process

\* Every step of the composition is one of Server.tla's, or none.
LEMMA ServerStep ==
    ASSUME LinkInv, [ClientNext]_allVars
    PROVE  [Next]_vars
<1>1. ASSUME NEW c \in Conns, Deliver(c) PROVE Next
  <2>1. PICK p \in Packets(c) : toServer[c] = <<p>>
    BY <1>1 DEF Deliver, LinkInv, LinkAt, Idle, Asked, Served, Answered
  <2>2. ReadPacket(c, p)
    BY <1>1, <2>1, One DEF Deliver
  <2>. QED BY <2>2 DEF Next
<1>2. ASSUME NEW c \in Conns, Dial(c) \/ Abandon(c) \/ Process(c) \/ Respond(c)
      PROVE  Next
  BY <1>2 DEF Dial, Abandon, Process, Respond, Serve, Next
<1>3. ASSUME NEW c \in Conns,
             \/ ClientCalls(c) \/ Receive(c) \/ Answer(c) \/ GiveUp(c)
             \/ ReadError(c) \/ HangUp(c)
      PROVE  UNCHANGED vars
  BY <1>3 DEF ClientCalls, Authenticate, Authorize, Account, OutOfSeqNos,
     Receive, Answer, GiveUp, ReadError, HangUp
<1>4. CASE Background
  BY <1>4 DEF Background, Next
<1>5. CASE UNCHANGED allVars
  BY <1>5 DEF allVars
<1>. QED BY <1>1, <1>2, <1>3, <1>4, <1>5 DEF ClientNext, ServerRuns

-----------------------------------------------------------------------------
(* LinkInv. *)

\* What LinkAt(d) is about is left alone.
SameEnds(d) ==
    /\ pc'[d] = pc[d]
    /\ req'[d] = req[d]
    /\ reply'[d] = reply[d]
    /\ mode'[d] = mode[d]
    /\ first'[d] = first[d]
    /\ connFlags'[d] = connFlags[d]
    /\ cpc'[d] = cpc[d]
    /\ call'[d] = call[d]
    /\ nextSeq'[d] = nextSeq[d]
    /\ sent'[d] = sent[d]
    /\ result'[d] = result[d]
    /\ toServer'[d] = toServer[d]
    /\ toClient'[d] = toClient[d]

LEMMA SameEndsKeep ==
    ASSUME NEW d \in Conns, LinkAt(d), SameEnds(d)
    PROVE  LinkAt(d)'
BY DEF LinkAt, SameEnds, Idle, Asked, Served, Answered, Mine, Answers,
   ClientFlags

\* A step of connection c's two ends keeps LinkInv if it keeps LinkAt(c).
LEMMA LinkKeeps ==
    ASSUME LinkInv, NEW c \in Conns,
           ClientTypeInv', LinkAt(c)', \A d \in Conns \ {c} : SameEnds(d)
    PROVE  LinkInv'
BY SameEndsKeep DEF LinkInv

\* Initially nothing is dialled.
LEMMA InitLink == ClientInit => LinkInv
<1>. SUFFICES ASSUME ClientInit PROVE LinkInv
  OBVIOUS
<1>1. ClientTypeInv
  <2>1. 1 \in 1 .. MaxSeqNo + 2 /\ 0 \in SeqNo
    BY MaxSeqNoFacts, SessionsAssumption DEF SeqNo
  <2>. QED BY <2>1 DEF ClientInit, ClientTypeInv, ClientPCs
<1>2. ASSUME NEW c \in Conns PROVE LinkAt(c)
  BY DEF ClientInit, Init, LinkAt, Idle, InHand, NoResult, AllTypes
<1>. QED BY <1>1, <1>2 DEF LinkInv

\* Sending a packet.
LEMMA SendLink ==
    ASSUME Inv, LinkInv, NEW c \in Conns, NEW type \in Calls, NEW body,
           IF type = "authen"
           THEN body \in IF nextSeq[c] = 1 THEN Starts
                                           ELSE {"ok", "undecodable"}
           ELSE body \in {"ok", "refused"},
           cpc[c] \in {"ready", "prompt"},
           Send(c, type, body), call' = [call EXCEPT ![c] = type],
           UNCHANGED <<vars, result, toClient>>
    PROVE  LinkInv' /\ \A d \in Conns \ {c} : SameEnds(d)
<1>0. PICK p : p = [type |-> type, id |-> ClientId(c), seq |-> nextSeq[c],
                    flags |-> ClientFlags(c), body |-> body]
  BY Zenon
<1>1. Idle(c)
  BY DEF LinkInv, LinkAt
<1>2. /\ nextSeq[c] \in SeqNo /\ nextSeq[c] % 2 = 1 /\ nextSeq[c] > sent[c]
      /\ nextSeq[c] + 2 \in 1 .. MaxSeqNo + 2
      /\ nextSeq[c] # 0
  BY NextSeqFacts DEF Send, NextSeq, SeqNo
<1>3. p \in Packets(c) /\ p \in Packet
  BY <1>0, ClientPacket, PacketsType DEF Send, NextSeq
<1>4. /\ cpc'[c] = "wait" /\ call'[c] = type /\ sent'[c] = nextSeq[c]
      /\ nextSeq'[c] = nextSeq[c] + 2
      /\ toServer'[c] = <<p>>
      /\ \A d \in Conns \ {c} : SameEnds(d)
  <2>1. Append(toServer[c], p) = <<p>>
    BY <1>1, One DEF Idle
  <2>2. toServer' = [toServer EXCEPT ![c] = Append(toServer[c], p)]
    BY <1>0 DEF Send
  <2>. QED
    BY Zenon, <2>1, <2>2
       DEF Send, NextSeq, LinkInv, ClientTypeInv, SameEnds, vars
<1>5. ClientTypeInv'
  <2>1. toServer' = [toServer EXCEPT ![c] = <<p>>]
    BY <1>0, <1>1, One DEF Send, Idle
  <2>2. <<p>> \in Seq(Packet)
    BY <1>3
  <2>. QED
    BY Zenon, <1>2, <2>1, <2>2 DEF Send, NextSeq, LinkInv, ClientTypeInv, ClientPCs
<1>6. Mine(c, p)'
  BY <1>0, <1>4 DEF Mine, ClientFlags, vars
<1>7. Asked(c)'
  BY <1>1, <1>3, <1>4, <1>6 DEF Asked, Idle, vars
<1>8. LinkAt(c)'
  <2>1. toServer'[c] # <<>>
    BY <1>4, One
  <2>2. ~Idle(c)'
    BY <2>1 DEF Idle
  <2>3. first[c] \/ connFlags[c] = ClientFlags(c)
    BY DEF LinkInv, LinkAt
  <2>. QED BY <1>2, <1>4, <1>7, <2>2, <2>3 DEF LinkAt, ClientFlags, vars
<1>. QED BY <1>4, <1>5, <1>8, LinkKeeps

\* A call that returns, fails or goes on to prompt, with nothing on its way.
LEMMA ReturnLink ==
    ASSUME Inv, LinkInv, NEW c \in Conns, NEW state, NEW r,
           cpc[c] # "none",
           cpc' = [cpc EXCEPT ![c] = state],
           result' = [result EXCEPT ![c] = r],
           r \in Reply \cup {NoResult, Error},
           \/ state = "ready" /\ (r.type \in AllTypes =>
                r.type = call[c] /\ r.seq = NextByte(sent[c]))
           \/ state = "prompt" /\ sent[c] # 0 /\ call[c] = "authen",
           toServer[c] = <<>>, pc[c] \notin InHand,
           toClient' = [toClient EXCEPT ![c] = <<>>],
           UNCHANGED <<vars, call, nextSeq, sent, toServer>>
    PROVE  LinkInv' /\ \A d \in Conns \ {c} : SameEnds(d)
<1>1. /\ cpc'[c] = state /\ result'[c] = r /\ toClient'[c] = <<>>
      /\ \A d \in Conns \ {c} : SameEnds(d)
  BY DEF LinkInv, ClientTypeInv, SameEnds, vars
<1>2. ClientTypeInv'
  BY DEF LinkInv, ClientTypeInv, ClientPCs
<1>3. LinkAt(c)'
  <2>1. Idle(c)'
    BY <1>1 DEF Idle, vars
  <2>2. /\ sent[c] # 0 => sent[c] % 2 = 1
        /\ nextSeq[c] = IF sent[c] = 0 THEN 1 ELSE sent[c] + 2
        /\ first[c] \/ connFlags[c] = ClientFlags(c)
    BY DEF LinkInv, LinkAt
  <2>. QED BY <1>1, <2>1, <2>2 DEF LinkAt, ClientFlags, vars
<1>. QED BY <1>1, <1>2, <1>3, LinkKeeps

\* Receive: whatever the client makes of the reply, it is the one to its
\* packet, and nothing else is on its way.
LEMMA ReceiveLink ==
    ASSUME Inv, LinkInv, NEW c \in Conns, Receive(c)
    PROVE  LinkInv' /\ \A d \in Conns \ {c} : SameEnds(d)
<1>1. PICK r \in Reply : toClient[c] = <<r>> /\ Answers(c, r)
  BY DEF Receive, LinkInv, LinkAt, Idle, Asked, Served, Answered
<1>2. /\ Head(toClient[c]) = r /\ Tail(toClient[c]) = <<>>
      /\ toClient[c] # <<>>
  BY <1>1, One
<1>3. toServer[c] = <<>> /\ pc[c] \notin InHand /\ sent[c] # 0
        /\ cpc[c] = "wait"
  BY <1>2 DEF Receive, LinkInv, LinkAt, Idle, Asked, Served, Answered
<1>4. toClient' = [toClient EXCEPT ![c] = <<>>]
        /\ UNCHANGED <<vars, call, nextSeq, sent, toServer>>
  BY Zenon, <1>2 DEF Receive
<1>5. Error.type \notin AllTypes
  BY DEF Error, AllTypes
<1>6. CASE Return(c, Error)
  BY Zenon, <1>3, <1>4, <1>5, <1>6, ReturnLink DEF Return
<1>7. CASE r.type # "generic" /\ Return(c, r)
  BY Zenon, <1>1, <1>3, <1>4, <1>7, ReturnLink DEF Return, Answers
<1>8. CASE /\ r.type # "generic" /\ call[c] = "authen"
           /\ IsTerminal(NormalizeAuthenStatus(r.status))
           /\ Return(c, [r EXCEPT !.status = NormalizeAuthenStatus(r.status)])
  <2>1. PICK n : n = NormalizeAuthenStatus(r.status)
    OBVIOUS
  <2>2. n \in AuthenStatus
    BY <1>8, <2>1 DEF IsTerminal, TerminalStatus, AuthenStatus
  <2>3. r \in [type : {"authen"}, seq : SeqNo, status : AuthenStatus]
    BY <1>1, <1>8 DEF Answers, Reply
  <2>4. /\ [r EXCEPT !.status = n] \in Reply
        /\ [r EXCEPT !.status = n].type = r.type
        /\ [r EXCEPT !.status = n].seq = r.seq
    BY <2>2, <2>3 DEF Reply
  <2>. QED
    BY Zenon, <1>1, <1>3, <1>4, <1>8, <2>1, <2>4, ReturnLink
       DEF Return, Answers
<1>9. CASE call[c] = "authen" /\ cpc' = [cpc EXCEPT ![c] = "prompt"]
             /\ UNCHANGED result
  <2>1. result' = [result EXCEPT ![c] = result[c]]
          /\ result[c] \in Reply \cup {NoResult, Error}
    BY <1>9 DEF LinkInv, ClientTypeInv
  <2>. QED BY Zenon, <1>3, <1>4, <1>9, <2>1, ReturnLink
<1>. QED BY <1>2, <1>6, <1>7, <1>8, <1>9 DEF Receive

\* Dial: the connection is fresh at both ends.
LEMMA DialLink ==
    ASSUME Inv, LinkInv, NEW c \in Conns, Dial(c)
    PROVE  LinkInv' /\ \A d \in Conns \ {c} : SameEnds(d)
<1>1. /\ cpc'[c] = "ready" /\ pc'[c] = "read" /\ first'[c] = TRUE
      /\ \A d \in Conns \ {c} : SameEnds(d)
  BY DEF Dial, AcceptConn, Inv, TypeOK, LinkInv, ClientTypeInv, SameEnds
<1>2. ClientTypeInv'
  BY DEF Dial, LinkInv, ClientTypeInv, ClientPCs
<1>3. LinkAt(c)'
  <2>1. Idle(c)'
    BY <1>1 DEF Dial, LinkInv, LinkAt, Idle, InHand
  <2>2. /\ sent[c] # 0 => sent[c] % 2 = 1
        /\ nextSeq[c] = IF sent[c] = 0 THEN 1 ELSE sent[c] + 2
    BY DEF LinkInv, LinkAt
  <2>3. result[c].type \notin AllTypes
    <3>1. result[c] = NoResult
      BY DEF Dial, LinkInv, LinkAt
    <3>. QED BY <3>1 DEF NoResult, AllTypes
  <2>. QED BY <1>1, <2>1, <2>2, <2>3 DEF LinkAt, Dial
<1>. QED BY <1>1, <1>2, <1>3, LinkKeeps

\* A failed read changes nothing on the connection, hanging up drops what is
\* on its way to the client.
LEMMA LeaveLink ==
    ASSUME Inv, LinkInv, NEW c \in Conns, ReadError(c) \/ HangUp(c)
    PROVE  LinkInv' /\ \A d \in Conns \ {c} : SameEnds(d)
<1>1. /\ cpc'[c] \in {"failed", "closed"}
      /\ toClient'[c] \in {toClient[c], <<>>}
      /\ cpc'[c] = "failed" => sent[c] # 0
      /\ \A d \in Conns \ {c} : SameEnds(d)
      /\ UNCHANGED <<vars, call, nextSeq, sent, toServer>>
  BY Zenon
     DEF ReadError, HangUp, LinkInv, LinkAt, ClientTypeInv, SameEnds, vars
<1>2. ClientTypeInv'
  <2>1. <<>> \in Seq(Reply)
    OBVIOUS
  <2>. QED
    BY Zenon, <2>1 DEF ReadError, HangUp, LinkInv, ClientTypeInv, ClientPCs
<1>3. LinkAt(c)'
  <2>1. \/ Idle(c)' \/ Asked(c)' \/ Served(c)' \/ Answered(c)'
    BY Zenon, <1>1
       DEF LinkInv, LinkAt, Idle, Asked, Served, Answered, Mine, Answers,
       ClientFlags, vars
  <2>2. /\ sent[c] # 0 => sent[c] % 2 = 1
        /\ nextSeq[c] = IF sent[c] = 0 THEN 1 ELSE sent[c] + 2
        /\ first[c] \/ connFlags[c] = ClientFlags(c)
    BY Zenon DEF ReadError, HangUp, LinkInv, LinkAt
  <2>. QED BY Zenon, <1>1, <2>1, <2>2 DEF LinkAt, ClientFlags, vars
<1>. QED BY <1>1, <1>2, <1>3, LinkKeeps

\* ReadPacket takes the client's packet in hand.
LEMMA DeliverLink ==
    ASSUME Inv, LinkInv, NEW c \in Conns, Deliver(c)
    PROVE  LinkInv' /\ \A d \in Conns \ {c} : SameEnds(d)
<1>1. PICK p \in Packets(c) : toServer[c] = <<p>> /\ Mine(c, p)
  BY DEF Deliver, LinkInv, LinkAt, Idle, Asked, Served, Answered
<1>2. /\ Head(toServer[c]) = p /\ Tail(toServer[c]) = <<>>
      /\ toServer[c] # <<>>
  BY <1>1, One
<1>3. /\ ReadPacket(c, p)
      /\ toServer' = [toServer EXCEPT ![c] = <<>>]
      /\ UNCHANGED <<clientVars, toClient, mode>>
  BY Zenon, <1>2 DEF Deliver, ReadPacket
<1>4. /\ req'[c] = p /\ toServer'[c] = <<>>
      /\ pc[c] = "read"
      /\ \/ /\ pc'[c] = "handle" /\ connFlags'[c] = p.flags
         \/ /\ pc'[c] = "write" /\ reply'[c] = GenericReply(p)
            /\ UNCHANGED <<first, connFlags>>
  <2>1. req'[c] = p /\ pc[c] = "read"
    BY <1>3 DEF ReadPacket, Inv, TypeOK
  <2>2. toServer'[c] = <<>>
    BY <1>3 DEF LinkInv, ClientTypeInv
  <2>3. \/ /\ pc'[c] = "handle" /\ connFlags'[c] = p.flags
        \/ /\ pc'[c] = "write" /\ reply'[c] = GenericReply(p)
           /\ UNCHANGED <<first, connFlags>>
    BY <1>3 DEF ReadPacket, Write, Inv, TypeOK
  <2>. QED BY <2>1, <2>2, <2>3
<1>5. \A d \in Conns \ {c} : SameEnds(d)
  <2>. SUFFICES ASSUME NEW d \in Conns \ {c} PROVE SameEnds(d)
    OBVIOUS
  <2>1. pc'[d] = pc[d] /\ req'[d] = req[d] /\ reply'[d] = reply[d]
    BY <1>3 DEF ReadPacket, Write, Inv, TypeOK
  <2>2. first'[d] = first[d] /\ connFlags'[d] = connFlags[d]
    BY <1>3 DEF ReadPacket, Inv, TypeOK
  <2>3. toServer'[d] = toServer[d]
    BY <1>3 DEF LinkInv, ClientTypeInv
  <2>. QED BY Zenon, <1>3, <2>1, <2>2, <2>3 DEF SameEnds, clientVars
<1>6. ClientTypeInv'
  <2>1. <<>> \in Seq(Packet)
    OBVIOUS
  <2>. QED BY <1>3, <2>1 DEF LinkInv, ClientTypeInv, clientVars
<1>7. Served(c)'
  <2>1. toClient[c] = <<>>
    BY <1>2 DEF LinkInv, LinkAt, Idle, Asked, Served, Answered
  <2>2. Mine(c, req[c])'
    BY Zenon, <1>1, <1>3, <1>4 DEF Mine, ClientFlags, clientVars
  <2>3. pc'[c] = "write" => Answers(c, reply[c])'
    <3>1. /\ GenericReply(p).type = "generic"
          /\ GenericReply(p).seq = NextByte(p.seq)
      BY DEF GenericReply
    <3>2. p.seq = sent[c] /\ UNCHANGED <<call, sent>>
      BY <1>1, <1>3 DEF Mine, clientVars
    <3>. QED BY <1>4, <3>1, <3>2 DEF Answers
  <2>. QED BY <1>3, <1>4, <2>1, <2>2, <2>3 DEF Served, InHand
<1>8. LinkAt(c)'
  <2>1. ~Idle(c) /\ ~Idle(c)'
    BY Zenon, <1>2, <1>7 DEF Idle, Served
  <2>2. first'[c] \/ cpc[c] = "none" \/ connFlags'[c] = ClientFlags(c)
    BY <1>1, <1>4 DEF Mine, LinkInv, LinkAt
  <2>3. /\ cpc[c] \notin {"none", "ready", "prompt"}
        /\ cpc[c] = "closed" \/ sent[c] # 0
        /\ sent[c] # 0 => sent[c] % 2 = 1
        /\ nextSeq[c] = IF sent[c] = 0 THEN 1 ELSE sent[c] + 2
    BY <2>1 DEF LinkInv, LinkAt
  <2>. QED
    BY Zenon, <1>3, <1>7, <2>1, <2>2, <2>3 DEF LinkAt, ClientFlags, clientVars
<1>. QED BY <1>5, <1>6, <1>8, LinkKeeps

\* Handling the packet keeps it in hand.
LEMMA ProcessLink ==
    ASSUME Inv, LinkInv, NEW c \in Conns, Process(c)
    PROVE  LinkInv' /\ \A d \in Conns \ {c} : SameEnds(d)
<1>1. /\ pc[c] \in InHand /\ pc'[c] \in InHand
      /\ UNCHANGED <<req, mode, first, connFlags>>
      /\ pc'[c] = "write" =>
           /\ reply'[c].type \in {"generic", req[c].type}
           /\ reply'[c].seq = NextByte(req[c].seq)
      /\ \A d \in Conns : d # c => pc'[d] = pc[d] /\ reply'[d] = reply[d]
  BY ProcessReplies
<1>2. UNCHANGED <<clientVars, toServer, toClient>>
  BY DEF Process
<1>3. ClientTypeInv'
  BY <1>2 DEF LinkInv, ClientTypeInv, clientVars
<1>4. \A d \in Conns \ {c} : SameEnds(d)
  BY <1>1, <1>2 DEF SameEnds, clientVars
<1>5. Served(c)
  BY <1>1 DEF LinkInv, LinkAt, Idle, Asked, Served, Answered
<1>6. Served(c)'
  BY Zenon, <1>1, <1>2, <1>5 DEF Served, Mine, Answers, ClientFlags, clientVars
<1>7. LinkAt(c)'
  BY Zenon, <1>1, <1>2, <1>5, <1>6
     DEF LinkInv, LinkAt, Idle, Served, ClientFlags, clientVars
<1>. QED BY <1>3, <1>4, <1>7, LinkKeeps

\* The reply leaves or the write fails: the packet is no longer in hand.
LEMMA RespondLink ==
    ASSUME Inv, LinkInv, NEW c \in Conns, Respond(c)
    PROVE  LinkInv' /\ \A d \in Conns \ {c} : SameEnds(d)
<1>1. /\ pc[c] = "write" /\ pc'[c] \in {"read", "none"}
      /\ UNCHANGED <<mode, first, connFlags, clientVars, toServer>>
      /\ \A d \in Conns : d # c => pc'[d] = pc[d] /\ req'[d] = req[d]
                                   /\ reply'[d] = reply[d]
  BY DEF Respond, WriteReply, Inv, TypeOK
<1>2. Served(c)
  BY Zenon, <1>1 DEF LinkInv, LinkAt, Idle, Asked, Served, Answered, InHand
<1>3. PICK r : r = reply[c]
  OBVIOUS
<1>4. r \in Reply /\ Answers(c, r)
  <2>1. Answers(c, r) /\ call[c] = req[c].type
    BY Zenon, <1>1, <1>2, <1>3 DEF Served, Mine
  <2>2. req[c].type \in AllTypes
    BY <1>1, PacketsType DEF Inv, ControlInv, InHand, Packet
  <2>3. reply[c] # NoReply
    BY <1>3, <2>1, <2>2 DEF Answers, NoReply, AllTypes
  <2>. QED BY Zenon, <1>3, <2>1, <2>3 DEF Inv, TypeOK
<1>5. \/ toClient' = [toClient EXCEPT ![c] = <<r>>]
      \/ UNCHANGED toClient /\ (cpc[c] = "closed" \/ pc'[c] = "none")
  BY <1>2, <1>3, One DEF Respond, Served
<1>6. ClientTypeInv'
  <2>1. <<r>> \in Seq(Reply)
    BY <1>4
  <2>. QED BY Zenon, <1>1, <1>5, <2>1 DEF LinkInv, ClientTypeInv, clientVars
<1>7. \A d \in Conns \ {c} : SameEnds(d)
  BY <1>1, <1>5 DEF SameEnds, LinkInv, ClientTypeInv, clientVars
<1>8. \/ Answered(c)' /\ ~Idle(c)'
      \/ Idle(c)' /\ (cpc[c] = "closed" \/ pc'[c] = "none")
  <2>1. CASE toClient' = [toClient EXCEPT ![c] = <<r>>]
    <3>1. toClient'[c] = <<r>> /\ <<r>> # <<>>
      BY <2>1, One DEF LinkInv, ClientTypeInv
    <3>2. Answers(c, r)'
      BY <1>1, <1>4 DEF Answers, clientVars
    <3>. QED BY <1>1, <1>2, <1>4, <3>1, <3>2 DEF Answered, Served, Idle, InHand
  <2>2. CASE UNCHANGED toClient /\ (cpc[c] = "closed" \/ pc'[c] = "none")
    BY <1>1, <1>2, <2>2 DEF Served, Idle, InHand
  <2>. QED BY <1>5, <2>1, <2>2
<1>9. LinkAt(c)'
  <2>1. ~Idle(c)
    BY <1>1 DEF Idle, InHand
  <2>. QED
    BY Zenon, <1>1, <1>8, <2>1 DEF LinkInv, LinkAt, ClientFlags, clientVars
<1>. QED BY <1>6, <1>7, <1>9, LinkKeeps

\* What the two ends of connection c do.
ConnStep(c) ==
    \/ Dial(c) \/ ClientCalls(c) \/ Receive(c) \/ Answer(c) \/ GiveUp(c)
    \/ ReadError(c) \/ HangUp(c)
    \/ ServerRuns(c) \/ Abandon(c)

\* A step of c's two ends keeps the links as they should be, and the other
\* connections as they were.
LEMMA ConnLink ==
    ASSUME Inv, LinkInv, NEW c \in Conns, ConnStep(c)
    PROVE  LinkInv' /\ \A d \in Conns \ {c} : SameEnds(d)
<1>1. CASE Authenticate(c)
  BY Zenon, <1>1, SendLink DEF Authenticate
<1>2. CASE Authorize(c)
  BY Zenon, <1>2, SendLink DEF Authorize
<1>3. CASE Account(c)
  BY Zenon, <1>3, SendLink DEF Account
<1>4. CASE Answer(c)
  <2>1. call[c] = "authen" /\ sent[c] # 0
    BY Zenon, <1>4 DEF Answer, LinkInv, LinkAt
  <2>2. "authen" \in Calls /\ call' = [call EXCEPT ![c] = "authen"]
    BY <1>4, <2>1 DEF Answer, LinkInv, ClientTypeInv
  <2>3. nextSeq[c] # 1
    <3>1. sent[c] \in SeqNo /\ nextSeq[c] = sent[c] + 2
      BY Zenon, <2>1 DEF LinkInv, LinkAt, ClientTypeInv
    <3>. QED BY <3>1, SessionsAssumption DEF SeqNo
  <2>. QED BY Zenon, <1>4, <2>2, <2>3, SendLink DEF Answer
<1>5. CASE OutOfSeqNos(c) \/ GiveUp(c)
  <2>1. Idle(c) /\ cpc[c] # "none"
    BY Zenon, <1>5 DEF OutOfSeqNos, GiveUp, LinkInv, LinkAt
  <2>2. toClient' = [toClient EXCEPT ![c] = <<>>]
    BY <1>5, <2>1 DEF OutOfSeqNos, GiveUp, Idle, LinkInv, ClientTypeInv
  <2>3. Error.type \notin AllTypes
    BY DEF Error, AllTypes
  <2>. QED
    BY Zenon, <1>5, <2>1, <2>2, <2>3, ReturnLink
       DEF OutOfSeqNos, GiveUp, Return, Idle
<1>6. CASE Abandon(c)
  <2>1. /\ pc[c] = "read" /\ pc'[c] = "none"
        /\ \A d \in Conns : d # c => pc'[d] = pc[d]
        /\ UNCHANGED <<req, reply, mode, first, connFlags, clientVars,
                      toServer, toClient>>
    BY <1>6 DEF Abandon, EndConn, Inv, TypeOK
  <2>2. ClientTypeInv' /\ \A d \in Conns \ {c} : SameEnds(d)
    BY Zenon, <2>1 DEF LinkInv, ClientTypeInv, SameEnds, clientVars
  <2>3. LinkAt(c)'
    BY Zenon, <2>1
       DEF LinkInv, LinkAt, Idle, Asked, Served, Answered, Mine, Answers,
       ClientFlags, InHand, clientVars
  <2>. QED BY <2>2, <2>3, LinkKeeps
<1>. QED
  BY <1>1, <1>2, <1>3, <1>4, <1>5, <1>6, DialLink, ReceiveLink, LeaveLink,
     DeliverLink, ProcessLink, RespondLink
     DEF ConnStep, ClientCalls, ServerRuns

\* The clock, the sweeper and Close change nothing on any connection.
LEMMA BackgroundLink ==
    ASSUME Inv, LinkInv, Background \/ UNCHANGED allVars
    PROVE  LinkInv' /\ \A d \in Conns : SameEnds(d)
<1>1. UNCHANGED <<pc, req, reply, mode, first, connFlags, clientVars,
                  toServer, toClient>>
  BY DEF Background, Tick, Sweep, Close, allVars, vars
<1>2. ClientTypeInv' /\ \A d \in Conns : SameEnds(d)
  BY <1>1 DEF LinkInv, ClientTypeInv, SameEnds, clientVars
<1>. QED BY <1>2, SameEndsKeep DEF LinkInv

\* Every step keeps the links as they should be.
LEMMA NextLink ==
    ASSUME Inv, LinkInv, [ClientNext]_allVars
    PROVE  LinkInv'
BY ConnLink, BackgroundLink DEF ClientNext, ConnStep

-----------------------------------------------------------------------------
(* What the composition guarantees, whoever shares a session id. *)

\* The server and the state of the connections, together.
THEOREM LinkHolds == ClientSpec => [](Inv /\ LinkInv)
<1>1. ClientInit => Inv /\ LinkInv
  BY InitInv, InitLink DEF ClientInit
<1>2. Inv /\ LinkInv /\ [ClientNext]_allVars => Inv' /\ LinkInv'
  BY ServerStep, NextInv, NextLink
<1>. QED BY <1>1, <1>2, PTL DEF ClientSpec

\* The repository's client uses the server as Server.tla allows: client and
\* server together, the client's own state hidden, behave like the server
\* with its unconstrained clients (client.go's send, ServeConn).
THEOREM ClientImplementsServerClients == ClientSpec => Spec
<1>1. LinkInv /\ [ClientNext]_allVars => [Next]_vars
  BY ServerStep
<1>2. ClientInit => Init
  BY DEF ClientInit
<1>. QED BY <1>1, <1>2, LinkHolds, PTL DEF ClientSpec, Spec

\* Types of the client's variables; a connection carries at most one packet
\* or reply in each direction (client.go's send and ReadPacket alternate).
THEOREM ClientTypeCorrect == ClientSpec => []ClientTypeOK
<1>1. Inv /\ LinkInv => ClientTypeOK
  <2>. SUFFICES ASSUME Inv, LinkInv PROVE ClientTypeOK
    OBVIOUS
  <2>1. ASSUME NEW c \in Conns
        PROVE  Len(toServer[c]) <= 1 /\ Len(toClient[c]) <= 1
    <3>1. Len(<<>>) = 0 /\ \A x : Len(<<x>>) = 1
      BY One
    <3>2. /\ toServer[c] = <<>> \/ \E x : toServer[c] = <<x>>
          /\ toClient[c] = <<>> \/ \E x : toClient[c] = <<x>>
      BY DEF LinkInv, LinkAt, Idle, Asked, Served, Answered
    <3>3. Len(toServer[c]) \in {0, 1} /\ Len(toClient[c]) \in {0, 1}
      BY Zenon, <3>1, <3>2
    <3>4. \A n \in {0, 1} : n <= 1
      OBVIOUS
    <3>. QED BY Zenon, <3>3, <3>4
  <2>. QED BY <2>1 DEF ClientTypeOK, Inv, LinkInv, ClientTypeInv
<1>. QED BY <1>1, LinkHolds, PTL

\* What a call returns is the reply to the packet it sent last, for any
\* number of connections and whatever session ids they share, although the
\* client looks at no reply header.
THEOREM RepliesAnswer == ClientSpec => []ReplyAnswersRequest
<1>1. LinkInv => ReplyAnswersRequest
  BY Zenon DEF LinkInv, LinkAt, ReplyAnswersRequest
<1>. QED BY <1>1, LinkHolds, PTL

\* A call and ServeConn never wait for each other.
THEOREM NeverBothWait == ClientSpec => []NoMutualWait
<1>1. LinkInv => NoMutualWait
  BY Zenon DEF LinkInv, LinkAt, Idle, InHand, NoMutualWait
<1>. QED BY <1>1, LinkHolds, PTL

\* The packets of a Client carry ever larger odd seq_nos, over all its calls
\* and for every seq_no width: NextSeq refuses before the byte wraps.
THEOREM ClientSeqMonotonic == ClientSpec => ClientSeqNeverWraps
<1>1. ASSUME LinkInv, [ClientNext]_allVars, NEW c \in Conns, sent'[c] # sent[c]
      PROVE  sent'[c] > sent[c] /\ sent'[c] % 2 = 1
  <2>1. ASSUME NEW d \in Conns, NEW type, NEW body, Send(d, type, body)
        PROVE  sent'[c] > sent[c] /\ sent'[c] % 2 = 1
    <3>1. d = c /\ sent'[c] = nextSeq[c] /\ nextSeq[c] <= MaxSeqNo
      BY <1>1, <2>1 DEF Send, NextSeq, LinkInv, ClientTypeInv
    <3>. QED BY <1>1, <3>1, NextSeqFacts
  <2>2. ASSUME UNCHANGED sent PROVE FALSE
    BY <1>1, <2>2
  <2>. QED
    BY Zenon, <1>1, <2>1, <2>2 DEF ClientNext, ClientCalls, ServerRuns, Dial,
       Authenticate, Authorize, Account, OutOfSeqNos, Receive, Answer, GiveUp,
       ReadError, HangUp, Deliver, Process, Respond, Abandon, Background,
       allVars, clientVars
<1>2. LinkInv /\ [ClientNext]_allVars =>
        [\A c \in Conns :
           sent'[c] # sent[c] => sent'[c] > sent[c] /\ sent'[c] % 2 = 1]_sent
  BY <1>1
<1>. QED BY <1>2, LinkHolds, PTL DEF ClientSpec, ClientSeqNeverWraps

\* The repository's clients are protected as their connection's mode asks
\* for whatever Config.Mode says: on a shared-secret connection they never
\* send the unencrypted flag, which a mode mismatch would let through
\* (ServeConn, checkFlags, Conn.WritePacket).
THEOREM ClientsProtected == ClientSpec => []ProtectionEnforced
<1>1. LinkInv /\ FlagsInv => ProtectionEnforced
  <2>. SUFFICES ASSUME LinkInv, FlagsInv, NEW c \in Conns,
                       pc[c] \in {"handle", "reject", "authen"}
                PROVE  /\ req[c].flags = connFlags[c]
                       /\ mode[c] = "tls" => "unencrypted" \in req[c].flags
                       /\ mode[c] = "legacy" =>
                            "unencrypted" \notin req[c].flags
    BY DEF ProtectionEnforced
  <2>1. req[c].flags = ClientFlags(c)
    BY DEF LinkInv, LinkAt, Idle, Asked, Served, Answered, InHand, Mine
  <2>. QED BY <2>1 DEF FlagsInv, ClientFlags
<1>2. ClientSpec => []FlagsInv
  BY ClientImplementsServerClients, FlagsHold, PTL
<1>. QED BY <1>1, <1>2, LinkHolds, PTL

\* A Client that logs in at most once, and first, opens the login with seq_no
\* 1, as handleAuthen and Session say; ClientReuse.cfg shows that a Client
\* used for another login does not.
THEOREM LoginStartsAtOne ==
    ASSUME AuthenOnce PROVE ClientSpec => StartIsFirst
<1>1. ASSUME LinkInv, [ClientNext]_allVars, NEW c \in Conns,
             cpc[c] = "ready", cpc'[c] = "wait", call'[c] = "authen"
      PROVE  sent'[c] = 1
  <2>1. CASE Authenticate(c)
    <3>1. nextSeq[c] = 1
      BY Zenon, <1>1, <2>1 DEF Authenticate, LinkInv, LinkAt
    <3>. QED BY <1>1, <2>1, <3>1 DEF Authenticate, Send, LinkInv, ClientTypeInv
  <2>2. ASSUME NEW d \in Conns, NEW state, cpc' = [cpc EXCEPT ![d] = state],
               d # c \/ state # "wait"
        PROVE  FALSE
    BY <1>1, <2>2 DEF LinkInv, ClientTypeInv
  <2>3. ASSUME NEW d \in Conns, Authorize(d) \/ Account(d) PROVE FALSE
    BY Zenon, <1>1, <2>2, <2>3
       DEF Authorize, Account, Send, LinkInv, ClientTypeInv
  <2>4. ASSUME NEW d \in Conns, Authenticate(d) \/ Answer(d), d # c PROVE FALSE
    BY Zenon, <2>2, <2>4 DEF Authenticate, Answer, Send
  <2>5. ASSUME Answer(c) PROVE FALSE
    BY Zenon, <1>1, <2>5 DEF Answer
  <2>6. ASSUME NEW d \in Conns,
               \/ Dial(d) \/ OutOfSeqNos(d) \/ Receive(d) \/ GiveUp(d)
               \/ ReadError(d) \/ HangUp(d)
        PROVE  FALSE
    BY Zenon, <2>2, <2>6
       DEF Dial, OutOfSeqNos, Receive, GiveUp, ReadError, HangUp, Return
  <2>7. ASSUME UNCHANGED cpc PROVE FALSE
    BY <1>1, <2>7
  <2>. QED
    BY Zenon, <1>1, <2>1, <2>3, <2>4, <2>5, <2>6, <2>7
       DEF ClientNext, ClientCalls,
       ServerRuns, Deliver, Process, Respond, Abandon, Background, allVars,
       clientVars
<1>2. LinkInv /\ [ClientNext]_allVars =>
        [\A c \in Conns :
           (cpc[c] = "ready" /\ cpc'[c] = "wait" /\ call'[c] = "authen")
               => sent'[c] = 1]_clientVars
  BY <1>1
<1>. QED BY <1>2, LinkHolds, PTL DEF ClientSpec, StartIsFirst

-----------------------------------------------------------------------------
(* Clients that do not share session ids *)

\* What the client may conclude about the registry.
AgreesAt(c) ==
    LET id == ClientId(c)
        last == sessions[id].lastOutboundSeq
    IN /\ cpc[c] = "prompt" /\ Registered(id) => last = NextByte(sent[c])
       /\ \A r \in Reply : toClient[c] = <<r>> /\ r.type = "authen" =>
            /\ r.status \in TerminalStatus => ~Registered(id)
            /\ r.status \notin TerminalStatus /\ Registered(id) => last = r.seq
       /\ (cpc[c] = "ready" /\ call[c] = "authen" /\ result[c].type = "authen"
             /\ result[c].status \in {"PASS", "ERROR"}) => ~Registered(id)

RegistryAgrees == \A c \in Conns : AgreesAt(c)

\* The registry expects p, if it is a CONTINUE.
Expects(p) ==
    p.type = "authen" /\ p.seq # 1 /\ Registered(p.id) =>
        ValidateNextSeqNo(p.seq, sessions[p.id].lastOutboundSeq)

InOrderAt(c) ==
    /\ \A p \in Packets(c) : toServer[c] = <<p>> => Expects(p)
    /\ pc[c] = "handle" => Expects(req[c])
    /\ pc[c] # "reject"

InOrder == \A c \in Conns : InOrderAt(c)

-----------------------------------------------------------------------------
(* Clients that do not share session ids. *)

\* A packet in hand is the client's own, and for its session.
LEMMA ServedFacts ==
    ASSUME Inv, LinkInv, NEW c \in Conns, pc[c] \in InHand
    PROVE  /\ Served(c)
           /\ cpc[c] \notin {"none", "ready", "prompt"}
           /\ req[c] \in Packets(c)
           /\ req[c].id = ClientId(c)
<1>1. Served(c) /\ ~Idle(c)
  BY DEF LinkInv, LinkAt, Idle, Asked, Served, Answered
<1>. QED BY Zenon, <1>1 DEF LinkInv, LinkAt, Inv, ControlInv, Served, Mine

\* A step of c's two ends leaves the registry alone, or is the handling of a
\* packet and touches no entry but the packet's.
LEMMA OwnEntryOnly ==
    ASSUME Inv, LinkInv, NEW c \in Conns, ConnStep(c)
    PROVE  \/ UNCHANGED sessions
           \/ /\ Process(c) /\ pc[c] \in InHand
              /\ DOMAIN sessions' \subseteq DOMAIN sessions \cup {ClientId(c)}
              /\ \A x \in DOMAIN sessions' :
                   x # ClientId(c) => sessions'[x] = sessions[x]
<1>0. RegistryInv
  BY DEF Inv, TypeOK, RegistryInv
<1>1. ASSUME pc[c] \in InHand
      PROVE  /\ req[c].id = ClientId(c) /\ ClientId(c) \in SessionIDs
             /\ req[c] \in Packets(c) /\ req[c].seq \in SeqNo
  BY <1>1, ServedFacts, PacketsType, ClientIdType
<1>2. CASE StartAuthen(c) /\ Process(c)
  <2>1. CASE req[c].body = "undecodable"
    BY <1>2, <2>1 DEF StartAuthen
  <2>2. CASE req[c].body # "undecodable"
    <3>1. /\ pc[c] \in InHand /\ Set(req[c].id, req[c].body)
          /\ req[c].type = "authen" /\ req[c].seq = 1
      BY <1>2, <2>2 DEF StartAuthen, InHand
    <3>2. req[c].body \in Starts
      BY <1>1, <2>2, <3>1, PacketsType
    <3>. QED BY Zenon, <1>0, <1>1, <1>2, <3>1, <3>2, SetPreserves
  <2>. QED BY <2>1, <2>2
<1>3. CASE pc[c] \in InHand /\ Delete(req[c].id) /\ Process(c)
  BY Zenon, <1>0, <1>1, <1>3, DeletePreserves
<1>4. CASE AuthenDecide(c) /\ Process(c)
  <2>1. pc[c] \in InHand /\ req[c].seq % 2 = 1
    BY <1>4 DEF AuthenDecide, InHand, Inv, ControlInv
  <2>2. CASE Update(req[c].id, NextByte(req[c].seq))
    <3>1. NextByte(req[c].seq) \in SeqNo /\ NextByte(req[c].seq) % 2 = 0
      BY <1>1, <2>1, NextByteFacts
    <3>. QED BY <1>0, <1>1, <1>4, <2>1, <2>2, <3>1, UpdatePreserves
  <2>. QED BY Zenon, <1>3, <1>4, <2>1, <2>2 DEF AuthenDecide
<1>5. CASE Process(c)
  BY Zenon, <1>2, <1>3, <1>4, <1>5
     DEF Process, RejectSeq, AuthenFail, ContinueAuthen,
     AuthenPanic, HandleAuthor, HandleAcct, HandleStateless, HandleUnknown,
     InHand
<1>6. CASE ConnStep(c) /\ ~Process(c)
  BY Zenon, <1>6
     DEF ConnStep, Dial, ClientCalls, Authenticate, Authorize, Account,
     OutOfSeqNos, Receive, Answer, GiveUp, ReadError, HangUp, ServerRuns,
     Deliver, ReadPacket, Respond, WriteReply, Abandon, EndConn, AcceptConn,
     vars
<1>. QED BY <1>5, <1>6

\* What other connections, the clock, the sweeper and Close do to client d:
\* nothing on its connection, and its session is left alone, removed or aged.
Undisturbed(d) == SameEnds(d) /\ Aged(IdsOf[d])

LEMMA OthersUndisturbed ==
    ASSUME DisjointClients, Inv, LinkInv, NEW c \in Conns, ConnStep(c),
           NEW d \in Conns \ {c}
    PROVE  Undisturbed(d)
<1>1. ClientId(c) \notin IdsOf[d]
  BY ClientIdType DEF DisjointClients
<1>2. Aged(IdsOf[d])
  BY <1>1, OwnEntryOnly DEF Aged, Registered
<1>. QED BY <1>2, ConnLink DEF Undisturbed

LEMMA BackgroundUndisturbed ==
    ASSUME Inv, LinkInv, Background \/ UNCHANGED allVars, NEW d \in Conns
    PROVE  Undisturbed(d)
<1>0. RegistryInv
  BY DEF Inv, TypeOK, RegistryInv
<1>1. Aged(SessionIDs)
  <2>1. CASE Tick
    BY <1>0, <2>1, AgePreserves DEF Tick, Aged, Registered
  <2>2. CASE Sweep
    BY <1>0, <2>2, SweepPreserves DEF Sweep, Aged, Registered
  <2>3. CASE Close \/ UNCHANGED allVars
    BY <2>3 DEF Close, allVars, vars, Aged, Registered
  <2>. QED BY <2>1, <2>2, <2>3 DEF Background
<1>2. Aged(IdsOf[d])
  BY <1>1, ServerAssumption DEF Aged
<1>. QED BY <1>2, BackgroundLink DEF Undisturbed

\* A client whose connection is left alone may still conclude the same: the
\* registry can only forget.
LEMMA UndisturbedAgrees ==
    ASSUME NEW d \in Conns, Undisturbed(d), AgreesAt(d)
    PROVE  AgreesAt(d)'
<1>1. ClientId(d) \in IdsOf[d]
  BY ClientIdType
<1>2. Registered(ClientId(d))' =>
        /\ Registered(ClientId(d))
        /\ sessions'[ClientId(d)].lastOutboundSeq
              = sessions[ClientId(d)].lastOutboundSeq
  BY <1>1 DEF Undisturbed, Aged
<1>. QED BY Zenon, <1>2 DEF AgreesAt, Undisturbed, SameEnds

\* A client that does not prompt, has no reply on its way and was given no
\* authentication reply concludes nothing.
LEMMA QuietAgrees ==
    ASSUME NEW c \in Conns, cpc'[c] # "prompt", toClient'[c] = <<>>,
           cpc'[c] # "ready" \/ result'[c].type # "authen"
    PROVE  AgreesAt(c)'
<1>1. \A r : <<r>> # <<>>
  BY One
<1>. QED BY <1>1 DEF AgreesAt

\* What the client concludes from a reply it has just read.
LEMMA ReceiveAgrees ==
    ASSUME Inv, LinkInv, NEW c \in Conns, Receive(c), AgreesAt(c)
    PROVE  AgreesAt(c)'
<1>1. PICK r \in Reply : toClient[c] = <<r>> /\ Answers(c, r)
  BY DEF Receive, LinkInv, LinkAt, Idle, Asked, Served, Answered
<1>2. /\ Head(toClient[c]) = r /\ Tail(toClient[c]) = <<>>
      /\ \A x : <<x>> # <<>>
  BY <1>1, One
<1>3. toClient'[c] = <<>> /\ UNCHANGED <<sessions, call, sent>>
  BY <1>2 DEF Receive, LinkInv, ClientTypeInv, vars
<1>4. r.type = "authen" =>
        /\ r.status \in TerminalStatus => ~Registered(ClientId(c))
        /\ r.status \notin TerminalStatus /\ Registered(ClientId(c)) =>
             sessions[ClientId(c)].lastOutboundSeq = NextByte(sent[c])
  BY <1>1 DEF AgreesAt, Answers
<1>5. CASE Return(c, Error)
  <2>1. cpc'[c] = "ready" /\ result'[c] = Error
    BY <1>5 DEF Return, LinkInv, ClientTypeInv
  <2>2. Error.type # "authen"
    BY DEF Error
  <2>. QED BY <1>3, <2>1, <2>2, QuietAgrees
<1>6. CASE call[c] # "authen" /\ Return(c, r)
  BY Zenon, <1>2, <1>3, <1>6 DEF AgreesAt, Return, LinkInv, ClientTypeInv
<1>7. CASE /\ r.type # "generic" /\ call[c] = "authen"
           /\ Return(c, [r EXCEPT !.status = NormalizeAuthenStatus(r.status)])
  <2>1. r \in [type : {"authen"}, seq : SeqNo, status : AuthenStatus]
    BY <1>1, <1>7 DEF Answers, Reply
  <2>2. PICK n : n = NormalizeAuthenStatus(r.status)
    OBVIOUS
  <2>3. cpc'[c] = "ready" /\ result'[c].status = n
    BY <1>7, <2>1, <2>2 DEF Return, LinkInv, ClientTypeInv
  <2>4. n \in {"PASS", "ERROR"} => r.status \in TerminalStatus
    BY <2>2 DEF NormalizeAuthenStatus, TerminalStatus
  <2>. QED BY Zenon, <1>2, <1>3, <1>4, <2>1, <2>3, <2>4 DEF AgreesAt, Registered
<1>8. CASE /\ r.type # "generic" /\ call[c] = "authen"
           /\ ~IsTerminal(NormalizeAuthenStatus(r.status))
           /\ cpc' = [cpc EXCEPT ![c] = "prompt"]
  <2>1. r.type = "authen" /\ r.status \notin TerminalStatus
    BY <1>1, <1>8
       DEF Answers, IsTerminal, NormalizeAuthenStatus, TerminalStatus
  <2>2. cpc'[c] = "prompt"
    BY <1>8 DEF LinkInv, ClientTypeInv
  <2>. QED BY <1>2, <1>3, <1>4, <2>1, <2>2 DEF AgreesAt, Registered
<1>. QED BY <1>2, <1>5, <1>6, <1>7, <1>8 DEF Receive

\* A step of c's two ends leaves the client with the right conclusions.
LEMMA ConnAgrees ==
    ASSUME Inv, LinkInv, OwnInv, NEW c \in Conns, ConnStep(c), AgreesAt(c)
    PROVE  AgreesAt(c)'
<1>0. NoResult.type # "authen" /\ Error.type # "authen"
  BY DEF NoResult, Error
<1>1. CASE Dial(c)
  <2>1. /\ cpc'[c] = "ready" /\ result'[c] = NoResult /\ toClient'[c] = <<>>
    BY Zenon, <1>1 DEF Dial, LinkInv, ClientTypeInv, LinkAt, Idle
  <2>. QED BY <1>0, <2>1, QuietAgrees
<1>2. CASE \/ Authenticate(c) \/ Authorize(c) \/ Account(c) \/ Answer(c)
  <2>1. cpc'[c] = "wait" /\ toClient'[c] = toClient[c]
    BY Zenon, <1>2 DEF Authenticate, Authorize, Account, Answer, Send, LinkInv,
       ClientTypeInv
  <2>2. toClient[c] = <<>>
    BY <1>2 DEF Authenticate, Authorize, Account, Answer, LinkInv, LinkAt, Idle
  <2>. QED BY <2>1, <2>2, QuietAgrees
<1>3. CASE OutOfSeqNos(c) \/ GiveUp(c)
  <2>1. /\ cpc'[c] = "ready" /\ result'[c] = Error
        /\ toClient'[c] = <<>>
    BY Zenon, <1>3 DEF OutOfSeqNos, GiveUp, Return, LinkInv, ClientTypeInv, LinkAt,
       Idle
  <2>. QED BY <1>0, <2>1, QuietAgrees
<1>4. CASE Receive(c)
  BY <1>4, ReceiveAgrees
<1>5. CASE ReadError(c) \/ HangUp(c)
  <2>1. /\ cpc'[c] \notin {"ready", "prompt"}
        /\ toClient'[c] \in {toClient[c], <<>>}
        /\ UNCHANGED sessions
    BY <1>5 DEF ReadError, HangUp, LinkInv, ClientTypeInv, vars
  <2>2. CASE toClient'[c] = <<>>
    BY <2>1, <2>2, QuietAgrees
  <2>3. CASE toClient'[c] = toClient[c]
    BY <2>1, <2>3 DEF AgreesAt, Registered
  <2>. QED BY <2>1, <2>2, <2>3
<1>6. CASE Deliver(c) \/ Abandon(c)
  <2>1. UNCHANGED <<cpc, call, sent, result, toClient, sessions>>
    BY <1>6 DEF Deliver, ReadPacket, Abandon, EndConn, clientVars
  <2>. QED BY <2>1 DEF AgreesAt, Registered
<1>7. CASE Process(c)
  <2>1. Served(c) /\ cpc[c] \notin {"none", "ready", "prompt"}
    BY <1>7, ProcessReplies, ServedFacts
  <2>2. cpc'[c] \notin {"ready", "prompt"} /\ toClient'[c] = <<>>
    BY <1>7, <2>1 DEF Process, Served, clientVars
  <2>. QED BY <2>2, QuietAgrees
<1>8. CASE Respond(c)
  <2>1. pc[c] \in InHand
    BY <1>8 DEF Respond, WriteReply, InHand
  <2>2. /\ Served(c) /\ cpc[c] \notin {"ready", "prompt"}
        /\ req[c].id = ClientId(c)
    BY <2>1, ServedFacts
  <2>3. PICK r : r = reply[c]
    OBVIOUS
  <2>4. /\ UNCHANGED <<cpc, call, sent, result, sessions>>
        /\ toClient'[c] \in {<<>>, <<r>>}
    <3>1. UNCHANGED <<cpc, call, sent, result, sessions>>
      BY <1>8 DEF Respond, WriteReply, clientVars
    <3>2. toClient[c] = <<>> /\ Append(<<>>, r) = <<r>>
      BY <2>2, One DEF Served
    <3>3. \/ UNCHANGED toClient
          \/ toClient' = [toClient EXCEPT ![c] = <<r>>]
      BY <1>8, <2>3, <3>2 DEF Respond
    <3>. QED BY <3>1, <3>2, <3>3 DEF LinkInv, ClientTypeInv
  <2>5. r.type = "authen" =>
          /\ r.status \in TerminalStatus => ~Registered(ClientId(c))
          /\ r.status \notin TerminalStatus /\ Registered(ClientId(c)) =>
               sessions[ClientId(c)].lastOutboundSeq = r.seq
    BY Zenon, <2>2, <2>3 DEF OwnInv, OwnAt
  <2>6. \A q : toClient'[c] = <<q>> => q = r
    BY <2>4, One
  <2>. QED BY Zenon, <2>2, <2>4, <2>5, <2>6 DEF AgreesAt, Registered
<1>. QED
  BY <1>1, <1>2, <1>3, <1>4, <1>5, <1>6, <1>7, <1>8
     DEF ConnStep, ClientCalls, ServerRuns

\* Every step keeps what clients may conclude true.
LEMMA NextAgrees ==
    ASSUME DisjointClients, Inv, LinkInv, OwnInv, RegistryAgrees,
           [ClientNext]_allVars
    PROVE  RegistryAgrees'
<1>1. ASSUME NEW c \in Conns, ConnStep(c), NEW d \in Conns PROVE AgreesAt(d)'
  <2>1. CASE d = c
    BY <1>1, <2>1, ConnAgrees DEF RegistryAgrees
  <2>2. CASE d # c
    BY <1>1, <2>2, OthersUndisturbed, UndisturbedAgrees DEF RegistryAgrees
  <2>. QED BY <2>1, <2>2
<1>2. ASSUME Background \/ UNCHANGED allVars, NEW d \in Conns
      PROVE  AgreesAt(d)'
  BY <1>2, BackgroundUndisturbed, UndisturbedAgrees DEF RegistryAgrees
<1>. QED BY <1>1, <1>2 DEF ClientNext, ConnStep, RegistryAgrees

\* Clients with session ids of their own may rely on the registry.
THEOREM AgreementHolds ==
    ASSUME DisjointClients PROVE ClientSpec => []RegistryAgrees
<1>1. ClientInit => RegistryAgrees
  <2>1. \A r : <<r>> # <<>>
    BY One
  <2>. QED BY <2>1 DEF ClientInit, RegistryAgrees, AgreesAt
<1>2. ClientSpec => []OwnInv
  BY ClientImplementsServerClients, OwnHolds, PTL
<1>3. /\ Inv /\ LinkInv /\ OwnInv /\ RegistryAgrees /\ [ClientNext]_allVars
        => RegistryAgrees'
  BY NextAgrees
<1>. QED BY <1>1, <1>2, <1>3, LinkHolds, PTL DEF ClientSpec

\* A seq_no two past the client's last is the one expected after the reply to
\* that, unless it does not fit in the byte.
LEMMA AnswerSeq ==
    ASSUME NEW n \in SeqNo, n # 0, n + 2 <= MaxSeqNo
    PROVE  ValidateNextSeqNo(n + 2, NextByte(n))
BY SessionsAssumption DEF SeqNo, MaxSeqNo, ValidateNextSeqNo, NextByte

\* For clients that do not share session ids, the client's Session and the
\* server's registry, which count separately, agree on the seq_no of the
\* answer to a prompt unless the session expired (NextSeq,
\* ValidateNextSeqNo).
THEOREM AnswersExpected ==
    ASSUME DisjointClients PROVE ClientSpec => []AnswerExpected
<1>1. LinkInv /\ RegistryAgrees => AnswerExpected
  <2>. SUFFICES ASSUME LinkInv, RegistryAgrees, NEW c \in Conns,
                       cpc[c] = "prompt", Registered(ClientId(c)),
                       nextSeq[c] <= MaxSeqNo
                PROVE  ValidateNextSeqNo(nextSeq[c],
                                         sessions[ClientId(c)].lastOutboundSeq)
    BY DEF AnswerExpected
  <2>1. sent[c] \in SeqNo /\ sent[c] # 0 /\ nextSeq[c] = sent[c] + 2
    BY Zenon DEF LinkInv, LinkAt, ClientTypeInv
  <2>2. sessions[ClientId(c)].lastOutboundSeq = NextByte(sent[c])
    BY DEF RegistryAgrees, AgreesAt
  <2>. QED BY <2>1, <2>2, AnswerSeq
<1>. QED BY <1>1, LinkHolds, AgreementHolds, PTL

\* For clients that do not share session ids, a PASS or ERROR verdict means
\* that the server has forgotten the session (Delete in handleAuthen).
THEOREM VerdictsFinal ==
    ASSUME DisjointClients PROVE ClientSpec => []VerdictEndsSession
<1>1. RegistryAgrees => VerdictEndsSession
  BY DEF RegistryAgrees, AgreesAt, VerdictEndsSession
<1>. QED BY <1>1, AgreementHolds, PTL

-----------------------------------------------------------------------------
(* Clients that also log in at most once, and first. *)

\* The registry expects no less of a connection that is left alone.
LEMMA UndisturbedInOrder ==
    ASSUME Inv, NEW d \in Conns, Undisturbed(d), InOrderAt(d)
    PROVE  InOrderAt(d)'
<1>1. ASSUME NEW p \in Packets(d), Expects(p) PROVE Expects(p)'
  <2>1. p.id \in IdsOf[d]
    BY PacketsType
  <2>. QED BY <1>1, <2>1 DEF Expects, Undisturbed, Aged
<1>2. \A p \in Packets(d) : toServer'[d] = <<p>> => Expects(p)'
  BY <1>1 DEF InOrderAt, Undisturbed, SameEnds
<1>3. pc'[d] = "handle" => Expects(req[d])'
  <2>1. SUFFICES ASSUME pc[d] = "handle" PROVE Expects(req[d])'
    BY Zenon DEF Undisturbed, SameEnds
  <2>2. PICK p : p = req[d]
    OBVIOUS
  <2>3. p \in Packets(d) /\ Expects(p)
    BY <2>1, <2>2 DEF Inv, ControlInv, InHand, InOrderAt
  <2>4. Expects(p)' /\ req'[d] = p
    BY <1>1, <2>2, <2>3 DEF Undisturbed, SameEnds
  <2>. QED BY <2>4 DEF Expects
<1>. QED BY <1>2, <1>3 DEF InOrderAt, Undisturbed, SameEnds

\* A connection whose packet is handled or not yet there is in order.
LEMMA QuietInOrder ==
    ASSUME NEW c \in Conns, toServer'[c] = <<>>,
           pc'[c] \notin {"handle", "reject"}
    PROVE  InOrderAt(c)'
<1>1. \A p : <<p>> # <<>>
  BY One
<1>. QED BY <1>1 DEF InOrderAt

\* A packet sent is in order if the registry expects it.
LEMMA SendInOrder ==
    ASSUME LinkInv, NEW c \in Conns, cpc[c] \in {"ready", "prompt"},
           NEW type, NEW body, Send(c, type, body), UNCHANGED vars,
           (type = "authen" /\ nextSeq[c] # 1 /\ Registered(ClientId(c))) =>
              ValidateNextSeqNo(nextSeq[c],
                                sessions[ClientId(c)].lastOutboundSeq)
    PROVE  InOrderAt(c)'
<1>1. Idle(c)
  BY Zenon DEF LinkInv, LinkAt
<1>2. PICK q : q = [type |-> type, id |-> ClientId(c), seq |-> nextSeq[c],
                    flags |-> ClientFlags(c), body |-> body]
  BY Zenon
<1>3. toServer'[c] = <<q>>
  BY <1>1, <1>2, One DEF Send, Idle, LinkInv, ClientTypeInv
<1>4. Expects(q)'
  BY Zenon, <1>2 DEF Expects, Registered, vars
<1>5. \A p : toServer'[c] = <<p>> => p = q
  BY <1>3, One
<1>. QED BY Zenon, <1>1, <1>4, <1>5 DEF InOrderAt, Idle, InHand, vars

\* A step of c's two ends keeps its packets in order.
LEMMA ConnInOrder ==
    ASSUME AuthenOnce, Inv, LinkInv, RegistryAgrees, NEW c \in Conns,
           ConnStep(c), InOrderAt(c)
    PROVE  InOrderAt(c)'
<1>1. CASE Authenticate(c)
  <2>1. nextSeq[c] = 1
    BY <1>1 DEF Authenticate, LinkInv, LinkAt
  <2>. QED BY <1>1, <2>1, SendInOrder DEF Authenticate
<1>2. CASE Authorize(c) \/ Account(c)
  BY Zenon, <1>2, SendInOrder DEF Authorize, Account
<1>3. CASE Answer(c)
  <2>1. sent[c] \in SeqNo /\ sent[c] # 0 /\ nextSeq[c] = sent[c] + 2
    BY Zenon, <1>3 DEF Answer, LinkInv, LinkAt, ClientTypeInv
  <2>2. Registered(ClientId(c)) =>
          sessions[ClientId(c)].lastOutboundSeq = NextByte(sent[c])
    BY <1>3 DEF Answer, RegistryAgrees, AgreesAt
  <2>3. Registered(ClientId(c)) =>
          ValidateNextSeqNo(nextSeq[c], sessions[ClientId(c)].lastOutboundSeq)
    BY <1>3, <2>1, <2>2, AnswerSeq DEF Answer, Send, NextSeq
  <2>. QED BY Zenon, <1>3, <2>3, SendInOrder DEF Answer
<1>4. CASE \/ OutOfSeqNos(c) \/ GiveUp(c) \/ Receive(c)
           \/ ReadError(c) \/ HangUp(c)
  <2>1. UNCHANGED <<vars, toServer>>
    BY <1>4 DEF OutOfSeqNos, GiveUp, Receive, ReadError, HangUp
  <2>. QED BY Zenon, <2>1 DEF InOrderAt, Expects, Registered, vars
<1>5. CASE Dial(c)
  BY Zenon, <1>5, QuietInOrder
     DEF Dial, AcceptConn, LinkInv, LinkAt, Idle, Inv, TypeOK
<1>6. CASE Abandon(c)
  <2>1. UNCHANGED <<sessions, toServer>> /\ pc'[c] = "none"
    BY <1>6 DEF Abandon, EndConn, Inv, TypeOK
  <2>. QED BY Zenon, <2>1 DEF InOrderAt, Expects, Registered
<1>7. CASE Deliver(c)
  <2>1. PICK p \in Packets(c) : toServer[c] = <<p>>
    BY Zenon, <1>7 DEF Deliver, LinkInv, LinkAt, Idle, Asked, Served, Answered
  <2>2. /\ Head(toServer[c]) = p /\ Tail(toServer[c]) = <<>>
        /\ \A x : <<x>> # <<>>
    BY Zenon, <2>1, One
  <2>3. /\ req'[c] = p /\ toServer'[c] = <<>> /\ pc'[c] # "reject"
        /\ UNCHANGED sessions
    BY Zenon, <1>7, <2>2
       DEF Deliver, ReadPacket, Write, Inv, TypeOK, LinkInv, ClientTypeInv
  <2>4. Expects(p)
    BY <2>1 DEF InOrderAt
  <2>. QED BY Zenon, <2>2, <2>3, <2>4 DEF InOrderAt, Expects, Registered
<1>8. CASE Process(c)
  <2>1. Served(c) /\ UNCHANGED toServer /\ pc[c] # "reject"
    BY Zenon, <1>8, ProcessReplies, ServedFacts DEF Process, InOrderAt
  <2>2. pc'[c] \in {"write", "authen"}
    <3>1. ASSUME NEW r, Write(c, r) PROVE pc'[c] = "write"
      BY <3>1 DEF Write, Inv, TypeOK
    <3>2. CASE StartAuthen(c)
      BY <3>1, <3>2 DEF StartAuthen, Inv, TypeOK
    <3>3. CASE ContinueAuthen(c)
      <4>1. Expects(req[c])
        BY Zenon, <3>3 DEF ContinueAuthen, InOrderAt
      <4>2. Registered(req[c].id) =>
              ValidateNextSeqNo(req[c].seq,
                                sessions[req[c].id].lastOutboundSeq)
        BY Zenon, <3>3, <4>1 DEF ContinueAuthen, Expects
      <4>. QED BY Zenon, <3>1, <3>3, <4>2 DEF ContinueAuthen, Inv, TypeOK
    <3>. QED

        BY Zenon, <1>8, <2>1, <3>1, <3>2, <3>3
           DEF Process, RejectSeq, AuthenDecide,
         AuthenFail, AuthenPanic, HandleAuthor, HandleAcct, HandleStateless,
         HandleUnknown
  <2>. QED BY <2>1, <2>2, QuietInOrder DEF Served
<1>9. CASE Respond(c)
  <2>1. pc[c] \in InHand /\ pc'[c] \in {"read", "none"} /\ UNCHANGED toServer
    BY <1>9 DEF Respond, WriteReply, InHand, Inv, TypeOK
  <2>. QED BY Zenon, <2>1, ServedFacts, QuietInOrder DEF Served
<1>. QED
  BY <1>1, <1>2, <1>3, <1>4, <1>5, <1>6, <1>7, <1>8, <1>9
     DEF ConnStep, ClientCalls, ServerRuns

\* Every step keeps the packets of every client in order.
LEMMA NextInOrder ==
    ASSUME DisjointClients, AuthenOnce, Inv, LinkInv, RegistryAgrees, InOrder,
           [ClientNext]_allVars
    PROVE  InOrder'
<1>1. ASSUME NEW c \in Conns, ConnStep(c), NEW d \in Conns PROVE InOrderAt(d)'
  <2>1. CASE d = c
    BY <1>1, <2>1, ConnInOrder DEF InOrder
  <2>2. CASE d # c
    BY <1>1, <2>2, OthersUndisturbed, UndisturbedInOrder DEF InOrder
  <2>. QED BY <2>1, <2>2
<1>2. ASSUME Background \/ UNCHANGED allVars, NEW d \in Conns
      PROVE  InOrderAt(d)'
  BY <1>2, BackgroundUndisturbed, UndisturbedInOrder DEF InOrder
<1>. QED BY <1>1, <1>2 DEF ClientNext, ConnStep, InOrder

\* The repository's client, logging in once and sharing no session id, is
\* never taken for a misbehaving peer: no packet of it is refused for its
\* seq_no or its flags, however sessions expire, Handlers panic and
\* connections break meanwhile (RejectSeq, checkFlags, ServeConn).
THEOREM ClientsKeepRules ==
    ASSUME DisjointClients, AuthenOnce
    PROVE  ClientSpec => []ClientKeepsRules
<1>1. ClientInit => InOrder
  <2>1. \A p : <<p>> # <<>>
    BY One
  <2>. QED BY <2>1 DEF ClientInit, Init, InOrder, InOrderAt
<1>2. Inv /\ LinkInv /\ RegistryAgrees /\ InOrder /\ [ClientNext]_allVars
        => InOrder'
  BY NextInOrder
<1>3. LinkInv /\ InOrder => ClientKeepsRules
  <2>. SUFFICES ASSUME LinkInv, InOrder, NEW c \in Conns
                PROVE  /\ pc[c] # "reject"
                       /\ pc[c] = "read" /\ toServer[c] # <<>> =>
                            LET flags == Head(toServer[c]).flags IN
                            /\ CheckFlags(mode[c], flags)
                            /\ first[c] \/ flags = connFlags[c]
    BY DEF ClientKeepsRules
  <2>1. pc[c] # "reject"
    BY DEF InOrder, InOrderAt
  <2>2. ASSUME pc[c] = "read", toServer[c] # <<>>
        PROVE  /\ Head(toServer[c]).flags = ClientFlags(c)
               /\ first[c] \/ connFlags[c] = ClientFlags(c)
    <3>1. PICK p \in Packets(c) : toServer[c] = <<p>> /\ Mine(c, p)
      BY Zenon, <2>2 DEF LinkInv, LinkAt, Idle, Asked, Served, Answered
    <3>2. first[c] \/ connFlags[c] = ClientFlags(c)
      BY Zenon, <2>2 DEF LinkInv, LinkAt
    <3>. QED BY <3>1, <3>2, One DEF Mine
  <2>. QED BY Zenon, <2>1, <2>2, ClientFlagsPass
<1>. QED BY <1>1, <1>2, <1>3, LinkHolds, AgreementHolds, PTL DEF ClientSpec

\* With clients that share no session id, the whole system, the repository's
\* client included, implements the turn-taking session protocol.
THEOREM ClientImplementsSessionProtocol ==
    ASSUME DisjointClients PROVE ClientSpec => ImplementsSessionProtocol
BY ClientImplementsServerClients, ServerImplementsSessionProtocol, PTL
=============================================================================
