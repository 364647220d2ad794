--------------------------- MODULE DisjointProofs ---------------------------
(***************************************************************************)
(* What Server.tla guarantees each client when clients do not share        *)
(* session ids (DisjointClients), for every value of the constants.        *)
(*                                                                         *)
(* OwnAt(d) is the invariant from the point of view of connection d.  A    *)
(* step of another goroutine, the sweeper or the clock leaves d's          *)
(* variables alone and does nothing to d's sessions but remove them or let *)
(* them age (Frame), which preserves OwnAt(d).  What remains is one proof  *)
(* per action for the connection that takes it.  From the same invariant   *)
(* the server is shown to implement SessionProtocol.tla.                   *)
(***************************************************************************)
EXTENDS ServerProofs, ServerRefinement

OwnAt(d) ==
    /\ \A id \in IdsOf[d] :
         Registered(id) => sessions[id].start = latest[d][id]
    /\ pc[d] = "authen" => start[d] = latest[d][req[d].id]
    /\ (pc[d] = "authen" /\ Registered(req[d].id))
         => NextByte(sessions[req[d].id].lastOutboundSeq) = req[d].seq
    /\ (reply[d].type = "authen" /\ reply[d].status \in TerminalStatus)
         => ~Registered(req[d].id)
    /\ (reply[d].type = "authen" /\ reply[d].status \notin TerminalStatus
          /\ Registered(req[d].id))
         => sessions[req[d].id].lastOutboundSeq = reply[d].seq

OwnInv == \A d \in Conns : OwnAt(d)

\* The sessions in S are left alone, removed or aged.
Aged(S) ==
    \A id \in S :
        Registered(id)' =>
            /\ Registered(id)
            /\ sessions'[id].start = sessions[id].start
            /\ sessions'[id].lastOutboundSeq = sessions[id].lastOutboundSeq

Frame(d) ==
    /\ pc'[d] = pc[d]
    /\ req'[d] = req[d]
    /\ reply'[d] = reply[d]
    /\ start'[d] = start[d]
    /\ latest'[d] = latest[d]
    /\ Aged(IdsOf[d])

\* Steps that leave a connection and its sessions alone keep its invariant.
LEMMA FrameKeeps ==
    ASSUME Inv, NEW d \in Conns, OwnAt(d), Frame(d)
    PROVE  OwnAt(d)'
<1>1. pc[d] = "authen" \/ reply[d].type = "authen" => req[d].id \in IdsOf[d]
  <2>1. pc[d] \in InHand => req[d].id \in IdsOf[d]
    BY PacketsType DEF Inv, ControlInv
  <2>2. reply[d].type = "authen" => pc[d] = "write"
    BY DEF Inv, ControlInv, NoReply
  <2>. QED BY <2>1, <2>2 DEF InHand
<1>2. /\ \A id \in IdsOf[d] : Registered(id)' => sessions'[id].start = latest'[d][id]
      /\ pc'[d] = "authen" => start'[d] = latest'[d][req'[d].id]
  BY DEF OwnAt, Frame, Aged
<1>3. (pc'[d] = "authen" /\ Registered(req[d].id)')
         => NextByte(sessions'[req[d].id].lastOutboundSeq) = req[d].seq
  BY <1>1 DEF OwnAt, Frame, Aged
<1>4. (reply'[d].type = "authen" /\ reply'[d].status \in TerminalStatus)
         => ~Registered(req[d].id)'
  BY <1>1 DEF OwnAt, Frame, Aged
<1>5. (reply'[d].type = "authen" /\ reply'[d].status \notin TerminalStatus
          /\ Registered(req[d].id)')
         => sessions'[req[d].id].lastOutboundSeq = reply'[d].seq
  BY <1>1 DEF OwnAt, Frame, Aged
<1>. QED BY <1>2, <1>3, <1>4, <1>5 DEF OwnAt, Frame, Registered

\* A step of connection c that touches at most one of its own sessions keeps
\* the invariant if it keeps c's part of it.
LEMMA StepKeeps ==
    ASSUME Inv, OwnInv, DisjointClients, NEW c \in Conns, NEW id \in IdsOf[c],
           \A d \in Conns : d # c =>
              /\ pc'[d] = pc[d]
              /\ req'[d] = req[d]
              /\ reply'[d] = reply[d]
              /\ start'[d] = start[d]
              /\ latest'[d] = latest[d],
           DOMAIN sessions' \subseteq DOMAIN sessions \cup {id},
           \A x \in DOMAIN sessions' : x # id => sessions'[x] = sessions[x],
           OwnAt(c)'
    PROVE  OwnInv'
<1>1. ASSUME NEW d \in Conns PROVE OwnAt(d)'
  <2>1. CASE d = c
    BY <2>1
  <2>2. CASE d # c
    <3>1. id \notin IdsOf[d]
      BY <2>2 DEF DisjointClients
    <3>2. Frame(d)
      BY <2>2, <3>1 DEF Frame, Aged, Registered
    <3>. QED BY <3>2, FrameKeeps DEF OwnInv
  <2>. QED BY <2>1, <2>2
<1>. QED BY <1>1 DEF OwnInv

\* The same for a step of connection c that leaves the registry alone.
LEMMA QuietKeeps ==
    ASSUME Inv, OwnInv, NEW c \in Conns,
           \A d \in Conns : d # c =>
              /\ pc'[d] = pc[d]
              /\ req'[d] = req[d]
              /\ reply'[d] = reply[d]
              /\ start'[d] = start[d]
              /\ latest'[d] = latest[d],
           UNCHANGED sessions,
           OwnAt(c)'
    PROVE  OwnInv'
<1>1. ASSUME NEW d \in Conns, d # c PROVE OwnAt(d)'
  <2>1. Frame(d)
    BY <1>1 DEF Frame, Aged, Registered
  <2>. QED BY <2>1, FrameKeeps DEF OwnInv
<1>. QED BY <1>1 DEF OwnInv

\* A connection that begins to write a reply other than an authentication
\* reply, the registry unchanged, keeps the invariant.
LEMMA QuietWriteKeeps ==
    ASSUME Inv, OwnInv, NEW c \in Conns, NEW r, r.type # "authen",
           Write(c, r), UNCHANGED <<sessions, req, start, latest>>
    PROVE  OwnInv'
<1>1. OwnAt(c)'
  BY DEF OwnInv, OwnAt, Inv, TypeOK, Write, Registered
<1>2. \A d \in Conns : d # c => pc'[d] = pc[d] /\ reply'[d] = reply[d]
  BY DEF Inv, TypeOK, Write
<1>. QED BY <1>1, <1>2, QuietKeeps

\* Initially no session is registered and nothing is in hand.
LEMMA InitOwn == Init => OwnInv
BY DEF Init, SessionsInit, OwnInv, OwnAt, Registered, NoReply

\* Every step keeps each client's sessions in order.
LEMMA NextOwn ==
    ASSUME DisjointClients, Inv, OwnInv, [Next]_vars
    PROVE  OwnInv'
<1>0. RegistryInv
  BY DEF Inv, TypeOK, RegistryInv
<1>1. ASSUME NEW c \in Conns, pc[c] \in InHand
      PROVE  /\ req[c].id \in IdsOf[c] /\ req[c].id \in SessionIDs
             /\ req[c].seq \in SeqNo
             /\ GenericReply(req[c]).type = "generic"
  <2>1. req[c] \in Packets(c)
    BY <1>1 DEF Inv, ControlInv
  <2>. QED BY <2>1, PacketsType, ReplyType
<1>2. ASSUME NEW c \in Conns, AcceptConn(c) \/ EndConn(c) PROVE OwnInv'
  <2>0. /\ pc'[c] # "authen"
        /\ UNCHANGED <<sessions, req, reply, start, latest>>
    BY <1>2 DEF AcceptConn, EndConn, Inv, TypeOK
  <2>1. OwnAt(c)'
    <3>1. OwnAt(c)
      BY DEF OwnInv
    <3>. QED BY <2>0, <3>1 DEF OwnAt, Registered
  <2>2. \A d \in Conns : d # c => pc'[d] = pc[d]
    BY <1>2 DEF AcceptConn, EndConn, Inv, TypeOK
  <2>. QED BY <1>2, <2>1, <2>2, QuietKeeps DEF AcceptConn, EndConn
<1>3. ASSUME NEW c \in Conns, NEW p \in Packets(c), ReadPacket(c, p)
      PROVE  OwnInv'
  <2>0. reply[c] = NoReply /\ GenericReply(p).type = "generic"
    BY <1>3, PacketsType, ReplyType DEF ReadPacket, Inv, ControlInv
  <2>1. /\ pc'[c] # "authen"
        /\ reply'[c].type # "authen"
        /\ \A d \in Conns : d # c => /\ pc'[d] = pc[d] /\ req'[d] = req[d]
                                     /\ reply'[d] = reply[d]
    BY <1>3, <2>0 DEF ReadPacket, Write, Inv, TypeOK, NoReply
  <2>2. OwnAt(c)'
    BY <1>3, <2>1 DEF ReadPacket, OwnInv, OwnAt, Registered
  <2>. QED BY <1>3, <2>1, <2>2, QuietKeeps DEF ReadPacket
<1>4. ASSUME NEW c \in Conns, StartAuthen(c) PROVE OwnInv'
  <2>1. pc[c] \in InHand /\ reply[c].type # "authen" /\ req[c].seq = 1
    BY <1>4 DEF StartAuthen, InHand, Inv, ControlInv, NoReply
  <2>2. CASE req[c].body = "undecodable"
    BY <1>1, <1>4, <2>1, <2>2, QuietWriteKeeps DEF StartAuthen
  <2>3. CASE req[c].body # "undecodable"
    <3>1. req[c].body \in Starts
      BY <1>4, <2>1, <2>3, PacketsType DEF StartAuthen, Inv, ControlInv
    <3>2. /\ Set(req[c].id, req[c].body)
          /\ start' = [start EXCEPT ![c] = req[c].body]
          /\ latest' = [latest EXCEPT ![c][req[c].id] = req[c].body]
          /\ pc' = [pc EXCEPT ![c] = "authen"]
          /\ UNCHANGED <<req, reply>>
      BY <1>4, <2>3 DEF StartAuthen
    <3>3. /\ DOMAIN sessions' = DOMAIN sessions \cup {req[c].id}
          /\ sessions'[req[c].id].start = req[c].body
          /\ \A x \in DOMAIN sessions : x # req[c].id => sessions'[x] = sessions[x]
      BY Zenon, <1>0, <1>1, <2>1, <3>1, <3>2, SetPreserves
    <3>4. NextByte(sessions'[req[c].id].lastOutboundSeq) = 1
      BY <3>2, SessionsAssumption DEF Set, NewContext, NextByte
    <3>5. /\ latest'[c][req[c].id] = req[c].body
          /\ \A x \in SessionIDs : x # req[c].id => latest'[c][x] = latest[c][x]
          /\ \A d \in Conns : d # c => latest'[d] = latest[d]
      <4>1. latest \in [Conns -> [SessionIDs -> Starts \cup {NoStart}]]
        BY DEF Inv, TypeOK
      <4>. QED BY <1>1, <2>1, <3>2, <4>1
    <3>6. /\ start'[c] = req[c].body
          /\ \A d \in Conns : d # c => start'[d] = start[d] /\ pc'[d] = pc[d]
      BY <3>2 DEF Inv, TypeOK
    <3>7. IdsOf[c] \subseteq SessionIDs
      BY ServerAssumption
    <3>8. OwnAt(c)'
      <4>1. \A x \in IdsOf[c] :
              Registered(x)' => sessions'[x].start = latest'[c][x]
        BY <3>3, <3>5, <3>7 DEF Registered, OwnInv, OwnAt
      <4>. QED
        BY <2>1, <3>2, <3>4, <3>5, <3>6, <4>1 DEF OwnAt, Registered
    <3>. QED
      BY <1>1, <2>1, <3>2, <3>3, <3>5, <3>6, <3>8, StepKeeps
  <2>. QED BY <2>2, <2>3
<1>5. ASSUME NEW c \in Conns, ContinueAuthen(c) PROVE OwnInv'
  <2>1. pc[c] \in InHand /\ reply[c].type # "authen"
    BY <1>5 DEF ContinueAuthen, InHand, Inv, ControlInv, NoReply
  <2>2. UNCHANGED <<sessions, req, latest>>
    BY <1>5 DEF ContinueAuthen
  <2>3. CASE Write(c, GenericReply(req[c])) /\ UNCHANGED start
    BY <1>1, <2>1, <2>2, <2>3, QuietWriteKeeps
  <2>4. CASE pc' = [pc EXCEPT ![c] = "reject"] /\ UNCHANGED <<start, reply>>
    <3>1. OwnAt(c)' /\ \A d \in Conns : d # c => pc'[d] = pc[d]
      BY <2>2, <2>4 DEF OwnInv, OwnAt, Inv, TypeOK, Registered
    <3>. QED BY <2>2, <2>4, <3>1, QuietKeeps
  <2>5. CASE /\ Registered(req[c].id)
             /\ ValidateNextSeqNo(req[c].seq,
                                  sessions[req[c].id].lastOutboundSeq)
             /\ start' = [start EXCEPT ![c] = sessions[req[c].id].start]
             /\ pc' = [pc EXCEPT ![c] = "authen"]
             /\ UNCHANGED reply
    <3>1. NextByte(sessions[req[c].id].lastOutboundSeq) = req[c].seq
      BY <2>5, SessionsAssumption DEF ValidateNextSeqNo, NextByte
    <3>2. sessions[req[c].id].start = latest[c][req[c].id]
      BY <1>1, <2>1, <2>5 DEF OwnInv, OwnAt
    <3>3. /\ start'[c] = sessions[req[c].id].start
          /\ \A d \in Conns : d # c => start'[d] = start[d] /\ pc'[d] = pc[d]
      BY <2>5 DEF Inv, TypeOK
    <3>4. OwnAt(c)'
      BY <2>1, <2>2, <2>5, <3>1, <3>2, <3>3 DEF OwnInv, OwnAt, Registered
    <3>. QED BY <2>2, <2>5, <3>3, <3>4, QuietKeeps
  <2>. QED BY <1>5, <2>3, <2>4, <2>5 DEF ContinueAuthen
<1>6. ASSUME NEW c \in Conns, pc[c] \in InHand, NEW r,
             Write(c, r), Delete(req[c].id),
             UNCHANGED <<req, start, latest>>
      PROVE  OwnInv'
  <2>1. /\ DOMAIN sessions' = DOMAIN sessions \ {req[c].id}
        /\ \A x \in DOMAIN sessions' : sessions'[x] = sessions[x]
    BY Zenon, <1>0, <1>1, <1>6, DeletePreserves
  <2>2. /\ pc'[c] = "write"
        /\ \A d \in Conns : d # c => pc'[d] = pc[d] /\ reply'[d] = reply[d]
    BY <1>6 DEF Write, Inv, TypeOK
  <2>3. OwnAt(c)'
    BY <1>6, <2>1, <2>2 DEF OwnInv, OwnAt, Registered
  <2>. QED BY <1>1, <1>6, <2>1, <2>2, <2>3, StepKeeps
<1>7. ASSUME NEW c \in Conns, RejectSeq(c) \/ AuthenFail(c) PROVE OwnInv'
  BY <1>6, <1>7 DEF RejectSeq, AuthenFail, InHand
<1>8. ASSUME NEW c \in Conns, AuthenDecide(c) PROVE OwnInv'
  <2>1. pc[c] \in InHand /\ pc[c] = "authen" /\ req[c].seq % 2 = 1
    BY <1>8 DEF AuthenDecide, InHand, Inv, ControlInv
  <2>2. PICK status \in Decisions, fits \in BOOLEAN :
          /\ IF status \in TerminalStatus
             THEN Delete(req[c].id)
             ELSE Update(req[c].id, NextByte(req[c].seq))
          /\ Write(c, IF fits THEN StatusReply(req[c], "authen", status)
                              ELSE GenericReply(req[c]))
    BY <1>8 DEF AuthenDecide
  <2>3. UNCHANGED <<req, start, latest>>
    BY <1>8 DEF AuthenDecide
  <2>4. CASE status \in TerminalStatus
    BY <1>6, <2>1, <2>2, <2>3, <2>4
  <2>5. CASE status \notin TerminalStatus
    <3>1. NextByte(req[c].seq) \in SeqNo /\ NextByte(req[c].seq) % 2 = 0
      BY <1>1, <2>1, NextByteFacts
    <3>2. /\ DOMAIN sessions' = DOMAIN sessions
          /\ Registered(req[c].id)
               => sessions'[req[c].id].lastOutboundSeq = NextByte(req[c].seq)
          /\ \A x \in DOMAIN sessions : sessions'[x].start = sessions[x].start
          /\ \A x \in DOMAIN sessions : x # req[c].id => sessions'[x] = sessions[x]
      BY <1>0, <1>1, <2>1, <2>2, <2>5, <3>1, UpdatePreserves DEF Registered
    <3>3. /\ pc'[c] = "write"
          /\ reply'[c].type = "authen" =>
                reply'[c] = StatusReply(req[c], "authen", status)
          /\ \A d \in Conns : d # c => pc'[d] = pc[d] /\ reply'[d] = reply[d]
      BY <1>1, <2>1, <2>2 DEF Write, Inv, TypeOK
    <3>4. reply'[c].type = "authen" => /\ reply'[c].status = status
                                       /\ reply'[c].seq = NextByte(req[c].seq)
      BY <3>3 DEF StatusReply
    <3>5. OwnAt(c)'
      BY <2>3, <2>5, <3>2, <3>3, <3>4 DEF OwnInv, OwnAt, Registered
    <3>. QED BY <1>1, <2>1, <2>3, <3>2, <3>3, <3>5, StepKeeps
  <2>. QED BY <2>4, <2>5
<1>9. ASSUME NEW c \in Conns, AuthenPanic(c) \/ HandleUnknown(c)
      PROVE  OwnInv'
  <2>1. pc[c] \in InHand
    BY <1>9 DEF AuthenPanic, HandleUnknown, InHand
  <2>. QED
    BY <1>1, <1>9, <2>1, QuietWriteKeeps DEF AuthenPanic, HandleUnknown
<1>10. ASSUME NEW c \in Conns, NEW type \in {"author", "acct"},
              HandleStateless(c, type)
       PROVE  OwnInv'
  <2>1. pc[c] \in InHand
    BY <1>10 DEF HandleStateless, InHand
  <2>2. \A st : StatusReply(req[c], type, st).type # "authen"
    BY DEF StatusReply
  <2>3. \E r : Write(c, r) /\ r.type # "authen"
    BY <1>1, <1>10, <2>1, <2>2 DEF HandleStateless
  <2>. QED BY <1>10, <2>3, QuietWriteKeeps DEF HandleStateless
<1>11. ASSUME NEW c \in Conns, WriteReply(c) PROVE OwnInv'
  <2>1. /\ pc'[c] # "authen"
        /\ reply'[c] = NoReply
        /\ \A d \in Conns : d # c => /\ pc'[d] = pc[d] /\ req'[d] = req[d]
                                     /\ reply'[d] = reply[d]
                                     /\ start'[d] = start[d]
    BY <1>11 DEF WriteReply, Inv, TypeOK
  <2>2. OwnAt(c)'
    <3>1. UNCHANGED <<sessions, latest>>
      BY <1>11 DEF WriteReply
    <3>2. NoReply.type # "authen"
      BY DEF NoReply
    <3>3. OwnAt(c)
      BY DEF OwnInv
    <3>. QED BY <2>1, <3>1, <3>2, <3>3 DEF OwnAt, Registered
  <2>. QED BY <1>11, <2>1, <2>2, QuietKeeps DEF WriteReply
<1>12. CASE Tick \/ Sweep \/ Close \/ UNCHANGED vars
  <2>1. UNCHANGED <<pc, req, reply, start, latest>>
    BY <1>12 DEF Tick, Sweep, Close, vars
  <2>2. Aged(SessionIDs)
    <3>1. CASE Tick
      BY <1>0, <3>1, AgePreserves DEF Tick, Aged, Registered
    <3>2. CASE Sweep
      BY <1>0, <3>2, SweepPreserves DEF Sweep, Aged, Registered
    <3>3. CASE Close \/ UNCHANGED vars
      BY <3>3 DEF Close, vars, Aged, Registered
    <3>. QED BY <1>12, <3>1, <3>2, <3>3
  <2>3. ASSUME NEW d \in Conns PROVE OwnAt(d)'
    <3>1. Frame(d)
      BY <2>1, <2>2, ServerAssumption DEF Frame, Aged
    <3>. QED BY <3>1, FrameKeeps DEF OwnInv
  <2>. QED BY <2>3 DEF OwnInv
<1>. QED
  BY <1>2, <1>3, <1>4, <1>5, <1>7, <1>8, <1>9, <1>10, <1>11, <1>12
     DEF Next, Serve, HandleAuthor, HandleAcct

-----------------------------------------------------------------------------
\* Clients with ids of their own keep the invariant.
THEOREM OwnHolds == ASSUME DisjointClients PROVE Spec => []OwnInv
<1>1. Inv /\ OwnInv /\ [Next]_vars => OwnInv'
  BY NextOwn
<1>. QED BY <1>1, InitOwn, InvHolds, PTL DEF Spec

\* For clients that do not share session ids, the START handed to the Handler
\* is always the latest one of this client in this session, however many
\* connections, sessions and sweeps interleave (handleAuthen).
THEOREM StartMatched ==
    ASSUME DisjointClients PROVE Spec => []ContinueMatchesStart
<1>1. OwnInv => ContinueMatchesStart
  BY DEF OwnInv, OwnAt, ContinueMatchesStart
<1>. QED BY <1>1, OwnHolds, PTL

\* For clients that do not share session ids, a terminal reply on the wire
\* means the session is gone (handleAuthen's Delete before writeReply).
THEOREM TerminalEnds ==
    ASSUME DisjointClients PROVE Spec => []TerminalReplyEndsSession
<1>1. OwnInv => TerminalReplyEndsSession
  BY DEF OwnInv, OwnAt, TerminalReplyEndsSession
<1>. QED BY <1>1, OwnHolds, PTL

\* For clients that do not share session ids, a prompt on the wire and the
\* registry agree on the seq_no (handleAuthen's Update before writeReply).
THEOREM PromptRegistered ==
    ASSUME DisjointClients PROVE Spec => []PromptMatchesRegistry
<1>1. OwnInv => PromptMatchesRegistry
  BY DEF OwnInv, OwnAt, PromptMatchesRegistry
<1>. QED BY <1>1, OwnHolds, PTL

\* For clients that do not share session ids, the seq_no on record stays,
\* starts over or advances by one exchange (ValidateNextSeqNo, Update).
THEOREM ExchangeInOrder ==
    ASSUME DisjointClients PROVE Spec => ExchangeAdvancesByOne
<1>1. ASSUME Inv, OwnInv, Next PROVE ExchangeAdvances
  <2>0. RegistryInv
    BY <1>1 DEF Inv, TypeOK, RegistryInv
  <2>1. ASSUME NEW c \in Conns, pc[c] \in InHand
        PROVE  req[c] \in Packets(c) /\ req[c].id \in SessionIDs
                 /\ req[c].seq \in SeqNo
    BY <1>1, <2>1, PacketsType DEF Inv, ControlInv
  <2>2. ASSUME UNCHANGED sessions PROVE ExchangeAdvances
    BY <2>2 DEF ExchangeAdvances
  <2>3. ASSUME NEW c \in Conns, StartAuthen(c) PROVE ExchangeAdvances
    <3>1. CASE req[c].body = "undecodable"
      BY <2>2, <2>3, <3>1 DEF StartAuthen
    <3>2. CASE req[c].body # "undecodable"
      <4>1. pc[c] \in InHand /\ Set(req[c].id, req[c].body)
              /\ req[c].type = "authen" /\ req[c].seq = 1
        BY <2>3, <3>2 DEF StartAuthen, InHand
      <4>2. req[c].body \in Starts
        BY <2>1, <3>2, <4>1, PacketsType
      <4>3. /\ sessions'[req[c].id].lastOutboundSeq = 0
            /\ \A x \in DOMAIN sessions :
                 x # req[c].id => sessions'[x] = sessions[x]
        BY Zenon, <2>0, <2>1, <4>1, <4>2, SetPreserves
      <4>. QED BY <4>3 DEF ExchangeAdvances
    <3>. QED BY <3>1, <3>2
  <2>4. ASSUME NEW c \in Conns, pc[c] \in InHand, Delete(req[c].id)
        PROVE  ExchangeAdvances
    BY Zenon, <2>0, <2>1, <2>4, DeletePreserves DEF ExchangeAdvances
  <2>5. ASSUME NEW c \in Conns, AuthenDecide(c) PROVE ExchangeAdvances
    <3>1. pc[c] \in InHand /\ pc[c] = "authen" /\ req[c].seq % 2 = 1
      BY <1>1, <2>5 DEF AuthenDecide, InHand, Inv, ControlInv
    <3>2. CASE Update(req[c].id, NextByte(req[c].seq))
      <4>1. NextByte(req[c].seq) \in SeqNo /\ NextByte(req[c].seq) % 2 = 0
        BY <2>1, <3>1, NextByteFacts
      <4>2. /\ req[c].id \in DOMAIN sessions
                 => sessions'[req[c].id].lastOutboundSeq = NextByte(req[c].seq)
            /\ \A x \in DOMAIN sessions :
                 x # req[c].id => sessions'[x] = sessions[x]
        BY <2>0, <2>1, <3>1, <3>2, <4>1, UpdatePreserves
      <4>3. req[c].id \in DOMAIN sessions =>
              req[c].seq = NextByte(sessions[req[c].id].lastOutboundSeq)
        BY <1>1, <3>1 DEF OwnInv, OwnAt, Registered
      <4>. QED BY <4>2, <4>3 DEF ExchangeAdvances
    <3>. QED BY <2>4, <2>5, <3>1, <3>2 DEF AuthenDecide
  <2>6. ASSUME NEW c \in Conns, RejectSeq(c) \/ AuthenFail(c)
        PROVE  ExchangeAdvances
    BY <2>4, <2>6 DEF RejectSeq, AuthenFail, InHand
  <2>7. CASE Tick
    BY <2>0, <2>7, AgePreserves DEF Tick, ExchangeAdvances
  <2>8. CASE Sweep
    BY <2>0, <2>8, SweepPreserves DEF Sweep, ExchangeAdvances
  <2>9. ASSUME NEW c \in Conns,
               \/ AcceptConn(c) \/ EndConn(c) \/ ContinueAuthen(c)
               \/ AuthenPanic(c) \/ HandleAuthor(c) \/ HandleAcct(c)
               \/ HandleUnknown(c) \/ WriteReply(c)
        PROVE  ExchangeAdvances
    BY Zenon, <2>2, <2>9 DEF AcceptConn, EndConn, ContinueAuthen, AuthenPanic,
       HandleAuthor, HandleAcct, HandleStateless, HandleUnknown, WriteReply
  <2>10. ASSUME NEW c \in Conns, NEW p \in Packets(c), ReadPacket(c, p)
         PROVE  ExchangeAdvances
    BY Zenon, <2>2, <2>10 DEF ReadPacket
  <2>11. CASE Close
    BY <2>2, <2>11 DEF Close
  <2>. QED
    BY <1>1, <2>3, <2>5, <2>6, <2>7, <2>8, <2>9, <2>10, <2>11 DEF Next, Serve
<1>2. Inv /\ OwnInv /\ [Next]_vars => [ExchangeAdvances]_sessions
  BY <1>1 DEF vars
<1>. QED BY <1>2, InvHolds, OwnHolds, PTL DEF Spec, ExchangeAdvancesByOne

-----------------------------------------------------------------------------
(***************************************************************************)
(* The refinement of SessionProtocol.tla.  Described(id) spells out the    *)
(* mapping without its CHOOSE, which the invariant of ServerProofs.tla     *)
(* justifies: at most one goroutine judges a packet of a session.  Each    *)
(* action then maps to one protocol step on the session of the packet in   *)
(* hand, or to a stutter.                                                  *)
(***************************************************************************)
Described(id) ==
    /\ \A c \in Conns : Judging(c, id) =>
         Exchange(id) = [start |-> start[c], turn |-> "server",
                         seq |-> req[c].seq]
    /\ (\A c \in Conns : ~Judging(c, id)) /\ Registered(id) =>
         Exchange(id) = [start |-> sessions[id].start, turn |-> "client",
                         seq |-> NextByte(sessions[id].lastOutboundSeq)]
    /\ (\A c \in Conns : ~Judging(c, id)) /\ ~Registered(id) =>
         Exchange(id) = [turn |-> "none"]

\* At most one goroutine judges a packet of a session.
LEMMA OneJudge ==
    ASSUME DisjointClients, Inv, NEW c \in Conns, NEW d \in Conns, NEW id,
           Judging(c, id), Judging(d, id)
    PROVE  c = d
<1>1. id \in IdsOf[c] /\ id \in IdsOf[d]
  BY PacketsType DEF Judging, Inv, ControlInv, InHand
<1>. QED BY <1>1 DEF DisjointClients

\* The refinement mapping is what Described says.
LEMMA MappingDescribed ==
    ASSUME DisjointClients
    PROVE  Inv => \A id \in SessionIDs : Described(id)
<1>. SUFFICES ASSUME Inv, NEW id \in SessionIDs PROVE Described(id)
  OBVIOUS
<1>1. ASSUME NEW c \in Conns, Judging(c, id)
      PROVE  Exchange(id) = [start |-> start[c], turn |-> "server",
                             seq |-> req[c].seq]
  <2>1. c = CHOOSE d \in Conns : Judging(d, id)
    BY <1>1, OneJudge
  <2>. QED BY <1>1, <2>1 DEF Exchange
<1>2. (\A c \in Conns : ~Judging(c, id)) =>
        Exchange(id) = IF Registered(id)
                       THEN [start |-> sessions[id].start, turn |-> "client",
                             seq |-> NextByte(sessions[id].lastOutboundSeq)]
                       ELSE [turn |-> "none"]
  BY DEF Exchange
<1>. QED BY <1>1, <1>2 DEF Described

\* A session whose judge and registry entry stay the same maps to the same.
LEMMA SameExchange ==
    ASSUME NEW id, Described(id), Described(id)',
           \A c \in Conns : Judging(c, id)' <=> Judging(c, id),
           \A c \in Conns : Judging(c, id) =>
              start'[c] = start[c] /\ req'[c].seq = req[c].seq,
           (\A c \in Conns : ~Judging(c, id)) =>
              /\ Registered(id)' <=> Registered(id)
              /\ Registered(id) =>
                   /\ sessions'[id].start = sessions[id].start
                   /\ sessions'[id].lastOutboundSeq = sessions[id].lastOutboundSeq
    PROVE  Exchange(id)' = Exchange(id)
<1>1. ASSUME NEW c \in Conns, Judging(c, id)
      PROVE  Exchange(id)' = Exchange(id)
  <2>1. Exchange(id) = [start |-> start[c], turn |-> "server",
                        seq |-> req[c].seq]
    BY <1>1 DEF Described
  <2>2. Exchange(id)' = [start |-> start'[c], turn |-> "server",
                         seq |-> req'[c].seq]
    BY <1>1 DEF Described
  <2>3. start'[c] = start[c] /\ req'[c].seq = req[c].seq
    BY <1>1
  <2>. QED BY <2>1, <2>2, <2>3
<1>2. CASE \A c \in Conns : ~Judging(c, id)
  BY <1>2 DEF Described
<1>. QED BY <1>1, <1>2

\* Initially every session is closed.
LEMMA InitMaps == Init => SP!Init
BY DEF Init, SessionsInit, SP!Init, SP!Closed, Exchange, Judging, Registered

-----------------------------------------------------------------------------
\* The value the refinement mapping gives to exch.
Exch == [id \in SessionIDs |-> Exchange(id)]

AllDescribed == \A id \in SessionIDs : Described(id)

\* Steps that touch neither the registry nor what is being judged stutter.
LEMMA QuietStutters ==
    ASSUME AllDescribed, AllDescribed', UNCHANGED sessions,
           \A d \in Conns : /\ pc'[d] = "authen" <=> pc[d] = "authen"
                            /\ pc[d] = "authen" =>
                                 req'[d] = req[d] /\ start'[d] = start[d]
    PROVE  Exch' = Exch
<1>1. ASSUME NEW id \in SessionIDs PROVE Exchange(id)' = Exchange(id)
  <2>1. \A c \in Conns : Judging(c, id)' <=> Judging(c, id)
    BY DEF Judging
  <2>. QED BY <2>1, SameExchange DEF AllDescribed, Judging, Registered
<1>. QED BY <1>1 DEF Exch

\* A step of connection c, whose packet in hand belongs to session id, maps
\* the other sessions to what they were.
LEMMA OthersSame ==
    ASSUME AllDescribed, AllDescribed', NEW c \in Conns, NEW id,
           req[c].id = id, UNCHANGED req,
           \A d \in Conns : d # c => pc'[d] = pc[d] /\ start'[d] = start[d],
           DOMAIN sessions' \cup {id} = DOMAIN sessions \cup {id},
           \A x \in DOMAIN sessions' : x # id => sessions'[x] = sessions[x]
    PROVE  \A x \in SessionIDs : x # id => Exchange(x)' = Exchange(x)
<1>. SUFFICES ASSUME NEW x \in SessionIDs, x # id
              PROVE  Exchange(x)' = Exchange(x)
  OBVIOUS
<1>1. ~Judging(c, x) /\ ~Judging(c, x)'
  BY DEF Judging
<1>2. \A d \in Conns : d # c => (Judging(d, x)' <=> Judging(d, x))
  BY DEF Judging
<1>3. \A d \in Conns : Judging(d, x)' <=> Judging(d, x)
  BY <1>1, <1>2
<1>4. \A d \in Conns : Judging(d, x) =>
        start'[d] = start[d] /\ req'[d].seq = req[d].seq
  BY <1>1
<1>5. Registered(x)' <=> Registered(x)
  BY DEF Registered
<1>6. Registered(x) => sessions'[x] = sessions[x]
  BY <1>5 DEF Registered
<1>. QED BY <1>3, <1>4, <1>5, <1>6, SameExchange DEF AllDescribed

\* If session id alone changes and is closed afterwards, it has ended.
LEMMA EndsOne ==
    ASSUME NEW id \in SessionIDs, Exchange(id)' = [turn |-> "none"],
           \A x \in SessionIDs : x # id => Exchange(x)' = Exchange(x)
    PROVE  SP!Next
<1>1. SP!End({id})
  BY DEF SP!End, SP!Closed
<1>2. {id} \in SUBSET SessionIDs
  OBVIOUS
<1>. QED BY <1>1, <1>2 DEF SP!Next

\* Every step of the server is a protocol step or a stutter.
LEMMA StepMaps ==
    ASSUME DisjointClients, Inv, OwnInv, AllDescribed, AllDescribed', Next
    PROVE  SP!Next \/ Exch' = Exch
<1>0. RegistryInv
  BY DEF Inv, TypeOK, RegistryInv
<1>1. ASSUME NEW c \in Conns, pc[c] \in InHand
      PROVE  /\ req[c] \in Packets(c)
             /\ req[c].id \in IdsOf[c] /\ req[c].id \in SessionIDs
             /\ req[c].seq \in SeqNo
  BY <1>1, PacketsType DEF Inv, ControlInv
<1>2. ASSUME NEW c \in Conns, StartAuthen(c) PROVE SP!Next \/ Exch' = Exch
  <2>1. pc[c] \in InHand /\ pc[c] = "handle" /\ req[c].type = "authen"
          /\ req[c].seq = 1 /\ UNCHANGED req
    BY <1>2 DEF StartAuthen, InHand
  <2>2. CASE req[c].body = "undecodable"
    BY <1>2, <2>1, <2>2, QuietStutters
       DEF StartAuthen, Write, Inv, TypeOK
  <2>3. CASE req[c].body # "undecodable"
    <3>1. /\ Set(req[c].id, req[c].body)
          /\ start' = [start EXCEPT ![c] = req[c].body]
          /\ pc' = [pc EXCEPT ![c] = "authen"]
      BY <1>2, <2>3 DEF StartAuthen
    <3>2. req[c].body \in Starts
      BY <1>1, <2>1, <2>3, PacketsType
    <3>3. /\ DOMAIN sessions' = DOMAIN sessions \cup {req[c].id}
          /\ \A x \in DOMAIN sessions :
               x # req[c].id => sessions'[x] = sessions[x]
      BY Zenon, <1>0, <1>1, <2>1, <3>1, <3>2, SetPreserves
    <3>4. /\ pc'[c] = "authen" /\ start'[c] = req[c].body
          /\ \A d \in Conns : d # c => pc'[d] = pc[d] /\ start'[d] = start[d]
      BY <3>1 DEF Inv, TypeOK
    <3>5. \A x \in SessionIDs : x # req[c].id => Exchange(x)' = Exchange(x)
      BY <2>1, <3>3, <3>4, OthersSame
    <3>6. Exchange(req[c].id)' = [start |-> req[c].body, turn |-> "server",
                                  seq |-> 1]
      <4>1. Judging(c, req[c].id)'
        BY <2>1, <3>4 DEF Judging
      <4>. QED BY <1>1, <2>1, <3>4, <4>1 DEF AllDescribed, Described
    <3>7. SP!Open(req[c].id, req[c].body)
      BY Zenon, <1>1, <2>1, <3>5, <3>6 DEF SP!Open
    <3>. QED BY Zenon, <1>1, <2>1, <3>2, <3>7 DEF SP!Next
  <2>. QED BY <2>2, <2>3
<1>3. ASSUME NEW c \in Conns, ContinueAuthen(c)
      PROVE  SP!Next \/ Exch' = Exch
  <2>1. pc[c] \in InHand /\ pc[c] = "handle" /\ req[c].seq # 1
          /\ UNCHANGED <<sessions, req>>
    BY <1>3 DEF ContinueAuthen, InHand
  <2>2. CASE Write(c, GenericReply(req[c])) /\ UNCHANGED start
    BY <2>1, <2>2, QuietStutters DEF Write, Inv, TypeOK
  <2>3. CASE pc' = [pc EXCEPT ![c] = "reject"] /\ UNCHANGED start
    BY <2>1, <2>3, QuietStutters DEF Inv, TypeOK
  <2>4. CASE /\ Registered(req[c].id)
             /\ ValidateNextSeqNo(req[c].seq,
                                  sessions[req[c].id].lastOutboundSeq)
             /\ start' = [start EXCEPT ![c] = sessions[req[c].id].start]
             /\ pc' = [pc EXCEPT ![c] = "authen"]
    <3>1. NextByte(sessions[req[c].id].lastOutboundSeq) = req[c].seq
      BY <2>4, SessionsAssumption DEF ValidateNextSeqNo, NextByte
    <3>2. /\ pc'[c] = "authen" /\ start'[c] = sessions[req[c].id].start
          /\ \A d \in Conns : d # c => pc'[d] = pc[d] /\ start'[d] = start[d]
      BY <2>4 DEF Inv, TypeOK
    <3>3. \A x \in SessionIDs : x # req[c].id => Exchange(x)' = Exchange(x)
      BY <2>1, <3>2, OthersSame
    <3>4. \A d \in Conns : ~Judging(d, req[c].id)
      <4>. SUFFICES ASSUME NEW d \in Conns, Judging(d, req[c].id) PROVE FALSE
        OBVIOUS
      <4>1. d # c /\ pc[d] \in InHand /\ req[d].id = req[c].id
        BY <2>1 DEF Judging, InHand
      <4>. QED BY <1>1, <2>1, <4>1 DEF DisjointClients
    <3>5. Exchange(req[c].id) = [start |-> sessions[req[c].id].start,
                                 turn |-> "client", seq |-> req[c].seq]
      BY Zenon, <1>1, <2>1, <2>4, <3>1, <3>4 DEF AllDescribed, Described
    <3>6. Exchange(req[c].id)' = [start |-> sessions[req[c].id].start,
                                  turn |-> "server", seq |-> req[c].seq]
      <4>1. Judging(c, req[c].id)'
        BY <2>1, <3>2 DEF Judging
      <4>. QED BY Zenon, <1>1, <2>1, <3>2, <4>1 DEF AllDescribed, Described
    <3>7. SP!Answer(req[c].id)
      BY <1>1, <2>1, <3>3, <3>5, <3>6 DEF SP!Answer
    <3>. QED BY <1>1, <2>1, <3>7 DEF SP!Next
  <2>. QED BY Zenon, <1>3, <2>2, <2>3, <2>4 DEF ContinueAuthen
<1>4. ASSUME NEW c \in Conns, pc[c] \in InHand, NEW r, Write(c, r),
             UNCHANGED <<req, start>>,
             DOMAIN sessions' \cup {req[c].id} = DOMAIN sessions \cup {req[c].id},
             \A x \in DOMAIN sessions' :
                x # req[c].id => sessions'[x] = sessions[x]
      PROVE  /\ \A x \in SessionIDs : x # req[c].id => Exchange(x)' = Exchange(x)
             /\ \A d \in Conns : ~Judging(d, req[c].id)'
             /\ ~Registered(req[c].id)' => SP!Next
             /\ Registered(req[c].id)' => Exchange(req[c].id)' =
                  [start |-> sessions'[req[c].id].start, turn |-> "client",
                   seq |-> NextByte(sessions'[req[c].id].lastOutboundSeq)]
  <2>1. /\ pc'[c] = "write"
        /\ \A d \in Conns : d # c => pc'[d] = pc[d]
    BY <1>4 DEF Write, Inv, TypeOK
  <2>2. \A x \in SessionIDs : x # req[c].id => Exchange(x)' = Exchange(x)
    BY <1>4, <2>1, OthersSame
  <2>3. \A d \in Conns : ~Judging(d, req[c].id)'
    <3>. SUFFICES ASSUME NEW d \in Conns, Judging(d, req[c].id)' PROVE FALSE
      BY <1>4
    <3>1. d # c /\ pc[d] \in InHand /\ req[d].id = req[c].id
      BY <1>4, <2>1 DEF Judging, InHand
    <3>. QED BY <1>1, <1>4, <3>1 DEF DisjointClients
  <2>4. ~Registered(req[c].id)' => Exchange(req[c].id)' = [turn |-> "none"]
    BY Zenon, <1>1, <1>4, <2>3 DEF AllDescribed, Described
  <2>5. Registered(req[c].id)' => Exchange(req[c].id)' =
                  [start |-> sessions'[req[c].id].start, turn |-> "client",
                   seq |-> NextByte(sessions'[req[c].id].lastOutboundSeq)]
    BY Zenon, <1>1, <1>4, <2>3 DEF AllDescribed, Described
  <2>6. ~Registered(req[c].id)' => SP!Next
    BY <1>1, <1>4, <2>2, <2>4, EndsOne
  <2>. QED BY <1>4, <2>2, <2>3, <2>5, <2>6
<1>5. ASSUME NEW c \in Conns, pc[c] \in InHand, NEW r, Write(c, r),
             UNCHANGED <<req, start>>, Delete(req[c].id)
      PROVE  SP!Next
  <2>1. /\ DOMAIN sessions' = DOMAIN sessions \ {req[c].id}
        /\ \A x \in DOMAIN sessions' : sessions'[x] = sessions[x]
    BY <1>0, <1>1, <1>5, DeletePreserves
  <2>2. ~Registered(req[c].id)'
    BY <1>5, <2>1 DEF Registered
  <2>. QED BY Zenon, <1>4, <1>5, <2>1, <2>2
<1>6. ASSUME NEW c \in Conns, RejectSeq(c) \/ AuthenFail(c) PROVE SP!Next
  BY <1>5, <1>6 DEF RejectSeq, AuthenFail, InHand
<1>7. ASSUME NEW c \in Conns, pc[c] = "authen", Registered(req[c].id)
      PROVE  /\ Exchange(req[c].id) = [start |-> sessions[req[c].id].start,
                                       turn |-> "server", seq |-> req[c].seq]
             /\ NextByte(sessions[req[c].id].lastOutboundSeq) = req[c].seq
  <2>1. pc[c] \in InHand /\ Judging(c, req[c].id)
    BY <1>7 DEF InHand, Judging
  <2>2. start[c] = sessions[req[c].id].start
    BY <1>1, <1>7, <2>1 DEF OwnInv, OwnAt
  <2>3. Exchange(req[c].id) = [start |-> start[c], turn |-> "server",
                               seq |-> req[c].seq]
    BY <1>1, <2>1 DEF AllDescribed, Described
  <2>. QED BY <1>7, <2>2, <2>3 DEF OwnInv, OwnAt
<1>8. ASSUME NEW c \in Conns, AuthenDecide(c) PROVE SP!Next
  <2>1. pc[c] \in InHand /\ pc[c] = "authen" /\ req[c].seq % 2 = 1
          /\ UNCHANGED <<req, start>>
    BY <1>8 DEF AuthenDecide, InHand, Inv, ControlInv
  <2>2. CASE Delete(req[c].id)
    BY <1>5, <1>8, <2>1, <2>2 DEF AuthenDecide
  <2>3. CASE Update(req[c].id, NextByte(req[c].seq))
    <3>1. NextByte(req[c].seq) \in SeqNo /\ NextByte(req[c].seq) % 2 = 0
      BY <1>1, <2>1, NextByteFacts
    <3>2. /\ DOMAIN sessions' = DOMAIN sessions
          /\ req[c].id \in DOMAIN sessions =>
               sessions'[req[c].id].lastOutboundSeq = NextByte(req[c].seq)
          /\ \A x \in DOMAIN sessions : sessions'[x].start = sessions[x].start
          /\ \A x \in DOMAIN sessions :
               x # req[c].id => sessions'[x] = sessions[x]
      BY <1>0, <1>1, <2>1, <2>3, <3>1, UpdatePreserves
    <3>3. PICK r : Write(c, r)
      BY Zenon, <1>8 DEF AuthenDecide
    <3>4. CASE ~Registered(req[c].id)'
      BY Zenon, <1>4, <2>1, <3>2, <3>3, <3>4
    <3>5. CASE Registered(req[c].id)'
      <4>1. Registered(req[c].id)
        BY <2>1, <3>2, <3>5 DEF Registered
      <4>2. Exchange(req[c].id)' =
              [start |-> sessions[req[c].id].start, turn |-> "client",
               seq |-> NextByte(NextByte(req[c].seq))]
        BY Zenon, <1>4, <2>1, <3>2, <3>3, <3>5, <4>1 DEF Registered
      <4>3. SP!Prompt(req[c].id)
        <5>1. \A x \in SessionIDs : x # req[c].id => Exchange(x)' = Exchange(x)
          BY Zenon, <1>4, <2>1, <3>2, <3>3
        <5>2. Exchange(req[c].id) =
                [start |-> sessions[req[c].id].start, turn |-> "server",
                 seq |-> req[c].seq]
          BY Zenon, <1>7, <2>1, <4>1
        <5>3. SP!Succ(SP!Succ(req[c].seq)) = NextByte(NextByte(req[c].seq))
          BY DEF SP!Succ, NextByte
        <5>. QED BY <1>1, <2>1, <4>2, <5>1, <5>2, <5>3 DEF SP!Prompt
      <4>. QED BY <1>1, <2>1, <4>3 DEF SP!Next
    <3>. QED BY <3>4, <3>5
  <2>. QED BY <1>8, <2>2, <2>3 DEF AuthenDecide
<1>9. ASSUME NEW c \in Conns, AuthenPanic(c) PROVE SP!Next
  <2>1. pc[c] \in InHand /\ pc[c] = "authen" /\ UNCHANGED <<req, start, sessions>>
          /\ Write(c, GenericReply(req[c]))
    BY <1>9 DEF AuthenPanic, InHand
  <2>2. CASE ~Registered(req[c].id)'
    BY Zenon, <1>4, <2>1, <2>2
  <2>3. CASE Registered(req[c].id)'
    <3>1. Registered(req[c].id)
      BY <2>1, <2>3 DEF Registered
    <3>2. Exchange(req[c].id)' = [start |-> sessions[req[c].id].start,
                                  turn |-> "client", seq |-> req[c].seq]
      BY Zenon, <1>4, <1>7, <2>1, <2>3, <3>1
    <3>3. SP!Crash(req[c].id)
      <4>1. \A x \in SessionIDs : x # req[c].id => Exchange(x)' = Exchange(x)
        BY Zenon, <1>4, <2>1
      <4>2. Exchange(req[c].id) =
              [start |-> sessions[req[c].id].start, turn |-> "server",
               seq |-> req[c].seq]
        BY <1>7, <2>1, <3>1
      <4>. QED BY <1>1, <2>1, <3>2, <4>1, <4>2 DEF SP!Crash
    <3>. QED BY <1>1, <2>1, <3>3 DEF SP!Next
  <2>. QED BY <2>2, <2>3
<1>10. CASE Sweep
  <2>1. UNCHANGED <<pc, req, start>> /\ SweepExpired
    BY <1>10 DEF Sweep
  <2>2. DOMAIN sessions' \subseteq DOMAIN sessions
          /\ \A x \in DOMAIN sessions' : sessions'[x] = sessions[x]
    BY <1>0, <2>1, SweepPreserves
  <2>. DEFINE S == {id \in SessionIDs :
                      ~Registered(id)' /\ \A c \in Conns : ~Judging(c, id)}
  <2>3. ASSUME NEW id \in SessionIDs
        PROVE  \A c \in Conns : Judging(c, id)' <=> Judging(c, id)
    BY <2>1 DEF Judging
  <2>4. ASSUME NEW id \in S PROVE Exchange(id)' = [turn |-> "none"]
    BY Zenon, <2>3 DEF AllDescribed, Described
  <2>5. ASSUME NEW id \in SessionIDs, id \notin S
        PROVE  Exchange(id)' = Exchange(id)
    BY Zenon, <2>1, <2>2, <2>3, <2>5, SameExchange DEF AllDescribed, Registered
  <2>6. SP!End(S)
    BY <2>4, <2>5 DEF SP!End, SP!Closed
  <2>7. S \in SUBSET SessionIDs
    OBVIOUS
  <2>. QED BY <2>6, <2>7 DEF SP!Next
<1>11. CASE Tick
  <2>1. UNCHANGED <<pc, req, start>>
    BY <1>11 DEF Tick
  <2>2. /\ DOMAIN sessions' = DOMAIN sessions
        /\ \A x \in DOMAIN sessions :
             /\ sessions'[x].start = sessions[x].start
             /\ sessions'[x].lastOutboundSeq = sessions[x].lastOutboundSeq
    BY <1>0, <1>11, AgePreserves DEF Tick
  <2>3. ASSUME NEW id \in SessionIDs PROVE Exchange(id)' = Exchange(id)
    <3>1. \A c \in Conns : Judging(c, id)' <=> Judging(c, id)
      BY <2>1 DEF Judging
    <3>. QED BY <2>1, <2>2, <3>1, SameExchange DEF AllDescribed, Registered
  <2>. QED BY <2>3 DEF Exch
<1>12. ASSUME NEW c \in Conns,
              \/ AcceptConn(c) \/ EndConn(c) \/ HandleAuthor(c)
              \/ HandleAcct(c) \/ HandleUnknown(c) \/ WriteReply(c)
       PROVE  Exch' = Exch
  <2>1. UNCHANGED sessions
    BY <1>12 DEF AcceptConn, EndConn, HandleAuthor, HandleAcct,
       HandleStateless, HandleUnknown, WriteReply
  <2>2. \A d \in Conns : /\ pc'[d] = "authen" <=> pc[d] = "authen"
                         /\ pc[d] = "authen" =>
                              req'[d] = req[d] /\ start'[d] = start[d]
    BY Zenon, <1>12 DEF AcceptConn, EndConn, HandleAuthor, HandleAcct,
       HandleStateless, HandleUnknown, WriteReply, Write, Inv, TypeOK
  <2>. QED BY <2>1, <2>2, QuietStutters
<1>13. ASSUME NEW c \in Conns, NEW p \in Packets(c), ReadPacket(c, p)
       PROVE  Exch' = Exch
  <2>1. UNCHANGED <<sessions, start>>
    BY <1>13 DEF ReadPacket
  <2>2. pc[c] = "read" /\ pc'[c] # "authen"
    BY Zenon, <1>13 DEF ReadPacket, Write, Inv, TypeOK
  <2>3. \A d \in Conns : d # c => pc'[d] = pc[d]
    <3>1. \E x : pc' = [pc EXCEPT ![c] = x]
      BY <1>13 DEF ReadPacket, Write
    <3>2. pc \in [Conns -> PCs]
      BY DEF Inv, TypeOK
    <3>. QED BY <3>1, <3>2
  <2>4. \A d \in Conns : d # c => req'[d] = req[d]
    <3>1. req' = [req EXCEPT ![c] = p]
      BY <1>13 DEF ReadPacket
    <3>2. DOMAIN req = Conns
      BY DEF Inv, TypeOK
    <3>. QED BY <3>1, <3>2
  <2>. QED BY <2>1, <2>2, <2>3, <2>4, QuietStutters
<1>14. CASE Close
  BY <1>14, QuietStutters DEF Close
<1>. QED
  BY <1>2, <1>3, <1>6, <1>8, <1>9, <1>10, <1>11, <1>12, <1>13, <1>14
     DEF Next, Serve

\* The server implements the turn-taking session protocol for clients that do
\* not share session ids: the whole of handleAuthen, the registry, the
\* sweeper and panicking Handlers included.
THEOREM ServerImplementsSessionProtocol ==
    ASSUME DisjointClients PROVE Spec => ImplementsSessionProtocol
<1>1. Inv => AllDescribed
  BY MappingDescribed DEF AllDescribed
<1>2. Inv' => AllDescribed'
  BY <1>1, PTL
<1>3. Inv /\ OwnInv /\ Inv' /\ [Next]_vars => [SP!Next]_Exch
  <2>. SUFFICES ASSUME Inv, OwnInv, Inv', [Next]_vars PROVE [SP!Next]_Exch
    OBVIOUS
  <2>1. AllDescribed /\ AllDescribed'
    BY <1>1, <1>2
  <2>2. CASE Next
    BY <2>1, <2>2, StepMaps
  <2>3. CASE UNCHANGED vars
    BY <2>1, <2>3, QuietStutters DEF vars
  <2>. QED BY <2>2, <2>3
<1>4. Spec => SP!Init /\ [][SP!Next]_Exch
  BY <1>3, InitMaps, InvHolds, OwnHolds, PTL DEF Spec
<1>. QED BY <1>4, PTL DEF ImplementsSessionProtocol, SP!Spec, Exch
=============================================================================
