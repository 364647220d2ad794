---------------------------- MODULE ServerProofs ----------------------------
(***************************************************************************)
(* Proofs about Server.tla for every number of connections, every id       *)
(* space, seq_no width, TTL and configuration.                             *)
(*                                                                         *)
(* Inv is inductive.  Its conjuncts beyond the invariants it proves say    *)
(* what a goroutine may rely on at each of its control points: a packet in *)
(* hand is one its client could send, an authentication packet that        *)
(* reached the Handler has an odd seq_no, and a reply exists only while it *)
(* is being written.                                                       *)
(*                                                                         *)
(* OwnInv adds what holds when clients do not share session ids: the       *)
(* registry's entry for a client's session holds the client's own last     *)
(* START.                                                                  *)
(***************************************************************************)
EXTENDS Server, FiniteSetTheorems, TLAPS

InHand == {"handle", "reject", "authen", "write"}

\* What each control point of a goroutine guarantees.
ControlInv ==
    \A c \in Conns :
        /\ pc[c] \in InHand => req[c] \in Packets(c)
        /\ pc[c] # "write" => reply[c] = NoReply
        /\ pc[c] \in {"reject", "authen"} => req[c].type = "authen"
        /\ pc[c] = "authen" => req[c].seq % 2 = 1
        /\ reply[c].type = "authen" => req[c].type = "authen"

Inv ==
    /\ TypeOK
    /\ ControlInv
    /\ ActiveGaugeExact
    /\ RegisteredSeqEven
    /\ AuthenRepliesEven

-----------------------------------------------------------------------------
\* A byte's successor is a byte, and flips parity (SeqMod is even).
LEMMA NextByteFacts ==
    ASSUME NEW n \in SeqNo
    PROVE  /\ NextByte(n) \in SeqNo
           /\ n % 2 = 0 => NextByte(n) % 2 = 1
           /\ n % 2 = 1 => NextByte(n) % 2 = 0
BY SessionsAssumption DEF NextByte, SeqNo

\* The packets clients send are packets.
LEMMA PacketsType ==
    ASSUME NEW c \in Conns, NEW p \in Packets(c)
    PROVE  /\ p \in Packet
           /\ p.id \in IdsOf[c] /\ p.id \in SessionIDs
           /\ p.seq \in SeqNo
           /\ p.flags \in HdrFlags
           /\ p.type = "authen" /\ p.seq = 1 /\ p.body # "undecodable"
                => p.body \in Starts
BY ServerAssumption DEF Packets, Packet

\* The replies the server writes are replies.
LEMMA ReplyType ==
    ASSUME NEW p \in Packet
    PROVE  /\ GenericReply(p) \in Reply
           /\ GenericReply(p).type = "generic"
           /\ \A s \in AuthenStatus :
                StatusReply(p, "authen", s) \in Reply
           /\ \A t \in {"author", "acct"}, s \in {"decided", "ERROR"} :
                StatusReply(p, t, s) \in Reply
BY NextByteFacts DEF Packet, GenericReply, StatusReply, Reply

-----------------------------------------------------------------------------
\* What every operation of the registry preserves.
RegistryInv == SessionsTypeOK /\ ActiveGaugeExact /\ RegisteredSeqEven

\* The map of a registry is finite and its gauge counts it.
LEMMA RegistryFinite ==
    ASSUME RegistryInv
    PROVE  IsFiniteSet(DOMAIN sessions)
BY SessionsAssumption, FS_Subset DEF RegistryInv, SessionsTypeOK

\* Set registers the id, with its START and no reply on record.
LEMMA SetPreserves ==
    ASSUME RegistryInv, NEW id \in SessionIDs, NEW st \in Starts, Set(id, st)
    PROVE  /\ RegistryInv'
           /\ DOMAIN sessions' = DOMAIN sessions \cup {id}
           /\ sessions'[id].start = st
           /\ sessions'[id].lastOutboundSeq = 0
           /\ \A x \in DOMAIN sessions : x # id => sessions'[x] = sessions[x]
<1>1. NewContext(st) \in SessionContext /\ NewContext(st).start = st
         /\ NewContext(st).lastOutboundSeq = 0
  BY SessionsAssumption DEF NewContext, SessionContext, SeqNo
<1>2. DOMAIN sessions' = DOMAIN sessions \cup {id}
  BY DEF Set
<1>3. \A x \in DOMAIN sessions' :
        sessions'[x] = IF x = id THEN NewContext(st) ELSE sessions[x]
  BY DEF Set
<1>4. SessionsTypeOK'
  <2>1. active' \in Nat
    BY DEF Set, RegistryInv, SessionsTypeOK
  <2>2. sessions' \in [DOMAIN sessions' -> SessionContext]
    BY <1>1 DEF Set, RegistryInv, SessionsTypeOK
  <2>. QED BY <1>2, <2>1, <2>2 DEF RegistryInv, SessionsTypeOK
<1>5. ActiveGaugeExact'
  BY <1>2, RegistryFinite, FS_AddElement
     DEF Set, Registered, RegistryInv, ActiveGaugeExact
<1>6. RegisteredSeqEven'
  BY <1>1, <1>2, <1>3 DEF RegistryInv, RegisteredSeqEven
<1>. QED BY <1>1, <1>2, <1>3, <1>4, <1>5, <1>6 DEF RegistryInv

\* Update changes the seq_no on record and the activity of one session.
LEMMA UpdatePreserves ==
    ASSUME RegistryInv, NEW id \in SessionIDs, NEW n \in SeqNo, n % 2 = 0,
           Update(id, n)
    PROVE  /\ RegistryInv'
           /\ DOMAIN sessions' = DOMAIN sessions
           /\ id \in DOMAIN sessions => sessions'[id].lastOutboundSeq = n
           /\ \A x \in DOMAIN sessions : sessions'[x].start = sessions[x].start
           /\ \A x \in DOMAIN sessions : x # id => sessions'[x] = sessions[x]
<1>1. CASE id \notin DOMAIN sessions
  BY <1>1 DEF Update, Registered, RegistryInv, SessionsTypeOK,
              ActiveGaugeExact, RegisteredSeqEven
<1>2. CASE id \in DOMAIN sessions
  <2>1. sessions' = [sessions EXCEPT ![id].idle = 0, ![id].lastOutboundSeq = n]
    BY <1>2 DEF Update, Registered
  <2>2. DOMAIN sessions' = DOMAIN sessions
    BY <2>1
  <2>3. sessions[id] \in SessionContext
    BY <1>2 DEF RegistryInv, SessionsTypeOK
  <2>4. sessions'[id] = [sessions[id] EXCEPT !.idle = 0, !.lastOutboundSeq = n]
    BY <1>2, <2>1
  <2>. 0 \in 0 .. TTL + 1
    BY SessionsAssumption
  <2>5. /\ sessions'[id] \in SessionContext
        /\ sessions'[id].start = sessions[id].start
        /\ sessions'[id].lastOutboundSeq = n
    BY <2>3, <2>4, SessionsAssumption DEF SessionContext
  <2>6. \A x \in DOMAIN sessions : x # id => sessions'[x] = sessions[x]
    BY <1>2, <2>1
  <2>7. SessionsTypeOK'
    <3>1. sessions' \in [DOMAIN sessions' -> SessionContext]
      BY <2>1, <2>2, <2>5, <2>6 DEF RegistryInv, SessionsTypeOK
    <3>. QED BY <2>2, <3>1 DEF Update, RegistryInv, SessionsTypeOK
  <2>8. ActiveGaugeExact'
    BY <2>2 DEF Update, RegistryInv, ActiveGaugeExact
  <2>9. RegisteredSeqEven'
    BY <2>2, <2>5, <2>6 DEF RegistryInv, RegisteredSeqEven
  <2>. QED BY <2>2, <2>5, <2>6, <2>7, <2>8, <2>9 DEF RegistryInv
<1>. QED BY <1>1, <1>2

\* Delete removes one session.
LEMMA DeletePreserves ==
    ASSUME RegistryInv, NEW id \in SessionIDs, Delete(id)
    PROVE  /\ RegistryInv'
           /\ DOMAIN sessions' = DOMAIN sessions \ {id}
           /\ \A x \in DOMAIN sessions' : sessions'[x] = sessions[x]
<1>1. /\ DOMAIN sessions' = DOMAIN sessions \ {id}
      /\ \A x \in DOMAIN sessions' : sessions'[x] = sessions[x]
  BY DEF Delete, Without
<1>2. ActiveGaugeExact'
  BY <1>1, RegistryFinite, FS_RemoveElement, FS_CardinalityType
     DEF Delete, Registered, RegistryInv, ActiveGaugeExact
<1>3. active' \in Nat
  BY <1>1, <1>2, RegistryFinite, FS_RemoveElement, FS_CardinalityType
     DEF ActiveGaugeExact
<1>4. SessionsTypeOK'
  <2>1. sessions' \in [DOMAIN sessions' -> SessionContext]
    BY <1>1 DEF Delete, Without, RegistryInv, SessionsTypeOK
  <2>. QED BY <1>1, <1>3, <2>1 DEF RegistryInv, SessionsTypeOK
<1>5. RegisteredSeqEven'
  BY <1>1 DEF RegistryInv, RegisteredSeqEven
<1>. QED BY <1>1, <1>2, <1>4, <1>5 DEF RegistryInv

\* A sweep removes the expired sessions and counts each of them once.
LEMMA SweepPreserves ==
    ASSUME RegistryInv, SweepExpired
    PROVE  /\ RegistryInv'
           /\ DOMAIN sessions' \subseteq DOMAIN sessions
           /\ \A x \in DOMAIN sessions' : sessions'[x] = sessions[x]
<1>1. /\ DOMAIN sessions' = DOMAIN sessions \ Expired
      /\ \A x \in DOMAIN sessions' : sessions'[x] = sessions[x]
  BY DEF SweepExpired, Without
<1>2. Expired \subseteq DOMAIN sessions
  BY DEF Expired
<1>3. DOMAIN sessions \cap Expired = Expired
  BY <1>2
<1>4. ActiveGaugeExact'
  <2>1. Cardinality(DOMAIN sessions \ Expired)
          = Cardinality(DOMAIN sessions) - Cardinality(Expired)
    <3>1. Cardinality(DOMAIN sessions \ Expired) = Cardinality(DOMAIN sessions)
            - Cardinality(DOMAIN sessions \cap Expired)
      BY RegistryFinite, FS_Difference
    <3>. QED BY <1>3, <3>1, Zenon
  <2>. QED BY <1>1, <2>1 DEF SweepExpired, RegistryInv, ActiveGaugeExact
<1>5. active' \in Nat
  BY <1>1, <1>4, RegistryFinite, FS_Difference, FS_CardinalityType
     DEF ActiveGaugeExact
<1>6. SessionsTypeOK'
  <2>1. sessions' \in [DOMAIN sessions' -> SessionContext]
    BY <1>1 DEF SweepExpired, Without, RegistryInv, SessionsTypeOK
  <2>. QED BY <1>1, <1>5, <2>1 DEF RegistryInv, SessionsTypeOK
<1>7. RegisteredSeqEven'
  BY <1>1 DEF RegistryInv, RegisteredSeqEven
<1>. QED BY <1>1, <1>4, <1>6, <1>7 DEF RegistryInv

\* A clock tick changes nothing but idle times.
LEMMA AgePreserves ==
    ASSUME RegistryInv, AgeSessions, UNCHANGED active
    PROVE  /\ RegistryInv'
           /\ DOMAIN sessions' = DOMAIN sessions
           /\ \A x \in DOMAIN sessions :
                /\ sessions'[x].start = sessions[x].start
                /\ sessions'[x].lastOutboundSeq = sessions[x].lastOutboundSeq
<1>1. DOMAIN sessions' = DOMAIN sessions
  BY DEF AgeSessions
<1>2. ASSUME NEW x \in DOMAIN sessions
      PROVE  /\ sessions'[x] \in SessionContext
             /\ sessions'[x].start = sessions[x].start
             /\ sessions'[x].lastOutboundSeq = sessions[x].lastOutboundSeq
  BY <1>2, SessionsAssumption
     DEF AgeSessions, RegistryInv, SessionsTypeOK, SessionContext
<1>3. SessionsTypeOK'
  <2>1. sessions' \in [DOMAIN sessions' -> SessionContext]
    BY <1>1, <1>2 DEF AgeSessions
  <2>. QED BY <1>1, <2>1 DEF RegistryInv, SessionsTypeOK
<1>4. ActiveGaugeExact' /\ RegisteredSeqEven'
  BY <1>1, <1>2 DEF RegistryInv, ActiveGaugeExact, RegisteredSeqEven
<1>. QED BY <1>1, <1>2, <1>3, <1>4 DEF RegistryInv

-----------------------------------------------------------------------------
\* Init establishes the invariant.
LEMMA InitInv == Init => Inv
<1>. SUFFICES ASSUME Init PROVE Inv
  OBVIOUS
<1>1. DOMAIN sessions = {} /\ active = 0
  BY DEF Init, SessionsInit
<1>2. SessionsTypeOK /\ RegisteredSeqEven
  BY <1>1 DEF Init, SessionsInit, SessionsTypeOK, RegisteredSeqEven
<1>3. ActiveGaugeExact
  BY <1>1, FS_EmptySet DEF ActiveGaugeExact
<1>4. TypeOK
  BY <1>2 DEF Init, TypeOK, PCs, Modes
<1>5. ControlInv /\ AuthenRepliesEven
  BY DEF Init, ControlInv, AuthenRepliesEven, InHand, NoReply
<1>. QED BY <1>2, <1>3, <1>4, <1>5 DEF Inv

\* A goroutine that starts writing a reply r, changing no connection state
\* but possibly term, keeps the invariant if the registry does and if an
\* authentication reply answers an authentication packet under an even seq_no.
LEMMA WritePreserves ==
    ASSUME Inv, RegistryInv', NEW c \in Conns, NEW r \in Reply,
           pc[c] \in InHand, Write(c, r),
           r.type = "authen" => req[c].type = "authen" /\ r.seq % 2 = 0,
           term' \in [Conns -> BOOLEAN],
           UNCHANGED <<mode, first, connFlags, req, start, closed, latest>>
    PROVE  Inv'
<1>1. TypeOK'
  BY DEF Inv, TypeOK, RegistryInv, Write, PCs
<1>2. ControlInv'
  BY DEF Inv, TypeOK, ControlInv, Write, InHand
<1>3. AuthenRepliesEven'
  BY DEF Inv, TypeOK, AuthenRepliesEven, Write
<1>. QED BY <1>1, <1>2, <1>3 DEF Inv, RegistryInv

\* The registry does not change.
LEMMA RegistryUnchanged ==
    ASSUME Inv, UNCHANGED <<sessions, active>>
    PROVE  RegistryInv'
BY DEF Inv, TypeOK, RegistryInv, SessionsTypeOK, ActiveGaugeExact,
       RegisteredSeqEven

\* Every step preserves the invariant.
LEMMA NextInv == Inv /\ [Next]_vars => Inv'
<1>. SUFFICES ASSUME Inv, [Next]_vars PROVE Inv'
  OBVIOUS
<1>0. RegistryInv
  BY DEF Inv, TypeOK, RegistryInv
<1>1. ASSUME NEW c \in Conns, pc[c] \in InHand
      PROVE  /\ req[c] \in Packets(c)
             /\ req[c] \in Packet
             /\ req[c].id \in SessionIDs
             /\ req[c].seq \in SeqNo
             /\ GenericReply(req[c]) \in Reply
             /\ GenericReply(req[c]).type = "generic"
  <2>1. req[c] \in Packets(c)
    BY <1>1 DEF Inv, ControlInv
  <2>. QED BY <2>1, PacketsType, ReplyType
<1>2. ASSUME NEW c \in Conns, AcceptConn(c) PROVE Inv'
  <2>1. RegistryInv'
    BY <1>2, RegistryUnchanged DEF AcceptConn
  <2>2. TypeOK'
    BY <1>2, <2>1, ServerAssumption
       DEF AcceptConn, Inv, TypeOK, RegistryInv, PCs
  <2>3. ControlInv' /\ AuthenRepliesEven'
    BY <1>2 DEF AcceptConn, Inv, TypeOK, ControlInv, AuthenRepliesEven, InHand
  <2>. QED BY <2>1, <2>2, <2>3 DEF Inv, RegistryInv
<1>3. ASSUME NEW c \in Conns, NEW p \in Packets(c), ReadPacket(c, p)
      PROVE  Inv'
  <2>1. RegistryInv'
    BY <1>3, RegistryUnchanged DEF ReadPacket
  <2>2. p \in Packet /\ p.flags \in HdrFlags /\ GenericReply(p) \in Reply
          /\ GenericReply(p).type = "generic"
    BY PacketsType, ReplyType
  <2>3. TypeOK'
    BY <1>3, <2>1, <2>2 DEF ReadPacket, Write, Inv, TypeOK, RegistryInv, PCs
  <2>4. ControlInv' /\ AuthenRepliesEven'
    BY <1>3, <2>2 DEF ReadPacket, Write, Inv, TypeOK, ControlInv,
                      AuthenRepliesEven, InHand, NoReply
  <2>. QED BY <2>1, <2>3, <2>4 DEF Inv, RegistryInv
<1>4. ASSUME NEW c \in Conns, EndConn(c) PROVE Inv'
  <2>1. RegistryInv'
    BY <1>4, RegistryUnchanged DEF EndConn
  <2>2. TypeOK'
    BY <1>4, <2>1 DEF EndConn, Inv, TypeOK, RegistryInv, PCs
  <2>3. ControlInv' /\ AuthenRepliesEven'
    BY <1>4 DEF EndConn, Inv, TypeOK, ControlInv, AuthenRepliesEven, InHand
  <2>. QED BY <2>1, <2>2, <2>3 DEF Inv, RegistryInv
<1>5. ASSUME NEW c \in Conns, StartAuthen(c) PROVE Inv'
  <2>1. pc[c] \in InHand /\ pc[c] = "handle"
    BY <1>5 DEF StartAuthen, InHand
  <2>2. CASE req[c].body = "undecodable"
    BY <1>1, <1>5, <2>1, <2>2, RegistryUnchanged, WritePreserves
       DEF StartAuthen, Inv, TypeOK
  <2>3. CASE req[c].body # "undecodable"
    <3>1. req[c].body \in Starts /\ Set(req[c].id, req[c].body)
      BY <1>1, <1>5, <2>1, <2>3, PacketsType DEF StartAuthen
    <3>2. RegistryInv'
      BY <1>0, <1>1, <2>1, <3>1, SetPreserves
    <3>3. TypeOK'
      <4>1. latest' \in [Conns -> [SessionIDs -> Starts \cup {NoStart}]]
        <5>1. latest' = [latest EXCEPT ![c][req[c].id] = req[c].body]
          BY <1>5, <2>3 DEF StartAuthen
        <5>2. latest \in [Conns -> [SessionIDs -> Starts \cup {NoStart}]]
          BY DEF Inv, TypeOK
        <5>3. req[c].id \in SessionIDs
          BY <1>1, <2>1
        <5>. QED BY <3>1, <5>1, <5>2, <5>3
      <4>2. /\ start' \in [Conns -> Starts \cup {NoStart}]
            /\ pc' \in [Conns -> PCs]
            /\ UNCHANGED <<mode, first, connFlags, req, reply, term, closed>>
        BY <1>5, <2>3, <3>1 DEF StartAuthen, Inv, TypeOK, PCs
      <4>. QED BY <3>2, <4>1, <4>2 DEF Inv, TypeOK, RegistryInv
    <3>4. ControlInv' /\ AuthenRepliesEven'
      BY <1>1, <1>5, <2>1, <2>3 DEF StartAuthen, Inv, TypeOK, ControlInv,
                                    AuthenRepliesEven, InHand
    <3>. QED BY <3>2, <3>3, <3>4 DEF Inv, RegistryInv
  <2>. QED BY <2>2, <2>3
<1>6. ASSUME NEW c \in Conns, ContinueAuthen(c) PROVE Inv'
  <2>1. pc[c] \in InHand /\ pc[c] = "handle" /\ req[c].type = "authen"
    BY <1>6 DEF ContinueAuthen, InHand
  <2>2. RegistryInv'
    BY <1>6, RegistryUnchanged DEF ContinueAuthen
  <2>3. CASE Write(c, GenericReply(req[c])) /\ UNCHANGED start
    BY <1>1, <1>6, <2>1, <2>2, <2>3, WritePreserves
       DEF ContinueAuthen, Inv, TypeOK
  <2>4. CASE pc' = [pc EXCEPT ![c] = "reject"] /\ UNCHANGED <<start, reply>>
    <3>1. TypeOK'
      BY <1>6, <2>2, <2>4 DEF ContinueAuthen, Inv, TypeOK, RegistryInv, PCs
    <3>2. ControlInv' /\ AuthenRepliesEven'
      BY <1>1, <1>6, <2>1, <2>4 DEF ContinueAuthen, Inv, TypeOK, ControlInv,
                                    AuthenRepliesEven, InHand
    <3>. QED BY <2>2, <3>1, <3>2 DEF Inv, RegistryInv
  <2>5. CASE /\ Registered(req[c].id)
             /\ ValidateNextSeqNo(req[c].seq,
                                  sessions[req[c].id].lastOutboundSeq)
             /\ start' = [start EXCEPT ![c] = sessions[req[c].id].start]
             /\ pc' = [pc EXCEPT ![c] = "authen"]
             /\ UNCHANGED reply
    <3>1. sessions[req[c].id] \in SessionContext
      BY <2>5 DEF Registered, Inv, TypeOK, SessionsTypeOK
    <3>2. req[c].seq % 2 = 1
      <4>1. sessions[req[c].id].lastOutboundSeq \in SeqNo
               /\ sessions[req[c].id].lastOutboundSeq % 2 = 0
        BY <2>5, <3>1 DEF Registered, SessionContext, Inv, RegisteredSeqEven
      <4>. QED BY <2>5, <4>1, NextByteFacts DEF ValidateNextSeqNo
    <3>3. sessions[req[c].id].start \in Starts
      BY <3>1 DEF SessionContext
    <3>4. TypeOK'
      BY <1>6, <2>2, <2>5, <3>3
         DEF ContinueAuthen, Inv, TypeOK, RegistryInv, PCs
    <3>5. ControlInv' /\ AuthenRepliesEven'
      BY <1>1, <1>6, <2>1, <2>5, <3>2
         DEF ContinueAuthen, Inv, TypeOK, ControlInv, AuthenRepliesEven, InHand
    <3>. QED BY <2>2, <3>4, <3>5 DEF Inv, RegistryInv
  <2>. QED BY <1>6, <2>3, <2>4, <2>5 DEF ContinueAuthen
<1>7. ASSUME NEW c \in Conns, RejectSeq(c) PROVE Inv'
  <2>1. pc[c] \in InHand
    BY <1>7 DEF RejectSeq, InHand
  <2>2. RegistryInv'
    BY <1>0, <1>1, <1>7, <2>1, DeletePreserves DEF RejectSeq
  <2>. QED
    BY <1>1, <1>7, <2>1, <2>2, WritePreserves DEF RejectSeq, Inv, TypeOK
<1>8. ASSUME NEW c \in Conns, AuthenDecide(c) PROVE Inv'
  <2>1. pc[c] \in InHand /\ req[c].type = "authen" /\ req[c].seq % 2 = 1
    BY <1>8 DEF AuthenDecide, InHand, Inv, ControlInv
  <2>2. PICK status \in Decisions, fits \in BOOLEAN :
          /\ IF status \in TerminalStatus
             THEN Delete(req[c].id)
             ELSE Update(req[c].id, NextByte(req[c].seq))
          /\ Write(c, IF fits THEN StatusReply(req[c], "authen", status)
                              ELSE GenericReply(req[c]))
    BY <1>8 DEF AuthenDecide
  <2>3. NextByte(req[c].seq) \in SeqNo /\ NextByte(req[c].seq) % 2 = 0
    BY <1>1, <2>1, NextByteFacts
  <2>4. RegistryInv'
    BY <1>0, <1>1, <2>1, <2>2, <2>3, DeletePreserves, UpdatePreserves
  <2>5. StatusReply(req[c], "authen", status) \in Reply
          /\ StatusReply(req[c], "authen", status).seq % 2 = 0
    BY <1>1, <2>1, <2>3, ReplyType, ServerAssumption DEF StatusReply
  <2>. QED
    BY <1>1, <1>8, <2>1, <2>2, <2>4, <2>5, WritePreserves
       DEF AuthenDecide, Inv, TypeOK
<1>9. ASSUME NEW c \in Conns, AuthenFail(c) PROVE Inv'
  <2>1. pc[c] \in InHand /\ req[c].type = "authen" /\ req[c].seq % 2 = 1
    BY <1>9 DEF AuthenFail, InHand, Inv, ControlInv
  <2>2. RegistryInv'
    BY <1>0, <1>1, <1>9, <2>1, DeletePreserves DEF AuthenFail
  <2>3. StatusReply(req[c], "authen", "ERROR") \in Reply
          /\ StatusReply(req[c], "authen", "ERROR").seq % 2 = 0
    BY <1>1, <2>1, ReplyType, NextByteFacts DEF StatusReply, AuthenStatus
  <2>. QED
    BY <1>9, <2>1, <2>2, <2>3, WritePreserves DEF AuthenFail, Inv, TypeOK
<1>10. ASSUME NEW c \in Conns, AuthenPanic(c) PROVE Inv'
  <2>1. pc[c] \in InHand
    BY <1>10 DEF AuthenPanic, InHand
  <2>. QED
    BY <1>1, <1>10, <2>1, RegistryUnchanged, WritePreserves
       DEF AuthenPanic, Inv, TypeOK
<1>11. ASSUME NEW c \in Conns, NEW type \in {"author", "acct"},
              HandleStateless(c, type)
       PROVE  Inv'
  <2>1. pc[c] \in InHand
    BY <1>11 DEF HandleStateless, InHand
  <2>2. \A st \in {"decided", "ERROR"} :
          /\ StatusReply(req[c], type, st) \in Reply
          /\ StatusReply(req[c], type, st).type # "authen"
    BY <1>1, <2>1, ReplyType DEF StatusReply
  <2>3. PICK r \in Reply : Write(c, r) /\ r.type # "authen"
    BY <1>1, <1>11, <2>1, <2>2 DEF HandleStateless
  <2>4. term' \in [Conns -> BOOLEAN]
    BY <1>11 DEF HandleStateless, Inv, TypeOK
  <2>. QED
    BY <1>11, <2>1, <2>3, <2>4, RegistryUnchanged, WritePreserves
       DEF HandleStateless
<1>12. ASSUME NEW c \in Conns, HandleUnknown(c) PROVE Inv'
  <2>1. pc[c] \in InHand
    BY <1>12 DEF HandleUnknown, InHand
  <2>. QED
    BY <1>1, <1>12, <2>1, RegistryUnchanged, WritePreserves
       DEF HandleUnknown, Inv, TypeOK
<1>13. ASSUME NEW c \in Conns, WriteReply(c) PROVE Inv'
  <2>1. RegistryInv'
    BY <1>13, RegistryUnchanged DEF WriteReply
  <2>2. TypeOK'
    BY <1>13, <2>1 DEF WriteReply, Inv, TypeOK, RegistryInv, PCs
  <2>3. ControlInv' /\ AuthenRepliesEven'
    BY <1>13 DEF WriteReply, Inv, TypeOK, ControlInv, AuthenRepliesEven,
                 InHand, NoReply
  <2>. QED BY <2>1, <2>2, <2>3 DEF Inv, RegistryInv
<1>14. CASE Tick
  <2>1. RegistryInv'
    BY <1>0, <1>14, AgePreserves DEF Tick
  <2>2. TypeOK' /\ ControlInv' /\ AuthenRepliesEven'
    BY <1>14, <2>1 DEF Tick, Inv, TypeOK, RegistryInv, ControlInv,
                       AuthenRepliesEven
  <2>. QED BY <2>1, <2>2 DEF Inv, RegistryInv
<1>15. CASE Sweep
  <2>1. RegistryInv'
    BY <1>0, <1>15, SweepPreserves DEF Sweep
  <2>2. TypeOK' /\ ControlInv' /\ AuthenRepliesEven'
    BY <1>15, <2>1 DEF Sweep, Inv, TypeOK, RegistryInv, ControlInv,
                       AuthenRepliesEven
  <2>. QED BY <2>1, <2>2 DEF Inv, RegistryInv
<1>16. CASE Close
  <2>1. RegistryInv'
    BY <1>16, RegistryUnchanged DEF Close
  <2>2. TypeOK' /\ ControlInv' /\ AuthenRepliesEven'
    BY <1>16, <2>1 DEF Close, Inv, TypeOK, RegistryInv, ControlInv,
                       AuthenRepliesEven
  <2>. QED BY <2>1, <2>2 DEF Inv, RegistryInv
<1>17. CASE UNCHANGED vars
  <2>1. RegistryInv'
    BY <1>17, RegistryUnchanged DEF vars
  <2>2. TypeOK' /\ ControlInv' /\ AuthenRepliesEven'
    BY <1>17, <2>1 DEF vars, Inv, TypeOK, RegistryInv, ControlInv,
                       AuthenRepliesEven
  <2>. QED BY <2>1, <2>2 DEF Inv, RegistryInv
<1>. QED
  BY <1>2, <1>3, <1>4, <1>5, <1>6, <1>7, <1>8, <1>9, <1>10, <1>11, <1>12,
     <1>13, <1>14, <1>15, <1>16, <1>17
     DEF Next, Serve, HandleAuthor, HandleAcct

\* Inv is an invariant of the server.
THEOREM InvHolds == Spec => []Inv
BY InitInv, NextInv, PTL DEF Spec

\* The server's state keeps its types whatever clients send: in particular
\* every seq_no the server records or sends stays a byte.
THEOREM TypeCorrect == Spec => []TypeOK
<1>1. Inv => TypeOK
  BY DEF Inv
<1>. QED BY <1>1, InvHolds, PTL

\* The active-session gauge equals the size of the session map, for any
\* number of connections (Set, Delete, SweepExpired).
THEOREM GaugeCorrect == Spec => []ActiveGaugeExact
<1>1. Inv => ActiveGaugeExact
  BY DEF Inv
<1>. QED BY <1>1, InvHolds, PTL

\* Authentication replies go out under even seq_no, and the registry only
\* ever expects odd ones, although no parity is tested (ValidateNextSeqNo,
\* writeReply), even for clients that share session ids.
THEOREM ParityCorrect == Spec => [](RegisteredSeqEven /\ AuthenRepliesEven)
<1>1. Inv => RegisteredSeqEven /\ AuthenRepliesEven
  BY DEF Inv
<1>. QED BY <1>1, InvHolds, PTL

\* Every authentication reply the server writes has an even seq_no, whatever
\* clients send and share (writeReply).
THEOREM RepliesCorrect == Spec => []AuthenRepliesEven
BY ParityCorrect, PTL

-----------------------------------------------------------------------------
\* What ProtectionEnforced needs to be inductive: a connection's mode is one
\* the SecretProvider returned, and a packet in hand passed checkFlags.
FlagsInv ==
    \A c \in Conns :
        /\ pc[c] # "none" => mode[c] \in ProviderModes
        /\ pc[c] \in {"handle", "reject", "authen"} =>
             /\ req[c].flags = connFlags[c]
             /\ CheckFlags(mode[c], req[c].flags)

\* Every step preserves FlagsInv.
LEMMA NextFlags == Inv /\ FlagsInv /\ [Next]_vars => FlagsInv'
<1>. SUFFICES ASSUME Inv, FlagsInv, [Next]_vars PROVE FlagsInv'
  OBVIOUS
<1>1. ASSUME NEW c \in Conns, AcceptConn(c) PROVE FlagsInv'
  BY <1>1 DEF AcceptConn, Inv, TypeOK, FlagsInv
<1>2. ASSUME NEW c \in Conns, NEW p \in Packets(c), ReadPacket(c, p)
      PROVE  FlagsInv'
  BY <1>2 DEF ReadPacket, Write, Inv, TypeOK, FlagsInv
<1>3. ASSUME NEW c \in Conns, EndConn(c) PROVE FlagsInv'
  BY <1>3 DEF EndConn, Inv, TypeOK, FlagsInv
<1>4. ASSUME NEW c \in Conns, StartAuthen(c) \/ ContinueAuthen(c)
      PROVE  FlagsInv'
  BY <1>4 DEF StartAuthen, ContinueAuthen, Write, Inv, TypeOK, FlagsInv
<1>5. ASSUME NEW c \in Conns, NEW r, Write(c, r), pc[c] \in InHand,
             UNCHANGED <<mode, connFlags, req>>
      PROVE  FlagsInv'
  BY <1>5 DEF Write, InHand, Inv, TypeOK, FlagsInv
<1>6. ASSUME NEW c \in Conns,
             \/ RejectSeq(c) \/ AuthenDecide(c) \/ AuthenFail(c)
             \/ AuthenPanic(c) \/ HandleAuthor(c) \/ HandleAcct(c)
             \/ HandleUnknown(c)
      PROVE  FlagsInv'
  BY <1>5, <1>6 DEF RejectSeq, AuthenDecide, AuthenFail, AuthenPanic, InHand,
                    HandleAuthor, HandleAcct, HandleStateless, HandleUnknown
<1>7. ASSUME NEW c \in Conns, WriteReply(c) PROVE FlagsInv'
  BY <1>7 DEF WriteReply, Inv, TypeOK, FlagsInv
<1>8. CASE Tick \/ Sweep \/ Close \/ UNCHANGED vars
  BY <1>8 DEF Tick, Sweep, Close, vars, FlagsInv
<1>. QED BY <1>1, <1>2, <1>3, <1>4, <1>6, <1>7, <1>8 DEF Next, Serve

\* The packets that reach a handler passed checkFlags and carry the flags of
\* their connection's first packet (ServeConn).
THEOREM FlagsHold == Spec => []FlagsInv
<1>1. Init => FlagsInv
  BY DEF Init, FlagsInv
<1>. QED BY <1>1, NextFlags, InvHolds, PTL DEF Spec

\* When Config.Mode agrees with the modes the SecretProvider returns, the
\* packets that reach a handler carry the flags of their connection's first
\* packet, and the protection its mode asks for (checkFlags, ServeConn).
THEOREM ProtectionCorrect ==
    ASSUME ModesAgree PROVE Spec => []ProtectionEnforced
<1>1. FlagsInv => ProtectionEnforced
  BY ServerAssumption DEF FlagsInv, ProtectionEnforced, ModesAgree, CheckFlags,
                          PolicyAllowsUnencrypted, Modes
<1>. QED BY <1>1, FlagsHold, PTL
=============================================================================
