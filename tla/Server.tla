------------------------------- MODULE Server -------------------------------
(***************************************************************************)
(* The dispatch core of a TACACS+ server (server/server.go and             *)
(* server/middleware.go): one goroutine per connection runs ServeConn, all *)
(* share the session registry of Sessions.tla, and a background goroutine  *)
(* sweeps it.                                                              *)
(*                                                                         *)
(* Clients are unconstrained: a connection may deliver any packet of       *)
(* Packets(c) whenever ServeConn reads.  A goroutine's steps are cut where *)
(* it takes or releases the registry's mutex, calls the application's      *)
(* Handler or writes to the socket:                                        *)
(*                                                                         *)
(*   none --AcceptConn--> read --ReadPacket--> handle --StartAuthen,       *)
(*   ContinueAuthen--> authen --AuthenDecide--> write --WriteReply--> read *)
(*                                                                         *)
(* with handle --ContinueAuthen--> reject --RejectSeq--> write for a wrong *)
(* seq_no and handle --HandleAuthor, HandleAcct, HandleUnknown--> write    *)
(* for the packets that leave the registry alone.                          *)
(*                                                                         *)
(* sessions.Get and the read of sctx.lastOutboundSeq and sctx.start that   *)
(* follows it outside the lock are one step: start never changes after     *)
(* Set, and a context that left the map in between keeps the seq_no it had *)
(* when it left, so the pair behaves as if it ran at one instant.          *)
(***************************************************************************)
EXTENDS Sessions

CONSTANTS
    Conns,                \* connection slots, one client behind each
    IdsOf,                \* the session ids each connection's client uses
    InboundSeqs,          \* seq_no values a client may send
    HdrFlags,             \* header flags a client may send (sets of names)
    PacketTypes,          \* packet types a client may send
    Decisions,            \* statuses Handler.Authenticate may decide
    ProviderModes,        \* transport modes SecretProvider.Get may return
    CfgMode,              \* Config.Mode
    CfgAllowUnencrypted   \* Config.AllowUnencrypted

Modes == {"legacy", "tls"}
AuthenStatus == {"PASS", "FAIL", "ERROR", "GETUSER", "GETPASS", "GETDATA",
                 "RESTART", "FOLLOW"}
TerminalStatus == {"PASS", "FAIL", "ERROR"}
AllTypes == {"authen", "author", "acct", "unknown"}

\* What a body is to the server: a decodable one ("ok", for an authentication
\* START its contents), one whose lengths do not add up ("undecodable"), or
\* one that decodes but whose arguments or flags the handler refuses before
\* it calls the application ("refused").
BodyKinds == {"ok", "undecodable", "refused"}

ASSUME ServerAssumption ==
    /\ IdsOf \in [Conns -> SUBSET SessionIDs]
    /\ InboundSeqs \subseteq SeqNo
    /\ PacketTypes \subseteq AllTypes
    /\ Decisions \subseteq AuthenStatus
    /\ ProviderModes \subseteq Modes
    /\ CfgMode \in Modes
    /\ CfgAllowUnencrypted \in BOOLEAN
    /\ Starts \cap BodyKinds = {}

VARIABLES
    pc,          \* where each connection's goroutine is
    mode,        \* transport.Conn.mode
    first,       \* ServeConn's first: no packet accepted yet
    connFlags,   \* the flags of the connection's first packet
    req,         \* the packet being handled
    start,       \* the START handed to the Handler
    reply,       \* the reply being written
    term,        \* ServeConn returns after this reply
    closed,      \* Server.Close was called
    latest       \* history: the last START each client sent in each session

vars == <<sessions, active, pc, mode, first, connFlags, req, start, reply,
          term, closed, latest>>

Packet == [type : AllTypes, id : SessionIDs, seq : SeqNo, flags : HdrFlags,
           body : Starts \cup BodyKinds]
NoPacket == [type |-> "none"]

\* A generic error is the header-only packet; the others carry a status.
Reply == [type : {"generic"}, seq : SeqNo]
           \cup [type : {"authen"}, seq : SeqNo, status : AuthenStatus]
           \cup [type : {"author", "acct"}, seq : SeqNo,
                 status : {"decided", "ERROR"}]
NoReply == [type |-> "none"]

NoStart == "none"

PCs == {"none", "read", "handle", "reject", "authen", "write"}

TypeOK ==
    /\ SessionsTypeOK
    /\ pc \in [Conns -> PCs]
    /\ mode \in [Conns -> Modes]
    /\ first \in [Conns -> BOOLEAN]
    /\ connFlags \in [Conns -> HdrFlags \cup {{}}]
    /\ req \in [Conns -> Packet \cup {NoPacket}]
    /\ start \in [Conns -> Starts \cup {NoStart}]
    /\ reply \in [Conns -> Reply \cup {NoReply}]
    /\ term \in [Conns -> BOOLEAN]
    /\ closed \in BOOLEAN
    /\ latest \in [Conns -> [SessionIDs -> Starts \cup {NoStart}]]

Init ==
    /\ SessionsInit
    /\ pc = [c \in Conns |-> "none"]
    /\ mode = [c \in Conns |-> "legacy"]
    /\ first = [c \in Conns |-> TRUE]
    /\ connFlags = [c \in Conns |-> {}]
    /\ req = [c \in Conns |-> NoPacket]
    /\ start = [c \in Conns |-> NoStart]
    /\ reply = [c \in Conns |-> NoReply]
    /\ term = [c \in Conns |-> FALSE]
    /\ closed = FALSE
    /\ latest = [c \in Conns |-> [id \in SessionIDs |-> NoStart]]

-----------------------------------------------------------------------------
\* The packets the client of connection c may send.
Packets(c) ==
    {p \in [type : PacketTypes, id : IdsOf[c], seq : InboundSeqs,
            flags : HdrFlags, body : Starts \cup BodyKinds] :
       IF p.type = "authen" /\ p.seq = 1
       THEN p.body \in Starts \cup {"undecodable"}
       ELSE IF p.type = "authen" THEN p.body \in {"ok", "undecodable"}
       ELSE p.body \in BodyKinds}

\* The policy New builds from Config.
PolicyAllowsUnencrypted == CfgAllowUnencrypted \/ CfgMode = "tls"

\* checkFlags, with EnforceTLSFlagPolicy and CheckUnencryptedFlag.
CheckFlags(m, flags) ==
    IF m = "tls"
    THEN "unencrypted" \in flags
    ELSE "unencrypted" \in flags => PolicyAllowsUnencrypted

\* Begin writing a reply to the packet in hand.  The reply's seq_no is the
\* packet's plus one, in a byte.
GenericReply(p) == [type |-> "generic", seq |-> NextByte(p.seq)]
StatusReply(p, type, status) ==
    [type |-> type, seq |-> NextByte(p.seq), status |-> status]

Write(c, r) ==
    /\ pc' = [pc EXCEPT ![c] = "write"]
    /\ reply' = [reply EXCEPT ![c] = r]

\* AcceptConn: the SecretProvider answers with a mode and ServeConn starts.
\* (On a provider error the socket is closed and nothing else happens.)
AcceptConn(c) ==
    /\ pc[c] = "none"
    /\ pc' = [pc EXCEPT ![c] = "read"]
    /\ \E m \in ProviderModes : mode' = [mode EXCEPT ![c] = m]
    /\ first' = [first EXCEPT ![c] = TRUE]
    /\ connFlags' = [connFlags EXCEPT ![c] = {}]
    /\ UNCHANGED <<sessions, active, req, start, reply, term, closed,
                   latest>>

\* Mutant: the flags are not compared with those of the first packet.
ReadPacketAnyFlags(c, p) ==
    /\ pc[c] = "read"
    /\ req' = [req EXCEPT ![c] = p]
    /\ IF CheckFlags(mode[c], p.flags)
       THEN /\ pc' = [pc EXCEPT ![c] = "handle"]
            /\ first' = [first EXCEPT ![c] = FALSE]
            /\ connFlags' = IF first[c]
                            THEN [connFlags EXCEPT ![c] = p.flags]
                            ELSE connFlags
            /\ UNCHANGED <<reply, term>>
       ELSE /\ Write(c, GenericReply(p))
            /\ term' = [term EXCEPT ![c] = TRUE]
            /\ UNCHANGED <<first, connFlags>>
    /\ UNCHANGED <<sessions, active, mode, start, closed, latest>>

\* ServeConn from ReadPacket to the call of the handler chain: flag policy,
\* then flag consistency with the connection's first packet.
ReadPacket(c, p) ==
    /\ pc[c] = "read"
    /\ req' = [req EXCEPT ![c] = p]
    /\ IF CheckFlags(mode[c], p.flags) /\ (first[c] \/ p.flags = connFlags[c])
       THEN /\ pc' = [pc EXCEPT ![c] = "handle"]
            /\ first' = [first EXCEPT ![c] = FALSE]
            /\ connFlags' = [connFlags EXCEPT ![c] = p.flags]
            /\ UNCHANGED <<reply, term>>
       ELSE /\ Write(c, GenericReply(p))
            /\ term' = [term EXCEPT ![c] = TRUE]
            /\ UNCHANGED <<first, connFlags>>
    /\ UNCHANGED <<sessions, active, mode, start, closed, latest>>

\* ServeConn returns at the top of its loop: the context is cancelled, or
\* ReadPacket fails (peer gone, timeout, bad version, oversized length).
EndConn(c) ==
    /\ pc[c] = "read"
    /\ pc' = [pc EXCEPT ![c] = "none"]
    /\ UNCHANGED <<sessions, active, mode, first, connFlags, req, start, reply,
                   term, closed, latest>>

-----------------------------------------------------------------------------
\* handleAuthen on seq_no 1.
StartAuthen(c) ==
    LET p == req[c] IN
    /\ pc[c] = "handle" /\ p.type = "authen" /\ p.seq = 1
    /\ IF p.body = "undecodable"
       THEN /\ Write(c, GenericReply(p))
            /\ UNCHANGED <<sessions, active, start, latest>>
       ELSE /\ Set(p.id, p.body)
            /\ start' = [start EXCEPT ![c] = p.body]
            /\ latest' = [latest EXCEPT ![c][p.id] = p.body]
            /\ pc' = [pc EXCEPT ![c] = "authen"]
            /\ UNCHANGED reply
    /\ UNCHANGED <<mode, first, connFlags, req, term, closed>>

\* handleAuthen on any other seq_no, up to the call of the Handler: Get,
\* ValidateNextSeqNo, decode.
ContinueAuthen(c) ==
    LET p == req[c]
        known == Registered(p.id)
        sctx == sessions[p.id]
        inOrder == ValidateNextSeqNo(p.seq, sctx.lastOutboundSeq)
    IN
    /\ pc[c] = "handle" /\ p.type = "authen" /\ p.seq # 1
    /\ \/ /\ ~known
          /\ Write(c, GenericReply(p))
          /\ UNCHANGED start
       \/ /\ known /\ ~inOrder
          /\ pc' = [pc EXCEPT ![c] = "reject"]
          /\ UNCHANGED <<start, reply>>
       \/ /\ known /\ inOrder /\ p.body = "undecodable"
          /\ Write(c, GenericReply(p))
          /\ UNCHANGED start
       \/ /\ known /\ inOrder /\ p.body # "undecodable"
          /\ start' = [start EXCEPT ![c] = sctx.start]
          /\ pc' = [pc EXCEPT ![c] = "authen"]
          /\ UNCHANGED reply
    /\ UNCHANGED <<sessions, active, mode, first, connFlags, req, term,
                   closed, latest>>

\* The seq_no was wrong: the session is dropped, whoever registered it.
RejectSeq(c) ==
    /\ pc[c] = "reject"
    /\ Delete(req[c].id)
    /\ Write(c, GenericReply(req[c]))
    /\ UNCHANGED <<mode, first, connFlags, req, start, term, closed,
                   latest>>

\* Mutant: the client's seq_no is recorded instead of the reply's.
AuthenDecideRecordsInbound(c) ==
    LET p == req[c] IN
    /\ pc[c] = "authen"
    /\ \E status \in Decisions, fits \in BOOLEAN :
         /\ IF status \in TerminalStatus
            THEN Delete(p.id)
            ELSE Update(p.id, p.seq)
         /\ Write(c, IF fits THEN StatusReply(p, "authen", status)
                             ELSE GenericReply(p))
    /\ UNCHANGED <<mode, first, connFlags, req, start, term, closed, latest>>

\* handleAuthen after the Handler returned a status: PASS, FAIL and ERROR end
\* the session, any other status records the seq_no of the reply.  A reply
\* that cannot be encoded (fits = FALSE) is replaced by the generic error.
AuthenDecide(c) ==
    LET p == req[c] IN
    /\ pc[c] = "authen"
    /\ \E status \in Decisions, fits \in BOOLEAN :
         /\ IF status \in TerminalStatus
            THEN Delete(p.id)
            ELSE Update(p.id, NextByte(p.seq))
         /\ Write(c, IF fits THEN StatusReply(p, "authen", status)
                             ELSE GenericReply(p))
    /\ UNCHANGED <<mode, first, connFlags, req, start, term, closed,
                   latest>>

\* Mutant: a Handler error leaves the session registered.
AuthenFailKeepsSession(c) ==
    LET p == req[c] IN
    /\ pc[c] = "authen"
    /\ Write(c, StatusReply(p, "authen", "ERROR"))
    /\ UNCHANGED <<sessions, active, mode, first, connFlags, req, start, term,
                   closed, latest>>

\* handleAuthen after the Handler returned an error.
AuthenFail(c) ==
    LET p == req[c] IN
    /\ pc[c] = "authen"
    /\ Delete(p.id)
    /\ Write(c, StatusReply(p, "authen", "ERROR"))
    /\ UNCHANGED <<mode, first, connFlags, req, start, term, closed,
                   latest>>

\* The Handler panics: RecoveryMiddleware answers with the generic error and
\* terminates the connection.  The session stays registered.
AuthenPanic(c) ==
    /\ pc[c] = "authen"
    /\ Write(c, GenericReply(req[c]))
    /\ term' = [term EXCEPT ![c] = TRUE]
    /\ UNCHANGED <<sessions, active, mode, first, connFlags, req, start,
                   closed, latest>>

\* handleAuthor and handleAcct leave the registry alone, so the whole request
\* is one step: an undecodable body, a refused one (an argument without a
\* separator, an invalid flag combination), a decision that may be too long
\* to encode, a Handler error, or a panic.
HandleStateless(c, type) ==
    LET p == req[c] IN
    /\ pc[c] = "handle" /\ p.type = type
    /\ \/ /\ p.body = "undecodable"
          /\ Write(c, GenericReply(p))
          /\ UNCHANGED term
       \/ /\ p.body = "refused"
          /\ Write(c, StatusReply(p, type, "ERROR"))
          /\ UNCHANGED term
       \/ /\ p.body = "ok"
          /\ \/ \E r \in {StatusReply(p, type, "decided"),
                          StatusReply(p, type, "ERROR"), GenericReply(p)} :
                  Write(c, r) /\ UNCHANGED term
             \/ /\ Write(c, GenericReply(p))
                /\ term' = [term EXCEPT ![c] = TRUE]
    /\ UNCHANGED <<sessions, active, mode, first, connFlags, req, start,
                   closed, latest>>

HandleAuthor(c) == HandleStateless(c, "author")
HandleAcct(c) == HandleStateless(c, "acct")

\* handlerAdapter.Handle on a packet type it does not know.
HandleUnknown(c) ==
    /\ pc[c] = "handle" /\ req[c].type = "unknown"
    /\ Write(c, GenericReply(req[c]))
    /\ UNCHANGED <<sessions, active, mode, first, connFlags, req, start, term,
                   closed, latest>>

\* Conn.WritePacket and what ServeConn does with its result: a failed write
\* or a terminated response ends the connection, otherwise it reads on.
WriteReply(c) ==
    /\ pc[c] = "write"
    /\ \E written \in BOOLEAN :
         pc' = [pc EXCEPT ![c] =
                   IF written /\ ~term[c] THEN "read" ELSE "none"]
    /\ req' = [req EXCEPT ![c] = NoPacket]
    /\ start' = [start EXCEPT ![c] = NoStart]
    /\ reply' = [reply EXCEPT ![c] = NoReply]
    /\ term' = [term EXCEPT ![c] = FALSE]
    /\ UNCHANGED <<sessions, active, mode, first, connFlags, closed, latest>>

-----------------------------------------------------------------------------
\* Time passes.
Tick ==
    /\ AgeSessions
    /\ UNCHANGED <<active, pc, mode, first, connFlags, req, start, reply, term,
                   closed, latest>>

\* SweepLoop's ticker fires; the loop has ended once Close cancelled it.
Sweep ==
    /\ ~closed
    /\ SweepExpired
    /\ UNCHANGED <<pc, mode, first, connFlags, req, start, reply, term,
                   closed, latest>>

\* Server.Close: the sweeper stops, nothing else does.
Close ==
    /\ ~closed
    /\ closed' = TRUE
    /\ UNCHANGED <<sessions, active, pc, mode, first, connFlags, req, start,
                   reply, term, latest>>

\* What a connection's goroutine does once it has a packet.
Serve(c) ==
    \/ StartAuthen(c) \/ ContinueAuthen(c) \/ RejectSeq(c)
    \/ AuthenDecide(c) \/ AuthenFail(c) \/ AuthenPanic(c)
    \/ HandleAuthor(c) \/ HandleAcct(c) \/ HandleUnknown(c)
    \/ WriteReply(c)

Next ==
    \/ \E c \in Conns :
         \/ AcceptConn(c)
         \/ \E p \in Packets(c) : ReadPacket(c, p)
         \/ EndConn(c)
         \/ Serve(c)
    \/ Tick
    \/ Sweep
    \/ Close

Spec == Init /\ [][Next]_vars

\* Clients owe nothing.  The goroutines run, application handlers return,
\* writes complete or fail, the clock advances and the ticker fires.
FairSpec ==
    /\ Spec
    /\ WF_vars(Tick)
    /\ WF_vars(Sweep)
    /\ \A c \in Conns : WF_vars(Serve(c))
-----------------------------------------------------------------------------
\* Clients that do not share session ids, as random 32-bit ids nearly always
\* make sure of.
DisjointClients ==
    \A c, d \in Conns : c # d => IdsOf[c] \cap IdsOf[d] = {}

\* A server configured for TLS serves no legacy connection, unless cleartext
\* bodies are allowed anyway: then the policy New derives from Config.Mode is
\* the right one for every connection.
ModesAgree ==
    CfgMode = "tls" => CfgAllowUnencrypted \/ "legacy" \notin ProviderModes

\* Connection c is handling a packet of session id.
Handling(c, id) ==
    pc[c] \in {"handle", "reject", "authen"} /\ req[c].id = id

\* "sessions tracks interactive authentication sessions by SessionID so a
\* CONTINUE can be matched to its START": whatever sweeps, restarts,
\* reconnections and other sessions come in between, the START handed to
\* Handler.Authenticate is the latest one this connection's client sent in
\* this session.
ContinueMatchesStart ==
    \A c \in Conns :
        pc[c] = "authen" => start[c] = latest[c][req[c].id]

\* Before a terminal authentication reply (PASS, FAIL, ERROR) reaches the
\* wire its session is gone from the registry, and nothing that happened
\* while the Handler ran brings it back.
TerminalReplyEndsSession ==
    \A c \in Conns :
        (reply[c].type = "authen" /\ reply[c].status \in TerminalStatus)
            => ~Registered(req[c].id)

\* When a client is prompted, the registry expects the answer: the session's
\* lastOutboundSeq is the seq_no of the reply on the wire, unless the session
\* expired while the Handler was running.
PromptMatchesRegistry ==
    \A c \in Conns :
        (reply[c].type = "authen" /\ reply[c].status \notin TerminalStatus
           /\ Registered(req[c].id))
            => sessions[req[c].id].lastOutboundSeq = reply[c].seq

\* writeReply's "next (even) sequence number": no interleaving makes the
\* server send an authentication reply under an odd seq_no, although it
\* never tests a packet's parity.
AuthenRepliesEven ==
    \A c \in Conns : reply[c].type = "authen" => reply[c].seq % 2 = 0

\* On every connection all packets that reach a handler carry the same
\* flags; over TLS they have the unencrypted flag set, and over legacy TCP
\* only if Config.AllowUnencrypted says so (checkFlags, ServeConn).
ProtectionEnforced ==
    \A c \in Conns :
        pc[c] \in {"handle", "reject", "authen"} =>
            /\ req[c].flags = connFlags[c]
            /\ mode[c] = "tls" => "unencrypted" \in req[c].flags
            /\ (mode[c] = "legacy" /\ "unencrypted" \in req[c].flags)
                  => CfgAllowUnencrypted

\* The expected client seq_no of a registered session moves one exchange at
\* a time: it stays, starts over with a new START, or advances by two.
ExchangeAdvances ==
    \A id \in DOMAIN sessions \cap DOMAIN sessions' :
        sessions'[id].lastOutboundSeq \in
            {sessions[id].lastOutboundSeq, 0,
             NextByte(NextByte(sessions[id].lastOutboundSeq))}

ExchangeAdvancesByOne == [][ExchangeAdvances]_sessions

\* "Sessions idle past the TTL are evicted by a background sweep goroutine":
\* a session whose packets stop coming does not stay registered, be it
\* abandoned by its client, cut off with its connection, left behind by a
\* panicking Handler or answered with FOLLOW; only Close ends this promise.
IdleSessionReclaimed ==
    \A id \in SessionIDs :
        \/ <>closed
        \/ []<>(\E c \in Conns : Handling(c, id))
        \/ []<>~Registered(id)

-----------------------------------------------------------------------------
(* What the repository's documentation says and the code does not do. *)

\* "the sequence number must never wrap and must increase by 1 per hop"
\* (ValidateNextSeqNo): the seq_no of a session's reply is the packet's plus 1.
SeqNoNeverWraps ==
    \A c \in Conns : reply[c].type = "authen" => reply[c].seq = req[c].seq + 1
=============================================================================
