------------------------------ MODULE Sessions ------------------------------
(***************************************************************************)
(* The registry of interactive authentication sessions that all connection *)
(* goroutines of a Server share (server/sessions.go).                      *)
(*                                                                         *)
(* sessionManager holds a map from SessionID to *sessionContext under one  *)
(* mutex.  Every method takes the mutex for its whole body, so each is one *)
(* atomic step here; Server.tla conjoins them to the steps of the          *)
(* goroutines that call them.                                              *)
(*                                                                         *)
(* Of sessionContext the model keeps start, lastActive and                 *)
(* lastOutboundSeq.  flags and remoteAddr are written and never read, and  *)
(* createdAt only feeds a latency histogram.  lastActive is kept as        *)
(* "idle", the number of clock ticks since it was set, which stops         *)
(* counting at TTL + 1: the code only ever asks whether                    *)
(* now - lastActive > ttl.                                                 *)
(***************************************************************************)
EXTENDS Naturals, FiniteSets

CONSTANTS
    SessionIDs,   \* values of the header's session_id (2^32 in the code)
    Starts,       \* decoded authentication START bodies
    SeqMod,       \* 2^8 in the code: seq_no is a byte and wraps at SeqMod
    TTL           \* Config.SessionTTL in clock ticks

ASSUME SessionsAssumption ==
    /\ IsFiniteSet(SessionIDs)
    /\ SeqMod \in Nat /\ SeqMod > 2 /\ SeqMod % 2 = 0
    /\ TTL \in Nat

VARIABLES
    sessions,     \* sessionManager.sessions
    active        \* the active-session gauge of the Metrics hook

SeqNo == 0 .. SeqMod - 1

\* Mutant: an int instead of a byte.
NextInt(n) == n + 1

\* Byte addition: hdr.SeqNo + 1 on a Go byte, that is (n + 1) % SeqMod.
NextByte(n) == IF n = SeqMod - 1 THEN 0 ELSE n + 1

SessionContext ==
    [start           : Starts,
     idle            : 0 .. TTL + 1,
     lastOutboundSeq : SeqNo]

SessionsTypeOK ==
    /\ DOMAIN sessions \subseteq SessionIDs
    /\ sessions \in [DOMAIN sessions -> SessionContext]
    /\ active \in Nat

SessionsInit ==
    /\ sessions = [id \in {} |-> 0]
    /\ active = 0

-----------------------------------------------------------------------------
Registered(id) == id \in DOMAIN sessions

\* The map without the keys in S.
Without(S) == [id \in DOMAIN sessions \ S |-> sessions[id]]

\* What handleAuthen registers for a START.
NewContext(st) == [start |-> st, idle |-> 0, lastOutboundSeq |-> 0]

\* Mutant: the gauge is bumped on every Set, replaced session or not.
SetAlwaysCounts(id, st) ==
    /\ sessions' = [x \in DOMAIN sessions \cup {id} |->
                      IF x = id
                      THEN NewContext(st)
                      ELSE sessions[x]]
    /\ active' = active + 1

\* Mutant: an existing session with the same id is kept, not replaced.
SetKeepsOld(id, st) ==
    /\ sessions' = [x \in DOMAIN sessions \cup {id} |->
                      IF Registered(x)
                      THEN sessions[x]
                      ELSE NewContext(st)]
    /\ active' = IF Registered(id) THEN active ELSE active + 1

\* Set: register a new session, replacing one with the same id.
Set(id, st) ==
    /\ sessions' = [x \in DOMAIN sessions \cup {id} |->
                      IF x = id
                      THEN NewContext(st)
                      ELSE sessions[x]]
    /\ active' = IF Registered(id) THEN active ELSE active + 1

\* Update with the only callback the code passes: lastOutboundSeq = seq.
\* A session that is no longer registered is left alone.
Update(id, seq) ==
    /\ sessions' = IF Registered(id)
                   THEN [sessions EXCEPT ![id].idle = 0,
                                         ![id].lastOutboundSeq = seq]
                   ELSE sessions
    /\ UNCHANGED active

\* Delete: remove the session if it is there.
Delete(id) ==
    /\ sessions' = Without({id})
    /\ active' = IF Registered(id) THEN active - 1 ELSE active

\* Mutant: sessions that were never prompted do not expire.
ExpiredPrompted ==
    {id \in DOMAIN sessions :
       sessions[id].idle > TTL /\ sessions[id].lastOutboundSeq # 0}

\* The sessions whose lastActive lies more than the TTL back.
Expired == {id \in DOMAIN sessions : sessions[id].idle > TTL}

\* SweepExpired: one pass over the map under the lock.
SweepExpired ==
    /\ sessions' = Without(Expired)
    /\ active' = active - Cardinality(Expired)

\* One clock tick as far as lastActive is concerned.
AgeSessions ==
    sessions' = [id \in DOMAIN sessions |->
                   [sessions[id] EXCEPT !.idle = IF @ > TTL THEN @ ELSE @ + 1]]

\* Mutant: any larger seq_no will do.
ValidateLargerSeqNo(inbound, last) == inbound > last

\* ValidateNextSeqNo: the client must send lastOutboundSeq + 1.
ValidateNextSeqNo(inbound, last) ==
    inbound = IF last = 0 THEN 1 ELSE NextByte(last)

-----------------------------------------------------------------------------
\* The gauge exported as "active sessions" is the number of entries of the
\* map after every Set, Delete and sweep, whatever their order and whichever
\* goroutine runs them (IncSessionActive and DecSessionActive calls).
ActiveGaugeExact == active = Cardinality(DOMAIN sessions)

\* A registered session only ever waits for an odd client seq_no: the last
\* outbound seq_no on record is even (0 before the first reply), however many
\* connections drive the session.
RegisteredSeqEven ==
    \A id \in DOMAIN sessions : sessions[id].lastOutboundSeq % 2 = 0
=============================================================================
