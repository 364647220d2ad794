-------------------------- MODULE AcceptLoopProofs --------------------------
(***************************************************************************)
(* Proofs about AcceptLoop.tla for any number of connections, any          *)
(* --max-conns and any descriptor limit.                                   *)
(*                                                                         *)
(* LoopInv strengthens the safety properties by what ties a slot's         *)
(* goroutine to its socket and to the tracker: a queued connection has no  *)
(* goroutine yet, and every goroutine is tracked until it has returned its *)
(* token.                                                                  *)
(***************************************************************************)
EXTENDS AcceptLoop, FiniteSetTheorems, TLAPS

Holders == {c \in Conns : gor[c] \in Serving \cup {"ended"}}

LoopInv ==
    /\ TypeOK
    /\ \A c \in Conns : sock[c] = "backlog" => gor[c] = "none"
    /\ \A c \in Conns :
         gor[c] \in Serving \cup {"ended", "released"} => c \in tracker
    /\ MaxConns > 0 => sem = Cardinality(Holders) /\ sem <= MaxConns
    /\ ForceCloseReachesAll
    /\ ExitDrained

\* The initial state satisfies the invariant.
LEMMA InitLoop == Init => LoopInv
<1>. SUFFICES ASSUME Init PROVE LoopInv
  OBVIOUS
<1>1. Holders = {}
  BY DEF Init, Holders, Serving
<1>2. MaxConns > 0 => sem = Cardinality(Holders) /\ sem <= MaxConns
  BY <1>1, FS_EmptySet, AcceptLoopAssumption DEF Init
<1>3. TypeOK
  BY DEF Init, TypeOK
<1>. QED
  BY <1>2, <1>3 DEF Init, LoopInv, Serving, ForceCloseReachesAll, ExitDrained

\* The set of token holders is finite.
LEMMA HoldersFinite == IsFiniteSet(Holders)
BY AcceptLoopAssumption, FS_Subset DEF Holders

\* Steps of one goroutine that neither take nor return a token.
LEMMA HoldersSame ==
    ASSUME LoopInv, NEW c \in Conns, NEW where, gor' = [gor EXCEPT ![c] = where],
           where \in Serving \cup {"ended"}, gor[c] \in Serving
    PROVE  Holders' = Holders
BY DEF LoopInv, TypeOK, Holders

\* Every step preserves the invariant.
LEMMA NextLoop == LoopInv /\ [Next]_vars => LoopInv'
<1>. SUFFICES ASSUME LoopInv, [Next]_vars PROVE LoopInv'
  OBVIOUS
<1>. USE DEF LoopInv
<1>1. ASSUME NEW c \in Conns, Accept(c) PROVE LoopInv'
  <2>1. CASE MayServe
    <3>1. /\ gor' = [gor EXCEPT ![c] = "top"] /\ gor[c] = "none"
          /\ sock' = [sock EXCEPT ![c] = "open"]
          /\ tracker' = tracker \cup {c}
          /\ sem' = IF MaxConns = 0 THEN sem ELSE sem + 1
          /\ UNCHANGED <<loop, listening, signal, cancelled, timeouts,
                         deadline, orphans, peer>>
          /\ loop = "accept"
      BY <1>1, <2>1 DEF Accept
    <3>2. Holders' = Holders \cup {c} /\ c \notin Holders
      BY <3>1 DEF TypeOK, Holders, Serving
    <3>3. MaxConns > 0 => sem' = Cardinality(Holders') /\ sem' <= MaxConns
      BY <2>1, <3>1, <3>2, HoldersFinite, FS_AddElement, FS_CardinalityType,
         AcceptLoopAssumption DEF MayServe
    <3>4. TypeOK'
      BY <3>1 DEF TypeOK, Serving
    <3>. QED
      BY <3>1, <3>3, <3>4 DEF TypeOK, ForceCloseReachesAll, ExitDrained
  <2>2. CASE ~MayServe
    <3>1. Holders' = Holders
      BY <1>1, <2>2 DEF Accept, Holders
    <3>. QED
      BY <1>1, <2>2, <3>1
         DEF Accept, TypeOK, ForceCloseReachesAll, ExitDrained
  <2>. QED BY <2>1, <2>2
<1>2. ASSUME NEW c \in Conns, Top(c) PROVE LoopInv'
  <2>1. Holders' = Holders
    BY <1>2, HoldersSame DEF Top, Goto, Serving
  <2>2. TypeOK'
    <3>1. gor' \in [Conns -> {"none"} \cup Serving \cup Deferred]
      BY <1>2 DEF Top, Goto, TypeOK, Serving, Deferred
    <3>2. ("idle" \in timeouts) \in BOOLEAN
      OBVIOUS
    <3>3. deadline' \in [Conns -> BOOLEAN]
      BY <1>2, <3>2 DEF Top, TypeOK
    <3>. QED BY <1>2, <3>1, <3>3 DEF Top, TypeOK
  <2>. QED
    BY <1>2, <2>1, <2>2
       DEF Top, Goto, TypeOK, Serving, ForceCloseReachesAll, ExitDrained
<1>3. ASSUME NEW c \in Conns, Header(c) \/ Body(c) \/ FailRead(c)
      PROVE  LoopInv'
  <2>1. Holders' = Holders
    BY <1>3, HoldersSame DEF Header, Body, FailRead, Goto, Serving
  <2>2. TypeOK'
    BY <1>3 DEF Header, Body, FailRead, Goto, TypeOK, Serving, Deferred
  <2>. QED
    BY <1>3, <2>1, <2>2 DEF Header, Body, FailRead, Goto, TypeOK, Serving,
       ForceCloseReachesAll, ExitDrained
<1>4. ASSUME NEW c \in Conns, Handle(c) PROVE LoopInv'
  <2>1. Holders' = Holders
    BY <1>4, HoldersSame DEF Handle, Goto, Serving
  <2>2. TypeOK'
    BY <1>4 DEF Handle, Goto, TypeOK, Serving, Deferred
  <2>. QED
    BY <1>4, <2>1, <2>2
       DEF Handle, Goto, TypeOK, Serving, ForceCloseReachesAll, ExitDrained
<1>5. ASSUME NEW c \in Conns, Release(c) PROVE LoopInv'
  <2>1. Holders' = Holders \ {c} /\ c \in Holders
    BY <1>5 DEF Release, Goto, TypeOK, Holders, Serving
  <2>2. /\ MaxConns > 0 => sem' = Cardinality(Holders') /\ sem' <= MaxConns
        /\ sem' \in Nat
    <3>1. sem' = IF MaxConns = 0 THEN sem ELSE sem - 1
      BY <1>5 DEF Release
    <3>2. MaxConns \in Nat /\ sem \in Nat
      BY AcceptLoopAssumption DEF TypeOK
    <3>3. CASE MaxConns = 0
      BY <3>1, <3>2, <3>3
    <3>4. CASE MaxConns > 0
      <4>1. sem = Cardinality(Holders) /\ sem <= MaxConns
        BY <3>4
      <4>2. Cardinality(Holders) \in Nat /\ Cardinality(Holders') \in Nat
        <5>1. IsFiniteSet(Holders')
          BY <2>1, HoldersFinite, FS_RemoveElement
        <5>. QED BY <5>1, HoldersFinite, FS_CardinalityType
      <4>3. Cardinality(Holders') = Cardinality(Holders) - 1
        BY <2>1, HoldersFinite, FS_RemoveElement
      <4>4. sem' = sem - 1
        BY <3>1, <3>2, <3>4
      <4>. HIDE DEF LoopInv
      <4>. QED BY <3>2, <4>1, <4>2, <4>3, <4>4
    <3>. QED BY <3>2, <3>3, <3>4
  <2>3. TypeOK'
    BY <1>5, <2>2 DEF Release, Goto, TypeOK, Serving, Deferred
  <2>. QED
    BY <1>5, <2>2, <2>3
       DEF Release, Goto, TypeOK, Serving, ForceCloseReachesAll, ExitDrained
<1>6. ASSUME NEW c \in Conns, Remove(c) \/ Done(c) PROVE LoopInv'
  <2>1. Holders' = Holders
    BY <1>6 DEF Remove, Done, Goto, TypeOK, Holders, Serving
  <2>2. TypeOK'
    <3>1. gor' \in [Conns -> {"none"} \cup Serving \cup Deferred]
      BY <1>6 DEF Remove, Done, Goto, TypeOK, Serving, Deferred
    <3>2. sock' \in [Conns -> {"none", "backlog", "open"}]
             /\ orphans' \in Nat /\ tracker' \subseteq Conns
      BY <1>6 DEF Remove, Done, TypeOK
    <3>3. UNCHANGED <<loop, listening, signal, sem, cancelled, timeouts,
                      deadline, peer>>
      BY <1>6 DEF Remove, Done
    <3>. QED BY <3>1, <3>2, <3>3 DEF TypeOK
  <2>. QED
    BY <1>6, <2>1, <2>2 DEF Remove, Done, Goto, TypeOK, Serving,
       ForceCloseReachesAll, ExitDrained
<1>7. ASSUME UNCHANGED <<gor, sem, tracker>> PROVE Holders' = Holders
  BY <1>7 DEF Holders
<1>8. CASE AcceptError \/ Retry \/ Drained \/ DrainTimeout \/ Signal
  <2>1. CASE AcceptError \/ Retry
    <3>1. /\ loop' \in {"accept", "backoff", "drain"}
          /\ UNCHANGED <<listening, signal, sem, tracker, cancelled, timeouts, gor,
                         deadline, sock, orphans, peer>>
      BY <2>1 DEF AcceptError, Retry
    <3>2. TypeOK'
      <4>1. TypeOK
        OBVIOUS
      <4>. HIDE DEF LoopInv
      <4>. QED BY <3>1, <4>1 DEF TypeOK, Draining
    <3>3. loop \in {"accept", "backoff"}
      BY <2>1 DEF AcceptError, Retry
    <3>4. ForceCloseReachesAll' /\ ExitDrained'
      BY <3>1, <3>3 DEF ForceCloseReachesAll, ExitDrained
    <3>. QED BY <1>7, <3>1, <3>2, <3>4
  <2>2. CASE Drained
    BY <1>7, <2>2 DEF Drained, TypeOK, Draining, ForceCloseReachesAll, ExitDrained
  <2>3. CASE DrainTimeout
    BY <1>7, <2>3 DEF DrainTimeout, TypeOK, Draining, ForceCloseReachesAll, ExitDrained
  <2>4. CASE Signal
    BY <1>7, <2>4 DEF Signal, TypeOK, ForceCloseReachesAll, ExitDrained
  <2>. QED BY <1>8, <2>1, <2>2, <2>3, <2>4
<1>9. CASE CloseAll
  BY <1>7, <1>9
     DEF CloseAll, TypeOK, Draining, Serving, ForceCloseReachesAll, ExitDrained
<1>10. CASE CloseListener
  BY <1>7, <1>10
     DEF CloseListener, TypeOK, ForceCloseReachesAll, ExitDrained
<1>11. ASSUME NEW c \in Conns, Connect(c) PROVE LoopInv'
  BY <1>7, <1>11
     DEF Connect, TypeOK, Serving, ForceCloseReachesAll, ExitDrained
<1>12. ASSUME NEW c \in Conns, Leave(c) PROVE LoopInv'
  BY <1>7, <1>12 DEF Leave, TypeOK, ForceCloseReachesAll, ExitDrained
<1>13. CASE Finalize
  BY <1>7, <1>13 DEF Finalize, TypeOK, ForceCloseReachesAll, ExitDrained
<1>14. CASE UNCHANGED vars
  BY <1>7, <1>14 DEF vars, TypeOK, ForceCloseReachesAll, ExitDrained
<1>. QED
  BY <1>1, <1>2, <1>3, <1>4, <1>5, <1>6, <1>8, <1>9, <1>10, <1>11, <1>12,
     <1>13, <1>14 DEF Next, Main, Run, Malformed, ReadFails

\* LoopInv is an invariant of the server command.
THEOREM LoopInvHolds == Spec => []LoopInv
BY InitLoop, NextLoop, PTL DEF Spec

\* The command's state keeps its types: in particular the semaphore never
\* gives out more tokens than it took (runServerCmd).
THEOREM TypeCorrect == Spec => []TypeOK
<1>1. LoopInv => TypeOK
  BY DEF LoopInv
<1>. QED BY <1>1, LoopInvHolds, PTL

\* The semaphore counts exactly the goroutines that hold a token, never more
\* than --max-conns of them (runServerCmd).
THEOREM SlotsCorrect == Spec => []SlotsExact
<1>1. LoopInv => SlotsExact
  BY DEF LoopInv, SlotsExact, Holders
<1>. QED BY <1>1, LoopInvHolds, PTL

\* After the forced close every connection still served is closed, and the
\* process exits only when every goroutine is done (closeAll, wg.Wait).
THEOREM ShutdownSafe == Spec => [](ForceCloseReachesAll /\ ExitDrained)
<1>1. LoopInv => ForceCloseReachesAll /\ ExitDrained
  BY DEF LoopInv
<1>. QED BY <1>1, LoopInvHolds, PTL

\* The command returns only when every connection goroutine is done (wg.Wait).
THEOREM ExitSafe == Spec => []ExitDrained
BY ShutdownSafe, PTL

\* No handler is called once the drain timed out and the sockets are closed
\* (closeAll before <-done).
THEOREM ForcedQuiet == Spec => ForcedTakesNoRequest
<1>. DEFINE Quiet == loop = "forced" =>
              \A c \in Conns : gor'[c] = "handling" => gor[c] = "handling"
<1>1. ASSUME LoopInv, [Next]_vars PROVE Quiet
  <2>. SUFFICES ASSUME loop = "forced", NEW d \in Conns, gor'[d] = "handling",
                       gor[d] # "handling"
                PROVE  FALSE
    OBVIOUS
  <2>1. gor \in [Conns -> {"none"} \cup Serving \cup Deferred]
    BY <1>1 DEF LoopInv, TypeOK
  <2>2. ASSUME NEW c \in Conns, Body(c) PROVE FALSE
    BY <1>1, <2>2 DEF Body, LoopInv, ForceCloseReachesAll, Serving
  <2>3. ASSUME NEW c \in Conns,
               \/ Accept(c) \/ Top(c) \/ FailRead(c) \/ Handle(c)
               \/ Release(c) \/ Remove(c) \/ Done(c) \/ Header(c)
        PROVE  FALSE
    BY <2>1, <2>3 DEF Accept, Top, FailRead, Handle, Release, Remove, Done,
                      Header, Goto
  <2>4. ASSUME UNCHANGED gor PROVE FALSE
    BY <2>4
  <2>5. CASE Main \/ CloseListener \/ Finalize \/ Signal \/ UNCHANGED vars
    BY <2>4, <2>5 DEF Main, AcceptError, Retry, Drained, DrainTimeout,
       CloseAll, CloseListener, Finalize, Signal, vars
  <2>6. ASSUME NEW c \in Conns, Connect(c) \/ Leave(c) PROVE FALSE
    BY <2>4, <2>6 DEF Connect, Leave
  <2>. QED
    BY <1>1, <2>2, <2>3, <2>5, <2>6 DEF Next, Run, Malformed, ReadFails
<1>2. LoopInv /\ [Next]_vars => [Quiet]_vars
  BY <1>1
<1>. QED BY <1>2, LoopInvHolds, PTL DEF Spec, ForcedTakesNoRequest
=============================================================================
