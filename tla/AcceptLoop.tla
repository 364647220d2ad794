----------------------------- MODULE AcceptLoop -----------------------------
(***************************************************************************)
(* The server command: its accept loop with the --max-conns semaphore, the *)
(* goroutine it starts for each connection, and graceful shutdown          *)
(* (cmd/tacacs-cli/server.go from "sem caps concurrent connections" on,    *)
(* connTracker, and the deadlines of transport.Conn.ReadPacket).           *)
(*                                                                         *)
(* A goroutine goes through                                                *)
(*                                                                         *)
(*   top -> header -> body -> handling -> top ...        ServeConn's loop  *)
(*   ... -> ended -> released -> removed -> none         its defers        *)
(*                                                                         *)
(* What a packet says is Server.tla's business: here the handler replies   *)
(* or ends the connection.  The kernel (backlog, file descriptors), the    *)
(* peers and the garbage collector, which closes sockets nobody refers to  *)
(* any more, are the environment.                                          *)
(***************************************************************************)
EXTENDS Naturals, FiniteSets

CONSTANTS
    Conns,       \* connection slots
    MaxConns,    \* --max-conns; 0 is unlimited
    FdLimit      \* file descriptors the process may use for connections

ASSUME AcceptLoopAssumption ==
    /\ IsFiniteSet(Conns)
    /\ MaxConns \in Nat
    /\ FdLimit \in Nat \ {0}

VARIABLES
    loop,        \* where runServerCmd is
    listening,   \* the listener is open
    signal,      \* SIGINT or SIGTERM: none, sent, seen by its goroutine
    sem,         \* tokens in the semaphore channel
    tracker,     \* connTracker.conns
    cancelled,   \* connCancel was called
    timeouts,    \* which of --idle-timeout and --read-timeout are set
    gor,         \* where each connection's goroutine is
    deadline,    \* a read deadline is armed on the socket
    sock,        \* server side of each socket, while a slot holds it
    orphans,     \* open sockets whose goroutine is done
    peer         \* client side of each socket

vars == <<loop, listening, signal, sem, tracker, cancelled, timeouts, gor,
          deadline, sock, orphans, peer>>

Serving == {"top", "header", "body", "handling"}
Deferred == {"ended", "released", "removed"}
Draining == {"drain", "cancel", "forced", "exited"}

TypeOK ==
    /\ loop \in {"accept", "backoff"} \cup Draining
    /\ listening \in BOOLEAN
    /\ signal \in {"none", "sent", "seen"}
    /\ sem \in Nat
    /\ tracker \subseteq Conns
    /\ cancelled \in BOOLEAN
    /\ timeouts \subseteq {"idle", "read"}
    /\ gor \in [Conns -> {"none"} \cup Serving \cup Deferred]
    /\ deadline \in [Conns -> BOOLEAN]
    /\ sock \in [Conns -> {"none", "backlog", "open"}]
    /\ orphans \in Nat
    /\ peer \in [Conns -> {"none", "here", "closed", "lost"}]

Init ==
    /\ loop = "accept"
    /\ listening = TRUE
    /\ signal = "none"
    /\ sem = 0
    /\ tracker = {}
    /\ cancelled = FALSE
    /\ timeouts \in SUBSET {"idle", "read"}
    /\ gor = [c \in Conns |-> "none"]
    /\ deadline = [c \in Conns |-> FALSE]
    /\ sock = [c \in Conns |-> "none"]
    /\ orphans = 0
    /\ peer = [c \in Conns |-> "none"]

-----------------------------------------------------------------------------
(* The accept loop. *)

\* File descriptors in use.
OpenFds == Cardinality({c \in Conns : sock[c] = "open"}) + orphans

\* Mutant: the semaphore is compared after the token is taken.
MayServeOneMore == MaxConns = 0 \/ sem <= MaxConns

\* "case sem <- struct{}{}" would not block.
MayServe == MaxConns = 0 \/ sem < MaxConns

\* Mutant: the connection is not tracked.
AcceptUntracked(c) ==
    /\ loop = "accept" /\ listening
    /\ sock[c] = "backlog" /\ OpenFds < FdLimit
    /\ IF MayServe
       THEN /\ sem' = IF MaxConns = 0 THEN sem ELSE sem + 1
            /\ sock' = [sock EXCEPT ![c] = "open"]
            /\ gor' = [gor EXCEPT ![c] = "top"]
       ELSE /\ sock' = [sock EXCEPT ![c] = "none"]
            /\ UNCHANGED <<sem, gor>>
    /\ UNCHANGED <<loop, listening, signal, tracker, cancelled, timeouts,
                   deadline, orphans, peer>>

\* Mutant: the token is not put into the semaphore.
AcceptNoToken(c) ==
    /\ loop = "accept" /\ listening
    /\ sock[c] = "backlog" /\ OpenFds < FdLimit
    /\ tracker' = tracker \cup {c}
    /\ sock' = [sock EXCEPT ![c] = "open"]
    /\ gor' = [gor EXCEPT ![c] = "top"]
    /\ UNCHANGED <<loop, listening, signal, sem, cancelled, timeouts, deadline,
                   orphans, peer>>

\* Accept returns a connection: it is closed at capacity, and otherwise
\* tracked and given a goroutine.
Accept(c) ==
    /\ loop = "accept" /\ listening
    /\ sock[c] = "backlog" /\ OpenFds < FdLimit
    /\ IF MayServe
       THEN /\ sem' = IF MaxConns = 0 THEN sem ELSE sem + 1
            /\ tracker' = tracker \cup {c}
            /\ sock' = [sock EXCEPT ![c] = "open"]
            /\ gor' = [gor EXCEPT ![c] = "top"]
       ELSE /\ sock' = [sock EXCEPT ![c] = "none"]
            /\ UNCHANGED <<sem, tracker, gor>>
    /\ UNCHANGED <<loop, listening, signal, cancelled, timeouts, deadline,
                   orphans, peer>>

\* Accept fails.  Only errors whose Timeout() is true are retried; EMFILE and
\* the closed listener end the loop.
AcceptError ==
    /\ loop = "accept"
    /\ \/ listening /\ loop' = "backoff"
       \/ /\ listening
          /\ \E c \in Conns : sock[c] = "backlog"
          /\ OpenFds >= FdLimit
          /\ loop' = "drain"
       \/ ~listening /\ loop' = "drain"
    /\ UNCHANGED <<listening, signal, sem, tracker, cancelled, timeouts, gor,
                   deadline, sock, orphans, peer>>

\* time.Sleep(50 * time.Millisecond) and on.
Retry ==
    /\ loop = "backoff"
    /\ loop' = "accept"
    /\ UNCHANGED <<listening, signal, sem, tracker, cancelled, timeouts, gor,
                   deadline, sock, orphans, peer>>

\* The signal goroutine closes the listener, and with it the backlog.
CloseListener ==
    /\ signal = "sent" /\ loop # "exited"
    /\ signal' = "seen"
    /\ listening' = FALSE
    /\ sock' = [c \in Conns |-> IF sock[c] = "backlog"
                                THEN "none" ELSE sock[c]]
    /\ UNCHANGED <<loop, sem, tracker, cancelled, timeouts, gor, deadline,
                   orphans, peer>>

\* Mutant: the process does not wait for the goroutines it force-closed.
DrainedOrForced ==
    /\ \/ loop = "drain" /\ \A c \in Conns : gor[c] = "none"
       \/ loop = "forced"
    /\ loop' = "exited"
    /\ UNCHANGED <<listening, signal, sem, tracker, cancelled, timeouts, gor,
                   deadline, sock, orphans, peer>>

\* wg.Wait returned: the process exits.
Drained ==
    /\ loop \in {"drain", "forced"}
    /\ \A c \in Conns : gor[c] = "none"
    /\ loop' = "exited"
    /\ UNCHANGED <<listening, signal, sem, tracker, cancelled, timeouts, gor,
                   deadline, sock, orphans, peer>>

\* time.After(shutdownWait) fires: first connCancel ...
DrainTimeout ==
    /\ loop = "drain"
    /\ loop' = "cancel"
    /\ cancelled' = TRUE
    /\ UNCHANGED <<listening, signal, sem, tracker, timeouts, gor, deadline,
                   sock, orphans, peer>>

\* Mutant: only the contexts are cancelled.
CancelOnly ==
    /\ loop = "cancel"
    /\ loop' = "forced"
    /\ UNCHANGED <<listening, signal, sem, tracker, cancelled, timeouts, gor,
                   deadline, sock, orphans, peer>>

\* ... then tracker.closeAll.
CloseAll ==
    /\ loop = "cancel"
    /\ loop' = "forced"
    /\ sock' = [c \in Conns |-> IF c \in tracker THEN "none" ELSE sock[c]]
    /\ UNCHANGED <<listening, signal, sem, tracker, cancelled, timeouts, gor,
                   deadline, orphans, peer>>

-----------------------------------------------------------------------------
(* A connection's goroutine. *)

Goto(c, where) == gor' = [gor EXCEPT ![c] = where]

\* The top of ServeConn's loop, and the idle deadline of ReadPacket.
Top(c) ==
    /\ gor[c] = "top" /\ loop # "exited"
    /\ IF cancelled
       THEN Goto(c, "ended") /\ UNCHANGED deadline
       ELSE /\ Goto(c, "header")
            /\ deadline' = [deadline EXCEPT ![c] = "idle" \in timeouts]
    /\ UNCHANGED <<loop, listening, signal, sem, tracker, cancelled, timeouts,
                   sock, orphans, peer>>

\* Mutant: the idle deadline is disarmed once the header is there.
HeaderDisarms(c) ==
    /\ gor[c] = "header" /\ loop # "exited"
    /\ sock[c] = "open" /\ peer[c] = "here"
    /\ Goto(c, "body")
    /\ deadline' = [deadline EXCEPT ![c] = "read" \in timeouts]
    /\ UNCHANGED <<loop, listening, signal, sem, tracker, cancelled, timeouts,
                   sock, orphans, peer>>

\* A header arrives: the read deadline replaces the idle one, which stays in
\* force when --read-timeout is off.
Header(c) ==
    /\ gor[c] = "header" /\ loop # "exited"
    /\ sock[c] = "open" /\ peer[c] = "here"
    /\ Goto(c, "body")
    /\ deadline' = [deadline EXCEPT ![c] = @ \/ "read" \in timeouts]
    /\ UNCHANGED <<loop, listening, signal, sem, tracker, cancelled, timeouts,
                   sock, orphans, peer>>

\* The body arrives; the deadline is cleared and the packet handled.
Body(c) ==
    /\ gor[c] = "body" /\ loop # "exited"
    /\ sock[c] = "open" /\ peer[c] = "here"
    /\ Goto(c, "handling")
    /\ deadline' = [deadline EXCEPT ![c] = FALSE]
    /\ UNCHANGED <<loop, listening, signal, sem, tracker, cancelled, timeouts,
                   sock, orphans, peer>>

\* ReadPacket fails and ServeConn returns.
FailRead(c) ==
    /\ gor[c] \in {"header", "body"} /\ loop # "exited"
    /\ Goto(c, "ended")
    /\ deadline' = [deadline EXCEPT ![c] = FALSE]
    /\ UNCHANGED <<loop, listening, signal, sem, tracker, cancelled, timeouts,
                   sock, orphans, peer>>

\* The peer sent what is not a TACACS+ packet.
Malformed(c) ==
    /\ sock[c] = "open" /\ peer[c] = "here"
    /\ FailRead(c)

\* The peer or the server closed the connection, or the deadline passed.
ReadFails(c) ==
    /\ sock[c] # "open" \/ peer[c] = "closed" \/ deadline[c]
    /\ FailRead(c)

\* The handler replied, or ended the connection (ServeConn returns).
Handle(c) ==
    /\ gor[c] = "handling" /\ loop # "exited"
    /\ \/ sock[c] = "open" /\ Goto(c, "top")
       \/ Goto(c, "ended")
    /\ UNCHANGED <<loop, listening, signal, sem, tracker, cancelled, timeouts,
                   deadline, sock, orphans, peer>>

\* The deferred calls, last one first: the semaphore token, the tracker, and
\* the WaitGroup.  Nothing closes the socket.
Release(c) ==
    /\ gor[c] = "ended" /\ loop # "exited"
    /\ Goto(c, "released")
    /\ sem' = IF MaxConns = 0 THEN sem ELSE sem - 1
    /\ UNCHANGED <<loop, listening, signal, tracker, cancelled, timeouts,
                   deadline, sock, orphans, peer>>

Remove(c) ==
    /\ gor[c] = "released" /\ loop # "exited"
    /\ Goto(c, "removed")
    /\ tracker' = tracker \ {c}
    /\ UNCHANGED <<loop, listening, signal, sem, cancelled, timeouts, deadline,
                   sock, orphans, peer>>

Done(c) ==
    /\ gor[c] = "removed" /\ loop # "exited"
    /\ Goto(c, "none")
    /\ sock' = [sock EXCEPT ![c] = "none"]
    /\ orphans' = IF sock[c] = "open" THEN orphans + 1 ELSE orphans
    /\ UNCHANGED <<loop, listening, signal, sem, tracker, cancelled, timeouts,
                   deadline, peer>>

-----------------------------------------------------------------------------
(* The environment. *)

\* A client connects: the kernel queues the connection.
Connect(c) ==
    /\ listening /\ loop # "exited"
    /\ gor[c] = "none" /\ sock[c] = "none"
    /\ sock' = [sock EXCEPT ![c] = "backlog"]
    /\ peer' = [peer EXCEPT ![c] = "here"]
    /\ UNCHANGED <<loop, listening, signal, sem, tracker, cancelled, timeouts,
                   gor, deadline, orphans>>

\* A client closes its end, or vanishes without a word.
Leave(c) ==
    /\ peer[c] = "here"
    /\ \E p \in {"closed", "lost"} : peer' = [peer EXCEPT ![c] = p]
    /\ UNCHANGED <<loop, listening, signal, sem, tracker, cancelled, timeouts,
                   gor, deadline, sock, orphans>>

\* The garbage collector closes a socket that no goroutine holds.
Finalize ==
    /\ orphans > 0 /\ loop # "exited"
    /\ orphans' = orphans - 1
    /\ UNCHANGED <<loop, listening, signal, sem, tracker, cancelled, timeouts,
                   gor, deadline, sock, peer>>

Signal ==
    /\ signal = "none" /\ loop # "exited"
    /\ signal' = "sent"
    /\ UNCHANGED <<loop, listening, sem, tracker, cancelled, timeouts, gor,
                   deadline, sock, orphans, peer>>

-----------------------------------------------------------------------------
\* What a goroutine does without a peer's help.
Run(c) ==
    \/ Top(c) \/ ReadFails(c) \/ Handle(c)
    \/ Release(c) \/ Remove(c) \/ Done(c)

Main == AcceptError \/ Retry \/ Drained \/ DrainTimeout \/ CloseAll

Next ==
    \/ Main
    \/ CloseListener
    \/ \E c \in Conns :
         \/ Accept(c) \/ Run(c) \/ Header(c) \/ Body(c) \/ Malformed(c)
         \/ Connect(c) \/ Leave(c)
    \/ Finalize
    \/ Signal

Spec == Init /\ [][Next]_vars

\* Goroutines run, handlers return, deadlines and the drain timer fire, and
\* a closed listener makes Accept fail.  Peers owe nothing, the collector may
\* never run, and a signal may never come.
FairSpec ==
    /\ Spec
    /\ WF_vars(~listening /\ AcceptError)
    /\ WF_vars(Retry \/ Drained \/ DrainTimeout \/ CloseAll)
    /\ WF_vars(CloseListener)
    /\ \A c \in Conns : WF_vars(Run(c))

-----------------------------------------------------------------------------
\* The semaphore holds one token for each goroutine that has not returned it,
\* so at most --max-conns connections are served at any time and none is
\* turned away while a slot is free ("sem caps concurrent connections").
SlotsExact ==
    MaxConns > 0 =>
        /\ sem = Cardinality({c \in Conns : gor[c] \in Serving \cup {"ended"}})
        /\ sem <= MaxConns

\* After closeAll no goroutine can sit in a read: the connections it may
\* still be serving are all closed, those accepted last included ("so
\* ServeConn loops unblock from any pending read and exit promptly").
ForceCloseReachesAll ==
    loop = "forced" => \A c \in Conns : gor[c] \in Serving => sock[c] # "open"

\* The process does not exit under a goroutine: requests in hand when the
\* signal came are finished or cut off, never abandoned (wg.Wait).
ExitDrained == loop = "exited" => \A c \in Conns : gor[c] = "none"

\* Once the drain timed out, connections wind down: no packet is given to a
\* handler any more.
ForcedTakesNoRequest ==
    [][loop = "forced" =>
         \A c \in Conns : gor'[c] = "handling" => gor[c] = "handling"]_vars

\* A signal stops the process, whatever its peers do: the drain is bounded by
\* --shutdown-timeout and the forced close gets every goroutine out.
ShutdownCompletes == signal = "sent" ~> loop = "exited"

\* With --idle-timeout set a vanished peer does not keep its slot, even if
\* it vanished in the middle of a packet and --read-timeout is off.
VanishedPeerFreesSlot ==
    \A c \in Conns :
        ("idle" \in timeouts /\ peer[c] = "lost" /\ gor[c] # "none")
            ~> (gor[c] = "none" \/ loop = "exited")

\* "A temporary error (e.g. EMFILE under load) should not kill the listener":
\* only a signal starts the drain.
ListenerOutlivesErrors == loop \in Draining => signal # "none"
=============================================================================
