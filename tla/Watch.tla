------------------------------- MODULE Watch -------------------------------
(***************************************************************************)
(* yang/watch.go: WatchFile and watchFileLoop.  One goroutine receives     *)
(* file events, remembers that one concerned the watched file and, at the  *)
(* next tick of the debounce ticker, calls fn.  The callback is cut into   *)
(* its read of the file (Load) and what it does with the result, which is  *)
(* up to the module that extends this one: it takes the loop from "loaded" *)
(* back to "wait".                                                         *)
(*                                                                         *)
(* The file system and its event queue are the environment.  A full queue  *)
(* loses events; fsnotify then reports an overflow on w.Errors.            *)
(***************************************************************************)
EXTENDS Naturals, Sequences

CONSTANTS
    Configs,     \* contents that load
    Bad,         \* a content that does not: unreadable, undecodable, invalid
    MaxEdits,    \* bound: changes of the file
    MaxOther,    \* bound: changes of other files of the directory
    QueueCap     \* events the queue holds

ASSUME WatchAssumption ==
    /\ Bad \notin Configs
    /\ MaxEdits \in Nat /\ MaxOther \in Nat
    /\ QueueCap \in Nat \ {0}

VARIABLES
    file,        \* what the file holds
    edits,       \* how often it changed
    others,      \* how often another file of the directory changed
    queue,       \* undelivered events and errors
    wpc,         \* where WatchFile and its loop are
    pending,     \* watchFileLoop's pending
    loaded       \* what the callback in progress has read

watchVars == <<file, edits, others, queue, wpc, pending, loaded>>

Events == {"config", "other", "overflow"}

WatchTypeOK ==
    /\ file \in Configs \cup {Bad}
    /\ edits \in 0..MaxEdits
    /\ others \in 0..MaxOther
    /\ queue \in Seq(Events)
    /\ wpc \in {"start", "load", "loaded", "users", "wait", "stopped"}
    /\ pending \in BOOLEAN
    /\ loaded \in Configs \cup {Bad}

\* The file holds a valid configuration when the command starts.
WatchInit ==
    /\ file \in Configs
    /\ edits = 0 /\ others = 0
    /\ queue = <<>>
    /\ wpc = "start"
    /\ pending = FALSE
    /\ loaded = Bad

-----------------------------------------------------------------------------
\* Events are queued from w.Add on, until w.Close.
Watching == wpc \notin {"start", "stopped"}

Notify(e) ==
    queue' = IF ~Watching THEN queue
             ELSE IF Len(queue) < QueueCap THEN Append(queue, e)
             ELSE IF Len(queue) = QueueCap THEN Append(queue, "overflow")
             ELSE queue

\* The file changes.  A save in several writes is several edits, the content
\* in between possibly Bad.
Edit ==
    /\ edits < MaxEdits
    /\ edits' = edits + 1
    /\ file' \in (Configs \cup {Bad}) \ {file}
    /\ Notify("config")
    /\ UNCHANGED <<others, wpc, pending, loaded>>

\* Another file of the directory changes, such as an editor's swap file.
EditOther ==
    /\ others < MaxOther
    /\ others' = others + 1
    /\ Notify("other")
    /\ UNCHANGED <<file, edits, wpc, pending, loaded>>

-----------------------------------------------------------------------------
\* Mutant: no initial load.
AddWatchOnly ==
    /\ wpc = "start"
    /\ wpc' = "wait"
    /\ UNCHANGED <<file, edits, others, queue, pending, loaded>>

\* WatchFile: the directory is watched before the initial load.
AddWatch ==
    /\ wpc = "start"
    /\ wpc' = "load"
    /\ UNCHANGED <<file, edits, others, queue, pending, loaded>>

\* watchFileLoop receives an event or an error.  Events of other files are
\* ignored and errors only logged.
Receive ==
    /\ wpc = "wait" /\ queue # <<>>
    /\ queue' = Tail(queue)
    /\ pending' = (pending \/ Head(queue) = "config")
    /\ UNCHANGED <<file, edits, others, wpc, loaded>>

\* A tick with pending set; the others do nothing.
Tick ==
    /\ wpc = "wait" /\ pending
    /\ pending' = FALSE
    /\ wpc' = "load"
    /\ UNCHANGED <<file, edits, others, queue, loaded>>

\* Mutant: what was read is used although it is invalid.
LoadAnything ==
    /\ wpc = "load"
    /\ loaded' = file
    /\ wpc' = "loaded"
    /\ UNCHANGED <<file, edits, others, queue, pending>>

\* The callback reads, decodes and validates the file.  On an error it
\* returns, and the previous state is kept.
Load ==
    /\ wpc = "load"
    /\ IF file = Bad
       THEN wpc' = "wait" /\ UNCHANGED loaded
       ELSE wpc' = "loaded" /\ loaded' = file
    /\ UNCHANGED <<file, edits, others, queue, pending>>

\* The callback is done.
Return == wpc' = "wait" /\ loaded' = Bad

\* ctx is cancelled; the loop notices between two callbacks and closes the
\* watcher.
Stop ==
    /\ wpc = "wait"
    /\ wpc' = "stopped"
    /\ queue' = <<>> /\ pending' = FALSE
    /\ UNCHANGED <<file, edits, others, loaded>>

WatchEnv == Edit \/ EditOther
WatchLoop == AddWatch \/ Receive \/ Tick \/ Load
=============================================================================
