----------------------------- MODULE Accounting -----------------------------
(***************************************************************************)
(* cmd/tacacs-cli/aaa/accounter.go: the accounting sinks behind            *)
(* CompositeHandler.Account, and the server's answer to what they return.  *)
(*                                                                         *)
(* FileAccounter appends one line per record with a json.Encoder, under a  *)
(* mutex, so a call of Account is one step.  The encoder remembers its     *)
(* first write error and fails every later call with it; a restarted       *)
(* process opens the file for appending with a new encoder.  A failing     *)
(* write may leave part of a line behind.  SyslogAccounter sends one       *)
(* message per record and remembers nothing.                               *)
(***************************************************************************)
EXTENDS Naturals, Sequences, FiniteSets

CONSTANTS
    Sinks,         \* the accounters to consider, a subset of AllSinks
    MaxRecords     \* bound: records that are logged

AllSinks == {"none", "file", "syslog"}

ASSUME AccountingAssumption == Sinks \subseteq AllSinks /\ MaxRecords \in Nat

VARIABLES
    sink,          \* what buildAccounter chose
    log,           \* lines of the file, or messages syslog took
    encErr,        \* the encoder has failed once
    acked,         \* records answered with SUCCESS
    reopened       \* how often the log was opened again

acctVars == <<sink, log, encErr, acked, reopened>>

\* A line holds one whole record, part of one, or part of one followed by a
\* whole one.
Lines == {"whole", "torn", "merged"}

AcctTypeOK ==
    /\ sink \in AllSinks
    /\ log \in Seq(Lines)
    /\ encErr \in BOOLEAN
    /\ acked \in Nat
    /\ reopened \in Nat

AcctInit ==
    /\ sink \in Sinks
    /\ log = <<>>
    /\ encErr = FALSE
    /\ acked = 0
    /\ reopened = 0

TornTail == log # <<>> /\ log[Len(log)] = "torn"

\* A record reaches the end of the file.
AppendRecord ==
    log' = IF TornTail
           THEN [log EXCEPT ![Len(log)] = "merged"]
           ELSE Append(log, "whole")

\* A write that fails: nothing, or part of a line, reaches the end.
AppendPart ==
    log' \in {log, IF TornTail THEN log ELSE Append(log, "torn")}

\* Mutant: the encoder forgets its error.
AccountFileAgain ==
    \/ AppendRecord /\ acked' = acked + 1 /\ UNCHANGED encErr
    \/ AppendPart /\ UNCHANGED <<encErr, acked>>

\* FileAccounter.Account and the reply handleAcct sends: an error becomes the
\* reply's status ERROR.
AccountFile ==
    \/ /\ ~encErr
       /\ AppendRecord
       /\ acked' = acked + 1
       /\ UNCHANGED encErr
    \/ /\ ~encErr
       /\ AppendPart
       /\ encErr' = TRUE
       /\ UNCHANGED acked
    \/ /\ encErr
       /\ UNCHANGED <<log, encErr, acked>>

\* SyslogAccounter.Account.
AccountSyslog ==
    /\ \/ log' = Append(log, "whole") /\ acked' = acked + 1
       \/ UNCHANGED <<log, acked>>
    /\ UNCHANGED encErr

\* CompositeHandler.Account: without an accounter every record is a success.
Account ==
    /\ acked < MaxRecords
    /\ \/ sink = "none" /\ acked' = acked + 1 /\ UNCHANGED <<log, encErr>>
       \/ sink = "file" /\ AccountFile
       \/ sink = "syslog" /\ AccountSyslog
    /\ UNCHANGED <<sink, reopened>>

\* NewFileAccounter in a new process: O_APPEND, a fresh encoder.
Reopen ==
    /\ encErr' = FALSE
    /\ reopened' = reopened + 1
    /\ UNCHANGED <<sink, log, acked>>

Count(kind) == Cardinality({i \in DOMAIN log : log[i] = kind})

-----------------------------------------------------------------------------
\* A record answered with SUCCESS is a line of its own in the log, and a torn
\* line is followed by nothing.  The exception the code allows: when the
\* process is restarted after a failed write, the first record it accepts
\* shares the torn line, so at most one record per restart is affected
\* (FileAccounter.Account, NewFileAccounter).
AckedIsLogged ==
    sink # "none" =>
        /\ Count("whole") + Count("merged") = acked
        /\ Count("merged") <= reopened
        /\ \A i \in DOMAIN log : log[i] = "torn" => i = Len(log)
=============================================================================
