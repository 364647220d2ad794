-------------------------------- MODULE AAA --------------------------------
(***************************************************************************)
(* The server command with --config and --watch-config: requests are       *)
(* served from BcryptAuthenticator and CommandAuthorizer while the watch   *)
(* goroutine replaces what they serve from (cmd/tacacs-cli/server.go,      *)
(* cmd/tacacs-cli/aaa).  The third user of the watch loop is yang.Watch,   *)
(* whose callback puts configurations into a channel of size 1.            *)
(*                                                                         *)
(* The reload callback replaces the rules and then the users, each under   *)
(* its own lock.  A request copies the pointer it needs under that lock    *)
(* and evaluates the copy, so both replacements may happen between the     *)
(* copy and the verdict.  What a configuration says of a request is the    *)
(* business of Policy.tla and a parameter here.                            *)
(***************************************************************************)
EXTENDS Watch, Accounting

CONSTANTS
    Conns,                     \* connections
    Users, Passwords, Cmds,    \* what requests name
    Knows(_, _),               \* Knows(cfg, user)
    Authenticates(_, _, _),    \* Authenticates(cfg, user, password)
    Permits(_, _),             \* Permits(cfg, cmd)
    MaxRestarts                \* bound: restarts of the process

None == "none"

\* Nobody logs in without a password.
ASSUME AAAAssumption ==
    /\ MaxRestarts \in Nat
    /\ None \notin Configs \cup Cmds
    /\ \A cfg \in Configs, u \in Users : ~Authenticates(cfg, u, None)

\* What the watch loop is used for: the command with the local or with an
\* external authenticator, or yang.Watch.
Uses == {"local", "external", "channel"}

VARIABLES
    use,         \* one of Uses
    az,          \* CommandAuthorizer.rules: a configuration and its load number
    auth,        \* BcryptAuthenticator.store, likewise
    loads,       \* loads put into force
    ch,          \* Watch: the channel's buffer
    got,         \* Watch: what the consumer has received last
    dropped,     \* Watch: the last load did not fit into the channel
    pc,          \* where each connection's handler is
    ask,         \* the request it handles
    snap,        \* the copy it evaluates
    since,       \* history: configurations in force since the call
    verdict,     \* the last verdict
    passedAt     \* history: load number under which the login passed

aaaVars == <<use, az, auth, loads, ch, got, dropped, pc, ask, snap, since,
             verdict, passedAt>>
vars == <<watchVars, acctVars, aaaVars>>

Loaded == [cfg : Configs, n : Nat]
Ask == [user : Users \cup {None}, pw : Passwords \cup {None},
        cmd : Cmds \cup {None}]
NoAsk == [user |-> None, pw |-> None, cmd |-> None]
NoLoad == [cfg |-> Bad, n |-> 0]

TypeOK ==
    /\ WatchTypeOK /\ AcctTypeOK
    /\ use \in Uses
    /\ az \in Loaded /\ auth \in Loaded
    /\ loads \in Nat
    /\ ch \in Configs \cup {None} /\ got \in Configs \cup {None}
    /\ dropped \in BOOLEAN
    /\ pc \in [Conns -> {"idle", "prompted", "verify", "author", "reply"}]
    /\ ask \in [Conns -> Ask]
    /\ snap \in [Conns -> Loaded \cup {NoLoad}]
    /\ since \in [Conns -> SUBSET Configs]
    /\ verdict \in [Conns -> {None, "PASS", "FAIL"}]
    /\ passedAt \in [Conns -> Nat]

\* runServerCmd has loaded the file and built both backends from it.
Init ==
    /\ WatchInit /\ AcctInit
    /\ use \in Uses
    /\ az = [cfg |-> file, n |-> 1] /\ auth = az
    /\ loads = 1
    /\ ch = None /\ got = None /\ dropped = FALSE
    /\ pc = [c \in Conns |-> "idle"]
    /\ ask = [c \in Conns |-> NoAsk]
    /\ snap = [c \in Conns |-> NoLoad]
    /\ since = [c \in Conns |-> {}]
    /\ verdict = [c \in Conns |-> None]
    /\ passedAt = [c \in Conns |-> 0]

-----------------------------------------------------------------------------
(* The callbacks. *)

\* A configuration in force changes under the requests being handled.
InForceNow(kind, cfg) ==
    since' = [c \in Conns |-> IF pc[c] = kind THEN since[c] \cup {cfg}
                              ELSE since[c]]

requestVars == <<pc, ask, snap, verdict, passedAt>>
channelVars == <<ch, got, dropped>>

\* Mutant: the users are replaced first.
SwapUsersFirst ==
    /\ wpc = "loaded" /\ use # "channel"
    /\ auth' = [cfg |-> loaded, n |-> loads + 1]
    /\ InForceNow("verify", loaded)
    /\ wpc' = "users"
    /\ UNCHANGED <<loads, az, use, file, edits, others, queue, pending, loaded,
                   acctVars, channelVars, requestVars>>

\* Mutant: the callback returns without replacing the users.
SwapRulesOnly ==
    /\ wpc = "loaded" /\ use # "channel"
    /\ loads' = loads + 1
    /\ az' = [cfg |-> loaded, n |-> loads + 1]
    /\ InForceNow("author", loaded)
    /\ Return
    /\ UNCHANGED <<auth, use, file, edits, others, queue, pending, acctVars,
                   channelVars, requestVars>>

\* The reload callback: az.Reload.  The rules were compiled by Resolve, so
\* Reload cannot fail any more.
SwapRules ==
    /\ wpc = "loaded" /\ use # "channel"
    /\ loads' = loads + 1
    /\ az' = [cfg |-> loaded, n |-> loads + 1]
    /\ InForceNow("author", loaded)
    /\ IF use = "local"
       THEN wpc' = "users" /\ UNCHANGED loaded
       ELSE Return
    /\ UNCHANGED <<auth, use, file, edits, others, queue, pending, acctVars,
                   channelVars, requestVars>>

\* The reload callback: auth.Reload.
SwapUsers ==
    /\ wpc = "users"
    /\ auth' = [cfg |-> loaded, n |-> loads]
    /\ InForceNow("verify", loaded)
    /\ Return
    /\ UNCHANGED <<az, loads, use, file, edits, others, queue, pending,
                   acctVars, channelVars, requestVars>>

\* Watch's callback: a full channel drops the new configuration.
Send ==
    /\ wpc = "loaded" /\ use = "channel"
    /\ ch' = IF ch = None THEN loaded ELSE ch
    /\ dropped' = (ch # None)
    /\ Return
    /\ UNCHANGED <<got, use, az, auth, loads, since, file, edits, others, queue,
                   pending, acctVars, requestVars>>

\* The consumer of Watch's channel.
Consume ==
    /\ ch # None
    /\ got' = ch
    /\ ch' = None
    /\ UNCHANGED <<dropped, use, az, auth, loads, since, watchVars, acctVars,
                   requestVars>>

-----------------------------------------------------------------------------
(* Requests. *)

\* A handler is called: it copies a pointer under the read lock.
Call(c, kind, a, from) ==
    /\ pc' = [pc EXCEPT ![c] = kind]
    /\ ask' = [ask EXCEPT ![c] = a]
    /\ snap' = [snap EXCEPT ![c] = from]
    /\ since' = [since EXCEPT ![c] = {from.cfg}]
    /\ verdict' = [verdict EXCEPT ![c] = None]

\* Authenticate on a PAP START, which carries the password.
StartPAP(c, u, pw) ==
    /\ pc[c] = "idle"
    /\ Call(c, "verify", [NoAsk EXCEPT !.user = u, !.pw = pw], auth)
    /\ passedAt' = [passedAt EXCEPT ![c] = 0]

\* Authenticate on an ASCII START: a known user is asked for the password, an
\* unknown one is refused.  The external authenticators ask everyone.
StartASCII(c, u) ==
    /\ pc[c] = "idle"
    /\ Call(c, IF use = "external" \/ Knows(auth.cfg, u) THEN "prompted" ELSE "verify",
            [NoAsk EXCEPT !.user = u], auth)
    /\ passedAt' = [passedAt EXCEPT ![c] = 0]

\* Mutant: the user found at the START is kept for the CONTINUE.
ContinueCached(c, pw) ==
    /\ pc[c] = "prompted"
    /\ pc' = [pc EXCEPT ![c] = "verify"]
    /\ ask' = [ask EXCEPT ![c].pw = pw]
    /\ since' = [since EXCEPT ![c] = {auth.cfg}]
    /\ UNCHANGED <<snap, verdict, passedAt>>

\* Authenticate on a CONTINUE: a new copy, a new lookup.
Continue(c, pw) ==
    /\ pc[c] = "prompted"
    /\ Call(c, "verify", [ask[c] EXCEPT !.pw = pw], auth)
    /\ UNCHANGED passedAt

\* The verdict of the local authenticator on its copy; an external one
\* answers as it likes (its ERROR counts as a FAIL here).
Verify(c) ==
    /\ pc[c] = "verify"
    /\ pc' = [pc EXCEPT ![c] = "reply"]
    /\ \E v \in {"PASS", "FAIL"} :
         /\ use = "local" =>
              v = IF Authenticates(snap[c].cfg, ask[c].user, ask[c].pw)
                  THEN "PASS" ELSE "FAIL"
         /\ verdict' = [verdict EXCEPT ![c] = v]
         /\ passedAt' = [passedAt EXCEPT ![c] =
                           IF v = "PASS" THEN snap[c].n ELSE 0]
    /\ UNCHANGED <<ask, snap, since>>

\* CommandAuthorizer.Authorize, called with or without a login before.
Authorize(c, cmd) ==
    /\ pc[c] = "idle"
    /\ Call(c, "author", [NoAsk EXCEPT !.cmd = cmd], az)
    /\ UNCHANGED passedAt

Decide(c) ==
    /\ pc[c] = "author"
    /\ pc' = [pc EXCEPT ![c] = "reply"]
    /\ verdict' = [verdict EXCEPT ![c] =
                     IF Permits(snap[c].cfg, ask[c].cmd) THEN "PASS" ELSE "FAIL"]
    /\ UNCHANGED <<ask, snap, since, passedAt>>

Finish(c) ==
    /\ pc' = [pc EXCEPT ![c] = "idle"]
    /\ ask' = [ask EXCEPT ![c] = NoAsk]
    /\ snap' = [snap EXCEPT ![c] = NoLoad]
    /\ since' = [since EXCEPT ![c] = {}]
    /\ verdict' = [verdict EXCEPT ![c] = None]

\* The verdict is sent.
Reply(c) ==
    /\ pc[c] = "reply"
    /\ Finish(c)
    /\ UNCHANGED passedAt

\* The session or the login ends: connection closed, session expired.
Leave(c) ==
    /\ pc[c] = "prompted" \/ (pc[c] = "idle" /\ passedAt[c] # 0)
    /\ Finish(c)
    /\ passedAt' = [passedAt EXCEPT ![c] = 0]

\* One step of a request.
Request(c) ==
    /\ use # "channel"
    /\ \/ \E u \in Users, pw \in Passwords : StartPAP(c, u, pw)
       \/ \E u \in Users : StartASCII(c, u)
       \/ \E pw \in Passwords : Continue(c, pw)
       \/ Verify(c)
       \/ \E cmd \in Cmds : Authorize(c, cmd)
       \/ Decide(c)
       \/ Reply(c)
       \/ Leave(c)
    /\ UNCHANGED <<use, az, auth, loads, channelVars, watchVars, acctVars>>

\* The process dies and is started again; a user configuration that does not
\* load keeps it from starting.
Restart ==
    /\ reopened < MaxRestarts
    /\ file # Bad /\ use # "channel"
    /\ az' = [cfg |-> file, n |-> 1] /\ auth' = az'
    /\ loads' = 1
    /\ queue' = <<>> /\ wpc' = "start" /\ pending' = FALSE /\ loaded' = Bad
    /\ pc' = [c \in Conns |-> "idle"]
    /\ ask' = [c \in Conns |-> NoAsk]
    /\ snap' = [c \in Conns |-> NoLoad]
    /\ since' = [c \in Conns |-> {}]
    /\ verdict' = [c \in Conns |-> None]
    /\ passedAt' = [c \in Conns |-> 0]
    /\ Reopen
    /\ UNCHANGED <<use, file, edits, others, channelVars>>

-----------------------------------------------------------------------------
Callback == SwapRules \/ SwapUsers \/ Send

Next ==
    \/ (WatchEnv \/ WatchLoop \/ Stop) /\ UNCHANGED <<acctVars, aaaVars>>
    \/ Callback
    \/ Consume
    \/ \E c \in Conns : Request(c)
    \/ /\ use # "channel" /\ \E c \in Conns : pc[c] = "idle"
       /\ Account
       /\ UNCHANGED <<watchVars, aaaVars>>
    \/ Restart

Spec == Init /\ [][Next]_vars

\* The watch goroutine runs, its ticker fires, and the consumer of Watch's
\* channel keeps receiving.  Nothing else is owed.
FairSpec ==
    /\ Spec
    /\ WF_vars((WatchLoop /\ UNCHANGED <<acctVars, aaaVars>>) \/ Callback)
    /\ WF_vars(Consume)

-----------------------------------------------------------------------------
\* A request is decided by a configuration that was in force while its
\* packet was being handled: neither one that was replaced before the call,
\* such as the one at the START of an interactive login, nor a mixture
\* (BcryptAuthenticator.Authenticate, CommandAuthorizer.Authorize).
VerdictWasInForce ==
    \A c \in Conns :
        pc[c] = "reply" =>
            IF ask[c].cmd # None
            THEN \E cfg \in since[c] :
                   (verdict[c] = "PASS") <=> Permits(cfg, ask[c].cmd)
            ELSE use = "local" =>
                   \E cfg \in since[c] :
                     (verdict[c] = "PASS") <=>
                         Authenticates(cfg, ask[c].user, ask[c].pw)

\* Commands of a user who has logged in are never judged by rules older than
\* the user database the login passed under: the callback replaces the rules
\* first (cb in runServerCmd).
RulesCoverLogin ==
    \A c \in Conns :
        use = "local" /\ pc[c] = "author" => passedAt[c] <= snap[c].n

\* Between two callbacks rules and users come from the same load; a load
\* that fails changes neither ("an error from fn is logged via l and the
\* previous state is kept").
RulesAndUsersAgree == use = "local" /\ wpc # "users" => az = auth

\* What the last load put into force, at its destination.
InForce(cfg) ==
    CASE use = "local"    -> az.cfg = cfg /\ auth.cfg = cfg
      [] use = "external" -> az.cfg = cfg
      [] use = "channel"  -> got = cfg

Overflowed == \E i \in DOMAIN queue : queue[i] = "overflow"

\* When the file stops changing, at a content that loads, that content gets
\* into force and stays: no change is lost to debouncing, to a callback in
\* progress, or between the first load and the start of the watch.  Exempt
\* are an overflow of the event queue, the end of the watch, and, for Watch,
\* a channel that was full at the last load.
ChangeGetsIntoForce ==
    \A cfg \in Configs :
        <>[](file = cfg) =>
            \/ <>[]InForce(cfg)
            \/ <>Overflowed
            \/ <>(wpc = "stopped")
            \/ <>[]dropped
=============================================================================
