----------------------------- MODULE AAAProofs -----------------------------
(***************************************************************************)
(* Hot reload and accounting, for any number of connections, users and     *)
(* configurations, and any bounds.                                         *)
(***************************************************************************)
EXTENDS AAA, TLAPS, SequenceTheorems, FiniteSetTheorems

(* Records. *)

\* Named forms of the record updates.
AskPAP(u, pw) == [NoAsk EXCEPT !.user = u, !.pw = pw]
AskUser(u) == [NoAsk EXCEPT !.user = u]
AskCmd(cmd) == [NoAsk EXCEPT !.cmd = cmd]
AskAgain(a, pw) == [a EXCEPT !.pw = pw]

LEMMA AskTypes ==
    /\ NoAsk \in Ask /\ NoAsk.cmd = None
    /\ \A u \in Users, pw \in Passwords :
         AskPAP(u, pw) \in Ask /\ AskPAP(u, pw).cmd = None
    /\ \A u \in Users : AskUser(u) \in Ask /\ AskUser(u).cmd = None
    /\ \A cmd \in Cmds : AskCmd(cmd) \in Ask /\ AskCmd(cmd).cmd = cmd
    /\ \A a \in Ask, pw \in Passwords :
         AskAgain(a, pw) \in Ask /\ AskAgain(a, pw).cmd = a.cmd
  BY DEF Ask, NoAsk, AskPAP, AskUser, AskCmd, AskAgain

LEMMA LoadedType ==
    ASSUME NEW cfg \in Configs, NEW n \in Nat
    PROVE  [cfg |-> cfg, n |-> n] \in Loaded
  BY DEF Loaded

-----------------------------------------------------------------------------
(* Types. *)

\* The part of TypeOK that a request can change.
RequestTypeOK ==
    /\ pc \in [Conns -> {"idle", "prompted", "verify", "author", "reply"}]
    /\ ask \in [Conns -> Ask]
    /\ snap \in [Conns -> Loaded \cup {NoLoad}]
    /\ since \in [Conns -> SUBSET Configs]
    /\ verdict \in [Conns -> {None, "PASS", "FAIL"}]
    /\ passedAt \in [Conns -> Nat]

\* TypeOK, with what the callback in progress has read.
TypeInv == TypeOK /\ (wpc \in {"loaded", "users"} => loaded \in Configs)

LEMMA NothingIsSeq == ASSUME NEW S PROVE <<>> \in Seq(S)
  OBVIOUS

LEMMA TypeInit == Init => TypeInv
<1> SUFFICES ASSUME Init PROVE TypeInv
  OBVIOUS
<1>0. AcctTypeOK
  BY AccountingAssumption, NothingIsSeq DEF Init, AcctInit, AcctTypeOK
<1>1. WatchTypeOK /\ wpc = "start"
  <2>1. edits \in 0..MaxEdits /\ others \in 0..MaxOther
    BY WatchAssumption DEF Init, WatchInit
  <2>2. queue \in Seq(Events)
    BY NothingIsSeq DEF Init, WatchInit
  <2> QED
    BY <2>1, <2>2 DEF Init, WatchInit, WatchTypeOK
<1>2. az \in Loaded /\ auth \in Loaded /\ loads \in Nat
  BY LoadedType DEF Init, WatchInit
<1>3. RequestTypeOK
  BY AskTypes DEF Init, RequestTypeOK
<1> QED
  BY <1>0, <1>1, <1>2, <1>3 DEF Init, TypeOK, TypeInv, RequestTypeOK

\* The watch loop and the file, apart from the callbacks.
LEMMA WatchStep ==
    ASSUME TypeInv, WatchEnv \/ WatchLoop \/ Stop
    PROVE  /\ WatchTypeOK' /\ (wpc' \in {"loaded", "users"} => loaded' \in Configs)
           /\ wpc = "users" => wpc' = "users" /\ loaded' = loaded
           /\ wpc' = "users" => wpc = "users"
<1> USE DEF TypeInv, TypeOK, WatchTypeOK, Events
<1>1. ASSUME NEW e \in Events, Notify(e) PROVE queue' \in Seq(Events)
  BY <1>1 DEF Notify
<1>2. CASE Edit
  BY <1>1, <1>2, WatchAssumption DEF Edit
<1>3. CASE EditOther
  BY <1>1, <1>3, WatchAssumption DEF EditOther
<1>4. CASE AddWatch
  BY <1>4 DEF AddWatch
<1>5. CASE Receive
  BY <1>5 DEF Receive
<1>6. CASE Tick
  BY <1>6 DEF Tick
<1>7. CASE Load
  BY <1>7 DEF Load
<1>8. CASE Stop
  BY <1>8, NothingIsSeq DEF Stop
<1> QED
  BY <1>2, <1>3, <1>4, <1>5, <1>6, <1>7, <1>8 DEF WatchEnv, WatchLoop

LEMMA LogTypes ==
    ASSUME NEW s \in Seq(Lines), NEW x \in Lines
    PROVE  /\ Append(s, x) \in Seq(Lines)
           /\ s # <<>> => [s EXCEPT ![Len(s)] = x] \in Seq(Lines)
<1>1. s # <<>> => Len(s) \in 1..Len(s)
  OBVIOUS
<1> QED
  BY <1>1, ExceptSeq

LEMMA AccountType == ASSUME AcctTypeOK, Account PROVE AcctTypeOK'
<1>1. log \in Seq(Lines) /\ \A k \in Lines : Append(log, k) \in Seq(Lines)
  BY LogTypes DEF AcctTypeOK
<1>2. AppendRecord => log' \in Seq(Lines)
  <2>1. "whole" \in Lines /\ "merged" \in Lines
    BY DEF Lines
  <2> QED
    BY <1>1, <2>1, LogTypes DEF AppendRecord, TornTail
<1>3. AppendPart => log' \in Seq(Lines)
  BY <1>1 DEF AppendPart, Lines
<1>4. Append(log, "whole") \in Seq(Lines)
  BY <1>1 DEF Lines
<1>5. log' \in Seq(Lines)
  BY <1>1, <1>2, <1>3, <1>4 DEF Account, AccountFile, AccountSyslog
<1>6. encErr' \in BOOLEAN
  BY DEF AcctTypeOK, Account, AccountFile, AccountSyslog
<1>7. acked' \in Nat
  BY DEF AcctTypeOK, Account, AccountFile, AccountSyslog
<1> QED
  BY <1>5, <1>6, <1>7 DEF AcctTypeOK, Account

LEMMA RequestType ==
    ASSUME TypeOK, NEW c \in Conns, Request(c)
    PROVE  RequestTypeOK'
<1> USE DEF TypeOK, RequestTypeOK
<1>0. az.cfg \in Configs /\ auth.cfg \in Configs
  BY DEF Loaded
<1>1. ASSUME NEW k \in {"prompted", "verify", "author"}, NEW a \in Ask,
             NEW l \in Loaded, l.cfg \in Configs, Call(c, k, a, l),
             passedAt' \in [Conns -> Nat]
      PROVE  RequestTypeOK'
  BY <1>1 DEF Call
<1>2. ASSUME Finish(c), passedAt' \in [Conns -> Nat] PROVE RequestTypeOK'
  BY <1>2, AskTypes DEF Finish
<1>3. ASSUME NEW u \in Users, NEW pw \in Passwords, StartPAP(c, u, pw)
      PROVE  RequestTypeOK'
  <2>1. Call(c, "verify", AskPAP(u, pw), auth) /\ passedAt' \in [Conns -> Nat]
    BY <1>3 DEF StartPAP, AskPAP
  <2> QED
    BY <1>0, <1>1, <2>1, AskTypes
<1>4. ASSUME NEW u \in Users, StartASCII(c, u) PROVE RequestTypeOK'
  <2>1. \E k \in {"prompted", "verify"} : Call(c, k, AskUser(u), auth)
    BY <1>4 DEF StartASCII, AskUser
  <2>2. passedAt' \in [Conns -> Nat]
    BY <1>4 DEF StartASCII
  <2> QED
    BY <1>0, <1>1, <2>1, <2>2, AskTypes
<1>5. ASSUME NEW pw \in Passwords, Continue(c, pw) PROVE RequestTypeOK'
  <2>1. Call(c, "verify", AskAgain(ask[c], pw), auth) /\ passedAt' \in [Conns -> Nat]
    BY <1>5 DEF Continue, AskAgain
  <2> QED
    BY <1>0, <1>1, <2>1, AskTypes
<1>6. CASE Verify(c)
  <2>1. snap[c].n \in Nat
    BY DEF Loaded, NoLoad
  <2> QED
    BY <1>6, <2>1 DEF Verify
<1>7. ASSUME NEW cmd \in Cmds, Authorize(c, cmd) PROVE RequestTypeOK'
  <2>1. Call(c, "author", AskCmd(cmd), az) /\ passedAt' \in [Conns -> Nat]
    BY <1>7 DEF Authorize, AskCmd
  <2> QED
    BY <1>0, <1>1, <2>1, AskTypes
<1>8. CASE Decide(c)
  BY <1>8 DEF Decide
<1>9. CASE Reply(c)
  BY <1>2, <1>9 DEF Reply
<1>10. CASE Leave(c)
  BY <1>2, <1>10 DEF Leave
<1> QED
  BY <1>3, <1>4, <1>5, <1>6, <1>7, <1>8, <1>9, <1>10 DEF Request

LEMMA SinceType ==
    ASSUME since \in [Conns -> SUBSET Configs], NEW k, NEW cfg \in Configs,
           InForceNow(k, cfg)
    PROVE  since' \in [Conns -> SUBSET Configs]
  BY DEF InForceNow

LEMMA TypeStep == TypeInv /\ [Next]_vars => TypeInv'
<1> SUFFICES ASSUME TypeInv, [Next]_vars PROVE TypeInv'
  OBVIOUS
<1>1. CASE (WatchEnv \/ WatchLoop \/ Stop) /\ UNCHANGED <<acctVars, aaaVars>>
  <2>1. WatchTypeOK' /\ (wpc' \in {"loaded", "users"} => loaded' \in Configs)
    BY <1>1, WatchStep
  <2>2. AcctTypeOK'
    BY <1>1 DEF TypeInv, TypeOK, AcctTypeOK, acctVars
  <2> QED
    BY <1>1, <2>1, <2>2 DEF TypeInv, TypeOK, aaaVars
<1>2. CASE SwapRules
  <2>1. /\ loads' = loads + 1 /\ az' = [cfg |-> loaded, n |-> loads + 1]
        /\ InForceNow("author", loaded) /\ loaded \in Configs /\ loads \in Nat
    BY <1>2 DEF SwapRules, TypeInv, TypeOK
  <2>2. az' \in Loaded /\ loads' \in Nat /\ since' \in [Conns -> SUBSET Configs]
    BY <2>1, LoadedType, SinceType DEF TypeInv, TypeOK
  <2>3. WatchTypeOK' /\ (wpc' \in {"loaded", "users"} => loaded' \in Configs)
    BY <1>2, <2>1 DEF SwapRules, Return, TypeInv, TypeOK, WatchTypeOK
  <2>4. AcctTypeOK'
    BY <1>2 DEF SwapRules, TypeInv, TypeOK, AcctTypeOK, acctVars
  <2> QED
    BY <1>2, <2>2, <2>3, <2>4 DEF SwapRules, TypeInv, TypeOK, channelVars, requestVars
<1>3. CASE SwapUsers
  <2>1. /\ auth' = [cfg |-> loaded, n |-> loads] /\ InForceNow("verify", loaded)
        /\ loaded \in Configs /\ loads \in Nat
    BY <1>3 DEF SwapUsers, TypeInv, TypeOK
  <2>2. auth' \in Loaded /\ since' \in [Conns -> SUBSET Configs]
    BY <2>1, LoadedType, SinceType DEF TypeInv, TypeOK
  <2>3. WatchTypeOK' /\ (wpc' \in {"loaded", "users"} => loaded' \in Configs)
    BY <1>3 DEF SwapUsers, Return, TypeInv, TypeOK, WatchTypeOK
  <2>4. AcctTypeOK'
    BY <1>3 DEF SwapUsers, TypeInv, TypeOK, AcctTypeOK, acctVars
  <2> QED
    BY <1>3, <2>2, <2>3, <2>4 DEF SwapUsers, TypeInv, TypeOK, channelVars, requestVars
<1>4. CASE Send
  <2>1. ch' \in Configs \cup {None} /\ dropped' \in BOOLEAN
    BY <1>4 DEF Send, TypeInv, TypeOK
  <2>2. WatchTypeOK' /\ (wpc' \in {"loaded", "users"} => loaded' \in Configs)
    BY <1>4 DEF Send, Return, TypeInv, TypeOK, WatchTypeOK
  <2>3. AcctTypeOK'
    BY <1>4 DEF Send, TypeInv, TypeOK, AcctTypeOK, acctVars
  <2> QED
    BY <1>4, <2>1, <2>2, <2>3 DEF Send, TypeInv, TypeOK, requestVars
<1>5. CASE Consume
  <2>1. WatchTypeOK' /\ (wpc' \in {"loaded", "users"} => loaded' \in Configs)
    BY <1>5 DEF Consume, TypeInv, TypeOK, WatchTypeOK, watchVars
  <2>2. AcctTypeOK'
    BY <1>5 DEF Consume, TypeInv, TypeOK, AcctTypeOK, acctVars
  <2> QED
    BY <1>5, <2>1, <2>2 DEF Consume, TypeInv, TypeOK, requestVars
<1>6. ASSUME NEW c \in Conns, Request(c) PROVE TypeInv'
  <2>1. RequestTypeOK'
    BY <1>6, RequestType DEF TypeInv
  <2>2. WatchTypeOK' /\ (wpc' \in {"loaded", "users"} => loaded' \in Configs)
    BY <1>6 DEF Request, TypeInv, TypeOK, WatchTypeOK, watchVars
  <2>3. AcctTypeOK'
    BY <1>6 DEF Request, TypeInv, TypeOK, AcctTypeOK, acctVars
  <2> QED
    BY <1>6, <2>1, <2>2, <2>3 DEF Request, TypeInv, TypeOK, RequestTypeOK, channelVars
<1>7. CASE Account /\ UNCHANGED <<watchVars, aaaVars>>
  <2>1. AcctTypeOK'
    <3>1. AcctTypeOK
      BY DEF TypeInv, TypeOK
    <3> QED
      BY <1>7, <3>1, AccountType
  <2>2. WatchTypeOK' /\ (wpc' \in {"loaded", "users"} => loaded' \in Configs)
    BY <1>7 DEF TypeInv, TypeOK, WatchTypeOK, watchVars
  <2> QED
    BY <1>7, <2>1, <2>2 DEF TypeInv, TypeOK, aaaVars
<1>8. CASE Restart
  <2>1. file \in Configs
    BY <1>8 DEF Restart, TypeInv, TypeOK, WatchTypeOK
  <2>2. WatchTypeOK' /\ wpc' = "start"
    BY <1>8, NothingIsSeq DEF Restart, TypeInv, TypeOK, WatchTypeOK
  <2>3. AcctTypeOK'
    <3>1. sink \in AllSinks /\ log \in Seq(Lines) /\ acked \in Nat /\ reopened \in Nat
      BY DEF TypeInv, TypeOK, AcctTypeOK
    <3>2. /\ sink' = sink /\ log' = log /\ acked' = acked /\ reopened' = reopened + 1
          /\ encErr' = FALSE
      BY <1>8 DEF Restart, Reopen
    <3>3. reopened' \in Nat
      BY <3>1, <3>2
    <3>4. sink' \in AllSinks /\ log' \in Seq(Lines) /\ acked' \in Nat
      BY <3>1, <3>2
    <3> QED
      BY <3>2, <3>3, <3>4, Zenon DEF AcctTypeOK
  <2>4. az' \in Loaded /\ auth' \in Loaded /\ loads' \in Nat
    BY <1>8, <2>1, LoadedType DEF Restart
  <2>5. RequestTypeOK'
    BY <1>8, AskTypes DEF Restart, RequestTypeOK
  <2> QED
    BY <1>8, <2>2, <2>3, <2>4, <2>5
       DEF Restart, TypeInv, TypeOK, RequestTypeOK, channelVars
<1>9. CASE UNCHANGED vars
  <2>1. WatchTypeOK' /\ (wpc' \in {"loaded", "users"} => loaded' \in Configs)
    BY <1>9 DEF vars, TypeInv, TypeOK, WatchTypeOK, watchVars
  <2>2. AcctTypeOK'
    BY <1>9 DEF vars, TypeInv, TypeOK, AcctTypeOK, acctVars
  <2> QED
    BY <1>9, <2>1, <2>2 DEF vars, TypeInv, TypeOK, aaaVars
<1> QED
  BY <1>1, <1>2, <1>3, <1>4, <1>5, <1>6, <1>7, <1>8, <1>9 DEF Next, Callback

LEMMA TypeInvariant == Spec => []TypeInv
  BY TypeInit, TypeStep, PTL DEF Spec

\* Only contents that load ever get into force, whatever the file goes
\* through (the callbacks of runServerCmd and Watch).
THEOREM TypeCorrect == Spec => []TypeOK
<1>1. TypeInv => TypeOK
  BY DEF TypeInv
<1> QED
  BY <1>1, TypeInvariant, PTL

-----------------------------------------------------------------------------
(* Reloading. *)

\* The two stores: rules are replaced first, users follow before the callback
\* returns.
StoresOK ==
    /\ wpc = "users" => use = "local" /\ az = [cfg |-> loaded, n |-> loads]
    /\ use = "local" /\ wpc # "users" => az = auth
    /\ az.n = loads /\ auth.n <= az.n

\* The copy a request holds, against what is in force.
CopyOK(c) ==
    /\ snap[c].n <= az.n /\ passedAt[c] <= az.n
    /\ pc[c] = "author" => passedAt[c] <= snap[c].n /\ ask[c].cmd # None
    /\ pc[c] \in {"verify", "prompted"} => ask[c].cmd = None
    /\ pc[c] \in {"verify", "author"} => snap[c].cfg \in since[c]

VerdictOK(c) ==
    pc[c] = "reply" =>
        IF ask[c].cmd # None
        THEN \E cfg \in since[c] : (verdict[c] = "PASS") <=> Permits(cfg, ask[c].cmd)
        ELSE use = "local" =>
               \E cfg \in since[c] : (verdict[c] = "PASS") <=>
                                       Authenticates(cfg, ask[c].user, ask[c].pw)

ReloadInv == StoresOK /\ \A c \in Conns : CopyOK(c) /\ VerdictOK(c)

\* Load numbers are numbers.
LEMMA LoadNumbers ==
    ASSUME TypeInv
    PROVE  /\ az.n \in Nat /\ auth.n \in Nat /\ loads \in Nat
           /\ \A c \in Conns : snap[c].n \in Nat /\ passedAt[c] \in Nat
<1>1. /\ az \in Loaded /\ auth \in Loaded /\ loads \in Nat
      /\ snap \in [Conns -> Loaded \cup {NoLoad}] /\ passedAt \in [Conns -> Nat]
  BY DEF TypeInv, TypeOK
<1>2. \A l \in Loaded \cup {NoLoad} : l.n \in Nat
  BY DEF Loaded, NoLoad
<1> QED
  BY <1>1, <1>2

LEMMA ReloadInit == Init => ReloadInv
<1> SUFFICES ASSUME Init PROVE ReloadInv
  OBVIOUS
<1>1. StoresOK
  BY DEF Init, WatchInit, StoresOK
<1>2. \A c \in Conns : CopyOK(c) /\ VerdictOK(c)
  BY DEF Init, CopyOK, VerdictOK, NoLoad
<1> QED
  BY <1>1, <1>2 DEF ReloadInv

\* Nothing a request knows changes, and the stores only move on.
LEMMA RequestUntouched ==
    ASSUME TypeInv, NEW c \in Conns, CopyOK(c), VerdictOK(c),
           UNCHANGED <<pc, ask, snap, verdict, passedAt, use>>,
           since[c] \subseteq since'[c], az.n <= az'.n, az'.n \in Nat
    PROVE  CopyOK(c)' /\ VerdictOK(c)'
<1>1. snap[c].n \in Nat /\ passedAt[c] \in Nat /\ az.n \in Nat
  BY LoadNumbers
<1>2. CopyOK(c)'
  <2>1. snap[c].n <= az'.n /\ passedAt[c] <= az'.n
    BY <1>1 DEF CopyOK
  <2>2. pc[c] \in {"verify", "author"} => snap[c].cfg \in since'[c]
    BY DEF CopyOK
  <2> QED
    BY <2>1, <2>2 DEF CopyOK
<1>3. VerdictOK(c)'
  BY DEF VerdictOK
<1> QED
  BY <1>2, <1>3

LEMMA SinceGrows ==
    ASSUME TypeInv, NEW k, NEW cfg, InForceNow(k, cfg), NEW c \in Conns
    PROVE  since[c] \subseteq since'[c]
  BY DEF InForceNow, TypeInv, TypeOK

\* A handler starts on a copy of what is in force, of a login or of a command.
LEMMA CallLogin ==
    ASSUME TypeInv, NEW c \in Conns, NEW k \in {"prompted", "verify"},
           NEW a, NEW l \in Loaded, Call(c, k, a, l), a.cmd = None,
           l.n <= az.n, passedAt'[c] <= az.n, UNCHANGED az
    PROVE  CopyOK(c)' /\ VerdictOK(c)'
<1>1. /\ pc'[c] = k /\ ask'[c] = a /\ snap'[c] = l /\ since'[c] = {l.cfg}
  BY DEF Call, TypeInv, TypeOK
<1>2. CopyOK(c)'
  BY <1>1 DEF CopyOK
<1>3. VerdictOK(c)'
  BY <1>1 DEF VerdictOK
<1> QED
  BY <1>2, <1>3

LEMMA CallAuthor ==
    ASSUME TypeInv, NEW c \in Conns,
           NEW a, NEW l \in Loaded, Call(c, "author", a, l), a.cmd # None,
           l.n <= az.n, passedAt'[c] <= az.n, passedAt'[c] <= l.n, UNCHANGED az
    PROVE  CopyOK(c)' /\ VerdictOK(c)'
<1>1. /\ pc'[c] = "author" /\ ask'[c] = a /\ snap'[c] = l /\ since'[c] = {l.cfg}
  BY DEF Call, TypeInv, TypeOK
<1>2. CopyOK(c)'
  BY <1>1 DEF CopyOK
<1>3. VerdictOK(c)'
  BY <1>1 DEF VerdictOK
<1> QED
  BY <1>2, <1>3

LEMMA FinishOK ==
    ASSUME TypeInv, NEW c \in Conns, Finish(c), passedAt'[c] \in Nat,
           passedAt'[c] <= az.n, UNCHANGED az
    PROVE  CopyOK(c)' /\ VerdictOK(c)'
<1>1. pc'[c] = "idle" /\ snap'[c].n = 0
  BY DEF Finish, TypeInv, TypeOK, NoLoad
<1>2. az.n \in Nat
  BY DEF TypeInv, TypeOK, Loaded
<1>3. snap'[c].n <= az'.n /\ passedAt'[c] <= az'.n
  BY <1>1, <1>2
<1>4. CopyOK(c)'
  BY <1>1, <1>3 DEF CopyOK
<1>5. VerdictOK(c)'
  BY <1>1 DEF VerdictOK
<1> QED
  BY <1>4, <1>5

\* A request leaves the other connections alone.
LEMMA OthersUntouched ==
    ASSUME TypeInv, NEW c \in Conns, Request(c), NEW d \in Conns, d # c,
           CopyOK(d), VerdictOK(d)
    PROVE  CopyOK(d)' /\ VerdictOK(d)'
<1>1. /\ pc'[d] = pc[d] /\ ask'[d] = ask[d] /\ snap'[d] = snap[d]
      /\ since'[d] = since[d] /\ verdict'[d] = verdict[d]
      /\ passedAt'[d] = passedAt[d]
  BY DEF Request, StartPAP, StartASCII, Continue, Verify, Authorize, Decide, Reply,
         Leave, Call, Finish, TypeInv, TypeOK
<1>2. UNCHANGED <<az, use>>
  BY DEF Request
<1> QED
  BY <1>1, <1>2 DEF CopyOK, VerdictOK

LEMMA RequestOK ==
    ASSUME TypeInv, ReloadInv, NEW c \in Conns, Request(c)
    PROVE  CopyOK(c)' /\ VerdictOK(c)'
<1>0. /\ UNCHANGED <<az, use>> /\ az \in Loaded /\ auth \in Loaded
      /\ az.n \in Nat /\ auth.n \in Nat /\ auth.n <= az.n /\ az.n <= az.n
      /\ snap[c].n \in Nat /\ passedAt[c] \in Nat /\ ask[c] \in Ask /\ 0 <= az.n
      /\ CopyOK(c) /\ passedAt[c] <= az.n
  <2>1. az \in Loaded /\ auth \in Loaded /\ ask[c] \in Ask
    BY DEF TypeInv, TypeOK
  <2>2. UNCHANGED <<az, use>> /\ CopyOK(c) /\ auth.n <= az.n /\ passedAt[c] <= az.n
    BY DEF Request, ReloadInv, StoresOK, CopyOK
  <2>3. /\ az.n \in Nat /\ auth.n \in Nat
        /\ snap[c].n \in Nat /\ passedAt[c] \in Nat
    BY LoadNumbers
  <2>4. az.n <= az.n /\ 0 <= az.n
    BY <2>3
  <2> QED
    BY <2>1, <2>2, <2>3, <2>4
<1>1. ASSUME NEW u \in Users, NEW pw \in Passwords, StartPAP(c, u, pw)
      PROVE  CopyOK(c)' /\ VerdictOK(c)'
  <2>1. Call(c, "verify", AskPAP(u, pw), auth) /\ passedAt'[c] = 0
    BY <1>1 DEF StartPAP, AskPAP, TypeInv, TypeOK
  <2>2. AskPAP(u, pw).cmd = None
    BY AskTypes
  <2>3. auth \in Loaded /\ auth.n <= az.n /\ passedAt'[c] <= az.n /\ UNCHANGED az
    BY <1>0, <2>1
  <2> QED
    BY <2>1, <2>2, <2>3, CallLogin
<1>2. ASSUME NEW u \in Users, StartASCII(c, u) PROVE CopyOK(c)' /\ VerdictOK(c)'
  <2>1. PICK k \in {"prompted", "verify"} : Call(c, k, AskUser(u), auth)
    BY <1>2 DEF StartASCII, AskUser
  <2>2. passedAt'[c] = 0
    BY <1>2 DEF StartASCII, TypeInv, TypeOK
  <2>3. AskUser(u).cmd = None
    BY AskTypes
  <2>4. auth \in Loaded /\ auth.n <= az.n /\ passedAt'[c] <= az.n /\ UNCHANGED az
    BY <1>0, <2>2
  <2> QED
    BY <2>1, <2>3, <2>4, CallLogin
<1>3. ASSUME NEW pw \in Passwords, Continue(c, pw) PROVE CopyOK(c)' /\ VerdictOK(c)'
  <2>1. /\ Call(c, "verify", AskAgain(ask[c], pw), auth)
        /\ passedAt'[c] = passedAt[c]
    BY <1>3 DEF Continue, AskAgain
  <2>2. AskAgain(ask[c], pw).cmd = None
    BY <1>0, <1>3, AskTypes DEF Continue, CopyOK
  <2>3. auth \in Loaded /\ auth.n <= az.n /\ passedAt'[c] <= az.n /\ UNCHANGED az
    BY <1>0, <2>1
  <2> QED
    BY <2>1, <2>2, <2>3, CallLogin
<1>4. CASE Verify(c)
  <2>1. /\ pc[c] = "verify" /\ pc'[c] = "reply" /\ UNCHANGED <<ask, snap, since>>
        /\ passedAt'[c] = snap[c].n \/ passedAt'[c] = 0
        /\ use = "local" =>
             (verdict'[c] = "PASS" <=>
                Authenticates(snap[c].cfg, ask[c].user, ask[c].pw))
    BY <1>4 DEF Verify, TypeInv, TypeOK
  <2>2. CopyOK(c)'
    BY <1>0, <2>1 DEF CopyOK
  <2>3. VerdictOK(c)'
    BY <1>0, <2>1 DEF VerdictOK, CopyOK
  <2> QED
    BY <2>2, <2>3
<1>5. ASSUME NEW cmd \in Cmds, Authorize(c, cmd) PROVE CopyOK(c)' /\ VerdictOK(c)'
  <2>1. Call(c, "author", AskCmd(cmd), az) /\ passedAt'[c] = passedAt[c]
    BY <1>5 DEF Authorize, AskCmd
  <2>2. AskCmd(cmd).cmd # None
    BY AskTypes, AAAAssumption
  <2>3. az \in Loaded /\ az.n <= az.n /\ passedAt'[c] <= az.n /\ UNCHANGED az
    BY <1>0, <2>1
  <2> QED
    BY <2>1, <2>2, <2>3, CallAuthor
<1>6. CASE Decide(c)
  <2>1. /\ pc[c] = "author" /\ pc'[c] = "reply"
        /\ UNCHANGED <<ask, snap, since, passedAt>>
        /\ verdict'[c] = "PASS" <=> Permits(snap[c].cfg, ask[c].cmd)
    BY <1>6 DEF Decide, TypeInv, TypeOK
  <2>2. CopyOK(c)'
    BY <1>0, <2>1 DEF CopyOK
  <2>3. VerdictOK(c)'
    BY <1>0, <2>1 DEF VerdictOK, CopyOK
  <2> QED
    BY <2>2, <2>3
<1>7. CASE Reply(c)
  <2>1. Finish(c) /\ passedAt'[c] = passedAt[c]
    BY <1>7 DEF Reply
  <2> QED
    BY <1>0, <2>1, FinishOK
<1>8. CASE Leave(c)
  <2>1. Finish(c) /\ passedAt'[c] = 0
    BY <1>8 DEF Leave, TypeInv, TypeOK
  <2> QED
    BY <1>0, <2>1, FinishOK
<1> QED
  BY <1>1, <1>2, <1>3, <1>4, <1>5, <1>6, <1>7, <1>8 DEF Request

LEMMA ReloadStep == TypeInv /\ ReloadInv /\ [Next]_vars => ReloadInv'
<1> SUFFICES ASSUME TypeInv, ReloadInv, [Next]_vars PROVE ReloadInv'
  OBVIOUS
<1>0. /\ az.n \in Nat /\ auth.n \in Nat /\ loads \in Nat /\ az.n <= az.n
      /\ az.n = loads
  <2>1. az.n \in Nat /\ auth.n \in Nat /\ loads \in Nat
    BY LoadNumbers
  <2>2. az.n = loads
    BY DEF ReloadInv, StoresOK
  <2> QED
    BY <2>1, <2>2
<1>1. ASSUME StoresOK', UNCHANGED <<pc, ask, snap, verdict, passedAt, use>>,
             \A c \in Conns : since[c] \subseteq since'[c],
             az.n <= az'.n, az'.n \in Nat
      PROVE  ReloadInv'
  BY <1>1, RequestUntouched DEF ReloadInv
<1>2. CASE (WatchEnv \/ WatchLoop \/ Stop) /\ UNCHANGED <<acctVars, aaaVars>>
  <2>1. /\ wpc = "users" => wpc' = "users" /\ loaded' = loaded
        /\ wpc' = "users" => wpc = "users"
    BY <1>2, WatchStep
  <2>2. UNCHANGED <<use, az, auth, loads, pc, ask, snap, since, verdict, passedAt>>
    BY <1>2 DEF aaaVars
  <2>3. StoresOK'
    BY <2>1, <2>2 DEF ReloadInv, StoresOK
  <2> QED
    BY <1>0, <1>1, <2>2, <2>3
<1>3. CASE SwapRules
  <2>1. /\ loads' = loads + 1 /\ az' = [cfg |-> loaded, n |-> loads + 1]
        /\ InForceNow("author", loaded) /\ UNCHANGED <<auth, use>>
        /\ UNCHANGED <<pc, ask, snap, verdict, passedAt>>
        /\ IF use = "local" THEN wpc' = "users" /\ UNCHANGED loaded
           ELSE wpc' = "wait"
    BY <1>3 DEF SwapRules, Return, requestVars
  <2>2. az'.n = loads + 1
    BY <2>1
  <2>3. StoresOK'
    BY <1>0, <2>1, <2>2 DEF ReloadInv, StoresOK
  <2>4. \A c \in Conns : since[c] \subseteq since'[c]
    BY <2>1, SinceGrows
  <2>5. az.n <= az'.n /\ az'.n \in Nat
    BY <1>0, <2>2
  <2> QED
    BY <1>1, <2>1, <2>3, <2>4, <2>5
<1>4. CASE SwapUsers
  <2>1. /\ auth' = [cfg |-> loaded, n |-> loads] /\ InForceNow("verify", loaded)
        /\ UNCHANGED <<az, loads, use>> /\ wpc = "users" /\ wpc' = "wait"
        /\ UNCHANGED <<pc, ask, snap, verdict, passedAt>>
    BY <1>4 DEF SwapUsers, Return, requestVars
  <2>2. StoresOK'
    BY <1>0, <2>1 DEF ReloadInv, StoresOK
  <2>3. \A c \in Conns : since[c] \subseteq since'[c]
    BY <2>1, SinceGrows
  <2>4. az.n <= az'.n /\ az'.n \in Nat
    BY <1>0, <2>1
  <2> QED
    BY <1>1, <2>1, <2>2, <2>3, <2>4
<1>5. CASE Send \/ Consume
  <2>1. /\ UNCHANGED <<use, az, auth, loads, since>>
        /\ UNCHANGED <<pc, ask, snap, verdict, passedAt>>
    BY <1>5 DEF Send, Consume, requestVars
  <2>2. wpc' = "users" <=> wpc = "users"
    BY <1>5 DEF Send, Consume, Return, watchVars
  <2>3. wpc = "users" => loaded' = loaded
    BY <1>5 DEF Send, Consume, Return, watchVars
  <2>4. StoresOK'
    BY <2>1, <2>2, <2>3 DEF ReloadInv, StoresOK
  <2> QED
    BY <1>0, <1>1, <2>1, <2>4
<1>6. ASSUME NEW c \in Conns, Request(c) PROVE ReloadInv'
  <2>1. StoresOK'
    BY <1>6 DEF Request, watchVars, ReloadInv, StoresOK
  <2>2. ASSUME NEW d \in Conns PROVE CopyOK(d)' /\ VerdictOK(d)'
    BY <1>6, RequestOK, OthersUntouched DEF ReloadInv
  <2> QED
    BY <2>1, <2>2 DEF ReloadInv
<1>7. CASE UNCHANGED <<watchVars, aaaVars>>
  <2>1. UNCHANGED <<use, az, auth, loads, pc, ask, snap, since, verdict, passedAt>>
    BY <1>7 DEF aaaVars
  <2>2. StoresOK'
    BY <1>7, <2>1 DEF ReloadInv, StoresOK, watchVars
  <2> QED
    BY <1>0, <1>1, <2>1, <2>2
<1>8. CASE Restart
  <2>1. /\ az'.n = 1 /\ auth' = az' /\ loads' = 1 /\ wpc' = "start"
        /\ \A c \in Conns : pc'[c] = "idle" /\ snap'[c].n = 0 /\ passedAt'[c] = 0
    BY <1>8 DEF Restart, NoLoad
  <2>2. StoresOK'
    <3>1. auth'.n <= az'.n
      BY <2>1
    <3> QED
      BY <2>1, <3>1 DEF StoresOK
  <2>3. ASSUME NEW c \in Conns PROVE CopyOK(c)' /\ VerdictOK(c)'
    <3>1. pc'[c] = "idle" /\ snap'[c].n <= az'.n /\ passedAt'[c] <= az'.n
      BY <2>1
    <3> QED
      BY <3>1 DEF CopyOK, VerdictOK
  <2> QED
    BY <2>2, <2>3 DEF ReloadInv
<1> QED
  BY <1>2, <1>3, <1>4, <1>5, <1>6, <1>7, <1>8 DEF Next, Callback, vars

LEMMA ReloadInvariant == Spec => []ReloadInv
  BY ReloadInit, ReloadStep, TypeInvariant, PTL DEF Spec

\* Between two callbacks rules and users come from the same load (cb in
\* runServerCmd).
THEOREM StoresAgree == Spec => []RulesAndUsersAgree
<1>1. ReloadInv => RulesAndUsersAgree
  BY DEF ReloadInv, StoresOK, RulesAndUsersAgree
<1> QED
  BY <1>1, ReloadInvariant, PTL

\* A command is never judged by rules older than the login it follows,
\* however requests and reloads interleave (cb in runServerCmd).
THEOREM LoginCovered == Spec => []RulesCoverLogin
<1>1. ReloadInv => RulesCoverLogin
  BY DEF ReloadInv, CopyOK, RulesCoverLogin
<1> QED
  BY <1>1, ReloadInvariant, PTL

\* Every verdict is that of a configuration in force during the call
\* (BcryptAuthenticator.Authenticate, CommandAuthorizer.Authorize).
THEOREM VerdictInForce == Spec => []VerdictWasInForce
<1>1. ReloadInv => VerdictWasInForce
  BY DEF ReloadInv, VerdictOK, VerdictWasInForce
<1> QED
  BY <1>1, ReloadInvariant, PTL

-----------------------------------------------------------------------------
(* Accounting. *)

\* The lines of one kind.
At(s, k) == {i \in DOMAIN s : s[i] = k}

LEMMA AtFinite == ASSUME NEW s \in Seq(Lines), NEW k
                  PROVE  IsFiniteSet(At(s, k)) /\ Cardinality(At(s, k)) \in Nat
<1>1. DOMAIN s = 1..Len(s) /\ Len(s) \in Nat
  OBVIOUS
<1>2. IsFiniteSet(DOMAIN s)
  BY <1>1, FS_Interval
<1>3. IsFiniteSet(At(s, k))
  BY <1>2, FS_Subset DEF At
<1> QED
  BY <1>3, FS_CardinalityType

\* A line at the end counts once, for its kind.
LEMMA CountAppend ==
    ASSUME NEW s \in Seq(Lines), NEW x \in Lines, NEW k
    PROVE  Cardinality(At(Append(s, x), k)) =
             IF k = x THEN Cardinality(At(s, k)) + 1 ELSE Cardinality(At(s, k))
<1> DEFINE n == Len(s) + 1
<1>1. /\ DOMAIN s = 1..Len(s) /\ DOMAIN Append(s, x) = 1..n /\ Len(s) \in Nat
      /\ Append(s, x)[n] = x /\ \A i \in 1..Len(s) : Append(s, x)[i] = s[i]
  OBVIOUS
<1>2. \A i : i \in 1..n <=> (i \in 1..Len(s) \/ i = n)
  BY <1>1
<1>3. n \notin At(s, k)
  BY <1>1 DEF At
<1>4. At(Append(s, x), k) = IF k = x THEN At(s, k) \cup {n} ELSE At(s, k)
  <2> HIDE DEF n
  <2> QED
    BY <1>1, <1>2 DEF At
<1> QED
  BY <1>3, <1>4, AtFinite, FS_AddElement

\* A record behind a torn line turns it into a merged one.
LEMMA CountMerge ==
    ASSUME NEW s \in Seq(Lines), s # <<>>, s[Len(s)] = "torn"
    PROVE  LET t == [s EXCEPT ![Len(s)] = "merged"] IN
           /\ Cardinality(At(t, "merged")) = Cardinality(At(s, "merged")) + 1
           /\ Cardinality(At(t, "whole")) = Cardinality(At(s, "whole"))
<1> DEFINE t == [s EXCEPT ![Len(s)] = "merged"]
<1>1. /\ DOMAIN s = 1..Len(s) /\ Len(s) \in DOMAIN s /\ DOMAIN t = DOMAIN s
      /\ t[Len(s)] = "merged" /\ \A i \in DOMAIN s : i # Len(s) => t[i] = s[i]
  OBVIOUS
<1> HIDE DEF t
<1>2. At(t, "merged") = At(s, "merged") \cup {Len(s)} /\ Len(s) \notin At(s, "merged")
  BY <1>1 DEF At
<1>3. At(t, "whole") = At(s, "whole")
  BY <1>1 DEF At
<1>4. Cardinality(At(t, "merged")) = Cardinality(At(s, "merged")) + 1
  BY <1>2, AtFinite, FS_AddElement
<1> QED
  BY <1>3, <1>4 DEF t

\* AckedIsLogged, strengthened: a torn tail that can still be written to is
\* one a restart has left.
LogInv ==
    /\ sink # "none" => Count("whole") + Count("merged") = acked
    /\ Count("merged") <= reopened
    /\ \A i \in DOMAIN log : log[i] = "torn" => i = Len(log)
    /\ TornTail /\ ~encErr => Count("merged") < reopened
    /\ sink # "file" => ~TornTail

LEMMA LogInit == Init => LogInv
<1> SUFFICES ASSUME Init PROVE LogInv
  OBVIOUS
<1>1. log = <<>> /\ acked = 0 /\ reopened = 0
  BY DEF Init, AcctInit
<1>2. Count("whole") = 0 /\ Count("merged") = 0
  BY <1>1, FS_EmptySet DEF Count
<1> QED
  BY <1>1, <1>2 DEF LogInv, TornTail

LEMMA LogSame ==
    ASSUME LogInv, UNCHANGED <<sink, log, encErr, acked, reopened>> PROVE LogInv'
  BY DEF LogInv, TornTail, Count

LEMMA AccountStep == ASSUME AcctTypeOK, LogInv, Account PROVE LogInv'
<1>0. /\ log \in Seq(Lines) /\ acked \in Nat /\ reopened \in Nat
      /\ Count("whole") \in Nat /\ Count("merged") \in Nat
  BY AtFinite DEF AcctTypeOK, Count, At
<1>1. UNCHANGED <<sink, reopened>>
  BY DEF Account
<1>2. ASSUME log' = Append(log, "whole"), ~TornTail, acked' = acked + 1, UNCHANGED encErr
      PROVE  LogInv'
  <2>1. "whole" \in Lines
    BY DEF Lines
  <2>2. Count("whole")' = Count("whole") + 1 /\ Count("merged")' = Count("merged")
    <3>1. \A k : /\ Count(k) = Cardinality(At(log, k))
                 /\ Count(k)' = Cardinality(At(Append(log, "whole"), k))
      BY <1>2 DEF Count, At
    <3> QED
      BY <1>0, <2>1, <3>1, CountAppend
  <2>3. ~TornTail' /\ \A i \in DOMAIN log' : log'[i] # "torn"
    BY <1>0, <1>2 DEF TornTail, LogInv
  <2>4. sink # "none" => Count("whole")' + Count("merged")' = acked'
    BY <1>0, <1>2, <2>2 DEF LogInv
  <2>5. Count("merged")' <= reopened'
    BY <1>1, <2>2 DEF LogInv
  <2> QED
    BY <1>1, <2>3, <2>4, <2>5 DEF LogInv
<1>3. ASSUME TornTail, ~encErr, sink = "file", acked' = acked + 1, UNCHANGED encErr,
             log' = [log EXCEPT ![Len(log)] = "merged"]
      PROVE  LogInv'
  <2>1. Count("merged")' = Count("merged") + 1 /\ Count("whole")' = Count("whole")
    BY <1>0, <1>3, CountMerge DEF Count, At, TornTail
  <2>2. ~TornTail' /\ \A i \in DOMAIN log' : log'[i] # "torn"
    BY <1>0, <1>3 DEF TornTail, LogInv
  <2>3. Count("whole") + Count("merged") = acked /\ Count("merged") < reopened
    BY <1>3 DEF LogInv
  <2>4. Count("whole")' + Count("merged")' = acked' /\ Count("merged")' <= reopened'
    BY <1>0, <1>1, <1>3, <2>1, <2>3
  <2> QED
    BY <1>1, <1>3, <2>2, <2>4 DEF LogInv
<1>4. ASSUME ~TornTail, log' = Append(log, "torn"), sink = "file", encErr',
             UNCHANGED acked
      PROVE  LogInv'
  <2>1. "torn" \in Lines
    BY DEF Lines
  <2>2. Count("whole")' = Count("whole") /\ Count("merged")' = Count("merged")
    <3>1. \A k : /\ Count(k) = Cardinality(At(log, k))
                 /\ Count(k)' = Cardinality(At(Append(log, "torn"), k))
      BY <1>4 DEF Count, At
    <3> QED
      BY <1>0, <2>1, <3>1, CountAppend
  <2>3. \A i \in DOMAIN log' : log'[i] = "torn" => i = Len(log')
    BY <1>0, <1>4 DEF TornTail, LogInv
  <2> QED
    BY <1>0, <1>1, <1>4, <2>2, <2>3 DEF LogInv
<1>5. ASSUME UNCHANGED log, encErr => encErr', acked' = acked \/ sink = "none"
      PROVE  LogInv'
  BY <1>1, <1>5 DEF LogInv, TornTail, Count
<1>6. CASE sink = "none"
  BY <1>5, <1>6 DEF Account
<1>7. CASE sink = "syslog"
  <2>1. ~TornTail
    BY <1>7 DEF LogInv
  <2>2. \/ log' = Append(log, "whole") /\ acked' = acked + 1 /\ UNCHANGED encErr
        \/ UNCHANGED <<log, acked, encErr>>
    BY <1>7 DEF Account, AccountSyslog
  <2> QED
    BY <1>2, <1>5, <2>1, <2>2
<1>8. CASE sink = "file"
  <2>1. AccountFile
    BY <1>8 DEF Account
  <2>2. CASE ~encErr /\ AppendRecord /\ acked' = acked + 1 /\ UNCHANGED encErr
    <3>1. CASE TornTail
      BY <1>3, <1>8, <2>2, <3>1 DEF AppendRecord
    <3>2. CASE ~TornTail
      BY <1>2, <2>2, <3>2 DEF AppendRecord
    <3> QED
      BY <3>1, <3>2
  <2>3. CASE AppendPart /\ encErr' = TRUE /\ UNCHANGED acked
    <3>1. CASE UNCHANGED log
      BY <1>5, <2>3, <3>1
    <3>2. CASE ~TornTail /\ log' = Append(log, "torn")
      BY <1>4, <1>8, <2>3, <3>2
    <3> QED
      BY <2>3, <3>1, <3>2 DEF AppendPart
  <2>4. CASE UNCHANGED <<log, encErr, acked>>
    BY <1>5, <2>4
  <2> QED
    BY <2>1, <2>2, <2>3, <2>4 DEF AccountFile
<1> QED
  BY <1>6, <1>7, <1>8 DEF Account

LEMMA LogStep == TypeInv /\ LogInv /\ [Next]_vars => LogInv'
<1> SUFFICES ASSUME TypeInv, LogInv, [Next]_vars PROVE LogInv'
  OBVIOUS
<1>1. CASE UNCHANGED acctVars
  BY <1>1, LogSame DEF acctVars
<1>2. CASE Account
  BY <1>2, AccountStep DEF TypeInv, TypeOK
<1>3. CASE Restart
  <2>1. UNCHANGED <<sink, log, acked>> /\ reopened' = reopened + 1
    BY <1>3 DEF Restart, Reopen
  <2>2. reopened \in Nat /\ Count("merged") \in Nat
    BY AtFinite DEF TypeInv, TypeOK, AcctTypeOK, Count, At
  <2>3. Count("merged")' = Count("merged") /\ Count("whole")' = Count("whole")
    BY <2>1 DEF Count
  <2>4. TornTail' = TornTail
    BY <2>1 DEF TornTail
  <2>5. /\ Count("merged") <= reopened => Count("merged")' <= reopened'
        /\ Count("merged") <= reopened => Count("merged")' < reopened'
    BY <2>1, <2>2, <2>3
  <2> QED
    BY <2>1, <2>3, <2>4, <2>5 DEF LogInv
<1> QED
  BY <1>1, <1>2, <1>3 DEF Next, Callback, SwapRules, SwapUsers, Send, Consume, Request,
                          vars

\* An acknowledged record is in the log, but for one per restart that shares
\* a torn line (FileAccounter.Account, NewFileAccounter).
THEOREM AckedLogged == Spec => []AckedIsLogged
<1>1. LogInv => AckedIsLogged
  BY DEF LogInv, AckedIsLogged
<1> QED
  BY <1>1, LogInit, LogStep, TypeInvariant, PTL DEF Spec
=============================================================================
