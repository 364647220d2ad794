-------------------------- MODULE AlgorithmsProofs --------------------------
(***************************************************************************)
(* What Algorithms.tla checks of configurations and of logins, for every   *)
(* configuration, request and login.                                       *)
(***************************************************************************)
EXTENDS Algorithms, PolicyProofs

-----------------------------------------------------------------------------
(* Verdicts *)

VerdictInv == part = "author" => in \in Configs \X Asks /\ VerdictFollowsConfig

\* Whatever a configuration that resolves says and a client asks: ConfigHandler
\* answers as its nesting says, and the server command's list of rules agrees
\* with it where one list can.
THEOREM VerdictsCorrect == Spec => []VerdictFollowsConfig
<1>1. Init => VerdictInv
  BY DEF Init, VerdictInv, VerdictFollowsConfig, Done
<1>2. VerdictInv /\ [Next]_vars => VerdictInv'
  <2>. SUFFICES ASSUME VerdictInv, [Next]_vars, part' = "author" PROVE VerdictInv'
    BY DEF VerdictInv
  <2>1. CASE UNCHANGED vars
    BY <2>1 DEF vars, VerdictInv, VerdictFollowsConfig, Done
  <2>2. CASE Next
    <3>1. part = "author" /\ in \in Configs \X Asks /\ UNCHANGED <<part, in>> /\ Author
      BY <2>2 DEF Next, VerdictInv, Apply, MarshalPacket, UnmarshalData,
         ExchangeFrames, WriteArgument, ReadArgument, WriteRequest, WriteReply,
         AcceptWritten, AcceptStream, Login
    <3>2. PICK cfg, ask : /\ in[1] = cfg /\ in[2] = ask
                          /\ IsConfig(cfg) /\ IsAsk(ask)
      BY <3>1, ConfigsAssumption
    <3>3. out'.ok => /\ Resolves(cfg)
                     /\ out'.config = ConfigAuthorize(cfg, ask.user, ask.args)
                     /\ out'.command = CommandAuthorize(userConfigToRules(cfg), ask.args)
      BY <3>1, <3>2 DEF Author, Apply, Refused
    <3>4. VerdictFollowsConfig'
      <4>. SUFFICES ASSUME Resolves(cfg), out'.ok PROVE VerdictFollowsConfig'
        BY <3>3 DEF VerdictFollowsConfig
      <4>1. VerdictFor(cfg, ask, out'.config, out'.command)
        BY <3>2, <3>3, VerdictCorrect
      <4>. QED BY Zenon, <3>1, <3>2, <4>1 DEF VerdictFollowsConfig
    <3>. QED BY <3>1, <3>4 DEF VerdictInv
  <2>. QED BY <2>1, <2>2
<1>3. VerdictInv => VerdictFollowsConfig
  BY DEF VerdictInv, VerdictFollowsConfig, Done
<1>. QED BY <1>1, <1>2, <1>3, PTL DEF Spec

-----------------------------------------------------------------------------
(* Logins *)

LoginInv == part = "login" => in \in Logins /\ LoginFollowsBackend

\* In a configuration that validates, a name stands for one entry.
LEMMA LookupUnique ==
    ASSUME NEW cfg, NEW user, cfg.users \in Seq(ToSet(cfg.users)),
           WellNamed(cfg.users),
           NEW i \in DOMAIN cfg.users, cfg.users[i].name = user
    PROVE  Lookup(cfg, user) = {i}
<1>1. \A j \in DOMAIN cfg.users : cfg.users[j].name = user => j = i
  BY DEF WellNamed, IsInjective
<1>2. DOMAIN cfg.users \subseteq Nat
  OBVIOUS
<1>. QED BY <1>1, <1>2 DEF Lookup

\* Logins at the configuration's own user database.
LEMMA LocalLogin ==
    ASSUME NEW l \in Logins, l.backend = "local", Validates(l.cfg)
    PROVE  LET pw == IF l.cont.sent THEN l.cont.msg ELSE l.data
               asked == ~l.cont.sent /\ l.type # "pap"
               v == Authenticate(l.cfg, l.user, l.type, l.data, l.cont)
           IN /\ v = "PASS" => ~asked /\ IsPassword(l, pw)
              /\ Undisturbed(l) /\ IsPassword(l, pw) =>
                   v = IF asked THEN "GETPASS" ELSE "PASS"
<1>. DEFINE cfg == l.cfg
            pw == IF l.cont.sent THEN l.cont.msg ELSE l.data
<1>1. /\ cfg.users \in Seq(ToSet(cfg.users))
      /\ WellNamed(cfg.users)
      /\ \A u \in ToSet(cfg.users) :
           /\ u.hash.kind \in {"bcrypt", "plain"}
           /\ u.hash.kind = "plain" => cfg.allowPlaintext
  BY LoginsAssumption DEF IsSeq, Validates
<1>2. CASE Entry(l) = {}
  <2>1. Lookup(cfg, l.user) = {}
    BY <1>2 DEF Lookup, Entry, ToSet
  <2>. QED BY <1>2, <2>1 DEF Authenticate, IsPassword
<1>3. CASE Entry(l) # {}
  <2>1. PICK i \in DOMAIN cfg.users : cfg.users[i].name = l.user
    BY <1>3 DEF Entry, ToSet
  <2>. DEFINE u == cfg.users[i]
  <2>2. Lookup(cfg, l.user) = {i}
    BY <1>1, <2>1, LookupUnique
  <2>3. Entry(l) = {u}
    <3>1. \A j \in DOMAIN cfg.users : cfg.users[j].name = l.user => j = i
      BY <1>1, <2>1 DEF WellNamed, IsInjective
    <3>. QED BY <2>1, <3>1 DEF Entry, ToSet
  <2>4. (CHOOSE k \in Lookup(cfg, l.user) : TRUE) = i
    BY <2>2
  <2>5. IsPassword(l, pw) <=> u.hash.of = pw
    BY <2>3 DEF IsPassword
  <2>6. VerifyPassword(pw, u.hash, cfg.allowPlaintext) <=> u.hash.of = pw
    BY <1>1, <2>1 DEF VerifyPassword, ToSet
  <2>7. Undisturbed(l) <=> u.authType \in {"", "any", l.type}
    BY <2>3 DEF Undisturbed
  <2>. QED
    BY <2>2, <2>4, <2>5, <2>6, <2>7 DEF Authenticate, authTypeMatches
<1>. QED BY <1>2, <1>3

\* Logins at the other backends.
LEMMA BackendLogin ==
    ASSUME NEW l, l.backend # "local", Built(l.backend, l.cfg)
    PROVE  LET pw == IF l.cont.sent THEN l.cont.msg ELSE l.data
               asked == ~l.cont.sent /\ l.type # "pap"
               v == BackendAuthenticate(l.backend, l.cfg, l.type, l.data,
                                        l.cont, l.env)
           IN /\ v = "PASS" => ~asked /\ IsPassword(l, pw)
              /\ Undisturbed(l) /\ IsPassword(l, pw) =>
                   v = IF asked THEN "GETPASS" ELSE "PASS"
              /\ Unreachable(l) =>
                   v = IF asked THEN "GETPASS"
                       ELSE IF pw = Empty /\ l.backend # "http" THEN "FAIL"
                       ELSE "ERROR"
              /\ InClear(l) => l.cfg.insecure
<1>1. l.backend \in {"http", "ldap", "pam", "static"}
  BY DEF Built
<1>2. CASE l.backend = "http"
  BY <1>2, BackendsAssumption
     DEF BackendAuthenticate, verify, httpVerify, IsPassword, Undisturbed,
         Unreachable, InClear, Built, NewHTTPAuthenticator, Yes, No, Err
<1>3. CASE l.backend = "ldap"
  BY <1>3, BackendsAssumption
     DEF BackendAuthenticate, verify, ldapVerify, dial, Search, Bind,
         IsPassword, Undisturbed, Unreachable, InClear, Built,
         NewLDAPAuthenticator, Yes, No, Err
<1>4. CASE l.backend = "pam"
  BY <1>4, BackendsAssumption
     DEF BackendAuthenticate, verify, pamVerify, PamAuthenticate, IsPassword,
         Undisturbed, Unreachable, InClear, Yes, No, Err
<1>5. CASE l.backend = "static"
  BY <1>5
     DEF BackendAuthenticate, verify, staticVerify, IsPassword, Undisturbed,
         Unreachable, InClear, Yes, No, Err
<1>. QED BY <1>1, <1>2, <1>3, <1>4, <1>5

\* Whatever logins are tried, with any configuration that validates and any
\* outcome of the calls to a backend: only the password of the account passes,
\* nobody is locked out without cause, and an outage is not a verdict.
THEOREM LoginsCorrect == Spec => []LoginFollowsBackend
<1>1. Init => LoginInv
  BY DEF Init, LoginInv, LoginFollowsBackend, Done
<1>2. LoginInv /\ [Next]_vars => LoginInv'
  <2>. SUFFICES ASSUME LoginInv, [Next]_vars, part' = "login" PROVE LoginInv'
    BY DEF LoginInv
  <2>1. CASE UNCHANGED vars
    BY <2>1 DEF vars, LoginInv, LoginFollowsBackend, Done
  <2>2. CASE Next
    <3>1. part = "login" /\ in \in Logins /\ UNCHANGED <<part, in>> /\ Login
      BY <2>2 DEF Next, LoginInv, Apply, MarshalPacket, UnmarshalData,
         ExchangeFrames, WriteArgument, ReadArgument, WriteRequest, WriteReply,
         AcceptWritten, AcceptStream, Author
    <3>2. CASE in.backend = "local"
      <4>1. out'.ok => Validates(in.cfg) /\
              out'.v = Authenticate(in.cfg, in.user, in.type, in.data, in.cont)
        BY <3>1, <3>2 DEF Login, Apply, Accepted, Refused
      <4>2. ~Unreachable(in) /\ ~InClear(in)
        BY <3>2 DEF Unreachable, InClear
      <4>. QED
        BY <3>1, <3>2, <4>1, <4>2, LocalLogin
           DEF LoginInv, LoginFollowsBackend
    <3>3. CASE in.backend # "local"
      <4>1. out'.ok => Built(in.backend, in.cfg) /\
              out'.v = BackendAuthenticate(in.backend, in.cfg, in.type, in.data,
                                           in.cont, in.env)
        BY <3>1, <3>3 DEF Login, Apply, Accepted, Refused
      <4>. QED
        BY <3>1, <3>3, <4>1, BackendLogin DEF LoginInv, LoginFollowsBackend
    <3>. QED BY <3>2, <3>3
  <2>. QED BY <2>1, <2>2
<1>3. LoginInv => LoginFollowsBackend
  BY DEF LoginInv, LoginFollowsBackend, Done
<1>. QED BY <1>1, <1>2, <1>3, PTL DEF Spec
=============================================================================
