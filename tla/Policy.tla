------------------------------- MODULE Policy -------------------------------
(***************************************************************************)
(* What a user configuration says of a request: server/group.go,           *)
(* server/userconfig.go, server/users.go, and the two handlers built from  *)
(* it, server.ConfigHandler and the server command's CommandAuthorizer     *)
(* (cmd/tacacs-cli/server.go, aaa/authorizer.go, aaa/authenticator.go).    *)
(*                                                                         *)
(* A command is a sequence of tokens.  A regular expression is known by    *)
(* the commands it matches; "none" is an empty pattern and "bad" one that  *)
(* does not compile.                                                       *)
(***************************************************************************)
EXTENDS Naturals, Sequences, FiniteSets, SequencesExt

CONSTANT Commands    \* values the cmd argument takes
ASSUME PolicyAssumption == Commands \subseteq Seq(STRING)

SPACE == "sp"
STAR == "*"
NEWLINE == "nl"

Regex(cmds) == [re |-> "set", of |-> cmds]
AnyCommand == [re |-> "none", of |-> {}]

Decision(status, args) == [status |-> status, args |-> args]
NoMatch == [matched |-> FALSE]
Match(dec) == [matched |-> TRUE, dec |-> dec]

\* The index of the first element that satisfies P, 0 if there is none.
First(s, P(_)) == SelectInSeq(s, P)

\* What the types of UserConfig and of a request's arguments rule out.
IsSeq(s) == s \in Seq(ToSet(s))
IsConfig(cfg) ==
    /\ IsSeq(cfg.users) /\ IsSeq(cfg.groups)
    /\ \A u \in ToSet(cfg.users) : IsSeq(u.commands) /\ IsSeq(u.groups)
    /\ \A g \in ToSet(cfg.groups) : IsSeq(g.commands)
    /\ {cfg.policy.allow, cfg.policy.deny} \subseteq Seq(Seq(STRING))
IsAsk(ask) ==
    /\ IsSeq(ask.args)
    /\ \A a \in ToSet(ask.args) : a.name \in {"cmd", "CMD"} => a.value \in Commands

-----------------------------------------------------------------------------
(* Rules and services: group.go *)

argPresentAVP(args, want) ==
    \E i \in DOMAIN args : args[i].name = want.name /\ args[i].value = want.value

Matches(r, cmd, args) ==
    /\ r.pattern.re = "set" => cmd \in r.pattern.of
    /\ \A m \in r.match : argPresentAVP(args, m)

matchCommand(rules, cmd, args) ==
    LET i == First(rules, LAMBDA r : Matches(r, cmd, args))
    IN CASE i = 0 -> NoMatch
         [] i # 0 /\ rules[i].action = "deny" -> Match(Decision("FAIL", {}))
         [] i # 0 /\ rules[i].action # "deny" ->
              Match(Decision(IF rules[i].passRepl THEN "PASS_REPL" ELSE "PASS_ADD",
                             rules[i].set))

matchService(services, args) ==
    LET i == First(services, LAMBDA s : \A m \in s.match : argPresentAVP(args, m))
    IN IF i = 0 THEN NoMatch ELSE Match(Decision("PASS_REPL", services[i].set))

\* The value of the first argument called cmd in any case, empty if none is.
extractCmd(args) ==
    LET i == First(args, LAMBDA a : a.name \in {"cmd", "CMD"})
    IN IF i = 0 THEN <<>> ELSE args[i].value

-----------------------------------------------------------------------------
(* Resolve *)

Named(entries, name) == entries[First(entries, LAMBDA e : e.name = name)]
Names(entries) == {entries[i].name : i \in DOMAIN entries}

Compiles(rules) == \A i \in DOMAIN rules : rules[i].pattern.re # "bad"
WellNamed(entries) == "" \notin Names(entries) /\ IsInjective([i \in DOMAIN entries |-> entries[i].name])

\* The errors of Resolve and resolveUser.
Resolves(cfg) ==
    /\ WellNamed(cfg.groups) /\ WellNamed(cfg.services)
    /\ \A g \in ToSet(cfg.groups) :
         Compiles(g.commands) /\ ToSet(g.services) \subseteq Names(cfg.services)
    /\ \A u \in ToSet(cfg.users) :
         /\ Compiles(u.commands)
         /\ ToSet(u.services) \subseteq Names(cfg.services)
         /\ ToSet(u.groups) \subseteq Names(cfg.groups)

\* Mutant: the groups' rules come before the user's.
resolveUserLast(cfg, u) ==
    LET gs == [k \in DOMAIN u.groups |-> Named(cfg.groups, u.groups[k])]
    IN [commands |-> FlattenSeq([k \in DOMAIN gs |-> gs[k].commands]) \o u.commands,
        services |-> <<>>, authType |-> u.authType]

\* The user's rules and services, then each group's in the order listed.  The
\* inherited AuthType is read by nobody: Authenticate looks at the user store.
resolveUser(cfg, u) ==
    LET gs == [k \in DOMAIN u.groups |-> Named(cfg.groups, u.groups[k])]
        Services(refs) == [k \in DOMAIN refs |-> Named(cfg.services, refs[k])]
        types == SelectSeq(<<u.authType>> \o [k \in DOMAIN gs |-> gs[k].authType],
                           LAMBDA t : t # "")
    IN [commands |-> u.commands \o FlattenSeq([k \in DOMAIN gs |-> gs[k].commands]),
        services |-> Services(u.services)
                     \o FlattenSeq([k \in DOMAIN gs |-> Services(gs[k].services)]),
        authType |-> IF types = <<>> THEN "" ELSE types[1]]

-----------------------------------------------------------------------------
(* The flat policy: users.go *)

\* A pattern that ends in " *" stands for all that starts with the rest of it.
IsGlob(pat) == Len(pat) >= 2 /\ SubSeq(pat, Len(pat) - 1, Len(pat)) = <<SPACE, STAR>>

matchCmd(pat, cmd) == pat = cmd \/ (IsGlob(pat) /\ IsPrefix(Front(pat), cmd))

Allows(policy, cmd) ==
    /\ \A i \in DOMAIN policy.deny : ~matchCmd(policy.deny[i], cmd)
    /\ \E i \in DOMAIN policy.allow : matchCmd(policy.allow[i], cmd)

-----------------------------------------------------------------------------
(* server.ConfigHandler *)

\* The map by user name that Resolve and NewMemoryUserStore fill: the last
\* entry of a name stays.
Lookup(cfg, user) == {i \in DOMAIN cfg.users :
                        /\ cfg.users[i].name = user
                        /\ \A j \in DOMAIN cfg.users :
                             cfg.users[j].name = user => j <= i}

ConfigAuthorize(cfg, user, args) ==
    IF Lookup(cfg, user) = {} THEN Decision("FAIL", {})
    ELSE LET ru == resolveUser(cfg, cfg.users[CHOOSE i \in Lookup(cfg, user) : TRUE])
             cmd == extractCmd(args)
             service == matchService(ru.services, args)
             rule == matchCommand(ru.commands, cmd, args)
         IN CASE cmd = <<>> -> IF service.matched THEN service.dec
                               ELSE Decision("PASS_ADD", {})
              [] cmd # <<>> /\ rule.matched -> rule.dec
              [] cmd # <<>> /\ ~rule.matched ->
                   Decision(IF Allows(cfg.policy, cmd) THEN "PASS_ADD" ELSE "FAIL", {})

-----------------------------------------------------------------------------
(* The server command: one list of rules for everybody *)

\* "^prefix.*$" or "^glob$": the dot matches everything but a line feed.
globToRegex(glob) ==
    Regex(IF IsGlob(glob)
          THEN {c \in Commands : /\ IsPrefix(Front(glob), c)
                                 /\ \A i \in Len(glob)..Len(c) : c[i] # NEWLINE}
          ELSE {glob} \cap Commands)

PolicyRule(action, glob) ==
    [action |-> action, pattern |-> globToRegex(glob), match |-> {}, set |-> {},
     passRepl |-> FALSE]

userConfigToRules(cfg) ==
    LET policy == cfg.policy
    IN FlattenSeq([i \in DOMAIN cfg.users |->
           resolveUser(cfg, cfg.users[CHOOSE k \in Lookup(cfg, cfg.users[i].name) :
                                         TRUE]).commands])
       \o [i \in DOMAIN policy.deny |-> PolicyRule("deny", policy.deny[i])]
       \o [i \in DOMAIN policy.allow |-> PolicyRule("permit", policy.allow[i])]

\* CommandAuthorizer.Authorize.
CommandAuthorize(rules, args) ==
    LET rule == matchCommand(rules, extractCmd(args), args)
    IN IF rule.matched THEN rule.dec ELSE Decision("FAIL", {})

-----------------------------------------------------------------------------
(* Passwords *)

\* A stored password is empty, a bcrypt hash of a password, or a plain one.
VerifyPassword(pw, hash, allowPlaintext) ==
    /\ hash.kind \in {"bcrypt", "plain"}
    /\ hash.kind = "plain" => allowPlaintext
    /\ hash.of = pw

\* UserConfig.Validate.
Validates(cfg) ==
    /\ WellNamed(cfg.users)
    /\ \A u \in ToSet(cfg.users) :
         /\ u.hash.kind # "empty"
         /\ u.hash.kind = "plain" => cfg.allowPlaintext

authTypeMatches(configured, type) == configured \in {"any", type}

\* ConfigHandler.Authenticate and BcryptAuthenticator.Authenticate, on a START
\* of the given type and, if there is one, the CONTINUE that followed it.  The
\* AuthType looked at is the user's own entry.
Authenticate(cfg, user, type, data, cont) ==
    IF Lookup(cfg, user) = {} THEN "FAIL"
    ELSE LET u == cfg.users[CHOOSE i \in Lookup(cfg, user) : TRUE]
             Verdict(pw) == IF VerifyPassword(pw, u.hash, cfg.allowPlaintext)
                            THEN "PASS" ELSE "FAIL"
         IN CASE u.authType # "" /\ ~authTypeMatches(u.authType, type) -> "FAIL"
              [] u.authType = "" \/ authTypeMatches(u.authType, type) ->
                   IF cont.sent THEN Verdict(cont.msg)
                   ELSE IF type = "pap" THEN Verdict(data) ELSE "GETPASS"

-----------------------------------------------------------------------------
(* What a reader of a configuration expects *)

\* The rules that apply to a user, by rank: the user's own are of level 0, those
\* of the k-th group of level k.
Level(cfg, u, k) ==
    IF k = 0 THEN u.commands ELSE Named(cfg.groups, u.groups[k]).commands

\* The rules of the first n + 1 levels that match.
Hits(cfg, u, n, cmd, args) ==
    {r \in UNION {{k} \X DOMAIN Level(cfg, u, k) : k \in 0..n} :
       Matches(Level(cfg, u, r[1])[r[2]], cmd, args)}

Before(a, b) == a[1] < b[1] \/ (a[1] = b[1] /\ a[2] < b[2])

\* The verdict a reader of the configuration expects on a command: the matching
\* rule of lowest rank, else the flat policy, in which deny beats allow.
Expected(cfg, u, cmd, args) ==
    LET hits == Hits(cfg, u, Len(u.groups), cmd, args)
        best == CHOOSE r \in hits : \A q \in hits \ {r} : Before(r, q)
        rule == Level(cfg, u, best[1])[best[2]]
        Says(pats) == \E pat \in ToSet(pats) : matchCmd(pat, cmd)
    IN IF hits # {}
       THEN IF rule.action = "deny" THEN "FAIL"
            ELSE IF rule.passRepl THEN "PASS_REPL" ELSE "PASS_ADD"
       ELSE IF Says(cfg.policy.allow) /\ ~Says(cfg.policy.deny)
            THEN "PASS_ADD" ELSE "FAIL"

\* What is expected of the answers of ConfigHandler and of the server command
\* to the same request; of several entries with one name the last counts.
VerdictFor(cfg, ask, config, command) ==
    LET user == ask.user
        args == ask.args
        cmd == extractCmd(args)
        u == cfg.users[Max({i \in DOMAIN cfg.users : cfg.users[i].name = user})]
    IN /\ user \notin Names(cfg.users) => config.status = "FAIL"
       /\ user \in Names(cfg.users) /\ cmd # <<>> =>
            /\ config.status = Expected(cfg, u, cmd, args)
            /\ /\ user = cfg.users[1].name
               /\ \/ Len(cfg.users) = 1
                  \/ matchCommand(resolveUser(cfg, u).commands, cmd, args).matched
               => command = config \/ NEWLINE \in ToSet(cmd)
=============================================================================
