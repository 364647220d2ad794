------------------------------ MODULE Backends ------------------------------
(***************************************************************************)
(* The authenticators that ask another service (cmd/tacacs-cli/aaa: HTTP,  *)
(* LDAP and PAM), the fixed table used without a configuration, and the    *)
(* choice between them (runServerCmd, buildAuthenticator).                 *)
(*                                                                         *)
(* What the other service does is a record of outcomes, one per call made  *)
(* to it.  The person being authenticated has the password Secret; the     *)
(* password Empty is the empty string.                                     *)
(***************************************************************************)
EXTENDS Naturals

CONSTANTS Secret, Wrong, Empty

ASSUME BackendsAssumption == Secret # Empty

\* What verify returns.
Yes == "yes"
No == "no"
Err == "err"

-----------------------------------------------------------------------------
(* Construction: what keeps passwords off the wire in clear. *)

\* NewHTTPAuthenticator.
NewHTTPAuthenticator(cfg) ==
    cfg.scheme = "https" \/ (cfg.insecure /\ cfg.scheme = "http")

\* NewLDAPAuthenticator.
NewLDAPAuthenticator(cfg) ==
    /\ \/ cfg.scheme = "ldaps"
       \/ cfg.scheme = "ldap" /\ (cfg.startTLS \/ cfg.insecure)
    /\ cfg.baseDN

\* buildAuthenticator.
Built(backend, cfg) ==
    CASE backend = "http" -> NewHTTPAuthenticator(cfg)
      [] backend = "ldap" -> NewLDAPAuthenticator(cfg)
      [] backend \in {"pam", "static"} -> TRUE
      [] OTHER -> FALSE

-----------------------------------------------------------------------------
(* The services, as the code uses them. *)

\* A directory takes a bind with an empty password for an anonymous one.
Bind(pw) == IF pw \in {Secret, Empty} THEN "ok" ELSE "invalid"

\* The search asks for one entry at most: more of them is an error.
Search(entries) == CASE entries = 0 -> "none" [] entries = 1 -> "one" [] OTHER -> "error"

\* A PAM stack that lets nobody in without the password.
PamAuthenticate(pw) == IF pw = Secret THEN "ok" ELSE "failed"

-----------------------------------------------------------------------------
(* verify *)

httpVerify(cfg, pw, env) ==
    CASE env.call = "down" \/ env.status # "2xx" \/ env.body = "garbled" -> Err
      [] OTHER -> IF pw = Secret THEN Yes ELSE No

\* dial: connect, then StartTLS if configured.
dial(cfg, env) == env.call # "down" /\ (cfg.startTLS => env.tls)

\* Mutant: the empty password goes to the directory.
ldapVerifyAny(cfg, pw, env) ==
    IF ~dial(cfg, env) \/ Search(env.entries) = "error" THEN Err
    ELSE IF Search(env.entries) = "one" /\ Bind(pw) = "ok" THEN Yes ELSE No

ldapVerify(cfg, pw, env) ==
    IF pw = Empty THEN No
    ELSE IF ~dial(cfg, env) THEN Err
    ELSE IF cfg.bindDN /\ ~env.serviceBind THEN Err
    ELSE IF Search(env.entries) = "error" THEN Err
    ELSE IF Search(env.entries) = "none" THEN No
    ELSE IF ~env.userBind THEN Err
    ELSE IF Bind(pw) = "invalid" THEN No
    ELSE Yes

pamVerify(cfg, pw, env) ==
    IF pw = Empty THEN No
    ELSE IF env.call = "down" THEN Err
    ELSE IF PamAuthenticate(pw) # "ok" \/ ~env.account THEN No
    ELSE Yes

\* staticHandler, whose table holds the user or not.
staticVerify(pw, env) == IF env.entries = 1 /\ pw = Secret THEN Yes ELSE No

verify(backend, cfg, pw, env) ==
    CASE backend = "http" -> httpVerify(cfg, pw, env)
      [] backend = "ldap" -> ldapVerify(cfg, pw, env)
      [] backend = "pam" -> pamVerify(cfg, pw, env)
      [] backend = "static" -> staticVerify(pw, env)

-----------------------------------------------------------------------------
\* Authenticate of all of them: the password is the CONTINUE's or, in a PAP
\* START, its data; otherwise it is asked for.  The static table refuses an
\* unknown user before it asks.
BackendAuthenticate(backend, cfg, type, data, cont, env) ==
    IF backend = "static" /\ env.entries # 1 THEN "FAIL"
    ELSE IF ~cont.sent /\ type # "pap" THEN "GETPASS"
    ELSE LET answer == verify(backend, cfg, IF cont.sent THEN cont.msg ELSE data, env)
         IN CASE answer = Err -> "ERROR"
              [] answer = Yes -> "PASS"
              [] answer = No -> "FAIL"
=============================================================================
