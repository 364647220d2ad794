-------------------------- MODULE SecretProviders --------------------------
(***************************************************************************)
(* server/secret.go and secret_dns.go: the providers that choose secret    *)
(* and transport mode for a new connection, stacked as PrefixSecretProvider*)
(* over DNSSecretProvider over StaticSecret.  Connections call Get while   *)
(* Replace swaps the prefix rules and any number of Refresh calls resolve  *)
(* the host names again.                                                   *)
(*                                                                         *)
(* PrefixSecretProvider.Get keeps its read lock while it asks the          *)
(* fallback, so a step of Replace may have to wait for it; a waiting       *)
(* writer keeps new readers out (sync.RWMutex).  The critical sections of  *)
(* DNSSecretProvider contain no call and are one step each.                *)
(*                                                                         *)
(* An address is an IP and the form it is represented in: the 4-byte and   *)
(* the 16-byte form of an IPv4 address are different byte slices.          *)
(***************************************************************************)
EXTENDS Naturals, Sequences, SequencesExt

CONSTANTS
    Conns,          \* connections being accepted
    Refreshers,     \* goroutines that call Refresh
    Hosts,          \* the hosts of the DNS rules, in order
    Answer(_, _),   \* Answer(h, v): the v-th answer of DNS for h, addresses
    MaxVersion(_),  \* bound: MaxVersion(h) is the last answer for h
    HostSecret(_),  \* HostSecret(h): SecretConfig of h's rule
    Addresses,      \* peers' addresses: records with an ip and a form
    PrefixConfigs,  \* arguments of Replace: rules, and whether a fallback
    Rejected,       \* Get returns an error
    Default         \* what the last fallback answers: a secret or Rejected

\* ipFromAddr of an address that holds no IP.
NoIP == [ip |-> "none", form |-> 0]

NoWriter == [rules |-> <<>>, fallback |-> "nowriter"]

ASSUME SecretAssumption ==
    /\ Hosts \in Seq(ToSet(Hosts))
    /\ \A h \in ToSet(Hosts) : MaxVersion(h) \in Nat
    /\ NoWriter \notin PrefixConfigs
    /\ \A g \in PrefixConfigs : \A i \in DOMAIN g.rules : NoIP.ip \notin g.rules[i].net
    /\ \A h \in ToSet(Hosts) : \A v \in 0..MaxVersion(h) :
         \A a \in Answer(h, v) : a.ip # NoIP.ip

VARIABLES
    prefix,      \* PrefixSecretProvider: rules and fallback
    writer,      \* the configuration a Replace waits to store, or none
    ver,         \* DNSSecretProvider.rules: the answer in force for each rule
    dns,         \* the answer DNS gives at present for each rule's host
    rf,          \* each Refresh call
    pc, peer, result,    \* each Get call: where it is, its argument, its result
    window       \* history: answers that were right since the call

vars == <<prefix, writer, ver, dns, rf, pc, peer, result, window>>

Rules == DOMAIN Hosts

\* No Refresh in progress.
Idle == [at |-> 0, current |-> [i \in Rules |-> 0], updated |-> [i \in Rules |-> 0],
         kept |-> {}, floor |-> [i \in Rules |-> 0], overtaken |-> FALSE]

Init ==
    /\ prefix \in PrefixConfigs
    /\ writer = NoWriter
    /\ dns = [i \in Rules |-> 0]
    /\ ver = dns
    /\ rf = [r \in Refreshers |-> Idle]
    /\ pc = [c \in Conns |-> "idle"]
    /\ peer = [c \in Conns |-> NoIP]
    /\ result = [c \in Conns |-> Rejected]
    /\ window = [c \in Conns |-> {}]

-----------------------------------------------------------------------------
(* Lookups. *)

\* ipKey: one key for all forms of an address.
IPKey(a) == <<a.ip, 16>>

\* ipSet of an answer.
IPSet(addrs) == {IPKey(a) : a \in addrs}

\* The first prefix rule whose network contains the address.
PrefixMatches(rules, a) ==
    {i \in DOMAIN rules : a.ip \in rules[i].net}

\* The DNS rules whose resolved set contains the address.
DNSMatches(v, a) == {i \in Rules : IPKey(a) \in IPSet(Answer(Hosts[i], v[i]))}

\* DNSSecretProvider.Get with its fallback.
DNSGet(v, a) ==
    IF a # NoIP /\ DNSMatches(v, a) # {}
    THEN HostSecret(Hosts[Min(DNSMatches(v, a))])
    ELSE Default

\* What the stack promises for an address at a moment: the secret of the
\* first prefix that covers it, else of the first host it belongs to, else
\* the default.
RightAnswer(p, v, a) ==
    LET covering == {i \in DOMAIN p.rules : a.ip \in p.rules[i].net}
        owning == {i \in Rules :
                     \E b \in Answer(Hosts[i], v[i]) : b.ip = a.ip}
    IN  IF covering # {} THEN p.rules[Min(covering)].secret
        ELSE IF p.fallback = "none" THEN Rejected
        ELSE IF owning # {} THEN HostSecret(Hosts[Min(owning)])
        ELSE Default

\* The answers become right for the calls in progress.
Widen(p, v) ==
    window' = [c \in Conns |->
                 IF pc[c] \in {"called", "fallback"}
                 THEN window[c] \cup {RightAnswer(p, v, peer[c])}
                 ELSE window[c]]

-----------------------------------------------------------------------------
(* Get, called by Server.AcceptConn. *)

CallGet(c, a) ==
    /\ pc[c] = "idle"
    /\ pc' = [pc EXCEPT ![c] = "called"]
    /\ peer' = [peer EXCEPT ![c] = a]
    /\ window' = [window EXCEPT ![c] = {RightAnswer(prefix, ver, a)}]
    /\ UNCHANGED <<prefix, writer, ver, dns, rf, result>>

Answered(c, s) ==
    /\ pc' = [pc EXCEPT ![c] = "done"]
    /\ result' = [result EXCEPT ![c] = s]

\* PrefixSecretProvider.Get: RLock, match.  The lock is kept if the fallback
\* has to be asked (pc "fallback").
GetPrefix(c) ==
    LET hits == PrefixMatches(prefix.rules, peer[c]) IN
    /\ pc[c] = "called" /\ writer = NoWriter
    /\ IF peer[c] # NoIP /\ hits # {}
       THEN Answered(c, prefix.rules[Min(hits)].secret)
       ELSE IF prefix.fallback = "none"
       THEN Answered(c, Rejected)
       ELSE pc' = [pc EXCEPT ![c] = "fallback"] /\ UNCHANGED result
    /\ UNCHANGED <<prefix, writer, ver, dns, rf, peer, window>>

\* Mutant: Get waits while a Refresh is resolving.
GetDNSWaits(c) ==
    /\ pc[c] = "fallback"
    /\ \A r \in Refreshers : rf[r].at = 0
    /\ Answered(c, DNSGet(ver, peer[c]))
    /\ UNCHANGED <<prefix, writer, ver, dns, rf, peer, window>>

\* DNSSecretProvider.Get and fallbackGet.  The fallback is never changed, so
\* reading it in a second critical section makes no difference.
GetDNS(c) ==
    /\ pc[c] = "fallback"
    /\ Answered(c, DNSGet(ver, peer[c]))
    /\ UNCHANGED <<prefix, writer, ver, dns, rf, peer, window>>

\* AcceptConn takes the result: a connection, or a closed socket.
Accepted(c) ==
    /\ pc[c] = "done"
    /\ pc' = [pc EXCEPT ![c] = "idle"]
    /\ peer' = [peer EXCEPT ![c] = NoIP]
    /\ result' = [result EXCEPT ![c] = Rejected]
    /\ window' = [window EXCEPT ![c] = {}]
    /\ UNCHANGED <<prefix, writer, ver, dns, rf>>

-----------------------------------------------------------------------------
(* Replace. *)

\* The rules compile and Replace waits for the lock.  (A CIDR that does not
\* parse makes it return before.)
CallReplace(g) ==
    /\ writer = NoWriter
    /\ writer' = g
    /\ UNCHANGED <<prefix, ver, dns, rf, pc, peer, result, window>>

\* Mutant: the lock is not waited for.
StoreReplaceNow ==
    /\ writer # NoWriter
    /\ prefix' = writer
    /\ writer' = NoWriter
    /\ Widen(writer, ver)
    /\ UNCHANGED <<ver, dns, rf, pc, peer, result>>

\* Replace has the lock: rules and fallback change together.
StoreReplace ==
    /\ writer # NoWriter
    /\ \A c \in Conns : pc[c] # "fallback"
    /\ prefix' = writer
    /\ writer' = NoWriter
    /\ Widen(writer, ver)
    /\ UNCHANGED <<ver, dns, rf, pc, peer, result>>

-----------------------------------------------------------------------------
(* Refresh. *)

\* DNS changes its answer for the host of a rule.
DNSChanges(i) ==
    /\ dns[i] < MaxVersion(Hosts[i])
    /\ dns' = [dns EXCEPT ![i] = @ + 1]
    /\ UNCHANGED <<prefix, writer, ver, rf, pc, peer, result, window>>

BeginRefresh(r) ==
    /\ rf[r].at = 0
    /\ rf' = [rf EXCEPT ![r] = [Idle EXCEPT !.at = 1, !.current = ver, !.floor = dns]]
    /\ UNCHANGED <<prefix, writer, ver, dns, pc, peer, result, window>>

\* Mutant: a host that does not resolve loses its addresses (answer 0 stands
\* for those of the construction).
LookupForgets(r) ==
    LET i == rf[r].at IN
    /\ i \in Rules
    /\ \/ rf' = [rf EXCEPT ![r].at = @ + 1, ![r].updated[i] = dns[i]]
       \/ rf' = [rf EXCEPT ![r].at = @ + 1, ![r].updated[i] = 0,
                           ![r].kept = @ \cup {i}]
    /\ UNCHANGED <<prefix, writer, ver, dns, pc, peer, result, window>>

\* LookupIPAddr for the next rule returns addresses or an error; on an error
\* the set the Refresh found at its start is kept.
Lookup(r) ==
    LET i == rf[r].at IN
    /\ i \in Rules
    /\ \/ rf' = [rf EXCEPT ![r].at = @ + 1, ![r].updated[i] = dns[i]]
       \/ rf' = [rf EXCEPT ![r].at = @ + 1, ![r].updated[i] = rf[r].current[i],
                           ![r].kept = @ \cup {i}]
    /\ UNCHANGED <<prefix, writer, ver, dns, pc, peer, result, window>>

\* The updated rules are stored.  (That every lookup failed changes only the
\* error Refresh returns.)
StoreRefresh(r) ==
    /\ rf[r].at = Len(Hosts) + 1
    /\ ver' = rf[r].updated
    /\ Widen(prefix, rf[r].updated)
    /\ rf' = [q \in Refreshers |->
                IF q = r THEN Idle
                ELSE IF rf[q].at > 0 THEN [rf[q] EXCEPT !.overtaken = TRUE]
                ELSE rf[q]]
    /\ UNCHANGED <<prefix, writer, dns, pc, peer, result>>

-----------------------------------------------------------------------------
Get(c) == GetPrefix(c) \/ GetDNS(c)

Next ==
    \/ \E c \in Conns : (\E a \in Addresses \cup {NoIP} : CallGet(c, a)) \/ Get(c)
                        \/ Accepted(c)
    \/ \E g \in PrefixConfigs : CallReplace(g)
    \/ StoreReplace
    \/ \E i \in Rules : DNSChanges(i)
    \/ \E r \in Refreshers : BeginRefresh(r) \/ Lookup(r) \/ StoreRefresh(r)

Spec == Init /\ [][Next]_vars

\* Callers of Get and Replace that can go on do.  Lookups may never return.
\* Replace cannot keep readers out for ever by coming back.
FairSpec ==
    /\ Spec
    /\ \A c \in Conns : SF_vars(GetPrefix(c)) /\ WF_vars(GetDNS(c))
    /\ WF_vars(StoreReplace)

-----------------------------------------------------------------------------
\* The rules in force are ones that were given, every answer in force is one
\* DNS has given, and the Refresh calls count through the rules.
TypeOK ==
    /\ prefix \in PrefixConfigs
    /\ writer \in PrefixConfigs \cup {NoWriter}
    /\ dns \in [Rules -> Nat] /\ \A i \in Rules : dns[i] <= MaxVersion(Hosts[i])
    /\ ver \in [Rules -> Nat] /\ \A i \in Rules : ver[i] <= dns[i]
    /\ rf \in [Refreshers -> [at : 0..(Len(Hosts) + 1), kept : SUBSET Rules,
                              current : [Rules -> Nat],
                              updated : [Rules -> Nat],
                              floor : [Rules -> Nat], overtaken : BOOLEAN]]
    /\ pc \in [Conns -> {"idle", "called", "fallback", "done"}]
    /\ peer \in [Conns -> Addresses \cup {NoIP}]

\* A connection is accepted with the secret that was right for its address at
\* some moment of the call, although the two providers are consulted one
\* after the other while Replace and Refresh run ("Get implements
\* SecretProvider", "Replace atomically swaps the rules and fallback").
GetAnswersOneMoment ==
    \A c \in Conns : pc[c] = "done" => result[c] \in window[c]

\* What a Refresh stores is no older than what it promises: for a host that
\* resolved, the answer at its start; for one that did not, the set it found
\* ("its previous address set is retained").  If no other Refresh stored in
\* between, no host goes back to an earlier answer.
RefreshNeverGoesBack ==
    [][\A r \in Refreshers :
         StoreRefresh(r) =>
           \A i \in Rules :
             /\ ver'[i] >= IF i \in rf[r].kept THEN rf[r].current[i]
                           ELSE rf[r].floor[i]
             /\ ~rf[r].overtaken => ver'[i] >= ver[i]]_vars

\* A Get returns whatever the resolver does ("a slow or unavailable resolver
\* cannot stall accepted connections") and however often Replace is called.
GetReturns == \A c \in Conns : pc[c] = "called" ~> pc[c] = "done"
=============================================================================
