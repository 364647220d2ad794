---------------------------- MODULE SecretProofs ----------------------------
(***************************************************************************)
(* The secret providers, for any number of connections, refreshers, rules  *)
(* and DNS answers.                                                        *)
(***************************************************************************)
EXTENDS SecretProviders, TLAPS

\* A Refresh call.
RefreshType == [at : 0..(Len(Hosts) + 1), kept : SUBSET Rules,
                current : [Rules -> Nat], updated : [Rules -> Nat],
                floor : [Rules -> Nat], overtaken : BOOLEAN]

\* A Refresh in progress: what it has stored so far for the rules it has passed,
\* bounded below by what it found at its start and above by DNS.
RefreshOK(r) ==
    rf[r].at > 0 =>
        /\ \A i \in Rules : rf[r].current[i] <= rf[r].floor[i]
        /\ \A i \in Rules : rf[r].floor[i] <= dns[i]
        /\ ~rf[r].overtaken => rf[r].current = ver
        /\ \A i \in Rules :
             IF i < rf[r].at
             THEN IF i \in rf[r].kept
                  THEN rf[r].updated[i] = rf[r].current[i]
                  ELSE rf[r].floor[i] <= rf[r].updated[i] /\ rf[r].updated[i] <= dns[i]
             ELSE i \notin rf[r].kept

RefreshInv == TypeOK /\ \A r \in Refreshers : RefreshOK(r)

LEMMA RulesAreNumbers == Rules = 1..Len(Hosts) /\ Len(Hosts) \in Nat
<1>1. Hosts \in Seq(ToSet(Hosts))
  BY SecretAssumption
<1> QED
  BY <1>1 DEF Rules

LEMMA IdleType == Idle \in RefreshType
  BY RulesAreNumbers DEF Idle, RefreshType

\* What a lookup that answers, one that fails, and the start of a Refresh make
\* of the record.
Resolved(rec, n, i, x) == [rec EXCEPT !.at = n, !.updated[i] = x]

Kept(rec, n, i, x, K) == [rec EXCEPT !.at = n, !.updated[i] = x, !.kept = K]

Begun(rec, n, x, y) == [rec EXCEPT !.at = n, !.current = x, !.floor = y]

\* The record new is rec past rule i, which has answer x.
Passed(new, rec, n, i, x, K) ==
    /\ new \in RefreshType
    /\ new.at = n /\ new.kept = K
    /\ new.current = rec.current /\ new.floor = rec.floor
    /\ new.overtaken = rec.overtaken
    /\ \A j \in Rules : new.updated[j] = IF j = i THEN x ELSE rec.updated[j]

LEMMA RecordResolved ==
    ASSUME NEW rec \in RefreshType, NEW x \in Nat, NEW i \in Rules,
           NEW n \in 0..(Len(Hosts) + 1)
    PROVE  Passed(Resolved(rec, n, i, x), rec, n, i, x, rec.kept)
  BY DEF RefreshType, Resolved, Passed

LEMMA RecordKept ==
    ASSUME NEW rec \in RefreshType, NEW x \in Nat, NEW i \in Rules,
           NEW n \in 0..(Len(Hosts) + 1), NEW K \in SUBSET Rules
    PROVE  Passed(Kept(rec, n, i, x, K), rec, n, i, x, K)
  BY DEF RefreshType, Kept, Passed

LEMMA RecordBegun ==
    ASSUME NEW rec \in RefreshType, NEW n \in 0..(Len(Hosts) + 1),
           NEW x \in [Rules -> Nat], NEW y \in [Rules -> Nat]
    PROVE  /\ Begun(rec, n, x, y) \in RefreshType
           /\ Begun(rec, n, x, y).at = n /\ Begun(rec, n, x, y).kept = rec.kept
           /\ Begun(rec, n, x, y).current = x /\ Begun(rec, n, x, y).floor = y
  BY DEF RefreshType, Begun

\* The step of Refresh r past its next rule, to the record new.
Advances(r, new, x, K) ==
    LET i == rf[r].at IN
    /\ rf' = [rf EXCEPT ![r] = new]
    /\ Passed(new, rf[r], i + 1, i, x, K)
    /\ \/ x = dns[i] /\ K = rf[r].kept
       \/ x = rf[r].current[i] /\ K = rf[r].kept \cup {i}

LEMMA RefreshInit == Init => RefreshInv
<1> SUFFICES ASSUME Init PROVE RefreshInv
  OBVIOUS
<1>1. \A i \in Rules : MaxVersion(Hosts[i]) \in Nat
  BY SecretAssumption DEF Rules, ToSet
<1>2. TypeOK
  BY <1>1, IdleType DEF Init, TypeOK, RefreshType
<1>3. \A r \in Refreshers : RefreshOK(r)
  BY DEF Init, RefreshOK, Idle
<1> QED
  BY <1>2, <1>3 DEF RefreshInv

LEMMA RefreshStep == RefreshInv /\ [Next]_vars => RefreshInv'
<1> SUFFICES ASSUME RefreshInv, [Next]_vars PROVE RefreshInv'
  OBVIOUS
<1> USE DEF RefreshInv
<1> DEFINE refreshVars == <<ver, dns, rf>>
<1>1. ASSUME UNCHANGED refreshVars, TypeOK' PROVE RefreshInv'
  BY <1>1 DEF RefreshOK
<1>2. ASSUME NEW c \in Conns, NEW a \in Addresses \cup {NoIP}, CallGet(c, a)
      PROVE RefreshInv'
  BY <1>1, <1>2 DEF CallGet, TypeOK
<1>3. ASSUME NEW c \in Conns, Get(c) PROVE RefreshInv'
  BY <1>1, <1>3 DEF Get, GetPrefix, GetDNS, Answered, TypeOK
<1>4. ASSUME NEW c \in Conns, Accepted(c) PROVE RefreshInv'
  BY <1>1, <1>4 DEF Accepted, TypeOK
<1>5. ASSUME NEW g \in PrefixConfigs, CallReplace(g) PROVE RefreshInv'
  BY <1>1, <1>5 DEF CallReplace, TypeOK
<1>6. CASE StoreReplace
  BY <1>1, <1>6 DEF StoreReplace, TypeOK
<1>7. ASSUME NEW i \in Rules, DNSChanges(i) PROVE RefreshInv'
  <2>1. \A j \in Rules : dns[j] \in Nat /\ dns'[j] \in Nat /\ dns[j] <= dns'[j]
    BY <1>7 DEF DNSChanges, TypeOK
  <2>2. MaxVersion(Hosts[i]) \in Nat
    BY SecretAssumption DEF Rules, ToSet
  <2>3. TypeOK'
    BY <1>7, <2>1, <2>2 DEF DNSChanges, TypeOK
  <2>4. ASSUME NEW r \in Refreshers PROVE RefreshOK(r)'
    <3>1. rf[r] \in RefreshType
      BY DEF TypeOK, RefreshType
    <3>2. /\ UNCHANGED <<rf, ver>> /\ RefreshOK(r)
          /\ \A j \in Rules : /\ rf[r].floor[j] \in Nat
                              /\ rf[r].updated[j] \in Nat
      BY <1>7, <3>1 DEF DNSChanges, RefreshType
    <3>3. ASSUME rf[r].at > 0, NEW j \in Rules
          PROVE /\ rf[r].floor[j] <= dns'[j]
                /\ rf[r].updated[j] <= dns[j] => rf[r].updated[j] <= dns'[j]
      <4>1. rf[r].floor[j] <= dns[j]
        BY <3>2, <3>3 DEF RefreshOK
      <4> QED
        BY <2>1, <3>2, <4>1
    <3> QED
      BY <3>2, <3>3 DEF RefreshOK
  <2> QED
    BY <2>3, <2>4
<1>8. ASSUME NEW r \in Refreshers, BeginRefresh(r) PROVE RefreshInv'
  <2> DEFINE new == Begun(Idle, 1, ver, dns)
  <2>1. /\ rf' = [rf EXCEPT ![r] = new]
        /\ UNCHANGED <<prefix, writer, ver, dns, pc, peer, result, window>>
    BY <1>8 DEF BeginRefresh, Begun
  <2>2. /\ new \in RefreshType
        /\ new.at = 1 /\ new.current = ver /\ new.floor = dns /\ new.kept = {}
    <3>1. 1 \in 0..(Len(Hosts) + 1) /\ ver \in [Rules -> Nat] /\ dns \in [Rules -> Nat]
      BY RulesAreNumbers DEF TypeOK
    <3>2. Idle.kept = {}
      BY DEF Idle
    <3> QED
      BY <3>1, <3>2, IdleType, RecordBegun, SMTT(40)
  <2> HIDE DEF new
  <2>3. TypeOK'
    BY <2>1, <2>2 DEF TypeOK, RefreshType
  <2>5. ASSUME NEW q \in Refreshers PROVE RefreshOK(q)'
    <3>1. CASE q = r
      <4>1. rf'[q] = new
        BY <2>1, <3>1 DEF TypeOK
      <4>2. rf'[q].at = 1 /\ rf'[q].current = ver /\ rf'[q].floor = dns /\ rf'[q].kept = {}
        BY <2>2, <4>1
      <4>3. \A i \in Rules : ~ (i < 1) /\ ver[i] <= dns[i] /\ dns[i] <= dns[i]
        BY RulesAreNumbers DEF TypeOK
      <4> QED
        BY <2>1, <4>2, <4>3 DEF RefreshOK
    <3>2. CASE q # r
      BY <2>1, <3>2 DEF RefreshOK, TypeOK
    <3> QED
      BY <3>1, <3>2
  <2> QED
    BY <2>3, <2>5
<1>9. ASSUME NEW r \in Refreshers, Lookup(r) PROVE RefreshInv'
  <2> DEFINE i == rf[r].at
  <2>1. i \in Rules /\ UNCHANGED <<prefix, writer, ver, dns, pc, peer, result, window>>
    BY <1>9 DEF Lookup
  <2>2. rf[r] \in RefreshType
    BY DEF TypeOK, RefreshType
  <2>3. PICK new, x, K : Advances(r, new, x, K)
    <3>1. /\ i + 1 \in 0..(Len(Hosts) + 1) /\ dns[i] \in Nat
          /\ rf[r].current[i] \in Nat /\ rf[r].kept \cup {i} \in SUBSET Rules
      BY <2>1, <2>2, RulesAreNumbers, SMTT(40) DEF TypeOK, RefreshType
    <3>2. CASE rf' = [rf EXCEPT ![r].at = @ + 1, ![r].updated[i] = dns[i]]
      <4> DEFINE new == Resolved(rf[r], i + 1, i, dns[i])
      <4>1. rf' = [rf EXCEPT ![r] = new]
        BY <3>2 DEF TypeOK, Resolved
      <4>2. Passed(new, rf[r], i + 1, i, dns[i], rf[r].kept)
        BY <2>1, <2>2, <3>1, RecordResolved
      <4> HIDE DEF new
      <4>3. Advances(r, new, dns[i], rf[r].kept)
        BY <4>1, <4>2 DEF Advances
      <4> QED
        BY <4>3
    <3>3. CASE rf' = [rf EXCEPT ![r].at = @ + 1, ![r].updated[i] = rf[r].current[i],
                                ![r].kept = @ \cup {i}]
      <4> DEFINE new == Kept(rf[r], i + 1, i, rf[r].current[i], rf[r].kept \cup {i})
      <4>1. rf' = [rf EXCEPT ![r] = new]
        BY <3>3, ZenonT(60) DEF TypeOK, Kept
      <4>2. Passed(new, rf[r], i + 1, i, rf[r].current[i], rf[r].kept \cup {i})
        BY <2>1, <2>2, <3>1, RecordKept
      <4> HIDE DEF new
      <4>3. Advances(r, new, rf[r].current[i], rf[r].kept \cup {i})
        BY <4>1, <4>2 DEF Advances
      <4> QED
        BY <4>3
    <3> QED
      BY <1>9, <3>2, <3>3 DEF Lookup
  <2>5. TypeOK'
    BY <2>1, <2>3 DEF TypeOK, RefreshType, Advances, Passed
  <2>6. ASSUME NEW q \in Refreshers PROVE RefreshOK(q)'
    <3>1. CASE q = r
      <4>1. rf'[q] = new
        BY <2>3, <3>1 DEF TypeOK, Advances, Passed
      <4>2. /\ new.at = i + 1 /\ i > 0 /\ new.current = rf[r].current
            /\ new.floor = rf[r].floor /\ new.overtaken = rf[r].overtaken
            /\ \A j \in Rules \ {i} : /\ new.updated[j] = rf[r].updated[j]
                                      /\ j \in new.kept <=> j \in rf[r].kept
        <5>1. i > 0
          BY <2>1, RulesAreNumbers
        <5> QED
          BY <2>1, <2>2, <2>3, <5>1 DEF RefreshType, Advances, Passed
      <4>3. IF i \in new.kept THEN new.updated[i] = rf[r].current[i]
            ELSE new.updated[i] = dns[i]
        <5>1. i \notin rf[r].kept
          BY <2>1, RulesAreNumbers DEF RefreshOK
        <5>2. new.updated[i] = x /\ new.kept = K
          BY <2>1, <2>2, <2>3 DEF RefreshType, Advances, Passed
        <5> QED
          BY <2>3, <5>1, <5>2 DEF Advances, Passed
      <4>4. \A j \in Rules : j \in Nat /\ (j < i + 1 <=> j < i \/ j = i)
        BY <2>1, RulesAreNumbers
      <4>5. RefreshOK(r) /\ dns \in [Rules -> Nat]
        BY DEF TypeOK
      <4>6. \A j \in Rules : /\ rf[r].current[j] <= rf[r].floor[j]
                             /\ rf[r].floor[j] <= dns[j]
        BY <4>2, <4>5 DEF RefreshOK
      <4>7. ASSUME NEW j \in Rules
            PROVE IF j < new.at
                  THEN IF j \in new.kept
                       THEN new.updated[j] = new.current[j]
                       ELSE new.floor[j] <= new.updated[j] /\ new.updated[j] <= dns[j]
                  ELSE j \notin new.kept
        <5>1. CASE j = i
          BY <4>2, <4>3, <4>4, <4>5, <4>6, <5>1
        <5>2. CASE j # i
          BY <4>2, <4>4, <4>5, <5>2 DEF RefreshOK
        <5> QED
          BY <5>1, <5>2
      <4> QED
        BY <2>1, <3>1, <4>1, <4>2, <4>5, <4>6, <4>7 DEF RefreshOK
    <3>2. CASE q # r
      <4>1. rf'[q] = rf[q]
        BY <2>3, <3>2 DEF TypeOK, Advances, Passed
      <4> QED
        BY <2>1, <4>1 DEF RefreshOK
    <3> QED
      BY <3>1, <3>2
  <2> QED
    BY <2>5, <2>6
<1>10. ASSUME NEW r \in Refreshers, StoreRefresh(r) PROVE RefreshInv'
  <2>1. rf[r] \in RefreshType
    BY DEF TypeOK, RefreshType
  <2>2. /\ ver' = rf[r].updated
        /\ UNCHANGED <<prefix, writer, dns, pc, peer, result>>
    BY <1>10 DEF StoreRefresh
  <2>3. \A i \in Rules : ver'[i] <= dns'[i]
    <3>1. \A i \in Rules : i < rf[r].at
      BY <1>10, RulesAreNumbers DEF StoreRefresh
    <3>2. rf[r].at > 0
      BY <1>10, RulesAreNumbers DEF StoreRefresh
    <3>3. \A i \in Rules : /\ rf[r].updated[i] \in Nat /\ rf[r].current[i] \in Nat
                           /\ rf[r].floor[i] \in Nat /\ dns[i] \in Nat
      BY <2>1 DEF TypeOK, RefreshType
    <3> QED
      BY <2>2, <3>1, <3>2, <3>3 DEF RefreshOK
  <2>4. rf' \in [Refreshers -> RefreshType]
    BY <1>10, IdleType DEF StoreRefresh, TypeOK, RefreshType
  <2>5. TypeOK'
    BY <2>1, <2>2, <2>3, <2>4 DEF TypeOK, RefreshType
  <2>6. ASSUME NEW q \in Refreshers PROVE RefreshOK(q)'
    <3>1. CASE q = r \/ rf[q].at = 0
      <4>1. rf'[q].at = 0
        <5>1. rf'[q] = IF q = r THEN Idle
                ELSE IF rf[q].at > 0 THEN [rf[q] EXCEPT !.overtaken = TRUE]
                ELSE rf[q]
          BY <1>10 DEF StoreRefresh
        <5> QED
          BY <3>1, <5>1 DEF Idle
      <4> QED
        BY <4>1 DEF RefreshOK
    <3>2. CASE q # r /\ rf[q].at # 0
      <4>1. rf[q].at > 0
        BY <3>2, RulesAreNumbers DEF TypeOK
      <4>2. rf'[q] = [rf[q] EXCEPT !.overtaken = TRUE]
        BY <1>10, <3>2, <4>1 DEF StoreRefresh
      <4>3. /\ rf'[q].at = rf[q].at /\ rf'[q].current = rf[q].current
            /\ rf'[q].floor = rf[q].floor /\ rf'[q].updated = rf[q].updated
            /\ rf'[q].kept = rf[q].kept /\ rf'[q].overtaken
        BY <4>2 DEF TypeOK
      <4> QED
        BY <2>2, <4>1, <4>3 DEF RefreshOK
    <3> QED
      BY <3>1, <3>2
  <2> QED
    BY <2>5, <2>6
<1>11. CASE UNCHANGED vars
  BY <1>1, <1>11 DEF vars, TypeOK
<1> QED
  BY <1>2, <1>3, <1>4, <1>5, <1>6, <1>7, <1>8, <1>9, <1>10, <1>11 DEF Next

LEMMA RefreshInvariant == Spec => []RefreshInv
  BY RefreshInit, RefreshStep, PTL DEF Spec

\* The rules in force are well formed and never ahead of DNS, for any number
\* of callers (Get, Replace, Refresh).
THEOREM TypeCorrect == Spec => []TypeOK
<1>1. RefreshInv => TypeOK
  BY DEF RefreshInv
<1> QED
  BY <1>1, RefreshInvariant, PTL

\* A Refresh never stores an address set older than the one it promises, and
\* alone it never takes a host back (DNSSecretProvider.Refresh).
THEOREM RefreshForward == Spec => RefreshNeverGoesBack
<1>1. ASSUME RefreshInv, NEW r \in Refreshers, StoreRefresh(r), NEW i \in Rules
      PROVE /\ ver'[i] >= IF i \in rf[r].kept THEN rf[r].current[i]
                          ELSE rf[r].floor[i]
            /\ ~rf[r].overtaken => ver'[i] >= ver[i]
  <2>1. rf[r].at > 0 /\ i < rf[r].at /\ ver' = rf[r].updated
    BY <1>1, RulesAreNumbers DEF StoreRefresh
  <2>2. /\ rf[r].updated[i] \in Nat /\ rf[r].current[i] \in Nat
        /\ rf[r].floor[i] \in Nat /\ ver[i] \in Nat
    BY <1>1 DEF RefreshInv, TypeOK
  <2>3. /\ rf[r].current[i] <= rf[r].floor[i]
        /\ ~rf[r].overtaken => rf[r].current[i] = ver[i]
        /\ IF i \in rf[r].kept THEN rf[r].updated[i] = rf[r].current[i]
           ELSE rf[r].floor[i] <= rf[r].updated[i]
    BY <1>1, <2>1 DEF RefreshInv, RefreshOK
  <2> QED
    BY <2>1, <2>2, <2>3
<1>2. RefreshInv /\ [Next]_vars =>
        [\A r \in Refreshers :
           StoreRefresh(r) =>
             \A i \in Rules :
               /\ ver'[i] >= IF i \in rf[r].kept THEN rf[r].current[i]
                             ELSE rf[r].floor[i]
               /\ ~rf[r].overtaken => ver'[i] >= ver[i]]_vars
  BY <1>1
<1> QED
  BY <1>2, RefreshInvariant, PTL DEF Spec, RefreshNeverGoesBack

-----------------------------------------------------------------------------
\* A Get in progress: the answer right at present is in its window; while the
\* fallback is asked no prefix rule covers the address, because the read lock
\* keeps Replace out.
GetOK(c) ==
    /\ pc[c] \in {"called", "fallback"} => RightAnswer(prefix, ver, peer[c]) \in window[c]
    /\ pc[c] = "fallback" => /\ prefix.fallback # "none"
                             /\ PrefixMatches(prefix.rules, peer[c]) = {}
    /\ pc[c] = "done" => result[c] \in window[c]

GetInv ==
    /\ DOMAIN window = Conns /\ DOMAIN result = Conns
    /\ \A c \in Conns : GetOK(c)

\* The first covering prefix is the answer.
LEMMA RightCovered ==
    ASSUME NEW p, NEW v, NEW a, PrefixMatches(p.rules, a) # {}
    PROVE  RightAnswer(p, v, a) = p.rules[Min(PrefixMatches(p.rules, a))].secret
  BY DEF RightAnswer, PrefixMatches

\* Without a covering prefix it is the fallback's.
LEMMA RightUncovered ==
    ASSUME TypeOK, NEW p, NEW a, PrefixMatches(p.rules, a) = {}
    PROVE  RightAnswer(p, ver, a) = IF p.fallback = "none" THEN Rejected
                                    ELSE DNSGet(ver, a)
<1> DEFINE owning == {i \in Rules : \E b \in Answer(Hosts[i], ver[i]) : b.ip = a.ip}
<1>1. owning = DNSMatches(ver, a)
  <2>1. ASSUME NEW i \in Rules
        PROVE (\E b \in Answer(Hosts[i], ver[i]) : b.ip = a.ip)
              <=> IPKey(a) \in IPSet(Answer(Hosts[i], ver[i]))
    BY DEF IPKey, IPSet
  <2> QED
    BY <2>1 DEF DNSMatches
<1>2. a = NoIP => owning = {}
  <2> SUFFICES ASSUME NEW i \in Rules, NEW b \in Answer(Hosts[i], ver[i]),
                      b.ip = NoIP.ip
               PROVE  FALSE
    OBVIOUS
  <2>1. Hosts[i] \in ToSet(Hosts)
    BY DEF ToSet, Rules
  <2>2. MaxVersion(Hosts[i]) \in Nat
    BY <2>1, SecretAssumption
  <2>3. ver[i] \in 0..MaxVersion(Hosts[i])
    BY <2>2 DEF TypeOK
  <2> QED
    BY <2>1, <2>3, SecretAssumption
<1>3. RightAnswer(p, ver, a) = IF p.fallback = "none" THEN Rejected
                               ELSE IF owning # {} THEN HostSecret(Hosts[Min(owning)])
                               ELSE Default
  BY DEF RightAnswer, PrefixMatches
<1> HIDE DEF owning
<1> QED
  BY <1>1, <1>2, <1>3 DEF DNSGet

\* An address without an IP is covered by no prefix.
LEMMA NoIPUncovered == ASSUME NEW g \in PrefixConfigs
                       PROVE  PrefixMatches(g.rules, NoIP) = {}
  BY SecretAssumption DEF PrefixMatches

LEMMA GetInit == Init => GetInv
  BY DEF Init, GetInv, GetOK

LEMMA GetStep == TypeOK /\ TypeOK' /\ GetInv /\ [Next]_vars => GetInv'
<1> SUFFICES ASSUME TypeOK, TypeOK', GetInv, [Next]_vars PROVE GetInv'
  OBVIOUS
<1>0. DOMAIN pc = Conns /\ DOMAIN peer = Conns
  BY DEF TypeOK
<1> DEFINE callVars == <<pc, peer, result, window>>
<1>1. ASSUME UNCHANGED callVars, UNCHANGED <<prefix, ver>> PROVE GetInv'
  BY <1>1 DEF GetInv, GetOK
<1>2. ASSUME NEW c \in Conns, NEW a \in Addresses \cup {NoIP}, CallGet(c, a)
      PROVE GetInv'
  <2>1. /\ UNCHANGED <<prefix, ver, result>>
        /\ pc'[c] = "called" /\ peer'[c] = a
        /\ window'[c] = {RightAnswer(prefix, ver, a)}
        /\ \A d \in Conns \ {c} : pc'[d] = pc[d] /\ peer'[d] = peer[d]
                                  /\ window'[d] = window[d]
        /\ DOMAIN window' = Conns
    BY <1>0, <1>2 DEF CallGet, GetInv
  <2>2. ASSUME NEW d \in Conns PROVE GetOK(d)'
    <3>1. CASE d = c
      BY <2>1, <3>1 DEF GetOK
    <3>2. CASE d # c
      BY <2>1, <3>2 DEF GetOK, GetInv
    <3> QED
      BY <3>1, <3>2
  <2> QED
    BY <2>1, <2>2 DEF GetInv
<1>3. ASSUME NEW c \in Conns, GetPrefix(c) PROVE GetInv'
  <2> DEFINE hits == PrefixMatches(prefix.rules, peer[c])
  <2>1. /\ UNCHANGED <<prefix, ver, peer, window>> /\ pc[c] = "called"
        /\ \A d \in Conns \ {c} : pc'[d] = pc[d] /\ result'[d] = result[d]
        /\ DOMAIN result' = Conns
    BY <1>0, <1>3 DEF GetPrefix, Answered, GetInv
  <2>2. RightAnswer(prefix, ver, peer[c]) \in window[c]
    BY <2>1 DEF GetInv, GetOK
  <2>3. peer[c] = NoIP => hits = {}
    BY NoIPUncovered DEF TypeOK
  <2>4. GetOK(c)'
    <3>1. CASE hits # {}
      <4>1. pc'[c] = "done" /\ result'[c] = prefix.rules[Min(hits)].secret
        BY <1>0, <1>3, <2>3, <3>1 DEF GetPrefix, Answered, GetInv
      <4>2. result'[c] = RightAnswer(prefix, ver, peer[c])
        BY <3>1, <4>1, RightCovered
      <4> QED
        BY <2>1, <2>2, <4>1, <4>2 DEF GetOK
    <3>2. CASE hits = {} /\ prefix.fallback = "none"
      <4>1. pc'[c] = "done" /\ result'[c] = Rejected
        BY <1>0, <1>3, <3>2 DEF GetPrefix, Answered, GetInv
      <4>2. result'[c] = RightAnswer(prefix, ver, peer[c])
        BY <3>2, <4>1, RightUncovered
      <4> QED
        BY <2>1, <2>2, <4>1, <4>2 DEF GetOK
    <3>3. CASE hits = {} /\ prefix.fallback # "none"
      <4>1. pc'[c] = "fallback"
        BY <1>0, <1>3, <3>3 DEF GetPrefix
      <4> QED
        BY <2>1, <2>2, <3>3, <4>1 DEF GetOK
    <3> QED
      BY <3>1, <3>2, <3>3
  <2>5. ASSUME NEW d \in Conns, d # c PROVE GetOK(d)'
    BY <2>1, <2>5 DEF GetOK, GetInv
  <2> QED
    BY <2>1, <2>4, <2>5 DEF GetInv
<1>4. ASSUME NEW c \in Conns, GetDNS(c) PROVE GetInv'
  <2>1. /\ UNCHANGED <<prefix, ver, peer, window>> /\ pc[c] = "fallback"
        /\ pc'[c] = "done" /\ result'[c] = DNSGet(ver, peer[c])
        /\ \A d \in Conns \ {c} : pc'[d] = pc[d] /\ result'[d] = result[d]
        /\ DOMAIN result' = Conns
    BY <1>0, <1>4 DEF GetDNS, Answered, GetInv
  <2>2. /\ RightAnswer(prefix, ver, peer[c]) \in window[c]
        /\ prefix.fallback # "none" /\ PrefixMatches(prefix.rules, peer[c]) = {}
    BY <2>1 DEF GetInv, GetOK
  <2>3. result'[c] = RightAnswer(prefix, ver, peer[c])
    BY <2>1, <2>2, RightUncovered
  <2>4. GetOK(c)'
    BY <2>1, <2>2, <2>3 DEF GetOK
  <2>5. ASSUME NEW d \in Conns, d # c PROVE GetOK(d)'
    BY <2>1, <2>5 DEF GetOK, GetInv
  <2> QED
    BY <2>1, <2>4, <2>5 DEF GetInv
<1>5. ASSUME NEW c \in Conns, Accepted(c) PROVE GetInv'
  <2>1. /\ UNCHANGED <<prefix, ver>> /\ pc'[c] = "idle"
        /\ \A d \in Conns \ {c} : pc'[d] = pc[d] /\ peer'[d] = peer[d]
                                  /\ window'[d] = window[d] /\ result'[d] = result[d]
        /\ DOMAIN window' = Conns /\ DOMAIN result' = Conns
    BY <1>0, <1>5 DEF Accepted, GetInv
  <2>2. GetOK(c)'
    BY <2>1 DEF GetOK
  <2>3. ASSUME NEW d \in Conns, d # c PROVE GetOK(d)'
    BY <2>1, <2>3 DEF GetOK, GetInv
  <2> QED
    BY <2>1, <2>2, <2>3 DEF GetInv
<1>6. ASSUME NEW p, NEW v, Widen(p, v), prefix' = p, ver' = v,
             UNCHANGED <<pc, peer, result>>,
             p = prefix \/ \A c \in Conns : pc[c] # "fallback"
      PROVE GetInv'
  <2>1. ASSUME NEW d \in Conns PROVE GetOK(d)'
    <3>1. CASE pc[d] \in {"called", "fallback"}
      <4>1. RightAnswer(p, v, peer[d]) \in window'[d]
        BY <1>6, <3>1 DEF Widen
      <4> QED
        BY <1>6, <3>1, <4>1 DEF GetOK, GetInv
    <3>2. CASE pc[d] \notin {"called", "fallback"}
      <4>1. window'[d] = window[d]
        BY <1>6, <3>2 DEF Widen
      <4> QED
        BY <1>6, <3>2, <4>1 DEF GetOK, GetInv
    <3> QED
      BY <3>1, <3>2
  <2>2. DOMAIN window' = Conns
    BY <1>6 DEF Widen
  <2> QED
    BY <1>6, <2>1, <2>2 DEF GetInv
<1>7. CASE StoreReplace
  <2>1. /\ Widen(writer, ver) /\ prefix' = writer /\ ver' = ver
        /\ UNCHANGED <<pc, peer, result>> /\ \A c \in Conns : pc[c] # "fallback"
    BY <1>7 DEF StoreReplace
  <2> QED
    BY <1>6, <2>1
<1>8. ASSUME NEW r \in Refreshers, StoreRefresh(r) PROVE GetInv'
  <2>1. /\ Widen(prefix, rf[r].updated) /\ prefix' = prefix /\ ver' = rf[r].updated
        /\ UNCHANGED <<pc, peer, result>>
    BY <1>8 DEF StoreRefresh
  <2> QED
    BY <1>6, <2>1
<1>9. CASE (\E g \in PrefixConfigs : CallReplace(g)) \/ (\E i \in Rules : DNSChanges(i))
  BY <1>1, <1>9 DEF CallReplace, DNSChanges
<1>10. ASSUME NEW r \in Refreshers, BeginRefresh(r) \/ Lookup(r) PROVE GetInv'
  BY <1>1, <1>10 DEF BeginRefresh, Lookup
<1>11. CASE UNCHANGED vars
  BY <1>1, <1>11 DEF vars
<1> QED
  BY <1>2, <1>3, <1>4, <1>5, <1>7, <1>8, <1>9, <1>10, <1>11 DEF Next, Get

\* Whatever Replace and Refresh do during a call, Get answers as the stack of
\* providers would have at one moment of it (PrefixSecretProvider.Get,
\* DNSSecretProvider.Get).
THEOREM OneMoment == Spec => []GetAnswersOneMoment
<1>1. GetInv => GetAnswersOneMoment
  BY DEF GetInv, GetOK, GetAnswersOneMoment
<1> QED
  BY <1>1, GetInit, GetStep, TypeCorrect, PTL DEF Spec
=============================================================================
