---------------------------- MODULE PolicyProofs ----------------------------
(***************************************************************************)
(* Proofs about Policy.tla: what its handlers answer, for every            *)
(* configuration and request.                                              *)
(*                                                                         *)
(* The provers do no induction over data.  An induction here is over the   *)
(* set of numbers a claim holds of: a set of naturals that has 0 and with  *)
(* every member its successor is Nat (SetInduction).  It is used for the   *)
(* existence of functions defined by recursion (Recursion), for what       *)
(* FlattenSeq returns (Flatten), and for the levels of a user's rules      *)
(* (ResolvedRanked).                                                       *)
(***************************************************************************)
EXTENDS Policy, SequenceTheorems, WellFoundedInduction, TLAPS

-----------------------------------------------------------------------------
(* Numbers and sequences *)

\* A set of naturals has a least member.
LEMMA NatMin ==
    ASSUME NEW T \in SUBSET Nat, T # {}
    PROVE  \E n \in T : \A m \in T : n <= m
<1>1. IsWellFoundedOn(OpToRel(<, Nat), Nat)
  BY NatLessThanWellFounded
<1>2. OpToRel(<, Nat) = {ss \in Nat \X Nat : ss[1] < ss[2]}
  BY Zenon DEF OpToRel
<1>3. PICK n \in T : \A m \in T : <<m, n>> \notin OpToRel(<, Nat)
  BY <1>1, WFMin
<1>4. ASSUME NEW m \in T PROVE n <= m
  <2>1. <<m, n>> \notin {ss \in Nat \X Nat : ss[1] < ss[2]}
    BY Zenon, <1>2, <1>3
  <2>. QED BY <2>1
<1>. QED BY <1>4

\* Induction, stated of a set.
LEMMA SetInduction ==
    ASSUME NEW S \in SUBSET Nat, 0 \in S, \A n \in S : n + 1 \in S
    PROVE  S = Nat
<1>. DEFINE T == Nat \ S
<1>1. SUFFICES ASSUME T # {} PROVE FALSE
  BY Zenon
<1>2. PICK n \in T : \A m \in T : n <= m
  BY Zenon, <1>1, NatMin
<1>3. n - 1 \in S
  BY <1>2
<1>. QED BY <1>3

\* f is defined by recursion over 0..n.
Computes(f, n, D, base, step) ==
    /\ f \in [0..n -> D]
    /\ f[0] = base
    /\ \A i \in 1..n : f[i] = step[i][f[i - 1]]

\* A function can be defined by recursion over 0..n.
LEMMA Recursion ==
    ASSUME NEW n \in Nat, NEW D, NEW base \in D,
           NEW step \in [1..n -> [D -> D]]
    PROVE  \E f : Computes(f, n, D, base, step)
<1>. DEFINE Holds(m) == m <= n => \E f : Computes(f, m, D, base, step)
            S == {m \in Nat : Holds(m)}
<1>1. Holds(0)
  <2>1. Computes([i \in 0..0 |-> base], 0, D, base, step)
    BY DEF Computes
  <2>. QED BY <2>1
<1>2. ASSUME NEW m \in Nat, Holds(m) PROVE Holds(m + 1)
  <2>. SUFFICES ASSUME m + 1 <= n PROVE \E f : Computes(f, m + 1, D, base, step)
    OBVIOUS
  <2>1. PICK f : Computes(f, m, D, base, step)
    BY <1>2
  <2>. DEFINE g == [i \in 0..(m + 1) |-> IF i = m + 1 THEN step[i][f[m]] ELSE f[i]]
  <2>2. step[m + 1][f[m]] \in D
    BY <2>1 DEF Computes
  <2>3. g \in [0..(m + 1) -> D]
    BY <2>1, <2>2 DEF Computes
  <2>4. g[0] = base
    BY <2>1 DEF Computes
  <2>5. ASSUME NEW i \in 1..(m + 1) PROVE g[i] = step[i][g[i - 1]]
    <3>1. i - 1 \in 0..m
      OBVIOUS
    <3>. QED BY <2>1, <3>1 DEF Computes
  <2>6. Computes(g, m + 1, D, base, step)
    <3>. HIDE DEF g
    <3>. QED BY <2>3, <2>4, <2>5 DEF Computes
  <2>. QED BY <2>6
<1>. HIDE DEF Holds
<1>3. 0 \in S /\ \A m \in S : m + 1 \in S
  BY <1>1, <1>2
<1>4. S \in SUBSET Nat
  OBVIOUS
<1>5. S = Nat
  <2>. HIDE DEF S
  <2>. QED BY <1>3, <1>4, SetInduction
<1>6. Holds(n)
  BY <1>5
<1>. QED BY <1>6 DEF Holds

\* FlattenSeq puts one sequence after the other.
LEMMA Flatten ==
    ASSUME NEW X, NEW ss \in Seq(Seq(X))
    PROVE  \E f \in [0..Len(ss) -> Seq(X)] :
             /\ f[0] = <<>>
             /\ \A i \in 1..Len(ss) : f[i] = f[i - 1] \o ss[i]
             /\ FlattenSeq(ss) = f[Len(ss)]
<1>. DEFINE D == Seq(X)
<1>0. PICK n : n = Len(ss)
  OBVIOUS
<1>n. n \in Nat /\ \A i \in 1..n : ss[i] \in D
  BY <1>0
<1>d. <<>> \in D /\ \A x, y \in D : x \o y \in D /\ <<>> \o y = y
  OBVIOUS
<1>e. <<>> \in D
  BY <1>d
<1>. DEFINE step == [i \in 1..n |-> [x \in D |-> x \o ss[i]]]
<1>. HIDE DEF D
<1>1. step \in [1..n -> [D -> D]]
  BY <1>n, <1>d
<1>2. PICK f : Computes(f, n, D, <<>>, step)
  <2>. HIDE DEF step
  <2>. QED BY <1>1, <1>n, <1>e, Recursion
<1>3. ASSUME NEW i \in 1..n PROVE f[i] = f[i - 1] \o ss[i]
  <2>1. i - 1 \in 0..n
    BY <1>n
  <2>2. f[i] = step[i][f[i - 1]]
    BY Zenon, <1>2 DEF Computes
  <2>3. f[i - 1] \in D
    BY <1>2, <2>1 DEF Computes
  <2>. QED BY Zenon, <2>2, <2>3
<1>f. /\ f \in [0..n -> D]
      /\ f[0] = <<>>
      /\ \A i \in 1..n : f[i] = f[i - 1] \o ss[i]
  <2>. HIDE DEF step
  <2>. QED BY Zenon, <1>2, <1>3 DEF Computes
<1>. HIDE DEF step
<1>4. CASE n = 0
  <2>1. ss = <<>>
    BY Zenon, <1>0, <1>4, EmptySeq
  <2>2. FlattenSeq(ss) = f[n]
    BY <1>0, <1>4, <1>f, <2>1 DEF FlattenSeq
  <2>. QED BY <1>0, <1>f, <2>2 DEF D
<1>5. CASE n # 0
  <2>. DEFINE Eq(g) == g = [i \in 1..n |-> IF i = 1 THEN ss[i] ELSE g[i - 1] \o ss[i]]
              h == CHOOSE g : Eq(g)
              r == [i \in 1..n |-> f[i]]
  <2>1. Eq(r)
    <3>1. ASSUME NEW i \in 1..n
          PROVE  r[i] = IF i = 1 THEN ss[i] ELSE r[i - 1] \o ss[i]
      <4>1. CASE i = 1
        <5>0. f[i] = f[i - 1] \o ss[i]
          BY Zenon, <1>f
        <5>1. f[i - 1] = <<>>
          BY <1>f, <4>1
        <5>. QED BY <4>1, <5>0, <5>1, <1>n, <1>d
      <4>2. CASE i # 1
        <5>1. i - 1 \in 1..n
          BY <1>n, <4>2
        <5>. QED BY Zenon, <4>2, <5>1, <1>3
      <4>. QED BY <4>1, <4>2
    <3>. QED BY Zenon, <3>1
  <2>2. Eq(h)
    <3>. HIDE DEF Eq
    <3>. QED BY <2>1
  <2>3. FlattenSeq(ss) = h[n]
    BY <1>0, <1>5 DEF FlattenSeq
  <2>. HIDE DEF h, r
  <2>4. \A i \in 1..n : h[i] = IF i = 1 THEN ss[i] ELSE h[i - 1] \o ss[i]
    BY Zenon, <2>2
  <2>. DEFINE S == {i \in Nat : i + 1 \in 1..n => h[i + 1] = f[i + 1]}
  <2>5. 0 \in S
    <3>1. f[1] = f[0] \o ss[1]
      BY <1>f, <1>5, <1>n
    <3>2. f[1] = ss[1] /\ h[1] = ss[1]
      BY <1>f, <1>5, <1>n, <1>d, <2>4, <3>1
    <3>. QED BY <3>2
  <2>6. ASSUME NEW i \in S PROVE i + 1 \in S
    <3>. SUFFICES ASSUME i + 2 \in 1..n PROVE h[i + 2] = f[i + 2]
      OBVIOUS
    <3>1. h[i + 1] = f[i + 1]
      BY <1>n
    <3>n. i \in Nat /\ (i + 2) - 1 = i + 1 /\ i + 2 # 1
      OBVIOUS
    <3>2. h[i + 2] = h[i + 1] \o ss[i + 2]
      BY Zenon, <2>4, <3>n
    <3>3. f[i + 2] = f[i + 1] \o ss[i + 2]
      BY Zenon, <1>f, <3>n
    <3>. QED BY <3>1, <3>2, <3>3
  <2>7. S = Nat
    <3>1. S \in SUBSET Nat
      OBVIOUS
    <3>. HIDE DEF S
    <3>. QED BY Zenon, <2>5, <2>6, <3>1, SetInduction
  <2>8. n - 1 \in S
    <3>. HIDE DEF S
    <3>. QED BY <2>7, <1>5, <1>n
  <2>9. h[n] = f[n]
    BY <2>8, <1>5, <1>n
  <2>. QED BY Zenon, <1>0, <1>f, <2>3, <2>9 DEF D
<1>. QED BY Zenon, <1>4, <1>5

-----------------------------------------------------------------------------
(* Lists of rules *)

\* What a rule decides when it is the first that matches.
Ruling(r) ==
    Match(IF r.action = "deny" THEN Decision("FAIL", {})
          ELSE Decision(IF r.passRepl THEN "PASS_REPL" ELSE "PASS_ADD", r.set))

\* Which places of a list hold the first match.
IsFirst(rules, cmd, args, i) ==
    /\ i \in 1..Len(rules)
    /\ Matches(rules[i], cmd, args)
    /\ \A j \in 1..(i - 1) : ~Matches(rules[j], cmd, args)

\* matchCommand finds the first match.
LEMMA MatchFirst ==
    ASSUME NEW rules, Len(rules) \in Nat, NEW cmd, NEW args,
           NEW i, IsFirst(rules, cmd, args, i)
    PROVE  matchCommand(rules, cmd, args) = Ruling(rules[i])
<1>. DEFINE I == {j \in 1..Len(rules) : Matches(rules[j], cmd, args)}
<1>1. i \in I /\ \A j \in I : i <= j
  BY DEF IsFirst
<1>2. Min(I) = i
  <2>1. \A x \in I : (\A y \in I : x <= y) => x = i
    BY <1>1
  <2>. HIDE DEF I
  <2>. QED BY <1>1, <2>1 DEF Min
<1>3. First(rules, LAMBDA r : Matches(r, cmd, args)) = i /\ i # 0
  BY <1>1, <1>2 DEF First, SelectInSeq
<1>. QED BY <1>3 DEF matchCommand, Ruling

\* matchCommand finds nothing where nothing matches.
LEMMA MatchNone ==
    ASSUME NEW rules, Len(rules) \in Nat, NEW cmd, NEW args,
           \A j \in 1..Len(rules) : ~Matches(rules[j], cmd, args)
    PROVE  matchCommand(rules, cmd, args) = NoMatch
BY DEF matchCommand, First, SelectInSeq

\* A list has a first match or none.
LEMMA FirstOrNone ==
    ASSUME NEW rules, Len(rules) \in Nat, NEW cmd, NEW args
    PROVE  \/ \A j \in 1..Len(rules) : ~Matches(rules[j], cmd, args)
           \/ \E i : IsFirst(rules, cmd, args, i)
<1>. DEFINE I == {j \in 1..Len(rules) : Matches(rules[j], cmd, args)}
<1>1. SUFFICES ASSUME I # {} PROVE \E i : IsFirst(rules, cmd, args, i)
  OBVIOUS
<1>2. PICK i \in I : \A j \in I : i <= j
  <2>1. I \in SUBSET Nat
    OBVIOUS
  <2>. HIDE DEF I
  <2>. QED BY <1>1, <2>1, NatMin
<1>. QED BY <1>2 DEF IsFirst

\* In a concatenation the first list decides, if one of its rules matches.
LEMMA MatchConcat ==
    ASSUME NEW R, NEW s \in Seq(R), NEW t \in Seq(R), NEW cmd, NEW args
    PROVE  matchCommand(s \o t, cmd, args) =
             IF matchCommand(s, cmd, args).matched
             THEN matchCommand(s, cmd, args) ELSE matchCommand(t, cmd, args)
<1>. DEFINE st == s \o t
<1>1. /\ Len(s) \in Nat /\ Len(t) \in Nat /\ Len(st) = Len(s) + Len(t)
      /\ \A i \in 1..Len(s) : st[i] = s[i]
      /\ \A i \in 1..Len(t) : st[Len(s) + i] = t[i]
      /\ \A i \in 1..Len(st) : i <= Len(s) \/ i - Len(s) \in 1..Len(t)
  OBVIOUS
<1>. HIDE DEF st
<1>2. ASSUME NEW i, IsFirst(s, cmd, args, i)
      PROVE  matchCommand(st, cmd, args) = matchCommand(s, cmd, args)
               /\ matchCommand(s, cmd, args).matched
  <2>1. IsFirst(st, cmd, args, i)
    BY <1>1, <1>2 DEF IsFirst
  <2>2. st[i] = s[i]
    BY <1>1, <1>2 DEF IsFirst
  <2>3. matchCommand(s, cmd, args) = Ruling(s[i])
    BY <1>1, <1>2, MatchFirst
  <2>4. matchCommand(st, cmd, args) = Ruling(st[i])
    BY <1>1, <2>1, MatchFirst
  <2>. QED BY <2>2, <2>3, <2>4 DEF Ruling, Match
<1>3. ASSUME \A j \in 1..Len(s) : ~Matches(s[j], cmd, args)
      PROVE  /\ matchCommand(st, cmd, args) = matchCommand(t, cmd, args)
             /\ ~matchCommand(s, cmd, args).matched
  <2>1. ~matchCommand(s, cmd, args).matched
    BY <1>1, <1>3, MatchNone DEF NoMatch
  <2>2. CASE \A j \in 1..Len(t) : ~Matches(t[j], cmd, args)
    <3>1. \A j \in 1..Len(st) : ~Matches(st[j], cmd, args)
      <4>. SUFFICES ASSUME NEW j \in 1..Len(st) PROVE ~Matches(st[j], cmd, args)
        OBVIOUS
      <4>1. CASE j <= Len(s)
        BY <1>1, <1>3, <4>1
      <4>2. CASE j - Len(s) \in 1..Len(t)
        <5>1. st[j] = t[j - Len(s)]
          BY <1>1, <4>2
        <5>. QED BY <2>2, <4>2, <5>1
      <4>. QED BY <1>1, <4>1, <4>2
    <3>2. matchCommand(st, cmd, args) = NoMatch
      BY <1>1, <3>1, MatchNone
    <3>3. matchCommand(t, cmd, args) = NoMatch
      BY <1>1, <2>2, MatchNone
    <3>. QED BY <2>1, <3>2, <3>3
  <2>3. ASSUME NEW i, IsFirst(t, cmd, args, i)
        PROVE  matchCommand(st, cmd, args) = matchCommand(t, cmd, args)
    <3>. DEFINE k == Len(s) + i
    <3>1. /\ i \in 1..Len(t) /\ Matches(t[i], cmd, args)
          /\ \A j \in 1..(i - 1) : ~Matches(t[j], cmd, args)
      BY <2>3 DEF IsFirst
    <3>2. k \in 1..Len(st) /\ st[k] = t[i]
      BY <1>1, <3>1
    <3>3. ASSUME NEW j \in 1..(k - 1) PROVE ~Matches(st[j], cmd, args)
      <4>1. CASE j <= Len(s)
        BY <1>1, <1>3, <4>1
      <4>2. CASE j > Len(s)
        <5>1. j - Len(s) \in 1..(i - 1) /\ j - Len(s) \in 1..Len(t)
          BY <1>1, <3>1, <4>2
        <5>2. st[j] = t[j - Len(s)]
          BY <1>1, <5>1
        <5>. QED BY <3>1, <5>1, <5>2
      <4>. QED BY <1>1, <3>1, <4>1, <4>2
    <3>4. IsFirst(st, cmd, args, k)
      BY <3>1, <3>2, <3>3 DEF IsFirst
    <3>. HIDE DEF k
    <3>. QED BY <1>1, <2>3, <3>2, <3>4, MatchFirst
  <2>. QED BY Zenon, <1>1, <2>1, <2>2, <2>3, FirstOrNone
<1>. QED BY Zenon, <1>1, <1>2, <1>3, FirstOrNone DEF st

-----------------------------------------------------------------------------
(* The rules of a user *)

\* All rules of a configuration.
RulesOf(cfg) ==
    UNION {ToSet(x.commands) : x \in ToSet(cfg.users) \cup ToSet(cfg.groups)}

HitsAt(cfg, u, k, cmd, args) ==
    {k} \X {i \in DOMAIN Level(cfg, u, k) : Matches(Level(cfg, u, k)[i], cmd, args)}

IsBest(b, hits) == b \in hits /\ \A q \in hits \ {b} : Before(b, q)

\* A group that is referred to and listed is found.
LEMMA NamedIn ==
    ASSUME NEW entries, IsSeq(entries), NEW name \in Names(entries)
    PROVE  Named(entries, name) \in ToSet(entries)
<1>. DEFINE I == {j \in 1..Len(entries) : entries[j].name = name}
<1>1. I # {} /\ I \in SUBSET Nat /\ I \subseteq DOMAIN entries
  BY DEF Names, IsSeq
<1>2. PICK i \in I : \A j \in I : i <= j
  <2>. HIDE DEF I
  <2>. QED BY <1>1, NatMin
<1>3. Min(I) \in I
  <2>. HIDE DEF I
  <2>. QED BY <1>2 DEF Min
<1>4. First(entries, LAMBDA e : e.name = name) \in DOMAIN entries
  BY <1>1, <1>3 DEF First, SelectInSeq
<1>. QED BY Zenon, <1>4 DEF Named, ToSet

\* Each level is a list of the configuration's rules.
LEMMA LevelType ==
    ASSUME NEW cfg, IsConfig(cfg), Resolves(cfg), NEW u \in ToSet(cfg.users)
    PROVE  /\ IsSeq(u.groups) /\ Len(u.groups) \in Nat
           /\ DOMAIN u.groups = 1..Len(u.groups)
           /\ \A k \in 0..Len(u.groups) : Level(cfg, u, k) \in Seq(RulesOf(cfg))
<1>1. /\ IsSeq(cfg.groups) /\ IsSeq(u.commands) /\ IsSeq(u.groups)
      /\ \A g \in ToSet(cfg.groups) : IsSeq(g.commands)
      /\ ToSet(u.groups) \subseteq Names(cfg.groups)
  BY DEF Resolves, IsConfig
<1>2. Len(u.groups) \in Nat /\ DOMAIN u.groups = 1..Len(u.groups)
  BY <1>1 DEF IsSeq
<1>3. \A x \in ToSet(cfg.users) \cup ToSet(cfg.groups) :
        ToSet(x.commands) \subseteq RulesOf(cfg)
  BY DEF RulesOf
<1>4. ASSUME NEW k \in 0..Len(u.groups)
      PROVE  Level(cfg, u, k) \in Seq(RulesOf(cfg))
  <2>1. CASE k = 0
    BY <1>1, <1>3, <2>1, SeqMonotonic DEF Level, IsSeq
  <2>2. CASE k # 0
    <3>. DEFINE g == Named(cfg.groups, u.groups[k])
    <3>1. u.groups[k] \in Names(cfg.groups)
      BY <1>1, <1>2, <2>2 DEF ToSet
    <3>2. g \in ToSet(cfg.groups)
      BY <1>1, <3>1, NamedIn
    <3>3. g.commands \in Seq(RulesOf(cfg))
      <4>. HIDE DEF g
      <4>. QED BY <1>1, <1>3, <3>2, SeqMonotonic DEF IsSeq
    <3>. QED BY <2>2, <3>3 DEF Level
  <2>. QED BY <2>1, <2>2
<1>. QED BY <1>1, <1>2, <1>4

\* The rules of a user, level by level.
LEMMA ResolvedRules ==
    ASSUME NEW cfg, IsConfig(cfg), Resolves(cfg), NEW u \in ToSet(cfg.users)
    PROVE  \E f \in [0..Len(u.groups) -> Seq(RulesOf(cfg))] :
             /\ f[0] = Level(cfg, u, 0)
             /\ \A k \in 1..Len(u.groups) : f[k] = f[k - 1] \o Level(cfg, u, k)
             /\ f[Len(u.groups)] = resolveUser(cfg, u).commands
<1>. DEFINE D == Seq(RulesOf(cfg))
            ls == [k \in 1..Len(u.groups) |-> Level(cfg, u, k)]
<1>0. PICK n : n = Len(u.groups)
  BY Zenon
<1>1. /\ n \in Nat /\ DOMAIN u.groups = 1..n
      /\ \A k \in 0..n : Level(cfg, u, k) \in D
  BY <1>0, LevelType
<1>2. ls \in Seq(D) /\ Len(ls) = n
  BY <1>0, <1>1
<1>3. PICK g \in [0..n -> D] :
        /\ g[0] = <<>>
        /\ \A i \in 1..n : g[i] = g[i - 1] \o ls[i]
        /\ FlattenSeq(ls) = g[n]
  <2>. HIDE DEF ls
  <2>. QED BY Zenon, <1>2, Flatten
<1>4. resolveUser(cfg, u).commands = u.commands \o FlattenSeq(ls)
  <2>. DEFINE gs == [k \in DOMAIN u.groups |-> Named(cfg.groups, u.groups[k])]
              cs == [k \in DOMAIN gs |-> gs[k].commands]
  <2>1. cs = ls
    BY <1>0, <1>1 DEF Level
  <2>2. resolveUser(cfg, u).commands = u.commands \o FlattenSeq(cs)
    BY Zenon DEF resolveUser
  <2>. QED BY Zenon, <2>1, <2>2
<1>5. u.commands = Level(cfg, u, 0) /\ u.commands \in D
  BY <1>1 DEF Level
<1>. DEFINE f == [k \in 0..n |-> u.commands \o g[k]]
<1>6. f \in [0..n -> D]
  BY <1>3, <1>5
<1>7. f[0] = Level(cfg, u, 0)
  BY <1>1, <1>3, <1>5
<1>8. ASSUME NEW k \in 1..n PROVE f[k] = f[k - 1] \o Level(cfg, u, k)
  <2>1. k - 1 \in 0..n /\ k \in 0..n
    BY <1>1
  <2>2. g[k] = g[k - 1] \o Level(cfg, u, k)
    BY Zenon, <1>0, <1>3
  <2>3. g[k - 1] \in D /\ Level(cfg, u, k) \in D
    BY Zenon, <1>1, <1>3, <2>1
  <2>4. u.commands \o (g[k - 1] \o Level(cfg, u, k)) =
          (u.commands \o g[k - 1]) \o Level(cfg, u, k)
    <3>. DEFINE a == u.commands
                b == g[k - 1]
                c == Level(cfg, u, k)
    <3>1. a \in D /\ b \in D /\ c \in D
      BY <1>5, <2>3
    <3>. HIDE DEF a, b, c
    <3>2. a \o (b \o c) = (a \o b) \o c
      BY <3>1, ConcatAssociative
    <3>. QED BY Zenon, <3>2 DEF a, b, c
  <2>. QED BY Zenon, <2>1, <2>2, <2>4
<1>9. f[n] = resolveUser(cfg, u).commands
  <2>1. f[n] = u.commands \o g[n]
    BY <1>1
  <2>. QED BY Zenon, <1>3, <1>4, <2>1
<1>. HIDE DEF f, ls
<1>. QED BY Zenon, <1>0, <1>6, <1>7, <1>8, <1>9

\* The best of the hits decides.
Decides(hits, cfg, u, rules, cmd, args) ==
    \/ hits = {} /\ matchCommand(rules, cmd, args) = NoMatch
    \/ \E b : /\ IsBest(b, hits)
              /\ matchCommand(rules, cmd, args) = Ruling(Level(cfg, u, b[1])[b[2]])

\* The first match of one level is the best of the level's hits.
LEMMA LevelMatch ==
    ASSUME NEW cfg, NEW u, NEW k, NEW cmd, NEW args, NEW R,
           Level(cfg, u, k) \in Seq(R)
    PROVE  Decides(HitsAt(cfg, u, k, cmd, args), cfg, u, Level(cfg, u, k), cmd, args)
<1>0. PICK rules \in Seq(R) : rules = Level(cfg, u, k)
  OBVIOUS
<1>. DEFINE H == HitsAt(cfg, u, k, cmd, args)
<1>1. Len(rules) \in Nat /\ DOMAIN rules = 1..Len(rules)
  OBVIOUS
<1>h. H = {k} \X {i \in 1..Len(rules) : Matches(rules[i], cmd, args)}
  BY <1>0, <1>1 DEF HitsAt
<1>. HIDE DEF H
<1>2. CASE \A j \in 1..Len(rules) : ~Matches(rules[j], cmd, args)
  <2>1. H = {}
    BY <1>2, <1>h
  <2>2. matchCommand(rules, cmd, args) = NoMatch
    BY <1>1, <1>2, MatchNone
  <2>. QED BY <1>0, <2>1, <2>2 DEF H, Decides
<1>3. ASSUME NEW i, IsFirst(rules, cmd, args, i)
      PROVE  /\ IsBest(<<k, i>>, H)
             /\ matchCommand(rules, cmd, args) = Ruling(rules[i])
  <2>1. <<k, i>> \in H
    BY <1>3, <1>h DEF IsFirst
  <2>2. ASSUME NEW q \in H \ {<<k, i>>} PROVE Before(<<k, i>>, q)
    <3>1. PICK j \in 1..Len(rules) : q = <<k, j>> /\ Matches(rules[j], cmd, args)
      BY <1>h
    <3>2. i < j
      BY <1>1, <1>3, <3>1 DEF IsFirst
    <3>. QED BY <3>1, <3>2 DEF Before
  <2>3. matchCommand(rules, cmd, args) = Ruling(rules[i])
    BY <1>1, <1>3, MatchFirst
  <2>. QED BY <2>1, <2>2, <2>3 DEF IsBest
<1>4. CASE \E i : IsFirst(rules, cmd, args, i)
  <2>1. PICK i : IsFirst(rules, cmd, args, i)
    BY <1>4
  <2>2. PICK b : b = <<k, i>>
    BY Zenon
  <2>3. IsBest(b, H) /\ matchCommand(rules, cmd, args) = Ruling(rules[i])
    BY <1>3, <2>1, <2>2
  <2>4. b[1] = k /\ b[2] = i
    BY <2>2
  <2>. QED BY Zenon, <1>0, <2>3, <2>4 DEF H, Decides
<1>. QED BY Zenon, <1>1, <1>2, <1>4, FirstOrNone

\* The hits of one more level.
LEMMA HitsByLevel ==
    ASSUME NEW cfg, NEW u, NEW cmd, NEW args, NEW n \in Nat
    PROVE  /\ Hits(cfg, u, 0, cmd, args) = HitsAt(cfg, u, 0, cmd, args)
           /\ Hits(cfg, u, n + 1, cmd, args) =
                Hits(cfg, u, n, cmd, args) \cup HitsAt(cfg, u, n + 1, cmd, args)
           /\ \A r \in Hits(cfg, u, n, cmd, args) : r[1] \in 0..n
           /\ \A r \in HitsAt(cfg, u, n + 1, cmd, args) : r[1] = n + 1
<1>1. \A m \in Nat : \A r : r \in Hits(cfg, u, m, cmd, args) <=>
        \E k \in 0..m : r \in HitsAt(cfg, u, k, cmd, args)
  BY DEF Hits, HitsAt
<1>2. \A k, r : r \in HitsAt(cfg, u, k, cmd, args) => r[1] = k
  BY DEF HitsAt
<1>3. Hits(cfg, u, 0, cmd, args) = HitsAt(cfg, u, 0, cmd, args)
  BY <1>1
<1>4. Hits(cfg, u, n + 1, cmd, args) =
                Hits(cfg, u, n, cmd, args) \cup HitsAt(cfg, u, n + 1, cmd, args)
  BY <1>1
<1>5. \A r \in Hits(cfg, u, n, cmd, args) : r[1] \in 0..n
  BY <1>1, <1>2
<1>. QED BY <1>2, <1>3, <1>4, <1>5

\* The rules of a user decide as the best hit does.
LEMMA ResolvedRanked ==
    ASSUME NEW cfg, IsConfig(cfg), Resolves(cfg), NEW u \in ToSet(cfg.users),
           NEW cmd, NEW args
    PROVE  Decides(Hits(cfg, u, Len(u.groups), cmd, args), cfg, u,
                   resolveUser(cfg, u).commands, cmd, args)
<1>. DEFINE D == Seq(RulesOf(cfg))
<1>0. PICK n : n = Len(u.groups)
  OBVIOUS
<1>1. n \in Nat /\ \A k \in 0..n : Level(cfg, u, k) \in D
  BY <1>0, LevelType
<1>2. PICK f \in [0..n -> D] :
        /\ f[0] = Level(cfg, u, 0)
        /\ \A k \in 1..n : f[k] = f[k - 1] \o Level(cfg, u, k)
        /\ f[n] = resolveUser(cfg, u).commands
  BY Zenon, <1>0, ResolvedRules
<1>. DEFINE Ranked(k) == Decides(Hits(cfg, u, k, cmd, args), cfg, u, f[k], cmd, args)
            Holds(k) == k \in 0..n => Ranked(k)
            S == {k \in Nat : Holds(k)}
<1>3. Holds(0)
  <2>1. Level(cfg, u, 0) \in D
    BY <1>1
  <2>2. Decides(HitsAt(cfg, u, 0, cmd, args), cfg, u, Level(cfg, u, 0), cmd, args)
    BY <2>1, LevelMatch
  <2>3. Hits(cfg, u, 0, cmd, args) = HitsAt(cfg, u, 0, cmd, args)
    BY HitsByLevel
  <2>. QED BY Zenon, <1>2, <2>2, <2>3
<1>4. ASSUME NEW k \in Nat, Holds(k) PROVE Holds(k + 1)
  <2>. SUFFICES ASSUME k + 1 \in 0..n
                PROVE  Ranked(k + 1)
    OBVIOUS
  <2>. DEFINE L == Level(cfg, u, k + 1)
              H == Hits(cfg, u, k, cmd, args)
              HL == HitsAt(cfg, u, k + 1, cmd, args)
              HH == Hits(cfg, u, k + 1, cmd, args)
              M(rules) == matchCommand(rules, cmd, args)
  <2>1. k \in 0..n /\ Ranked(k)
    BY <1>1, <1>4
  <2>2. f[k + 1] = f[k] \o L /\ f[k] \in D /\ L \in D
    BY <1>1, <1>2, <2>1
  <2>3. M(f[k + 1]) = IF M(f[k]).matched THEN M(f[k]) ELSE M(L)
    BY <2>2, MatchConcat
  <2>4. /\ HH = H \cup HL
        /\ \A r \in H : r[1] \in 0..k
        /\ \A r \in HL : r[1] = k + 1
    BY HitsByLevel
  <2>5. Decides(HL, cfg, u, L, cmd, args)
    BY <2>2, LevelMatch
  <2>6. CASE H = {} /\ M(f[k]) = NoMatch
    <3>1. HH = HL /\ M(f[k + 1]) = M(L)
      BY <2>3, <2>4, <2>6 DEF NoMatch
    <3>. QED BY Zenon, <2>5, <3>1 DEF Decides
  <2>7. ASSUME NEW b, IsBest(b, H), M(f[k]) = Ruling(Level(cfg, u, b[1])[b[2]])
        PROVE  Ranked(k + 1)
    <3>1. M(f[k + 1]) = M(f[k])
      BY <2>3, <2>7 DEF Ruling, Match
    <3>2. \A q \in HL : Before(b, q)
      BY <2>4, <2>7 DEF IsBest, Before
    <3>3. IsBest(b, HH)
      BY <2>4, <2>7, <3>2 DEF IsBest
    <3>. QED BY <2>7, <3>1, <3>3 DEF Decides
  <2>. QED BY <2>1, <2>6, <2>7 DEF Decides
<1>5. S = Nat
  <2>. HIDE DEF Holds
  <2>1. S \in SUBSET Nat /\ 0 \in S /\ \A k \in S : k + 1 \in S
    BY <1>3, <1>4
  <2>. HIDE DEF S
  <2>. QED BY <2>1, SetInduction
<1>6. Holds(n)
  <2>. HIDE DEF Holds
  <2>. QED BY Zenon, <1>1, <1>5
<1>. QED BY <1>0, <1>1, <1>2, <1>6

\* ConfigAuthorize's view of a command, once the user is known.
Judged(cfg, u, cmd, args) ==
    LET m == matchCommand(resolveUser(cfg, u).commands, cmd, args)
    IN IF m.matched THEN m.dec
       ELSE Decision(IF Allows(cfg.policy, cmd) THEN "PASS_ADD" ELSE "FAIL", {})

\* One hit comes before all others.
LEMMA BestUnique ==
    ASSUME NEW H, H \subseteq Nat \X Nat, NEW b, IsBest(b, H)
    PROVE  (CHOOSE r \in H : \A q \in H \ {r} : Before(r, q)) = b
<1>1. ASSUME NEW r \in H, \A q \in H \ {r} : Before(r, q) PROVE r = b
  <2>. SUFFICES ASSUME r # b PROVE FALSE
    OBVIOUS
  <2>1. Before(r, b) /\ Before(b, r)
    BY <1>1 DEF IsBest
  <2>2. r \in Nat \X Nat /\ b \in Nat \X Nat
    BY <1>1 DEF IsBest
  <2>. QED BY <2>1, <2>2 DEF Before
<1>. QED BY <1>1 DEF IsBest

\* Hits are pairs of a level and a place in it.
LEMMA HitsType ==
    ASSUME NEW cfg, IsConfig(cfg), Resolves(cfg), NEW u \in ToSet(cfg.users),
           NEW cmd, NEW args
    PROVE  Hits(cfg, u, Len(u.groups), cmd, args) \subseteq Nat \X Nat
<1>1. Len(u.groups) \in Nat /\
      \A k \in 0..Len(u.groups) : Level(cfg, u, k) \in Seq(RulesOf(cfg))
  BY LevelType
<1>2. \A k \in 0..Len(u.groups) : k \in Nat /\ DOMAIN Level(cfg, u, k) \subseteq Nat
  BY <1>1
<1>. QED BY <1>2 DEF Hits

\* The resolved rules and the flat policy say what Expected says.
LEMMA ExpectedJudged ==
    ASSUME NEW cfg, IsConfig(cfg), Resolves(cfg), NEW u \in ToSet(cfg.users),
           NEW cmd, NEW args
    PROVE  Expected(cfg, u, cmd, args) = Judged(cfg, u, cmd, args).status
<1>. DEFINE H == Hits(cfg, u, Len(u.groups), cmd, args)
            m == matchCommand(resolveUser(cfg, u).commands, cmd, args)
            best == CHOOSE r \in H : \A q \in H \ {r} : Before(r, q)
<1>1. Decides(H, cfg, u, resolveUser(cfg, u).commands, cmd, args)
  BY ResolvedRanked
<1>2. H \subseteq Nat \X Nat
  BY HitsType
<1>3. ASSUME NEW b, IsBest(b, H), m = Ruling(Level(cfg, u, b[1])[b[2]])
      PROVE  Expected(cfg, u, cmd, args) = Judged(cfg, u, cmd, args).status
  <2>1. best = b
    <3>. HIDE DEF H
    <3>. QED BY <1>2, <1>3, BestUnique
  <2>2. H # {}
    BY <1>3 DEF IsBest
  <2>3. PICK rule : rule = Level(cfg, u, b[1])[b[2]]
    OBVIOUS
  <2>4. Expected(cfg, u, cmd, args) =
          IF rule.action = "deny" THEN "FAIL"
          ELSE IF rule.passRepl THEN "PASS_REPL" ELSE "PASS_ADD"
    BY Zenon, <2>1, <2>2, <2>3 DEF Expected
  <2>5. m = Ruling(rule)
    BY <1>3, <2>3
  <2>6. Judged(cfg, u, cmd, args) = m.dec
    BY <2>5 DEF Judged, Ruling, Match
  <2>. QED BY <2>4, <2>5, <2>6 DEF Ruling, Match, Decision
<1>4. CASE H = {} /\ m = NoMatch
  <2>1. Judged(cfg, u, cmd, args) =
          Decision(IF Allows(cfg.policy, cmd) THEN "PASS_ADD" ELSE "FAIL", {})
    BY <1>4 DEF Judged, NoMatch
  <2>2. Expected(cfg, u, cmd, args) =
          IF Allows(cfg.policy, cmd) THEN "PASS_ADD" ELSE "FAIL"
    BY <1>4 DEF Expected, Allows, ToSet
  <2>. QED BY <2>1, <2>2 DEF Decision
<1>. HIDE DEF H, m
<1>. QED BY <1>1, <1>3, <1>4 DEF Decides, m

\* A set of numbers up to n has a largest one.
LEMMA NatMax ==
    ASSUME NEW n \in Nat, NEW T \in SUBSET (1..n), T # {}
    PROVE  Max(T) \in T /\ \A x \in T : x <= Max(T)
<1>. DEFINE U == {i \in Nat : \E x \in T : i = n - x}
<1>1. U # {} /\ U \in SUBSET Nat
  <2>1. PICK x \in T : TRUE
    BY Zenon
  <2>2. n - x \in Nat
    OBVIOUS
  <2>3. n - x \in U
    BY <2>2
  <2>. QED BY Zenon, <2>3
<1>2. PICK i \in U : \A j \in U : i <= j
  <2>. HIDE DEF U
  <2>. QED BY <1>1, NatMin
<1>3. n - i \in T /\ \A x \in T : n - i >= x
  BY <1>2
<1>4. Max(T) \in T /\ \A x \in T : Max(T) >= x
  BY Zenon, <1>3 DEF Max
<1>. QED BY <1>4

\* The entry that a user's name stands for.
LEMMA LookupLast ==
    ASSUME NEW cfg, IsSeq(cfg.users), NEW user \in Names(cfg.users)
    PROVE  LET m == Max({i \in DOMAIN cfg.users : cfg.users[i].name = user})
           IN /\ m \in DOMAIN cfg.users
              /\ cfg.users[m].name = user
              /\ Lookup(cfg, user) = {m}
<1>. DEFINE T == {i \in DOMAIN cfg.users : cfg.users[i].name = user}
<1>1. Len(cfg.users) \in Nat /\ T \in SUBSET (1..Len(cfg.users)) /\ T # {}
  BY DEF IsSeq, Names
<1>2. Max(T) \in T /\ \A x \in T : x <= Max(T)
  <2>. HIDE DEF T
  <2>. QED BY Zenon, <1>1, NatMax
<1>3. PICK m \in T : m = Max(T) /\ \A x \in T : x <= m
  BY Zenon, <1>2
<1>4. m \in Nat /\ DOMAIN cfg.users \subseteq Nat
  BY <1>1, <1>3 DEF IsSeq
<1>5. Lookup(cfg, user) = {m}
  <2>1. m \in Lookup(cfg, user)
    BY <1>3 DEF Lookup
  <2>2. ASSUME NEW i \in Lookup(cfg, user) PROVE i = m
    <3>1. i \in T /\ m <= i
      BY Zenon, <1>3 DEF Lookup
    <3>2. i <= m /\ i \in Nat
      BY <1>3, <1>4, <3>1
    <3>. QED BY <1>4, <3>1, <3>2
  <2>. QED BY <2>1, <2>2
<1>. QED BY <1>3, <1>5

\* ConfigHandler refuses whom it does not know.
LEMMA UnknownRefused ==
    ASSUME NEW cfg, NEW user, NEW args, user \notin Names(cfg.users)
    PROVE  ConfigAuthorize(cfg, user, args).status = "FAIL"
<1>1. Lookup(cfg, user) = {}
  BY DEF Lookup, Names
<1>. QED BY <1>1 DEF ConfigAuthorize, Decision

\* ConfigHandler judges a command by the last entry of the user's name.
LEMMA ConfigJudges ==
    ASSUME NEW cfg, IsSeq(cfg.users), NEW user \in Names(cfg.users), NEW args,
           extractCmd(args) # <<>>,
           NEW m, m = Max({i \in DOMAIN cfg.users : cfg.users[i].name = user})
    PROVE  ConfigAuthorize(cfg, user, args) =
             Judged(cfg, cfg.users[m], extractCmd(args), args)
<1>1. Lookup(cfg, user) = {m}
  BY Zenon, LookupLast
<1>2. Lookup(cfg, user) # {} /\ (CHOOSE i \in Lookup(cfg, user) : TRUE) = m
  BY <1>1
<1>. DEFINE u == cfg.users[m]
            rule == matchCommand(resolveUser(cfg, u).commands, extractCmd(args), args)
<1>3. CASE rule.matched
  BY Zenon, <1>2, <1>3 DEF ConfigAuthorize, Judged
<1>4. CASE ~rule.matched
  BY Zenon, <1>2, <1>4 DEF ConfigAuthorize, Judged
<1>. QED BY <1>3, <1>4

-----------------------------------------------------------------------------
(* The list of the server command *)

\* Concatenation in D, a set of sequences.
Concatenates(D) ==
    /\ <<>> \in D
    /\ \A x, y \in D : x \o y \in D
    /\ \A x \in D : x \o <<>> = x /\ <<>> \o x = x
    /\ \A x, y, z \in D : (x \o y) \o z = x \o (y \o z)

\* Sequences are concatenated.
LEMMA SeqConcatenates == ASSUME NEW X PROVE Concatenates(Seq(X))
<1>1. \A x, y, z \in Seq(X) : (x \o y) \o z = x \o (y \o z)
  BY ConcatAssociative
<1>2. /\ <<>> \in Seq(X)
      /\ \A x, y \in Seq(X) : x \o y \in Seq(X)
      /\ \A x \in Seq(X) : x \o <<>> = x /\ <<>> \o x = x
  BY ConcatEmptySeq
<1>. QED BY <1>1, <1>2 DEF Concatenates

\* What is flattened starts with its first sequence, and is that if it is alone.
LEMMA FlattenFirst ==
    ASSUME NEW X, NEW ss \in Seq(Seq(X)), Len(ss) >= 1
    PROVE  /\ \E t \in Seq(X) : FlattenSeq(ss) = ss[1] \o t
           /\ Len(ss) = 1 => FlattenSeq(ss) = ss[1]
<1>. DEFINE D == Seq(X)
<1>d. Concatenates(D)
  BY SeqConcatenates
<1>0. PICK n : n = Len(ss)
  OBVIOUS
<1>1. PICK f \in [0..n -> D] :
        /\ f[0] = <<>>
        /\ \A i \in 1..n : f[i] = f[i - 1] \o ss[i]
        /\ FlattenSeq(ss) = f[n]
  BY Zenon, <1>0, Flatten
<1>2. n \in Nat /\ n >= 1 /\ \A i \in 1..n : ss[i] \in D
  BY <1>0
<1>. HIDE DEF D
<1>3. f[1] = ss[1]
  <2>1. 1 \in 1..n /\ 1 - 1 = 0
    BY <1>2
  <2>2. f[1] = f[0] \o ss[1]
    BY Zenon, <1>1, <2>1
  <2>. QED BY <1>1, <1>2, <1>d, <2>1, <2>2 DEF Concatenates
<1>. DEFINE Starts(i) == i + 1 <= n => \E t \in D : f[i + 1] = ss[1] \o t
            S == {i \in Nat : Starts(i)}
<1>4. Starts(0)
  <2>1. ss[1] = ss[1] \o <<>>
    BY <1>2, <1>d DEF Concatenates
  <2>2. f[0 + 1] = ss[1] \o <<>>
    BY <1>3, <2>1
  <2>. QED BY Zenon, <1>d, <2>2 DEF Concatenates
<1>5. ASSUME NEW i \in Nat, Starts(i) PROVE Starts(i + 1)
  <2>. SUFFICES ASSUME (i + 1) + 1 <= n
                PROVE  \E t \in D : f[(i + 1) + 1] = ss[1] \o t
    OBVIOUS
  <2>0. i + 1 <= n /\ (i + 1) + 1 = i + 2
    BY <1>2
  <2>1. PICK t \in D : f[i + 1] = ss[1] \o t
    BY Zenon, <1>5, <2>0
  <2>2. f[i + 2] = f[i + 1] \o ss[i + 2]
    <3>1. i + 2 \in 1..n /\ (i + 2) - 1 = i + 1
      BY <1>2
    <3>. QED BY Zenon, <1>1, <3>1
  <2>3. 1 \in 1..n /\ i + 2 \in 1..n
    BY <1>2
  <2>4. f[i + 2] = ss[1] \o (t \o ss[i + 2]) /\ t \o ss[i + 2] \in D
    <3>1. ss[1] \in D /\ ss[i + 2] \in D
      BY <1>2, <2>3
    <3>2. (ss[1] \o t) \o ss[i + 2] = ss[1] \o (t \o ss[i + 2])
      <4>1. PICK a \in D : a = ss[1]
        BY <3>1
      <4>2. PICK c \in D : c = ss[i + 2]
        BY <3>1
      <4>3. (a \o t) \o c = a \o (t \o c)
        BY Zenon, <1>d, <4>1, <4>2, <2>1 DEF Concatenates
      <4>. QED BY Zenon, <4>1, <4>2, <4>3
    <3>3. t \o ss[i + 2] \in D
      BY <1>d, <3>1 DEF Concatenates
    <3>. QED BY Zenon, <2>1, <2>2, <3>2, <3>3
  <2>. QED BY Zenon, <2>0, <2>4
<1>6. S = Nat
  <2>. HIDE DEF Starts
  <2>1. S \in SUBSET Nat /\ 0 \in S /\ \A i \in S : i + 1 \in S
    BY <1>4, <1>5
  <2>. HIDE DEF S
  <2>. QED BY Zenon, <2>1, SetInduction
<1>7. Starts(n - 1)
  <2>1. n - 1 \in Nat
    BY <1>2
  <2>. HIDE DEF Starts
  <2>. QED BY <1>6, <2>1
<1>8. \E t \in D : f[n] = ss[1] \o t
  <2>1. (n - 1) + 1 = n
    BY <1>2
  <2>. QED BY <1>2, <1>7, <2>1
<1>. QED BY Zenon, <1>0, <1>1, <1>3, <1>8 DEF D

\* A pattern of the flat policy and its translation match the same commands.
LEMMA GlobMatches ==
    ASSUME NEW glob \in Seq(STRING), NEW cmd \in Commands,
           NEWLINE \notin ToSet(cmd), NEW action, NEW args
    PROVE  Matches(PolicyRule(action, glob), cmd, args) <=> matchCmd(glob, cmd)
<1>1. Matches(PolicyRule(action, glob), cmd, args) <=> cmd \in globToRegex(glob).of
  BY DEF Matches, PolicyRule, globToRegex, Regex
<1>2. CASE ~IsGlob(glob)
  BY <1>1, <1>2 DEF globToRegex, Regex, matchCmd
<1>3. CASE IsGlob(glob)
  <2>1. cmd \in Seq(STRING) /\ DOMAIN cmd = 1..Len(cmd)
    BY PolicyAssumption
  <2>2. Len(glob) \in Nat /\ Len(glob) >= 2
    BY <1>3 DEF IsGlob
  <2>3. \A i \in Len(glob)..Len(cmd) : cmd[i] # NEWLINE
    BY <2>1, <2>2 DEF ToSet
  <2>4. cmd \in globToRegex(glob).of <=> IsPrefix(Front(glob), cmd)
    BY <1>3, <2>3 DEF globToRegex, Regex
  <2>5. IsPrefix(Front(glob), glob)
    BY <2>2, SubSeqProperties DEF IsPrefix, Front
  <2>. QED BY <1>1, <1>3, <2>4, <2>5 DEF matchCmd
<1>. QED BY <1>2, <1>3

FlatRules(action, pats) == [i \in DOMAIN pats |-> PolicyRule(action, pats[i])]

\* A translated list decides with its action, if one of its patterns matches.
LEMMA FlatDecides ==
    ASSUME NEW pats \in Seq(Seq(STRING)), NEW cmd \in Commands,
           NEWLINE \notin ToSet(cmd), NEW action, NEW args
    PROVE  matchCommand(FlatRules(action, pats), cmd, args) =
             IF \E i \in DOMAIN pats : matchCmd(pats[i], cmd)
             THEN Match(Decision(IF action = "deny" THEN "FAIL" ELSE "PASS_ADD", {}))
             ELSE NoMatch
<1>. DEFINE rules == FlatRules(action, pats)
<1>1. /\ Len(rules) = Len(pats) /\ Len(rules) \in Nat
      /\ DOMAIN pats = 1..Len(rules)
      /\ \A i \in 1..Len(rules) : rules[i] = PolicyRule(action, pats[i])
  BY DEF FlatRules
<1>. HIDE DEF rules
<1>2. \A i \in 1..Len(rules) :
        Matches(rules[i], cmd, args) <=> matchCmd(pats[i], cmd)
  <2>. SUFFICES ASSUME NEW i \in 1..Len(rules)
                PROVE  Matches(rules[i], cmd, args) <=> matchCmd(pats[i], cmd)
    OBVIOUS
  <2>1. pats[i] \in Seq(STRING)
    BY <1>1
  <2>. QED BY <1>1, <2>1, GlobMatches
<1>3. CASE \A i \in 1..Len(rules) : ~Matches(rules[i], cmd, args)
  <2>1. matchCommand(rules, cmd, args) = NoMatch
    BY <1>1, <1>3, MatchNone
  <2>. QED BY <1>1, <1>2, <1>3, <2>1 DEF rules
<1>4. ASSUME NEW i, IsFirst(rules, cmd, args, i)
      PROVE  /\ \E j \in DOMAIN pats : matchCmd(pats[j], cmd)
             /\ matchCommand(rules, cmd, args) =
                  Match(Decision(IF action = "deny" THEN "FAIL" ELSE "PASS_ADD", {}))
  <2>1. matchCommand(rules, cmd, args) = Ruling(rules[i])
    BY <1>1, <1>4, MatchFirst
  <2>2. i \in 1..Len(rules) /\ Matches(rules[i], cmd, args)
    BY <1>4 DEF IsFirst
  <2>3. rules[i] = PolicyRule(action, pats[i])
    BY <1>1, <2>2
  <2>4. Ruling(rules[i]) =
          Match(Decision(IF action = "deny" THEN "FAIL" ELSE "PASS_ADD", {}))
    BY <2>3 DEF Ruling, PolicyRule
  <2>5. i \in DOMAIN pats /\ matchCmd(pats[i], cmd)
    BY <1>1, <1>2, <2>2
  <2>. QED BY <2>1, <2>4, <2>5
<1>. QED BY Zenon, <1>1, <1>3, <1>4, FirstOrNone DEF rules

\* The rules of a configuration and the translations of its flat policy.
ServerRules(cfg) ==
    RulesOf(cfg) \cup {PolicyRule(action, pat) : action \in {"deny", "permit"},
                                                 pat \in Seq(STRING)}

\* The lists that userConfigToRules puts one after the other.
UserLists(cfg) ==
    [i \in DOMAIN cfg.users |->
        resolveUser(cfg, cfg.users[CHOOSE k \in Lookup(cfg, cfg.users[i].name) :
                                     TRUE]).commands]

\* The rules of a user are rules of the server command's list.
LEMMA ResolvedType ==
    ASSUME NEW cfg, IsConfig(cfg), Resolves(cfg), NEW u \in ToSet(cfg.users)
    PROVE  resolveUser(cfg, u).commands \in Seq(ServerRules(cfg))
<1>0. PICK n : n = Len(u.groups)
  OBVIOUS
<1>1. n \in Nat
  BY <1>0, LevelType
<1>2. PICK f \in [0..n -> Seq(RulesOf(cfg))] : f[n] = resolveUser(cfg, u).commands
  BY <1>0, ResolvedRules
<1>3. resolveUser(cfg, u).commands \in Seq(RulesOf(cfg))
  BY <1>1, <1>2
<1>4. RulesOf(cfg) \subseteq ServerRules(cfg)
  BY DEF ServerRules
<1>. QED BY <1>3, <1>4, SeqMonotonic

\* The users of a configuration are listed.
LEMMA UsersType ==
    ASSUME NEW cfg, IsConfig(cfg)
    PROVE  /\ IsSeq(cfg.users) /\ Len(cfg.users) \in Nat
           /\ DOMAIN cfg.users = 1..Len(cfg.users)
BY DEF IsConfig, IsSeq

\* Each user's list is that of the last entry with the user's name.
LEMMA UserListsType ==
    ASSUME NEW cfg, IsConfig(cfg), Resolves(cfg)
    PROVE  /\ UserLists(cfg) \in Seq(Seq(ServerRules(cfg)))
           /\ Len(UserLists(cfg)) = Len(cfg.users)
           /\ 1 \in DOMAIN cfg.users => Len(UserLists(cfg)) >= 1
           /\ \A i \in DOMAIN cfg.users :
                UserLists(cfg)[i] \in Seq(ServerRules(cfg))
           /\ \A i \in DOMAIN cfg.users :
                LET m == Max({k \in DOMAIN cfg.users :
                                cfg.users[k].name = cfg.users[i].name})
                IN UserLists(cfg)[i] = resolveUser(cfg, cfg.users[m]).commands
<1>. DEFINE m(i) == Max({k \in DOMAIN cfg.users :
                            cfg.users[k].name = cfg.users[i].name})
            D == Seq(ServerRules(cfg))
<1>1. /\ IsSeq(cfg.users) /\ Len(cfg.users) \in Nat
      /\ DOMAIN cfg.users = 1..Len(cfg.users)
  BY UsersType
<1>2. ASSUME NEW i \in DOMAIN cfg.users
      PROVE  /\ UserLists(cfg)[i] = resolveUser(cfg, cfg.users[m(i)]).commands
             /\ UserLists(cfg)[i] \in D
  <2>1. cfg.users[i].name \in Names(cfg.users)
    BY DEF Names
  <2>2. m(i) \in DOMAIN cfg.users /\ Lookup(cfg, cfg.users[i].name) = {m(i)}
    BY Zenon, <1>1, <2>1, LookupLast
  <2>. HIDE DEF m
  <2>3. (CHOOSE k \in Lookup(cfg, cfg.users[i].name) : TRUE) = m(i)
    BY <2>2
  <2>4. UserLists(cfg)[i] = resolveUser(cfg, cfg.users[m(i)]).commands
    BY Zenon, <2>3 DEF UserLists
  <2>5. cfg.users[m(i)] \in ToSet(cfg.users)
    BY <2>2 DEF ToSet
  <2>6. resolveUser(cfg, cfg.users[m(i)]).commands \in D
    BY <2>5, ResolvedType
  <2>. QED BY <2>4, <2>6
<1>3. UserLists(cfg) \in Seq(D) /\ Len(UserLists(cfg)) = Len(cfg.users)
  <2>. HIDE DEF D
  <2>1. DOMAIN UserLists(cfg) = DOMAIN cfg.users
    BY DEF UserLists
  <2>2. UserLists(cfg) = [i \in DOMAIN cfg.users |-> UserLists(cfg)[i]]
    BY DEF UserLists
  <2>3. UserLists(cfg) \in [1..Len(cfg.users) -> D]
    BY Zenon, <1>1, <1>2, <2>1, <2>2
  <2>. QED BY <1>1, <2>3
<1>4. 1 \in DOMAIN cfg.users => Len(UserLists(cfg)) >= 1
  BY <1>1, <1>3
<1>. QED BY Zenon, <1>2, <1>3, <1>4

\* So are the translations of the flat policy.
LEMMA FlatRulesType ==
    ASSUME NEW cfg, NEW pats \in Seq(Seq(STRING)), NEW action \in {"deny", "permit"}
    PROVE  FlatRules(action, pats) \in Seq(ServerRules(cfg))
<1>1. \A i \in 1..Len(pats) : PolicyRule(action, pats[i]) \in ServerRules(cfg)
  <2>. SUFFICES ASSUME NEW i \in 1..Len(pats)
                PROVE  PolicyRule(action, pats[i]) \in ServerRules(cfg)
    OBVIOUS
  <2>1. pats[i] \in Seq(STRING)
    OBVIOUS
  <2>. QED BY <2>1 DEF ServerRules
<1>2. FlatRules(action, pats) \in [1..Len(pats) -> ServerRules(cfg)]
  BY <1>1 DEF FlatRules
<1>3. PICK n \in Nat : n = Len(pats)
  OBVIOUS
<1>4. PICK T : T = ServerRules(cfg)
  OBVIOUS
<1>5. FlatRules(action, pats) \in [1..n -> T]
  BY Zenon, <1>2, <1>3, <1>4
<1>. HIDE DEF FlatRules
<1>6. FlatRules(action, pats) \in Seq(T)
  BY <1>5
<1>. QED BY Zenon, <1>4, <1>6

\* The rules of a longer list decide as those of x do, or as those of y and then
\* of z do if none of x does.
FirstDecides(x, all, cmd, args) ==
    matchCommand(x, cmd, args).matched =>
        matchCommand(all, cmd, args) = matchCommand(x, cmd, args)
RestDecides(x, y, z, all, cmd, args) ==
    ~matchCommand(x, cmd, args).matched =>
        matchCommand(all, cmd, args) =
          IF matchCommand(y, cmd, args).matched
          THEN matchCommand(y, cmd, args) ELSE matchCommand(z, cmd, args)

\* The first of several lists decides, if one of its rules matches.
LEMMA FirstList ==
    ASSUME NEW R, NEW x \in Seq(R), NEW t \in Seq(R), NEW y \in Seq(R),
           NEW z \in Seq(R), NEW cmd, NEW args
    PROVE  FirstDecides(x, ((x \o t) \o y) \o z, cmd, args)
<1>. DEFINE M(rules) == matchCommand(rules, cmd, args)
<1>0. \A p, q \in Seq(R) : p \o q \in Seq(R)
  OBVIOUS
<1>1. PICK xt \in Seq(R) : xt = x \o t
  BY Zenon, <1>0
<1>2. PICK xty \in Seq(R) : xty = xt \o y
  BY Zenon, <1>0
<1>3. M(x \o t) = IF M(x).matched THEN M(x) ELSE M(t)
  BY MatchConcat
<1>4. M(xt \o y) = IF M(xt).matched THEN M(xt) ELSE M(y)
  BY MatchConcat
<1>5. M(xty \o z) = IF M(xty).matched THEN M(xty) ELSE M(z)
  BY MatchConcat
<1>. QED BY Zenon, <1>1, <1>2, <1>3, <1>4, <1>5 DEF FirstDecides

\* The lists after it decide, if none of its rules does.
LEMMA LastLists ==
    ASSUME NEW R, NEW x \in Seq(R), NEW y \in Seq(R), NEW z \in Seq(R),
           NEW cmd, NEW args
    PROVE  RestDecides(x, y, z, (x \o y) \o z, cmd, args)
<1>. DEFINE M(rules) == matchCommand(rules, cmd, args)
<1>0. \A p, q \in Seq(R) : p \o q \in Seq(R)
  OBVIOUS
<1>1. PICK xy \in Seq(R) : xy = x \o y
  BY Zenon, <1>0
<1>2. M(x \o y) = IF M(x).matched THEN M(x) ELSE M(y)
  BY MatchConcat
<1>3. M(xy \o z) = IF M(xy).matched THEN M(xy) ELSE M(z)
  BY MatchConcat
<1>. QED BY Zenon, <1>1, <1>2, <1>3 DEF RestDecides

\* The lists of the users, then two more: the first user's decides, if one of
\* its rules matches; the last two do, if it is the only one and none does.
LEMMA JoinedLists ==
    ASSUME NEW R, NEW us \in Seq(Seq(R)), Len(us) >= 1, us[1] \in Seq(R),
           NEW y \in Seq(R), NEW z \in Seq(R), NEW cmd, NEW args
    PROVE  /\ FirstDecides(us[1], (FlattenSeq(us) \o y) \o z, cmd, args)
           /\ Len(us) = 1 =>
                RestDecides(us[1], y, z, (FlattenSeq(us) \o y) \o z, cmd, args)
<1>1. /\ \E t \in Seq(R) : FlattenSeq(us) = us[1] \o t
      /\ Len(us) = 1 => FlattenSeq(us) = us[1]
  BY Zenon, FlattenFirst
<1>2. PICK x \in Seq(R) : x = us[1]
  BY Zenon
<1>3. PICK t \in Seq(R) : FlattenSeq(us) = x \o t
  BY Zenon, <1>1, <1>2
<1>4. FirstDecides(x, ((x \o t) \o y) \o z, cmd, args)
  BY Zenon, FirstList
<1>5. RestDecides(x, y, z, (x \o y) \o z, cmd, args)
  BY Zenon, LastLists
<1>. QED BY Zenon, <1>1, <1>2, <1>3, <1>4, <1>5

\* The fields of a match.
LEMMA Matched == ~NoMatch.matched /\ \A dec : Match(dec).matched /\ Match(dec).dec = dec
BY DEF NoMatch, Match

\* The server command's list decides as the user's own rules do, and as the
\* flat policy does when there is one user.
LEMMA CommandJudges ==
    ASSUME NEW cfg, IsConfig(cfg), Resolves(cfg), 1 \in DOMAIN cfg.users,
           NEW args, extractCmd(args) \in Commands,
           NEWLINE \notin ToSet(extractCmd(args)),
           NEW m \in DOMAIN cfg.users,
           m = Max({i \in DOMAIN cfg.users : cfg.users[i].name = cfg.users[1].name}),
           \/ Len(cfg.users) = 1
           \/ matchCommand(resolveUser(cfg, cfg.users[m]).commands,
                           extractCmd(args), args).matched
    PROVE  CommandAuthorize(userConfigToRules(cfg), args) =
             Judged(cfg, cfg.users[m], extractCmd(args), args)
<1>. DEFINE R == ServerRules(cfg)
            us == UserLists(cfg)
            cmd == extractCmd(args)
            M(rules) == matchCommand(rules, cmd, args)
            deny == FlatRules("deny", cfg.policy.deny)
            permit == FlatRules("permit", cfg.policy.allow)
            all == (FlattenSeq(us) \o deny) \o permit
<1>1. userConfigToRules(cfg) = all
  BY Zenon DEF userConfigToRules, UserLists, FlatRules
<1>2. /\ cfg.policy.deny \in Seq(Seq(STRING))
      /\ cfg.policy.allow \in Seq(Seq(STRING))
      /\ Commands \subseteq Seq(STRING)
  BY Zenon, PolicyAssumption DEF IsConfig
<1>3. deny \in Seq(R) /\ permit \in Seq(R)
  BY <1>2, FlatRulesType
<1>4. /\ us \in Seq(Seq(R)) /\ Len(us) = Len(cfg.users)
      /\ us[1] = resolveUser(cfg, cfg.users[m]).commands
      /\ Len(us) >= 1 /\ us[1] \in Seq(R)
  BY Zenon, UserListsType
<1>. HIDE DEF R, us, cmd, deny, permit
<1>5. /\ FirstDecides(us[1], all, cmd, args)
      /\ Len(us) = 1 => RestDecides(us[1], deny, permit, all, cmd, args)
  BY Zenon, <1>3, <1>4, JoinedLists
<1>. DEFINE x == us[1]
<1>10. CommandAuthorize(userConfigToRules(cfg), args) =
         IF M(all).matched THEN M(all).dec ELSE Decision("FAIL", {})
  BY Zenon, <1>1 DEF CommandAuthorize, cmd
<1>11. Judged(cfg, cfg.users[m], cmd, args) =
         IF M(x).matched THEN M(x).dec
         ELSE Decision(IF Allows(cfg.policy, cmd) THEN "PASS_ADD" ELSE "FAIL", {})
  BY Zenon, <1>4 DEF Judged
<1>12. CASE M(x).matched
  <2>1. M(all) = M(x)
    BY Zenon, <1>5, <1>12 DEF FirstDecides
  <2>. QED BY Zenon, <1>10, <1>11, <1>12, <2>1 DEF cmd
<1>13. CASE ~M(x).matched
  <2>1. Len(us) = 1
    BY Zenon, <1>4, <1>13 DEF cmd
  <2>2. M(all) = IF M(deny).matched THEN M(deny) ELSE M(permit)
    BY Zenon, <1>5, <1>13, <2>1 DEF RestDecides
  <2>. DEFINE denies == \E i \in DOMAIN cfg.policy.deny : matchCmd(cfg.policy.deny[i], cmd)
              allows == \E i \in DOMAIN cfg.policy.allow : matchCmd(cfg.policy.allow[i], cmd)
  <2>3. M(deny) = IF denies THEN Match(Decision("FAIL", {})) ELSE NoMatch
    BY Zenon, <1>2, FlatDecides DEF cmd, deny
  <2>4. M(permit) = IF allows THEN Match(Decision("PASS_ADD", {})) ELSE NoMatch
    BY Zenon, <1>2, FlatDecides DEF cmd, permit
  <2>5. Allows(cfg.policy, cmd) <=> allows /\ ~denies
    BY Zenon DEF Allows
  <2>. HIDE DEF M, all, allows, denies
  <2>6. CASE denies
    <3>1. M(all) = Match(Decision("FAIL", {}))
      BY Zenon, <2>2, <2>3, <2>6, Matched
    <3>. QED BY Zenon, <1>10, <1>11, <1>13, <2>5, <2>6, <3>1, Matched DEF cmd
  <2>7. CASE ~denies
    <3>1. M(all) = M(permit)
      BY Zenon, <2>2, <2>3, <2>7, Matched
    <3>2. CASE allows
      BY Zenon, <1>10, <1>11, <1>13, <2>4, <2>5, <2>7, <3>1, <3>2, Matched DEF cmd
    <3>3. CASE ~allows
      BY Zenon, <1>10, <1>11, <1>13, <2>4, <2>5, <3>1, <3>3, Matched DEF cmd
    <3>. QED BY <3>2, <3>3
  <2>. QED BY Zenon, <2>6, <2>7
<1>. QED BY Zenon, <1>12, <1>13

\* A command that is not empty is the value of an argument.
LEMMA CmdFromArgument ==
    ASSUME NEW ask, IsAsk(ask), extractCmd(ask.args) # <<>>
    PROVE  extractCmd(ask.args) \in Commands
<1>. DEFINE args == ask.args
            I == {j \in 1..Len(args) : args[j].name \in {"cmd", "CMD"}}
<1>1. IsSeq(args) /\ Len(args) \in Nat /\ DOMAIN args = 1..Len(args)
  BY DEF IsAsk, IsSeq
<1>2. First(args, LAMBDA a : a.name \in {"cmd", "CMD"}) = IF I # {} THEN Min(I) ELSE 0
  BY DEF First, SelectInSeq
<1>3. CASE I = {}
  BY <1>2, <1>3 DEF extractCmd
<1>4. CASE I # {}
  <2>1. PICK i \in I : \A j \in I : i <= j
    <3>1. I \in SUBSET Nat
      OBVIOUS
    <3>. HIDE DEF I
    <3>. QED BY <1>4, <3>1, NatMin
  <2>2. Min(I) \in I
    <3>. HIDE DEF I
    <3>. QED BY <2>1 DEF Min
  <2>3. PICK k \in I : k = Min(I)
    BY Zenon, <2>2
  <2>4. extractCmd(args) = args[k].value
    BY Zenon, <1>2, <1>4, <2>3 DEF extractCmd
  <2>5. args[k] \in ToSet(args) /\ args[k].name \in {"cmd", "CMD"}
    BY Zenon, <1>1, <2>3 DEF ToSet
  <2>. QED BY <2>4, <2>5 DEF IsAsk
<1>. QED BY <1>3, <1>4

-----------------------------------------------------------------------------
(* Verdicts *)

\* The handlers answer as expected.
LEMMA VerdictCorrect ==
    ASSUME NEW cfg, IsConfig(cfg), NEW ask, IsAsk(ask), Resolves(cfg)
    PROVE  VerdictFor(cfg, ask, ConfigAuthorize(cfg, ask.user, ask.args),
                      CommandAuthorize(userConfigToRules(cfg), ask.args))
<1>. DEFINE user == ask.user
            args == ask.args
            cmd == extractCmd(args)
            m == Max({i \in DOMAIN cfg.users : cfg.users[i].name = user})
            u == cfg.users[m]
            config == ConfigAuthorize(cfg, user, args)
            command == CommandAuthorize(userConfigToRules(cfg), args)
<1>1. /\ IsSeq(cfg.users) /\ Len(cfg.users) \in Nat
      /\ DOMAIN cfg.users = 1..Len(cfg.users)
  BY UsersType
<1>2. /\ user \notin Names(cfg.users) => config.status = "FAIL"
      /\ user \in Names(cfg.users) /\ cmd # <<>> => config = Judged(cfg, u, cmd, args)
  <2>1. user \notin Names(cfg.users) => config.status = "FAIL"
    BY UnknownRefused
  <2>2. PICK k : k = m
    BY Zenon
  <2>3. user \in Names(cfg.users) /\ cmd # <<>> =>
          config = Judged(cfg, cfg.users[k], cmd, args)
    BY <1>1, <2>2, ConfigJudges
  <2>. QED BY Zenon, <2>1, <2>2, <2>3
<1>3. user \in Names(cfg.users) => m \in DOMAIN cfg.users
  BY Zenon, <1>1, LookupLast
<1>4. user \in Names(cfg.users) => 1 \in DOMAIN cfg.users
  BY <1>1 DEF Names
<1>5. cmd # <<>> => cmd \in Commands
  BY CmdFromArgument
<1>6. ASSUME user \in Names(cfg.users), cmd # <<>>
      PROVE  config.status = Expected(cfg, u, cmd, args)
  <2>1. u \in ToSet(cfg.users)
    BY Zenon, <1>3, <1>6 DEF ToSet
  <2>. HIDE DEF u, config, cmd, args
  <2>. QED BY <1>2, <1>6, <2>1, ExpectedJudged
<1>7. ASSUME user \in Names(cfg.users), cmd # <<>>,
             user = cfg.users[1].name,
             \/ Len(cfg.users) = 1
             \/ matchCommand(resolveUser(cfg, u).commands, cmd, args).matched,
             NEWLINE \notin ToSet(cmd)
      PROVE  command = config
  <2>1. command = Judged(cfg, u, cmd, args)
    BY Zenon, <1>3, <1>4, <1>5, <1>7, CommandJudges
  <2>. QED BY Zenon, <1>2, <1>7, <2>1
<1>. HIDE DEF user, args, cmd, m, config, command
<1>. QED BY <1>2, <1>6, <1>7 DEF user, args, cmd, m, config, command, VerdictFor
=============================================================================
