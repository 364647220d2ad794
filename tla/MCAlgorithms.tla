---------------------------- MODULE MCAlgorithms ----------------------------
(* Bounded inputs for Algorithms, with bytes of four values. *)
EXTENDS Algorithms, Bitwise

Fill(n, b) == [i \in 1..n |-> b]
Sizes(slot) == {0, Base^Width(slot) - 1, Base^Width(slot)}

\* All sequences that take their k-th element from sets[k].
Picks(sets) ==
    FoldLeft(LAMBDA fs, S : {Append(f, x) : f \in fs, x \in S}, {<<>>}, sets)

MCPackets ==
    UNION {LET layout == Layouts[name]
               nums == Slots(layout, Numbers)
               lens == Slots(layout, Lengths)
               texts == {[k \in DOMAIN lens |-> Fill(ns[k], k % Base)] :
                           ns \in Picks([k \in DOMAIN lens |-> Sizes(lens[k])])}
           IN {<<name, [nums |-> ns, texts |-> ts, args |-> as]>> :
                 ns \in {[k \in DOMAIN nums |-> Base^Width(nums[k]) - 1],
                         [k \in DOMAIN nums |-> IF k = 1 THEN Simple ELSE k % Base]},
                 ts \in IF layout.tail = "text"
                        THEN {<<Fill(n, 1)>> : n \in 0..3} ELSE texts,
                 as \in IF "n" \in ToSet(layout.slots)
                        THEN {[k \in DOMAIN ns |-> Fill(ns[k], k % Base)] :
                                ns \in SeqOf({0, MaxByte, Base}, 2)
                                       \cup {Fill(n, 1) : n \in {MaxByte, Base}}}
                        ELSE {<<>>}} :
           name \in DOMAIN Layouts}

\* Announced lengths up to what the data can hold and beyond, any bytes after
\* them, and fixed parts that are cut short.
Small == 0..2
MCDatas ==
    UNION {LET layout == Layouts[name]
               first == [i \in DOMAIN layout.slots |->
                          IF layout.slots[i] \in Numbers
                          THEN IF i = 1 /\ layout.tail # "none"
                               THEN {Fill(Width(layout.slots[i]), b) : b \in Bytes}
                               ELSE {Fill(Width(layout.slots[i]), i % Base)}
                          ELSE [1..Width(layout.slots[i]) -> Small]]
               fixed == {FlattenSeq(f) : f \in Picks(first)}
               tail == IF "n" \in ToSet(layout.slots) THEN 3 ELSE 2
           IN {<<name, f \o t>> : f \in fixed, t \in SeqOf(Small, tail)}
              \cup {<<name, Front(f)>> : f \in fixed} :
           name \in DOMAIN Layouts}

MCXorByte(a, b) == a ^^ b

\* Two bytes that depend on every byte, and on their order.
MCDigest(bs) == <<Sum(bs) % Base, Sum([i \in DOMAIN bs |-> i * bs[i] + 1]) % Base>>

\* Bodies that end inside, at and after a digest, and at and after the limit.
Bodies == {Fill(n, 2) : n \in {0, 1, 2, 3, MaxPacketSize, MaxPacketSize + 1}}
Frames == {[hdr |-> [version |-> v, type |-> 1, seq |-> 3, flags |-> f, session |-> 77],
            body |-> b] : v \in {0, 1}, f \in {0, 1, 2}, b \in Bodies}
Second == [hdr |-> [version |-> 2, type |-> 3, seq |-> 2, flags |-> 0, session |-> 200],
           body |-> <<3, 0, 1>>]
Ends == [mode : {"legacy", "tls"}, secret : {<<>>, <<1, 3>>}]
MCDialogues ==
    [writer : Ends, reader : Ends, lost : {0, 1, 4, 16},
     packets : {<<f, Second>> : f \in Frames} \cup {<<Second, f, Second>> : f \in Frames}]

Chars == {"x", "=", "*"}
MCArguments == [mandatory : BOOLEAN, name : SeqOf(Chars, 2), value : SeqOf(Chars, 2)]
MCArgTexts == SeqOf(Chars, 4)

Words == {<<>>, <<"x">>, <<"x", "sp", "y">>}
MCRequests == [type : {"AUTH", "auth", "CONNECT", "SLIPON", "LOGIN"}, style : Words,
               host : Words, port : {<<>>, <<"23">>}, user : Words \cup {<<"lf">>},
               pw : {<<>>, <<"sp">>}, line : {<<>>, <<"0">>}]
MCReplies == [code : SeqOf({"2", "sp"}, 4), text : SeqOf({"t", "sp", "lf"}, 2)]

MCV4 == {"10.0.0.1", "10.0.0.2"}
MCV6 == {"fd00::1", "fd00::2"}
MCPorts == {"49", "5000"}
Addresses == [ip : MCV4 \cup MCV6, port : MCPorts]
Payloads == {<<>>, <<"pkt">>, <<"pkt", "nl", "PROXY">>}
MCHeaders == Addresses \X Addresses \X Payloads

Stream(header, payload, valid, client) ==
    [header |-> header, payload |-> payload, valid |-> valid, client |-> client]

V1Lines == {<<"PROXY", "sp", "UNKNOWN">>, <<"PROXY", "sp", "UNKNOWN", "sp", "LONG">>,
            <<"PROXY">>, <<"PUT", "sp", "TCP4">>, <<"PROXY", "sp", "UDP4">>,
            <<"PROXY", "sp", "TCP4", "sp", "10.0.0.1", "sp", "10.0.0.2">>,
            <<"PROXY", "sp", "TCP4", "sp", "x", "sp", "10.0.0.2", "sp", "49", "sp", "49">>,
            <<"PROXY", "sp", "TCP4", "sp", "10.0.0.1", "sp", "10.0.0.2", "sp", "70000",
              "sp", "49">>,
            <<"PROXY", "sp", "TCP6", "sp", "10.0.0.1", "sp", "10.0.0.2", "sp", "49",
              "sp", "49">>}

\* A PROXY v2 header whose address block has n of the len units it announces.
V2Header(sig, cmd, fam, len, n) ==
    <<"0D", sig, cmd, fam, ToString(len)>> \o [i \in 1..n |-> "u" \o ToString(i)]
V2Client(cmd, fam) ==
    LET Unit(i) == "u" \o ToString(i)
    IN IF cmd = "2local" \/ fam = "unspec" THEN Peer
       ELSE IF fam = "inet" THEN [ip |-> [i \in 1..2 |-> Unit(i)], port |-> Unit(5)]
       ELSE [ip |-> [i \in 1..8 |-> Unit(i)], port |-> Unit(17)]
Need(cmd, fam) == IF cmd = "2local" \/ fam = "unspec" THEN 0
                  ELSE IF fam = "inet" THEN 6 ELSE 18

MCStreams ==
    {Stream(<<>>, p, p # <<>>, Peer) : p \in Payloads}
    \cup {Stream(l \o <<"nl">>, p, l = <<"PROXY", "sp", "UNKNOWN">>, Peer) :
            l \in V1Lines, p \in Payloads}
    \cup {Stream(l, <<>>, FALSE, Peer) : l \in V1Lines}
    \cup {Stream(V2Header(sig, cmd, fam, len, len), p,
                 sig = "sig" /\ cmd # "3proxy" /\ len >= Need(cmd, fam),
                 V2Client(cmd, fam)) :
            sig \in {"sig", "gis"}, cmd \in {"2local", "2proxy", "3proxy"},
            fam \in {"inet", "inet6", "unspec"}, len \in {0, 5, 6, 7, 17, 18, 19},
            p \in Payloads}
    \cup {Stream(V2Header("sig", cmd, fam, len, n), <<>>, FALSE, Peer) :
            cmd \in {"2local", "2proxy"}, fam \in {"inet", "inet6", "unspec"},
            len \in {6, 18}, n \in 0..5}

-----------------------------------------------------------------------------
Cmd(ws) == [name |-> "cmd", value |-> ws]
Ppp == [name |-> "service", value |-> <<"ppp">>]
ShowVer == <<"show", "sp", "ver">>
MCCommands == {<<"show">>, ShowVer, <<"show", "sp", "a", "nl", "b">>, <<"exit">>}

Rule(action, pattern, match, repl) ==
    [action |-> action, pattern |-> pattern, match |-> match, set |-> {Ppp},
     passRepl |-> repl]
Rules == {Rule("permit", Regex({ShowVer}), {}, FALSE),
          Rule("deny", Regex({ShowVer, <<"exit">>}), {}, FALSE),
          Rule("", AnyCommand, {Ppp}, TRUE),
          Rule("permit", [re |-> "bad", of |-> {}], {}, FALSE)}
RuleLists == {<<>>} \cup {<<r>> : r \in Rules}
           \cup {<<Rule("deny", Regex({ShowVer}), {Ppp}, FALSE),
                   Rule("permit", AnyCommand, {}, TRUE)>>}

User(name, commands, groups) ==
    [name |-> name, commands |-> commands, groups |-> groups, services |-> <<>>,
     authType |-> "", hash |-> [kind |-> "bcrypt", of |-> Secret]]
Bob == User("bob", <<Rule("permit", AnyCommand, {}, FALSE)>>, <<>>)
Ann == [Bob EXCEPT !.name = "ann"]
Group(name, commands) ==
    [name |-> name, commands |-> commands, services |-> <<"ppp">>, authType |-> ""]
PppService == [name |-> "ppp", match |-> {Ppp}, set |-> {}]

MCConfigs ==
    {[users |-> us, groups |-> <<Group("g1", g1), Group("g2", g2)>>,
      services |-> ss, policy |-> p, allowPlaintext |-> FALSE] :
        us \in {<<User("ann", c, g)>> : c \in RuleLists,
                   g \in {<<>>, <<"g1">>, <<"g2", "g1">>, <<"g3">>}}
               \cup {<<User("ann", c, <<"g1">>), Bob>> : c \in RuleLists}
               \cup {<<Ann, User("ann", c, <<"g1">>)>> : c \in RuleLists},
        g1 \in RuleLists, g2 \in {<<>>, <<Rule("permit", Regex({ShowVer}), {}, FALSE)>>},
        ss \in {<<PppService>>},
        p \in {[allow |-> <<>>, deny |-> <<>>],
               [allow |-> <<<<"show", "sp", "*">>>>, deny |-> <<>>],
               [allow |-> <<<<"show", "sp", "*">>, <<"exit">>>>, deny |-> <<ShowVer>>]}}
    \cup {[users |-> <<User("ann", <<>>, <<>>)>>, groups |-> gs, services |-> <<>>,
           policy |-> [allow |-> <<>>, deny |-> <<>>], allowPlaintext |-> FALSE] :
            gs \in {<<Group("g1", <<>>)>>, <<[Group("", <<>>) EXCEPT !.services = <<>>]>>}}

MCAsks ==
    [user : {"ann", "bob"},
     args : {<<Cmd(c)>> : c \in MCCommands}
            \cup {<<Ppp, Cmd(ShowVer)>>, <<Ppp>>,
                  <<[name |-> "CMD", value |-> <<"exit">>], Cmd(ShowVer)>>}]

-----------------------------------------------------------------------------
Flows == [type : {"pap", "ascii", "chap"}, data : {Secret, Wrong, Empty},
          cont : {[sent |-> FALSE]} \cup
                 {[sent |-> TRUE, msg |-> m] : m \in {Secret, Wrong, Empty}}]

LocalLogins ==
    {[backend |-> "local", user |-> u, type |-> f.type, data |-> f.data, cont |-> f.cont,
      cfg |-> [users |-> <<[User("ann", <<>>, <<>>) EXCEPT !.authType = t, !.hash = h]>>,
               allowPlaintext |-> plain]] :
        u \in {"ann", "eve"}, f \in Flows, plain \in BOOLEAN,
        t \in {"", "any", "pap", "ascii", "other"},
        h \in [kind : {"empty", "bcrypt", "plain"}, of : {Secret, Wrong}]}

Well == [call |-> "up", status |-> "2xx", body |-> "json", tls |-> TRUE,
         serviceBind |-> TRUE, entries |-> 1, userBind |-> TRUE, account |-> TRUE]
\* At most one call does not answer as it should.
Envs == {Well, [Well EXCEPT !.call = "down"], [Well EXCEPT !.status = "5xx"],
         [Well EXCEPT !.body = "garbled"], [Well EXCEPT !.tls = FALSE],
         [Well EXCEPT !.serviceBind = FALSE], [Well EXCEPT !.entries = 0],
         [Well EXCEPT !.entries = 2], [Well EXCEPT !.userBind = FALSE],
         [Well EXCEPT !.account = FALSE]}
BackendConfigs ==
    [scheme : {"https", "http"}, insecure : BOOLEAN, startTLS : {FALSE},
     baseDN : {TRUE}, bindDN : {FALSE}]
    \cup [scheme : {"ldaps", "ldap"}, insecure : BOOLEAN, startTLS : BOOLEAN,
          baseDN : {TRUE}, bindDN : BOOLEAN]
    \cup {[scheme |-> "ldaps", insecure |-> FALSE, startTLS |-> FALSE,
           baseDN |-> FALSE, bindDN |-> FALSE]}

LoginsAt(bs, cfgs) ==
    {[backend |-> b, type |-> f.type, data |-> f.data, cont |-> f.cont, cfg |-> c,
      env |-> e] :
        b \in bs, f \in Flows, c \in cfgs, e \in Envs}
BackendLogins ==
    LoginsAt({"http", "ldap"}, BackendConfigs)
    \cup LoginsAt({"pam", "static", "other"},
                  {[scheme |-> "https", insecure |-> FALSE, startTLS |-> FALSE]})

MCLogins == LocalLogins \cup BackendLogins
=============================================================================
