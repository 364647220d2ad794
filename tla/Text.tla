-------------------------------- MODULE Text --------------------------------
(***************************************************************************)
(* The textual encodings: the argument-value pairs of types/arg.go, the    *)
(* line-oriented TCP form of legacy/tcp.go, and the PROXY headers in front *)
(* of a connection (transport/proxy, transport/accept.go).                 *)
(*                                                                         *)
(* A text is a sequence of tokens.  A keyword, an address or a decimal     *)
(* number is one token; the tokens the code looks for are                  *)
(* SP (a space), NL (CR LF), LF (a bare CR, LF or NUL), "=" and "*".       *)
(***************************************************************************)
EXTENDS Naturals, Sequences, FiniteSets, SequencesExt, TLC

CONSTANTS
    V4, V6,     \* IP addresses of the two families, as tokens
    Ports,      \* decimal numbers that are ports, as tokens
    MaxUnits    \* bound: length of a PROXY v2 address block, in units

SP == "sp"
NL == "nl"
LF == "lf"

Bad == [ok |-> FALSE]
Good(v) == [ok |-> TRUE, v |-> v]

\* strings.Split, strings.Fields and strings.TrimRight(s, "\r\n").
Split(s, sep) ==
    LET at == SetToSortSeq({0, Len(s) + 1} \cup {i \in DOMAIN s : s[i] = sep}, <)
    IN [k \in 1..(Len(at) - 1) |-> SubSeq(s, at[k] + 1, at[k + 1] - 1)]
Fields(s) == SelectSeq(Split(s, SP), LAMBDA f : f # <<>>)
TrimRight(s) ==
    SubSeq(s, 1, Max({0} \cup {i \in DOMAIN s : s[i] \notin {NL, LF}}))

-----------------------------------------------------------------------------
(* types/arg.go *)

ArgString(a) == a.name \o <<IF a.mandatory THEN "=" ELSE "*">> \o a.value

Separators(s) == {i \in DOMAIN s : s[i] \in {"=", "*"}}

ParseArgument(s) ==
    IF Separators(s) = {} \/ 1 \in Separators(s) THEN Bad
    ELSE LET i == Min(Separators(s))
         IN Good([mandatory |-> s[i] = "=", name |-> SubSeq(s, 1, i - 1),
                  value |-> SubSeq(s, i + 1, Len(s))])

-----------------------------------------------------------------------------
(* legacy/tcp.go *)

\* strings.ToUpper on the keywords.
ToUpper(t) == IF t = "auth" THEN "AUTH" ELSE t

validateFields(fields) ==
    \A i \in DOMAIN fields : ToSet(fields[i]) \cap {NL, LF} = {}

Optional(cond, f) == IF cond /\ f # <<>> THEN <<SP>> \o f ELSE <<>>

TCPRequestMarshal(r) ==
    IF ~validateFields(<<r.style, r.host, r.port, r.user, r.pw, r.line>>) THEN Bad
    ELSE Good(<<"1", SP, ToUpper(r.type)>>
              \o Optional(r.type = "AUTH", r.style)
              \o Optional(r.type \in {"CONNECT", "SLIPON", "SLIPOFF"}, r.host)
              \o Optional(r.type = "CONNECT", r.port)
              \o <<NL>> \o r.user \o <<NL>> \o r.pw \o <<NL>> \o r.line \o <<NL>>)

TCPRequestUnmarshal(data) ==
    LET lines == Split(TrimRight(data), NL)
        first == Fields(lines[1])
        type == ToUpper(first[2][1])
        Param(k, types) == IF type \in types /\ Len(first) >= k + 2
                           THEN first[k + 2] ELSE <<>>
    IN IF Len(lines) < 4 \/ ~validateFields(lines) \/ Len(first) < 2 THEN Bad
       ELSE Good([type |-> type, style |-> Param(1, {"AUTH"}),
                  host |-> Param(1, {"CONNECT", "SLIPON", "SLIPOFF"}),
                  port |-> Param(2, {"CONNECT"}),
                  user |-> lines[2], pw |-> lines[3], line |-> lines[4]])

TCPReplyMarshal(r) ==
    IF Len(r.code) # 3 \/ ~validateFields(<<r.code, r.text>>) THEN Bad
    ELSE Good(r.code \o Optional(TRUE, r.text) \o <<NL>>)

TCPReplyUnmarshal(data) ==
    LET line == TrimRight(data)
        rest == SubSeq(line, 4, Len(line))
    IN IF Len(line) < 3 THEN Bad
       ELSE Good([code |-> SubSeq(line, 1, 3),
                  text |-> IF rest # <<>> /\ rest[1] = SP THEN Tail(rest) ELSE rest])

-----------------------------------------------------------------------------
(* transport/proxy.  An address is an IP and a port; "rest" is what the    *)
(* stream still holds when the header has been read.  found = FALSE is     *)
(* ErrNoProxyHeader.                                                       *)

NoHeader(rest) == [ok |-> TRUE, found |-> FALSE, rest |-> rest]
Found(ip, port, rest) ==
    [ok |-> TRUE, found |-> TRUE, addr |-> [ip |-> ip, port |-> port],
     rest |-> rest]

\* Mutant: the destination port is returned.
parseLineOther(parts) == <<parts[3], parts[6]>>

\* The client, in a line of six parts.
parseLineClient(parts) == <<parts[3], parts[5]>>

parseLine(line, rest) ==
    LET parts == [k \in DOMAIN Split(line, SP) |->
                     LET f == Split(line, SP)[k]
                     IN IF Len(f) = 1 THEN f[1] ELSE "malformed"]
    IN IF Len(parts) < 2 \/ parts[1] # "PROXY" THEN Bad
       ELSE IF parts[2] = "UNKNOWN" THEN NoHeader(rest)
       ELSE IF /\ parts[2] \in {"TCP4", "TCP6"}
               /\ Len(parts) = 6
               /\ {parts[3], parts[4]} \subseteq
                     (IF parts[2] = "TCP4" THEN V4 ELSE V6)
               /\ {parts[5], parts[6]} \subseteq Ports
            THEN LET client == parseLineClient(parts)
                 IN Found(<<client[1]>>, client[2], rest)
            ELSE Bad

\* readHeaderV1: one line; without an end of line the read fails.  LONG is a
\* field that takes the line beyond MaxHeaderLen.
readHeaderV1(s) ==
    LET ends == {i \in DOMAIN s : s[i] \in {NL, LF}}
    IN IF ends = {} \/ "LONG" \in ToSet(SubSeq(s, 1, Min(ends))) THEN Bad
       ELSE parseLine(SubSeq(s, 1, Min(ends) - 1),
                      SubSeq(s, Min(ends) + 1, Len(s)))

\* The fixed part of a PROXY v2 header is five tokens: the first byte, the rest
\* of the signature, version and command, family, and the length of the
\* address block.  The block (source, destination, two ports, extensions) is
\* counted in units of two bytes, one token each.
V2Prefix == 5
Units(tok) == CHOOSE n \in 0..MaxUnits : ToString(n) = tok

readHeaderV2(s) ==
    IF Len(s) < V2Prefix \/ s[2] # "sig" \/ s[3] \notin {"2local", "2proxy"}
    THEN Bad
    ELSE LET len == Units(s[5])
             addr == SubSeq(s, V2Prefix + 1, V2Prefix + len)
             rest == SubSeq(s, V2Prefix + len + 1, Len(s))
             ipLen == IF s[4] = "inet" THEN 2 ELSE 8
         IN IF Len(s) < V2Prefix + len THEN Bad
            ELSE IF s[3] = "2local" \/ s[4] \notin {"inet", "inet6"}
            THEN NoHeader(rest)
            ELSE IF len < 2 * ipLen + 2 THEN Bad
            ELSE Found(SubSeq(addr, 1, ipLen), addr[2 * ipLen + 1], rest)

\* proxy.ReadHeader: the first byte decides, 'P' or 0x0D.
proxyReadHeader(s) ==
    CASE s = <<>> -> Bad
      [] s # <<>> /\ s[1] \in {"PROXY", "PUT"} -> readHeaderV1(s)
      [] s # <<>> /\ s[1] = "0D" -> readHeaderV2(s)
      [] s # <<>> /\ s[1] \notin {"PROXY", "PUT", "0D"} -> NoHeader(s)

\* WriteHeader: the client's family names the protocol.
WriteHeader(client, proxy) ==
    <<"PROXY", SP, IF client.ip \in V4 THEN "TCP4" ELSE "TCP6", SP, client.ip, SP,
      proxy.ip, SP, client.port, SP, proxy.port, NL>>

\* AcceptWithProxy: without a header the client is the peer itself; a bad
\* header closes the connection.
AcceptWithProxy(s, remote) ==
    LET h == proxyReadHeader(s)
    IN IF h.ok /\ ~h.found THEN Found(remote.ip, remote.port, h.rest) ELSE h
=============================================================================
