----------------------------- MODULE Algorithms -----------------------------
(***************************************************************************)
(* The pure parts of the system, each applied to every input of a bounded  *)
(* set: an initial state holds an input, and one step computes what the    *)
(* code computes from it.                                                  *)
(***************************************************************************)
EXTENDS Framing, Text, Policy, Backends

CONSTANTS
    Dialogues,           \* inputs for Framing
    Packets, Datas,      \* inputs: <<layout, packet>>, <<layout, bytes>>
    Arguments, ArgTexts, Requests, Replies,        \* inputs for Text
    Headers, Streams,    \* inputs: <<client, proxy, payload>>, token streams
    Configs, Asks,       \* inputs for Policy
    Logins               \* inputs for Backends

\* The inputs are values of the types the code has.
ASSUME ConfigsAssumption ==
    (\A cfg \in Configs : IsConfig(cfg)) /\ (\A ask \in Asks : IsAsk(ask))
ASSUME LoginsAssumption ==
    \A l \in Logins : l.backend = "local" =>
        /\ IsSeq(l.cfg.users)
        /\ \A u \in ToSet(l.cfg.users) : u.hash.kind \in {"empty", "bcrypt", "plain"}

VARIABLES
    part,     \* which part is applied
    in,       \* its input
    out       \* what it computes
vars == <<part, in, out>>

Layouts ==
    [AuthenStart |-> AuthenStart, AuthenContinue |-> AuthenContinue,
     AuthenReply |-> AuthenReply, AuthorRequest |-> AuthorRequest,
     AuthorReply |-> AuthorReply, AcctRequest |-> AcctRequest,
     AcctReply |-> AcctReply, Header |-> Header,
     UDPSimple |-> UDPSimple, UDPExtended |-> UDPExtended]

Peer == [ip |-> <<"peer">>, port |-> "49"]
Pending == [pending |-> TRUE]

Init ==
    /\ out = Pending
    /\ \/ part = "marshal" /\ in \in Packets
       \/ part = "unmarshal" /\ in \in Datas
       \/ part = "frames" /\ in \in Dialogues
       \/ part = "argument" /\ in \in Arguments
       \/ part = "parse" /\ in \in ArgTexts
       \/ part = "request" /\ in \in Requests
       \/ part = "reply" /\ in \in Replies
       \/ part = "proxy" /\ in \in Headers
       \/ part = "stream" /\ in \in Streams
       \/ part = "author" /\ in \in Configs \X Asks
       \/ part = "login" /\ in \in Logins

Apply(p, result) == part = p /\ out' = result

There(encoded, Decode(_)) ==
    [there |-> encoded.ok, back |-> IF encoded.ok THEN Decode(encoded.v) ELSE encoded]

\* Encode, then decode.
MarshalPacket ==
    Apply("marshal", There(Marshal(Layouts[in[1]], in[2]),
                           LAMBDA d : Unmarshal(Layouts[in[1]], d)))
WriteArgument ==
    Apply("argument", There(Good(ArgString(in)), LAMBDA s : ParseArgument(s)))
WriteRequest ==
    Apply("request", There(TCPRequestMarshal(in),
                           LAMBDA d : TCPRequestUnmarshal(d)))
WriteReply ==
    Apply("reply", There(TCPReplyMarshal(in), LAMBDA d : TCPReplyUnmarshal(d)))

\* Decode, then encode.
UnmarshalData ==
    Apply("unmarshal", There(Unmarshal(Layouts[in[1]], in[2]),
                             LAMBDA p : Marshal(Layouts[in[1]], p)))
ReadArgument ==
    Apply("parse", There(ParseArgument(in), LAMBDA a : Good(ArgString(a))))

\* One end writes packets, the connection breaks when the last "lost" bytes are
\* on their way, the other end reads until it is refused.
ExchangeFrames ==
    LET sent == FlattenSeq([i \in DOMAIN in.packets |->
                   WritePacket(in.writer, in.packets[i].hdr, in.packets[i].body)])
        Add(r, p) ==
            IF r.open /\ p.ok
            THEN [open |-> TRUE, rest |-> p.v.rest,
                  got |-> Append(r.got, [hdr |-> p.v.hdr, body |-> p.v.body])]
            ELSE [r EXCEPT !.open = FALSE]
    IN Apply("frames",
             FoldLeft(LAMBDA r, i : Add(r, ReadPacket(in.reader, r.rest)),
                      [open |-> TRUE, got |-> <<>>,
                       rest |-> SubSeq(sent, 1, Len(sent) - in.lost)],
                      [i \in 1..(Len(in.packets) + 1) |-> i]))

\* A connection that starts with a header the code wrote, or with anything.
AcceptWritten ==
    Apply("proxy", AcceptWithProxy(WriteHeader(in[1], in[2]) \o in[3], Peer))
AcceptStream ==
    Apply("stream", AcceptWithProxy(in.header \o in.payload, Peer))

\* Both handlers on the same configuration and request.
Author ==
    Apply("author",
          IF Resolves(in[1])
          THEN [ok |-> TRUE,
                config |-> ConfigAuthorize(in[1], in[2].user, in[2].args),
                command |-> CommandAuthorize(userConfigToRules(in[1]), in[2].args)]
          ELSE Refused)

\* A login at a backend; "local" is the configuration's own user database.
Login ==
    Apply("login",
          IF in.backend = "local"
          THEN IF Validates(in.cfg)
               THEN Accepted(Authenticate(in.cfg, in.user, in.type, in.data, in.cont))
               ELSE Refused
          ELSE IF Built(in.backend, in.cfg)
               THEN Accepted(BackendAuthenticate(in.backend, in.cfg, in.type,
                                                   in.data, in.cont, in.env))
               ELSE Refused)

Next ==
    /\ out = Pending
    /\ \/ MarshalPacket \/ UnmarshalData \/ ExchangeFrames \/ WriteArgument
       \/ ReadArgument \/ WriteRequest \/ WriteReply \/ AcceptWritten \/ AcceptStream
       \/ Author \/ Login
    /\ UNCHANGED <<part, in>>

Spec == Init /\ [][Next]_vars
Done(p) == part = p /\ out # Pending

-----------------------------------------------------------------------------
\* What an encoder accepts, its decoder gives back unchanged, and an encoder
\* refuses only what the widths of its length fields cannot express: no
\* length is truncated, no field ends up in its neighbour
\* (MarshalBinary and UnmarshalBinary of packet/ and legacy/udp.go,
\* Argument.String and ParseArgument, MarshalText and UnmarshalText of
\* legacy/tcp.go).  Exempt are values their types do not rule out and the
\* encodings cannot carry: a header or UDP packet of another version, an
\* argument name that is empty or holds a separator, and a TCP request in
\* lower case, with a port but no host, with spaces in a parameter, with
\* parameters its type has no place for, or with an empty last line.
WireRoundTrips ==
    /\ Done("marshal") =>
         LET layout == Layouts[in[1]]
             p == in[2]
         IN /\ out.there /\ p.nums[1] \in layout.reads => out.back = Accepted(p)
            /\ layout.tail = "text" => UserOf(p) \o PasswordOf(p) = p.texts[1]
            /\ ~out.there =>
                 \/ p.nums[1] \notin layout.writes
                 \/ \E t \in ToSet(p.texts) \cup ToSet(p.args) : Len(t) > MaxByte
                 \/ Len(p.args) > MaxByte
    /\ Done("argument") =>
         (in.name # <<>> /\ Separators(in.name) = {} => out.back = Good(in))
    /\ Done("request") /\ out.there =>
         (/\ in.line # <<>> /\ in.type # "auth"
          /\ in.style # <<>> => in.type = "AUTH"
          /\ in.host # <<>> => in.type \in {"CONNECT", "SLIPON", "SLIPOFF"}
          /\ in.port # <<>> => in.type = "CONNECT" /\ in.host # <<>>
          /\ SP \notin ToSet(in.style \o in.host \o in.port)
          => out.back = Good(in))
    /\ Done("reply") /\ out.there => out.back = Good(in)

\* What a decoder accepts is the encoding of what it returns, to the last
\* byte: the pieces it cuts lie inside the data and cover it, whatever
\* lengths the data announces.
DecodeExact ==
    /\ Done("unmarshal") /\ out.there =>
         LET layout == Layouts[in[1]]
             data == in[2]
         IN data[1] \in layout.writes =>
              out.back = Accepted(IF layout.tail = "ignored"
                                  THEN SubSeq(data, 1, FixedLen(layout.slots))
                                  ELSE data)
    /\ Done("parse") /\ out.there => out.back = Good(in)

\* The packets of a dialogue up to the i-th take this many bytes, and this is
\* how many of them arrive: all before the first that is incomplete, too long
\* for ReadHeader, or of a version it does not support.
Extent(packets, i) ==
    Sum([k \in 1..i |-> FixedLen(Header.slots) + Len(packets[k].body)])
Arriving(d) ==
    Max({n \in 0..Len(d.packets) : \A i \in 1..n :
           /\ Extent(d.packets, i) <= Extent(d.packets, Len(d.packets)) - d.lost
           /\ Len(d.packets[i].body) <= MaxPacketSize
           /\ d.packets[i].hdr.version \in HeaderVersions})

\* Every reader of the stream finds the start of what it reads.  Packets
\* written one after the other arrive one by one in order, none cut, joined or
\* made up, whether or not the two ends agree on the secret; and with the body
\* that was written when they do, or when the packet says it is in clear, as
\* every packet of a TLS end does (WritePacket and ReadPacket of Conn).
\* Behind a load balancer the packets start exactly where the PROXY header
\* ends, and the client is the one the header names, or the peer when it
\* names none.  A header that is cut short or malformed is refused, never
\* taken for packets.  WriteHeader's own headers are accepted when client and
\* proxy are of one address family (ReadHeader, AcceptWithProxy).
StreamFraming ==
    /\ Done("frames") =>
         /\ Len(out.got) = Arriving(in)
         /\ \A i \in DOMAIN out.got :
              LET p == in.packets[i]
                  clear == Has(p.hdr.flags, FlagUnencrypted)
                  forced == in.writer.mode = "tls" /\ ~clear
                  g == out.got[i]
              IN /\ g.hdr = [version |-> p.hdr.version, type |-> p.hdr.type,
                             seq |-> p.hdr.seq, session |-> p.hdr.session,
                             flags |-> p.hdr.flags + IF forced THEN FlagUnencrypted ELSE 0,
                             length |-> Len(p.body)]
                 /\ clear \/ forced \/ in.reader = in.writer => g.body = p.body
    /\ Done("proxy") /\ ({in[1].ip, in[2].ip} \subseteq V4 \/
                         {in[1].ip, in[2].ip} \subseteq V6) =>
         out = Found(<<in[1].ip>>, in[1].port, in[3])
    /\ Done("stream") =>
         /\ out.ok = in.valid
         /\ out.ok => out.rest = in.payload /\ out.addr = in.client

-----------------------------------------------------------------------------
\* On a command, ConfigHandler gives the verdict the configuration's nesting
\* says, and refuses whom it does not know.  The server command's flat rule
\* list gives the same decision to the first user listed, as long as that
\* user is alone or one of their own rules decides; the exception is a line
\* feed in the command, which globToRegex's dot does not match.  Of several
\* entries with one name the last counts.
VerdictFollowsConfig ==
    Done("author") /\ out.ok => VerdictFor(in[1], in[2], out.config, out.command)

\* Who a login at the configuration's own user database is for.
Entry(l) == {u \in ToSet(l.cfg.users) : u.name = l.user}

IsPassword(l, pw) ==
    IF l.backend = "local" THEN \E u \in Entry(l) : u.hash.of = pw ELSE pw = Secret

\* Nothing speaks against the login: every call its backend makes answers as
\* it should and the account exists.
Undisturbed(l) ==
    LET up == l.env.call # "down"
    IN CASE l.backend = "local" -> \E u \in Entry(l) : u.authType \in {"", "any", l.type}
         [] l.backend = "http" -> up /\ l.env.status = "2xx" /\ l.env.body # "garbled"
         [] l.backend = "ldap" ->
              /\ up /\ l.env.entries = 1 /\ l.env.userBind
              /\ l.cfg.startTLS => l.env.tls
              /\ l.cfg.bindDN => l.env.serviceBind
         [] l.backend = "pam" -> up /\ l.env.account
         [] l.backend = "static" -> l.env.entries = 1

Unreachable(l) == l.backend \in {"http", "ldap", "pam"} /\ l.env.call = "down"

\* The password crosses the network in clear.
InClear(l) == \/ l.backend = "http" /\ l.cfg.scheme = "http"
              \/ l.backend = "ldap" /\ l.cfg.scheme = "ldap" /\ ~l.cfg.startTLS

\* A login passes only with the password of the account, sent where the flow
\* has it: in a PAP START or in the CONTINUE after a prompt.  It passes
\* whenever nothing speaks against it: a configuration that validates, or a
\* backend that answers every call, locks nobody out.  A backend in trouble
\* is an ERROR, never a verdict, and passwords cross a network in clear only
\* where the operator opted in (Authenticate of ConfigHandler,
\* BcryptAuthenticator, HTTP-, LDAP- and PAMAuthenticator, staticHandler).
LoginFollowsBackend ==
    Done("login") /\ out.ok =>
        LET pw == IF in.cont.sent THEN in.cont.msg ELSE in.data
            asked == ~in.cont.sent /\ in.type # "pap"
        IN /\ out.v = "PASS" => ~asked /\ IsPassword(in, pw)
           /\ Undisturbed(in) /\ IsPassword(in, pw) =>
                out.v = IF asked THEN "GETPASS" ELSE "PASS"
           /\ Unreachable(in) =>
                out.v = IF asked THEN "GETPASS"
                        ELSE IF pw = Empty /\ in.backend # "http" THEN "FAIL"
                        ELSE "ERROR"
           /\ InClear(in) => in.cfg.insecure
=============================================================================
