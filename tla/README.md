# A TLA+ model of the tacacs library and server

This directory models the repository in TLA+: its concurrent parts as state
machines, its pure parts as operators. TLC checks both on small instances, and
TLAPS proves the main properties of the state machines for every instance. The
source lines behind every definition are listed in `PROJECT.json` (`map`).

## The system

`tacacs` is a TACACS+ (RFC 8907, RFC 9887) library in Go with a command-line
client and server.

| part | package | what it does |
|---|---|---|
| session registry | `server/sessions.go` | one mutex-protected map of interactive authentication sessions, with a background sweeper |
| dispatch | `server/server.go`, `middleware.go` | one goroutine per connection: read, check flags, handle, reply |
| client | `client`, `protocol/session.go` | one session per `Client`; request, reply, prompt loop |
| server command | `cmd/tacacs-cli/server.go` | accept loop, `--max-conns`, graceful shutdown, hot reload |
| framing | `transport/conn.go`, `framing.go`, `crypto` | packets over TCP or TLS, read deadlines, obfuscation |
| protocol rules | `protocol`, `types` | statuses, normalisation, argument syntax |
| codecs | `packet`, `transport/proxy`, `legacy` | headers, bodies, PROXY headers, the older protocols |
| secret providers | `server/secret.go`, `secret_dns.go` | secret and mode by peer address |
| policy | `server/users.go`, `group.go`, `userconfig.go` | users, groups, command rules |
| AAA backends | `cmd/tacacs-cli/aaa` | local, HTTP, LDAP and PAM authentication, authorization, accounting |
| configuration | `yang`, reload callback of the server command | load, validate, watch |

The interactions that matter:

- all connection goroutines and the sweeper share the registry, and a handler
  runs between two critical sections, so the registry can change under it;
- the client and the server each keep a sequence number for the same session;
- the accept loop, the connection goroutines, the signal handler and the drain
  timer share the semaphore, the connection tracker and the sockets;
- the watch goroutine replaces rules and users, one after the other, under
  requests that copied one of them and will look at the other later;
- connections look up their secret through stacked providers while one is
  replaced and the other resolves its hosts again.

## The modules

| module | models |
|---|---|
| `Sessions` | `sessionManager`: `Set`, `Update`, `Delete`, `SweepExpired`, `ValidateNextSeqNo`, the active-session gauge |
| `Server` (extends `Sessions`) | `ServeConn`, `checkFlags`, `handleAuthen`, `handleAuthor`, `handleAcct`, recovery from panics, `Close` |
| `SessionProtocol` | the abstract specification: client and server take turns in each session |
| `ServerRefinement` | the mapping under which `Server` implements `SessionProtocol` |
| `ClientServer` (extends `Server`) | `Client` and its `Session`, joined to the server by a FIFO in each direction |
| `AcceptLoop` | the accept loop, connection goroutines, deadlines, signal, drain and forced close |
| `Watch` | `WatchFile` and its debouncing loop, the file and its event queue |
| `Accounting` | `FileAccounter`, `SyslogAccounter`, the answer to a record |
| `AAA` (extends `Watch`, `Accounting`) | `BcryptAuthenticator`, `CommandAuthorizer` and `yang.Watch` under reloads and restarts |
| `SecretProviders` | `PrefixSecretProvider` over `DNSSecretProvider` over `StaticSecret` |
| `Wire` | the header, the seven bodies and the two legacy UDP packets, as a table of layouts |
| `Framing` (extends `Wire`) | packets on a byte stream and the obfuscation of bodies |
| `Text` | arguments, legacy TCP requests and replies, PROXY headers of both versions |
| `Policy` | `Validate`, `Resolve`, command and service rules, the flat policy, both authorizers, password checks |
| `Backends` | the HTTP, LDAP, PAM and static authenticators |
| `Algorithms` | applies the operators of the last five to bounded inputs |
| `MC...` | constants for TLC |
| `ServerProofs`, `DisjointProofs`, `ClientServerProofs`, `AcceptLoopProofs`, `AAAProofs`, `SecretProofs`, `PolicyProofs`, `AlgorithmsProofs` | theorems and proofs |

### Sessions and Server

A connection's goroutine has a program counter `pc[c]`. Its steps are cut where
the code takes or releases the registry's mutex, calls the application's
`Handler` or writes to the socket. One action is one such stretch of code:
`StartAuthen` is `handleAuthen` from the START to the call of the Handler,
`AuthenDecide` what follows its return, and so on. What is chosen freely:

- the packets clients send (`Packets`), with any type, flags, seq_no and body;
- what the Handler decides, and whether it fails or panics;
- whether a reply can be encoded and whether a write succeeds;
- the moments at which the clock ticks and the sweeper runs.

Bodies are abstract: a START is a model value, any other body is decodable,
undecodable, or decodable but refused before the Handler is called. `seq_no` is
a byte of size `SeqMod`, and 256 in the run about wrapping. `lastActive` is the
number of ticks since it was set, up to `TTL + 1`. `latest` is a history
variable: the last START each client sent in each session.

`Get` and the unlocked reads of `lastOutboundSeq` and `start` after it are one
step. `start` never changes after `Set`, and a context that left the map keeps
the number it had, so the pair behaves as if it ran at one instant.

Panics are recovered as with `RecoveryMiddleware`, which the server command
always installs.

### ClientServer

The server's actions are those of `Server`; the composition feeds `ReadPacket`
from the client's FIFO and puts what `WriteReply` writes into the other. The
client sends, waits, and inspects only the reply's body. `ReadError` stands for
a deadline set by the caller and for a broken connection, after which callers
give the connection up, as every caller in the repository does. A connection
slot is dialled once, since the next dial draws another random session id.

`AuthenOnce` states how the Client is used: `Authenticate` comes first or not at
all, as in the repository's tests that make several calls on one Client. The
run `client_reuse` shows what happens otherwise.

### AcceptLoop

What a packet says is left to `Server`; here a handler replies or ends the
connection. `gor[c]` is where the goroutine is, down to each of its deferred
calls; `deadline[c]` tells whether a read deadline is armed, which is all that
`ReadFails` needs to know. The goroutine does not close its socket, so a socket
left open when it ends becomes one of the `orphans`, until the garbage collector
closes it. `FdLimit` bounds open sockets; the loop sees `EMFILE` beyond it.

### Watch, Accounting and AAA

`Watch` is one goroutine: it registers the watch, receives events, remembers
that one was about the configuration file, and at the next tick of the debounce
ticker calls its callback. The callback is cut into reading the file (`Load`)
and each replacement it makes, because requests run in between. The file
changes at any time, to a content that loads or to `Bad`; events wait in a queue
of `QueueCap`, and one that does not fit leaves an overflow behind.

`AAA` adds what uses the loop. `use` tells which: the server command with local
users (the callback replaces rules, then users), with an external authenticator
(rules only), or `yang.Watch` (a channel of size 1 that drops what does not
fit). `az` and `auth` carry a load number beside the configuration. A request
copies what it needs under the lock (`StartPAP`, `Continue`, `Authorize`) and
evaluates the copy in a later step (`Verify`, `Decide`); `since` is a history of
what was in force meanwhile, `passedAt` the load number a login passed under.
What a configuration says of a request is a parameter here and the subject of
`Policy`. `Restart` is a crash at any point and a new start from the file.

`Accounting` keeps the log as lines that are whole, torn, or torn with a whole
record behind. A failed write may leave part of a line; the `json.Encoder` then
fails every later call, until a restart opens the file again.

### SecretProviders

`PrefixSecretProvider.Get` holds its read lock while it asks the DNS provider,
and a waiting `Replace` keeps new readers out, as `sync.RWMutex` does. A
`Refresh` copies the rules, looks up one host after the other without a lock
(each may fail and then keeps its addresses) and stores the result; any number
of them overlap. DNS answers are numbered, so that old and new can be compared.
An address has a form, because the 4- and 16-byte forms of one IPv4 address are
different byte slices. `window` is a history of the answers that were right
since the call of `Get`.

### Algorithms and the modules it applies

`Wire` describes each packet by a layout, one slot per field, so encoding and
decoding are one operator each; every `MarshalBinary` and `UnmarshalBinary`
follows that scheme. Bytes run from 0 to `MaxByte`, which makes "a length that
does not fit its field" reachable with short texts. `Framing` puts packets on a
stream and takes them off; the MD5 digest and the exclusive or of two bytes are
parameters. `Text` works on tokens: an address or keyword is one token, and
separators are the tokens the code searches for. In `Policy` a regular expression is the set of commands it
matches. In `Backends` the other service is a record of outcomes, one per call.

Each initial state of `Algorithms` is one input, and the one step applies the
code's function to it. The properties compare the result with an independent
definition: the inverse function, a ranking of all rules that apply, or the
password the account really has.

## What the runs check

| run | instance | states | properties |
|---|---|---|---|
| `server_shared` | 2 connections, one session id between them, `SeqMod` 6 | 326,688 | `TypeOK`, `ActiveGaugeExact`, `RegisteredSeqEven`, `AuthenRepliesEven` |
| `server_disjoint` | 2 connections, one id each, `SeqMod` 6 | 557,568 | `ContinueMatchesStart`, `TerminalReplyEndsSession`, `PromptMatchesRegistry`, `ExchangeAdvancesByOne`, `ImplementsSessionProtocol` |
| `server_one` | 1 connection, two multiplexed ids, all packet types, flags, statuses and modes | 146,360 | `ProtectionEnforced`, `IdleSessionReclaimed` |
| `client_server` | 1 client and the server, both modes, all calls, `SeqMod` 8 | 24,286 | `ClientTypeOK`, `ReplyAnswersRequest`, `AnswerExpected`, `ClientKeepsRules`, `VerdictEndsSession`, `NoMutualWait`, `ClientSeqNeverWraps`, `CallReturns` |
| `accept_loop` | 2 connection slots, `--max-conns` 1, 2 descriptors, all timeout settings | 38,540 | `TypeOK`, `SlotsExact`, `ForceCloseReachesAll`, `ExitDrained`, `ForcedTakesNoRequest`, `ShutdownCompletes`, `VanishedPeerFreesSlot` |
| `hot_reload` | 1 connection, 2 configurations and a broken one, 2 edits, 1 record, 1 restart, all uses and sinks | 787,736 | `TypeOK`, `VerdictWasInForce`, `RulesCoverLogin`, `RulesAndUsersAgree`, `AckedIsLogged`, `ChangeGetsIntoForce` |
| `secrets` | 1 connection, 2 hosts that share an address, 2 overlapping `Refresh` calls, 2 prefix configurations | 143,172 | `GetAnswersOneMoment`, `RefreshNeverGoesBack`, `GetReturns` |
| `algorithms` | 69,338 inputs, four values per byte | 138,676 | `WireRoundTrips`, `DecodeExact`, `StreamFraming`, `VerdictFollowsConfig`, `LoginFollowsBackend` |

All eight pass. The bounds let the interesting cases happen:

- two connections are enough for one goroutine to act between two steps of
  another, and the sweeper and `Close` are further actors;
- `SeqMod` 6 allows a START, two prompts and the wrap from 5 to 0, and seq_no 2
  stands for an out-of-turn number;
- `TTL` 1 distinguishes fresh, idle and expired;
- in `client_server` a session runs out of numbers after four packets;
- with one slot and two connections one is rejected or waits, and with two
  descriptors an open orphan exhausts them;
- two edits let a reload start while another change is on its way, and change
  a broken file back; the new configuration drops the user and permits what the
  old one denies, so every mixture shows; a queue of one event overflows;
- one restart is enough for a record to follow a torn line;
- two `Refresh` calls can overtake each other, and an address moves from one
  host to another between two answers;
- texts and argument lists are empty, as long as their length field can say,
  and one longer; bodies end inside, at and after a digest and at and after
  `MaxPacketSize`; streams break in the middle of a header and of a body;
- rule lists of up to two rules on a user and two groups give every order of
  user, group and policy.

No symmetry is used. The safety properties that are also proved do not depend
on these bounds at all. `CHECK_DEADLOCK` is off where the system may stop: when
every bounded input is used up, the server has exited, or an algorithm is done.

### Fairness

- `FairSpec` of `Server`: a goroutine that has a packet goes on, so handlers
  return and writes complete or fail. The clock advances and the sweeper's
  ticker fires. Clients owe nothing.
- `ClientFairSpec`: both ends' goroutines run, what was sent arrives, `contFn`
  returns. No deadline fires by assumption and no call has to be made.
- `FairSpec` of `AcceptLoop`: goroutines run and handlers return, an armed
  deadline and the drain timer fire, `Accept` fails on a closed listener. Peers,
  the collector and signals owe nothing.
- `FairSpec` of `AAA`: the watch goroutine runs and its ticker fires, and the
  consumer of `yang.Watch`'s channel receives. Requests, edits and restarts owe
  nothing.
- `FairSpec` of `SecretProviders`: a `Get` or `Replace` that can go on does, and
  a reader that is let in again and again gets the lock (strong fairness: a
  writer that unlocks lets the waiting readers in first). Lookups may never
  return.

Writes have no deadline in the code (`Conn.WritePacket`). That a handler's write
completes or fails is therefore an assumption on the kernel's send buffer and
its retransmission limit.

### Where documentation and code disagree

Four runs state what a comment says and find it violated.

| run | property | what happens |
|---|---|---|
| `seq_wrap` | `SeqNoNeverWraps` | a session prompted 128 times is answered under seq_no 0 (`sessions.go:167`: "must never wrap") |
| `tls_default` | `ProtectionEnforced` | with `Config.Mode` TLS, legacy connections may send cleartext (`server.go:182`: "must not be set unless explicitly allowed") |
| `client_reuse` | `StartIsFirst` | a second call's START has seq_no 3 (`server.go:194`: "a START (seq_no 1)") |
| `accept_emfile` | `ListenerOutlivesErrors` | `EMFILE` ends the accept loop (`cmd/tacacs-cli/server.go:283`: "should not kill the listener") |

Smaller differences met on the way have no run of their own; the modules follow
the code.

- A CONTINUE that cannot be decoded does not refresh its session
  (`sessions.go:40`: "updated on every packet in this session").
- A rule with an empty action permits (`group.go:41`: "An empty action is
  treated as "deny"").
- A user inherits a group's `AuthType` in `resolveUser` (`group.go:122`), but
  `Authenticate` looks only at the user's own.
- A failed write of an accounting record is answered with ERROR
  (`accounter.go:119`: "write error does NOT propagate").
- An ambiguous LDAP search is an error, because of its size limit of 1, where
  the comment at `ldap_authenticator.go:157` has it as no match.
- `WriteHeader` with addresses of two families writes a line its own parser
  refuses.
- A line feed in a command makes the server command's `globToRegex` differ from
  `matchCmd`.
- Some legacy TCP requests that can be encoded decode to something else:
  the comment of `WireRoundTrips` lists them.
- `WritePacket` has no size limit while `ReadHeader` has, so an oversized reply
  ends the connection at its reader.

## What is proved

The theorems hold for every set of connections (a finite one in `AcceptLoop`),
every finite set of session ids, every even `SeqMod` above 2, every `TTL`,
`MaxConns` and `FdLimit`, every set of configurations, users and commands with
any meaning, and every number of hosts, `Refresh` calls and prefix
configurations.

`ServerProofs` rests on two inductive invariants. `Inv` joins types, what each
program counter implies about the packet, START and reply in hand
(`ControlInv`), the exact gauge and the parity of registered numbers.
Parity needs all of it: a reply is even because the packet was odd, that is so
because the registry's number was even, and that because only such replies are
recorded. `FlagsInv` says that what is being handled has the connection's flags
and passed `CheckFlags`.

- `TypeCorrect`, `GaugeCorrect`, `ParityCorrect`, `RepliesCorrect`: no further
  assumption; clients may share session ids.
- `ProtectionCorrect`: assumes `ModesAgree`, that a server configured for TLS is
  not given legacy connections. `tls_default` shows it is needed.

`DisjointProofs` assumes `DisjointClients`: no two connections use the same
session id. Ids are random 32-bit numbers, so this holds but for rare
collisions. The invariant `OwnInv` describes, for each connection and id of its
own, what the registry holds at each program counter; the key lemmas say that a
step of one connection leaves the sessions of the others alone, apart from
ageing and eviction (`Frame`).

- `StartMatched`, `TerminalEnds`, `PromptRegistered`, `ExchangeInOrder`.
- `ServerImplementsSessionProtocol`: every step of the server
  is a step of `SessionProtocol` or leaves its state unchanged. A session is at
  the server while a Handler judges one of its packets, and otherwise what the
  registry says.

`ClientServerProofs` first joins the two ends of a connection. `LinkInv` says, for each
connection, in which of four situations client, server and the two streams are:
nothing asked, a request on its way to the server, the request in the server's
hands, or its reply on its way back. In each it says what the packet is: sent
by this client's call, under its number, with its flags; a reply of the type
and with the number next to the request's. Each end's own invariant says
nothing of the other: that a client in "wait" finds its answer needs the
situation, not the reply. The constants only have to make sense
(`ClientServerAssumption`): calls are of packet types, a Client has one session
id, and the packets it can build are among those the server is specified for.

- `LinkHolds`, `ClientTypeCorrect`, `RepliesAnswer`, `NeverBothWait`,
  `ClientSeqMonotonic`: clients may share session ids.
- `ClientImplementsServerClients`: a behaviour of clients and server is one of
  `Server`, so its theorems carry over.
- `ClientsProtected`: for the library's own clients `ModesAgree` is not needed.
- `LoginStartsAtOne`: assumes `AuthenOnce`, that a Client logs in at most once
  and first. `client_reuse` shows it is needed.

Its second half assumes `DisjointClients` again. `RegistryAgrees` says what
a client may conclude about the server's registry from the prompt or the
verdict it holds, or that is on its way to it. It is inductive because a step
of another connection can only age or remove the session. `InOrder` adds, with
`AuthenOnce`, that the registry expects whatever the client sends next.

- `AgreementHolds`, `AnswersExpected`, `VerdictsFinal`.
- `ClientsKeepRules`: with `AuthenOnce`.
- `ClientImplementsSessionProtocol`: the refinement, with the library's clients.

`AcceptLoopProofs` uses `LoopInv`: types, the semaphore equals the number of
goroutines that hold a token, every goroutine that serves is tracked, and after
the forced close none of them has an open socket.

- `TypeCorrect`, `SlotsCorrect`, `ShutdownSafe`, `ExitSafe`, `ForcedQuiet`.

`AAAProofs` has three invariants. `TypeInv` adds to the types that a callback
past its load holds a configuration that loaded. `ReloadInv` orders the load
numbers: the rules are never behind the users, nothing copied or passed is ahead
of what is in force, and a copy's configuration is in its request's `since`. The
verdict's claim needs the last part, since the copy may be replaced before it is
evaluated. `LogInv` adds to `AckedIsLogged` that a torn tail one can still write
behind was left by a restart that has not been used up.

- `TypeCorrect`, `StoresAgree`, `LoginCovered`, `VerdictInForce`, `AckedLogged`.

`SecretProofs` uses `RefreshInv`, that what a `Refresh` holds lies between what
it promised at its start and what DNS has answered, and is what is in force
unless it was overtaken, and `GetInv`, that a `Get` between the two providers
still has in its window every answer the second may give.

- `TypeCorrect`, `RefreshForward`, `OneMoment`.

`PolicyProofs` and `AlgorithmsProofs` are about what the pure parts compute. The
inputs only have to be of the code's types (`PolicyAssumption`,
`ConfigsAssumption`, `LoginsAssumption`) and the password not empty
(`BackendsAssumption`): configurations have any number of users, groups, rules
and patterns. The provers do no induction over sequences; `PolicyProofs` does it
over the set of numbers a claim holds of (`SetInduction`), and derives from it
what `FlattenSeq` returns (`Flatten`). The argument about verdicts is that the
rules `resolveUser` puts one after the other, searched from the front, decide as
the matching rule of lowest rank does (`ResolvedRanked`, by induction over the
user's groups), and that the server command's list starts with the first user's
rules and ends with translations of the flat policy that match what its
patterns match (`JoinedLists`, `FlatDecides`).

- `VerdictsCorrect`: for every configuration that resolves.
- `LoginsCorrect`: for every login, configuration and outcome of the calls that
  a backend makes.

Only model-checked are

- liveness, which is outside what TLAPS can prove here: `IdleSessionReclaimed`,
  `CallReturns`, `ShutdownCompletes`, `VanishedPeerFreesSlot`,
  `ChangeGetsIntoForce`, `GetReturns`;
- `WireRoundTrips`, `DecodeExact` and `StreamFraming` of `algorithms`, whose
  general form needs induction over the pieces of a packet, the packets of a
  stream and the tokens of a text at once.

## What is not modelled

- The MD5 digest itself, TLS handshakes and certificates, dialling: library
  code and its configuration.
- HTTP, LDAP, PAM, syslog, DNS, the file system: only the outcomes of calls to
  them, as the code uses them.
- The YANG configuration (`yang/load.go`, `validate.go`, `redact`): decoding of
  a list and checks of single fields, which no server code reads. Its `Watch` is
  modelled.
- `AuthenStart.Validate`, `Header.Validate` and the CHAP data parsers: checks of
  single fields that no code but tests calls.
- What an accounting record contains, and its redaction; closing the accounter
  while the server drains.
- Which command-line flags set what, terminal input and output, constant tables
  and error values.
- Logging and all metrics but the active-session gauge: write-only.
- A write that blocks because the peer stopped reading.
- A client that waits, without a deadline, on a connection the server has
  stopped serving but not closed; `CallReturns` excludes this case.
