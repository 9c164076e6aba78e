# A TLA+ verification of curlu

curlu is a curl-like HTTP client in Go with three unusual parts: TLS
ClientHellos that imitate browsers (uTLS), a TCP connection it runs itself on a
raw socket so that the SYN matches a JA4T fingerprint, and several targets in
one run over one connection. This directory models all of it that decides
anything - the goroutines, the descriptors and the wrapper script with their
interleavings, the life of a run, and the algorithms one goroutine computes by
itself -, model-checks it with TLC, and proves with TLAPS, for instances of any size,
every safety property the runs check.

    tlc -workers 2 -config MCJA4TConnStream.cfg MCJA4TConn     # any run below
    tlapm JA4TConnProofs.tla                                   # any ...Proofs module

## Inventory

| Component | Code | State | Operations | Interacts with | Correct when |
| --- | --- | --- | --- | --- | --- |
| Crafted TCP connection | `tcpraw.go` | sequence numbers, read buffer, closed/FIN/error flags, a packet channel, a mutex and a condition variable | handshake, `pump`, `recvLoop`/`handleSegment`, `Read`, `Write`, `Close`, deadline timer | the raw socket below, the HTTP client above, four goroutines and timer callbacks | it is a byte stream for its reader, its segments are a byte stream for the server, nobody sleeps for ever, everything ends after `Close` |
| Raw packet socket | `tcpraw_linux.go` | descriptor, channel of packets, `done` | `readLoop`, `Read`, `Write`, `Close`; local address, port and gateway choice | the kernel, `pump` | no packet is invented, `Close` ends the reader |
| Run of all targets | `client.go` | current target, connection, reader, deadline | `execute`, `connect`, `readResponse`, error classification | the dialler, the server, stdout | responses come out whole, in order and once; the exit code is true; no connection is left; the run ends in time |
| HTTP/2 and HTTP/3 streams | `http2.go`, `http3.go` | one client connection | `run`, `stream`, life cycle | the HTTP libraries, stdout | as above, per stream |
| Dialling and resolution | `client.go`, `tcpraw.go` | address list, deadline | `lookupResolve`, `dialResolved`, `dialJA4TAddrs` | the network | the first address that works is used, within the time |
| QUIC set-up | `http3.go` | addresses left, time left | `connectQUIC`, `splitDeadline`, `dialQUIC` | quic-go | every address gets a share of the time |
| ClientHello | `utls.go` | extension list | append, replace, remove | uTLS | order rules hold (padding and PSK last) |
| Fingerprints | `ja4t.go` | window, option kinds, MSS, scale | parse, validate, lay out options | the handshake | options fit and match |
| URL globs and targets | `glob.go`, `client.go` | partial expansions | `expandGlob`, `expandRange`, `parseTargets` | options | the product in curl order, within the limit |
| Options | `options.go` | `Options` | `ParseArgs`, `checkTransportOptions` | everything | conflicts are refused |
| Request headers | `client.go`, `http2.go` | header list, suppressed defaults | parse, serialise | the transports | same request on every transport |
| Run and report, trace, versions, main | `run.go`, `verbose.go`, `versions.go`, `cmd/curlu/main.go` | - | print, exit | stderr | - |
| Wrapper script | `curl` | network namespace, devices, firewall rules | set up, run, clean up | the kernel | what was set up is removed |

What is hard here:

* *Interleaving.* Read, Write, Close, `recvLoop`, `pump` and a timer callback
  share one mutex and one condition variable; the timer callback takes no lock.
* *Delivery.* Segments are lost, repeated, reordered, cut anew; sequence numbers
  wrap; a reset or a FIN may overtake data.
* *Blocking.* Bounded channels between three goroutines, which must all end after
  a Close or a failed dial.
* *Failure in the middle.* A chunk of a Write fails; a reconnect fails behind a
  deferred Close; the server breaks off in a header block or a body.
* *Time.* `--connect-timeout` and `--max-time` race with answers.
* *Sequence.* Several responses pass through a chain of buffered readers: each header
  block is read again by a new one built on the last, and what any of them has
  buffered belongs to what follows.

`PROJECT.json` lists these as hazards, each at its line with the properties that
cover it.

## Plan

Done in this order: `Segments`, `JA4TConn`, `ByteStream`, `JA4TConnProofs`,
`Session`, `Dial`; then `RawSocket`, `Wrapper`, `Glob`, `RequestHeaders`,
`ClientHello`, `Fingerprint`, `Options`, `WrapperProofs`, `RawSocketProofs`,
`SessionProofs`, `DialProofs`, `Sequential`, `SequentialProofs` and
`CommandLineProofs`; last the grammar of `Glob`, which let `TargetsAsWritten` be
proved for every argument, with `SequentialLemmas`. What is left: that `RawSocket` is
the lossy source of packets `JA4TConn` reads from, of which `LossyInOrder` states the
essence. (That `Session` may take a dial for one step is theorem `OneStep` of
`DialProofs`.)

## Modules

| Module | What it is |
| --- | --- |
| `Segments` | sequence numbers, streams and segments: the data of the connection |
| `JA4TConn` | the crafted connection with its goroutines, its callers and the network |
| `MCJA4TConn` | its instances for TLC (the strays of a run) |
| `ByteStream` | the abstract specification: what the reader of a connection is promised |
| `JA4TConnProofs` | theorems about `JA4TConn`: what it receives, what it sends and how it closes |
| `Session` | one run of `execute` against a server, checked directly by TLC |
| `SessionProofs` | theorems about `Session` |
| `Dial` | how one connection is got: `--resolve`, the resolver, the loops over addresses, the time each gets |
| `MCDial` | its instance for TLC (addresses, families, lists) |
| `DialProofs` | theorems about `Dial` |
| `RawSocket` | descriptors, `readLoop` and `Close` for one connection after the other, checked directly by TLC |
| `RawSocketProofs` | theorems about `RawSocket` |
| `Wrapper` | runs of the `curl` script, command by command |
| `MCWrapper` | its instance for TLC (argument lists, symmetry) |
| `WrapperProofs` | theorems about `Wrapper` |
| `Arguments` | the options by name and the forms of an argument, shared by `Options` and its instance |
| `Options` | from the arguments to the exit code: `ParseArgs`, the combination rules, `Run`, `report` |
| `Glob` | from URL arguments to targets |
| `RequestHeaders` | from `-H` options to the request on each transport and its trace |
| `ClientHello` | the hello, what the `--utls` options change in it, and what the handshake becomes |
| `Fingerprint` | a JA4T fingerprint to the SYN and back |
| `Sequential` | the last five side by side, each on all its inputs |
| `MCSequential` | those inputs for TLC |
| `SequentialLemmas` | lemmas about sequences, `FlattenSeq` and the texts and products of `Glob` |
| `CommandLineProofs` | theorems about `Sequential`: arguments, URLs |
| `SequentialProofs` | theorems about `Sequential`: request, SYN, ClientHello, the typing of all |

`JA4TConn` extends `Segments` and instantiates `ByteStream` with
`received <- Len(delivered) + Len(readBuf)`; the other variables have the same
names. `Session` is written against a reliable byte stream, the promise
`ByteStream` states, and looks at it as a sequence of parsed units. `RawSocket`
and `JA4TConn` meet at `rawPacketIO`: what one promises of it (`LossyInOrder`) is
what the other assumes (`RawRead`). `Sequential` instantiates five modules that
share no state; where two have a variable of the same name (`args`, `opts`,
`exit`, `pc`), each part has it to itself, and `part` says whose turn a behaviour
is. It states the assumptions of the five on the values of their constants, which
TLC evaluates on those `MCSequential` gives them.

In the modules a definition may be preceded by one called `Mut...`. It is the
same definition with a plausible bug, used by no action; put in the place of the
one it precedes it makes TLC refute the property `PROJECT.json` names with it, so
each property is known to be able to fail.

### JA4TConn and the code

| State | Code |
| --- | --- |
| `hs` | progress of `handshakeJA4T`/`startJA4TConn`: before the SYN, in `waitSYNACK`, returned with or without a connection |
| `sndNxt rcvNxt peerMSS readBuf closed gotFIN err` | the fields of `ja4tConn` |
| `pkts`, `raw` | `rawPacketIO.pkts`; whether its channel or `done` is closed |
| `packets` | `ja4tConn.packets` |
| `pump recv stopped` | the goroutines, and the context `stop()` cancels |
| `read timer` | where `Read` is in its wait; the `time.AfterFunc` timer |
| `unsent` | what the loop of the `Write` in progress has left |
| `connectDue transferDue` | the deadlines of `--connect-timeout` and `--max-time` have passed |
| `delivered result written toServer acked` | history: what Read returned, what was sent |

One action is one critical section of `c.mu`, or one channel operation. The mutex
has no variable of its own: it is held between two steps only while `Read` is
"armed" (timer started, not yet on the wait list; `sync.Cond.Wait` adds the
caller to the list before it unlocks) and while `Write` is in its loop, and
`MuFree` says so. `SendSYN`, `SendSYNFails`, `DropBeforeSYNACK`, `ReceiveSYNACK`
and `GiveUp` are the handshake; `PumpPacket`, `PumpReset`, `PumpError` and
`PumpStop` one turn of `pump`; `HandleClosed`, `HandleOutOfOrder` and
`HandleInOrder` the three outcomes of `handleSegment`; `ReadBytes`, `ReadEnd`,
`ReadArm`, `ReadWait`, `ReadTimeout` and `TimerFire` are `Read`, `waitDeadline`
and the timer's callback; `WriteCall`, `WriteChunk`, `WriteFails` are `Write`;
`Close`, `CloseStop`, `CloseRaw` are the three stages of `Close`, which may be
called again at any point.

The network: `RawRead` may pick at any time any segment the server can have
sent, so segments are lost (never picked), repeated and reordered without a
bound, and a retransmission may cut the stream anew (`Spans` are all pieces of
it). `Strays` adds packets of other connections and of earlier ones.

Abstractions:

* A byte is its position in its stream. Checksums, windows, IP identification and
  timestamps decide nothing and are left out.
* A packet a goroutine holds while its next channel operation blocks is counted in
  the queue it came from.
* The two acknowledgments `handleSegment` sends for a segment with data and FIN are
  one step; the errors of these sends are ignored by the code, so they are
  recorded as sent. They, and the FIN, only overstate what the server has been told.
* The deadlines are flags that become true at any time; a timer fires after its
  deadline. `SetDeadline` is called by `connect` before anything is read and is
  part of `transferDue`.
* The sequence space is a constant, 2^32 in the code. The streams are assumed
  shorter than one cycle (`StreamAssumption`), since the code, like TCP without
  timestamps, cannot tell two segments one full cycle apart.

### Session and the code

`pc` is where `execute` is: connecting, sending, reading a header block ("head"),
copying a body ("body"), the same on a stream, returning (deferred calls still to
run), or done. `http3` and `include` are the options `--http3` and `-i`, chosen once. `conn`, `i`, `proto` are its variables, `framing` is
`response.Close` together with how the body ends, `exit` the code. `open` is the
set of connections not closed.

What has arrived and is not consumed is in three places: `wire` is the socket,
`reader` the buffer of the `bufio.Reader` that is read now, and `under` those of the
readers it was built on. A new connection comes with a new reader (`client.go:60`
and `73`). `Fill` is a read of an empty reader: it takes any number of units of what
is under it, or of the socket if nothing is. Every header block is read by
`readHeaderBlock` from the old reader and again by `http.ReadResponse` from a new one
over the block and the old reader (`client.go:389`), and the new one is read
from then on: `TakeBlock`. So a unit passes through as many readers as header blocks
came before it on its connection, and may wait in any of them. Each unit names the
target the server sent it for, and what is written to stdout keeps that name
(`Emit`), so a unit that is lost, read twice or taken for another target's response
shows.

The server (`srv`) answers the target it was asked for (`turn`) with interim
responses, final heads, pieces of body and an end, or breaks off: at the end of a
unit, inside one, with a reset, or "lost", in which case nothing more comes and a Read
or Write ends when the kernel or quic-go gives up. It may also send a response
nobody asked for, as a 408 when it is tired of waiting, and close.

* `Connect` and `ConnectFails(code)` take a dial with its TLS or QUIC handshake as
  one step. `ReadHead`, `ReadInterim`, `ReadBad`, `ReadNoHead` are
  `readNextResponse` by what it returns; `ReadData`, `ReadEnd` and `ReadCutBody` are
  `io.Copy` and what its error becomes. `TimesOut` is a Read that ends at the deadline.
* `isTimeout(err) || ctx.Err() != nil`, the test of every failure, has two halves.
  `Failed` is the second: with the deadline past every failure is 28. The first,
  an error that says itself that it is a timeout (ETIMEDOUT of the kernel, quic-go's
  idle timeout), is `LostConnection` and the alternatives with `Return(28)` of `SendFails`
  and `OpenStream`; it needs no deadline.
* `Deferred` is the deferred closure, which closes what `conn` is *then*.
* `OpenStream` is `roundTrip` up to the response; `RoundTripFails` the codes of
  `http2ReceiveError` and `http3ReceiveError`. The HTTP/2 and HTTP/3 libraries are
  external: a stream behaves like a response with its own end.
* Data in the socket may be read after the deadline or not. Over HTTP/1.1 what a
  reader has buffered needs no Read, so `TimesOut` wants the readers empty.
* A unit counts as buffered when its last byte is. A reader that holds the
  beginning of a unit whose rest is in the socket is that unit in the socket.
* The deferred `body.Close()` (`client.go:327`) may read a body to its end behind a
  failed write to stdout before the code, 23, is returned. It changes neither the code
  nor what is written, ends at the deadline like any Read, and is left out.

### Dial and the code

`method` tells which of the three loops runs: `dialResolved` ("tcp"),
`dialJA4TAddrs` ("ja4t") or `connectQUIC` ("quic"). They differ in which addresses
they pass over, in the time an attempt gets and in what ends the loop, and these
differences are the definitions `Usable`, `Limit` and `GoesOn`; the rest of the
loop is the same code three times. `rules` are the parsed `--resolve` options,
`addrs`, `next`, `lastErr` the loop's own variables, `sockets` the attempts whose
descriptor is open. `now` counts ticks since the dial began, `timeout` is the
sooner of `--connect-timeout` and `--max-time`, `began` when the loop started,
`limit` when the attempt under way ends. `tried` is history.

* `UseRules`, `UseDialler`, `UseResolver` and `ResolveFails` are `lookupResolve`,
  `dial`, `lookupIPv4` and `quicAddresses`. Without a rule for the host plain TCP
  gives the name to the system's dialler, which is external: one attempt that may
  also fail to resolve the name.
* `Start`, then `Connected`, `Refused` or `AttemptTimesOut`, are one turn of a loop;
  `AttemptFails` is its error branch with the `udp.Close` of `dialQUIC` or the
  clean-up of a failed TCP dial. `Skip` is the loop of `--ja4t` passing over an
  address that is not IPv4, `GiveUp` the code behind the loop.
* A peer's behaviour is chosen when its attempt starts. "refused" stands for every
  error that is neither a timeout nor an answer of a QUIC server, an address of
  the family that `-4` or `-6` excludes among them.
* An answer that arrives in the same tick as the end of its attempt may be taken
  or lost: `Connected`, `Refused` and `AttemptTimesOut` are enabled together.
* Time is divided in whole ticks, as the code divides whole nanoseconds.
* A timeout need not be the deadline's: the resolver (`ResolveFails`), the kernel and
  quic-go give up by themselves, with a deadline ahead or without one, and
  `connectFailure` makes 28 of it.
* Code between two attempts takes no time; an attempt that is late is one whose
  end the clock passed.
* The system dialler of Go tries several addresses of a name itself; that it does
  so is not modelled.

### RawSocket and the code

One action is one system call or channel operation. `pc` follows `startJA4TConn`
through `rewriteLoopback` (`OpenRoute`, `ReadRoute`, `CloseRoute`, or
`RouteFails`), `pickLocalIPv4` and `pickEphemeralPort` (`OpenTemporary`,
`CloseTemporary`), `openRawPacketIO` (`Socket`, then `Bind` or `BindFails`), the
life of the connection ("up") and `Close` (`CloseDone`, `CloseFd`); after a failure
or a Close comes the next attempt. `table` is the process's descriptor table: a
number that is free may be given out again. `loop[c]` is the goroutine of
connection `c`, which knows its socket only by the number `fd[c]`: what a read
finds is whatever the number stands for at that moment (`At`), and a read that
blocks keeps the socket it began on (`on`).

* Descriptors are opened by this process only in the steps above. Other goroutines
  could open some too; a stale reader would meet them in the same way.
* `given` is what the pump was given before the Close. Sending is left out: it
  does not depend on who reads.
* A file answers a read at once; a socket Go made is nonblocking and answers with
  an error, which ends the loop, as does a closed descriptor.

### Wrapper and the code

One action is one command of the script. `Setup` is the list of the commands
between the trap and `curlu`, each with what it needs and what it makes; that ip,
nft and sysctl behave so is the model's only assumption about them. A command
may also fail for any other reason. `have[p]` is what exists under the names made
of the process id `p`. `SetUp`, `SetUpFails` and `NoCurlu` are `set -e`;
`Signal` and `Remove` the trap: bash runs it after the command at hand, and, when
the trap does not exit, goes on with the next command. `Kill` is SIGKILL, after
which the process id may be given to a later run. `HasJA4T` and `URLs` are the loop
over the arguments as the script writes it, not as `ParseArgs` would.
The commands of `cleanup` (`Remove`) pass over their own failure (`|| true`). In the
model they fail only because the thing is not there; what ip or nft cannot
remove for another reason stays, whatever the script does, and `NoLeftovers` is
about what it can do.

### Options and the code

`line` is a command line with its units: the arguments that belong together and what
they mean (names with values, a URL, or an error). A unit is an option with or without
its value, in either spelling, a cluster of letters, a URL, `--` with what follows, or
something wrong; `WellSpelled` is this grammar, and looks at no other unit but to tell
whether one is the last. `Meaning` reads the units only, one after the other.
`Expand` is `expandCombinedFlags`; `pc` is "refused" when the run ends before, "failed"
when it ends behind the checks.
`TakeURL`, `TakeDashDash`, `TakeFlag`, `TakeValue` and `BadOption` are one turn of
the loop of `ParseArgs`, `j` being the letter of a cluster like `-ivk`; `Conflict`
and `NoURL` the rules behind the loop, `Impossible` `checkTransportOptions`.
`PrintAndExit`, `Execute` and `TransferEnds` are `Run`, `Report` is `report`.
Which texts an option accepts as its value (`Accepts`) is left to the instance:
the syntax of numbers, of hexadecimal ids and of `--resolve` is not spelled out.

### Glob and the code

A URL argument is its origin and the characters of the rest. `Escape`, `Literal`,
`Unmatched`, `BadRange`, `ExpandSet` and `ExpandRange` are the cases of the loop of
`expandGlob`, `Expanded` its end; `BadURL` and `ParseURL` are `parseURL` for every
expansion of an argument, `CheckTargets` the checks behind the loop of
`parseTargets`.

What an argument should mean is told without the loop, by a grammar. An argument
is a list of pieces, a piece being a text with the texts it stands for, in order:
a character for itself (`Plain`), one behind a backslash (`Escaped`), `{a,b,c}`
(`SetPiece`), a set with a backslash escape in it, whose items are as the documentation
has them (`EscapedSet`), `[N-M]` (`RangePiece`), or something wrong, which means nothing
(`Malformed`: a closer alone, an opener whose closer is nowhere behind it, brackets
around what is no range). `WellWritten` says that each piece is one of these with the
meaning it has; it looks at what stands behind a piece only where the piece depends on it.
The actions read the characters (`Text`) and never the pieces. `Meanings` goes through
no characters: it is the product of the meanings of an argument's pieces, number k of it
by the digits of k. The code and its documentation disagree about `EscapedSet`:
`TargetsAsWritten` is about the arguments without one (`Undisputed`), its bounds on the
number of URLs and the one origin about all, and `EscapesAreLiteral` is the violation
run `escapes`. A `{` whose only closer is behind a backslash is not in the
grammar.

`ParseError` is `parseURL` with what `url.Parse` refuses of these URLs: no scheme or host,
a port that is none, a percent sign in the path without two hexadecimal digits.

### RequestHeaders and the code

`ParseHeader` and `BadHeader` are `parseRequestHeaders`; `Serialize` builds the
lines of `serializeHTTP1` and the defaults of `buildMuxedRequest`, whose loop is
`TakeHost`, `Drop` and `AddField`; `Built` is `formatMuxedRequest`. One behaviour
makes both requests, so that they can be compared. `Wanted`, the reference, looks
only at what the user said of a name. `SameRequestOnStreams` compares the two but for
these: a suppressed Host (`README.md:86`), which a stream has back with its generated
value; a Host or User-Agent given more than once, of which a stream has one; and the
hop-by-hop names, which a stream may not carry. What the HTTP libraries make of the
values of Content-Length and Cookie on a stream is theirs and not modelled.

### ClientHello and the code

`exts` is the extension list and `alpn`, `versions`, `ciphers` the fields the
library judges the server's answer by. `NoExtensions` is `noExtensionsConn`,
`Build` `BuildHandshakeState`, then come `ApplyParrotALPN`, `AppendParrotVersions`,
`AppendParrotExtensions` and `Info`. `Refused`, `HandshakeFails` and
`HandshakeDone` are the outcomes, with `connect`'s Close. Of the library's presets
only their shapes matter: with or without ALPN, supported_versions, padding,
pre_shared_key. `ParrotKept` states `README.md:115` of every hello but those to which
an ALPN extension must be added; `PaddingStaysLast` states it of those too, and is the
violation run `padding`.

### Fingerprint and the code

`ParseJA4T` is `parseJA4T` with `validate`, `Craft` the header `serializeSegment`
makes of `tcpOptions`, byte by byte with the offset in its 4 bits. The listener
(`ReadOption`, `ReadDone`) is external: it reads kinds and lengths off the header.

## Runs

All constants of a run are in its `.cfg`, but for the lists of inputs, which are
in the MC modules. Every run finishes in about three minutes with two workers, most in less than one.

| Run | Shows |
| --- | --- |
| `stream` (`MCJA4TConnStream`) | `StreamIntegrity`, `AckedIsReadable`, `NoSleepOnReady`, `EndsAfterAcked` and the refinement of `ByteStream`, with repeated and reordered segments, resets, read errors, strays, a deadline and Close at any moment; liveness: over a network that does not lose a segment for ever, the reader gets the whole stream (`ResponseDelivered`) |
| `request` (`MCJA4TConnRequest`) | the type invariant, `RequestInOrder` and `ClosedIsNotAnError`, over every division of three bytes into Writes, MSS options 0 and 1, every fault and repeated Close; liveness: `CloseReleases` and, with a `--connect-timeout`, `HandshakeEnds` |
| `deadline` (`MCJA4TConnDeadline`) | a violation, see Findings |
| `output` (`SessionOutput`) | the type invariant, `OutputInOrder`, `ZeroMeansAll`, `CodeTellsWhy`, `ConnectionsClosed`, `NoRequestAfterClose` and liveness: `EndsInTime`, for three targets with and without `-i`, over HTTP/1.1, HTTP/2 or HTTP/3 |
| `dial` (`MCDialAll`) | the type invariant, `LookupMeansTheLast`, `TriesInOrder`, `SharesTime`, `CodeTellsWhy`, `SocketsClosed` and liveness: `DialEnds`, for all three methods |
| `rawsocket` (`RawSocketAll`) | the type invariant, `NoDescriptorLeft`, `LossyInOrder` and liveness: `LoopsEnd`, for two connections one after the other on two descriptor numbers, with every step failing |
| `wrapper` (`MCWrapperAll`) | the type invariant, `NoLeftovers`, `RunsInOwnNamespace` and the action property `NoInterference`, for two runs at once or in sequence, with failures, signals and a SIGKILL |
| `sequential` (`MCSequential`) | the type invariants of five modules, `ArgumentsAreUnderstood` and `TransferIsPossible` (Options), `TargetsAsWritten` (Glob), `RequestAsAsked` (RequestHeaders), `HelloAsAsked` (ClientHello), `FittingFingerprintIsSeen` (Fingerprint), each over all its inputs |
| `protocol`, `panic` (`SessionProtocol`, `SessionPanic`) | violations, see Findings |
| `escapes`, `padding` (`MCSequentialEscapes`, `MCSequentialPadding`) | violations, see Findings |

Why the bounds are enough:

* `RespLen = 2` gives every relation between two segments: equal, overlapping, out
  of order, one behind the other, with and without FIN. `SeqSpace` is 6 or 8 with
  initial numbers at its end, so that both directions wrap inside the handshake or
  the data. The proofs remove these bounds.
* `RawCap` and `PacketsCap` are 1, so that every queue is full often; the code's 16
  and 32 only make that rarer. The proofs hold for all capacities.
* `ReqLen = 3` with an MSS of 1, or of 2 (`DefaultMSS`, behind an MSS option of 0),
  gives Writes of one chunk, of several and of an incomplete last chunk. The run
  has no response (`RespLen = 0`): the server sends its SYN-ACK, its FIN and resets,
  which fill the queues of one place as data would.
* In `Session` three targets give a first, a middle and a last one, so a
  connection is kept and replaced in every order, and up to six header blocks, so six
  readers built on each other, come over one connection. `MaxInterim = 1` and `MaxBody = 1` give a response with and
  without a 1xx, with and without a body. Each `Fill` takes from the socket or from the
  readers below in every possible cut, so a reader may hold the rest of a body, the
  next response, a part of it, or nothing when it is built upon. The proofs remove
  the bounds.
* In `Dial` the list of three addresses has a first that `--ja4t` must pass over and
  one of either family behind it; two `--resolve` options give every relation
  between two (replaced, removed, host against wildcard, for another pair). Of the
  deadlines, 7 leaves every address a share and 2 rounds the first shares down to
  nothing. A resolver that takes up to three ticks uses up the shorter deadline.
* In `RawSocket` two attempts on two numbers make every reuse happen: a stale
  reader can meet the next attempt's route file, sockets and raw socket. Two
  packets (`MaxPackets`) tell an order; `PktsCap = 1` makes the channel full often.
* In `Wrapper` the process ids 1, 2 and 5 with 4 subnets give two that share a
  subnet and one that does not. Two starts (`MaxStarts`) may overlap or follow each
  other, also with the process id of the first; two signals (`MaxSignals`) reach a
  run before and during a cleanup; one SIGKILL (`MaxKills`) leaves things for the
  next. The slots are symmetric: nothing but their variables tells them apart, and
  no liveness is checked there. The proofs remove these bounds.
* `MaxGlobURLs` is 6 where the code has 1000, and `MaxUint` 99: three pieces of up to
  seven items reach, meet and exceed the limit at every place that checks it.
  `Parts` has every kind of pattern, well and badly formed, next to every other.
* Three `-H` options (`MaxHeaders`) give a repeated, a suppressed and a foreign one
  in every order and spelling. Three units and a URL or two on a command line give
  every pair of options in both orders. Five option kinds (`MaxKinds`) give lists
  that fit the header, fill it to the last byte and exceed it; the windows 0, 65535 and
  65536 and the MSS values 0, 255, 256, 1460 and 65536 are at the limits of their fields
  and of their bytes.

Deadlock checking is off (`CHECK_DEADLOCK FALSE`) because the systems stop
legitimately: a closed connection, a finished run, dial or computation have no next
step. That they
reach the right end is what the liveness properties say.

### Fairness

`JA4TConn!Scheduling` is weak fairness of each goroutine and of the timer. Go's
scheduler runs every runnable goroutine eventually; each of these groups stays
enabled until it is served, because the mutex is
released by steps that are themselves fair. `FairSpec` adds that deadlines
arrive (`request`, `deadline`). `GiveUp` and `PumpStop` are apart
from the other steps of their goroutine because a `select` with two ready cases
chooses at random and passes neither over for ever. A caller goes on reading
after it was given something, as `io.Copy` does. Nothing is assumed of the
caller of Write and Close, of the network or of faults. Only `DeliverySpec`, for
`stream`, adds strong fairness of the arrival of each segment of the server: TCP
servers retransmit, and the network does not lose one segment for ever. The safety
properties of that run do not depend on it. In `Session` the client's steps and the
deadline are fair, the server never. That a Read ends at its deadline (`TimesOut`) is
what `net.Conn` promises and the run `deadline` refutes for `--ja4t`; `EndsInTime` is to be
read with that exception. In `Dial` the program's
steps are fair, and so is time while something is waited for; `DialEnds` is claimed
only with a deadline or over QUIC, which has a handshake limit of its own, because a
crafted SYN to a silent address has no other end. In `RawSocket` each readLoop
goes on when it can (weak fairness), and a `select` between a full channel and a
closed `done` does not pass the latter over for ever (strong fairness of
`GiveUp`). `LoopsEnd` excepts a loop blocked in a read: nothing in the code wakes
it but another packet, and whether one comes is not the program's to say.

### Findings

* `deadline`: `waitDeadline` (`tcpraw.go:478`) starts a timer that broadcasts
  without the mutex. If it fires before `cond.Wait` has joined the list, the Read
  it was to wake sleeps on; with a silent server nothing else wakes it, although
  `README.md:37` says that `--max-time` limits the complete transfer time. The
  window is short, and opens in practice when little time is left at the start of
  a Read. Everything else that wakes a Read holds the mutex; `NoLostWakeup`
  proves that none of it is missed.
* `panic`: a reconnect that fails (`client.go:69`) overwrites `conn` with nil, and
  the closure deferred at `client.go:53` calls `Close` on it. `README.md:199`
  promises an error with its exit code.
* `protocol`: the protocol negotiated on a replacing connection is dropped
  (`client.go:69`), so HTTP/1.1 is spoken to a server that selected h2, although
  `README.md:103` promises HTTP/2 then. It takes a server (or a set of servers
  behind one address) that answers ALPN differently the second time.
* `escapes`: `expandGlob` cuts a set at its first `}` and at every comma
  (`glob.go:46`, `53`), so `{a\,b}` becomes the items `a\` and `b`, and the backslash is
  sent. Its comment (`glob.go:14`) and `README.md:63` say that a backslash makes the next
  of `{ } [ ] ,` literal.
* `padding`: `--utls-alpn-hex` on a parrot without ALPN appends the extension
  (`utls.go:252`) behind padding and pre_shared_key, which `README.md:115` and `utls.go:276`
  say stay last. `HelloRandomizedNoALPN`, which may come with padding, is such a
  parrot.

Other divergences were met while translating the code. They have no run of their
own; the properties state the exception, or follow the code:

* `tcpraw_linux.go:116`: a readLoop that goes on after `Close` may read the
  `/proc/net/route` that the next dial has opened under the same number;
  `rewriteLoopback` then finds it empty and dials the loopback address as it is
  (`RawSocket`: `route = "stolen"`).
* `http2.go:123`: `-H 'Host:'` suppresses Host over HTTP/1.1 (`README.md:86`), and on a
  stream gives back its generated value (an exception of `SameRequestOnStreams`).
* `utls.go:129`: with `--utls-hello HelloGolang` the options for extensions and versions
  are accepted and have no effect (`ParrotKept` is about parrots).
* `ja4t.go:136`: options of more than 40 bytes are accepted although no header holds
  them; the offset wraps (`FittingFingerprintIsSeen` is about those that fit).
* `options.go:360`: every argument that begins with `-` and has a space is split at it,
  also `--header='Name: value'` in one argument.
* `curl:11`: the script looks for `--ja4t` and `--ja4t=`, not for `--ja4t <fp>` in one
  argument as `options_test.go:333` has it, and then runs curlu without a namespace
  (`Tokens`).
* `README.md:172` still says "One GET" and "no URL globbing"; `README.md:61` and the code
  have several targets and globs.

## Proofs

`JA4TConnProofs` proves, for all values of the constants that meet the
assumptions (`SeqSpaceAssumption`, `NoMSSAssumption`, `StreamAssumption`,
`MSSAssumption`, `QueueAssumption`, `OptionsAssumption`, `StraysAssumption`):

| Theorem | States |
| --- | --- |
| `Typing` | `Spec => []TypeOK` |
| `StreamIsIntact` | `Spec => []StreamIntegrity` |
| `AcknowledgedIsReadable` | `Spec => []AckedIsReadable` |
| `AcknowledgedIsDelivered` | `Spec => EndsAfterAcked` |
| `NoLostWakeup` | `Spec => []NoSleepOnReady` |
| `Refinement` | `Spec => ImplementsByteStream` |
| `RequestIsIntact` | `Spec => []RequestInOrder` |
| `ErrorsAreTheSockets` | `Spec => ClosedIsNotAnError` |

`StreamIntegrity` is not inductive: it does not say why a segment that starts at
`rcvNxt` continues what was received. `SeqInv` does: once the connection is up,
`rcvNxt` is the initial number plus one plus what was taken, FIN included. Since the
stream is shorter than the sequence space, offsets are determined by their
numbers (`PlusInjective`), so a segment accepted at `rcvNxt` starts exactly at
`Received`, and no segment can be accepted behind the FIN, where nothing of the
stream is left but an empty piece. `DialInv` says that nothing is received or
closed before that, and `SYNACKIsTheServers` that the answer waited for is the
server's, which needs the assumption that no stray answers this SYN. The
inductive invariant `StreamInv` is the conjunction of these with
`StreamIntegrity` and `AckedIsReadable`; `StreamStep` shows it step by step, with
most steps falling under `StreamFrame`.

`NoSleepOnReady` needs `SleepInv`, which extends it to the moment between the
check of the condition and joining the wait list, during which the mutex is held.

`Refinement` and `EndsAfterAcked` follow from `StreamInv` step by step.

`StraysAssumption` is the one assumption about the environment: a stray packet
either belongs to another connection or is an empty leftover that does not
acknowledge this SYN. A host that forges segments is outside the model.

`RequestInOrder` speaks of the segments sent, and its invariant of the next one too:
`Placed` puts every byte written into one segment, at its own number; `OneFin` puts the FIN
behind the last byte and behind a Close; and `Sending` says that `sndNxt` is the number
behind the last byte until a Close, and that no Write outlasts one, so that what is sent
next is in its place. For `ClosedIsNotAnError`, `StopsFirst` says that the client closes
the socket only after `stop()`, or in a dial whose pump has never run; pump looks
at `stopped` before it takes an error of the socket for one.

`WrapperProofs` proves, for any set of slots, process ids that are natural numbers,
argument lists, number of subnets, signals, starts and kills (`WrapperAssumption`):

| Theorem | States |
| --- | --- |
| `Typing` | `Spec => []TypeOK` |
| `NothingIsLeft` | `Spec => []NoLeftovers` |
| `Separate` | `Spec => NoInterference` |
| `OwnNamespace` | `Spec => []RunsInOwnNamespace`, for at most 16384 subnets |

Neither `NoLeftovers` nor `RunsInCompleteNamespace` is inductive. That nothing is left
when a run leaves needs `Removing`: what the first steps of a cleanup have removed is
not there before its last step, and only a cleanup begun afresh, by a signal, puts a
run back to the first one. That curlu runs in a complete namespace although a signal
lets the set-up go on behind a cleanup needs `Complete`: a set-up whose namespace
exists has made everything up to its next command, because a cleanup removes the
namespace first and only the first command makes it (`SetupCommands`), so that
the step to curlu, which needs the namespace, finds everything (`MadeAll`). Both
need `Apart`: no two live runs have a process id in common, which is what the
names rest on and all that is assumed of the kernel. `IInv` is the conjunction, with
`Types`, where `todo` is a tail of `Cleanup` instead of any list. `OthersKeep` says
that a step of one run leaves what these parts say of every other as it is, so that each
proof looks at the run that takes the step only. `OwnNamespace` adds the arithmetic
of the addresses (`OctetsOf`, `OctetsApart`); with more subnets than 10.255.0.0/16
has, the third octet would not be one. The list of commands, their needs and the
effect of deleting are the same constants as in the run: what ip, nft and sysctl do is
external, and taken as `Command` and `Deleted` state it.

`RawSocketProofs` proves, for any number of attempts, descriptors, packets and any
capacity of the channel (`RawSocketAssumption`):

| Theorem | States |
| --- | --- |
| `Typing` | `Spec => []TypeOK` |
| `NothingStaysOpen` | `Spec => []NoDescriptorLeft` |
| `NothingIsMixed` | `Spec => []LossyInOrder` |

`LossyInOrder` is about what a connection has been given, and its invariant about the whole
way there: `Order` says that, until Close, the packets given, those in the channel, the one
in the hand of `readLoop` and those in the socket's buffer are in the order of their
arrival. A read of a closed socket takes packets out of other sockets' buffers,
which keeps what is left ordered (`TailElems`); that it never puts one into another
connection's channel is `Loops` - a loop whose connection is not closed reads the
connection's own socket -, which needs `OneOpen`: at most one descriptor is
open, of the kind that goes with where `startJA4TConn` has got to (`Holds`), and behind
Close no number is trusted any more. `OneOpen` is also what `NoDescriptorLeft` rests on.

`SessionProofs` proves, for any number of targets, any options and any bounds on the
1xx responses and the pieces of a body (`SessionAssumption`):

| Theorem | States |
| --- | --- |
| `Typing` | `Spec => []TypeOK` |
| `InTheOrderOfTheTargets` | `Spec => []OutputInOrder` |
| `ZeroStandsForAll` | `Spec => []ZeroMeansAll` |
| `TheCodeTells` | `Spec => []CodeTellsWhy` |
| `OneConnection` | `Spec => []ConnectionsClosed` |
| `NotBehindTheLast` | `Spec => []NoRequestAfterClose` |

Each of them compares what the client has done with what the server has, and none is
inductive because between the two lie the socket and the chain of readers. `IInv` closes
the gap, with `Unread`, the units of `reader`, `under` and `wire` one behind the other:
that is the order in which the client will read them, because a reader that is empty
reads from the one it was built on (`Fill` moves a cut of one list to the end
of another, `TakeBlock` puts the rest of a buffer in front of those below; neither
changes `Unread` but for the unit taken).

* `Wire` says that `Unread` is in the order of a response (`Sorted`), each unit of the
  target its place says (`Places`), with nothing behind what ends the connection; that
  the server is where the last unit says (`AtServer`); and, by where the client is, what
  can be unread (`Responses`): a client in a body has the rest of that body in front
  of it, one that waits for a head has nothing of an earlier target.
* `Progress` counts, for every target: pieces written and pieces unread are the pieces
  served.
* `Turn` relates the target the server is at to the client's, an answer that was not
  asked for included, and `InOrder` is the order of stdout.
* `Connection` keeps `conn` open while it is used.

So the end of a body can only be read with no data of it unread, and the target is whole;
and a connection that breaks off is alone in the readers with the server gone or lost,
which is what the codes 18, 52 and 28 say. A reader that lost what it had
buffered would break `Progress` at `TakeBlock` or at `ReadEnd`; `MutTakeBlock` is that bug, and
TLC refutes `OutputInOrder` with it. Reading on from the old reader (`client.go:84`,
`372`) or keeping it for a new connection (`73`) would make the client wait for what it
already has, or read what is another connection's end: `CodeTellsWhy` then
fails. Leaving out `reader = next` behind a 1xx (`345`) would do no harm, since
`http.ReadResponse` takes nothing but the replayed block out of the new reader.

`DialProofs` proves, for any addresses, lists, numbers of `--resolve` options, timeouts,
latencies and limits (`DialAssumption`):

| Theorem | States |
| --- | --- |
| `Typing` | `Spec => []TypeOK` |
| `ResolveMeansTheLast` | `Spec => []LookupMeansTheLast` |
| `InTheOrderOfTheList` | `Spec => []TriesInOrder` |
| `TimeIsShared` | `Spec => []SharesTime` |
| `TheCodeTells` | `Spec => []CodeTellsWhy` |
| `NoSocketIsLeft` | `Spec => []SocketsClosed` |
| `OneStep` | a dial ends with a connection or with one of the codes of its method |

`Mapped` is a fold, so a recursive function: `LastOf` is what it computes, stated without
recursion; it solves the recursion (`LastOfIsRecursive`), so that there is a solution, and
every solution agrees with it on the first n options, since there is no least n for which
it does not (`MappedIsLastOf`, by `LeastElement`). This bounds the addresses to those of
`Lists`, which typing needs, and is `LookupMeansTheLast`.

`SharesTime` is about the past and not inductive: `Shares` adds that at every address the
time left is at least `AddrsLeft` equal shares, and that the share of the attempt under
way is at most its part of it. What is left behind that attempt is again enough for the
addresses that follow, although each division rounds down (`Division`,
`DivisionIsGreatest`), and time is left as long as an address is. `Clock` keeps the time within
the limit of the attempt. `TriesInOrder` is inductive once it says which address
was the last passed (`Passed`, `Order`). `CodeTellsWhy` needs `Errors`: the loop goes
on only behind errors of the address, so that the last error at its end is one, and what
the code is made of is `lastErr`, the resolver's included.

`CommandLineProofs` and `SequentialProofs` prove, for any values of the constants of
`Sequential` that meet the assumptions of its five parts:

| Module | Theorem | States |
| --- | --- | --- |
| `CommandLineProofs` | `ArgumentsUnderstood` | `Spec => []ArgumentsAreUnderstood` |
| `CommandLineProofs` | `OnlyPossibleTransfers` | `Spec => []TransferIsPossible` |
| `CommandLineProofs` | `TargetsAreBounded` | of `TargetsAsWritten`, `NeverTooMany` and `OneOrigin` |
| `CommandLineProofs` | `TargetsAreAsWritten` | `Spec => []TargetsAsWritten` |
| `SequentialProofs` | `RequestIsAsAsked` | `Spec => []RequestAsAsked` |
| `SequentialProofs` | `FingerprintIsSeen` | `Spec => []FittingFingerprintIsSeen` |
| `SequentialProofs` | `HelloIsAsAsked` | `Spec => []HelloAsAsked` |
| `SequentialProofs` | `Typing` | `Spec => []TypeOK` |

They rest on `SequentialLemmas`. `FlattenSeq` is recursive: `Upwards` counts up to any
length, since there is no least one that fails (`LeastElement`), and so determines what
it computes. From there `FlattenAppend`, `FlattenJoin` and `FlattenAt` (where an item of
a part is in the whole) are all the proofs use, with `FlatMap`, the sequence in which
every item stands for some of its own, and `EndToEnd`, where parts begin in the whole.
The product `Count` of a meaning's lengths is a recursive function too and is determined
the same way (`CountStep`).
Each part has an invariant of its own, and the steps of the others leave it alone:

* *Arguments* (`ParserInv`). `Understood` says where the parser stands: between two
  units, at a letter of a cluster, at a unit that is wrong, or behind `--` (`Position`),
  and its options are the meaning of what is in front (`Told`). So a turn of
  the loop takes a letter or a unit as it is meant (`EveryTurn`), a unit that is wrong
  is not passed (`StuckTurn`), and at the end the options are the meaning of the whole
  (`ReadAll`). `Judged` carries the verdict of the rules in `ParseArgs` over to the
  moment where `checkTransportOptions` adds its own.
* *Request* (`RequestInv`). `Reading` says that of every name the headers parsed are
  what the first options say of it, `Built` the same of the fields and of the lines. Picking the
  values of a name from a list is a `FlatMap`, so it goes through when lists are
  joined; that gives what the user said (`SeenIs`) and what the trace shows
  (`ShownIs`).
* *URLs* (`URLsInv` and `ExpansionsInv`). There is always an expansion and `Room` for
  it, the length of a product being the product of the lengths (`MultiplyLength`), and
  every URL is of the origin of an argument. `Scanned` says where `expandGlob` stands:
  behind some number of pieces, with what is behind them left, and with the product of what
  they mean (`Upto`) as the expansions, once the literals are put behind them. A turn of
  the loop reads the piece in front as what it means (`PieceReads`; `IndexAt` finds the
  closer, `CutJoined` the commas), and makes of the product that of one piece more:
  both continue every text so far with every item (`Extends`), the one by
  `Multiply`, the other because one piece more is one digit more in the mixed radix
  (`UptoExtends`, `ProductStep`), and only one list does (`ExtendsOnce`). A piece that is
  wrong is not passed. `ParsedUpto` says that the targets are the meanings of the arguments
  in front. For `LimitExact`, a product only grows with the pieces that follow
  (`CountGrows`), so what exceeds the limit at a piece exceeds it at the end
  (`TooManyIsTooMany`). All this is of arguments whose sets have no escapes
  (`Undisputed`); `Room` and the origin are kept for every argument.
* *SYN* (`SYNInv`). The listener has read the first options and stands where the next
  begins (`Listened`), each option being told from its bytes (`OptionOf`).
* *ClientHello* (`HelloInv`). The fields that the library judges the server by are
  those in the extensions, of which one at most is ALPN; `KeptBy` says what is kept of
  the parrot, and holds of a list into which the added ones have been put in one place
  (`Inserts`). `OrderInv` follows padding and pre_shared_key through the changes: leaving a
  kind out (`WithoutStays`), replacing the first of one (`ReplacedStays`) and inserting in
  front of what must stay last (`InsertedStays`) keep them last; appending ALPN would
  not, and is excepted.

The assumptions are what the inputs are: arguments are lists of characters or of
records with the fields of their kind, and a command line is a list of units. Every
command line is one: a wrong unit may be followed by anything, and what follows an
option that wants a value is its value. The rest of a URL is any list of pieces of the
grammar of `Glob`, of which every text is one.

Only model-checked: all liveness (`CloseReleases`, `HandshakeEnds`,
`ResponseDelivered`, `EndsInTime`, `DialEnds`, `LoopsEnd`), which TLAPS cannot do under
fairness.

## Not modelled

* The TLS, HTTP/2, HTTP/3, QUIC and packet libraries, the system's resolver and
  dialler, ip, nft and sysctl: external, taken by what curlu uses of them.
* Trace output but for which header lines it shows, the version table, usage text,
  the table of hello names, the stub for other systems and the build script: no
  decision depends on them.
* The wrapper's choice of a `--resolve` to inject and its text (`curl:94-130`): it
  ends the script or does not (`NoCurlu`), and changes nothing the script must remove.
* What `url.Parse` refuses beyond the cases of `ParseError`: control characters,
  fragments, user names.
* The texts of values: `parseSeconds` (with the rounding of a timeout near 2^63
  nanoseconds), `parseHexID` and `parseALPNHex` are a choice of what is accepted.
* A stdout that blocks for ever: the code sets no deadline there.
* Another program that takes the port `pickEphemeralPort` has closed again, and what
  the kernel does with its own reset of the crafted connection, which the
  wrapper's firewall rule drops.
* What two runs of the wrapper whose process ids agree modulo 16384 do to each other's
  packets: that they share a subnet is the stated exception of `OwnSubnet`.
