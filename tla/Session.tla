------------------------------ MODULE Session ------------------------------
(***************************************************************************)
(* One run of execute (internal/curlu/client.go): the GETs of all targets, *)
(* in order, over HTTP/1.1 connections that are kept alive or replaced     *)
(* (execute, connect, readResponse), or as streams of one HTTP/2 or HTTP/3 *)
(* connection (muxedRequests in http2.go, executeHTTP3 in http3.go),       *)
(* against a server that answers, breaks off or stays silent.              *)
(*                                                                         *)
(* A connection is the byte stream of module ByteStream, parsed into units:*)
(* a header block of some kind, a piece of a body, the end of a body, or   *)
(* the end or failure of the connection.  What has arrived of it is in     *)
(* three places: in the buffer of the bufio.Reader that the client reads   *)
(* now, in those of the readers this one was built on, which it reads from *)
(* in its turn, and in the socket.  A unit counts as buffered when its     *)
(* last byte is; whether the deadline still lets the socket be read is     *)
(* left open.                                                              *)
(***************************************************************************)
EXTENDS Integers, Sequences, FiniteSets

CONSTANTS N,            \* targets
          HTTP3,        \* whether --http3 may be given: a subset of BOOLEAN
          PriorKnowledge,  \* --http2-prior-knowledge and an http URL
          Protocols,    \* what ALPN may negotiate, of {"", "http/1.1", "h2"}
          Include,      \* whether -i may be given
          MaxTime,      \* is --max-time given?
          StdoutFails,  \* may a write to stdout fail?
          MaxInterim,   \* bound: 1xx responses before a final one
          MaxBody       \* bound: pieces of a body

ASSUME SessionAssumption ==
  /\ N \in Nat \ {0} /\ MaxInterim \in Nat /\ MaxBody \in Nat
  /\ Protocols \subseteq {"", "http/1.1", "h2"}
  /\ {PriorKnowledge, MaxTime, StdoutFails} \subseteq BOOLEAN
  /\ HTTP3 \subseteq BOOLEAN /\ Include \subseteq BOOLEAN

\* Final header blocks: of a response with its own end on a connection that
\* stays or is to be closed, or of one that ends with the connection.
Heads == {"keep", "close", "until-eof"}

\* What ends everything on a connection, and all that can be on one.  Each unit
\* is of a target, the one the server was at: nothing the client looks at.
Final == {"eof", "cut", "reset", "lost", "bad", "upgrade"}
Units == Heads \cup {"interim", "data", "end"} \cup Final

VARIABLES
  http3,    \* opts.HTTP3
  include,  \* opts.Include
  pc,       \* where execute is
  i,        \* the target being requested
  conn,     \* execute's variable conn: a connection, or 0 for nil
  proto,    \* the protocol negotiated on it
  opened,   \* connections opened so far: 1 .. opened
  open,     \* those not closed
  framing,  \* what the last header block said of the connection (Heads)
  exit,     \* the exit code, or Running
  stdout,   \* what was written, as <<target, part>>: the target whose response
            \* the part is of, whichever one the client is at
  due,      \* the --max-time deadline has passed
  reader,   \* what the current bufio.Reader has buffered
  under,    \* what the readers below it have, in the order it would be read
  wire,     \* what has arrived in the socket of conn
  srv,      \* the server on conn: "idle", "asked", in a body (Heads), "closing"
            \* behind its last response, "gone", or "lost" without a word
  turn,     \* the target it was asked for last, or answers unasked
  interim,  \* 1xx responses it has sent for this request
  served,   \* pieces of body it has sent, by target
  finished  \* targets it has answered completely

Running == -1
Panic == -2   \* the program panics (its status is 2 then, as of a bad option)

client == <<pc, i, conn, proto, opened, open, framing, exit>>
readers == <<reader, under>>
server == <<srv, turn, interim, served, finished>>
options == <<http3, include>>
vars == <<options, client, stdout, due, readers, wire, server>>

Init ==
  /\ http3 \in HTTP3 /\ include \in Include
  /\ pc = "connect" /\ i = 1 /\ conn = 0 /\ proto = "" /\ opened = 0 /\ open = {}
  /\ framing = "keep" /\ exit = Running /\ stdout = << >> /\ due = FALSE
  /\ reader = << >> /\ under = << >> /\ wire = << >>
  /\ srv = "idle" /\ turn = 0 /\ interim = 0
  /\ served = [t \in 1 .. N |-> 0] /\ finished = {}

-----------------------------------------------------------------------------
(* Leaving execute.  The Mut... definitions here and below are plausible     *)
(* bugs, one per property: no action uses them, and with one in the place of *)
(* the definition it precedes TLC refutes the property.                      *)

\* The return statements, once the deferred Close is registered.
Return(code) ==
  /\ exit' = code /\ pc' = "return"
  /\ UNCHANGED <<i, conn, proto, opened, open, framing>>

\* receiveError and its like: once the deadline has passed every failure is a
\* timeout.  The other half of their test, isTimeout(err), is LostConnection and
\* the like.
MutFailed(code) == Return(28)
Failed(code) == Return(IF due THEN 28 ELSE code)

\* defer func() { conn.Close() }(): on whatever conn is by then.
Deferred ==
  /\ pc = "return"
  /\ pc' = "done"
  /\ IF conn = 0 THEN exit' = Panic /\ UNCHANGED open
                 ELSE open' = open \ {conn} /\ UNCHANGED exit
  /\ UNCHANGED <<i, conn, proto, opened, framing, stdout, due, options, readers, wire, server>>

\* writeAll and trackingWriter of the unit being read, and what a failed write
\* ends with.
Emit(part) == stdout' = Append(stdout, <<Head(reader).of, part>>)
CannotEmit == StdoutFails /\ UNCHANGED stdout /\ Return(23)

-----------------------------------------------------------------------------
(* connect and connectQUIC *)

Multiplexed(p) == http3 \/ PriorKnowledge \/ p = "h2"

\* The first connection decides between HTTP/1.1 and streams; one that
\* replaces it, for a later target, goes on with HTTP/1.1.  QUIC leaves no
\* choice of protocol.  Each connection has a reader of its own.
Connect(p) ==
  /\ pc = "connect" /\ ~due
  /\ http3 => p = ""
  /\ opened' = opened + 1 /\ conn' = opened + 1 /\ open' = open \cup {opened + 1}
  /\ proto' = p
  /\ pc' = IF i = 1 /\ Multiplexed(p) THEN "stream" ELSE "send"
  /\ reader' = << >> /\ under' = << >> /\ wire' = << >>
  /\ srv' = "idle" /\ turn' = i - 1 /\ interim' = 0
  /\ UNCHANGED <<i, framing, exit, stdout, due, options, served, finished>>

\* The codes of connectFailure, handshakeUTLS, SetDeadline and
\* quicConnectFailure.
ConnectCodes == IF http3 THEN {6, 7, 28, 35, 60, 96}
                         ELSE {1, 2, 6, 7, 28, 35, 55, 60}

\* Nothing is deferred before the first connection; a reconnect has set conn
\* to nil.
ConnectFails(code) ==
  /\ pc = "connect"
  /\ exit' = code /\ conn' = 0
  /\ pc' = IF i = 1 THEN "done" ELSE "return"
  /\ UNCHANGED <<i, proto, opened, open, framing, stdout, due, options, readers, wire, server>>

ConnectTimesOut == due /\ ConnectFails(28)

-----------------------------------------------------------------------------
(* HTTP/1.1 *)

\* No more comes from the server, whether that was heard of or not.
Broken == srv \in {"gone", "lost"}

\* A server that waits is asked; one that has given up, or has answered already,
\* is not impressed.
Asks == IF srv = "idle" THEN srv' = "asked" /\ turn' = i ELSE UNCHANGED <<srv, turn>>

SendRequest ==
  /\ pc = "send" /\ ~due
  /\ pc' = "head"
  /\ Asks
  /\ UNCHANGED <<i, conn, proto, opened, open, framing, exit, stdout, due, options, readers,
                 wire, interim, served, finished>>

\* The kernel fails a write with ETIMEDOUT too, which is a timeout to isTimeout.
SendFails ==
  /\ pc = "send"
  /\ \/ (due \/ Broken) /\ Failed(55)
     \/ srv = "lost" /\ Return(28)
  /\ UNCHANGED <<stdout, due, options, readers, wire, server>>

\* Where the client waits in a Read, or for a frame of its stream.
MutWaits == pc \in {"body", "stream-body"}
Waits == pc \in {"head", "body", "stream-head", "stream-body"}

\* A reader that has nothing buffered reads once from what it is built on: from
\* the readers below as long as they have something, else from the socket.
Fill ==
  /\ Waits /\ reader = << >>
  /\ \/ \E k \in 1 .. Len(under) :
          /\ reader' = SubSeq(under, 1, k) /\ under' = SubSeq(under, k + 1, Len(under))
          /\ UNCHANGED wire
     \/ /\ under = << >>
        /\ \E k \in 1 .. Len(wire) :
             reader' = SubSeq(wire, 1, k) /\ wire' = SubSeq(wire, k + 1, Len(wire))
        /\ UNCHANGED under
  /\ UNCHANGED <<client, stdout, due, options, server>>

\* The next unit is u.
Coming(u) == reader # << >> /\ Head(reader).unit = u
Take(u) == Coming(u) /\ reader' = Tail(reader) /\ UNCHANGED <<under, wire>>

\* A header block of HTTP/1.1 is read twice: by readHeaderBlock, and once more
\* by http.ReadResponse from a new reader over the block and the reader it came
\* from, and this reader is read from then on.
MutTakeBlock(u) == Coming(u) /\ reader' = << >> /\ under' = << >> /\ UNCHANGED wire
TakeBlock(u) ==
  Coming(u) /\ reader' = << >> /\ under' = Tail(reader) \o under /\ UNCHANGED wire

\* A 1xx response is passed over, and copied with -i.
ReadInterim ==
  /\ pc = "head" /\ TakeBlock("interim")
  /\ \/ include /\ Emit("interim") /\ UNCHANGED client
     \/ include /\ CannotEmit
     \/ ~include /\ UNCHANGED <<client, stdout>>
  /\ UNCHANGED <<due, options, server>>

\* A final header block starts the body.
ReadHead(f) ==
  /\ \/ pc = "head" /\ TakeBlock(f)
     \/ pc = "stream-head" /\ Take(f)
  /\ \/ /\ IF include THEN Emit("head") ELSE UNCHANGED stdout
        /\ framing' = f
        /\ pc' = IF pc = "head" THEN "body" ELSE "stream-body"
        /\ UNCHANGED <<i, conn, proto, opened, open, exit>>
     \/ include /\ CannotEmit
  /\ UNCHANGED <<due, options, server>>

\* What is no response, or too large, or asks for another protocol.
ReadBad ==
  /\ pc = "head"
  /\ \/ Take("bad") /\ Failed(8)
     \/ Take("upgrade") /\ Return(8)
  /\ UNCHANGED <<stdout, due, options, server>>

\* The connection ends in front of a header block, or inside one.
ReadNoHead ==
  /\ pc = "head"
  /\ \/ Take("eof") /\ Failed(52)
     \/ (Take("cut") \/ Take("reset")) /\ Failed(56)
  /\ UNCHANGED <<stdout, due, options, server>>

ReadData ==
  /\ pc \in {"body", "stream-body"} /\ Take("data")
  /\ \/ Emit("data") /\ UNCHANGED client
     \/ CannotEmit
  /\ UNCHANGED <<due, options, server>>

BodyEnds == Take("end") \/ (framing = "until-eof" /\ Take("eof"))
MutLast == FALSE
MutAlmostLast == i >= N - 1
Last == i = N
MutReusable == framing # "until-eof"
Reusable == framing = "keep"
MutCloseConn == UNCHANGED open
CloseConn == open' = open \ {conn}

\* The response is complete: on to the next target, over this connection or,
\* if the response closes it, over a new one.
ReadEnd ==
  /\ pc \in {"body", "stream-body"}
  /\ BodyEnds
  /\ \/ Last /\ Return(0)
     \/ /\ ~Last
        /\ i' = i + 1
        /\ \/ pc = "stream-body" /\ pc' = "stream" /\ UNCHANGED open
           \/ pc = "body" /\ Reusable /\ pc' = "send" /\ UNCHANGED open
           \/ pc = "body" /\ ~Reusable /\ pc' = "connect" /\ CloseConn
        /\ UNCHANGED <<conn, proto, opened, framing, exit>>
  /\ UNCHANGED <<stdout, due, options, server>>

\* The body breaks off.
ReadCutBody ==
  /\ pc \in {"body", "stream-body"}
  /\ \/ Take("eof") /\ framing # "until-eof" /\ Failed(18)
     \/ Take("cut") /\ Failed(18)
     \/ Take("reset") /\ Failed(56)
  /\ UNCHANGED <<stdout, due, options, server>>

\* A Read of the socket, or a stream, that the deadline ends.
TimesOut ==
  /\ Waits /\ due
  /\ pc \in {"head", "body"} => reader = << >> /\ under = << >>
  /\ Return(28)
  /\ UNCHANGED <<stdout, due, options, readers, wire, server>>

\* The kernel gives up on a peer that is lost (ETIMEDOUT), QUIC on one that is
\* silent: a timeout, whether there is a deadline or not.
LostConnection ==
  /\ Waits /\ Take("lost")
  /\ Return(28)
  /\ UNCHANGED <<stdout, due, options, server>>

-----------------------------------------------------------------------------
(* Streams *)

\* NewClientConn, which writes the preface, and roundTrip.
OpenStream ==
  /\ pc = "stream"
  /\ \/ /\ pc' = "stream-head"
        /\ Asks
        /\ UNCHANGED <<i, conn, proto, opened, open, framing, exit>>
     \/ /\ i = 1 /\ ~http3
        /\ Failed(55) \/ (srv = "lost" /\ Return(28))
        /\ UNCHANGED <<srv, turn>>
  /\ UNCHANGED <<stdout, due, options, readers, wire, interim, served, finished>>

StreamCodes == IF http3 THEN {8, 56, 95, 96} ELSE {8, 56}

\* No response on the stream: http2ReceiveError, http3ReceiveError.
RoundTripFails(code) ==
  /\ pc = "stream-head"
  /\ Take("bad") \/ Take("eof") \/ Take("cut") \/ Take("reset")
  /\ Failed(code)
  /\ UNCHANGED <<stdout, due, options, server>>

-----------------------------------------------------------------------------
(* The server and the clock *)

\* Streams carry neither the 1xx responses nor the framings of HTTP/1.1; a
\* server that speaks HTTP/2 has no answer to HTTP/1.1.
OnStream == pc \in {"stream", "stream-head", "stream-body"}
Understands == OnStream \/ proto # "h2"

Send(t, u) == /\ conn \in open
              /\ wire' = Append(wire, [of |-> t, unit |-> u])
              /\ UNCHANGED <<client, stdout, due, options, readers>>

ServeInterim ==
  /\ srv = "asked" /\ Understands /\ ~OnStream /\ interim < MaxInterim
  /\ Send(turn, "interim")
  /\ interim' = interim + 1
  /\ UNCHANGED <<srv, turn, served, finished>>

ServeHead(f) ==
  /\ srv = "asked" /\ Understands
  /\ OnStream => f = "keep"
  /\ Send(turn, f)
  /\ srv' = f
  /\ UNCHANGED <<turn, interim, served, finished>>

ServeBad(u) ==
  /\ srv = "asked" /\ u \in {"bad", "upgrade", "cut"}
  /\ ~Understands => u = "bad"
  /\ OnStream => u # "upgrade"
  /\ Send(turn, u)
  /\ srv' = "gone"
  /\ UNCHANGED <<turn, interim, served, finished>>

ServeData ==
  /\ srv \in Heads /\ served[turn] < MaxBody
  /\ Send(turn, "data")
  /\ served' = [served EXCEPT ![turn] = @ + 1]
  /\ UNCHANGED <<srv, turn, interim, finished>>

ServeEnd ==
  /\ srv \in Heads
  /\ CASE srv = "keep" -> Send(turn, "end") /\ srv' = "idle"
       [] srv = "close" -> Send(turn, "end") /\ srv' = "closing"
       [] srv = "until-eof" -> Send(turn, "eof") /\ srv' = "gone"
  /\ finished' = finished \cup {turn} /\ interim' = 0
  /\ UNCHANGED <<turn, served>>

\* A server that is tired of waiting for the next request says so, as with 408,
\* and closes: the client takes it for the response to that request.
ServeUnasked(f) ==
  /\ srv = "idle" /\ ~OnStream /\ Understands /\ turn < N
  /\ f # "keep"
  /\ Send(turn + 1, f)
  /\ srv' = f /\ turn' = turn + 1
  /\ UNCHANGED <<interim, served, finished>>

\* The server closes or loses the connection, or is lost, at any point.
ServeBreak(u) ==
  /\ ~Broken
  /\ u = "cut" => srv \in {"asked"} \cup Heads
  /\ srv = "until-eof" => u # "eof"
  /\ Send(turn, u)
  /\ srv' = IF u = "lost" THEN "lost" ELSE "gone"
  /\ UNCHANGED <<turn, interim, served, finished>>

DeadlinePasses ==
  /\ MaxTime /\ ~due
  /\ due' = TRUE
  /\ UNCHANGED <<client, stdout, readers, wire, server, options>>

-----------------------------------------------------------------------------
Receive ==
  \/ ReadInterim \/ \E f \in Heads : ReadHead(f)
  \/ ReadBad \/ ReadNoHead \/ ReadData \/ ReadEnd \/ ReadCutBody \/ LostConnection
  \/ \E c \in StreamCodes : RoundTripFails(c)
Server ==
  \/ ServeInterim \/ \E f \in Heads : ServeHead(f)
  \/ \E u \in {"bad", "upgrade", "cut"} : ServeBad(u)
  \/ ServeData \/ ServeEnd
  \/ \E f \in Heads : ServeUnasked(f)
  \/ \E u \in {"eof", "cut", "reset", "lost"} : ServeBreak(u)

Next ==
  \/ \E p \in Protocols : Connect(p)
  \/ \E c \in ConnectCodes : ConnectFails(c)
  \/ ConnectTimesOut
  \/ SendRequest \/ SendFails \/ OpenStream
  \/ Fill \/ Receive \/ TimesOut
  \/ Deferred
  \/ Server \/ DeadlinePasses

Spec == Init /\ [][Next]_vars

\* The client takes its steps, a Read or a dial ends at the deadline, and the
\* deadline comes.  The server promises nothing.  That a Read ends is what
\* net.Conn promises; the one of tcpraw.go, behind --ja4t, may not keep it: run
\* deadline.
FairSpec ==
  /\ Spec
  /\ WF_vars(SendRequest \/ SendFails \/ OpenStream) /\ WF_vars(Fill) /\ WF_vars(Receive)
  /\ WF_vars(Deferred) /\ WF_vars(TimesOut) /\ WF_vars(ConnectTimesOut)
  /\ WF_vars(DeadlinePasses)

-----------------------------------------------------------------------------
(* Properties *)

\* Every variable keeps to its values; one connection at most is opened for
\* each target, and the exit codes are those of the README.
TypeOK ==
  /\ http3 \in HTTP3 /\ include \in Include
  /\ pc \in {"connect", "send", "head", "body", "stream", "stream-head",
             "stream-body", "return", "done"}
  /\ i \in 1 .. N /\ opened \in 0 .. N /\ conn \in 0 .. opened /\ open \subseteq 1 .. opened
  /\ proto \in Protocols \cup {""} /\ framing \in Heads
  /\ exit \in {Running, Panic, 0, 1, 2, 6, 7, 8, 18, 23, 28, 35, 52, 55, 56, 60, 95, 96}
  /\ stdout \in Seq((1 .. N) \X {"interim", "head", "data"})
  /\ due \in BOOLEAN
  /\ {reader, under, wire} \subseteq Seq([of : 0 .. N, unit : Units])
  /\ srv \in Heads \cup {"idle", "asked", "closing", "gone", "lost"} /\ turn \in 0 .. N
  /\ interim \in 0 .. MaxInterim
  /\ served \in [1 .. N -> 0 .. MaxBody] /\ finished \subseteq 1 .. N

Parts(t, part) == {k \in DOMAIN stdout : stdout[k] = <<t, part>>}

\* Responses are written back to back in the order of the targets, each once
\* and whole before the next one starts, and none in the place of another:
\* nothing of a response is lost, or read twice, when the reader is replaced
\* behind a header block and kept for the next response, whatever the reader
\* and those below it have buffered by then.
OutputInOrder ==
  /\ \A k, l \in DOMAIN stdout : k < l => stdout[k][1] <= stdout[l][1]
  /\ \A t \in 1 .. N : Cardinality(Parts(t, "data")) <= served[t]
  /\ \A t \in 1 .. i - 1 : /\ t \in finished
                           /\ Cardinality(Parts(t, "data")) = served[t]
                           /\ Cardinality(Parts(t, "head")) = IF include THEN 1 ELSE 0

\* Exit code 0 means that every target was answered completely and all of it
\* was written; a response that broke off is never taken for a complete one.
ZeroMeansAll ==
  exit = 0 => \A t \in 1 .. N : /\ t \in finished
                                /\ Cardinality(Parts(t, "data")) = served[t]

\* The exit code says what happened: 18 only of a body the server did not
\* finish, 52 only when it did not start the response, 28 only with --max-time
\* past, in a dial, or of a connection that timed out by itself.
CodeTellsWhy ==
  /\ exit = 18 => i \notin finished /\ srv = "gone"
  /\ exit = 52 => i \notin finished /\ srv = "gone" /\ served[i] = 0
  /\ exit = 28 => due \/ conn = 0 \/ srv = "lost"

\* One connection at a time, and none left behind when execute returns.
ConnectionsClosed ==
  /\ Cardinality(open) <= 1
  /\ pc = "done" => open = {}

\* No request goes out on a connection behind a response that closes it, except
\* when this is the answer to the request, given before it was asked.
NoRequestAfterClose == pc = "send" /\ srv = "closing" => turn = i

\* With --max-time the run ends.
EndsInTime == MaxTime => <>(pc = "done")

\* README: if the server selects h2 the GET uses HTTP/2, otherwise HTTP/1.1.
SelectedProtocol == pc = "head" => proto # "h2"

\* README: errors end with an exit code and a message.
NoPanic == exit # Panic
=============================================================================
