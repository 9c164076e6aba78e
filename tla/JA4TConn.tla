------------------------------ MODULE JA4TConn ------------------------------
(***************************************************************************)
(* The user-space TCP connection of --ja4t (internal/curlu/tcpraw.go) on a *)
(* raw IPv4 socket (tcpraw_linux.go): the handshake with a crafted SYN,    *)
(* the readLoop, pump and recvLoop goroutines, and the Read, Write and     *)
(* Close calls of the HTTP client, which meet at one mutex (c.mu) and one  *)
(* condition variable (c.cond).                                            *)
(*                                                                         *)
(* The network loses, duplicates and reorders: every segment the server    *)
(* can have sent so far may be read from the raw socket at any time, any   *)
(* number of times or never.  A step of a goroutine is one critical        *)
(* section of c.mu, so the mutex itself needs no variable: it is held      *)
(* between two steps only while Read has armed its deadline timer and not  *)
(* yet joined the condition's wait list, and while Write is in its loop.   *)
(* A packet that readLoop or pump holds in its hand is counted in the      *)
(* queue it came from.                                                     *)
(***************************************************************************)
EXTENDS Segments

CONSTANTS RespLen,        \* bytes of the server's stream
          ReqLen,         \* bytes the client writes in all
          ISS, IRS,       \* the initial sequence numbers of client and server
          MSSOptions,     \* MSS options the SYN-ACK may carry, or NoMSS
          DefaultMSS,     \* 1460
          RawCap,         \* capacity of rawPacketIO.pkts: 16
          PacketsCap,     \* capacity of ja4tConn.packets: 32
          MaxTime,        \* is --max-time given?
          ConnectTimeout, \* is --connect-timeout given?
          Faults,         \* what may go wrong, of {"rst", "read", "write"}
          Strays          \* other TCP packets that reach the host

\* The streams, with SYN and FIN, are shorter than the sequence space: no
\* segment of the connection survives a full cycle of sequence numbers.
ASSUME StreamAssumption ==
  /\ RespLen \in Nat /\ ReqLen \in Nat
  /\ RespLen + 2 < SeqSpace /\ ReqLen + 2 < SeqSpace
  /\ ISS \in SeqNums /\ IRS \in SeqNums
ASSUME MSSAssumption ==
  MSSOptions \subseteq Nat \cup {NoMSS} /\ DefaultMSS \in Nat \ {0}
ASSUME QueueAssumption == RawCap \in Nat \ {0} /\ PacketsCap \in Nat \ {0}
ASSUME OptionsAssumption ==
  /\ MaxTime \in BOOLEAN /\ ConnectTimeout \in BOOLEAN
  /\ Faults \subseteq {"rst", "read", "write"}
\* Strays belong to other connections, or are empty leftovers of an earlier
\* one on the same ports.
ASSUME StraysAssumption ==
  /\ Strays \subseteq Segment
  /\ \A s \in Strays : \/ ~s.ours
                       \/ /\ s.data = << >> /\ ~s.fin /\ ~s.rst
                          /\ ~(s.syn /\ s.ack = Plus(ISS, 1))

VARIABLES
  hs,          \* startJA4TConn: "syn" to be sent, "wait", "up" or "failed"
  sndNxt, rcvNxt, peerMSS, readBuf, closed, gotFIN, err,   \* ja4tConn
  pkts,        \* rawPacketIO.pkts
  raw,         \* rawPacketIO: "open", "broken" (readLoop gave up), "closed"
  pump,        \* goroutine: "none", "running", "done" (packets closed)
  packets,     \* ja4tConn.packets
  recv,        \* goroutine recvLoop: "none", "running", "done"
  stopped,     \* loopCtx is cancelled
  read,        \* Read: "idle", "armed", "waiting" in cond.Wait, or "woken"
  timer,       \* the AfterFunc timer of waitDeadline is running
  unsent,      \* bytes the Write in progress has still to send
  connectDue, transferDue,   \* the deadlines have passed
  delivered,   \* bytes Read has returned so far
  result,      \* what the last Read returned
  written,     \* bytes Write has sent so far
  toServer,    \* SYN, data and FIN segments sent
  acked        \* the acknowledgment number of the last segment sent

seqs == <<sndNxt, rcvNxt, peerMSS>>
flags == <<closed, gotFIN, err>>
sock == <<pkts, raw>>
loops == <<pump, packets, recv, stopped>>
reader == <<read, timer, delivered, result>>
clocks == <<connectDue, transferDue>>
sent == <<toServer, acked>>
writer == <<unsent, written>>
vars == <<hs, seqs, readBuf, flags, sock, loops, reader, clocks, sent, writer>>

Init ==
  /\ hs = "syn"
  /\ sndNxt = 0 /\ rcvNxt = 0 /\ peerMSS = DefaultMSS
  /\ readBuf = << >> /\ closed = FALSE /\ gotFIN = FALSE /\ err = "none"
  /\ pkts = << >> /\ raw = "open"
  /\ pump = "none" /\ packets = << >> /\ recv = "none" /\ stopped = FALSE
  /\ read = "idle" /\ timer = FALSE /\ delivered = << >> /\ result = "none"
  /\ connectDue = FALSE /\ transferDue = FALSE
  /\ toServer = {} /\ acked = 0 /\ unsent = 0 /\ written = 0

-----------------------------------------------------------------------------
(* The server and the network.  The Mut... definitions here and below are    *)
(* plausible bugs, one per property: no action uses them, and with one in    *)
(* the place of the definition it precedes TLC refutes the property.         *)

\* The server answers the SYN with a SYN-ACK, and the bytes of its stream
\* travel in segments of any length; the client never looks at the
\* acknowledgment number of a segment that is not a SYN-ACK.
SynAcks == {Syn(IRS, Plus(ISS, 1), m) : m \in MSSOptions}
Spans == {t \in (0 .. RespLen) \X (0 .. RespLen) \X BOOLEAN :
            t[1] <= t[2] /\ (t[3] => t[2] = RespLen)}
ServerData == {Plain(Plus(IRS, 1 + t[1]), Plus(ISS, 1),
                     Bytes(t[1], t[2] - t[1]), t[3]) : t \in Spans}
Resets == IF "rst" \in Faults THEN {Rst(IRS, Plus(ISS, 1))} ELSE {}

Packets == Strays \cup SynAcks \cup ServerData \cup Resets
\* What pump lets into its channel.
Queued == {s \in Packets : s.ours /\ ~s.rst}

\* What the server can have sent so far.
InFlight == CASE hs = "syn" -> Strays
              [] hs = "up" -> Packets
              [] OTHER -> Strays \cup SynAcks \cup Resets

\* readLoop: one packet from the raw socket, while there is room for it.
RawRead(s) ==
  /\ raw = "open" /\ s \in InFlight /\ Len(pkts) < RawCap
  /\ pkts' = Append(pkts, s)
  /\ UNCHANGED <<hs, seqs, readBuf, flags, raw, loops, reader, clocks, sent, writer>>

\* readLoop ends on a read error and closes its channel.
RawError ==
  /\ "read" \in Faults /\ raw = "open"
  /\ raw' = "broken"
  /\ UNCHANGED <<hs, seqs, readBuf, flags, pkts, loops, reader, clocks, sent, writer>>

ConnectDue ==
  /\ ConnectTimeout /\ ~connectDue /\ hs \in {"syn", "wait"}
  /\ connectDue' = TRUE
  /\ UNCHANGED <<hs, seqs, readBuf, flags, sock, loops, reader, transferDue, sent, writer>>

TransferDue ==
  /\ MaxTime /\ ~transferDue
  /\ transferDue' = TRUE
  /\ UNCHANGED <<hs, seqs, readBuf, flags, sock, loops, reader, connectDue, sent, writer>>

-----------------------------------------------------------------------------
(* The mutex and the condition variable *)

MuFree == read # "armed" /\ unsent = 0

\* cond.Broadcast: wakes Read if it is on the wait list, and is lost if not.
MutBroadcast == UNCHANGED read
Broadcast == read' = IF read = "waiting" THEN "woken" ELSE read

\* fail: the first error stays.
Fail(e) ==
  /\ MuFree
  /\ err' = IF err = "none" THEN e ELSE err
  /\ Broadcast
  /\ UNCHANGED <<closed, gotFIN, timer, delivered, result>>

-----------------------------------------------------------------------------
(* handshakeJA4T and waitSYNACK *)

SendSYN ==
  /\ hs = "syn"
  /\ hs' = "wait" /\ pump' = "running"
  /\ toServer' = {Syn(ISS, 0, NoMSS)}
  /\ UNCHANGED <<seqs, readBuf, flags, sock, packets, recv, stopped, reader,
                 clocks, acked, writer>>

\* startJA4TConn closes the socket of a handshake that failed (CloseRaw).
SendSYNFails ==
  /\ hs = "syn" /\ "write" \in Faults
  /\ hs' = "failed"
  /\ UNCHANGED <<seqs, readBuf, flags, sock, loops, reader, clocks, sent, writer>>

MutIsSYNACK(s) == s.syn /\ s.ack = ISS
IsSYNACK(s) == s.syn /\ s.ack = Plus(ISS, 1)

\* waitSYNACK drops what is not the answer to the SYN.
DropBeforeSYNACK ==
  /\ hs = "wait" /\ packets # << >> /\ ~IsSYNACK(Head(packets))
  /\ packets' = Tail(packets)
  /\ UNCHANGED <<hs, seqs, readBuf, flags, sock, pump, recv, stopped, reader,
                 clocks, sent, writer>>

\* The SYN-ACK completes the connection, unless its ACK cannot be sent.
ReceiveSYNACK ==
  /\ hs = "wait" /\ packets # << >> /\ IsSYNACK(Head(packets))
  /\ packets' = Tail(packets)
  /\ rcvNxt' = Plus(Head(packets).seq, 1)
  /\ peerMSS' = IF Head(packets).mss = NoMSS THEN DefaultMSS ELSE Head(packets).mss
  /\ sndNxt' = Plus(ISS, 1)
  /\ \/ hs' = "up" /\ recv' = "running" /\ acked' = rcvNxt' /\ UNCHANGED stopped
     \/ /\ "write" \in Faults
        /\ hs' = "failed" /\ stopped' = TRUE /\ UNCHANGED <<recv, acked>>
  /\ UNCHANGED <<readBuf, flags, sock, pump, reader, clocks, toServer, writer>>

\* pump has closed the channel, or the context of the dial is done.
MutDialOver == pump = "done" /\ packets = << >>
DialOver == (pump = "done" /\ packets = << >>) \/ connectDue \/ transferDue

\* waitSYNACK gives up.
GiveUp ==
  /\ hs = "wait" /\ DialOver
  /\ hs' = "failed" /\ stopped' = TRUE
  /\ UNCHANGED <<seqs, readBuf, flags, sock, pump, packets, recv, reader,
                 clocks, sent, writer>>

-----------------------------------------------------------------------------
(* pump *)

\* A packet of another connection is skipped, a segment of this one queued.
PumpPacket ==
  /\ pump = "running" /\ pkts # << >> /\ ~(Head(pkts).ours /\ Head(pkts).rst)
  /\ pkts' = Tail(pkts)
  /\ \/ ~Head(pkts).ours /\ UNCHANGED packets
     \/ /\ Head(pkts).ours /\ Len(packets) < PacketsCap
        /\ packets' = Append(packets, Head(pkts))
  /\ UNCHANGED <<hs, seqs, readBuf, flags, raw, pump, recv, stopped, reader,
                 clocks, sent, writer>>

\* A reset fails the connection at once, ahead of the segments still queued.
PumpReset ==
  /\ pump = "running" /\ pkts # << >> /\ Head(pkts).ours /\ Head(pkts).rst
  /\ pkts' = Tail(pkts)
  /\ Fail("reset")
  /\ pump' = "done"
  /\ UNCHANGED <<hs, seqs, readBuf, raw, packets, recv, stopped, clocks, sent, writer>>

\* The socket failed or was closed under pump: an error, but not after stop().
PumpError ==
  /\ pump = "running" /\ ~stopped
  /\ (raw = "broken" /\ pkts = << >>) \/ raw = "closed"
  /\ Fail("closed")
  /\ pump' = "done"
  /\ UNCHANGED <<hs, seqs, readBuf, sock, packets, recv, stopped, clocks, sent, writer>>

\* loopCtx is done: wherever pump waits, it returns.
MutMayStop == stopped /\ Len(packets) < PacketsCap
MayStop == stopped
PumpStop ==
  /\ pump = "running" /\ MayStop
  /\ pump' = "done"
  /\ UNCHANGED <<hs, seqs, readBuf, flags, sock, packets, recv, stopped, reader,
                 clocks, sent, writer>>

-----------------------------------------------------------------------------
(* recvLoop and handleSegment *)

\* Takes the next segment, under the mutex.
Receive ==
  /\ recv = "running" /\ packets # << >> /\ MuFree
  /\ packets' = Tail(packets)
  /\ UNCHANGED <<hs, sndNxt, peerMSS, closed, err, sock, pump, recv, stopped,
                 timer, delivered, result, clocks, toServer, writer>>

\* A closed connection takes nothing.
MutIgnores == FALSE
Ignores == closed

\* Only what starts at rcvNxt continues the stream.
MutContinues(s) == TRUE
Continues(s) == s.seq = rcvNxt

\* The sequence numbers a segment takes.
MutOccupies(s) == Len(s.data) + 1
Occupies(s) == Len(s.data) + (IF s.fin THEN 1 ELSE 0)

HandleClosed ==
  /\ Receive /\ Ignores
  /\ UNCHANGED <<rcvNxt, readBuf, gotFIN, read, acked>>

\* A gap or a duplicate is acknowledged again and dropped.
HandleOutOfOrder ==
  /\ Receive /\ ~Ignores /\ ~Continues(Head(packets))
  /\ acked' = rcvNxt
  /\ UNCHANGED <<rcvNxt, readBuf, gotFIN, read>>

HandleInOrder ==
  LET s == Head(packets)
  IN /\ Receive /\ ~Ignores /\ Continues(s)
     /\ readBuf' = readBuf \o s.data
     /\ rcvNxt' = Plus(rcvNxt, Occupies(s))
     /\ gotFIN' = (gotFIN \/ s.fin)
     /\ IF Occupies(s) > 0 THEN acked' = rcvNxt' /\ Broadcast
                           ELSE UNCHANGED <<acked, read>>

\* The channel is closed and empty.
RecvExit ==
  /\ recv = "running" /\ pump = "done" /\ packets = << >>
  /\ recv' = "done"
  /\ UNCHANGED <<hs, seqs, readBuf, flags, sock, pump, packets, stopped, reader,
                 clocks, sent, writer>>

-----------------------------------------------------------------------------
(* Read and waitDeadline *)

Ready == readBuf # << >> \/ err # "none" \/ gotFIN \/ closed

\* Read holds the mutex and is at its loop's condition: just called, or woken
\* before the deadline.
Reading == /\ hs = "up" /\ MuFree
           /\ read = "idle" \/ (read = "woken" /\ ~transferDue)

\* connect() gives the connection ctx's deadline before anything is read.
ReadTimeout ==
  /\ hs = "up" /\ MuFree /\ transferDue
  /\ (read = "idle" /\ ~Ready) \/ read = "woken"
  /\ result' = "timeout" /\ read' = "idle" /\ timer' = FALSE
  /\ UNCHANGED <<hs, seqs, readBuf, flags, sock, loops, delivered, clocks, sent, writer>>

ReadBytes(n) ==
  /\ Reading /\ n \in 1 .. Len(readBuf)
  /\ delivered' = delivered \o SubSeq(readBuf, 1, n)
  /\ readBuf' = SubSeq(readBuf, n + 1, Len(readBuf))
  /\ result' = "bytes" /\ read' = "idle" /\ timer' = FALSE
  /\ UNCHANGED <<hs, seqs, flags, sock, loops, clocks, sent, writer>>

\* Only an empty buffer lets an error or the end of the stream through.
MutMayEnd == Ready
MayEnd == readBuf = << >> /\ Ready
ReadEnd ==
  /\ Reading /\ MayEnd
  /\ result' = IF err # "none" THEN "err" ELSE "eof"
  /\ read' = "idle" /\ timer' = FALSE
  /\ UNCHANGED <<hs, seqs, readBuf, flags, sock, loops, delivered, clocks, sent, writer>>

\* waitDeadline starts its timer with the mutex held ...
ReadArm ==
  /\ Reading /\ ~Ready /\ ~transferDue
  /\ read' = "armed" /\ timer' = MaxTime
  /\ UNCHANGED <<hs, seqs, readBuf, flags, sock, loops, delivered, result,
                 clocks, sent, writer>>

\* ... and cond.Wait joins the wait list and unlocks.
ReadWait ==
  /\ read = "armed"
  /\ read' = "waiting"
  /\ UNCHANGED <<hs, seqs, readBuf, flags, sock, loops, timer, delivered, result,
                 clocks, sent, writer>>

\* The timer's own Broadcast, which takes no lock.
TimerFire ==
  /\ timer /\ transferDue
  /\ timer' = FALSE
  /\ Broadcast
  /\ UNCHANGED <<hs, seqs, readBuf, flags, sock, loops, delivered, result,
                 clocks, sent, writer>>

-----------------------------------------------------------------------------
(* Write *)

WriteCall(n) ==
  /\ hs = "up" /\ MuFree
  /\ err = "none" /\ ~closed /\ ~transferDue
  /\ n \in 1 .. ReqLen - written
  /\ unsent' = n
  /\ UNCHANGED <<hs, seqs, readBuf, flags, sock, loops, reader, clocks, sent, written>>

MSS == IF peerMSS = 0 THEN DefaultMSS ELSE peerMSS
MutChunk == MSS
Chunk == IF unsent < MSS THEN unsent ELSE MSS

WriteChunk ==
  /\ unsent > 0
  /\ toServer' = toServer \cup {Plain(sndNxt, rcvNxt, Bytes(written, Chunk), FALSE)}
  /\ acked' = rcvNxt
  /\ sndNxt' = Plus(sndNxt, Chunk)
  /\ written' = written + Chunk
  /\ unsent' = unsent - Chunk
  /\ UNCHANGED <<hs, rcvNxt, peerMSS, readBuf, flags, sock, loops, reader, clocks>>

\* A chunk the socket refuses ends the Write; the caller learns what was sent.
WriteFails ==
  /\ unsent > 0 /\ "write" \in Faults
  /\ unsent' = 0
  /\ UNCHANGED <<hs, seqs, readBuf, flags, sock, loops, reader, clocks, sent, written>>

-----------------------------------------------------------------------------
(* Close: the FIN under the mutex, then stop(), then the socket *)

MutSendsFIN == err = "none"
SendsFIN == ~closed /\ err = "none"

Close ==
  /\ hs = "up" /\ MuFree
  /\ IF SendsFIN
     THEN /\ toServer' = toServer \cup {Plain(sndNxt, rcvNxt, << >>, TRUE)}
          /\ acked' = rcvNxt
          /\ sndNxt' = Plus(sndNxt, 1)
     ELSE UNCHANGED <<sent, sndNxt>>
  /\ closed' = TRUE
  /\ Broadcast
  /\ UNCHANGED <<hs, rcvNxt, peerMSS, readBuf, gotFIN, err, sock, loops, timer,
                 delivered, result, clocks, writer>>

CloseStop ==
  /\ closed /\ ~stopped
  /\ stopped' = TRUE
  /\ UNCHANGED <<hs, seqs, readBuf, flags, sock, pump, packets, recv, reader,
                 clocks, sent, writer>>

\* Also the end of a dial that failed.
MutMayCloseRaw == closed \/ hs = "failed"
MayCloseRaw == (closed /\ stopped) \/ hs = "failed"
CloseRaw ==
  /\ MayCloseRaw /\ raw # "closed"
  /\ raw' = "closed"
  /\ UNCHANGED <<hs, seqs, readBuf, flags, pkts, loops, reader, clocks, sent, writer>>

-----------------------------------------------------------------------------
Handshake == SendSYN \/ SendSYNFails \/ DropBeforeSYNACK \/ ReceiveSYNACK
Pump == PumpPacket \/ PumpReset \/ PumpError
Recv == HandleClosed \/ HandleOutOfOrder \/ HandleInOrder \/ RecvExit
Read == \/ ReadTimeout \/ ReadEnd \/ ReadArm \/ ReadWait
        \/ \E n \in 1 .. RespLen : ReadBytes(n)
Write == WriteChunk \/ WriteFails
Environment == RawError \/ ConnectDue \/ TransferDue

Next ==
  \/ \E s \in Packets : RawRead(s)
  \/ Environment
  \/ Handshake \/ GiveUp
  \/ Pump \/ PumpStop
  \/ Recv
  \/ Read \/ TimerFire
  \/ \E n \in 1 .. ReqLen : WriteCall(n)
  \/ Write
  \/ Close \/ CloseStop \/ CloseRaw

Spec == Init /\ [][Next]_vars

\* What the Go scheduler and the mutex guarantee: a goroutine that can go on
\* does, and a ready case of a select is not passed over for ever.  Nothing is
\* promised of the network or of the caller of Write and Close; a caller of Read
\* goes on reading.
Scheduling ==
  /\ WF_vars(Handshake) /\ WF_vars(GiveUp)
  /\ WF_vars(Pump) /\ WF_vars(PumpStop)
  /\ WF_vars(Recv)
  /\ WF_vars(Read) /\ WF_vars(TimerFire)
  /\ WF_vars(Write)
  /\ WF_vars(CloseStop) /\ WF_vars(CloseRaw)

\* And deadlines arrive.
FairSpec == Spec /\ Scheduling /\ WF_vars(ConnectDue) /\ WF_vars(TransferDue)

\* A network that does not lose a segment for ever: the server retransmits what
\* was not acknowledged.
Delivery == \A s \in SynAcks \cup ServerData : SF_vars(RawRead(s))

-----------------------------------------------------------------------------
(* Properties *)

ConnTypeOK ==
  /\ hs \in {"syn", "wait", "up", "failed"}
  /\ sndNxt \in SeqNums /\ rcvNxt \in SeqNums /\ peerMSS \in Nat
  /\ readBuf \in Seq(Nat)
  /\ closed \in BOOLEAN /\ gotFIN \in BOOLEAN
  /\ err \in {"none", "reset", "closed"}
  /\ toServer \subseteq Segment /\ acked \in SeqNums
LoopsTypeOK ==
  /\ raw \in {"open", "broken", "closed"} /\ stopped \in BOOLEAN
  /\ pkts \in Seq(Packets) /\ Len(pkts) <= RawCap
  /\ packets \in Seq(Queued) /\ Len(packets) <= PacketsCap
  /\ pump \in {"none", "running", "done"} /\ recv \in {"none", "running", "done"}
CallsTypeOK ==
  /\ read \in {"idle", "armed", "waiting", "woken"} /\ timer \in BOOLEAN
  /\ delivered \in Seq(Nat)
  /\ result \in {"none", "bytes", "eof", "err", "timeout"}
  /\ connectDue \in BOOLEAN /\ transferDue \in BOOLEAN
  /\ unsent \in 0 .. ReqLen /\ written \in 0 .. ReqLen /\ unsent + written <= ReqLen

\* Every variable keeps to its values: sequence numbers to 32 bits, the channels
\* to their capacities, and a Write to the bytes it was given.
TypeOK == ConnTypeOK /\ LoopsTypeOK /\ CallsTypeOK

Received == Len(delivered) + Len(readBuf)

\* What Read has returned, and what it may return next, is the server's stream
\* from its first byte on: nothing lost, repeated or out of order, however the
\* network orders and cuts the segments; and the end of the stream is believed
\* only when the whole of it is here (handleSegment, Read).
StreamIntegrity ==
  /\ delivered \o readBuf = Bytes(0, Received)
  /\ Received <= RespLen
  /\ gotFIN => Received = RespLen

\* The last acknowledgment sent covers only bytes that Read has returned or can
\* still return, and the FIN only if it was received: the server never drops
\* what the client does not have (sendLocked in handleSegment, Write, Close).
AckedIsReadable ==
  hs = "up" => \E k \in 0 .. Received + (IF gotFIN THEN 1 ELSE 0) :
                 acked = Plus(IRS, 1 + k)

\* The segments sent put every written byte at its own sequence number exactly
\* once, whatever MSS cut them and whatever chunk failed; the connection sends
\* one FIN, behind the last byte, and nothing after it, however often and
\* wherever Close is called (Write, Close).
RequestInOrder ==
  LET Covers(s, k) == \E i \in 1 .. Len(s.data) : s.data[i] = k
      Fins == {s \in toServer : s.fin}
  IN /\ \A s \in toServer : \A i \in 1 .. Len(s.data) :
          /\ s.data[i] \in 1 .. written
          /\ Plus(s.seq, i - 1) = Plus(ISS, s.data[i])
     /\ \A k \in 1 .. written : \E s \in toServer : Covers(s, k)
     /\ \A s, t \in toServer : \A k \in 1 .. written :
          Covers(s, k) /\ Covers(t, k) => s = t
     /\ \A s, t \in Fins : s = t
     /\ \A s \in Fins : s.seq = Plus(ISS, 1 + written)

\* Read never sleeps on a condition that already holds: every step that makes
\* bytes, an error, the FIN or a Close visible wakes it (cond.Broadcast in
\* handleSegment, fail and Close).
NoSleepOnReady == read = "waiting" => ~Ready

\* When Read turns to reporting an error or the end, it has first returned
\* every byte the client ever acknowledged: a server that saw the bytes
\* acknowledged may rely on the client's having read them (Read).
EndsAfterAcked ==
  [][result' # result /\ result' \in {"err", "eof"}
       => \E k \in 0 .. Len(delivered) + (IF gotFIN THEN 1 ELSE 0) :
            acked = Plus(IRS, 1 + k)]_vars

\* "use of closed network connection" is an error of the socket, never the mark
\* of the client's own Close or of a dial that gave up: stop() comes first
\* (pump, Close, handshakeJA4T).
ClosedIsNotAnError ==
  [][err' = "closed" /\ err # "closed" => raw = "broken"]_vars

\* The reader's view of the connection is a byte stream (ByteStream).
Stream == INSTANCE ByteStream WITH received <- Received
ImplementsByteStream == Stream!Spec

\* Close, and a dial that fails, end the goroutines pump and recvLoop, close
\* the socket and release a reader, whatever they are waiting for.
CloseReleases ==
  closed \/ hs = "failed" ~> /\ pump # "running" /\ recv # "running"
                             /\ raw = "closed" /\ read = "idle"

\* With --connect-timeout the dial ends, however silent the server is.
HandshakeEnds == ConnectTimeout => <>(hs \in {"up", "failed"})

\* Over a network that goes on delivering what the server retransmits, a reader
\* that goes on reading reaches the end of the stream with all of it, unless
\* something fails, a deadline passes or the client closes first.
ResponseDelivered ==
  <>\/ closed \/ err # "none" \/ raw # "open" \/ hs = "failed" \/ transferDue
    \/ result = "eof" /\ Len(delivered) = RespLen
\* The specification of a run for it: no deadline need come.
DeliverySpec == Spec /\ Scheduling /\ Delivery

\* README: --max-time limits the complete transfer time, so a Read that sleeps
\* when the deadline passes is woken.
DeadlineEndsRead == (read = "waiting" /\ transferDue) ~> (read # "waiting")
=============================================================================
