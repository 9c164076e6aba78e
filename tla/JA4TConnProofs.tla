--------------------------- MODULE JA4TConnProofs ---------------------------
(***************************************************************************)
(* What TLAPS proves of JA4TConn, for all values of its constants.         *)
(***************************************************************************)
EXTENDS JA4TConn, TLAPS

-----------------------------------------------------------------------------
(* Sequence numbers and streams *)

\* A sum of sequence numbers is a sequence number.
LEMMA PlusType ==
  ASSUME NEW s \in SeqNums, NEW n \in 0 .. SeqSpace - 1
  PROVE  Plus(s, n) \in SeqNums
BY SeqSpaceAssumption DEF Plus, SeqNums

\* uint32 additions can be taken in one, below a full cycle.
LEMMA PlusPlus ==
  ASSUME NEW s \in SeqNums, NEW m \in Nat, NEW n \in Nat, m + n < SeqSpace
  PROVE  Plus(Plus(s, m), n) = Plus(s, m + n)
BY SeqSpaceAssumption DEF Plus, SeqNums

\* Below a full cycle, different offsets have different sequence numbers.
LEMMA PlusInjective ==
  ASSUME NEW s \in SeqNums, NEW m \in Nat, NEW n \in Nat,
         m < SeqSpace, n < SeqSpace, Plus(s, m) = Plus(s, n)
  PROVE  m = n
BY SeqSpaceAssumption DEF Plus, SeqNums

LEMMA BytesType ==
  ASSUME NEW i \in Nat, NEW n \in Nat
  PROVE  Bytes(i, n) \in Seq(Nat) /\ Len(Bytes(i, n)) = n
BY DEF Bytes

\* Consecutive runs of bytes of a stream concatenate to one run.
LEMMA BytesConcat ==
  ASSUME NEW i \in Nat, NEW m \in Nat, NEW n \in Nat
  PROVE  Bytes(i, m) \o Bytes(i + m, n) = Bytes(i, m + n)
BY DEF Bytes

-----------------------------------------------------------------------------
(* The segments of the network *)

LEMMA PacketsAreSegments == Packets \subseteq Segment
<1>1. 1 \in 0 .. SeqSpace - 1 /\ 0 \in SeqNums
  BY StreamAssumption, SeqSpaceAssumption DEF SeqNums
<1>2. Plus(ISS, 1) \in SeqNums
  BY <1>1, PlusType, StreamAssumption
<1>3. SynAcks \subseteq Segment
  <2> SUFFICES ASSUME NEW m \in MSSOptions
               PROVE  Syn(IRS, Plus(ISS, 1), m) \in Segment
    BY DEF SynAcks
  <2>1. m \in Nat \cup {NoMSS}
    BY MSSAssumption
  <2>2. << >> \in Seq(Nat)
    OBVIOUS
  <2> QED
    BY <1>2, <2>1, <2>2, StreamAssumption DEF Syn, Segment
<1>4. ServerData \subseteq Segment
  <2> SUFFICES ASSUME NEW t \in Spans
               PROVE  Plain(Plus(IRS, 1 + t[1]), Plus(ISS, 1),
                            Bytes(t[1], t[2] - t[1]), t[3]) \in Segment
    BY DEF ServerData
  <2>1. /\ t[1] \in 0 .. RespLen /\ t[2] \in 0 .. RespLen /\ t[3] \in BOOLEAN
        /\ t[1] <= t[2]
    BY DEF Spans
  <2>2. Plus(IRS, 1 + t[1]) \in SeqNums
    BY <2>1, PlusType, StreamAssumption, SeqSpaceAssumption
  <2>3. Bytes(t[1], t[2] - t[1]) \in Seq(Nat)
    <3>1. t[1] \in Nat /\ t[2] - t[1] \in Nat
      BY <2>1, StreamAssumption
    <3> QED
      BY <3>1, BytesType
  <2> QED
    BY <1>2, <2>1, <2>2, <2>3, MSSAssumption DEF Plain, Segment
<1>5. Resets \subseteq Segment
  <2>1. << >> \in Seq(Nat)
    OBVIOUS
  <2>2. Rst(IRS, Plus(ISS, 1)) \in Segment
    BY <1>2, <2>1, StreamAssumption DEF Rst, Segment
  <2> QED
    BY <2>2 DEF Resets
<1> QED
  BY <1>3, <1>4, <1>5, StraysAssumption DEF Packets

\* A segment pump queues is a piece of the server's stream, or is empty.
LEMMA QueuedCases ==
  ASSUME NEW s \in Queued
  PROVE  \/ s.data = << >> /\ ~s.fin
         \/ \E i \in 0 .. RespLen : \E n \in 0 .. RespLen - i :
              /\ s.seq = Plus(IRS, 1 + i)
              /\ s.data = Bytes(i, n)
              /\ s.fin => i + n = RespLen
<1>1. CASE s \in Strays
  BY <1>1, StraysAssumption DEF Queued
<1>2. CASE s \in SynAcks
  BY <1>2 DEF SynAcks, Syn
<1>3. CASE s \in Resets
  BY <1>3 DEF Resets, Rst, Queued
<1>4. CASE s \in ServerData
  <2>1. PICK t \in Spans : s = Plain(Plus(IRS, 1 + t[1]), Plus(ISS, 1),
                                     Bytes(t[1], t[2] - t[1]), t[3])
    BY <1>4 DEF ServerData
  <2>2. /\ t[1] \in 0 .. RespLen /\ t[2] \in 0 .. RespLen /\ t[1] <= t[2]
        /\ t[3] => t[2] = RespLen
    BY DEF Spans
  <2>3. t[2] - t[1] \in 0 .. RespLen - t[1] /\ t[1] + (t[2] - t[1]) = t[2]
    BY <2>2, StreamAssumption
  <2>4. /\ s.seq = Plus(IRS, 1 + t[1]) /\ s.data = Bytes(t[1], t[2] - t[1])
        /\ s.fin = t[3]
    BY <2>1 DEF Plain
  <2> QED
    BY <2>2, <2>3, <2>4
<1> QED
  BY <1>1, <1>2, <1>3, <1>4 DEF Queued, Packets

\* Its data is no longer than the stream.
LEMMA QueuedType ==
  ASSUME NEW s \in Queued
  PROVE  /\ s \in Segment
         /\ s.data \in Seq(Nat) /\ Len(s.data) \in 0 .. RespLen
         /\ s.seq \in SeqNums /\ s.fin \in BOOLEAN
         /\ s.mss \in Nat \cup {NoMSS}
<1>1. s \in Segment
  BY PacketsAreSegments DEF Queued
<1>2. /\ s.data \in Seq(Nat) /\ s.seq \in SeqNums /\ s.fin \in BOOLEAN
      /\ s.mss \in Nat \cup {NoMSS}
  BY <1>1 DEF Segment
<1>3. CASE s.data = << >> /\ ~s.fin
  BY <1>1, <1>2, <1>3, StreamAssumption
<1>4. ASSUME NEW i \in 0 .. RespLen, NEW n \in 0 .. RespLen - i,
             s.data = Bytes(i, n)
      PROVE  Len(s.data) \in 0 .. RespLen
  <2>1. i \in Nat /\ n \in Nat /\ n <= RespLen
    BY StreamAssumption
  <2> QED
    <3>1. Len(s.data) = n
      BY <1>4, <2>1, BytesType
    <3> QED
      BY <2>1, <3>1, StreamAssumption
<1> QED
  BY <1>1, <1>2, <1>3, <1>4, QueuedCases

\* The SYN-ACK that waitSYNACK accepts is the server's.
LEMMA SYNACKIsTheServers ==
  ASSUME NEW s \in Queued, IsSYNACK(s)
  PROVE  s.seq = IRS
<1>1. s \notin Strays
  BY StraysAssumption DEF IsSYNACK, Queued
<1>2. s \notin ServerData
  BY DEF ServerData, Plain, IsSYNACK
<1>3. s \notin Resets
  BY DEF Resets, Rst, IsSYNACK
<1>4. s \in SynAcks
  BY <1>1, <1>2, <1>3 DEF Queued, Packets
<1> QED
  BY <1>4 DEF SynAcks, Syn

-----------------------------------------------------------------------------
(* Types *)

\* The head of the queue, and what is left behind it.
LEMMA HeadTail ==
  ASSUME NEW S, NEW q \in Seq(S), q # << >>
  PROVE  Head(q) \in S /\ Tail(q) \in Seq(S) /\ Len(Tail(q)) = Len(q) - 1
OBVIOUS

\* A sequence of bytes is what the first n of it are, and the rest.
LEMMA Cut ==
  ASSUME NEW q \in Seq(Nat), NEW n \in 1 .. Len(q)
  PROVE  /\ SubSeq(q, 1, n) \in Seq(Nat) /\ Len(SubSeq(q, 1, n)) = n
         /\ SubSeq(q, n + 1, Len(q)) \in Seq(Nat)
         /\ Len(SubSeq(q, n + 1, Len(q))) = Len(q) - n
         /\ SubSeq(q, 1, n) \o SubSeq(q, n + 1, Len(q)) = q
OBVIOUS

LEMMA Join ==
  ASSUME NEW p \in Seq(Nat), NEW q \in Seq(Nat)
  PROVE  p \o q \in Seq(Nat) /\ Len(p \o q) = Len(p) + Len(q)
OBVIOUS

LEMMA JoinAssociative ==
  ASSUME NEW p \in Seq(Nat), NEW q \in Seq(Nat), NEW r \in Seq(Nat)
  PROVE  p \o (q \o r) = (p \o q) \o r
<1>1. DOMAIN (p \o (q \o r)) = 1 .. Len(p) + Len(q) + Len(r)
  OBVIOUS
<1>2. DOMAIN ((p \o q) \o r) = 1 .. Len(p) + Len(q) + Len(r)
  OBVIOUS
<1>3. ASSUME NEW k \in 1 .. Len(p) + Len(q) + Len(r)
      PROVE  (p \o (q \o r))[k] = ((p \o q) \o r)[k]
  OBVIOUS
<1>4. p \o (q \o r) \in Seq(Nat) /\ (p \o q) \o r \in Seq(Nat)
  OBVIOUS
<1> QED
  BY <1>1, <1>2, <1>3, <1>4

\* The chunk a Write in progress sends next is part of what it has to send.
LEMMA ChunkType ==
  ASSUME TypeOK, unsent > 0
  PROVE  Chunk \in 0 .. unsent /\ Chunk \in Nat /\ unsent \in Nat
BY MSSAssumption, StreamAssumption
   DEF TypeOK, ConnTypeOK, LoopsTypeOK, CallsTypeOK, Chunk, MSS

LEMMA InitType == Init => TypeOK
<1>1. /\ << >> \in Seq(Nat) /\ << >> \in Seq(Packets) /\ << >> \in Seq(Queued)
      /\ Len(<< >>) = 0
  OBVIOUS
<1>2. 0 \in SeqNums /\ DefaultMSS \in Nat /\ 0 \in 0 .. ReqLen /\ 0 + 0 <= ReqLen
  BY SeqSpaceAssumption, MSSAssumption, StreamAssumption DEF SeqNums
<1>3. Init => ConnTypeOK
  BY <1>1, <1>2 DEF Init, ConnTypeOK
<1>4. Init => LoopsTypeOK
  <2>1. 0 <= RawCap /\ 0 <= PacketsCap
    BY QueueAssumption
  <2> QED
    BY <1>1, <2>1 DEF Init, LoopsTypeOK
<1>5. Init => CallsTypeOK
  BY <1>1, <1>2 DEF Init, CallsTypeOK
<1> QED
  BY <1>3, <1>4, <1>5 DEF TypeOK

LEMMA RawReadType ==
  ASSUME TypeOK, NEW s \in Packets, RawRead(s)
  PROVE  TypeOK'
BY QueueAssumption
   DEF TypeOK, ConnTypeOK, LoopsTypeOK, CallsTypeOK, RawRead, seqs, flags,
       loops, reader, clocks, sent, writer

LEMMA HandshakeType ==
  ASSUME TypeOK, Handshake \/ GiveUp
  PROVE  TypeOK'
<1> USE DEF seqs, flags, sock, loops, reader, clocks, sent, writer
<1>1. CASE SendSYN
  <2>1. Syn(ISS, 0, NoMSS) \in Segment
    <3>1. << >> \in Seq(Nat) /\ 0 \in SeqNums
      BY SeqSpaceAssumption DEF SeqNums
    <3> QED
      BY <3>1, StreamAssumption DEF Syn, Segment
  <2> QED
    BY <1>1, <2>1 DEF TypeOK, ConnTypeOK, LoopsTypeOK, CallsTypeOK, SendSYN
<1>2. CASE SendSYNFails
  BY <1>2 DEF TypeOK, ConnTypeOK, LoopsTypeOK, CallsTypeOK, SendSYNFails
<1>3. CASE DropBeforeSYNACK
  <2>1. Tail(packets) \in Seq(Queued) /\ Len(Tail(packets)) = Len(packets) - 1
    BY <1>3, HeadTail
       DEF TypeOK, ConnTypeOK, LoopsTypeOK, CallsTypeOK, DropBeforeSYNACK
  <2> QED
    BY <1>3, <2>1, QueueAssumption
       DEF TypeOK, ConnTypeOK, LoopsTypeOK, CallsTypeOK, DropBeforeSYNACK
<1>4. CASE ReceiveSYNACK
  <2>1. /\ Head(packets) \in Queued
        /\ Tail(packets) \in Seq(Queued) /\ Len(Tail(packets)) = Len(packets) - 1
    BY <1>4, HeadTail
       DEF TypeOK, ConnTypeOK, LoopsTypeOK, CallsTypeOK, ReceiveSYNACK
  <2>2. Head(packets).seq \in SeqNums /\ Head(packets).mss \in Nat \cup {NoMSS}
    BY <2>1, QueuedType
  <2>3. 1 \in 0 .. SeqSpace - 1
    BY StreamAssumption, SeqSpaceAssumption
  <2>4. Plus(Head(packets).seq, 1) \in SeqNums /\ Plus(ISS, 1) \in SeqNums
    BY <2>2, <2>3, PlusType, StreamAssumption
  <2>5. peerMSS' \in Nat
    BY <1>4, <2>2, MSSAssumption DEF ReceiveSYNACK
  <2>7. ConnTypeOK'
    BY <1>4, <2>1, <2>4, <2>5, QueueAssumption
       DEF TypeOK, ConnTypeOK, ReceiveSYNACK
  <2>8. LoopsTypeOK'
    <3>1. packets' \in Seq(Queued) /\ Len(packets') <= PacketsCap
      BY <1>4, <2>1, QueueAssumption DEF TypeOK, LoopsTypeOK, ReceiveSYNACK
    <3>2. recv' \in {"none", "running", "done"} /\ stopped' \in BOOLEAN
      BY <1>4 DEF TypeOK, LoopsTypeOK, ReceiveSYNACK
    <3>3. UNCHANGED <<pkts, raw, pump>>
      BY <1>4 DEF ReceiveSYNACK
    <3> QED
      BY <3>1, <3>2, <3>3 DEF TypeOK, LoopsTypeOK
  <2>9. CallsTypeOK'
    BY <1>4, <2>1, <2>4, <2>5, QueueAssumption
       DEF TypeOK, CallsTypeOK, ReceiveSYNACK
  <2> QED
    BY <2>7, <2>8, <2>9 DEF TypeOK
<1>5. CASE GiveUp
  BY <1>5 DEF TypeOK, ConnTypeOK, LoopsTypeOK, CallsTypeOK, GiveUp
<1> QED
  BY <1>1, <1>2, <1>3, <1>4, <1>5 DEF Handshake

LEMMA PumpType ==
  ASSUME TypeOK, Pump \/ PumpStop
  PROVE  TypeOK'
<1> USE DEF seqs, flags, sock, loops, reader, clocks, sent, writer
<1>1. CASE PumpPacket
  <2>1. /\ Head(pkts) \in Packets
        /\ Tail(pkts) \in Seq(Packets) /\ Len(Tail(pkts)) = Len(pkts) - 1
    BY <1>1, HeadTail DEF TypeOK, ConnTypeOK, LoopsTypeOK, CallsTypeOK, PumpPacket
  <2>2. packets' \in Seq(Queued) /\ Len(packets') <= PacketsCap
    <3>1. CASE packets' = packets
      BY <3>1 DEF TypeOK, ConnTypeOK, LoopsTypeOK, CallsTypeOK
    <3>2. CASE /\ Head(pkts).ours /\ Len(packets) < PacketsCap
               /\ packets' = Append(packets, Head(pkts))
      <4>1. Head(pkts) \in Queued
        BY <1>1, <2>1, <3>2 DEF PumpPacket, Queued
      <4> QED
        BY <3>2, <4>1, QueueAssumption
           DEF TypeOK, ConnTypeOK, LoopsTypeOK, CallsTypeOK
    <3> QED
      BY <1>1, <3>1, <3>2 DEF PumpPacket
  <2> QED
    BY <1>1, <2>1, <2>2, QueueAssumption
       DEF TypeOK, ConnTypeOK, LoopsTypeOK, CallsTypeOK, PumpPacket
<1>2. CASE PumpReset
  <2>1. Tail(pkts) \in Seq(Packets) /\ Len(Tail(pkts)) = Len(pkts) - 1
    BY <1>2, HeadTail DEF TypeOK, ConnTypeOK, LoopsTypeOK, CallsTypeOK, PumpReset
  <2> QED
    BY <1>2, <2>1, QueueAssumption
       DEF TypeOK, ConnTypeOK, LoopsTypeOK, CallsTypeOK, PumpReset, Fail,
           Broadcast
<1>3. CASE PumpError
  BY <1>3
     DEF TypeOK, ConnTypeOK, LoopsTypeOK, CallsTypeOK, PumpError, Fail,
         Broadcast
<1>4. CASE PumpStop
  BY <1>4 DEF TypeOK, ConnTypeOK, LoopsTypeOK, CallsTypeOK, PumpStop
<1> QED
  BY <1>1, <1>2, <1>3, <1>4 DEF Pump

LEMMA RecvType ==
  ASSUME TypeOK, Recv
  PROVE  TypeOK'
<1> USE DEF seqs, flags, sock, loops, reader, clocks, sent, writer
<1>1. ASSUME Receive
      PROVE  /\ Head(packets) \in Queued
             /\ packets' \in Seq(Queued) /\ Len(packets') <= PacketsCap
  <2>1. /\ Head(packets) \in Queued
        /\ Tail(packets) \in Seq(Queued) /\ Len(Tail(packets)) = Len(packets) - 1
    BY <1>1, HeadTail DEF TypeOK, ConnTypeOK, LoopsTypeOK, CallsTypeOK, Receive
  <2> QED
    BY <1>1, <2>1, QueueAssumption
       DEF TypeOK, ConnTypeOK, LoopsTypeOK, CallsTypeOK, Receive
<1>2. CASE HandleClosed
  BY <1>1, <1>2
     DEF TypeOK, ConnTypeOK, LoopsTypeOK, CallsTypeOK, Receive, HandleClosed
<1>3. CASE HandleOutOfOrder
  BY <1>1, <1>3
     DEF TypeOK, ConnTypeOK, LoopsTypeOK, CallsTypeOK, Receive,
         HandleOutOfOrder
<1>4. CASE HandleInOrder
  <2> DEFINE s == Head(packets)
             occupies == Len(s.data) + (IF s.fin THEN 1 ELSE 0)
  <2>1. s \in Queued
    BY <1>1, <1>4 DEF HandleInOrder
  <2>2. s.data \in Seq(Nat) /\ Len(s.data) \in 0 .. RespLen /\ s.fin \in BOOLEAN
    BY <2>1, QueuedType
  <2>3. occupies \in 0 .. SeqSpace - 1
    <3>1. ASSUME NEW n \in 0 .. RespLen
          PROVE  n \in 0 .. SeqSpace - 1 /\ n + 1 \in 0 .. SeqSpace - 1
                 /\ n + 0 \in 0 .. SeqSpace - 1
      BY StreamAssumption, SeqSpaceAssumption
    <3>2. CASE s.fin
      BY <2>2, <3>1, <3>2
    <3>3. CASE ~s.fin
      BY <2>2, <3>1, <3>3
    <3> QED
      BY <3>2, <3>3
  <2>4. rcvNxt' \in SeqNums
    <3>1. rcvNxt' = Plus(rcvNxt, occupies)
      BY <1>4 DEF HandleInOrder, Occupies
    <3>2. rcvNxt \in SeqNums
      BY DEF TypeOK, ConnTypeOK, LoopsTypeOK, CallsTypeOK
    <3> HIDE DEF occupies
    <3> QED
      BY <2>3, <3>1, <3>2, PlusType
  <2>5. readBuf' \in Seq(Nat)
    BY <1>4, <2>2 DEF TypeOK, ConnTypeOK, LoopsTypeOK, CallsTypeOK, HandleInOrder
  <2>6. acked' \in SeqNums /\ read' \in {"idle", "armed", "waiting", "woken"}
    BY <1>4, <2>4
       DEF TypeOK, ConnTypeOK, LoopsTypeOK, CallsTypeOK, HandleInOrder,
           Broadcast
  <2>7. gotFIN' \in BOOLEAN
    BY <1>4, <2>2 DEF TypeOK, ConnTypeOK, LoopsTypeOK, CallsTypeOK, HandleInOrder
  <2>8. ConnTypeOK'
    BY <1>1, <1>4, <2>4, <2>5, <2>6, <2>7
       DEF TypeOK, ConnTypeOK, Receive, HandleInOrder
  <2>9. LoopsTypeOK'
    BY <1>1, <1>4, <2>4, <2>5, <2>6, <2>7
       DEF TypeOK, LoopsTypeOK, Receive, HandleInOrder
  <2>10. CallsTypeOK'
    BY <1>1, <1>4, <2>4, <2>5, <2>6, <2>7
       DEF TypeOK, CallsTypeOK, Receive, HandleInOrder
  <2> QED
    BY <2>8, <2>9, <2>10 DEF TypeOK
<1>5. CASE RecvExit
  BY <1>5 DEF TypeOK, ConnTypeOK, LoopsTypeOK, CallsTypeOK, RecvExit
<1> QED
  BY <1>2, <1>3, <1>4, <1>5 DEF Recv

LEMMA ReadType ==
  ASSUME TypeOK, Read \/ TimerFire
  PROVE  TypeOK'
<1> USE DEF seqs, flags, sock, loops, reader, clocks, sent, writer
<1>1. CASE ReadTimeout
  BY <1>1 DEF TypeOK, ConnTypeOK, LoopsTypeOK, CallsTypeOK, ReadTimeout
<1>2. CASE ReadEnd
  <2>7. ConnTypeOK'
    BY <1>2 DEF TypeOK, ConnTypeOK, ReadEnd
  <2>8. LoopsTypeOK'
    BY <1>2 DEF TypeOK, LoopsTypeOK, ReadEnd
  <2>9. CallsTypeOK'
    BY <1>2 DEF TypeOK, CallsTypeOK, ReadEnd
  <2> QED
    BY <2>7, <2>8, <2>9 DEF TypeOK
<1>3. CASE ReadArm
  BY <1>3, OptionsAssumption
     DEF TypeOK, ConnTypeOK, LoopsTypeOK, CallsTypeOK, ReadArm
<1>4. CASE ReadWait
  BY <1>4 DEF TypeOK, ConnTypeOK, LoopsTypeOK, CallsTypeOK, ReadWait
<1>5. ASSUME NEW n \in 1 .. RespLen, ReadBytes(n)
      PROVE  TypeOK'
  <2>1. delivered' \in Seq(Nat) /\ readBuf' \in Seq(Nat)
    <3>1. readBuf \in Seq(Nat) /\ delivered \in Seq(Nat) /\ n \in 1 .. Len(readBuf)
      BY <1>5 DEF TypeOK, ConnTypeOK, LoopsTypeOK, CallsTypeOK, ReadBytes
    <3>2. /\ SubSeq(readBuf, 1, n) \in Seq(Nat)
          /\ SubSeq(readBuf, n + 1, Len(readBuf)) \in Seq(Nat)
      BY <3>1, Cut
    <3> QED
      BY <1>5, <3>1, <3>2 DEF ReadBytes
  <2>7. ConnTypeOK'
    BY <1>5, <2>1 DEF TypeOK, ConnTypeOK, ReadBytes
  <2>8. LoopsTypeOK'
    BY <1>5, <2>1 DEF TypeOK, LoopsTypeOK, ReadBytes
  <2>9. CallsTypeOK'
    BY <1>5, <2>1 DEF TypeOK, CallsTypeOK, ReadBytes
  <2> QED
    BY <2>7, <2>8, <2>9 DEF TypeOK
<1>6. CASE TimerFire
  <2>7. ConnTypeOK'
    BY <1>6 DEF TypeOK, ConnTypeOK, TimerFire, Broadcast
  <2>8. LoopsTypeOK'
    BY <1>6 DEF TypeOK, LoopsTypeOK, TimerFire, Broadcast
  <2>9. CallsTypeOK'
    BY <1>6 DEF TypeOK, CallsTypeOK, TimerFire, Broadcast
  <2> QED
    BY <2>7, <2>8, <2>9 DEF TypeOK
<1> QED
  BY <1>1, <1>2, <1>3, <1>4, <1>5, <1>6 DEF Read

LEMMA WriteType ==
  ASSUME TypeOK, Write \/ \E n \in 1 .. ReqLen : WriteCall(n)
  PROVE  TypeOK'
<1> USE DEF seqs, flags, sock, loops, reader, clocks, sent, writer
<1>1. CASE WriteChunk
  <2>1. Chunk \in 0 .. unsent /\ Chunk \in Nat /\ unsent \in Nat
    BY <1>1, ChunkType DEF WriteChunk
  <2>2. /\ sndNxt \in SeqNums /\ rcvNxt \in SeqNums /\ acked' \in SeqNums
        /\ unsent \in 0 .. ReqLen /\ written \in 0 .. ReqLen
        /\ unsent + written <= ReqLen
    BY <1>1 DEF TypeOK, ConnTypeOK, LoopsTypeOK, CallsTypeOK, WriteChunk
  <2>3. Plus(sndNxt, Chunk) \in SeqNums
    <3>1. Chunk \in 0 .. SeqSpace - 1
      BY <2>1, <2>2, StreamAssumption, SeqSpaceAssumption
    <3> QED
      BY <2>2, <3>1, PlusType
  <2>4. Plain(sndNxt, rcvNxt, Bytes(written, Chunk), FALSE) \in Segment
    <3>1. Bytes(written, Chunk) \in Seq(Nat)
      BY <2>1, <2>2, BytesType, StreamAssumption
    <3> QED
      BY <2>2, <3>1 DEF Plain, Segment
  <2>5. /\ written + Chunk \in 0 .. ReqLen /\ unsent - Chunk \in 0 .. ReqLen
        /\ (unsent - Chunk) + (written + Chunk) <= ReqLen
    BY <2>1, <2>2, StreamAssumption
  <2>6. /\ unsent' \in 0 .. ReqLen /\ written' \in 0 .. ReqLen
        /\ unsent' + written' <= ReqLen /\ sndNxt' \in SeqNums
        /\ toServer' \subseteq Segment
    BY <1>1, <2>3, <2>4, <2>5
       DEF TypeOK, ConnTypeOK, LoopsTypeOK, CallsTypeOK, WriteChunk
  <2>7. ConnTypeOK'
    BY <1>1, <2>2, <2>6 DEF TypeOK, ConnTypeOK, WriteChunk
  <2>8. LoopsTypeOK'
    BY <1>1, <2>2, <2>6 DEF TypeOK, LoopsTypeOK, WriteChunk
  <2>9. CallsTypeOK'
    BY <1>1, <2>2, <2>6 DEF TypeOK, CallsTypeOK, WriteChunk
  <2> QED
    BY <2>7, <2>8, <2>9 DEF TypeOK
<1>2. CASE WriteFails
  BY <1>2, StreamAssumption
     DEF TypeOK, ConnTypeOK, LoopsTypeOK, CallsTypeOK, WriteFails
<1>3. ASSUME NEW n \in 1 .. ReqLen, WriteCall(n)
      PROVE  TypeOK'
  BY <1>3, StreamAssumption
     DEF TypeOK, ConnTypeOK, LoopsTypeOK, CallsTypeOK, WriteCall
<1> QED
  BY <1>1, <1>2, <1>3 DEF Write

LEMMA CloseType ==
  ASSUME TypeOK, Close \/ CloseStop \/ CloseRaw
  PROVE  TypeOK'
<1> USE DEF seqs, flags, sock, loops, reader, clocks, sent, writer
<1>1. CASE Close
  <2>1. sndNxt \in SeqNums /\ rcvNxt \in SeqNums /\ 1 \in 0 .. SeqSpace - 1
    BY StreamAssumption, SeqSpaceAssumption
       DEF TypeOK, ConnTypeOK, LoopsTypeOK, CallsTypeOK
  <2>2. Plus(sndNxt, 1) \in SeqNums
    BY <2>1, PlusType
  <2>3. Plain(sndNxt, rcvNxt, << >>, TRUE) \in Segment
    <3>1. << >> \in Seq(Nat)
      OBVIOUS
    <3> QED
      BY <2>1, <3>1 DEF Plain, Segment
  <2>4. sndNxt' \in SeqNums /\ acked' \in SeqNums /\ toServer' \subseteq Segment
    BY <1>1, <2>1, <2>2, <2>3
       DEF TypeOK, ConnTypeOK, LoopsTypeOK, CallsTypeOK, Close
  <2> QED
    BY <1>1, <2>4
       DEF TypeOK, ConnTypeOK, LoopsTypeOK, CallsTypeOK, Close, Broadcast
<1>2. CASE CloseStop
  BY <1>2 DEF TypeOK, ConnTypeOK, LoopsTypeOK, CallsTypeOK, CloseStop
<1>3. CASE CloseRaw
  BY <1>3 DEF TypeOK, ConnTypeOK, LoopsTypeOK, CallsTypeOK, CloseRaw
<1> QED
  BY <1>1, <1>2, <1>3

LEMMA EnvironmentType ==
  ASSUME TypeOK, Environment
  PROVE  TypeOK'
<1> USE DEF Environment, RawError, ConnectDue, TransferDue,
            seqs, flags, sock, loops, reader, clocks, sent, writer
<1>1. ConnTypeOK'
  BY DEF TypeOK, ConnTypeOK
<1>2. LoopsTypeOK'
  BY DEF TypeOK, LoopsTypeOK
<1>3. CallsTypeOK'
  BY DEF TypeOK, CallsTypeOK
<1> QED
  BY <1>1, <1>2, <1>3 DEF TypeOK

\* Every variable keeps its type, and the queues their bounds.
THEOREM Typing == Spec => []TypeOK
<1>1. Init => TypeOK
  BY InitType
<1>2. TypeOK /\ [Next]_vars => TypeOK'
  <2> SUFFICES ASSUME TypeOK, [Next]_vars PROVE TypeOK'
    OBVIOUS
  <2>1. CASE Next
    BY <2>1, RawReadType, HandshakeType, PumpType, RecvType, ReadType, WriteType,
       CloseType, EnvironmentType DEF Next
  <2>2. CASE UNCHANGED vars
    BY <2>2
       DEF TypeOK, ConnTypeOK, LoopsTypeOK, CallsTypeOK, vars, seqs, flags,
           sock, loops, reader, clocks, sent, writer
  <2> QED
    BY <2>1, <2>2
<1> QED
  BY <1>1, <1>2, PTL DEF Spec

-----------------------------------------------------------------------------
(* The received stream *)

\* How many sequence numbers of the server's stream, its FIN included, the
\* client has taken.
Taken == Received + (IF gotFIN THEN 1 ELSE 0)

\* Before the connection is up nothing has been received, read or closed.
DialInv ==
  hs # "up" => /\ recv = "none" /\ ~closed
               /\ delivered = << >> /\ readBuf = << >> /\ ~gotFIN

\* rcvNxt names the position right behind what was taken: this is why a segment
\* that starts at rcvNxt continues the stream.
SeqInv == hs = "up" => rcvNxt = Plus(IRS, 1 + Taken)

StreamInv == DialInv /\ SeqInv /\ StreamIntegrity /\ AckedIsReadable

LEMMA TakenType ==
  TypeOK /\ StreamIntegrity =>
    /\ Received \in 0 .. RespLen /\ Taken \in Nat /\ 1 + Taken < SeqSpace
    /\ Len(delivered) \in Nat /\ Len(readBuf) \in Nat
<1> SUFFICES ASSUME TypeOK, StreamIntegrity
             PROVE  /\ Received \in 0 .. RespLen /\ Taken \in Nat
                    /\ 1 + Taken < SeqSpace
                    /\ Len(delivered) \in Nat /\ Len(readBuf) \in Nat
  OBVIOUS
<1>1. Len(delivered) \in Nat /\ Len(readBuf) \in Nat
  BY DEF TypeOK, ConnTypeOK, CallsTypeOK
<1>2. Received \in 0 .. RespLen
  BY <1>1, StreamAssumption DEF Received, StreamIntegrity
<1>3. Taken = Received \/ Taken = Received + 1
  BY <1>2, StreamAssumption DEF Taken
<1> QED
  BY <1>1, <1>2, <1>3, StreamAssumption, SeqSpaceAssumption

LEMMA StreamInit == Init => StreamInv
<1> SUFFICES ASSUME Init PROVE StreamInv
  OBVIOUS
<1>1. Received = 0 /\ delivered \o readBuf = << >>
  BY DEF Init, Received
<1>2. Bytes(0, 0) = << >>
  BY DEF Bytes
<1>3. StreamIntegrity
  BY <1>1, <1>2, StreamAssumption DEF Init, StreamIntegrity
<1> QED
  BY <1>3 DEF Init, StreamInv, DialInv, SeqInv, AckedIsReadable

\* A step that leaves what was received and acknowledged alone.
LEMMA StreamFrame ==
  ASSUME StreamInv,
         UNCHANGED <<rcvNxt, readBuf, delivered, gotFIN, closed, acked>>,
         hs' = hs \/ (hs # "up" /\ hs' # "up"),
         recv' = recv \/ hs = "up"
  PROVE  StreamInv'
<1>1. Received' = Received /\ Taken' = Taken
  BY DEF Received, Taken
<1>2. DialInv' /\ SeqInv'
  BY <1>1 DEF StreamInv, DialInv, SeqInv
<1>3. StreamIntegrity' /\ AckedIsReadable'
  BY <1>1 DEF StreamInv, StreamIntegrity, AckedIsReadable
<1> QED
  BY <1>2, <1>3 DEF StreamInv

\* An acknowledgment sent with ack = rcvNxt covers what was taken.
LEMMA AckOfRcvNxt ==
  TypeOK /\ StreamIntegrity /\ SeqInv /\ acked = rcvNxt => AckedIsReadable
<1> SUFFICES ASSUME TypeOK, StreamIntegrity, SeqInv, acked = rcvNxt
             PROVE  AckedIsReadable
  OBVIOUS
<1>1. Taken \in 0 .. Taken /\ Taken = Received + (IF gotFIN THEN 1 ELSE 0)
  BY TakenType DEF Taken
<1> QED
  BY <1>1 DEF SeqInv, AckedIsReadable

\* The same two facts of the state after a step.
LEMMA TakenTypeNext ==
  (TypeOK /\ StreamIntegrity)' =>
    (Received \in 0 .. RespLen /\ Taken \in Nat /\ 1 + Taken < SeqSpace)'
<1>1. TypeOK /\ StreamIntegrity =>
        Received \in 0 .. RespLen /\ Taken \in Nat /\ 1 + Taken < SeqSpace
  BY TakenType
<1> QED
  BY <1>1, PTL

LEMMA AckOfRcvNxtNext ==
  (TypeOK /\ StreamIntegrity /\ SeqInv /\ acked = rcvNxt)' => AckedIsReadable'
BY AckOfRcvNxt, PTL

LEMMA StreamReceiveSYNACK ==
  ASSUME TypeOK, TypeOK', StreamInv, ReceiveSYNACK
  PROVE  StreamInv'
<1> USE DEF seqs, flags, sock, loops, reader, clocks, sent, writer
<1>1. /\ hs # "up"
      /\ UNCHANGED <<readBuf, delivered, gotFIN, closed>>
      /\ readBuf = << >> /\ delivered = << >> /\ ~gotFIN /\ ~closed
  BY DEF ReceiveSYNACK, StreamInv, DialInv
<1>2. Received' = 0 /\ Taken' = 0 /\ Received = 0
  BY <1>1 DEF Received, Taken
<1>3. StreamIntegrity'
  BY <1>1, <1>2 DEF StreamInv, StreamIntegrity
<1>4. rcvNxt' = Plus(IRS, 1)
  <2>1. Head(packets) \in Queued
    BY HeadTail DEF TypeOK, LoopsTypeOK, ReceiveSYNACK
  <2> QED
    BY <2>1, SYNACKIsTheServers DEF ReceiveSYNACK
<1>5. SeqInv'
  BY <1>2, <1>4 DEF SeqInv
<1>6. CASE hs' = "up"
  <2>1. acked' = rcvNxt'
    BY <1>6 DEF ReceiveSYNACK
  <2>2. AckedIsReadable'
    BY <1>1, <1>2, <1>4, <2>1 DEF AckedIsReadable
  <2> QED
    BY <1>3, <1>5, <1>6, <2>2 DEF StreamInv, DialInv
<1>7. CASE hs' = "failed"
  <2>1. recv' = "none"
    BY <1>1, <1>7 DEF ReceiveSYNACK, StreamInv, DialInv
  <2> QED
    BY <1>1, <1>3, <1>5, <1>7, <2>1 DEF StreamInv, DialInv, AckedIsReadable
<1> QED
  BY <1>6, <1>7 DEF ReceiveSYNACK

\* handleSegment: what starts at rcvNxt continues the stream.
LEMMA StreamHandleInOrder ==
  ASSUME TypeOK, TypeOK', StreamInv, HandleInOrder
  PROVE  StreamInv'
<1> DEFINE s == Head(packets)
           n == Len(s.data)
           f == IF s.fin THEN 1 ELSE 0
<1>1. s \in Queued /\ hs = "up" /\ hs' = "up"
  <2>1. s \in Queued /\ recv = "running" /\ hs' = hs
    BY HeadTail DEF TypeOK, LoopsTypeOK, HandleInOrder, Receive
  <2> QED
    BY <2>1 DEF StreamInv, DialInv
<1>2. /\ delivered' = delivered /\ closed' = closed
      /\ readBuf' = readBuf \o s.data
      /\ gotFIN' = (gotFIN \/ s.fin)
      /\ rcvNxt' = Plus(rcvNxt, n + f)
      /\ s.seq = rcvNxt
      /\ acked' = rcvNxt' \/ (n + f = 0 /\ acked' = acked)
  <2>1. n + f > 0 \/ n + f = 0
    <3>1. n \in Nat
      BY <1>1, QueuedType
    <3>2. f \in {0, 1}
      OBVIOUS
    <3> HIDE DEF n, f
    <3> QED
      BY <3>1, <3>2
  <2> QED
    BY <2>1
       DEF HandleInOrder, Receive, seqs, flags, reader, sent, Ignores,
           Continues, Occupies
<1>3. /\ Received \in 0 .. RespLen /\ Taken \in Nat /\ 1 + Taken < SeqSpace
      /\ Len(delivered) \in Nat /\ Len(readBuf) \in Nat
  BY TakenType DEF StreamInv
<1>4. rcvNxt = Plus(IRS, 1 + Taken)
  BY <1>1 DEF StreamInv, SeqInv
<1>5. s.data \in Seq(Nat) /\ n \in 0 .. RespLen /\ s.fin \in BOOLEAN
  BY <1>1, QueuedType
<1>6. readBuf \in Seq(Nat) /\ delivered \in Seq(Nat) /\ gotFIN \in BOOLEAN
  BY DEF TypeOK, ConnTypeOK, CallsTypeOK
<1>7. f \in {0, 1} /\ (f = 1 <=> s.fin) /\ n = Len(s.data)
  BY <1>5
<1> HIDE DEF s, n, f
<1>8. Received' = Received + n
  <2>1. Len(readBuf') = Len(readBuf) + n
    BY <1>2, <1>5, <1>6, <1>7
  <2> QED
    BY <1>2, <1>3, <1>5, <2>1 DEF Received
<1>9. CASE s.data = << >> /\ ~s.fin
  <2>1. n = 0 /\ f = 0 /\ n + f = 0
    BY <1>9, <1>7
  <2>2. readBuf' = readBuf /\ gotFIN' = gotFIN
    BY <1>2, <1>6, <1>9
  <2>3. rcvNxt' = rcvNxt
    <3>1. rcvNxt' = Plus(rcvNxt, 0) /\ rcvNxt \in SeqNums
      BY <1>2, <2>1 DEF TypeOK, ConnTypeOK
    <3> QED
      BY <3>1, SeqSpaceAssumption DEF Plus, SeqNums
  <2>4. Received' = Received /\ Taken' = Taken
    BY <1>2, <2>2 DEF Received, Taken
  <2>5. SeqInv' /\ DialInv'
    BY <1>1, <1>4, <2>3, <2>4 DEF SeqInv, DialInv
  <2>6. StreamIntegrity'
    BY <1>2, <2>2, <2>4 DEF StreamInv, StreamIntegrity
  <2>7. AckedIsReadable'
    <3>1. CASE acked' = rcvNxt'
      BY <2>5, <2>6, <3>1, AckOfRcvNxtNext
    <3>2. CASE acked' = acked
      BY <1>1, <2>2, <2>4, <3>2 DEF StreamInv, AckedIsReadable
    <3> QED
      BY <1>2, <3>1, <3>2
  <2> QED
    BY <2>5, <2>6, <2>7 DEF StreamInv
<1>10. ASSUME NEW i \in 0 .. RespLen, NEW m \in 0 .. RespLen - i,
             s.seq = Plus(IRS, 1 + i), s.data = Bytes(i, m),
             s.fin => i + m = RespLen
      PROVE  StreamInv'
  <2>1. /\ i \in Nat /\ m \in Nat /\ i + m <= RespLen /\ 1 + i < SeqSpace
        /\ 1 + i \in Nat /\ 1 + Taken \in Nat
    BY <1>3, StreamAssumption, SeqSpaceAssumption
  <2>2. i = Taken
    <3>1. 1 + i = 1 + Taken
      BY <1>2, <1>3, <1>4, <1>10, <2>1, PlusInjective, StreamAssumption
    <3> QED
      BY <1>3, <2>1, <3>1
  <2>3. n = m
    BY <1>10, <1>7, <2>1, BytesType
  <2>4. ~gotFIN /\ i = Received
    BY <1>3, <2>1, <2>2, StreamAssumption DEF StreamInv, StreamIntegrity, Taken
  <2>5. StreamIntegrity'
    <3>1. delivered' \o readBuf' = (delivered \o readBuf) \o s.data
      BY <1>2, <1>5, <1>6, JoinAssociative
    <3>2. (delivered \o readBuf) \o s.data = Bytes(0, Received) \o Bytes(0 + Received, m)
      <4>1. 0 + Received = Received
        BY <1>3
      <4> QED
        BY <1>10, <2>4, <4>1 DEF StreamInv, StreamIntegrity
    <3>3. Bytes(0, Received) \o Bytes(0 + Received, m) = Bytes(0, Received + m)
      <4>1. Received \in Nat /\ 0 \in Nat
        BY <1>3
      <4> QED
        BY <2>1, <4>1, BytesConcat
    <3>4. Received' <= RespLen /\ (gotFIN' => Received' = RespLen)
      BY <1>2, <1>8, <1>10, <2>1, <2>3, <2>4
    <3> QED
      BY <1>8, <2>3, <3>1, <3>2, <3>3, <3>4 DEF StreamIntegrity
  <2>6. SeqInv' /\ DialInv'
    <3>1. Taken' = Taken + (n + f)
      <4>1. Taken = Received
        BY <2>4 DEF Taken
      <4>2. Taken' = Received' + f
        BY <1>2, <1>7, <2>4 DEF Taken
      <4> QED
        BY <1>3, <1>5, <1>8, <1>7, <4>1, <4>2
    <3>2. /\ 1 + Taken' < SeqSpace /\ Taken' \in Nat /\ n + f \in Nat
      <4>1. Taken' \in Nat /\ 1 + Taken' < SeqSpace
        BY <2>5, TakenTypeNext
      <4> QED
        BY <1>5, <1>7, <4>1
    <3>3. Plus(Plus(IRS, 1 + Taken), n + f) = Plus(IRS, (1 + Taken) + (n + f))
      <4>1. (1 + Taken) + (n + f) < SeqSpace
        BY <1>3, <3>1, <3>2
      <4> QED
        BY <2>1, <3>2, <4>1, PlusPlus, StreamAssumption
    <3>4. (1 + Taken) + (n + f) = 1 + Taken'
      BY <1>3, <3>1, <3>2
    <3> QED
      BY <1>1, <1>2, <1>4, <3>3, <3>4 DEF SeqInv, DialInv
  <2>7. AckedIsReadable'
    <3>1. CASE acked' = rcvNxt'
      BY <2>5, <2>6, <3>1, AckOfRcvNxtNext
    <3>2. CASE n + f = 0 /\ acked' = acked
      <4>1. n = 0 /\ ~s.fin
        BY <1>5, <1>7, <3>2
      <4>2. Received' = Received /\ gotFIN' = gotFIN
        BY <1>2, <1>3, <1>6, <1>8, <4>1
      <4> QED
        BY <1>1, <3>2, <4>2 DEF StreamInv, AckedIsReadable
    <3> QED
      BY <1>2, <3>1, <3>2
  <2> QED
    BY <2>5, <2>6, <2>7 DEF StreamInv
<1> QED
  BY <1>1, <1>9, <1>10, QueuedCases

\* Read moves bytes from the buffer's front behind those it returned before.
LEMMA StreamReadBytes ==
  ASSUME TypeOK, StreamInv, NEW n \in 1 .. RespLen, ReadBytes(n)
  PROVE  StreamInv' /\ Received' = Received
<1>1. /\ n \in 1 .. Len(readBuf)
      /\ delivered' = delivered \o SubSeq(readBuf, 1, n)
      /\ readBuf' = SubSeq(readBuf, n + 1, Len(readBuf))
      /\ UNCHANGED <<hs, rcvNxt, gotFIN, closed, acked, recv>>
      /\ hs = "up"
  BY DEF ReadBytes, Reading, seqs, flags, loops, sent
<1>2. readBuf \in Seq(Nat) /\ delivered \in Seq(Nat)
  BY DEF TypeOK, ConnTypeOK, CallsTypeOK
<1> DEFINE p == SubSeq(readBuf, 1, n)
           q == SubSeq(readBuf, n + 1, Len(readBuf))
<1>3. /\ p \in Seq(Nat) /\ Len(p) = n
      /\ q \in Seq(Nat) /\ Len(q) = Len(readBuf) - n
      /\ p \o q = readBuf
  BY <1>1, <1>2, Cut
<1>4. delivered' = delivered \o p /\ readBuf' = q
  BY <1>1
<1> HIDE DEF p, q
<1>5. Received' = Received
  <2>1. Len(delivered') = Len(delivered) + n
    BY <1>2, <1>3, <1>4, Join
  <2>2. Len(readBuf') = Len(readBuf) - n
    BY <1>3, <1>4
  <2>3. Len(readBuf) \in Nat /\ Len(delivered) \in Nat
    BY <1>2
  <2> QED
    BY <2>1, <2>2, <2>3 DEF Received
<1>6. delivered' \o readBuf' = delivered \o readBuf
  BY <1>2, <1>3, <1>4, JoinAssociative
<1>7. StreamIntegrity'
  BY <1>1, <1>5, <1>6 DEF StreamInv, StreamIntegrity
<1>8. DialInv' /\ SeqInv' /\ AckedIsReadable'
  BY <1>1, <1>5 DEF StreamInv, DialInv, SeqInv, AckedIsReadable, Taken
<1> QED
  BY <1>5, <1>7, <1>8 DEF StreamInv

\* A segment sent now acknowledges rcvNxt.
LEMMA StreamAck ==
  ASSUME TypeOK', StreamInv,
         UNCHANGED <<rcvNxt, readBuf, delivered, gotFIN, hs, recv>>,
         acked' = rcvNxt', closed' = closed \/ hs = "up"
  PROVE  StreamInv'
<1>1. Received' = Received /\ Taken' = Taken
  BY DEF Received, Taken
<1>2. StreamIntegrity' /\ SeqInv' /\ DialInv'
  BY <1>1 DEF StreamInv, StreamIntegrity, SeqInv, DialInv
<1>3. AckedIsReadable'
  BY <1>2, AckOfRcvNxtNext
<1> QED
  BY <1>2, <1>3 DEF StreamInv

LEMMA StreamStep ==
  ASSUME TypeOK, TypeOK', StreamInv, [Next]_vars
  PROVE  StreamInv'
<1> USE DEF seqs, flags, sock, loops, reader, clocks, sent, writer
<1>1. ASSUME NEW s \in Packets, RawRead(s)
      PROVE  StreamInv'
  BY <1>1, StreamFrame DEF RawRead
<1>2. CASE Environment
  BY <1>2, StreamFrame DEF Environment, RawError, ConnectDue, TransferDue
<1>3. CASE Handshake \/ GiveUp
  <2>1. CASE SendSYN \/ SendSYNFails \/ DropBeforeSYNACK \/ GiveUp
    BY <2>1, StreamFrame DEF SendSYN, SendSYNFails, DropBeforeSYNACK, GiveUp
  <2> QED
    BY <1>3, <2>1, StreamReceiveSYNACK DEF Handshake
<1>4. CASE Pump \/ PumpStop
  BY <1>4, StreamFrame DEF Pump, PumpPacket, PumpReset, PumpError, PumpStop, Fail
<1>5. CASE Recv
  <2>1. CASE HandleClosed
    BY <2>1, StreamFrame DEF HandleClosed, Receive
  <2>2. CASE HandleOutOfOrder
    BY <2>2, StreamAck DEF HandleOutOfOrder, Receive
  <2>3. CASE RecvExit
    <3>1. hs = "up"
      BY <2>3 DEF RecvExit, StreamInv, DialInv
    <3> QED
      BY <2>3, <3>1, StreamFrame DEF RecvExit
  <2> QED
    BY <1>5, <2>1, <2>2, <2>3, StreamHandleInOrder DEF Recv
<1>6. CASE Read \/ TimerFire
  <2>1. CASE ReadTimeout \/ ReadEnd \/ ReadArm \/ ReadWait \/ TimerFire
    BY <2>1, StreamFrame DEF ReadTimeout, ReadEnd, ReadArm, ReadWait, TimerFire
  <2> QED
    BY <1>6, <2>1, StreamReadBytes DEF Read
<1>7. CASE Write \/ \E n \in 1 .. ReqLen : WriteCall(n)
  <2>1. CASE WriteChunk
    BY <2>1, StreamAck DEF WriteChunk
  <2>2. CASE WriteFails
    BY <2>2, StreamFrame DEF WriteFails
  <2>3. ASSUME NEW n \in 1 .. ReqLen, WriteCall(n)
        PROVE  StreamInv'
    BY <2>3, StreamFrame DEF WriteCall
  <2> QED
    BY <1>7, <2>1, <2>2, <2>3 DEF Write
<1>8. CASE Close
  <2>1. CASE ~closed /\ err = "none"
    BY <1>8, <2>1, StreamAck DEF Close, SendsFIN
  <2>2. CASE ~(~closed /\ err = "none")
    <3>1. /\ UNCHANGED <<hs, rcvNxt, readBuf, delivered, gotFIN, recv, acked>>
          /\ hs = "up"
      BY <1>8, <2>2 DEF Close, SendsFIN
    <3>2. Received' = Received /\ Taken' = Taken
      BY <3>1 DEF Received, Taken
    <3> QED
      BY <3>1, <3>2
         DEF StreamInv, DialInv, SeqInv, StreamIntegrity, AckedIsReadable
  <2> QED
    BY <2>1, <2>2
<1>9. CASE CloseStop \/ CloseRaw
  BY <1>9, StreamFrame DEF CloseStop, CloseRaw
<1>10. CASE UNCHANGED vars
  BY <1>10, StreamFrame DEF vars
<1> QED
  BY <1>1, <1>2, <1>3, <1>4, <1>5, <1>6, <1>7, <1>8, <1>9, <1>10 DEF Next

LEMMA StreamInvariant == Spec => []StreamInv
<1>1. Init => StreamInv
  BY StreamInit
<1>2. TypeOK /\ TypeOK' /\ StreamInv /\ [Next]_vars => StreamInv'
  BY StreamStep
<1> QED
  BY <1>1, <1>2, Typing, PTL DEF Spec

\* Read returns the server's stream, and its end only when it is complete.
THEOREM StreamIsIntact == Spec => []StreamIntegrity
<1>1. StreamInv => StreamIntegrity
  BY DEF StreamInv
<1> QED
  BY <1>1, StreamInvariant, PTL

\* What the client acknowledges it has, or has returned.
THEOREM AcknowledgedIsReadable == Spec => []AckedIsReadable
<1>1. StreamInv => AckedIsReadable
  BY DEF StreamInv
<1> QED
  BY <1>1, StreamInvariant, PTL

-----------------------------------------------------------------------------
(* Wake-ups *)

\* From the moment Read has found nothing to return until it is on the wait
\* list it holds the mutex, so what it found stays true; on the wait list, it
\* is woken by the step that makes it false.
SleepInv == read \in {"armed", "waiting"} => ~Ready

LEMMA SleepFrame ==
  ASSUME SleepInv, UNCHANGED <<readBuf, err, gotFIN, closed>>,
         read' \in {"idle", "woken"} \/ read' = read
  PROVE  SleepInv'
BY DEF SleepInv, Ready

\* A step under the mutex that broadcasts leaves nobody asleep.
LEMMA SleepBroadcast ==
  ASSUME TypeOK, MuFree, Broadcast
  PROVE  SleepInv'
BY DEF TypeOK, CallsTypeOK, MuFree, Broadcast, SleepInv

LEMMA SleepStep ==
  ASSUME TypeOK, SleepInv, [Next]_vars
  PROVE  SleepInv'
<1> USE DEF seqs, flags, sock, loops, reader, clocks, sent, writer
<1>1. ASSUME NEW s \in Packets, RawRead(s)
      PROVE  SleepInv'
  BY <1>1, SleepFrame DEF RawRead
<1>2. CASE Environment
  BY <1>2, SleepFrame DEF Environment, RawError, ConnectDue, TransferDue
<1>3. CASE Handshake \/ GiveUp
  BY <1>3, SleepFrame DEF Handshake, SendSYN, SendSYNFails, DropBeforeSYNACK,
                          ReceiveSYNACK, GiveUp
<1>4. CASE PumpPacket \/ PumpStop
  BY <1>4, SleepFrame DEF PumpPacket, PumpStop
<1>5. CASE PumpReset \/ PumpError
  BY <1>5, SleepBroadcast DEF PumpReset, PumpError, Fail
<1>6. CASE HandleClosed \/ HandleOutOfOrder \/ RecvExit
  BY <1>6, SleepFrame DEF HandleClosed, HandleOutOfOrder, RecvExit, Receive
<1>7. CASE HandleInOrder
  <2> DEFINE s == Head(packets)
             n == Len(s.data)
             occupies == n + (IF s.fin THEN 1 ELSE 0)
  <2>1. s \in Queued
    BY <1>7, HeadTail DEF TypeOK, LoopsTypeOK, HandleInOrder, Receive
  <2>2. n \in Nat /\ s.data \in Seq(Nat) /\ s.fin \in BOOLEAN
    BY <2>1, QueuedType
  <2>3. CASE occupies > 0
    BY <1>7, <2>3, SleepBroadcast DEF HandleInOrder, Receive, Occupies
  <2>4. CASE ~(occupies > 0)
    <3>1. n = 0 /\ ~s.fin
      <4>1. CASE s.fin
        <5>1. n + 1 > 0
          BY <2>2
        <5> QED
          BY <2>4, <4>1, <5>1
      <4>2. CASE ~s.fin
        <5>1. ~(n + 0 > 0)
          BY <2>4, <4>2
        <5> HIDE DEF n
        <5> QED
          BY <2>2, <4>2, <5>1
      <4> QED
        BY <4>1, <4>2
    <3>2. readBuf' = readBuf /\ gotFIN' = gotFIN
      <4>1. s.data = << >>
        BY <2>2, <3>1
      <4>2. readBuf \in Seq(Nat) /\ gotFIN \in BOOLEAN
        BY DEF TypeOK, ConnTypeOK
      <4> QED
        BY <1>7, <3>1, <4>1, <4>2 DEF HandleInOrder
    <3>3. UNCHANGED <<read, err, closed>>
      BY <1>7, <2>4 DEF HandleInOrder, Receive, Occupies
    <3> QED
      BY <3>2, <3>3, SleepFrame
  <2> QED
    BY <2>3, <2>4
<1>8. CASE ReadTimeout \/ ReadEnd \/ TimerFire
  BY <1>8, SleepFrame DEF ReadTimeout, ReadEnd, TimerFire, Broadcast
<1>9. ASSUME NEW n \in 1 .. RespLen, ReadBytes(n)
      PROVE  SleepInv'
  BY <1>9 DEF ReadBytes, SleepInv
<1>10. CASE ReadArm \/ ReadWait
  BY <1>10 DEF ReadArm, ReadWait, SleepInv, Ready
<1>11. CASE Write \/ \E n \in 1 .. ReqLen : WriteCall(n)
  BY <1>11, SleepFrame DEF Write, WriteChunk, WriteFails, WriteCall
<1>12. CASE Close
  BY <1>12, SleepBroadcast DEF Close
<1>13. CASE CloseStop \/ CloseRaw
  BY <1>13, SleepFrame DEF CloseStop, CloseRaw
<1>14. CASE UNCHANGED vars
  BY <1>14, SleepFrame DEF vars
<1> QED
  BY <1>1, <1>2, <1>3, <1>4, <1>5, <1>6, <1>7, <1>8, <1>9, <1>10, <1>11, <1>12,
     <1>13, <1>14 DEF Next, Pump, Recv, Read

\* A Read on the wait list has nothing it could return: no wake-up by data,
\* FIN, error or Close is ever lost.
THEOREM NoLostWakeup == Spec => []NoSleepOnReady
<1>1. Init => SleepInv
  BY DEF Init, SleepInv
<1>2. TypeOK /\ SleepInv /\ [Next]_vars => SleepInv'
  BY SleepStep
<1>3. SleepInv => NoSleepOnReady
  BY DEF SleepInv, NoSleepOnReady
<1> QED
  BY <1>1, <1>2, <1>3, Typing, PTL DEF Spec

-----------------------------------------------------------------------------
(* The byte stream *)

LEMMA StreamRefinesInit == Init => Stream!Init
BY DEF Init, Received, Stream!Init

\* Steps the reader does not see.
LEMMA StreamRefinesFrame ==
  ASSUME UNCHANGED <<readBuf, delivered, result, closed>>
  PROVE  UNCHANGED Stream!vars
BY DEF Received, Stream!vars

LEMMA StreamRefinesHandleInOrder ==
  ASSUME TypeOK, TypeOK', StreamInv, StreamInv', HandleInOrder
  PROVE  [Stream!Next]_(Stream!vars)
<1> DEFINE s == Head(packets)
           n == Len(s.data)
<1>1. /\ ~closed /\ UNCHANGED <<closed, delivered, result>>
      /\ readBuf' = readBuf \o s.data
  BY DEF HandleInOrder, Receive, Ignores, Continues, Occupies
<1>2. s \in Queued
  BY HeadTail DEF TypeOK, LoopsTypeOK, HandleInOrder, Receive
<1>3. s.data \in Seq(Nat) /\ n \in 0 .. RespLen
  BY <1>2, QueuedType
<1>4. /\ Received \in 0 .. RespLen /\ Received' \in 0 .. RespLen
      /\ Len(delivered) \in Nat /\ Len(readBuf) \in Nat
  BY TakenType, TakenTypeNext DEF StreamInv
<1> HIDE DEF s, n
<1>5. Received' = Received + n
  <2>1. Len(readBuf') = Len(readBuf) + n
    BY <1>1, <1>3, Join DEF TypeOK, ConnTypeOK, n
  <2> QED
    BY <1>1, <1>3, <1>4, <2>1 DEF Received
<1>6. CASE n = 0
  <2>1. Received' = Received
    BY <1>4, <1>5, <1>6
  <2> QED
    BY <1>1, <2>1 DEF Stream!vars
<1>7. CASE n > 0
  <2>1. n \in 1 .. RespLen - Received
    BY <1>3, <1>4, <1>5, <1>7, StreamAssumption
  <2>2. Stream!Arrive(n)
    BY <1>1, <1>5 DEF Stream!Arrive
  <2> QED
    BY <2>1, <2>2 DEF Stream!Next
<1> QED
  BY <1>3, <1>6, <1>7

LEMMA StreamRefinesRead ==
  ASSUME TypeOK, StreamInv, NEW n \in 1 .. RespLen, ReadBytes(n)
  PROVE  [Stream!Next]_(Stream!vars)
<1>1. /\ n \in 1 .. Len(readBuf)
      /\ delivered' = delivered \o SubSeq(readBuf, 1, n)
      /\ result' = "bytes" /\ closed' = closed
  BY DEF ReadBytes, flags
<1>2. readBuf \in Seq(Nat) /\ delivered \in Seq(Nat)
  BY DEF TypeOK, ConnTypeOK, CallsTypeOK
<1>3. /\ Len(delivered) \in Nat /\ Len(readBuf) \in Nat
      /\ Received = Len(delivered) + Len(readBuf)
  BY <1>2 DEF Received
<1>4. n \in 1 .. Received - Len(delivered)
  BY <1>1, <1>3
<1>5. SubSeq(readBuf, 1, n) = Bytes(Len(delivered), n)
  <2>1. delivered \o readBuf = Bytes(0, Received)
    BY DEF StreamInv, StreamIntegrity
  <2>2. ASSUME NEW k \in 1 .. n
        PROVE  readBuf[k] = Len(delivered) + k
    <3>1. (delivered \o readBuf)[Len(delivered) + k] = readBuf[k]
      BY <1>1, <1>2, <1>3
    <3>2. Bytes(0, Received)[Len(delivered) + k] = 0 + (Len(delivered) + k)
      <4>1. Len(delivered) + k \in 1 .. Received
        BY <1>1, <1>3
      <4> QED
        BY <4>1 DEF Bytes
    <3>3. 0 + (Len(delivered) + k) = Len(delivered) + k
      BY <1>3
    <3> QED
      BY <2>1, <3>1, <3>2, <3>3
  <2>3. SubSeq(readBuf, 1, n) = [k \in 1 .. n |-> readBuf[k]]
    BY <1>1, <1>2
  <2> QED
    BY <2>2, <2>3 DEF Bytes
<1>6. Stream!Read(n)
  <2>1. Received' = Received
    BY StreamReadBytes
  <2> QED
    BY <1>1, <1>5, <2>1 DEF Stream!Read, Stream!Bytes, Bytes
<1> QED
  BY <1>4, <1>6 DEF Stream!Next

LEMMA StreamRefinesReadEnd ==
  ASSUME TypeOK, StreamInv, ReadEnd
  PROVE  [Stream!Next]_(Stream!vars)
<1>1. /\ readBuf = << >> /\ Ready
      /\ UNCHANGED <<readBuf, delivered, closed>>
      /\ result' = IF err # "none" THEN "err" ELSE "eof"
  BY DEF ReadEnd, flags, MayEnd
<1>2. Received' = Received /\ Len(delivered) = Received
  <2>1. Len(delivered) \in Nat /\ Len(readBuf) = 0
    BY <1>1 DEF TypeOK, CallsTypeOK
  <2> QED
    BY <1>1, <2>1 DEF Received
<1>3. CASE err # "none"
  BY <1>1, <1>2, <1>3 DEF Stream!Next, Stream!ReadErr, Stream!Drained
<1>4. CASE err = "none"
  <2>1. Received = RespLen \/ closed
    BY <1>1, <1>4 DEF Ready, StreamInv, StreamIntegrity
  <2> QED
    BY <1>1, <1>2, <1>4, <2>1 DEF Stream!Next, Stream!ReadEOF, Stream!Drained
<1> QED
  BY <1>3, <1>4

LEMMA StreamRefinesNext ==
  ASSUME TypeOK, TypeOK', StreamInv, StreamInv', [Next]_vars
  PROVE  [Stream!Next]_(Stream!vars)
<1> USE DEF seqs, flags, sock, loops, reader, clocks, sent, writer
<1>1. ASSUME NEW s \in Packets, RawRead(s)
      PROVE  UNCHANGED Stream!vars
  BY <1>1, StreamRefinesFrame DEF RawRead
<1>2. CASE Environment
  BY <1>2, StreamRefinesFrame DEF Environment, RawError, ConnectDue, TransferDue
<1>3. CASE Handshake \/ GiveUp
  BY <1>3, StreamRefinesFrame
     DEF Handshake, SendSYN, SendSYNFails, DropBeforeSYNACK, ReceiveSYNACK, GiveUp
<1>4. CASE Pump \/ PumpStop
  BY <1>4, StreamRefinesFrame
     DEF Pump, PumpPacket, PumpReset, PumpError, PumpStop, Fail
<1>5. CASE HandleClosed \/ HandleOutOfOrder \/ RecvExit
  BY <1>5, StreamRefinesFrame
     DEF HandleClosed, HandleOutOfOrder, RecvExit, Receive
<1>6. CASE ReadTimeout
  <2>1. UNCHANGED <<delivered, closed>> /\ Received' = Received /\ result' = "timeout"
    BY <1>6 DEF ReadTimeout, Received
  <2> QED
    BY <2>1 DEF Stream!Next, Stream!ReadTimeout
<1>7. CASE ReadArm \/ ReadWait \/ TimerFire
  BY <1>7, StreamRefinesFrame DEF ReadArm, ReadWait, TimerFire
<1>8. CASE Write \/ \E n \in 1 .. ReqLen : WriteCall(n)
  BY <1>8, StreamRefinesFrame DEF Write, WriteChunk, WriteFails, WriteCall
<1>9. CASE Close
  <2>1. /\ UNCHANGED <<delivered, readBuf, result>> /\ Received' = Received
        /\ closed' = TRUE
    BY <1>9 DEF Close, Received
  <2> QED
    BY <2>1 DEF Stream!Next, Stream!Close
<1>10. CASE CloseStop \/ CloseRaw
  BY <1>10, StreamRefinesFrame DEF CloseStop, CloseRaw
<1>11. CASE UNCHANGED vars
  BY <1>11, StreamRefinesFrame DEF vars
<1> QED
  BY <1>1, <1>2, <1>3, <1>4, <1>5, <1>6, <1>7, <1>8, <1>9, <1>10, <1>11,
     StreamRefinesHandleInOrder, StreamRefinesRead, StreamRefinesReadEnd
     DEF Next, Recv, Read

\* To its reader the crafted connection is a byte stream: every step is a step
\* of ByteStream or invisible.
THEOREM Refinement == Spec => ImplementsByteStream
<1>1. Init => Stream!Init
  BY StreamRefinesInit
<1>2. TypeOK /\ TypeOK' /\ StreamInv /\ StreamInv' /\ [Next]_vars
        => [Stream!Next]_(Stream!vars)
  BY StreamRefinesNext
<1> QED
  BY <1>1, <1>2, Typing, StreamInvariant, PTL
     DEF Spec, ImplementsByteStream, Stream!Spec

\* Read reports an error or the end only when every acknowledged byte has been
\* returned.
THEOREM AcknowledgedIsDelivered == Spec => EndsAfterAcked
<1> DEFINE A == result' # result /\ result' \in {"err", "eof"}
                  => \E k \in 0 .. Len(delivered) + (IF gotFIN THEN 1 ELSE 0) :
                       acked = Plus(IRS, 1 + k)
<1>1. TypeOK /\ StreamInv /\ [Next]_vars => [A]_vars
  <2> SUFFICES ASSUME TypeOK, StreamInv, Next,
                      result' # result, result' \in {"err", "eof"}
               PROVE  \E k \in 0 .. Len(delivered) + (IF gotFIN THEN 1 ELSE 0) :
                        acked = Plus(IRS, 1 + k)
    OBVIOUS
  <2>1. ReadEnd
    BY DEF Next, RawRead, Environment, RawError, ConnectDue, TransferDue,
           Handshake, SendSYN, SendSYNFails, DropBeforeSYNACK, ReceiveSYNACK, GiveUp,
           Pump, PumpPacket, PumpReset, PumpError, PumpStop, Fail,
           Recv, HandleClosed, HandleOutOfOrder, HandleInOrder, RecvExit, Receive,
           Read, ReadTimeout, ReadBytes, ReadArm, ReadWait, TimerFire,
           WriteCall, Write, WriteChunk, WriteFails, Close, CloseStop, CloseRaw,
           reader
  <2>2. hs = "up" /\ readBuf = << >>
    BY <2>1 DEF ReadEnd, Reading, MayEnd
  <2>3. Received = Len(delivered)
    BY <2>2 DEF TypeOK, CallsTypeOK, Received
  <2> QED
    BY <2>2, <2>3 DEF StreamInv, AckedIsReadable
<1> QED
  BY <1>1, Typing, StreamInvariant, PTL DEF Spec, EndsAfterAcked

-----------------------------------------------------------------------------
(* The request *)

Carries(s, k) == \E n \in 1 .. Len(s.data) : s.data[n] = k

\* Every byte written is in one place, at its own sequence number.
Placed ==
  /\ \A s \in toServer : \A n \in 1 .. Len(s.data) :
       /\ s.data[n] \in 1 .. written
       /\ Plus(s.seq, n - 1) = Plus(ISS, s.data[n])
  /\ \A k \in 1 .. written : \E s \in toServer : Carries(s, k)
  /\ \A s, t \in toServer : \A k \in 1 .. written :
       Carries(s, k) /\ Carries(t, k) => s = t

\* A FIN is behind the last of them, and of a Close.
OneFin ==
  /\ \A s, t \in toServer : s.fin /\ t.fin => s = t
  /\ \A s \in toServer : s.fin => closed /\ s.seq = Plus(ISS, 1 + written)

\* sndNxt is behind the last byte until a Close, which no Write outlasts.
Sending ==
  /\ hs # "up" => /\ written = 0 /\ unsent = 0 /\ ~closed
                  /\ \A s \in toServer : s.data = << >> /\ ~s.fin
  /\ hs = "up" /\ ~closed => sndNxt = Plus(ISS, 1 + written)
  /\ closed => unsent = 0

SentInv == Placed /\ OneFin /\ Sending

LEMMA SentInit == Init => SentInv
BY DEF Init, SentInv, Placed, OneFin, Sending

\* A step that sends nothing.
LEMMA SentFrame ==
  ASSUME SentInv, UNCHANGED <<toServer, written>>,
         closed' = closed,
         hs' = hs \/ (hs # "up" /\ (hs' = "up" => sndNxt' = Plus(ISS, 1))),
         sndNxt' = sndNxt \/ hs # "up",
         unsent' = unsent \/ unsent' = 0 \/ (hs = "up" /\ ~closed)
  PROVE  SentInv'
<1>1. Placed'
  BY DEF SentInv, Placed
<1>2. OneFin'
  BY DEF SentInv, OneFin
<1>3. Sending'
  <2>1. CASE hs # "up"
    BY <2>1 DEF SentInv, Sending
  <2>2. CASE hs = "up"
    BY <2>2 DEF SentInv, Sending
  <2> QED  BY <2>1, <2>2
<1> QED  BY <1>1, <1>2, <1>3 DEF SentInv

\* The next chunk carries the next bytes, at sndNxt.
LEMMA SentWriteChunk ==
  ASSUME TypeOK, SentInv, WriteChunk
  PROVE  SentInv'
<1> DEFINE s0 == Plain(sndNxt, rcvNxt, Bytes(written, Chunk), FALSE)
<1>1. /\ Chunk \in Nat /\ written \in Nat /\ written + Chunk <= ReqLen /\ ReqLen \in Nat
      /\ ReqLen + 2 < SeqSpace /\ ISS \in SeqNums /\ SeqSpace \in Nat
  <2>1. Chunk \in 0 .. unsent /\ Chunk \in Nat /\ unsent \in Nat
    BY ChunkType DEF WriteChunk
  <2>2. written \in 0 .. ReqLen /\ unsent + written <= ReqLen
    BY DEF TypeOK, CallsTypeOK
  <2> QED  BY <2>1, <2>2, StreamAssumption, SeqSpaceAssumption
<1>2. /\ hs = "up" /\ ~closed /\ sndNxt = Plus(ISS, 1 + written)
      /\ UNCHANGED <<hs, closed>> /\ written' = written + Chunk /\ sndNxt' = Plus(sndNxt, Chunk)
      /\ toServer' = toServer \cup {s0}
  BY DEF SentInv, Sending, WriteChunk, flags
<1>3. /\ s0.seq = sndNxt /\ ~s0.fin /\ s0.data = Bytes(written, Chunk)
  BY DEF Plain
<1>4. /\ Len(s0.data) = Chunk /\ \A n \in 1 .. Chunk : s0.data[n] = written + n
  <2>1. Len(Bytes(written, Chunk)) = Chunk
    BY <1>1, BytesType
  <2>2. \A n \in 1 .. Chunk : Bytes(written, Chunk)[n] = written + n
    BY DEF Bytes
  <2> QED  BY <1>3, <2>1, <2>2
<1> HIDE DEF s0
<1>5. \A k \in 1 .. written' : Carries(s0, k) <=> k \notin 1 .. written
  <2> SUFFICES ASSUME NEW k \in 1 .. written' PROVE Carries(s0, k) <=> k \notin 1 .. written
    OBVIOUS
  <2>1. CASE k \in 1 .. written
    BY <1>1, <1>4, <2>1 DEF Carries
  <2>2. CASE k \notin 1 .. written
    <3>1. k - written \in 1 .. Chunk /\ written + (k - written) = k
      BY <1>1, <1>2, <2>2
    <3> QED  BY <1>4, <2>2, <3>1 DEF Carries
  <2> QED  BY <2>1, <2>2
<1>6. \A s \in toServer : \A k \in 1 .. written' : Carries(s, k) => k \in 1 .. written
  BY DEF SentInv, Placed, Carries
<1>7. Placed'
  <2>1. ASSUME NEW s \in toServer', NEW n \in 1 .. Len(s.data)
        PROVE  s.data[n] \in 1 .. written' /\ Plus(s.seq, n - 1) = Plus(ISS, s.data[n])
    <3>1. CASE s \in toServer
      <4>1. s.data[n] \in 1 .. written /\ Plus(s.seq, n - 1) = Plus(ISS, s.data[n])
        BY <2>1, <3>1 DEF SentInv, Placed
      <4> QED  BY <1>1, <1>2, <4>1
    <3>2. CASE s = s0
      <4>1. n \in 1 .. Chunk /\ s.data[n] = written + n
        BY <1>4, <2>1, <3>2
      <4>2. Plus(Plus(ISS, 1 + written), n - 1) = Plus(ISS, (1 + written) + (n - 1))
        BY <1>1, <4>1, PlusPlus
      <4>3. (1 + written) + (n - 1) = written + n
        BY <1>1, <4>1
      <4> QED  BY <1>1, <1>2, <1>3, <3>2, <4>1, <4>2, <4>3
    <3> QED  BY <1>2, <3>1, <3>2
  <2>2. ASSUME NEW k \in 1 .. written' PROVE \E s \in toServer' : Carries(s, k)
    <3>1. CASE k \in 1 .. written
      BY <1>2, <3>1 DEF SentInv, Placed
    <3> QED  BY <1>2, <1>5, <3>1
  <2>3. ASSUME NEW s \in toServer', NEW t \in toServer', NEW k \in 1 .. written',
               Carries(s, k), Carries(t, k)
        PROVE  s = t
    <3>1. CASE k \in 1 .. written
      <4>1. s \in toServer /\ t \in toServer
        BY <1>2, <1>5, <2>3, <3>1
      <4> QED  BY <2>3, <3>1, <4>1 DEF SentInv, Placed
    <3>2. CASE k \notin 1 .. written
      BY <1>2, <1>6, <2>3, <3>2
    <3> QED  BY <3>1, <3>2
  <2> QED  BY <2>1, <2>2, <2>3 DEF Placed
<1>8. \A s \in toServer' : ~s.fin
  BY <1>2, <1>3 DEF SentInv, OneFin
<1>9. OneFin'
  BY <1>8 DEF OneFin
<1>10. Sending'
  <2>1. Plus(Plus(ISS, 1 + written), Chunk) = Plus(ISS, (1 + written) + Chunk)
    BY <1>1, PlusPlus
  <2>2. (1 + written) + Chunk = 1 + written'
    BY <1>1, <1>2
  <2> QED  BY <1>2, <2>1, <2>2 DEF Sending
<1> QED  BY <1>7, <1>9, <1>10 DEF SentInv

\* Close sends its FIN the first time only.
LEMMA SentClose ==
  ASSUME SentInv, Close
  PROVE  SentInv'
<1>1. hs = "up" /\ hs' = hs /\ closed' /\ unsent = 0 /\ unsent' = 0 /\ written' = written
  BY DEF Close, MuFree, writer
<1>2. CASE SendsFIN
  <2> DEFINE s0 == Plain(sndNxt, rcvNxt, << >>, TRUE)
  <2>1. ~closed /\ sndNxt = Plus(ISS, 1 + written) /\ toServer' = toServer \cup {s0}
    BY <1>1, <1>2 DEF SentInv, Sending, SendsFIN, Close
  <2>2. s0.fin /\ s0.seq = sndNxt /\ s0.data = << >>
    BY DEF Plain
  <2> HIDE DEF s0
  <2>3. Len(s0.data) = 0 /\ \A k : ~Carries(s0, k)
    BY <2>2 DEF Carries
  <2>4. \A s \in toServer : ~s.fin
    BY <2>1 DEF SentInv, OneFin
  <2>5. Placed'
    BY <1>1, <2>1, <2>3 DEF SentInv, Placed
  <2>6. OneFin'
    BY <1>1, <2>1, <2>2, <2>4 DEF OneFin
  <2>7. Sending'
    BY <1>1 DEF Sending
  <2> QED  BY <2>5, <2>6, <2>7 DEF SentInv
<1>3. CASE ~SendsFIN
  <2>1. toServer' = toServer
    BY <1>3 DEF Close, sent
  <2>2. Placed' /\ OneFin'
    BY <1>1, <2>1 DEF SentInv, Placed, OneFin
  <2> QED  BY <1>1, <2>2 DEF SentInv, Sending
<1> QED  BY <1>2, <1>3

LEMMA SentStep ==
  ASSUME TypeOK, SentInv, [Next]_vars
  PROVE  SentInv'
<1> USE DEF seqs, flags, sock, loops, reader, clocks, sent, writer
<1>1. ASSUME NEW s \in Packets, RawRead(s)
      PROVE  SentInv'
  BY <1>1, SentFrame DEF RawRead
<1>2. CASE Environment
  BY <1>2, SentFrame DEF Environment, RawError, ConnectDue, TransferDue
<1>3. CASE Handshake \/ GiveUp
  <2>1. CASE SendSYN
    <3>1. toServer' = {Syn(ISS, 0, NoMSS)} /\ hs # "up" /\ hs' # "up" /\ UNCHANGED <<written, unsent, closed>>
      BY <2>1 DEF SendSYN
    <3>2. \A s \in toServer' : s.data = << >> /\ ~s.fin
      BY <3>1 DEF Syn
    <3>3. written = 0 /\ unsent = 0 /\ ~closed
      BY <3>1 DEF SentInv, Sending
    <3> QED  BY <3>1, <3>2, <3>3 DEF SentInv, Placed, OneFin, Sending
  <2>2. CASE SendSYNFails \/ DropBeforeSYNACK \/ GiveUp
    BY <2>2, SentFrame DEF SendSYNFails, DropBeforeSYNACK, GiveUp
  <2>3. CASE ReceiveSYNACK
    BY <2>3, SentFrame DEF ReceiveSYNACK
  <2> QED  BY <1>3, <2>1, <2>2, <2>3 DEF Handshake
<1>4. CASE Pump \/ PumpStop
  BY <1>4, SentFrame DEF Pump, PumpPacket, PumpReset, PumpError, PumpStop, Fail
<1>5. CASE Recv
  BY <1>5, SentFrame DEF Recv, HandleClosed, HandleOutOfOrder, HandleInOrder, RecvExit, Receive
<1>6. CASE Read \/ TimerFire
  <2>1. CASE ReadTimeout \/ ReadEnd \/ ReadArm \/ ReadWait \/ TimerFire
    BY <2>1, SentFrame DEF ReadTimeout, ReadEnd, ReadArm, ReadWait, TimerFire
  <2>2. ASSUME NEW n \in 1 .. RespLen, ReadBytes(n) PROVE SentInv'
    BY <2>2, SentFrame DEF ReadBytes
  <2> QED  BY <1>6, <2>1, <2>2 DEF Read
<1>7. CASE WriteFails
  BY <1>7, SentFrame DEF WriteFails
<1>8. ASSUME NEW n \in 1 .. ReqLen, WriteCall(n)
      PROVE  SentInv'
  BY <1>8, SentFrame DEF WriteCall
<1>9. CASE CloseStop \/ CloseRaw
  BY <1>9, SentFrame DEF CloseStop, CloseRaw
<1>10. CASE UNCHANGED vars
  BY <1>10, SentFrame DEF vars
<1> QED
  BY <1>1, <1>2, <1>3, <1>4, <1>5, <1>6, <1>7, <1>8, <1>9, <1>10, SentWriteChunk, SentClose
     DEF Next, Write

\* The request is sent once, in order, and one FIN behind it.
THEOREM RequestIsIntact == Spec => []RequestInOrder
<1>1. Init => SentInv
  BY SentInit
<1>2. TypeOK /\ SentInv /\ [Next]_vars => SentInv'
  BY SentStep
<1>3. SentInv => RequestInOrder
  BY DEF SentInv, Placed, OneFin, RequestInOrder, Carries
<1> QED
  BY <1>1, <1>2, <1>3, Typing, PTL DEF Spec

-----------------------------------------------------------------------------
(* Errors of the socket *)

\* The socket is not closed before stop(), unless pump never ran.
StopsFirst ==
  /\ hs = "syn" => pump = "none"
  /\ hs = "failed" => stopped \/ pump = "none"
  /\ raw = "closed" => stopped \/ hs = "failed"

LEMMA StopsFirstStep ==
  ASSUME StopsFirst, [Next]_vars
  PROVE  StopsFirst' /\ (err' = "closed" /\ err # "closed" => raw = "broken")
<1> USE DEF seqs, flags, sock, loops, reader, clocks, sent, writer, StopsFirst
<1>1. ASSUME NEW s \in Packets, RawRead(s)
      PROVE  StopsFirst' /\ err' = err
  BY <1>1 DEF RawRead
<1>2. CASE Environment
  BY <1>2 DEF Environment, RawError, ConnectDue, TransferDue
<1>3. CASE Handshake \/ GiveUp
  BY <1>3 DEF Handshake, SendSYN, SendSYNFails, DropBeforeSYNACK, ReceiveSYNACK, GiveUp
<1>4. CASE PumpPacket \/ PumpReset \/ PumpStop
  BY <1>4 DEF PumpPacket, PumpReset, PumpStop, Fail
<1>5. CASE PumpError
  BY <1>5 DEF PumpError, Fail
<1>6. CASE Recv
  BY <1>6 DEF Recv, HandleClosed, HandleOutOfOrder, HandleInOrder, RecvExit, Receive
<1>7. CASE Read \/ TimerFire
  BY <1>7 DEF Read, ReadTimeout, ReadEnd, ReadArm, ReadWait, ReadBytes, TimerFire
<1>8. CASE Write \/ \E n \in 1 .. ReqLen : WriteCall(n)
  BY <1>8 DEF Write, WriteChunk, WriteFails, WriteCall
<1>9. CASE Close \/ CloseStop \/ CloseRaw
  BY <1>9 DEF Close, CloseStop, CloseRaw, MayCloseRaw
<1>10. CASE UNCHANGED vars
  BY <1>10 DEF vars
<1> QED
  BY <1>1, <1>2, <1>3, <1>4, <1>5, <1>6, <1>7, <1>8, <1>9, <1>10 DEF Next, Pump

\* The error of a closed socket is never the mark of the client's own Close or
\* of a dial that gave up.
THEOREM ErrorsAreTheSockets == Spec => ClosedIsNotAnError
<1>1. Init => StopsFirst
  BY DEF Init, StopsFirst
<1>2. StopsFirst /\ [Next]_vars
        => StopsFirst' /\ [err' = "closed" /\ err # "closed" => raw = "broken"]_vars
  BY StopsFirstStep
<1> QED
  BY <1>1, <1>2, PTL DEF Spec, ClosedIsNotAnError
=============================================================================
