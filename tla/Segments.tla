------------------------------ MODULE Segments ------------------------------
(***************************************************************************)
(* The data the crafted TCP connection works on: 32-bit sequence numbers,  *)
(* byte streams and TCP segments.                                          *)
(*                                                                         *)
(* A byte is named by its position in the stream it belongs to, so what a  *)
(* segment carries says which bytes of which stream it is.  Checksums, IP  *)
(* identification, windows and timestamps never decide what the code does  *)
(* with a segment, and are left out.                                       *)
(***************************************************************************)
EXTENDS Integers, Sequences

CONSTANTS SeqSpace,    \* the number of sequence numbers: 2^32 in the code
          NoMSS        \* a segment without an MSS option

ASSUME SeqSpaceAssumption == SeqSpace \in Nat \ {0}
ASSUME NoMSSAssumption == NoMSS \notin Nat

SeqNums == 0 .. SeqSpace - 1

\* s + n in uint32 arithmetic, for n smaller than the sequence space.
Plus(s, n) == IF s + n < SeqSpace THEN s + n ELSE s + n - SeqSpace

\* Bytes i+1 .. i+n of a stream.
Bytes(i, n) == [k \in 1 .. n |-> i + k]

\* What the code looks at in a parsed packet.  "ours" is matchReply's verdict
\* on the addresses and ports; "syn" stands for SYN with ACK in what is received
\* (the code asks for both together), and every other segment carries ACK.
Segment == [ours : BOOLEAN, syn : BOOLEAN, rst : BOOLEAN, fin : BOOLEAN,
            seq : SeqNums, ack : SeqNums, data : Seq(Nat),
            mss : Nat \cup {NoMSS}]

Plain(seq, ack, data, fin) ==
  [ours |-> TRUE, syn |-> FALSE, rst |-> FALSE, fin |-> fin,
   seq |-> seq, ack |-> ack, data |-> data, mss |-> NoMSS]

Syn(seq, ack, mss) ==
  [ours |-> TRUE, syn |-> TRUE, rst |-> FALSE, fin |-> FALSE,
   seq |-> seq, ack |-> ack, data |-> << >>, mss |-> mss]

Rst(seq, ack) ==
  [ours |-> TRUE, syn |-> FALSE, rst |-> TRUE, fin |-> FALSE,
   seq |-> seq, ack |-> ack, data |-> << >>, mss |-> NoMSS]
=============================================================================
