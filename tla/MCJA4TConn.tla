----------------------------- MODULE MCJA4TConn -----------------------------
(***************************************************************************)
(* JA4TConn on instances small enough for TLC.                             *)
(***************************************************************************)
EXTENDS JA4TConn

\* A packet for another port, and the SYN-ACK of an earlier connection on the
\* same ports, whose sequence number is the one expected after the handshake.
StrayPackets ==
  {[Plain(Plus(IRS, 1), 0, << 1 >>, TRUE) EXCEPT !.ours = FALSE],
   Syn(Plus(IRS, 1), ISS, NoMSS)}

NoStrays == {}
=============================================================================
