----------------------------- MODULE ByteStream -----------------------------
(***************************************************************************)
(* What the reader of a connection is promised: the bytes of the server's  *)
(* stream in order, once each and with no gap; after a local Close nothing *)
(* more arrives; an error or the end of the stream is reported only when   *)
(* every byte that arrived has been read, and the end only if the stream   *)
(* is complete or the reader's own side closed the connection.             *)
(*                                                                         *)
(* This is the net.Conn that HTTP/1.1, HTTP/2 and TLS are written against. *)
(***************************************************************************)
EXTENDS Segments

CONSTANT RespLen

VARIABLES received,    \* how many bytes have arrived
          delivered,   \* the bytes the reader has been given
          result,      \* what its last Read returned
          closed       \* Close has been called

vars == <<received, delivered, result, closed>>

Init == received = 0 /\ delivered = << >> /\ result = "none" /\ closed = FALSE

Arrive(n) ==
  /\ ~closed
  /\ received' = received + n
  /\ UNCHANGED <<delivered, result, closed>>

Read(n) ==
  /\ delivered' = delivered \o Bytes(Len(delivered), n)
  /\ result' = "bytes"
  /\ UNCHANGED <<received, closed>>

Drained == Len(delivered) = received

ReadEOF ==
  /\ Drained /\ (received = RespLen \/ closed)
  /\ result' = "eof"
  /\ UNCHANGED <<received, delivered, closed>>

ReadErr ==
  /\ Drained
  /\ result' = "err"
  /\ UNCHANGED <<received, delivered, closed>>

\* The deadline may cut a Read short whatever has arrived.
ReadTimeout ==
  /\ result' = "timeout"
  /\ UNCHANGED <<received, delivered, closed>>

Close == closed' = TRUE /\ UNCHANGED <<received, delivered, result>>

Next == \/ \E n \in 1 .. RespLen - received : Arrive(n)
        \/ \E n \in 1 .. received - Len(delivered) : Read(n)
        \/ ReadEOF \/ ReadErr \/ ReadTimeout
        \/ Close

Spec == Init /\ [][Next]_vars
=============================================================================
