----------------------------- MODULE RawSocket -----------------------------
(***************************************************************************)
(* startJA4TConn, openRawPacketIO and rawPacketIO (tcpraw_linux.go): the   *)
(* descriptors opened for one connection after the other, and the          *)
(* goroutine each leaves in readLoop.  A read that blocks on a socket goes *)
(* on when another thread closes the descriptor: it keeps the socket until *)
(* a packet comes, and the next read takes whatever has been given the     *)
(* same number since.  Module JA4TConn is one connection over one of these *)
(* sockets, as a lossy source of packets.                                  *)
(***************************************************************************)
EXTENDS Integers, Sequences, FiniteSets

CONSTANTS Attempts,    \* calls of startJA4TConn, one after the other
          Fds,         \* descriptor numbers
          PktsCap,     \* 16 in the code
          MaxPackets   \* bound: TCP packets that arrive

ASSUME RawSocketAssumption ==
  /\ Attempts \in Nat \ {0} /\ PktsCap \in Nat \ {0} /\ MaxPackets \in Nat
  /\ IsFiniteSet(Fds) /\ Fds \subseteq Nat \ {0}

Conns == 1 .. Attempts
Free == [kind |-> "free", of |-> 0]
Junk == 0   \* bytes of a file, where a packet is expected

VARIABLES
  a,       \* the attempt at hand
  pc,      \* where startJA4TConn, or the connection it made, has got to
  dst,     \* the address dialled: "loopback", "gateway" or "other"
  route,   \* the content of /proc/net/route behind its descriptor
  table,   \* what each descriptor number stands for
  fd,      \* rawPacketIO.fd, 0 before there is one
  done,    \* rawPacketIO.done is closed
  loop,    \* readLoop: "none", "read", "blocked", "holding" or "over"
  on,      \* the attempt whose socket it reads
  held,    \* the packet it has read
  pkts,    \* rawPacketIO.pkts
  pump,    \* the connection's pump is running
  given,   \* packets it has given the connection until Close
  kernel,  \* packets in a socket's buffer
  arrived  \* packets that have arrived, numbered from 1

opener == <<a, pc, dst, route>>
readers == <<loop, on, held, pkts>>
ends == <<pump, given>>
network == <<kernel, arrived>>
vars == <<opener, table, fd, done, readers, ends, network>>

Init ==
  /\ a = 1 /\ pc = "start" /\ dst = "other" /\ route = "none"
  /\ table = [d \in Fds |-> Free]
  /\ fd = [c \in Conns |-> 0] /\ done = [c \in Conns |-> FALSE]
  /\ loop = [c \in Conns |-> "none"] /\ on = [c \in Conns |-> 0] /\ held = [c \in Conns |-> Junk]
  /\ pkts = [c \in Conns |-> << >>] /\ pump = [c \in Conns |-> FALSE]
  /\ given = [c \in Conns |-> << >>]
  /\ kernel = [c \in Conns |-> << >>] /\ arrived = 0

-----------------------------------------------------------------------------
(* The opener.  Its own descriptors are closed as soon as they have told what *)
(* they are for.  The Mut... definitions here and below are plausible bugs,   *)
(* one per property: no action uses them.                                     *)

Open(kind, next) ==
  \E d \in {d \in Fds : table[d] = Free} :
    /\ table' = [table EXCEPT ![d] = [kind |-> kind, of |-> a]]
    /\ pc' = next
Shut(kind) == table' = [d \in Fds |-> IF table[d] = [kind |-> kind, of |-> a] THEN Free ELSE table[d]]

\* After a failure, or a Close, the next address or the next connection.
NextAttempt == IF a < Attempts THEN a' = a + 1 /\ pc' = "start" ELSE a' = a /\ pc' = "over"

\* rewriteLoopback
Start ==
  /\ pc = "start"
  /\ \E to \in {"loopback", "other"} :
       dst' = to /\ pc' = IF to = "loopback" THEN "route" ELSE "udp"
  /\ route' = "none"
  /\ UNCHANGED <<a, table, fd, done, readers, ends, network>>

OpenRoute ==
  /\ pc = "route" /\ Open("route", "routeRead") /\ route' = "unread"
  /\ UNCHANGED <<a, dst, fd, done, readers, ends, network>>
RouteFails ==
  /\ pc = "route" /\ pc' = "udp" /\ route' = "failed"
  /\ UNCHANGED <<a, dst, table, fd, done, readers, ends, network>>
ReadRoute ==
  /\ pc = "routeRead" /\ pc' = "routeClose"
  /\ dst' = IF route = "unread" THEN "gateway" ELSE "loopback"
  /\ route' = IF route = "unread" THEN "read" ELSE route
  /\ UNCHANGED <<a, table, fd, done, readers, ends, network>>
CloseRoute ==
  /\ pc = "routeClose" /\ Shut("route") /\ pc' = "udp"
  /\ UNCHANGED <<a, dst, route, fd, done, readers, ends, network>>

\* pickLocalIPv4 and pickEphemeralPort
OpenTemporary ==
  /\ \/ pc = "udp" /\ Open("udp", "udpClose")
     \/ pc = "listener" /\ Open("listener", "listenerClose")
  /\ UNCHANGED <<a, dst, route, fd, done, readers, ends, network>>
CloseTemporary ==
  /\ \/ pc = "udpClose" /\ Shut("udp") /\ pc' = "listener"
     \/ pc = "listenerClose" /\ Shut("listener") /\ pc' = "socket"
  /\ UNCHANGED <<a, dst, route, fd, done, readers, ends, network>>
StartFails ==
  /\ pc \in {"udp", "listener", "socket"} /\ NextAttempt
  /\ UNCHANGED <<dst, route, table, fd, done, readers, ends, network>>

\* openRawPacketIO
Socket ==
  /\ pc = "socket" /\ Open("raw", "bind")
  /\ UNCHANGED <<a, dst, route, fd, done, readers, ends, network>>
MutUndo == UNCHANGED table
Undo == Shut("raw")
BindFails ==
  /\ pc = "bind" /\ Undo /\ NextAttempt
  /\ UNCHANGED <<dst, route, fd, done, readers, ends, network>>
MutNumber == 0
Number == CHOOSE d \in Fds : table[d] = [kind |-> "raw", of |-> a]
Bind ==
  /\ pc = "bind" /\ pc' = "up"
  /\ fd' = [fd EXCEPT ![a] = Number]
  /\ loop' = [loop EXCEPT ![a] = "read"]
  /\ pump' = [pump EXCEPT ![a] = TRUE]
  /\ UNCHANGED <<a, dst, route, table, done, on, held, pkts, given, network>>

\* Close, by startJA4TConn after a handshake that failed or by the connection.
CloseDone ==
  /\ pc = "up" /\ pc' = "close" /\ done' = [done EXCEPT ![a] = TRUE]
  /\ UNCHANGED <<a, dst, route, table, fd, readers, ends, network>>
CloseFd ==
  /\ pc = "close" /\ table' = [table EXCEPT ![fd[a]] = Free] /\ NextAttempt
  /\ UNCHANGED <<dst, route, fd, done, readers, ends, network>>

Opener == \/ Start \/ OpenRoute \/ RouteFails \/ ReadRoute \/ CloseRoute \/ OpenTemporary
          \/ CloseTemporary \/ StartFails \/ Socket \/ BindFails \/ Bind \/ CloseDone \/ CloseFd

-----------------------------------------------------------------------------
(* readLoop *)

At(c) == table[fd[c]]

\* A raw socket blocks the read until it has a packet.
ReadBlocks(c) ==
  /\ loop[c] = "read" /\ At(c).kind = "raw"
  /\ loop' = [loop EXCEPT ![c] = "blocked"] /\ on' = [on EXCEPT ![c] = At(c).of]
  /\ UNCHANGED <<opener, table, fd, done, held, pkts, ends, network>>

\* The buffer is used again for every read, so what is queued has to be a copy.
MutKept(queue, packet) == [k \in DOMAIN queue |-> packet]
Kept(queue, packet) == queue

ReadPacket(c) ==
  /\ loop[c] = "blocked" /\ kernel[on[c]] # << >>
  /\ held' = [held EXCEPT ![c] = Head(kernel[on[c]])]
  /\ pkts' = [pkts EXCEPT ![c] = Kept(@, held'[c])]
  /\ kernel' = [kernel EXCEPT ![on[c]] = Tail(@)]
  /\ loop' = [loop EXCEPT ![c] = "holding"]
  /\ UNCHANGED <<opener, table, fd, done, on, ends, arrived>>

\* A file answers at once, with its content or, behind it, with no bytes and
\* no error.
ReadFile(c) ==
  /\ loop[c] = "read" /\ At(c).kind = "route"
  /\ route' = IF route = "unread" THEN "stolen" ELSE route
  /\ held' = [held EXCEPT ![c] = Junk]
  /\ pkts' = [pkts EXCEPT ![c] = Kept(@, Junk)]
  /\ loop' = [loop EXCEPT ![c] = "holding"]
  /\ UNCHANGED <<a, pc, dst, table, fd, done, on, ends, network>>

\* A closed descriptor, Go's own nonblocking socket and a listener do not.
ReadFails(c) ==
  /\ loop[c] = "read" /\ At(c).kind \in {"free", "udp", "listener"}
  /\ loop' = [loop EXCEPT ![c] = "over"]
  /\ UNCHANGED <<opener, table, fd, done, on, held, pkts, ends, network>>

Put(c) ==
  /\ loop[c] = "holding" /\ Len(pkts[c]) < PktsCap
  /\ pkts' = [pkts EXCEPT ![c] = Append(@, held[c])]
  /\ loop' = [loop EXCEPT ![c] = "read"]
  /\ UNCHANGED <<opener, table, fd, done, on, held, ends, network>>
MutReleased(c) == FALSE
Released(c) == done[c]
GiveUp(c) ==
  /\ loop[c] = "holding" /\ Released(c)
  /\ loop' = [loop EXCEPT ![c] = "over"]
  /\ UNCHANGED <<opener, table, fd, done, on, held, pkts, ends, network>>

\* rawPacketIO.Read, called by the pump until the connection is done with it
\* (module JA4TConn).
Take(c) ==
  /\ pump[c] /\ pkts[c] # << >>
  /\ pkts' = [pkts EXCEPT ![c] = Tail(@)]
  /\ given' = IF done[c] THEN given ELSE [given EXCEPT ![c] = Append(@, Head(pkts[c]))]
  /\ UNCHANGED <<opener, table, fd, done, loop, on, held, pump, network>>
PumpEnds(c) ==
  /\ pump[c] /\ pump' = [pump EXCEPT ![c] = FALSE]
  /\ UNCHANGED <<opener, table, fd, done, readers, given, network>>

\* A packet arrives: every raw socket gets a copy, also one that only a
\* blocked read has kept.
Alive(c) == \/ \E d \in Fds : table[d] = [kind |-> "raw", of |-> c]
            \/ \E b \in Conns : loop[b] = "blocked" /\ on[b] = c
Arrive ==
  /\ arrived < MaxPackets /\ arrived' = arrived + 1
  /\ kernel' = [c \in Conns |-> IF Alive(c) THEN Append(kernel[c], arrived + 1) ELSE kernel[c]]
  /\ UNCHANGED <<opener, table, fd, done, readers, ends>>

Loop(c) == ReadBlocks(c) \/ ReadPacket(c) \/ ReadFile(c) \/ ReadFails(c) \/ Put(c) \/ GiveUp(c)
Pump(c) == Take(c) \/ PumpEnds(c)

Next == Opener \/ (\E c \in Conns : Loop(c) \/ Pump(c)) \/ Arrive

Spec == Init /\ [][Next]_vars

\* Goroutines that can go on do; select chooses a ready case again and again.
FairSpec == /\ Spec
            /\ \A c \in Conns : WF_vars(Loop(c)) /\ SF_vars(GiveUp(c))

-----------------------------------------------------------------------------
(* Properties *)

Descriptors(c) == {d \in Fds : table[d].of = c}

\* Every variable keeps to its values.
TypeOK ==
  /\ a \in Conns /\ dst \in {"loopback", "gateway", "other"}
  /\ \A d \in Fds : table[d].of \in Conns \cup {0}
  /\ fd \in [Conns -> Fds \cup {0}] /\ \A c \in Conns : Len(pkts[c]) <= PktsCap
  /\ loop \in [Conns -> {"none", "read", "blocked", "holding", "over"}]
  /\ \A c \in Conns : loop[c] # "none" => fd[c] \in Fds

\* What an attempt opened is closed when it is over, at whichever step it ended,
\* and nothing is closed that a later attempt has opened.
NoDescriptorLeft ==
  /\ \A c \in Conns : c < a \/ pc = "over" => Descriptors(c) = {}
  /\ pc = "up" => At(a) = [kind |-> "raw", of |-> a]

\* A connection is given packets of its own socket only, in the order they
\* arrived and none twice, whatever reads of closed sockets are still going on:
\* those can only make it lose some, which is all JA4TConn reckons with.
LossyInOrder ==
  \A c \in Conns :
    /\ ~done[c] /\ loop[c] = "blocked" => on[c] = c
    /\ \A k \in DOMAIN given[c] : given[c][k] # Junk
    /\ \A k \in 1 .. Len(given[c]) - 1 : given[c][k] < given[c][k + 1]

\* No goroutine is left behind a Close but one that waits for a packet: none is
\* held up by a full channel nobody empties, or goes on reading for ever.
LoopsEnd == \A c \in Conns : <>[](done[c] => loop[c] \in {"over", "blocked"})
=============================================================================
