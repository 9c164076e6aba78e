-------------------------- MODULE RawSocketProofs --------------------------
(***************************************************************************)
(* Theorems about RawSocket, for any number of connections, descriptors    *)
(* and packets, and any capacity of the channel.                           *)
(***************************************************************************)
EXTENDS RawSocket, SequenceTheorems, TLAPS

(* Sequences of packets *)

Elems(s) == {s[i] : i \in 1 .. Len(s)}
Before(S, T) == \A x \in S, y \in T : x < y
Increasing(s) == \A i, j \in 1 .. Len(s) : i < j => s[i] < s[j]

LEMMA EmptyElems == Elems(<< >>) = {} /\ Increasing(<< >>)
PROOF BY DEF Elems, Increasing

\* Taking the first one leaves later ones.
LEMMA TailElems ==
  ASSUME NEW s \in Seq(Nat), s # << >>
  PROVE  /\ Head(s) \in Elems(s) /\ Head(s) \in Nat
         /\ Tail(s) \in Seq(Nat) /\ Len(Tail(s)) < Len(s)
         /\ Elems(Tail(s)) \subseteq Elems(s)
         /\ Increasing(s) => Increasing(Tail(s)) /\ Before({Head(s)}, Elems(Tail(s)))
<1>1. /\ Len(s) \in Nat \ {0} /\ Head(s) = s[1] /\ Tail(s) \in Seq(Nat)
      /\ Len(Tail(s)) = Len(s) - 1
      /\ \A i \in 1 .. Len(s) - 1 : Tail(s)[i] = s[i + 1]
  BY HeadTailProperties, EmptySeq
<1>2. Head(s) \in Elems(s) /\ Head(s) \in Nat
  BY <1>1 DEF Elems
<1>3. Elems(Tail(s)) \subseteq Elems(s)
  BY <1>1 DEF Elems
<1>4. Increasing(s) => Increasing(Tail(s)) /\ Before({Head(s)}, Elems(Tail(s)))
  BY <1>1 DEF Elems, Increasing, Before
<1> QED  BY <1>1, <1>2, <1>3, <1>4

\* Putting one behind it that is later than all keeps the order.
LEMMA AppendElems ==
  ASSUME NEW s \in Seq(Nat), NEW x \in Nat
  PROVE  /\ Append(s, x) \in Seq(Nat) /\ Len(Append(s, x)) = Len(s) + 1
         /\ Elems(Append(s, x)) = Elems(s) \cup {x}
         /\ Increasing(s) /\ Before(Elems(s), {x}) => Increasing(Append(s, x))
<1>1. /\ Len(s) \in Nat /\ Append(s, x) \in Seq(Nat) /\ Len(Append(s, x)) = Len(s) + 1
      /\ \A i \in 1 .. Len(s) : Append(s, x)[i] = s[i]
      /\ Append(s, x)[Len(s) + 1] = x
  BY AppendProperties
<1>2. Elems(Append(s, x)) = Elems(s) \cup {x}
  BY <1>1 DEF Elems
<1>3. ASSUME Increasing(s), Before(Elems(s), {x}) PROVE Increasing(Append(s, x))
  <2>1. \A i \in 1 .. Len(s) : s[i] < x
    BY <1>3 DEF Elems, Before
  <2> QED  BY <1>1, <1>3, <2>1 DEF Increasing
<1> QED  BY <1>1, <1>2, <1>3

-----------------------------------------------------------------------------
(* The inductive invariant *)

Places == {"start", "route", "routeRead", "routeClose", "udp", "udpClose", "listener",
           "listenerClose", "socket", "bind", "up", "close", "over"}
Kinds == {"free", "route", "udp", "listener", "raw"}

\* The kind of descriptor startJA4TConn has open at each place.
Holds(p) ==
  CASE p \in {"routeRead", "routeClose"} -> "route"
    [] p = "udpClose" -> "udp"
    [] p = "listenerClose" -> "listener"
    [] p \in {"bind", "up", "close"} -> "raw"
    [] OTHER -> "free"
Raw(c) == [kind |-> "raw", of |-> c]

Types ==
  /\ a \in Conns /\ pc \in Places /\ dst \in {"loopback", "gateway", "other"}
  /\ table \in [Fds -> [kind : Kinds, of : Conns \cup {0}]]
  /\ fd \in [Conns -> Fds \cup {0}] /\ done \in [Conns -> BOOLEAN]
  /\ loop \in [Conns -> {"none", "read", "blocked", "holding", "over"}]
  /\ on \in [Conns -> Conns \cup {0}] /\ held \in [Conns -> Nat]
  /\ pkts \in [Conns -> Seq(Nat)] /\ given \in [Conns -> Seq(Nat)]
  /\ kernel \in [Conns -> Seq(Nat)] /\ arrived \in Nat
  /\ \A c \in Conns : Len(pkts[c]) <= PktsCap

\* At most one descriptor is open, the one the attempt at hand is busy with.
OneOpen ==
  /\ \A d \in Fds : table[d] # Free =>
       Holds(pc) # "free" /\ table[d] = [kind |-> Holds(pc), of |-> a]
  /\ \A d, e \in Fds : table[d] # Free /\ table[e] # Free => d = e
  /\ pc = "bind" => \E d \in Fds : table[d] = Raw(a)
  /\ pc \in {"up", "close"} => fd[a] \in Fds /\ table[fd[a]] = Raw(a)

\* A loop reads a descriptor; one whose connection is not closed reads the
\* socket of its own.
Loops ==
  \A c \in Conns :
    /\ loop[c] # "none" => fd[c] \in Fds
    /\ loop[c] # "none" /\ ~done[c] => c = a /\ pc = "up"
    /\ loop[c] = "blocked" => on[c] \in Conns /\ (~done[c] => on[c] = c)

\* Until a connection is closed, packets are in order from what it was given to
\* what is in the buffer of its socket.
InHand(c) == IF loop[c] = "holding" THEN {held[c]} ELSE {}
Taken(c) == Elems(given[c]) \cup Elems(pkts[c])
Ordered(c) ==
  /\ Increasing(given[c]) /\ Elems(given[c]) \subseteq 1 .. arrived
  /\ Increasing(kernel[c]) /\ Elems(kernel[c]) \subseteq 1 .. arrived
  /\ ~done[c] =>
       /\ Increasing(pkts[c]) /\ Taken(c) \cup InHand(c) \subseteq 1 .. arrived
       /\ Before(Elems(given[c]), Elems(pkts[c]))
       /\ Before(Taken(c), InHand(c))
       /\ Before(Taken(c) \cup InHand(c), Elems(kernel[c]))
Order == \A c \in Conns : Ordered(c)

IInv == Types /\ OneOpen /\ Loops /\ Order

LEMMA InitInv == Init => IInv
<1> SUFFICES ASSUME Init PROVE IInv
  OBVIOUS
<1> USE DEF Init
<1>1. Types
  <2>1. << >> \in Seq(Nat) /\ Len(<< >>) = 0
    BY EmptySeq
  <2>2. 1 \in Conns /\ 0 \in 0 .. PktsCap
    BY RawSocketAssumption DEF Conns
  <2>3. table \in [Fds -> [kind : Kinds, of : Conns \cup {0}]]
    BY DEF Free, Kinds
  <2>4. /\ pkts \in [Conns -> Seq(Nat)] /\ given \in [Conns -> Seq(Nat)]
        /\ kernel \in [Conns -> Seq(Nat)]
    BY <2>1
  <2>5. \A c \in Conns : Len(pkts[c]) <= PktsCap
    BY <2>1, <2>2
  <2> QED  BY <2>2, <2>3, <2>4, <2>5 DEF Types, Places, Junk
<1>2. OneOpen
  BY DEF OneOpen
<1>3. Loops
  BY DEF Loops
<1>4. Order
  BY EmptyElems DEF Order, Ordered, Taken, InHand, Before
<1> QED  BY <1>1, <1>2, <1>3, <1>4 DEF IInv

-----------------------------------------------------------------------------
(* Types *)

\* The opener leaves what has been read and what is in the network alone.
LEMMA OpenerTypes == ASSUME IInv, Opener PROVE Types'
<1> USE DEF IInv, Types
<1>1. a \in 1 .. Attempts /\ Attempts \in Nat /\ 1 \in Conns
  BY RawSocketAssumption DEF Conns
<1>2. ASSUME NEW k \in Kinds, NEW p \in Places, Open(k, p)
      PROVE  table' \in [Fds -> [kind : Kinds, of : Conns \cup {0}]] /\ pc' \in Places
  BY <1>2 DEF Open
<1>3. ASSUME NEW k \in Kinds, Shut(k)
      PROVE  table' \in [Fds -> [kind : Kinds, of : Conns \cup {0}]]
  BY <1>3 DEF Shut, Free, Kinds
<1>4. ASSUME NextAttempt PROVE a' \in Conns /\ pc' \in Places
  BY <1>1, <1>4 DEF NextAttempt, Conns, Places
<1>5. CASE Start \/ RouteFails \/ ReadRoute
  BY <1>5 DEF Start, RouteFails, ReadRoute, Places, readers, ends, network
<1>6. CASE OpenRoute \/ OpenTemporary \/ Socket
  BY <1>6, <1>2 DEF OpenRoute, OpenTemporary, Socket, Places, Kinds, readers, ends, network
<1>7. CASE CloseRoute \/ CloseTemporary
  BY <1>7, <1>3 DEF CloseRoute, CloseTemporary, Places, Kinds, readers, ends, network
<1>8. CASE StartFails
  BY <1>8, <1>4 DEF StartFails, readers, ends, network
<1>9. CASE BindFails
  BY <1>9, <1>3, <1>4 DEF BindFails, Undo, Kinds, readers, ends, network
<1>10. CASE Bind
  <2>1. Number \in Fds
    <3>1. \E d \in Fds : table[d] = [kind |-> "raw", of |-> a]
      BY <1>10 DEF Bind, OneOpen, Raw
    <3> QED  BY <3>1 DEF Number
  <2> QED  BY <1>10, <2>1 DEF Bind, Places, ends, network
<1>11. CASE CloseDone
  BY <1>11 DEF CloseDone, Places, readers, ends, network
<1>12. CASE CloseFd
  <2>1. table' \in [Fds -> [kind : Kinds, of : Conns \cup {0}]]
    BY <1>12 DEF CloseFd, Free, Kinds
  <2> QED  BY <1>12, <1>4, <2>1 DEF CloseFd, readers, ends, network
<1> QED
  BY <1>5, <1>6, <1>7, <1>8, <1>9, <1>10, <1>11, <1>12 DEF Opener

LEMMA ReaderTypes ==
  ASSUME IInv, NEW c \in Conns, Loop(c) \/ Pump(c)
  PROVE  Types'
<1> USE DEF IInv, Types
<1>1. CASE ReadBlocks(c)
  <2>1. At(c).of \in Conns \cup {0}
    <3>1. fd[c] \in Fds
      BY <1>1 DEF ReadBlocks, Loops
    <3> QED  BY <3>1 DEF At
  <2> QED  BY <1>1, <2>1 DEF ReadBlocks, opener, ends, network
<1>2. CASE ReadPacket(c)
  <2>1. on[c] \in Conns /\ kernel[on[c]] # << >>
    BY <1>2 DEF ReadPacket, Loops
  <2>2. Head(kernel[on[c]]) \in Nat /\ Tail(kernel[on[c]]) \in Seq(Nat)
    BY <2>1, TailElems
  <2>3. pkts' = pkts
    BY <1>2 DEF ReadPacket, Kept
  <2> QED  BY <1>2, <2>1, <2>2, <2>3 DEF ReadPacket, opener, ends
<1>3. CASE ReadFile(c)
  <2>1. pkts' = pkts
    BY <1>3 DEF ReadFile, Kept
  <2> QED  BY <1>3, <2>1 DEF ReadFile, Junk, ends, network
<1>4. CASE ReadFails(c) \/ GiveUp(c)
  BY <1>4 DEF ReadFails, GiveUp, opener, ends, network
<1>5. CASE Put(c)
  <2>1. /\ Append(pkts[c], held[c]) \in Seq(Nat)
        /\ Len(Append(pkts[c], held[c])) = Len(pkts[c]) + 1
    BY AppendElems
  <2>2. Len(pkts[c]) + 1 <= PktsCap
    BY <1>5, RawSocketAssumption, LenProperties DEF Put
  <2>3. pkts' = [pkts EXCEPT ![c] = Append(pkts[c], held[c])]
    BY <1>5 DEF Put
  <2>4. pkts' \in [Conns -> Seq(Nat)] /\ \A b \in Conns : Len(pkts'[b]) <= PktsCap
    BY <2>1, <2>2, <2>3
  <2> QED  BY <1>5, <2>4 DEF Put, opener, ends, network
<1>6. CASE Take(c)
  <2>1. /\ Head(pkts[c]) \in Nat /\ Tail(pkts[c]) \in Seq(Nat)
        /\ Len(Tail(pkts[c])) < Len(pkts[c])
    BY <1>6, TailElems DEF Take
  <2>2. Append(given[c], Head(pkts[c])) \in Seq(Nat)
    BY <2>1, AppendElems
  <2>3. given' \in [Conns -> Seq(Nat)]
    BY <1>6, <2>2 DEF Take
  <2>4. Len(Tail(pkts[c])) <= PktsCap
    BY <2>1, RawSocketAssumption, LenProperties
  <2>5. pkts' = [pkts EXCEPT ![c] = Tail(pkts[c])]
    BY <1>6 DEF Take
  <2>6. pkts' \in [Conns -> Seq(Nat)] /\ \A b \in Conns : Len(pkts'[b]) <= PktsCap
    BY <2>1, <2>4, <2>5
  <2> QED  BY <1>6, <2>3, <2>6 DEF Take, opener, network
<1>7. CASE PumpEnds(c)
  BY <1>7 DEF PumpEnds, opener, readers, network
<1> QED
  BY <1>1, <1>2, <1>3, <1>4, <1>5, <1>6, <1>7 DEF Loop, Pump

LEMMA Typed == ASSUME IInv, [Next]_vars PROVE Types'
<1> USE DEF IInv, Types
<1>1. CASE UNCHANGED vars
  BY <1>1 DEF vars, opener, readers, ends, network
<1>2. CASE Arrive
  <2>1. \A c \in Conns : Append(kernel[c], arrived + 1) \in Seq(Nat)
    BY AppendElems
  <2> QED  BY <1>2, <2>1 DEF Arrive, opener, readers, ends
<1> QED  BY <1>1, <1>2, OpenerTypes, ReaderTypes DEF Next

-----------------------------------------------------------------------------
(* Descriptors *)

\* A descriptor is opened when there is none.
LEMMA OpensOne ==
  ASSUME IInv, NEW k, NEW p, Open(k, p), Holds(pc) = "free", Holds(p) = k, k # "free",
         p \notin {"up", "close"}, a' = a
  PROVE  OneOpen'
<1>1. \A d \in Fds : table[d] = Free
  BY DEF IInv, OneOpen
<1>2. PICK d \in Fds : table' = [table EXCEPT ![d] = [kind |-> k, of |-> a]] /\ pc' = p
  BY DEF Open
<1>3. \A e \in Fds : table'[e] = IF e = d THEN [kind |-> k, of |-> a] ELSE Free
  BY <1>1, <1>2 DEF IInv, Types
<1>4. p = "bind" => k = "raw"
  BY DEF Holds
<1> QED  BY <1>2, <1>3, <1>4 DEF OneOpen, Raw

\* Closing the one that is open leaves none.
LEMMA ShutClears ==
  ASSUME IInv, Shut(Holds(pc))
  PROVE  \A d \in Fds : table'[d] = Free
PROOF BY DEF IInv, OneOpen, Shut

LEMMA StaysOne == ASSUME IInv, [Next]_vars PROVE OneOpen'
<1> USE DEF IInv, Types
\* With nothing open there is nothing to say but of the places that hold one.
<1>1. ASSUME \A d \in Fds : table'[d] = Free, pc' \notin {"bind", "up", "close"}
      PROVE  OneOpen'
  BY <1>1 DEF OneOpen
<1>2. ASSUME NextAttempt PROVE pc' \in {"start", "over"}
  BY <1>2 DEF NextAttempt
<1>3. ASSUME Holds(pc) = "free" PROVE \A d \in Fds : table[d] = Free
  BY <1>3 DEF OneOpen
<1>4. CASE Start \/ RouteFails \/ StartFails
  <2>1. Holds(pc) = "free" /\ table' = table /\ pc' \notin {"bind", "up", "close"}
    BY <1>2, <1>4 DEF Start, RouteFails, StartFails, Holds
  <2> QED  BY <1>1, <1>3, <2>1
<1>5. CASE OpenRoute \/ OpenTemporary \/ Socket
  <2>1. CASE OpenRoute
    <3>1. Open("route", "routeRead") /\ Holds(pc) = "free" /\ Holds("routeRead") = "route" /\ a' = a
      BY <2>1 DEF OpenRoute, Holds
    <3> QED  BY <3>1, OpensOne
  <2>2. CASE OpenTemporary
    <3>1. PICK k \in {"udp", "listener"}, p \in {"udpClose", "listenerClose"} :
            Open(k, p) /\ Holds(pc) = "free" /\ Holds(p) = k /\ a' = a
      BY <2>2 DEF OpenTemporary, Holds
    <3> QED  BY <3>1, OpensOne
  <2>3. CASE Socket
    <3>1. Open("raw", "bind") /\ Holds(pc) = "free" /\ Holds("bind") = "raw" /\ a' = a
      BY <2>3 DEF Socket, Holds
    <3> QED  BY <3>1, OpensOne
  <2> QED  BY <1>5, <2>1, <2>2, <2>3
<1>6. CASE CloseRoute \/ CloseTemporary \/ BindFails
  <2>1. Shut(Holds(pc)) /\ pc' \notin {"bind", "up", "close"}
    BY <1>2, <1>6 DEF CloseRoute, CloseTemporary, BindFails, Undo, Holds
  <2> QED  BY <1>1, <2>1, ShutClears
<1>7. CASE ReadRoute
  BY <1>7 DEF ReadRoute, OneOpen, Holds
<1>8. CASE Bind
  <2>1. \E d \in Fds : table[d] = [kind |-> "raw", of |-> a]
    BY <1>8 DEF Bind, OneOpen, Raw
  <2>2. Number \in Fds /\ table[Number] = Raw(a)
    BY <2>1 DEF Number, Raw
  <2>3. fd'[a] = Number /\ table' = table /\ a' = a /\ pc' = "up" /\ pc = "bind"
    BY <1>8 DEF Bind
  <2> QED  BY <2>2, <2>3 DEF OneOpen, Holds
<1>9. CASE CloseDone
  BY <1>9 DEF CloseDone, OneOpen, Holds
<1>10. CASE CloseFd
  <2>1. fd[a] \in Fds /\ table[fd[a]] = Raw(a) /\ Raw(a) # Free
    BY <1>10 DEF CloseFd, OneOpen, Raw, Free
  <2>2. \A d \in Fds : d # fd[a] => table[d] = Free
    BY <2>1 DEF OneOpen
  <2>3. \A d \in Fds : table'[d] = Free
    BY <1>10, <2>1, <2>2 DEF CloseFd
  <2> QED  BY <1>1, <1>2, <1>10, <2>3 DEF CloseFd
<1>11. ASSUME UNCHANGED <<a, pc, table, fd>> PROVE OneOpen'
  BY <1>11 DEF OneOpen
<1>12. ASSUME NEW c \in Conns, Loop(c) \/ Pump(c) PROVE UNCHANGED <<a, pc, table, fd>>
  BY <1>12 DEF Loop, Pump, ReadBlocks, ReadPacket, ReadFile, ReadFails, Put, GiveUp, Take,
               PumpEnds, opener
<1>13. CASE Arrive \/ UNCHANGED vars
  BY <1>11, <1>13 DEF Arrive, vars, opener
<1> QED
  BY <1>4, <1>5, <1>6, <1>7, <1>8, <1>9, <1>10, <1>11, <1>12, <1>13 DEF Next, Opener

-----------------------------------------------------------------------------
(* Loops *)

LEMMA StayLoops == ASSUME IInv, [Next]_vars PROVE Loops'
<1> USE DEF IInv, Types
<1>1. ASSUME pc # "up", UNCHANGED <<fd, done, loop, on>> PROVE Loops'
  BY <1>1 DEF Loops
<1>2. CASE \/ Start \/ OpenRoute \/ RouteFails \/ ReadRoute \/ CloseRoute \/ OpenTemporary
           \/ CloseTemporary \/ StartFails \/ Socket \/ BindFails \/ CloseFd
  <2>1. pc # "up" /\ UNCHANGED <<fd, done, loop, on>>
    BY <1>2 DEF Start, OpenRoute, RouteFails, ReadRoute, CloseRoute, OpenTemporary,
                CloseTemporary, StartFails, Socket, BindFails, CloseFd, readers
  <2> QED  BY <1>1, <2>1
<1>3. CASE Bind
  <2>1. Number \in Fds
    <3>1. \E d \in Fds : table[d] = [kind |-> "raw", of |-> a]
      BY <1>3 DEF Bind, OneOpen, Raw
    <3> QED  BY <3>1 DEF Number
  <2>2. \A c \in Conns : loop[c] # "none" => done[c]
    BY <1>3 DEF Bind, Loops
  <2> QED  BY <1>3, <2>1, <2>2 DEF Bind, Loops
<1>4. CASE CloseDone
  BY <1>4 DEF CloseDone, Loops, readers
<1>5. ASSUME NEW c \in Conns, ReadBlocks(c) PROVE Loops'
  <2>1. fd[c] \in Fds /\ table[fd[c]].kind = "raw" /\ on'[c] = table[fd[c]].of
    BY <1>5 DEF ReadBlocks, At, Loops
  <2>2. table[fd[c]].of = a
    BY <2>1 DEF OneOpen, Free
  <2>3. ~done[c] => c = a /\ pc = "up"
    BY <1>5 DEF ReadBlocks, Loops
  <2>4. on'[c] \in Conns /\ (~done[c] => on'[c] = c)
    BY <2>1, <2>2, <2>3
  <2> QED  BY <1>5, <2>1, <2>3, <2>4 DEF ReadBlocks, Loops, opener
<1>6. ASSUME NEW c \in Conns, Loop(c) \/ Pump(c), ~ReadBlocks(c) PROVE Loops'
  <2>1. /\ UNCHANGED <<a, pc, fd, done, on>>
        /\ \A b \in Conns : loop'[b] = loop[b] \/ (loop'[b] # "blocked" /\ loop[b] # "none")
    BY <1>6 DEF Loop, Pump, ReadPacket, ReadFile, ReadFails, Put, GiveUp, Take, PumpEnds,
                opener, readers
  <2> QED  BY <2>1 DEF Loops
<1>7. CASE Arrive \/ UNCHANGED vars
  BY <1>7 DEF Arrive, vars, opener, readers, Loops
<1> QED
  BY <1>2, <1>3, <1>4, <1>5, <1>6, <1>7 DEF Next, Opener

-----------------------------------------------------------------------------
(* Order *)

\* What stays, and a buffer that only gets shorter, stays ordered, and a
\* connection that is closed has only what it was given to care for.
LEMMA KeepsOrder ==
  ASSUME NEW c, Ordered(c), given'[c] = given[c], arrived' = arrived,
         Increasing(kernel[c])' , Elems(kernel'[c]) \subseteq Elems(kernel[c]),
         ~done'[c] => ~done[c] /\ pkts'[c] = pkts[c] /\ InHand(c)' \subseteq InHand(c)
  PROVE  Ordered(c)'
PROOF BY DEF Ordered, Taken, Before

LEMMA ReadKeepsOrder ==
  ASSUME IInv, NEW b \in Conns, ReadPacket(b)
  PROVE  Order'
<1> USE DEF IInv, Types
<1> DEFINE w == on[b]
           x == Head(kernel[w])
<1>1. /\ w \in Conns /\ kernel[w] # << >> /\ held'[b] = x /\ pkts' = pkts /\ given' = given
      /\ \A c \in Conns : kernel'[c] = IF c = w THEN Tail(kernel[w]) ELSE kernel[c]
      /\ \A c \in Conns : c # b => InHand(c)' = InHand(c)
      /\ InHand(b) = {} /\ InHand(b)' = {x} /\ done' = done /\ arrived' = arrived
  BY DEF ReadPacket, Loops, Kept, InHand, ends
<1>2. /\ x \in Elems(kernel[w]) /\ Increasing(Tail(kernel[w]))
      /\ Before({x}, Elems(Tail(kernel[w]))) /\ Elems(Tail(kernel[w])) \subseteq Elems(kernel[w])
  BY <1>1, TailElems DEF Order, Ordered
<1>3. ASSUME NEW c \in Conns
      PROVE  Increasing(kernel[c])' /\ Elems(kernel'[c]) \subseteq Elems(kernel[c])
  BY <1>1, <1>2 DEF Order, Ordered
<1>4. ASSUME NEW c \in Conns, c # b \/ done[b] PROVE Ordered(c)'
  BY <1>1, <1>3, <1>4, KeepsOrder DEF Order
<1>5. CASE ~done[b]
  <2>1. w = b
    BY <1>5 DEF ReadPacket, Loops
  <2>2. /\ Before(Taken(b), {x}) /\ x \in 1 .. arrived
        /\ Before(Taken(b), Elems(kernel[b]))
    BY <1>2, <1>5, <2>1 DEF Order, Ordered, Before
  <2>3. Before(Taken(b) \cup {x}, Elems(kernel'[b]))
    BY <1>1, <1>2, <2>1, <2>2 DEF Before
  <2>4. Taken(b)' = Taken(b)
    BY <1>1 DEF Taken
  <2>5. Ordered(b)
    BY DEF Order
  <2>6. /\ Increasing(given'[b]) /\ Elems(given'[b]) \subseteq 1 .. arrived'
        /\ Increasing(kernel'[b]) /\ Elems(kernel'[b]) \subseteq 1 .. arrived'
        /\ Increasing(pkts'[b]) /\ Before(Elems(given'[b]), Elems(pkts'[b]))
    BY <1>1, <1>3, <1>5, <2>5 DEF Ordered
  <2>7. /\ Taken(b)' \cup InHand(b)' \subseteq 1 .. arrived'
        /\ Before(Taken(b)', InHand(b)')
        /\ Before(Taken(b)' \cup InHand(b)', Elems(kernel'[b]))
    BY <1>1, <1>5, <2>2, <2>3, <2>4, <2>5 DEF Ordered
  <2>8. Ordered(b)'
    BY <2>6, <2>7 DEF Ordered
  <2> QED  BY <1>4, <2>8 DEF Order
<1> QED  BY <1>4, <1>5 DEF Order

LEMMA PutKeepsOrder ==
  ASSUME IInv, NEW b \in Conns, Put(b)
  PROVE  Order'
<1> USE DEF IInv, Types
<1>1. /\ pkts'[b] = Append(pkts[b], held[b]) /\ InHand(b) = {held[b]} /\ InHand(b)' = {}
      /\ UNCHANGED <<given, kernel, done, arrived>>
      /\ \A c \in Conns : c # b => pkts'[c] = pkts[c] /\ InHand(c)' = InHand(c)
  BY DEF Put, InHand, ends, network
<1>2. ASSUME NEW c \in Conns, c # b \/ done[b] PROVE Ordered(c)'
  BY <1>1, <1>2, KeepsOrder DEF Order, Ordered
<1>3. CASE ~done[b]
  <2>1. /\ Elems(pkts'[b]) = Elems(pkts[b]) \cup {held[b]}
        /\ Increasing(pkts[b]) /\ Before(Elems(pkts[b]), {held[b]}) => Increasing(pkts'[b])
    <3>1. pkts[b] \in Seq(Nat) /\ held[b] \in Nat
      OBVIOUS
    <3>2. pkts'[b] = Append(pkts[b], held[b])
      BY <1>1
    <3> HIDE DEF IInv, Types
    <3> QED  BY <3>1, <3>2, AppendElems, Zenon
  <2>2. /\ Before(Elems(given[b]), {held[b]}) /\ Before(Elems(pkts[b]), {held[b]})
        /\ Increasing(pkts[b])
    BY <1>1, <1>3 DEF Order, Ordered, Taken, Before
  <2>3. Taken(b)' = Taken(b) \cup {held[b]}
    BY <1>1, <2>1 DEF Taken
  <2>4. Before(Elems(given'[b]), Elems(pkts'[b])) /\ Before(Taken(b)', InHand(b)')
    BY <1>1, <1>3, <2>1, <2>2 DEF Order, Ordered, Before
  <2>5. Ordered(b)'
    BY <1>1, <1>3, <2>1, <2>2, <2>3, <2>4 DEF Order, Ordered
  <2> QED  BY <1>2, <2>5 DEF Order
<1> QED  BY <1>2, <1>3 DEF Order

LEMMA TakeKeepsOrder ==
  ASSUME IInv, NEW b \in Conns, Take(b)
  PROVE  Order'
<1> USE DEF IInv, Types
<1> DEFINE x == Head(pkts[b])
<1>1. /\ pkts[b] # << >> /\ pkts'[b] = Tail(pkts[b])
      /\ UNCHANGED <<kernel, done, arrived, loop, held>>
      /\ \A c \in Conns : c # b \/ done[c] => given'[c] = given[c]
      /\ \A c \in Conns : c # b => pkts'[c] = pkts[c]
      /\ \A c \in Conns : InHand(c)' = InHand(c)
  BY DEF Take, InHand, network
<1>2. ASSUME NEW c \in Conns, c # b \/ done[b] PROVE Ordered(c)'
  BY <1>1, <1>2, KeepsOrder DEF Order, Ordered
<1>3. CASE ~done[b]
  <2>1. /\ x \in Elems(pkts[b]) /\ x \in Nat /\ Elems(Tail(pkts[b])) \subseteq Elems(pkts[b])
        /\ Increasing(Tail(pkts[b])) /\ Before({x}, Elems(Tail(pkts[b])))
    BY <1>1, <1>3, TailElems DEF Order, Ordered
  <2>2. given'[b] = Append(given[b], x)
    BY <1>3 DEF Take
  <2>3. Before(Elems(given[b]), {x})
    BY <1>3, <2>1 DEF Order, Ordered, Before
  <2>4. Elems(given'[b]) = Elems(given[b]) \cup {x} /\ Increasing(given'[b])
    <3>1. given[b] \in Seq(Nat) /\ Increasing(given[b])
      BY DEF Order, Ordered
    <3> QED  BY <2>1, <2>2, <2>3, <3>1, AppendElems, Zenon
  <2>5. Taken(b)' \subseteq Taken(b) /\ Elems(pkts'[b]) \subseteq Elems(pkts[b])
    BY <1>1, <2>1, <2>4 DEF Taken
  <2>6. Before(Elems(given'[b]), Elems(pkts'[b]))
    BY <1>1, <1>3, <2>1, <2>4 DEF Order, Ordered, Before
  <2>7. /\ Before(Taken(b)', InHand(b)')
        /\ Before(Taken(b)' \cup InHand(b)', Elems(kernel'[b]))
    BY <1>1, <1>3, <2>5 DEF Order, Ordered, Before
  <2>8. Elems(given'[b]) \subseteq 1 .. arrived /\ Taken(b)' \cup InHand(b)' \subseteq 1 .. arrived
    BY <1>1, <1>3, <2>4, <2>5 DEF Order, Ordered, Taken
  <2>9. Ordered(b)'
    BY <1>1, <1>3, <2>1, <2>4, <2>6, <2>7, <2>8 DEF Order, Ordered
  <2> QED  BY <1>2, <2>9 DEF Order
<1> QED  BY <1>2, <1>3 DEF Order

LEMMA ArriveKeepsOrder == ASSUME IInv, Arrive PROVE Order'
<1> USE DEF IInv, Types
<1>1. /\ UNCHANGED <<given, pkts, done, loop, held>> /\ arrived' = arrived + 1
      /\ 1 .. arrived \subseteq 1 .. arrived'
      /\ \A S : S \subseteq 1 .. arrived => Before(S, {arrived'})
  BY DEF Arrive, readers, ends, Before
<1>2. ASSUME NEW c \in Conns PROVE Ordered(c)'
  <2>1. InHand(c)' = InHand(c) /\ Taken(c)' = Taken(c)
    BY <1>1 DEF InHand, Taken
  <2>2. CASE kernel'[c] = kernel[c]
    BY <1>1, <2>1, <2>2 DEF Order, Ordered
  <2>3. CASE kernel'[c] = Append(kernel[c], arrived')
    <3>1. /\ Elems(kernel'[c]) = Elems(kernel[c]) \cup {arrived'}
          /\ Increasing(kernel'[c])
      <4>1. /\ kernel[c] \in Seq(Nat) /\ Increasing(kernel[c])
            /\ Elems(kernel[c]) \subseteq 1 .. arrived
        BY DEF Order, Ordered
      <4>2. Before(Elems(kernel[c]), {arrived'})
        BY <1>1, <4>1, Zenon
      <4>3. arrived' \in Nat
        BY <1>1
      <4> QED  BY <2>3, <4>1, <4>2, <4>3, AppendElems, Zenon
    <3>2. Elems(kernel'[c]) \subseteq 1 .. arrived'
      <4>1. Elems(kernel[c]) \subseteq 1 .. arrived'
        BY <1>1 DEF Order, Ordered
      <4>2. arrived' \in 1 .. arrived'
        BY <1>1
      <4> QED  BY <3>1, <4>1, <4>2
    <3>3. ~done[c] => Before(Taken(c) \cup InHand(c), Elems(kernel'[c]))
      BY <1>1, <3>1 DEF Order, Ordered, Before
    <3> QED  BY <1>1, <2>1, <3>1, <3>2, <3>3 DEF Order, Ordered
  <2> QED  BY <1>1, <2>2, <2>3 DEF Arrive
<1> QED  BY <1>2 DEF Order

LEMMA StaysOrdered == ASSUME IInv, [Next]_vars PROVE Order'
<1> USE DEF IInv, Types
\* The other steps do not move a packet from one place to the next.
<1>1. ASSUME UNCHANGED <<given, pkts, kernel, arrived>>,
             \A c \in Conns : ~done'[c] => ~done[c] /\ InHand(c)' \subseteq InHand(c)
      PROVE  Order'
  BY <1>1, KeepsOrder DEF Order, Ordered
<1>2. CASE Opener
  <2>1. /\ UNCHANGED <<given, pkts, kernel, arrived, held>>
        /\ \A c \in Conns : /\ ~done'[c] => ~done[c]
                            /\ loop'[c] = "holding" => loop[c] = "holding"
    BY <1>2 DEF Opener, Start, OpenRoute, RouteFails, ReadRoute, CloseRoute, OpenTemporary,
                CloseTemporary, StartFails, Socket, BindFails, Bind, CloseDone, CloseFd,
                readers, ends, network
  <2> QED  BY <1>1, <2>1 DEF InHand
<1>3. ASSUME NEW b \in Conns, ReadBlocks(b) \/ ReadFails(b) \/ GiveUp(b) \/ PumpEnds(b)
      PROVE  Order'
  <2>1. /\ UNCHANGED <<given, pkts, kernel, arrived, held, done>>
        /\ \A c \in Conns : loop'[c] = "holding" => loop[c] = "holding"
    BY <1>3 DEF ReadBlocks, ReadFails, GiveUp, PumpEnds, readers, ends, network
  <2> QED  BY <1>1, <2>1 DEF InHand
\* A file is read by a loop whose connection is closed only.
<1>4. ASSUME NEW b \in Conns, ReadFile(b) PROVE Order'
  <2>1. done[b]
    <3>1. table[fd[b]].kind = "route" /\ loop[b] = "read"
      BY <1>4 DEF ReadFile, At
    <3>2. ~done[b] => table[fd[b]] = Raw(b)
      BY <3>1 DEF Loops, OneOpen
    <3> QED  BY <3>1, <3>2 DEF Raw
  <2>2. /\ UNCHANGED <<given, pkts, kernel, arrived, done>>
        /\ \A c \in Conns : c # b => held'[c] = held[c] /\ loop'[c] = loop[c]
    BY <1>4 DEF ReadFile, Kept, ends, network
  <2> QED  BY <1>1, <2>1, <2>2 DEF InHand
<1>5. CASE UNCHANGED vars
  BY <1>1, <1>5 DEF vars, opener, readers, ends, network, InHand
<1> QED
  BY <1>2, <1>3, <1>4, <1>5, ReadKeepsOrder, PutKeepsOrder, TakeKeepsOrder, ArriveKeepsOrder
     DEF Next, Loop, Pump

-----------------------------------------------------------------------------
(* The theorems *)

LEMMA Inductive == Spec => []IInv
<1>1. ASSUME IInv, [Next]_vars PROVE IInv'
  BY <1>1, Typed, StaysOne, StayLoops, StaysOrdered DEF IInv
<1> QED  BY InitInv, <1>1, PTL DEF Spec

\* Every variable of the raw socket's model keeps to its values: the channel
\* holds no more than its capacity, and a loop reads a descriptor.
THEOREM Typing == Spec => []TypeOK
<1>1. IInv => TypeOK
  BY DEF IInv, Types, Loops, TypeOK
<1> QED  BY <1>1, Inductive, PTL

\* However an attempt ends, at whichever of its steps, it leaves no descriptor
\* open, and the socket of a connection is its own until Close.
THEOREM NothingStaysOpen == Spec => []NoDescriptorLeft
<1>1. IInv => NoDescriptorLeft
  <2> SUFFICES ASSUME IInv PROVE NoDescriptorLeft
    OBVIOUS
  <2>1. ASSUME NEW c \in Conns, c < a \/ pc = "over", NEW d \in Fds, table[d].of = c PROVE FALSE
    <3>1. c # 0 /\ table[d] # Free
      BY <2>1 DEF Conns, Free
    <3>2. c = a /\ Holds(pc) # "free"
      BY <2>1, <3>1 DEF IInv, OneOpen
    <3>3. a \in Nat
      BY RawSocketAssumption DEF IInv, Types, Conns
    <3> QED  BY <2>1, <3>2, <3>3 DEF Holds
  <2>2. pc = "up" => At(a) = [kind |-> "raw", of |-> a]
    BY DEF IInv, OneOpen, Raw, At
  <2> QED  BY <2>1, <2>2 DEF NoDescriptorLeft, Descriptors
<1> QED  BY <1>1, Inductive, PTL

\* Reads of closed sockets, of other connections' sockets and of the route file
\* notwithstanding, a connection is given packets of its own socket only, in the
\* order they arrived, none twice.
THEOREM NothingIsMixed == Spec => []LossyInOrder
<1>1. IInv => LossyInOrder
  <2> SUFFICES ASSUME IInv, NEW c \in Conns
               PROVE  /\ ~done[c] /\ loop[c] = "blocked" => on[c] = c
                      /\ \A k \in DOMAIN given[c] : given[c][k] # Junk
                      /\ \A k \in 1 .. Len(given[c]) - 1 : given[c][k] < given[c][k + 1]
    BY DEF LossyInOrder
  <2>1. ~done[c] /\ loop[c] = "blocked" => on[c] = c
    BY DEF IInv, Loops
  <2>2. /\ Len(given[c]) \in Nat /\ DOMAIN given[c] = 1 .. Len(given[c])
    BY LenProperties DEF IInv, Types
  <2>3. ASSUME NEW k \in DOMAIN given[c] PROVE given[c][k] # Junk
    <3>1. given[c][k] \in Elems(given[c])
      BY <2>2 DEF Elems
    <3>2. Elems(given[c]) \subseteq 1 .. arrived
      BY DEF IInv, Order, Ordered
    <3> QED  BY <3>1, <3>2 DEF Junk
  <2>4. ASSUME NEW k \in 1 .. Len(given[c]) - 1 PROVE given[c][k] < given[c][k + 1]
    <3>1. k \in 1 .. Len(given[c]) /\ k + 1 \in 1 .. Len(given[c]) /\ k < k + 1
      BY <2>2
    <3>2. Increasing(given[c])
      BY DEF IInv, Order, Ordered
    <3> QED  BY <3>1, <3>2 DEF Increasing
  <2> QED  BY <2>1, <2>3, <2>4
<1> QED  BY <1>1, Inductive, PTL
=============================================================================
