-------------------------------- MODULE Dial --------------------------------
(***************************************************************************)
(* How curlu gets one connection: --resolve and the resolver (lookupResolve*)
(* and dial in client.go, lookupIPv4 in tcpraw.go, quicAddresses in        *)
(* http3.go), the loops over several addresses (dialResolved,              *)
(* dialJA4TAddrs, connectQUIC with splitDeadline), and the exit code of a  *)
(* failure (connectFailure, quicConnectFailure).                           *)
(*                                                                         *)
(* Time is counted in ticks from the start of the dial, and passes while   *)
(* the resolver or an address is waited for.  What an address does with an *)
(* attempt is chosen when the attempt starts.                              *)
(***************************************************************************)
EXTENDS Integers, Sequences, FiniteSets, SequencesExt

CONSTANTS Methods,       \* of {"tcp", "ja4t", "quic"}
          Addresses,     \* numeric addresses
          IPv4,          \* those of family IPv4
          HostName,      \* the host of the URL, for the system's own dialler
          Lists,         \* bound: the address lists of rules and the resolver
          MaxRules,      \* bound: --resolve options
          Timeouts,      \* ticks until the connect deadline, 0 for none
          QUICDefault,   \* quic-go's own handshake limit
          Latency,       \* an address that answers does so in this time
          Patience       \* bound: the resolver's own limit

ASSUME DialAssumption ==
  /\ Methods \subseteq {"tcp", "ja4t", "quic"}
  /\ IPv4 \subseteq Addresses /\ HostName \notin Addresses
  /\ Lists \subseteq Seq(Addresses) \ {<< >>}
  /\ MaxRules \in Nat /\ Timeouts \subseteq Nat
  /\ QUICDefault \in Nat /\ Latency \in Nat /\ Patience \in Nat

\* A --resolve option: for the URL's host and port, for "*" and its port, or
\* for another pair.
Keys == {"host", "any", "other"}
Rule == [key : Keys, remove : BOOLEAN, addrs : Lists \cup {<< >>}]
Rules == {r \in Rule : r.remove <=> r.addrs = << >>}

VARIABLES
  method, rules, timeout,  \* the options
  pc,        \* "resolve", "next" address, "trying" it, or "done"
  addrs,     \* the addresses to try
  next,      \* the index of the next one
  now,       \* ticks since the start
  began,     \* when the loop over the addresses began
  started, limit,   \* when the attempt started, and when it ends or Never
  peer,      \* what the address being tried does
  lastErr,   \* the error of the last attempt, or of the resolver
  sockets,   \* indices of addresses with an open socket
  code,      \* the exit code, 0 for a connection, or Dialling
  tried      \* history: address and time given of each attempt

options == <<method, rules, timeout>>
clock == <<now, began>>
attempt == <<started, limit, peer>>
vars == <<options, pc, addrs, next, clock, attempt, lastErr, sockets, code, tried>>

Dialling == -1
Never == -1

Init ==
  /\ method \in Methods /\ timeout \in Timeouts
  /\ rules \in UNION {[1 .. n -> Rules] : n \in 0 .. MaxRules}
  /\ pc = "resolve" /\ addrs = << >> /\ next = 1
  /\ now = 0 /\ began = 0 /\ started = 0 /\ limit = 0 /\ peer = "none"
  /\ lastErr = "none" /\ sockets = {} /\ code = Dialling /\ tried = << >>

-----------------------------------------------------------------------------
(* The Mut... definitions are plausible bugs, one per property: no action    *)
(* uses them, and with one in the place of the definition it precedes TLC    *)
(* refutes the property.                                                     *)

\* ctx.Err() # nil
Due == timeout > 0 /\ now >= timeout

\* lookupResolve: later options replace earlier ones, removals delete them, and
\* "*" is for hosts without a mapping.
MutMapped == FoldLeft(LAMBDA m, r : [m EXCEPT ![r.key] = r.addrs \o @],
                      [k \in Keys |-> << >>], rules)
Mapped == FoldLeft(LAMBDA m, r : [m EXCEPT ![r.key] = r.addrs],
                   [k \in Keys |-> << >>], rules)
Lookup == IF Mapped["host"] # << >> THEN Mapped["host"] ELSE Mapped["any"]

\* What a QUIC server itself may answer, and the exit codes for it.
PeerCode == [cert |-> 60, crypto |-> 35, close |-> 96]

\* connectFailure, and quicConnectFailure behind the loop.
ConnectFailure(e) ==
  CASE e = "timeout" -> 28 [] e = "v4only" -> 2 [] e = "dns" -> 6 [] OTHER -> 7
Failure(e) == CASE e \in DOMAIN PeerCode -> PeerCode[e]
                [] e \notin DOMAIN PeerCode /\ method = "quic" /\ Due -> 28
                [] OTHER -> ConnectFailure(e)

Fail(c) == pc' = "done" /\ code' = c

-----------------------------------------------------------------------------
(* Which addresses *)

Try(l) ==
  /\ pc' = "next" /\ addrs' = l /\ began' = now
  /\ UNCHANGED <<options, next, now, attempt, lastErr, sockets, code, tried>>

\* --resolve, or the system's dialler given the name.
UseRules == pc = "resolve" /\ Lookup # << >> /\ Try(Lookup)
UseDialler == pc = "resolve" /\ Lookup = << >> /\ method = "tcp" /\ Try(<<HostName>>)

\* The resolver, or a numeric host.  --ja4t asks for IPv4 addresses.
UseResolver(l) ==
  /\ pc = "resolve" /\ Lookup = << >> /\ method # "tcp" /\ ~Due
  /\ method = "ja4t" => \A k \in DOMAIN l : l[k] \in IPv4
  /\ Try(l)

\* The resolver fails, or the host is an IPv6 address.  It may have given up by
\* itself, as with a name server that is silent, before any deadline and without
\* one: isTimeout takes that for a timeout as well.
ResolveFails(e) ==
  /\ pc = "resolve" /\ Lookup = << >> /\ method # "tcp"
  /\ e = "v4only" => method = "ja4t"
  /\ Fail(ConnectFailure(e)) /\ lastErr' = e
  /\ UNCHANGED <<options, addrs, next, clock, attempt, sockets, tried>>

-----------------------------------------------------------------------------
(* The loop over the addresses *)

MutUsable(a) == TRUE
Usable(a) == method = "ja4t" => a \in IPv4

\* dialJA4TAddrs passes over addresses that are not IPv4.
Skip ==
  /\ pc = "next" /\ next <= Len(addrs) /\ ~Usable(addrs[next])
  /\ next' = next + 1
  /\ UNCHANGED <<options, pc, addrs, clock, attempt, lastErr, sockets, code, tried>>

\* What an address may do, and the system's dialler with a name.
Peers(a) ==
  {"up", "refused", "silent"} \cup
    (IF method = "quic" THEN DOMAIN PeerCode ELSE {}) \cup
    (IF a = HostName THEN {"dns"} ELSE {})

\* splitDeadline: what is left of the time, divided by the addresses left.
\* TCP and --ja4t give each attempt all of it.
MutLeft == timeout
Left == IF timeout > now THEN timeout - now ELSE 0
MutBudget == Left
Budget == Left \div (Len(addrs) - next + 1)
MutLimit == IF method = "quic" THEN now + Budget ELSE Never
Limit == CASE method = "quic" -> now + IF timeout > 0 THEN Budget ELSE QUICDefault
           [] method # "quic" /\ timeout > 0 -> timeout
           [] OTHER -> Never

Start(p) ==
  /\ pc = "next" /\ next <= Len(addrs) /\ Usable(addrs[next])
  /\ p \in Peers(addrs[next])
  /\ pc' = "trying" /\ peer' = p /\ started' = now /\ limit' = Limit
  /\ sockets' = sockets \cup {next}
  /\ tried' = Append(tried, [addr |-> addrs[next], given |-> Limit - now])
  /\ UNCHANGED <<options, addrs, next, clock, lastErr, code>>

Connected ==
  /\ pc = "trying" /\ peer = "up"
  /\ pc' = "done" /\ code' = 0
  /\ UNCHANGED <<options, addrs, next, clock, attempt, lastErr, sockets, tried>>

\* quicPeerAnswered: another address of the host would answer the same.
MutGoesOn(e) == ~Due
GoesOn(e) == ~Due /\ e \notin DOMAIN PeerCode
MutClosed == sockets
Closed == sockets \ {next}

\* An attempt fails: its socket is closed, and the next address is tried unless
\* the time is up or the server has answered.
AttemptFails(e) ==
  /\ sockets' = Closed
  /\ lastErr' = e
  /\ \/ /\ GoesOn(e)
        /\ pc' = "next" /\ next' = next + 1 /\ UNCHANGED code
     \/ /\ ~GoesOn(e)
        /\ Fail(Failure(e)) /\ UNCHANGED next
  /\ UNCHANGED <<options, addrs, clock, attempt, tried>>

Refused ==
  /\ pc = "trying" /\ peer \notin {"up", "silent"}
  /\ AttemptFails(peer)

\* The attempt's time is up, or the kernel's own patience with a TCP SYN; a
\* crafted SYN has no other limit than the deadline.
AttemptTimesOut ==
  /\ pc = "trying"
  /\ \/ limit # Never /\ now >= limit
     \/ method = "tcp" /\ peer = "silent"
  /\ AttemptFails("timeout")

\* No address is left.
GiveUp ==
  /\ pc = "next" /\ next > Len(addrs)
  /\ Fail(IF method = "ja4t" /\ tried = << >> THEN ConnectFailure("v4only")
                                              ELSE Failure(lastErr))
  /\ UNCHANGED <<options, addrs, next, clock, attempt, lastErr, sockets, tried>>

\* Time passes while something is waited for, and no longer than an answer or
\* the end of the attempt takes.
Waiting ==
  \/ pc = "resolve" /\ Lookup = << >> /\ method # "tcp" /\ ~Due /\ now < Patience
  \/ /\ pc = "trying"
     /\ limit # Never => now < limit
     /\ IF peer = "silent" THEN limit # Never ELSE now < started + Latency
Tick ==
  /\ Waiting
  /\ now' = now + 1
  /\ UNCHANGED <<options, pc, addrs, next, began, attempt, lastErr, sockets,
                 code, tried>>

-----------------------------------------------------------------------------
Resolve == \/ UseRules \/ UseDialler \/ \E l \in Lists : UseResolver(l)
           \/ \E e \in {"timeout", "dns", "v4only"} : ResolveFails(e)
Step == \/ Skip \/ GiveUp
        \/ \E p \in {"up", "refused", "silent", "dns"} \cup DOMAIN PeerCode : Start(p)
        \/ Connected \/ Refused \/ AttemptTimesOut

Next == Resolve \/ Step \/ Tick

Spec == Init /\ [][Next]_vars
\* The program goes on, and time does.
FairSpec == Spec /\ WF_vars(Resolve) /\ WF_vars(Step) /\ WF_vars(Tick)

-----------------------------------------------------------------------------
(* Properties *)

\* Every variable keeps to its values, time to the deadline while anything is
\* waited for under it.
TypeOK ==
  /\ method \in Methods /\ timeout \in Timeouts /\ rules \in Seq(Rules)
  /\ pc \in {"resolve", "next", "trying", "done"}
  /\ addrs \in Seq(Addresses \cup {HostName}) /\ next \in 1 .. Len(addrs) + 1
  /\ now \in Nat /\ (timeout > 0 => now <= timeout)
  /\ began \in 0 .. now /\ started \in 0 .. now
  /\ limit \in Nat \cup {Never} /\ (timeout > 0 => limit <= timeout)
  /\ code \in {Dialling, 0, 2, 6, 7, 28, 35, 60, 96}
  /\ sockets \subseteq 1 .. Len(addrs) /\ Len(tried) < next + 1

Failed == pc = "done" /\ code # 0

\* The places in the list that can be tried, and where one comes among them.
Usables == {i \in DOMAIN addrs : method = "ja4t" => addrs[i] \in IPv4}
Place(i) == Cardinality(Usables \cap 1 .. i)

\* --resolve means its last option for the host, or else its last for "*", and
\* a removal means that there is none: whatever was added and removed before
\* (README, lookupResolve).
LookupMeansTheLast ==
  LET Latest(k) == {r \in 1 .. Len(rules) :
                      /\ rules[r].key = k
                      /\ \A q \in r + 1 .. Len(rules) : rules[q].key # k}
      Mapping(k) == {rules[r].addrs : r \in Latest(k)} \ {<< >>}
  IN Lookup = CHOOSE l \in Lists \cup {<< >>} :
                CASE Mapping("host") # {} -> l \in Mapping("host")
                  [] Mapping("host") = {} /\ Mapping("any") # {} -> l \in Mapping("any")
                  [] OTHER -> l = << >>

\* Addresses are tried in the order of the list, one attempt each, passing over
\* only what --ja4t cannot use; and a dial fails with addresses left only when
\* its time is up or the server itself has refused it.
TriesInOrder ==
  /\ \E last \in 0 .. Len(addrs) :
       /\ Len(tried) = Place(last)
       /\ \A i \in Usables \cap 1 .. last : tried[Place(i)].addr = addrs[i]
  /\ Failed /\ Len(tried) < Cardinality(Usables)
       => Due \/ lastErr \in DOMAIN PeerCode

\* Over QUIC a silent address gets only its share of the connect time and
\* cannot use up the attempts for those behind it: each gets an equal share at
\* least, and the time is up in the last attempt only (splitDeadline).
SharesTime ==
  method = "quic" /\ timeout > 0 =>
    /\ \A k \in DOMAIN tried :
         tried[k].given >= (timeout - began) \div Len(addrs)
    /\ Failed /\ tried # << >>
         => Len(tried) = Len(addrs) \/ lastErr \in DOMAIN PeerCode

\* The exit code says what happened.  An answer of the server itself is final:
\* no attempt comes behind it, and it decides the code even if the time is up as
\* well.  28 means a timeout, with a deadline or of the kernel, the resolver or
\* quic-go by themselves, and over QUIC also any other failure with the time up;
\* and a timeout that ends the dial is never told in another way.  6 means that
\* there was no address, 2 that there was none of IPv4 for --ja4t, and 7 that the
\* last attempt was refused (quicPeerAnswered, quicConnectFailure, connectFailure).
CodeTellsWhy ==
  /\ lastErr \in DOMAIN PeerCode => pc = "done" /\ code = PeerCode[lastErr]
  /\ code \in {35, 60, 96} => lastErr \in DOMAIN PeerCode
  /\ Failed /\ lastErr = "timeout" => code = 28
  /\ code = 28 => lastErr = "timeout" \/ (method = "quic" /\ Due)
  /\ code = 6 => lastErr = "dns"
  /\ code = 7 => lastErr = "refused"
  /\ code = 2 => method = "ja4t" /\ tried = << >> /\ lastErr \in {"none", "v4only"}

\* A failed attempt leaves no socket open: there is one during an attempt and
\* behind a dial that succeeded, and none otherwise.
SocketsClosed ==
  sockets = IF pc = "trying" \/ code = 0 THEN {next} ELSE {}

\* With --connect-timeout, or over QUIC, a dial ends, whatever the addresses do.
DialEnds == timeout > 0 \/ method = "quic" => <>(pc = "done")
=============================================================================
