----------------------------- MODULE DialProofs -----------------------------
(***************************************************************************)
(* What TLAPS proves of Dial.                                              *)
(***************************************************************************)
EXTENDS Dial, TLAPS, WellFoundedInduction, FiniteSetTheorems

-----------------------------------------------------------------------------
(* Numbers *)

\* Induction without an operator: a counterexample would have a least one.
LEMMA LeastElement ==
  ASSUME NEW T, T \subseteq Nat, T # {}
  PROVE  \E n \in T : \A k \in T : n <= k
<1> DEFINE R == OpToRel(<, Nat)
<1>1. PICK n \in T : \A k \in T : ~ (<<k, n>> \in R)
  BY NatLessThanWellFounded, WFMin, Zenon
<1>2. \A k \in T : <<k, n>> \in R <=> k < n
  BY DEF OpToRel
<1> HIDE DEF R
<1>3. \A k \in T : k \in Nat /\ n \in Nat /\ ~ (k < n)
  BY <1>1, <1>2
<1> QED  BY <1>3

LEMMA MaxIs ==
  ASSUME NEW S, S \subseteq Int, NEW m \in S, \A k \in S : m >= k
  PROVE  Max(S) = m
<1>1. \A x \in S : (\A y \in S : x >= y) <=> x = m
  OBVIOUS
<1> QED  BY <1>1 DEF Max

-----------------------------------------------------------------------------
(* --resolve *)

Nobody == [k \in Keys |-> << >>]

\* What lookupResolve has after the options in s, the last of them at Max(s).
Recursion(f) ==
  [s \in SUBSET (DOMAIN rules) |->
     IF s = {} THEN Nobody
     ELSE [f[s \ {Max(s)}] EXCEPT ![rules[Max(s)].key] = rules[Max(s)].addrs]]

LEMMA MappedIsRecursive ==
  Mapped = (CHOOSE f : f = Recursion(f))[DOMAIN rules]
BY Zenon DEF Mapped, FoldLeft, MapThenFoldSet, Recursion, Nobody

\* The same without recursion: of the options in s for k, the last counts.
OptionsFor(s, k) == {r \in s : rules[r].key = k}
LastOf(s) ==
  [k \in Keys |-> IF OptionsFor(s, k) = {} THEN << >>
                  ELSE rules[Max(OptionsFor(s, k))].addrs]

TypedRules == rules \in Seq(Rules)

LEMMA MaxOfSome ==
  ASSUME TypedRules, NEW s \in SUBSET (DOMAIN rules), s # {}
  PROVE  Max(s) \in s /\ \A k \in s : Max(s) >= k
<1>1. DOMAIN rules = 1 .. Len(rules) /\ Len(rules) \in Nat
  BY DEF TypedRules
<1> DEFINE T == {Len(rules) - k : k \in s}
<1>2. T \subseteq Nat /\ T # {}
  BY <1>1
<1>3. PICK n \in T : \A k \in T : n <= k
  BY <1>2, LeastElement
<1>4. PICK m \in s : n = Len(rules) - m
  BY <1>3
<1>5. \A k \in s : m >= k
  <2>1. \A k \in s : k \in Int /\ m \in Int /\ Len(rules) - m <= Len(rules) - k
    BY <1>1, <1>3, <1>4
  <2> QED  BY <1>1, <2>1
<1>6. Max(s) = m
  BY <1>1, <1>4, <1>5, MaxIs
<1> QED  BY <1>4, <1>5, <1>6

LEMMA LastOfIsRecursive ==
  ASSUME TypedRules
  PROVE  [s \in SUBSET (DOMAIN rules) |-> LastOf(s)]
           = Recursion([s \in SUBSET (DOMAIN rules) |-> LastOf(s)])
<1> DEFINE G == [s \in SUBSET (DOMAIN rules) |-> LastOf(s)]
<1> SUFFICES ASSUME NEW s \in SUBSET (DOMAIN rules)
             PROVE  G[s] = Recursion(G)[s]
  BY DEF Recursion
<1>1. DOMAIN rules \subseteq Int /\ \A r \in DOMAIN rules : rules[r].key \in Keys
  BY DEF TypedRules, Rules, Rule
<1>2. CASE s = {}
  <2>1. \A k \in Keys : OptionsFor(s, k) = {}
    BY <1>2 DEF OptionsFor
  <2> QED  BY <1>2, <2>1 DEF Recursion, Nobody, LastOf
<1>3. CASE s # {}
  <2> DEFINE m == Max(s)
             t == s \ {m}
  <2>1. m \in s /\ \A k \in s : m >= k
    BY <1>3, MaxOfSome
  <2>2. Recursion(G)[s] = [LastOf(t) EXCEPT ![rules[m].key] = rules[m].addrs]
    BY <1>3 DEF Recursion
  <2> HIDE DEF m
  <2>3. ASSUME NEW k \in Keys
        PROVE  LastOf(s)[k] = [LastOf(t) EXCEPT ![rules[m].key] = rules[m].addrs][k]
    <3>1. CASE rules[m].key = k
      <4>1. m \in OptionsFor(s, k) /\ OptionsFor(s, k) \subseteq s
        BY <2>1, <3>1 DEF OptionsFor
      <4>2. Max(OptionsFor(s, k)) = m
        BY <1>1, <2>1, <4>1, MaxIs
      <4> QED  BY <3>1, <4>1, <4>2 DEF LastOf
    <3>2. CASE rules[m].key # k
      <4>1. OptionsFor(s, k) = OptionsFor(t, k)
        BY <3>2 DEF OptionsFor
      <4> QED  BY <3>2, <4>1 DEF LastOf
    <3> QED  BY <3>1, <3>2
  <2>4. G[s] = LastOf(s)
    OBVIOUS
  <2> QED  BY <2>2, <2>3, <2>4 DEF LastOf
<1> QED  BY <1>2, <1>3

\* Every solution agrees with it on the first n options.
LEMMA MappedIsLastOf ==
  ASSUME TypedRules
  PROVE  Mapped = LastOf(DOMAIN rules)
<1> DEFINE F == CHOOSE f : f = Recursion(f)
<1>1. F = Recursion(F)
  BY LastOfIsRecursive
<1> HIDE DEF F
<1>2. DOMAIN rules = 1 .. Len(rules) /\ Len(rules) \in Nat
  BY DEF TypedRules
<1> DEFINE T == {n \in 0 .. Len(rules) : F[1 .. n] # LastOf(1 .. n)}
           G == [s \in SUBSET (DOMAIN rules) |-> LastOf(s)]
<1>3. \A n \in 0 .. Len(rules) : 1 .. n \in SUBSET (DOMAIN rules)
  BY <1>2
<1>4. G = Recursion(G)
  BY LastOfIsRecursive
<1>5. T = {}
  <2> SUFFICES ASSUME T # {} PROVE FALSE
    OBVIOUS
  <2>1. PICK n \in T : \A k \in T : n <= k
    <3>1. T \subseteq Nat
      BY <1>2
    <3> HIDE DEF T
    <3> QED  BY <3>1, LeastElement
  <2>2. n \in 0 .. Len(rules) /\ F[1 .. n] # G[1 .. n]
    BY <1>3, <2>1
  <2>3. CASE n = 0
    <3>1. 1 .. n = {}
      BY <2>3
    <3>2. F[1 .. n] = Nobody
      BY <1>1, <1>3, <2>2, <3>1 DEF Recursion
    <3>3. G[1 .. n] = Nobody
      BY <1>3, <1>4, <2>2, <3>1 DEF Recursion
    <3> QED  BY <2>2, <3>2, <3>3
  <2>4. CASE n # 0
    <3>1. n - 1 \in 0 .. Len(rules) /\ n - 1 \notin T /\ 1 .. n # {}
      BY <1>2, <2>1, <2>2, <2>4
    <3>2. Max(1 .. n) = n
      BY <2>2, <2>4, MaxIs
    <3>3. (1 .. n) \ {Max(1 .. n)} = 1 .. (n - 1)
      BY <2>2, <3>2
    <3>4. F[1 .. (n - 1)] = G[1 .. (n - 1)]
      BY <1>3, <3>1
    <3>5. F[1 .. n] = [F[1 .. (n - 1)] EXCEPT ![rules[n].key] = rules[n].addrs]
      BY <1>1, <1>3, <2>2, <3>1, <3>2, <3>3 DEF Recursion
    <3>6. G[1 .. n] = [G[1 .. (n - 1)] EXCEPT ![rules[n].key] = rules[n].addrs]
      BY <1>3, <1>4, <2>2, <3>1, <3>2, <3>3 DEF Recursion
    <3> QED  BY <2>2, <3>4, <3>5, <3>6
  <2> QED  BY <2>3, <2>4
<1>6. F[DOMAIN rules] = LastOf(DOMAIN rules)
  BY <1>2, <1>5
<1>7. Mapped = F[DOMAIN rules]
  BY MappedIsRecursive DEF F
<1> QED  BY <1>6, <1>7

LEMMA LookupType ==
  ASSUME TypedRules
  PROVE  /\ Mapped \in [Keys -> Lists \cup {<< >>}]
         /\ Lookup \in Lists \cup {<< >>}
<1>1. ASSUME NEW k \in Keys
      PROVE  LastOf(DOMAIN rules)[k] \in Lists \cup {<< >>}
  <2>1. CASE OptionsFor(DOMAIN rules, k) = {}
    BY <2>1 DEF LastOf
  <2>2. CASE OptionsFor(DOMAIN rules, k) # {}
    <3>1. OptionsFor(DOMAIN rules, k) \in SUBSET (DOMAIN rules)
      BY DEF OptionsFor
    <3>2. Max(OptionsFor(DOMAIN rules, k)) \in DOMAIN rules
      BY <2>2, <3>1, MaxOfSome
    <3>3. rules[Max(OptionsFor(DOMAIN rules, k))].addrs \in Lists \cup {<< >>}
      BY <3>2 DEF TypedRules, Rules, Rule
    <3> QED  BY <2>2, <3>3 DEF LastOf
  <2> QED  BY <2>1, <2>2
<1>2. Mapped \in [Keys -> Lists \cup {<< >>}]
  BY <1>1, MappedIsLastOf DEF LastOf
<1> QED  BY <1>2 DEF Lookup, Keys

\* What LookupMeansTheLast says of a key.
LEMMA MappingIsLastOf ==
  ASSUME TypedRules, NEW k \in Keys
  PROVE  {rules[r].addrs : r \in {r \in 1 .. Len(rules) :
                                    /\ rules[r].key = k
                                    /\ \A q \in r + 1 .. Len(rules) : rules[q].key # k}}
             \ {<< >>} = {Mapped[k]} \ {<< >>}
<1> DEFINE Latest == {r \in 1 .. Len(rules) :
                        /\ rules[r].key = k
                        /\ \A q \in r + 1 .. Len(rules) : rules[q].key # k}
           O == OptionsFor(DOMAIN rules, k)
<1>1. DOMAIN rules = 1 .. Len(rules) /\ Len(rules) \in Nat
  BY DEF TypedRules
<1>2. CASE O = {}
  <2>1. Latest = {}
    BY <1>1, <1>2 DEF OptionsFor
  <2>2. Mapped[k] = << >>
    BY <1>2, MappedIsLastOf DEF LastOf
  <2> QED  BY <2>1, <2>2
<1>3. CASE O # {}
  <2> DEFINE m == Max(O)
  <2>1. O \in SUBSET (DOMAIN rules)
    BY DEF OptionsFor
  <2>2. m \in O /\ \A r \in O : m >= r
    BY <1>3, <2>1, MaxOfSome
  <2>3. Mapped[k] = rules[m].addrs
    BY <1>3, MappedIsLastOf DEF LastOf
  <2> HIDE DEF m
  <2>4. Latest = {m}
    <3>1. m \in Latest
      BY <1>1, <2>2 DEF OptionsFor
    <3>2. ASSUME NEW r \in Latest PROVE r = m
      <4>1. r \in O /\ m >= r /\ r \in Int /\ m \in 1 .. Len(rules) /\ rules[m].key = k
        BY <1>1, <2>2, <3>2 DEF OptionsFor
      <4>2. m \notin r + 1 .. Len(rules)
        BY <3>2, <4>1
      <4> QED  BY <1>1, <4>1, <4>2
    <3> QED  BY <3>1, <3>2
  <2> QED  BY <2>3, <2>4
<1> QED  BY <1>2, <1>3

LEMMA LookupIsTheLast ==
  ASSUME TypedRules
  PROVE  LookupMeansTheLast
<1> DEFINE Latest(k) == {r \in 1 .. Len(rules) :
                           /\ rules[r].key = k
                           /\ \A q \in r + 1 .. Len(rules) : rules[q].key # k}
           Mapping(k) == {rules[r].addrs : r \in Latest(k)} \ {<< >>}
           Meant(l) == CASE Mapping("host") # {} -> l \in Mapping("host")
                         [] Mapping("host") = {} /\ Mapping("any") # {} -> l \in Mapping("any")
                         [] OTHER -> l = << >>
<1>1. /\ Mapping("host") = {Mapped["host"]} \ {<< >>}
      /\ Mapping("any") = {Mapped["any"]} \ {<< >>}
  BY MappingIsLastOf, Zenon DEF Keys
<1> HIDE DEF Mapping
<1>2. \A l : Meant(l) <=> l = Lookup
  BY <1>1 DEF Lookup
<1>3. Lookup \in Lists \cup {<< >>}
  BY LookupType
<1>4. Lookup = CHOOSE l \in Lists \cup {<< >>} : Meant(l)
  BY <1>2, <1>3
<1> QED  BY <1>4, Zenon DEF LookupMeansTheLast, Mapping

-----------------------------------------------------------------------------
(* The inductive invariant *)

Answers == {"refused", "dns"} \cup DOMAIN PeerCode
Goals == Addresses \cup {HostName}

Kinds ==
  /\ method \in Methods /\ timeout \in Timeouts /\ TypedRules
  /\ pc \in {"resolve", "next", "trying", "done"}
  /\ addrs \in Seq(Goals) /\ next \in 1 .. Len(addrs) + 1
  /\ peer \in {"none", "up", "silent"} \cup Answers
  /\ lastErr \in {"none", "timeout", "v4only"} \cup Answers
  /\ tried \in Seq([addr : Goals, given : Int])
  /\ code \in {Dialling, 0, 2, 6, 7, 28, 35, 60, 96}

\* Where the loop is, and what it leaves behind.
Places ==
  /\ pc = "resolve" => addrs = << >> /\ next = 1 /\ tried = << >> /\ lastErr = "none"
  /\ pc \in {"next", "trying"} => addrs # << >>
  /\ pc = "trying" \/ code = 0 => next <= Len(addrs)
  /\ pc = "done" <=> code # Dialling
  /\ Len(tried) <= next /\ (pc = "next" => Len(tried) < next)
  /\ SocketsClosed

\* Nothing is waited for beyond its limit, nor any limit beyond the deadline.
Clock ==
  /\ now \in Nat /\ (timeout > 0 => now <= timeout)
  /\ began \in 0 .. now /\ started \in 0 .. now
  /\ limit \in Nat \cup {Never} /\ (timeout > 0 => limit <= timeout)
  /\ pc = "trying" => limit = Never \/ now <= limit
  /\ pc = "trying" /\ timeout > 0 => limit # Never

\* The loop goes on only behind errors of the address.
Errors ==
  /\ pc \in {"next", "trying"} => lastErr \notin DOMAIN PeerCode \cup {"v4only"}
  /\ pc = "next" => (lastErr = "none" <=> tried = << >>)
  /\ pc = "next" /\ next > 1 /\ method # "ja4t" => lastErr # "none"
  /\ pc = "trying" => peer # "none" /\ tried # << >>
  /\ CodeTellsWhy

\* Over QUIC, what is left is enough for the addresses left, and the share of
\* an attempt is no more than its part.
Share == (timeout - began) \div Len(addrs)
AddrsLeft == Len(addrs) - next + 1
Shares ==
  /\ pc = "resolve" /\ Lookup # << >> => now = 0
  /\ method = "quic" /\ timeout > 0 =>
       /\ pc = "next" => Len(tried) = next - 1
       /\ pc = "next" /\ next <= Len(addrs)
            => timeout - now >= AddrsLeft * Share /\ now < timeout
       /\ pc = "trying" =>
            /\ Len(tried) = next /\ started < timeout
            /\ limit - started \in Nat /\ limit - started >= Share
            /\ AddrsLeft * (limit - started) <= timeout - started
  /\ SharesTime

IInv == Kinds /\ Places /\ Clock /\ Errors /\ Shares

LEMMA Division ==
  ASSUME NEW a \in Nat, NEW d \in Nat, d > 0
  PROVE  a \div d \in Nat /\ d * (a \div d) <= a /\ a \div d <= a
OBVIOUS

LEMMA DivisionIsGreatest ==
  ASSUME NEW a \in Nat, NEW d \in Nat, d > 0, NEW q \in Nat, d * q <= a
  PROVE  q <= a \div d
<1>1. a < d * (a \div d) + d /\ a \div d \in Nat
  OBVIOUS
<1>2. CASE a \div d < q
  <2>1. (a \div d) + 1 <= q
    BY <1>1, <1>2
  <2>2. d * ((a \div d) + 1) <= d * q
    BY <1>1, <2>1
  <2>3. d * ((a \div d) + 1) = d * (a \div d) + d
    BY <1>1
  <2> QED  BY <1>1, <2>2, <2>3
<1> QED  BY <1>1, <1>2

LEMMA Codes ==
  /\ \A e : ConnectFailure(e) \in {28, 2, 6, 7}
  /\ \A e : Failure(e) \in {28, 2, 6, 7, 35, 60, 96}
  /\ DOMAIN PeerCode = {"cert", "crypto", "close"}
  /\ \A e \in DOMAIN PeerCode : Failure(e) = PeerCode[e] /\ PeerCode[e] \in {35, 60, 96}
  /\ \A e : e \notin DOMAIN PeerCode => Failure(e) \in {28, 2, 6, 7}
<1>1. DOMAIN PeerCode = {"cert", "crypto", "close"}
  BY DEF PeerCode
<1>2. \A e : ConnectFailure(e) \in {28, 2, 6, 7}
  BY DEF ConnectFailure
<1>3. \A e \in DOMAIN PeerCode : Failure(e) = PeerCode[e] /\ PeerCode[e] \in {35, 60, 96}
  BY <1>1 DEF Failure, PeerCode
<1>4. \A e : e \notin DOMAIN PeerCode => Failure(e) \in {28, 2, 6, 7}
  BY <1>2 DEF Failure
<1> QED  BY <1>1, <1>2, <1>3, <1>4

LEMMA TryLists ==
  ASSUME Kinds, Resolve
  PROVE  \/ \E l \in Seq(Goals) : l # << >> /\ Try(l) /\ pc = "resolve"
         \/ \E e \in {"timeout", "dns", "v4only"} : ResolveFails(e)
<1>1. \A l \in Lists : l \in Seq(Goals) /\ l # << >>
  BY DialAssumption DEF Goals
<1>2. CASE UseRules
  BY <1>1, <1>2, LookupType DEF UseRules, Kinds
<1>3. CASE UseDialler
  <2>1. <<HostName>> \in Seq(Goals) /\ <<HostName>> # << >>
    BY DEF Goals
  <2> QED  BY <1>3, <2>1 DEF UseDialler
<1>4. ASSUME NEW l \in Lists, UseResolver(l)
      PROVE  \E k \in Seq(Goals) : k # << >> /\ Try(k) /\ pc = "resolve"
  BY <1>1, <1>4 DEF UseResolver
<1> QED  BY <1>2, <1>3, <1>4 DEF Resolve

LEMMA LimitType ==
  ASSUME Kinds, Clock, pc = "next", next <= Len(addrs)
  PROVE  /\ AddrsLeft \in Nat /\ AddrsLeft > 0
         /\ Left \in Nat /\ Budget \in Nat /\ Budget <= Left /\ AddrsLeft * Budget <= Left
         /\ Limit \in Nat \cup {Never}
         /\ Limit # Never => Limit >= now
         /\ timeout > 0 => Limit # Never /\ Limit <= timeout
<1>1. timeout \in Nat /\ now \in Nat /\ QUICDefault \in Nat
  BY DialAssumption DEF Kinds, Clock
<1>2. AddrsLeft \in Nat /\ AddrsLeft > 0
  BY DEF Kinds, AddrsLeft
<1>3. Left \in Nat /\ (timeout > 0 => now + Left <= timeout)
  BY <1>1 DEF Left, Clock
<1>4. Budget = Left \div AddrsLeft
  BY DEF Budget, AddrsLeft
<1>5. Budget \in Nat /\ Budget <= Left /\ AddrsLeft * Budget <= Left
  BY <1>2, <1>3, <1>4, Division
<1>6. /\ Limit \in Nat \cup {Never}
      /\ Limit # Never => Limit >= now
      /\ timeout > 0 => Limit # Never /\ Limit <= timeout
  <2>1. CASE method = "quic" /\ timeout > 0
    BY <1>1, <1>3, <1>5, <2>1 DEF Limit, Never
  <2>2. CASE method = "quic" /\ ~ timeout > 0
    BY <1>1, <2>2 DEF Limit, Never
  <2>3. CASE method # "quic" /\ timeout > 0
    BY <1>1, <2>3 DEF Limit, Never, Clock
  <2>4. CASE method # "quic" /\ ~ timeout > 0
    BY <1>1, <2>4 DEF Limit, Never
  <2> QED  BY <2>1, <2>2, <2>3, <2>4
<1> QED  BY <1>2, <1>3, <1>5, <1>6

-----------------------------------------------------------------------------
(* The steps *)

LEMMA DialInit == Init => IInv
<1> SUFFICES ASSUME Init PROVE IInv
  OBVIOUS
<1> USE DEF Init
<1>1. TypedRules
  <2>1. PICK n \in 0 .. MaxRules : rules \in [1 .. n -> Rules]
    OBVIOUS
  <2> QED  BY <2>1, DialAssumption DEF TypedRules
<1>2. Kinds
  BY <1>1 DEF Kinds, Goals
<1>3. Places
  BY DEF Places, SocketsClosed, Dialling
<1>4. Clock
  BY DialAssumption DEF Clock, Never
<1>5. Errors
  BY DEF Errors, CodeTellsWhy, Failed, Dialling, PeerCode
<1>6. Shares
  BY DEF Shares, SharesTime, Failed
<1> QED  BY <1>2, <1>3, <1>4, <1>5, <1>6 DEF IInv

LEMMA TryKeeps ==
  ASSUME IInv, pc = "resolve", NEW l \in Seq(Goals), l # << >>, Try(l),
         method = "quic" /\ timeout > 0 => now < timeout
  PROVE  IInv'
<1> USE DEF Try, options, attempt
<1>1. Len(l) \in Nat /\ Len(l) > 0
  OBVIOUS
<1>2. Kinds'
  BY <1>1 DEF IInv, Kinds, Places, TypedRules
<1>3. Places'
  BY <1>1 DEF IInv, Places, SocketsClosed, Dialling
<1>4. Clock'
  BY DEF IInv, Clock
<1>5. Errors'
  <2>1. code = Dialling
    BY DEF IInv, Places
  <2> QED  BY <2>1 DEF IInv, Places, Errors, CodeTellsWhy, Failed, Dialling, Due
<1>6. Shares'
  <2>1. ASSUME method = "quic", timeout > 0
        PROVE  timeout - now >= Len(l) * ((timeout - now) \div Len(l)) /\ now < timeout
    <3>1. now < timeout /\ timeout \in Nat /\ now \in Nat
      BY <2>1, DialAssumption DEF IInv, Kinds, Clock
    <3>2. timeout - now \in Nat
      BY <3>1
    <3> QED  BY <1>1, <3>1, <3>2, Division
  <2>2. /\ AddrsLeft' = Len(l) /\ Share' = (timeout - now) \div Len(l)
        /\ next = 1 /\ tried = << >> /\ code = Dialling
    BY <1>1 DEF IInv, Places, AddrsLeft, Share
  <2> QED  BY <2>1, <2>2 DEF Shares, SharesTime, Failed, Dialling
<1> QED  BY <1>2, <1>3, <1>4, <1>5, <1>6 DEF IInv

LEMMA ResolveKeeps ==
  ASSUME IInv, Resolve
  PROVE  IInv'
<1>1. ASSUME NEW l \in Seq(Goals), l # << >>, Try(l), pc = "resolve",
             UseRules \/ UseDialler \/ \E k \in Lists : UseResolver(k)
      PROVE  IInv'
  <2>1. method = "quic" /\ timeout > 0 => now < timeout
    <3>1. timeout \in Nat /\ now \in Nat
      BY DialAssumption DEF IInv, Kinds, Clock
    <3>2. CASE UseRules
      BY <3>1, <3>2 DEF IInv, Shares, UseRules
    <3>3. CASE UseDialler
      BY <3>3 DEF UseDialler
    <3>4. ASSUME NEW k \in Lists, UseResolver(k) PROVE timeout > 0 => now < timeout
      BY <3>1, <3>4 DEF UseResolver, Due
    <3> QED  BY <1>1, <3>2, <3>3, <3>4
  <2> QED  BY <1>1, <2>1, TryKeeps
<1>2. ASSUME NEW e \in {"timeout", "dns", "v4only"}, ResolveFails(e)
      PROVE  IInv'
  <2> USE DEF options, clock, attempt
  <2>1. /\ pc = "resolve" /\ pc' = "done" /\ code' = ConnectFailure(e)
        /\ UNCHANGED <<method, rules, timeout, addrs, next, now, began, started, limit, peer,
                       sockets, tried>>
        /\ lastErr' = e
        /\ e = "v4only" => method = "ja4t"
    BY <1>2 DEF ResolveFails, Fail
  <2>2. /\ code' \in {28, 2, 6} /\ (code' = 28 <=> e = "timeout")
        /\ (code' = 6 => e = "dns") /\ (code' = 2 => method = "ja4t" /\ e = "v4only")
    BY <2>1 DEF ConnectFailure
  <2>3. next = 1 /\ tried = << >> /\ lastErr = "none" /\ sockets = {}
    BY <2>1 DEF IInv, Places, SocketsClosed, Dialling
  <2>4. Kinds'
    BY <2>1, <2>2 DEF IInv, Kinds, TypedRules, Answers
  <2>5. Places'
    BY <2>1, <2>2, <2>3 DEF Places, SocketsClosed, Dialling
  <2>6. Clock'
    BY <2>1 DEF IInv, Clock
  <2>7. Errors'
    <3>1. Due' = Due
      BY <2>1 DEF Due
    <3>2. e \notin DOMAIN PeerCode
      BY Codes
    <3> QED  BY <2>1, <2>2, <2>3, <3>1, <3>2 DEF Errors, CodeTellsWhy, Failed
  <2>8. Shares'
    BY <2>1, <2>3 DEF IInv, Shares, SharesTime, Failed
  <2> QED  BY <2>4, <2>5, <2>6, <2>7, <2>8 DEF IInv
<1>3. Kinds
  BY DEF IInv
<1> QED  BY <1>1, <1>2, <1>3, TryLists DEF Resolve, UseRules, UseDialler, UseResolver

LEMMA SkipKeeps ==
  ASSUME IInv, Skip
  PROVE  IInv'
<1> USE DEF Skip, options, clock, attempt
<1>1. next \in 1 .. Len(addrs) /\ next' = next + 1 /\ method = "ja4t" /\ Len(addrs) \in Nat
  BY DEF IInv, Kinds, Usable
<1>2. Kinds'
  BY <1>1 DEF IInv, Kinds, TypedRules
<1>3. Places'
  BY <1>1 DEF IInv, Kinds, Places, SocketsClosed, Dialling
<1>4. Clock'
  BY DEF IInv, Clock
<1>5. Errors'
  BY <1>1 DEF IInv, Errors, CodeTellsWhy, Failed, Due
<1>6. Shares'
  BY <1>1 DEF IInv, Shares, SharesTime, Failed
<1> QED  BY <1>2, <1>3, <1>4, <1>5, <1>6 DEF IInv

LEMMA StartKeeps ==
  ASSUME IInv, NEW p \in {"up", "refused", "silent", "dns"} \cup DOMAIN PeerCode, Start(p)
  PROVE  IInv'
<1> USE DEF options, clock
<1>1. /\ pc = "next" /\ pc' = "trying" /\ peer' = p /\ started' = now /\ limit' = Limit
      /\ sockets' = sockets \cup {next} /\ next <= Len(addrs)
      /\ tried' = Append(tried, [addr |-> addrs[next], given |-> Limit - now])
      /\ UNCHANGED <<method, rules, timeout, addrs, next, now, began, lastErr, code>>
  BY DEF Start
<1>2. /\ AddrsLeft \in Nat /\ AddrsLeft > 0
      /\ Left \in Nat /\ Budget \in Nat /\ Budget <= Left /\ AddrsLeft * Budget <= Left
      /\ Limit \in Nat \cup {Never}
      /\ Limit # Never => Limit >= now
      /\ timeout > 0 => Limit # Never /\ Limit <= timeout
  BY <1>1, LimitType DEF IInv
<1>3. now \in Nat /\ timeout \in Nat /\ began \in 0 .. now /\ Limit - now \in Int /\ next \in Nat
      /\ Len(addrs) \in Nat /\ tried \in Seq([addr : Goals, given : Int])
  BY <1>2, DialAssumption DEF IInv, Kinds, Clock, Never
<1>4. /\ tried' \in Seq([addr : Goals, given : Int]) /\ Len(tried') = Len(tried) + 1
      /\ tried' # << >> /\ \A k \in DOMAIN tried : tried'[k] = tried[k]
      /\ tried'[Len(tried')].given = Limit - now
      /\ DOMAIN tried' = DOMAIN tried \cup {Len(tried')}
  <2>1. [addr |-> addrs[next], given |-> Limit - now] \in [addr : Goals, given : Int]
    BY <1>1, <1>3 DEF IInv, Kinds
  <2> QED  BY <1>1, <1>3, <2>1
<1>5. code = Dialling /\ sockets = {}
  BY <1>1 DEF IInv, Places, SocketsClosed, Dialling
<1>6. Kinds'
  BY <1>1, <1>4 DEF IInv, Kinds, TypedRules, Answers
<1>7. Places'
  BY <1>1, <1>3, <1>4, <1>5 DEF IInv, Places, SocketsClosed, Dialling
<1>8. Clock'
  BY <1>1, <1>2, <1>3 DEF IInv, Clock
<1>9. Errors'
  <2>1. "none" \notin DOMAIN PeerCode /\ p # "none"
    BY Codes
  <2> QED  BY <1>1, <1>4, <1>5, <2>1 DEF IInv, Errors, CodeTellsWhy, Failed, Dialling, Due
<1>10. Shares'
  <2>1. CASE method = "quic" /\ timeout > 0
    <3>1. /\ Len(tried) = next - 1 /\ timeout - now >= AddrsLeft * Share /\ now < timeout
      BY <1>1, <2>1 DEF IInv, Shares
    <3>2. Left = timeout - now /\ Limit - now = Budget /\ Budget = Left \div AddrsLeft
      <4>1. Left = timeout - now
        BY <1>3, <3>1 DEF Left
      <4>2. Limit = now + Budget
        BY <2>1 DEF Limit
      <4>3. Budget = Left \div AddrsLeft
        BY DEF Budget, AddrsLeft
      <4> QED  BY <1>2, <1>3, <4>1, <4>2, <4>3
    <3>3. Share \in Nat
      <4>1. timeout - began \in Nat /\ Len(addrs) > 0
        BY <1>1, <1>3, <3>1 DEF IInv, Kinds
      <4> QED  BY <1>3, <4>1, Division DEF Share
    <3>4. Budget >= Share
      BY <1>2, <3>1, <3>2, <3>3, DivisionIsGreatest
    <3>5. Share' = Share /\ AddrsLeft' = AddrsLeft
      BY <1>1 DEF Share, AddrsLeft
    <3>6. \A k \in DOMAIN tried : tried[k].given >= Share
      BY <2>1 DEF IInv, Shares, SharesTime, Share
    <3>7. \A k \in DOMAIN tried' : tried'[k].given >= Share
      BY <1>4, <3>2, <3>4, <3>6
    <3>8. SharesTime'
      BY <1>1, <3>7 DEF SharesTime, Share, Failed
    <3>9. Len(tried') = next /\ limit' - started' = Budget
      BY <1>1, <1>3, <1>4, <3>1, <3>2
    <3> QED  BY <1>1, <1>2, <3>1, <3>2, <3>4, <3>5, <3>8, <3>9 DEF Shares
  <2>2. CASE ~ (method = "quic" /\ timeout > 0)
    BY <1>1, <2>2 DEF IInv, Shares, SharesTime
  <2> QED  BY <2>1, <2>2
<1> QED  BY <1>6, <1>7, <1>8, <1>9, <1>10 DEF IInv

LEMMA ConnectedKeeps ==
  ASSUME IInv, Connected
  PROVE  IInv'
<1> USE DEF Connected, options, clock, attempt
<1>1. Kinds'
  BY DEF IInv, Kinds, TypedRules
<1>2. Places'
  BY DEF IInv, Places, SocketsClosed, Dialling
<1>3. Clock'
  BY DEF IInv, Clock
<1>4. Errors'
  BY DEF IInv, Errors, CodeTellsWhy, Failed, Due
<1>5. Shares'
  BY DEF IInv, Shares, SharesTime, Failed
<1> QED  BY <1>1, <1>2, <1>3, <1>4, <1>5 DEF IInv

LEMMA LookupStays ==
  ASSUME TypedRules, rules' = rules
  PROVE  Lookup' = Lookup
<1>1. (TypedRules => Mapped = LastOf(DOMAIN rules))'
  BY MappedIsLastOf, PTL
<1>2. TypedRules'
  BY DEF TypedRules
<1>3. LastOf(DOMAIN rules)' = LastOf(DOMAIN rules)
  BY DEF LastOf, OptionsFor
<1> QED  BY <1>1, <1>2, <1>3, MappedIsLastOf DEF Lookup

LEMMA TickKeeps ==
  ASSUME IInv, Tick
  PROVE  IInv'
<1> USE DEF Tick, options, attempt
<1>1. now \in Nat /\ timeout \in Nat /\ now' = now + 1
  BY DialAssumption DEF IInv, Kinds, Clock
<1>2. Kinds'
  BY DEF IInv, Kinds, TypedRules
<1>3. Places'
  BY DEF IInv, Places, SocketsClosed, Dialling
<1>4. Clock'
  <2>1. CASE pc = "resolve"
    BY <1>1, <2>1 DEF IInv, Clock, Waiting, Due
  <2>2. CASE pc = "trying"
    BY <1>1, <2>2 DEF IInv, Clock, Waiting, Never
  <2> QED  BY <2>1, <2>2 DEF Waiting
<1>5. Errors'
  <2>1. Due => Due'
    BY <1>1 DEF Due
  <2> QED  BY <2>1 DEF IInv, Errors, CodeTellsWhy, Failed
<1>6. Shares'
  <2>1. pc' = "resolve" /\ Lookup' # << >> => now' = 0
    <3>1. Lookup' = Lookup
      BY LookupStays DEF IInv, Kinds
    <3>2. pc = "resolve" => Lookup = << >>
      BY DEF Waiting
    <3> QED  BY <3>1, <3>2
  <2>2. pc \in {"resolve", "trying"}
    BY DEF Waiting
  <2>3. AddrsLeft' = AddrsLeft /\ Share' = Share /\ SharesTime'
    BY DEF IInv, Shares, SharesTime, Share, AddrsLeft, Failed
  <2> QED  BY <2>1, <2>2, <2>3 DEF IInv, Shares
<1> QED  BY <1>2, <1>3, <1>4, <1>5, <1>6 DEF IInv

\* An attempt that fails: by the answer of its address, or by its limit.
Fails(e) ==
  /\ pc = "trying" /\ AttemptFails(e)
  /\ e \in Answers \cup {"timeout"}

LEMMA ItFails ==
  ASSUME IInv, Refused \/ AttemptTimesOut
  PROVE  \E e : Fails(e)
BY DEF IInv, Kinds, Errors, Refused, AttemptTimesOut, Fails, Answers

LEMMA FailsKeeps ==
  ASSUME IInv, NEW e, Fails(e)
  PROVE  IInv'
<1> USE DEF options, clock, attempt
<1>1. /\ pc = "trying" /\ e \in Answers \cup {"timeout"}
      /\ sockets' = sockets \ {next} /\ lastErr' = e
      /\ UNCHANGED <<method, rules, timeout, addrs, now, began, started, limit, peer, tried>>
      /\ \/ GoesOn(e) /\ pc' = "next" /\ next' = next + 1 /\ code' = code
         \/ ~GoesOn(e) /\ pc' = "done" /\ code' = Failure(e) /\ next' = next
  BY DEF Fails, AttemptFails, Closed, Fail
<1>2. /\ code = Dialling /\ sockets = {next} /\ sockets' = {}
      /\ Len(addrs) \in Nat /\ next \in 1 .. Len(addrs) /\ tried \in Seq([addr : Goals, given : Int])
      /\ now \in Nat /\ timeout \in Nat
  BY <1>1, DialAssumption DEF IInv, Kinds, Places, SocketsClosed, Clock
<1>3. ~GoesOn(e) => code' \in {28, 2, 6, 7, 35, 60, 96}
  BY <1>1, Codes DEF GoesOn
<1>4. Kinds'
  <2>1. code' \in {Dialling, 0, 2, 6, 7, 28, 35, 60, 96}
    BY <1>1, <1>2, <1>3
  <2>2. next' \in 1 .. Len(addrs) + 1 /\ lastErr' \in {"none", "timeout"} \cup Answers
    BY <1>1, <1>2
  <2> QED  BY <1>1, <2>1, <2>2 DEF IInv, Kinds, TypedRules
<1>5. Places'
  <2>1. Len(tried) \in Nat /\ Len(tried) <= next /\ addrs # << >>
    BY <1>1, <1>2 DEF IInv, Places
  <2> QED  BY <1>1, <1>2, <1>3, <2>1 DEF Places, SocketsClosed, Dialling
<1>6. Clock'
  BY <1>1 DEF IInv, Clock
<1>7. Errors'
  <2>1. Due' = Due
    BY <1>1 DEF Due
  <2>2. CASE GoesOn(e)
    <3>1. /\ e \notin DOMAIN PeerCode /\ e \notin {"none", "v4only"}
          /\ code' = Dialling /\ pc' = "next"
      BY <1>1, <1>2, <2>2, Codes DEF GoesOn, Answers
    <3>2. tried # << >>
      BY <1>1 DEF IInv, Errors
    <3> QED  BY <1>1, <3>1, <3>2 DEF Errors, CodeTellsWhy, Failed, Dialling
  <2>3. CASE ~GoesOn(e)
    <3>1. CASE e \in DOMAIN PeerCode
      BY <1>1, <2>3, <3>1, Codes DEF Errors, CodeTellsWhy, Failed
    <3>2. CASE e \notin DOMAIN PeerCode
      <4>1. code' \in {28, 2, 6, 7} /\ e \in {"refused", "dns", "timeout"}
        BY <1>1, <2>3, <3>2, Codes DEF GoesOn, Answers
      <4>2. /\ code' = 28 => e = "timeout" \/ (method = "quic" /\ Due)
            /\ e = "timeout" => code' = 28
            /\ code' = 6 => e = "dns"
            /\ code' = 7 => e = "refused"
            /\ code' # 2
        BY <1>1, <2>3, <3>2, <4>1 DEF Failure, ConnectFailure, GoesOn
      <4> QED  BY <1>1, <2>1, <2>3, <3>2, <4>1, <4>2 DEF Errors, CodeTellsWhy, Failed
    <3> QED  BY <3>1, <3>2
  <2> QED  BY <2>2, <2>3
<1>8. Shares'
  <2>1. CASE method = "quic" /\ timeout > 0
    <3> DEFINE b == limit - started
               d == Len(addrs) - next
    <3>1. /\ Len(tried) = next /\ started < timeout /\ b \in Nat /\ b >= Share
          /\ AddrsLeft * b <= timeout - started /\ SharesTime
      BY <1>1, <2>1 DEF IInv, Shares
    <3>2. /\ now <= limit /\ started \in Nat /\ limit \in Nat /\ limit = started + b
          /\ AddrsLeft = d + 1 /\ d \in Nat
      BY <1>1, <1>2, <2>1 DEF IInv, Clock, Never, AddrsLeft
    <3>3. Share \in Nat
      <4>1. timeout - began \in Nat /\ Len(addrs) > 0
        BY <1>2, <2>1 DEF IInv, Clock
      <4> QED  BY <1>2, <4>1, Division DEF Share
    <3> HIDE DEF b, d
    <3>4. timeout - now >= d * b /\ d * b >= d * Share
      <4>1. (d + 1) * b = d * b + b /\ d * b \in Nat
        BY <3>1, <3>2
      <4>2. d * b >= d * Share
        BY <3>1, <3>2, <3>3
      <4> QED  BY <1>2, <3>1, <3>2, <4>1, <4>2
    <3>5. d # 0 => now < timeout
      <4> SUFFICES ASSUME d # 0 PROVE now < timeout
        OBVIOUS
      <4>1. d * b >= b
        BY <3>1, <3>2
      <4>2. CASE b = 0
        BY <1>2, <3>1, <3>2, <4>2
      <4>3. CASE b # 0
        BY <1>2, <3>1, <3>2, <3>4, <4>1, <4>3
      <4> QED  BY <4>2, <4>3
    <3>6. Share' = Share
      BY <1>1 DEF Share
    <3>7. d * Share \in Nat /\ d * b \in Nat
      BY <3>1, <3>2, <3>3
    <3>8. CASE GoesOn(e)
      <4>1. pc' = "next" /\ next' = next + 1 /\ AddrsLeft' = d
        BY <1>1, <1>2, <3>2, <3>8 DEF AddrsLeft, d
      <4>2. next' <= Len(addrs) => d # 0
        BY <1>2, <4>1 DEF d
      <4>3. timeout - now >= d * Share
        BY <1>2, <3>4, <3>7
      <4>4. SharesTime'
        BY <1>1, <3>1, <4>1 DEF SharesTime, Failed
      <4> QED  BY <1>1, <1>2, <3>1, <3>5, <3>6, <4>1, <4>2, <4>3, <4>4 DEF Shares
    <3>9. CASE ~GoesOn(e)
      <4>1. pc' = "done" /\ next' = next
        BY <1>1, <3>9
      <4>2. d = 0 \/ e \in DOMAIN PeerCode
        BY <1>2, <3>5, <3>9 DEF GoesOn, Due
      <4>3. Len(tried) = Len(addrs) \/ lastErr' \in DOMAIN PeerCode
        BY <1>1, <1>2, <3>1, <4>2 DEF d
      <4>4. SharesTime'
        BY <1>1, <2>1, <3>1, <4>3 DEF SharesTime, Failed
      <4> QED  BY <1>1, <4>1, <4>4 DEF Shares
    <3> QED  BY <3>8, <3>9
  <2>2. CASE ~ (method = "quic" /\ timeout > 0)
    BY <1>1, <2>2 DEF Shares, SharesTime
  <2> QED  BY <2>1, <2>2
<1> QED  BY <1>4, <1>5, <1>6, <1>7, <1>8 DEF IInv

LEMMA GiveUpKeeps ==
  ASSUME IInv, GiveUp
  PROVE  IInv'
<1> USE DEF options, clock, attempt
<1>1. /\ pc = "next" /\ next > Len(addrs) /\ pc' = "done"
      /\ code' = IF method = "ja4t" /\ tried = << >> THEN ConnectFailure("v4only")
                                                    ELSE Failure(lastErr)
      /\ UNCHANGED <<method, rules, timeout, addrs, next, now, began, started, limit, peer,
                     lastErr, sockets, tried>>
  BY DEF GiveUp, Fail
<1>2. /\ code = Dialling /\ sockets = {} /\ addrs \in Seq(Goals) /\ addrs # << >>
      /\ next \in 1 .. Len(addrs) + 1
      /\ lastErr \notin DOMAIN PeerCode /\ (lastErr = "none" <=> tried = << >>)
      /\ lastErr \in {"none", "timeout"} \cup Answers
      /\ next > 1 /\ method # "ja4t" => lastErr # "none"
  BY <1>1 DEF IInv, Kinds, Places, Errors, SocketsClosed, Dialling
<1>3. next = Len(addrs) + 1 /\ next > 1
  BY <1>1, <1>2
<1>4. code' \in {28, 2, 6, 7}
  BY <1>1, <1>2, Codes
<1>5. Kinds'
  BY <1>1, <1>4 DEF IInv, Kinds, TypedRules
<1>6. Places'
  BY <1>1, <1>2, <1>4 DEF IInv, Places, SocketsClosed, Dialling
<1>7. Clock'
  BY <1>1 DEF IInv, Clock
<1>8. Errors'
  <2>1. Due' = Due
    BY <1>1 DEF Due
  <2>2. CASE method = "ja4t" /\ tried = << >>
    <3>1. code' = 2
      BY <1>1, <2>2 DEF ConnectFailure
    <3> QED  BY <1>1, <1>2, <2>2, <3>1 DEF Errors, CodeTellsWhy, Failed
  <2>3. CASE ~ (method = "ja4t" /\ tried = << >>)
    <3>1. lastErr \in {"timeout", "refused", "dns"}
      BY <1>2, <1>3, <2>3 DEF Answers
    <3>2. /\ code' = 28 => lastErr = "timeout" \/ (method = "quic" /\ Due)
          /\ lastErr = "timeout" => code' = 28
          /\ code' = 6 => lastErr = "dns"
          /\ code' = 7 => lastErr = "refused"
          /\ code' # 2
      BY <1>1, <1>2, <2>3, <3>1 DEF Failure, ConnectFailure
    <3> QED  BY <1>1, <1>2, <1>4, <2>1, <3>2 DEF Errors, CodeTellsWhy, Failed
  <2> QED  BY <2>2, <2>3
<1>9. Shares'
  <2>1. method = "quic" /\ timeout > 0 => Len(tried) = Len(addrs)
    <3>1. method = "quic" /\ timeout > 0 => Len(tried) = next - 1
      BY <1>1 DEF IInv, Shares
    <3> QED  BY <1>2, <1>3, <3>1
  <2> QED  BY <1>1, <2>1 DEF IInv, Shares, SharesTime, Failed
<1> QED  BY <1>5, <1>6, <1>7, <1>8, <1>9 DEF IInv

LEMMA DialStep == IInv /\ [Next]_vars => IInv'
<1> SUFFICES ASSUME IInv, [Next]_vars PROVE IInv'
  OBVIOUS
<1>1. CASE UNCHANGED vars
  <2> USE <1>1 DEF vars, options, clock, attempt
  <2>1. Kinds' /\ Places'
    BY DEF IInv, Kinds, TypedRules, Places, SocketsClosed
  <2>2. Clock' /\ Errors'
    BY DEF IInv, Clock, Errors, CodeTellsWhy, Failed, Due
  <2>3. Lookup' = Lookup
    BY LookupStays DEF IInv, Kinds
  <2>4. Shares'
    BY <2>3 DEF IInv, Shares, SharesTime, Failed, AddrsLeft, Share
  <2> QED  BY <2>1, <2>2, <2>4 DEF IInv
<1>2. CASE Step
  BY <1>2, SkipKeeps, GiveUpKeeps, StartKeeps, ConnectedKeeps, ItFails, FailsKeeps DEF Step
<1> QED  BY <1>1, <1>2, ResolveKeeps, TickKeeps DEF Next

\* What the properties below rest on holds in every state of a dial.
THEOREM Invariance == Spec => []IInv
BY DialInit, DialStep, PTL DEF Spec

-----------------------------------------------------------------------------
(* The properties *)

\* Every variable of a dial keeps to its values, whatever lists, rules, limits
\* and latencies there are.
THEOREM Typing == Spec => []TypeOK
<1>1. IInv => TypeOK
  <2> SUFFICES ASSUME IInv PROVE TypeOK
    OBVIOUS
  <2>1. Len(tried) < next + 1
    BY DEF IInv, Kinds, Places
  <2>2. sockets \subseteq 1 .. Len(addrs)
    BY DEF IInv, Kinds, Places, SocketsClosed
  <2>3. /\ addrs \in Seq(Addresses \cup {HostName}) /\ next \in 1 .. Len(addrs) + 1
        /\ rules \in Seq(Rules)
    BY DEF IInv, Kinds, Goals, TypedRules
  <2> QED  BY <2>1, <2>2, <2>3 DEF IInv, Kinds, Clock, TypeOK
<1> QED  BY <1>1, Invariance, PTL

\* --resolve means its last option for the host or else for "*", for any number
\* of options.
THEOREM ResolveMeansTheLast == Spec => []LookupMeansTheLast
<1>1. IInv => LookupMeansTheLast
  BY LookupIsTheLast DEF IInv, Kinds
<1> QED  BY <1>1, Invariance, PTL

\* Over QUIC each address gets an equal share of the time at least, for any
\* timeout and any number of addresses, although each division rounds down.
THEOREM TimeIsShared == Spec => []SharesTime
<1>1. IInv => SharesTime
  BY DEF IInv, Shares
<1> QED  BY <1>1, Invariance, PTL

\* The exit code of a dial says what happened.
THEOREM TheCodeTells == Spec => []CodeTellsWhy
<1>1. IInv => CodeTellsWhy
  BY DEF IInv, Errors
<1> QED  BY <1>1, Invariance, PTL

\* No failed attempt leaves its socket open.
THEOREM NoSocketIsLeft == Spec => []SocketsClosed
<1>1. IInv => SocketsClosed
  BY DEF IInv, Places
<1> QED  BY <1>1, Invariance, PTL

-----------------------------------------------------------------------------
(* The order of the addresses *)

\* The last address tried or passed over.
Passed == IF pc = "trying" \/ (pc = "done" /\ next <= Len(addrs)) THEN next ELSE next - 1

\* Up to it, the attempts are the usable addresses in their order.
Order ==
  /\ Len(tried) = Place(Passed)
  /\ \A i \in Usables \cap 1 .. Passed : tried[Place(i)].addr = addrs[i]
  /\ Failed /\ Passed < Len(addrs) => Due \/ lastErr \in DOMAIN PeerCode

LEMMA Places0 ==
  /\ Place(0) = 0
  /\ \A n \in Nat : IsFiniteSet(Usables \cap 1 .. n) /\ Place(n) \in Nat
<1>1. Usables \cap 1 .. 0 = {}
  OBVIOUS
<1>2. ASSUME NEW n \in Nat PROVE IsFiniteSet(Usables \cap 1 .. n)
  <2>1. IsFiniteSet(1 .. n) /\ Usables \cap 1 .. n \in SUBSET (1 .. n)
    BY FS_Interval
  <2> QED  BY <2>1, FS_Subset
<1> QED  BY <1>1, <1>2, FS_EmptySet, FS_CardinalityType DEF Place

LEMMA PlaceNext ==
  ASSUME NEW n \in Nat \ {0}
  PROVE  Place(n) = Place(n - 1) + IF n \in Usables THEN 1 ELSE 0
<1>1. n - 1 \in Nat /\ IsFiniteSet(Usables \cap 1 .. (n - 1)) /\ Place(n - 1) \in Nat
  BY Places0
<1>2. CASE n \in Usables
  <2>1. Usables \cap 1 .. n = (Usables \cap 1 .. (n - 1)) \cup {n}
    BY <1>2
  <2>2. n \notin Usables \cap 1 .. (n - 1)
    OBVIOUS
  <2> QED  BY <1>1, <1>2, <2>1, <2>2, FS_AddElement DEF Place
<1>3. CASE n \notin Usables
  <2>1. Usables \cap 1 .. n = Usables \cap 1 .. (n - 1)
    BY <1>3
  <2>2. Place(n) = Place(n - 1)
    BY <2>1 DEF Place
  <2> QED  BY <1>1, <1>3, <2>2
<1> QED  BY <1>2, <1>3

LEMMA PlaceOrder ==
  ASSUME NEW n \in Nat, NEW i \in Usables \cap 1 .. n
  PROVE  Place(i) \in 1 .. Place(n)
<1>1. i \in Nat \ {0} /\ i - 1 \in Nat /\ Place(i) \in Nat /\ Place(n) \in Nat /\ Place(i - 1) \in Nat
  <2>1. i \in Nat \ {0} /\ i - 1 \in Nat
    OBVIOUS
  <2> QED  BY <2>1, Places0
<1>2. Place(i) = Place(i - 1) + 1
  BY <1>1, PlaceNext
<1>3. Place(i) <= Place(n)
  <2>1. Usables \cap 1 .. i \in SUBSET (Usables \cap 1 .. n)
    OBVIOUS
  <2> QED  BY <2>1, Places0, FS_Subset DEF Place
<1> QED  BY <1>1, <1>2, <1>3

LEMMA OrderInit == Init => Order
<1> SUFFICES ASSUME Init PROVE Order
  OBVIOUS
<1>1. Passed = 0 /\ tried = << >> /\ ~Failed
  BY DEF Init, Passed, Failed
<1>2. 1 .. Passed = {}
  BY <1>1
<1> QED  BY <1>1, <1>2, Places0 DEF Order

\* A step that leaves Passed and the attempts as they are.
LEMMA OrderFrame ==
  ASSUME Order, UNCHANGED <<method, addrs, tried>>, Passed' = Passed,
         Failed' => Passed = Len(addrs) \/ Due' \/ lastErr' \in DOMAIN PeerCode,
         Len(addrs) \in Nat, Passed \in Nat
  PROVE  Order'
<1>1. Usables' = Usables
  BY DEF Usables
<1>2. Place(Passed)' = Place(Passed) /\ \A i : Place(i)' = Place(i)
  BY <1>1 DEF Place
<1> QED  BY <1>1, <1>2 DEF Order

LEMMA OrderStep == IInv /\ Order /\ [Next]_vars => Order'
<1> SUFFICES ASSUME IInv, Order, [Next]_vars PROVE Order'
  OBVIOUS
<1> USE DEF options, clock, attempt
<1>1. Len(addrs) \in Nat /\ next \in 1 .. Len(addrs) + 1 /\ Passed \in Nat
  BY DEF IInv, Kinds, Passed
<1>2. CASE UNCHANGED vars
  <2>1. Passed' = Passed /\ UNCHANGED <<method, addrs, tried, timeout, now, lastErr, pc, code>>
    BY <1>2 DEF vars, Passed
  <2>2. Failed' => Passed = Len(addrs) \/ Due' \/ lastErr' \in DOMAIN PeerCode
    BY <1>1, <2>1 DEF Order, Failed, Due, Passed
  <2> QED  BY <1>1, <2>1, <2>2, OrderFrame
<1>3. CASE Tick
  <2>1. Passed' = Passed /\ ~Failed' /\ UNCHANGED <<method, addrs, tried>>
    BY <1>3 DEF Tick, Waiting, Passed, Failed
  <2> QED  BY <1>1, <2>1, OrderFrame
<1>4. CASE Resolve
  <2>1. Kinds /\ pc = "resolve" /\ next = 1 /\ tried = << >>
    <3>1. pc = "resolve"
      BY <1>4 DEF Resolve, UseRules, UseDialler, UseResolver, ResolveFails
    <3> QED  BY <3>1 DEF IInv, Places
  <2>2. ASSUME NEW l \in Seq(Goals), l # << >>, Try(l)
        PROVE  Order'
    <3>1. Passed' = 0 /\ tried' = << >> /\ ~Failed'
      BY <2>1, <2>2 DEF Try, Passed, Failed
    <3>2. (1 .. Passed)' = {} /\ Place(Passed)' = 0
      <4>1. Usables' \cap 1 .. 0 = {}
        OBVIOUS
      <4> QED  BY <3>1, <4>1, FS_EmptySet DEF Place
    <3> QED  BY <3>1, <3>2 DEF Order
  <2>3. ASSUME NEW e \in {"timeout", "dns", "v4only"}, ResolveFails(e)
        PROVE  Order'
    <3>1. Len(addrs) = 0
      BY <2>1 DEF IInv, Places
    <3>2. Passed' = Passed /\ Passed = Len(addrs) /\ UNCHANGED <<method, addrs, tried>>
      BY <2>1, <2>3, <3>1 DEF ResolveFails, Fail, Passed
    <3> QED  BY <1>1, <3>2, OrderFrame
  <2> QED  BY <1>4, <2>1, <2>2, <2>3, TryLists
<1>5. CASE Skip
  <2>1. /\ Passed = next - 1 /\ Passed' = next /\ ~Failed' /\ UNCHANGED <<method, addrs, tried>>
        /\ next \notin Usables
    BY <1>1, <1>5 DEF Skip, Passed, Failed, Usable, Usables
  <2>2. Usables' = Usables /\ \A i : Place(i)' = Place(i)
    BY <2>1 DEF Usables, Place
  <2>3. Place(next) = Place(next - 1)
    <3>1. next \in Nat \ {0} /\ next - 1 \in Nat
      BY <1>1
    <3>2. Place(next - 1) \in Nat
      BY <3>1, Places0
    <3> QED  BY <2>1, <3>1, <3>2, PlaceNext
  <2>4. Usables \cap 1 .. next = Usables \cap 1 .. (next - 1)
    BY <1>1, <2>1
  <2>5. Place(Passed)' = Place(next)
    BY <2>1, <2>2 DEF Place
  <2> QED  BY <2>1, <2>2, <2>3, <2>4, <2>5 DEF Order
<1>6. ASSUME NEW p, Start(p)
      PROVE  Order'
  <2>1. /\ Passed = next - 1 /\ Passed' = next /\ ~Failed' /\ UNCHANGED <<method, addrs>>
        /\ next \in Usables
        /\ tried' = Append(tried, [addr |-> addrs[next], given |-> Limit - now])
    BY <1>1, <1>6 DEF Start, Passed, Failed, Usable, Usables
  <2>2. Usables' = Usables /\ \A i : Place(i)' = Place(i)
    BY <2>1 DEF Usables, Place
  <2>3. Place(next) = Place(next - 1) + 1 /\ Len(tried) = Place(next - 1) /\ Len(tried) \in Nat
    BY <1>1, <2>1, PlaceNext, Places0 DEF Order
  <2>4. /\ Len(tried') = Len(tried) + 1 /\ tried'[Len(tried) + 1].addr = addrs[next]
        /\ \A k \in 1 .. Len(tried) : tried'[k] = tried[k]
    <3>1. tried \in Seq([addr : Goals, given : Int])
      BY DEF IInv, Kinds
    <3> HIDE DEF IInv
    <3> QED  BY <2>1, <3>1
  <2>5. ASSUME NEW i \in Usables \cap 1 .. next
        PROVE  tried'[Place(i)].addr = addrs[i]
    <3>1. CASE i = next
      BY <2>3, <2>4, <3>1
    <3>2. CASE i # next
      <4>1. i \in Usables \cap 1 .. (next - 1) /\ next - 1 \in Nat
        BY <1>1, <3>2
      <4>2. Place(i) \in 1 .. Len(tried)
        BY <2>3, <4>1, PlaceOrder
      <4>3. tried[Place(i)].addr = addrs[i]
        BY <2>1, <4>1 DEF Order
      <4> QED  BY <2>4, <4>2, <4>3
    <3> QED  BY <3>1, <3>2
  <2>6. Place(Passed)' = Place(next)
    BY <2>1, <2>2 DEF Place
  <2> QED  BY <2>1, <2>2, <2>3, <2>4, <2>5, <2>6 DEF Order
<1>7. CASE Connected
  <2>1. /\ Passed' = Passed /\ ~Failed' /\ UNCHANGED <<method, addrs, tried>>
    BY <1>7 DEF Connected, Passed, Failed, IInv, Places
  <2> QED  BY <1>1, <2>1, OrderFrame
<1>8. ASSUME NEW e, Fails(e)
      PROVE  Order'
  <2>1. /\ Passed = next /\ Passed' = next /\ next <= Len(addrs)
        /\ UNCHANGED <<method, addrs, tried, timeout, now>>
    BY <1>1, <1>8 DEF Fails, AttemptFails, Fail, Passed, IInv, Places
  <2>2. Failed' => Due' \/ lastErr' \in DOMAIN PeerCode
    <3>1. pc' = "done" => ~GoesOn(e)
      BY <1>8 DEF Fails, AttemptFails
    <3>2. lastErr' = e /\ Due' = Due
      BY <1>8, <2>1 DEF Fails, AttemptFails, Due
    <3> QED  BY <3>1, <3>2 DEF Failed, GoesOn
  <2> QED  BY <1>1, <2>1, <2>2, OrderFrame
<1>9. CASE GiveUp
  <2>1. /\ Passed' = Passed /\ Passed = Len(addrs) /\ UNCHANGED <<method, addrs, tried>>
    BY <1>1, <1>9 DEF GiveUp, Fail, Passed
  <2> QED  BY <1>1, <2>1, OrderFrame
<1> QED
  BY <1>2, <1>3, <1>4, <1>5, <1>6, <1>7, <1>8, <1>9, ItFails DEF Next, Step

\* Addresses are tried in the order of the list, each once, and those behind a
\* failure are left out only because time is up or the server has answered.
THEOREM InTheOrderOfTheList == Spec => []TriesInOrder
<1>1. IInv /\ Order => TriesInOrder
  <2> SUFFICES ASSUME IInv, Order PROVE TriesInOrder
    OBVIOUS
  <2>1. Len(addrs) \in Nat /\ next \in 1 .. Len(addrs) + 1
    BY DEF IInv, Kinds
  <2>2. Passed \in 0 .. Len(addrs)
    BY <2>1 DEF IInv, Places, Passed
  <2>3. Usables \cap 1 .. Len(addrs) = Usables
    BY DEF Usables, IInv, Kinds
  <2>4. Len(tried) < Cardinality(Usables) => Passed # Len(addrs)
    <3>1. Place(Len(addrs)) = Cardinality(Usables) /\ Place(Len(addrs)) \in Nat
      <4>1. Place(Len(addrs)) = Cardinality(Usables)
        BY <2>3 DEF Place
      <4> QED  BY <2>1, <4>1, Places0
    <3>2. Len(tried) = Place(Passed)
      BY DEF Order
    <3> QED  BY <3>1, <3>2
  <2>5. Failed /\ Len(tried) < Cardinality(Usables) => Due \/ lastErr \in DOMAIN PeerCode
    BY <2>1, <2>2, <2>4 DEF Order
  <2> QED  BY <2>2, <2>5 DEF Order, TriesInOrder
<1> QED
  BY <1>1, Invariance, OrderInit, OrderStep, PTL DEF Spec

-----------------------------------------------------------------------------
(* The dial as one step *)

\* The codes of a failed dial; Session takes the dial as one step with these.
CodesOf(m) ==
  CASE m = "quic" -> {6, 7, 28, 35, 60, 96} [] m = "ja4t" -> {2, 6, 7, 28} [] OTHER -> {6, 7, 28}

\* Only QUIC has a server that answers with an error of its own.
Answering ==
  /\ peer \in DOMAIN PeerCode => method = "quic"
  /\ lastErr \in DOMAIN PeerCode => method = "quic"

LEMMA AnsweringStep == IInv /\ Answering /\ [Next]_vars => Answering'
<1> SUFFICES ASSUME IInv, Answering, [Next]_vars PROVE Answering'
  OBVIOUS
<1> USE DEF options, clock, attempt, Answering
<1>1. DOMAIN PeerCode = {"cert", "crypto", "close"}
  BY Codes
<1>2. ASSUME NEW p, Start(p) PROVE Answering'
  BY <1>1, <1>2 DEF Start, Peers
<1>3. CASE Refused \/ AttemptTimesOut
  BY <1>1, <1>3 DEF Refused, AttemptTimesOut, AttemptFails
<1>4. CASE Resolve
  <2>1. ASSUME NEW e \in {"timeout", "dns", "v4only"}, ResolveFails(e) PROVE Answering'
    BY <1>1, <2>1 DEF ResolveFails
  <2>2. ASSUME NEW l, Try(l) PROVE Answering'
    BY <2>2 DEF Try
  <2> QED  BY <1>4, <2>1, <2>2 DEF Resolve, UseRules, UseDialler, UseResolver
<1>5. CASE Skip \/ GiveUp \/ Connected \/ Tick \/ UNCHANGED vars
  BY <1>5 DEF Skip, GiveUp, Connected, Tick, vars
<1> QED  BY <1>2, <1>3, <1>4, <1>5 DEF Next, Step

\* A dial ends with a connection or with one of these codes: what Session takes
\* for one step (ConnectCodes, to which connect adds those of the handshake and
\* of SetDeadline).
THEOREM OneStep == Spec => [](pc = "done" => code \in {0} \cup CodesOf(method))
<1>1. Init => Answering
  BY Codes DEF Init, Answering
<1>2. IInv /\ Answering => (pc = "done" => code \in {0} \cup CodesOf(method))
  <2> SUFFICES ASSUME IInv, Answering, pc = "done" PROVE code \in {0} \cup CodesOf(method)
    OBVIOUS
  <2>1. code \in {0, 2, 6, 7, 28, 35, 60, 96}
    BY DEF IInv, Kinds, Places
  <2>2. code = 2 => method = "ja4t"
    BY DEF IInv, Errors, CodeTellsWhy
  <2>3. code \in {35, 60, 96} => method = "quic"
    BY DEF IInv, Errors, CodeTellsWhy, Answering
  <2> QED  BY <2>1, <2>2, <2>3 DEF CodesOf
<1> QED
  BY <1>1, <1>2, Invariance, AnsweringStep, PTL DEF Spec
=============================================================================
