--------------------------- MODULE SessionProofs ---------------------------
(***************************************************************************)
(* Theorems about Session, for any number of targets and any bounds on     *)
(* what a server sends.                                                    *)
(***************************************************************************)
EXTENDS Session, SequenceTheorems, FunctionTheorems, FiniteSetTheorems, TLAPS

(* Sequences of units and of what was written *)

Elems(s) == {s[k] : k \in 1 .. Len(s)}
Count(s, x) == Cardinality({k \in DOMAIN s : s[k] = x})

\* Whether a unit may come behind another one of its response, and anywhere.
OfBody == {"data", "end"}
Behind(u, v) ==
  CASE u = "interim" -> v \in Units
    [] u \in Heads \cup {"data"} -> v \in OfBody \cup Final
    [] u = "end" -> v \in Final
    [] OTHER -> FALSE
Follows(x, y) ==
  \/ x.of < y.of /\ x.unit \notin Final
  \/ x.of = y.of /\ Behind(x.unit, y.unit)
Sorted(s) == \A k, l \in 1 .. Len(s) : k < l => Follows(s[k], s[l])

LEMMA CountType ==
  ASSUME NEW S, NEW s \in Seq(S), NEW x
  PROVE  /\ Count(s, x) \in Nat /\ IsFiniteSet({k \in DOMAIN s : s[k] = x})
         /\ x \notin Elems(s) => Count(s, x) = 0
<1>1. Len(s) \in Nat /\ DOMAIN s = 1 .. Len(s)
  BY LenProperties
<1>2. IsFiniteSet(1 .. Len(s)) /\ {k \in DOMAIN s : s[k] = x} \in SUBSET (1 .. Len(s))
  BY <1>1, FS_Interval
<1>3. IsFiniteSet({k \in DOMAIN s : s[k] = x})
  BY <1>2, FS_Subset
<1>4. ASSUME x \notin Elems(s) PROVE {k \in DOMAIN s : s[k] = x} = {}
  BY <1>1, <1>4 DEF Elems
<1> QED  BY <1>3, <1>4, FS_CardinalityType, FS_EmptySet DEF Count

LEMMA EmptySeqs == Elems(<< >>) = {} /\ Sorted(<< >>) /\ \A x : Count(<< >>, x) = 0
<1>1. Elems(<< >>) = {} /\ Sorted(<< >>)
  BY DEF Elems, Sorted
<1>2. ASSUME NEW x PROVE Count(<< >>, x) = 0
  BY <1>1, EmptySeq, CountType
<1> QED  BY <1>1, <1>2

LEMMA Appended ==
  ASSUME NEW S, NEW s \in Seq(S), NEW u \in S
  PROVE  /\ Append(s, u) \in Seq(S)
         /\ Elems(Append(s, u)) = Elems(s) \cup {u}
         /\ Count(Append(s, u), u) = Count(s, u) + 1
         /\ \A x : x # u => Count(Append(s, u), x) = Count(s, x)
         /\ Sorted(s) /\ (\A v \in Elems(s) : Follows(v, u)) => Sorted(Append(s, u))
<1> DEFINE t == Append(s, u)
           n == Len(s)
           At(q, x) == {k \in DOMAIN q : q[k] = x}
<1>1. /\ n \in Nat /\ DOMAIN s = 1 .. n /\ t \in Seq(S) /\ Len(t) = n + 1
      /\ DOMAIN t = 1 .. n + 1
      /\ \A k \in 1 .. n : t[k] = s[k]
      /\ t[n + 1] = u
  BY AppendProperties, LenProperties
<1> HIDE DEF t, n
<1>2. Elems(t) = Elems(s) \cup {u}
  BY <1>1 DEF Elems, n
<1>3. Count(t, u) = Count(s, u) + 1
  <2>1. At(t, u) = At(s, u) \cup {n + 1} /\ n + 1 \notin At(s, u)
    BY <1>1
  <2>2. IsFiniteSet(At(s, u))
    BY CountType
  <2> QED  BY <2>1, <2>2, FS_AddElement DEF Count
<1>4. ASSUME NEW x, x # u PROVE Count(t, x) = Count(s, x)
  <2>1. At(t, x) = At(s, x)
    BY <1>1, <1>4
  <2> QED  BY <2>1 DEF Count
<1>5. ASSUME Sorted(s), \A v \in Elems(s) : Follows(v, u) PROVE Sorted(t)
  <2>1. \A k \in 1 .. n : Follows(s[k], u)
    BY <1>5 DEF Elems, n
  <2>2. ASSUME NEW k \in 1 .. n + 1, NEW l \in 1 .. n + 1, k < l PROVE Follows(t[k], t[l])
    <3>1. k \in 1 .. n
      BY <1>1, <2>2
    <3>2. CASE l \in 1 .. n
      BY <1>1, <1>5, <2>2, <3>1, <3>2 DEF Sorted, n
    <3>3. CASE l = n + 1
      BY <1>1, <2>1, <3>1, <3>3
    <3> QED  BY <1>1, <3>2, <3>3
  <2> QED  BY <1>1, <2>2 DEF Sorted
<1> QED  BY <1>1, <1>2, <1>3, <1>4, <1>5 DEF t

LEMMA Taken ==
  ASSUME NEW S, NEW s \in Seq(S), s # << >>
  PROVE  /\ Tail(s) \in Seq(S) /\ Head(s) \in S
         /\ Elems(s) = Elems(Tail(s)) \cup {Head(s)}
         /\ Count(s, Head(s)) = Count(Tail(s), Head(s)) + 1
         /\ \A x : x # Head(s) => Count(s, x) = Count(Tail(s), x)
         /\ Sorted(s) => Sorted(Tail(s)) /\ \A v \in Elems(Tail(s)) : Follows(Head(s), v)
<1> DEFINE t == Tail(s)
           u == Head(s)
           n == Len(s)
           At(q, x) == {k \in DOMAIN q : q[k] = x}
<1>1. /\ n \in Nat /\ n > 0 /\ DOMAIN s = 1 .. n /\ t \in Seq(S) /\ Len(t) = n - 1
      /\ DOMAIN t = 1 .. n - 1 /\ u = s[1] /\ u \in S
      /\ \A k \in 1 .. n - 1 : t[k] = s[k + 1]
  BY HeadTailProperties, LenProperties, EmptySeq, ElementOfSeq
<1> HIDE DEF t, n, u
<1>2. Elems(s) = Elems(t) \cup {u}
  <2>1. ASSUME NEW k \in 1 .. n PROVE s[k] \in Elems(t) \cup {u}
    <3>1. CASE k = 1
      BY <1>1, <3>1
    <3>2. CASE k # 1
      <4>1. k - 1 \in 1 .. n - 1 /\ (k - 1) + 1 = k
        BY <1>1, <3>2
      <4>2. t[k - 1] = s[k]
        BY <1>1, <4>1
      <4> QED  BY <1>1, <4>1, <4>2 DEF Elems
    <3> QED  BY <3>1, <3>2
  <2>2. Elems(t) \cup {u} \subseteq Elems(s)
    BY <1>1 DEF Elems, n
  <2> QED  BY <2>1, <2>2 DEF Elems, n
\* Behind the first one the positions are shifted by one.
<1>3. ASSUME NEW x PROVE Cardinality(At(s, x) \ {1}) = Count(t, x)
  <2> DEFINE f == [k \in At(t, x) |-> k + 1]
  <2>1. \A k \in At(t, x) : k \in 1 .. n - 1 /\ s[k + 1] = x
    BY <1>1
  <2>2. f \in [At(t, x) -> At(s, x) \ {1}]
    BY <1>1, <2>1
  <2>3. \A j, k \in At(t, x) : f[j] = f[k] => j = k
    BY <2>1
  <2>4. ASSUME NEW k \in At(s, x) \ {1} PROVE \E j \in At(t, x) : f[j] = k
    <3>1. k - 1 \in 1 .. n - 1 /\ (k - 1) + 1 = k
      BY <1>1
    <3>2. k - 1 \in At(t, x)
      BY <1>1, <3>1
    <3> QED  BY <3>1, <3>2
  <2>5. ExistsBijection(At(t, x), At(s, x) \ {1})
    <3> HIDE DEF f, At
    <3>1. f \in Bijection(At(t, x), At(s, x) \ {1})
      BY <2>2, <2>3, <2>4, Fun_IsBij
    <3> QED  BY <3>1, Fun_ExistsBij
  <2>6. IsFiniteSet(At(t, x))
    BY <1>1, CountType
  <2> QED  BY <2>5, <2>6, FS_Bijection DEF Count
<1>4. ASSUME NEW x PROVE IsFiniteSet(At(s, x)) /\ Count(s, x) = Cardinality(At(s, x))
                         /\ Cardinality(At(s, x)) \in Nat
  BY CountType DEF Count
<1>5. Count(s, u) = Count(t, u) + 1
  <2>1. 1 \in At(s, u)
    BY <1>1
  <2>2. Cardinality(At(s, u) \ {1}) = Cardinality(At(s, u)) - 1
    BY <1>4, <2>1, FS_RemoveElement
  <2>3. Cardinality(At(s, u) \ {1}) = Count(t, u)
    BY <1>3
  <2>4. Count(s, u) = Cardinality(At(s, u)) /\ Cardinality(At(s, u)) \in Nat
    BY <1>4
  <2> HIDE DEF At
  <2> QED  BY <2>2, <2>3, <2>4
<1>6. ASSUME NEW x, x # u PROVE Count(s, x) = Count(t, x)
  <2>1. At(s, x) \ {1} = At(s, x)
    BY <1>1, <1>6
  <2> QED  BY <1>3, <1>4, <2>1
<1>7. ASSUME Sorted(s) PROVE Sorted(t) /\ \A v \in Elems(t) : Follows(u, v)
  <2>1. \A k, l \in 1 .. n - 1 : k < l => Follows(t[k], t[l])
    <3> SUFFICES ASSUME NEW k \in 1 .. n - 1, NEW l \in 1 .. n - 1, k < l
                 PROVE  Follows(t[k], t[l])
      OBVIOUS
    <3>1. k + 1 \in 1 .. n /\ l + 1 \in 1 .. n /\ k + 1 < l + 1
      BY <1>1
    <3> QED  BY <1>1, <1>7, <3>1 DEF Sorted, n
  <2>2. ASSUME NEW k \in 1 .. n - 1 PROVE Follows(u, t[k])
    <3>1. k + 1 \in 1 .. n /\ 1 \in 1 .. n /\ 1 < k + 1
      BY <1>1
    <3> QED  BY <1>1, <1>7, <3>1 DEF Sorted, n
  <2> QED  BY <1>1, <2>1, <2>2 DEF Sorted, Elems
<1> QED  BY <1>1, <1>2, <1>5, <1>6, <1>7 DEF t, u

-----------------------------------------------------------------------------
(* The inductive invariant *)

\* All that has arrived and is not read yet, wherever it is.
Unread == reader \o under \o wire

\* Which units of target t have arrived and are not read yet, and how much data.
Here(t) == {x.unit : x \in {y \in Elems(Unread) : y.of = t}}
Data(t) == Count(Unread, [of |-> t, unit |-> "data"])

Asking == {"send", "stream"}
Reading == {"head", "stream-head"}
InBody == {"body", "stream-body"}
Active == Asking \cup Reading \cup InBody

\* Connections: none but conn is open, and it is while it is used.
Connection ==
  /\ opened \in 0 .. N /\ conn \in 0 .. opened
  /\ pc = "connect" => opened < i
  /\ opened <= i
  /\ open = {} \/ (open = {conn} /\ conn # 0)
  /\ pc \in {"connect", "done"} => open = {}
  /\ pc \in Active => conn \in open
  /\ exit = Running <=> pc \notin {"return", "done"}

\* The units between what the client has read and what the server has sent: in
\* order, with no gap on either side.
Hanging == {"close", "until-eof", "closing", "gone", "lost"}
HeadSent(t, f) == (t = i /\ pc \in InBody /\ framing = f) \/ f \in Here(t)
Complete(t) == "end" \in Here(t) \/ (HeadSent(t, "until-eof") /\ "eof" \in Here(t))

\* Where there are units at all.
Places ==
  /\ turn \in i - 1 .. i + 1
  /\ \A t \in 0 .. N : Here(t) # {} => t <= turn /\ (t >= i \/ (t = turn /\ Here(t) \subseteq Final))
  /\ turn = i - 1 => pc \notin InBody /\ srv \in (IF pc \in Asking THEN {"idle", "gone", "lost"}
                                                                    ELSE {"gone", "lost"})
  /\ turn >= i /\ pc \in Asking => srv \in Hanging
  /\ turn > i => /\ "end" \in Here(i) /\ Here(i) \cap Final = {} /\ HeadSent(i, "keep")
                 /\ srv \in Hanging /\ pc \notin Asking
  /\ OnStream => turn <= i /\ (pc \in Asking => turn < i)

\* What the state of the server says of them.
AtServer ==
  /\ srv = "asked" => turn = i /\ pc \in Reading /\ Here(i) \subseteq {"interim"}
  /\ srv \in Heads => HeadSent(turn, srv) /\ Here(turn) \subseteq {"interim", "data"} \cup Heads
  /\ srv \in {"idle", "closing"} /\ turn >= i =>
       "end" \in Here(turn) /\ HeadSent(turn, IF srv = "idle" THEN "keep" ELSE "close")
  /\ \A t \in 0 .. N : \A u \in Here(t) \cap Final : Broken /\ (u = "lost" <=> srv = "lost")

\* What each response is like.
Responses ==
  /\ pc \in InBody => Here(i) \subseteq OfBody \cup Final
  /\ \A t \in i .. N : "end" \in Here(t) => ~HeadSent(t, "until-eof")
  /\ \A t \in i .. N : \A f, g \in Heads : HeadSent(t, f) /\ HeadSent(t, g) => f = g
  /\ OnStream => \A f \in Heads : HeadSent(i, f) => f = "keep"
  /\ \A t \in i .. N : t \in finished <=> Complete(t)

Agreement == Places /\ AtServer /\ Responses
Wire == pc \in Active => Sorted(Unread) /\ Agreement

\* What is written and what was served, by target.
Written(t, part) == Count(stdout, <<t, part>>)
Whole(t) ==
  /\ t \in finished /\ Written(t, "data") = served[t]
  /\ Written(t, "head") = IF include THEN 1 ELSE 0
Unserved(t) == t \notin finished /\ served[t] = 0
Unwritten(t) == Written(t, "data") = 0 /\ Written(t, "head") = 0
Progress ==
  /\ \A t \in 1 .. i - 1 : Whole(t)
  /\ \A t \in i .. N : t > turn => Unserved(t)
  /\ \A t \in i .. N : t > i \/ pc \in {"connect"} \cup Asking \cup Reading => Unwritten(t)
  /\ \A t \in i .. N : Written(t, "data") <= served[t]
  /\ pc \in Active => \A t \in i .. N : served[t] = Written(t, "data") + Data(t)
  /\ pc \in InBody => Written(i, "head") = IF include THEN 1 ELSE 0

\* How far the server is, ahead of the client by one target at most.
Turn ==
  /\ turn >= i - 1
  /\ conn \in open /\ srv \in {"asked"} \cup Heads => turn >= i
  /\ pc = "connect" => turn < i
  /\ exit = 0 => i = N /\ turn = N /\ Whole(N) /\ srv \in {"idle", "closing", "gone", "lost"}

InOrder ==
  /\ \A k, l \in DOMAIN stdout : k < l => stdout[k][1] <= stdout[l][1]
  /\ \A k \in DOMAIN stdout : stdout[k][1] <= i

\* The exit codes, as TypeOK lists them.
Codes == {Running, Panic, 0, 1, 2, 6, 7, 8, 18, 23, 28, 35, 52, 55, 56, 60, 95, 96}
Servers == Heads \cup {"idle", "asked", "closing", "gone", "lost"}
Unit == [of : 0 .. N, unit : Units]
Part == (1 .. N) \X {"interim", "head", "data"}
Types ==
  /\ http3 \in HTTP3 /\ include \in Include
  /\ pc \in {"connect", "return", "done"} \cup Active
  /\ i \in 1 .. N /\ proto \in Protocols \cup {""} /\ framing \in Heads
  /\ exit \in Codes
  /\ stdout \in Seq(Part)
  /\ due \in BOOLEAN
  /\ reader \in Seq(Unit) /\ under \in Seq(Unit) /\ wire \in Seq(Unit)
  /\ srv \in Servers /\ turn \in 0 .. N
  /\ interim \in 0 .. MaxInterim
  /\ served \in [1 .. N -> 0 .. MaxBody] /\ finished \subseteq 1 .. N

IInv == Types /\ Connection /\ Wire /\ Progress /\ Turn /\ InOrder /\ CodeTellsWhy

-----------------------------------------------------------------------------
(* What reading and sending do to the units that have arrived *)

LEMMA Bounds == N \in Nat \ {0} /\ MaxInterim \in Nat /\ MaxBody \in Nat
PROOF BY SessionAssumption, Zenon

LEMMA SomeCodes ==
  /\ \A c \in ConnectCodes \cup StreamCodes : c \in Codes
  /\ 0 \in Codes /\ 8 \in Codes /\ 18 \in Codes /\ 23 \in Codes /\ 28 \in Codes
  /\ 52 \in Codes /\ 55 \in Codes /\ 56 \in Codes /\ Panic \in Codes
PROOF BY DEF ConnectCodes, StreamCodes, Codes

LEMMA Unreads ==
  ASSUME Types
  PROVE  /\ Unread \in Seq(Unit)
         /\ \A t : Data(t) \in Nat /\ ("data" \notin Here(t) => Data(t) = 0)
         /\ \A t : Here(t) \subseteq Units
         /\ \A t : t \notin 0 .. N => Here(t) = {}
<1>1. reader \in Seq(Unit) /\ under \in Seq(Unit) /\ wire \in Seq(Unit)
  BY DEF Types
<1>2. Unread \in Seq(Unit)
  <2>1. reader \o under \in Seq(Unit)
    BY <1>1, ConcatProperties
  <2> QED  BY <1>1, <2>1, ConcatProperties DEF Unread
<1>3. ASSUME NEW t PROVE Data(t) \in Nat /\ ("data" \notin Here(t) => Data(t) = 0)
  <2>1. Data(t) \in Nat
    BY <1>2, CountType DEF Data
  <2>2. ASSUME "data" \notin Here(t) PROVE [of |-> t, unit |-> "data"] \notin Elems(Unread)
    BY <2>2 DEF Here
  <2>3. [of |-> t, unit |-> "data"] \notin Elems(Unread) => Data(t) = 0
    BY <1>2, CountType DEF Data
  <2> QED  BY <2>1, <2>2, <2>3
<1>4. \A x \in Elems(Unread) : x \in Unit
  <2>1. \A k \in 1 .. Len(Unread) : Unread[k] \in Unit
    BY <1>2, ElementOfSeq
  <2> QED  BY <2>1 DEF Elems
<1>5. \A t : Here(t) \subseteq Units
  BY <1>4 DEF Here, Unit
<1>6. \A t : t \notin 0 .. N => Here(t) = {}
  BY <1>4 DEF Here, Unit
<1> QED  BY <1>2, <1>3, <1>5, <1>6

LEMMA HeadOfConcat ==
  ASSUME NEW S, NEW s \in Seq(S), NEW t \in Seq(S), s # << >>
  PROVE  s \o t # << >> /\ Head(s \o t) = Head(s) /\ Tail(s \o t) = Tail(s) \o t
<1> DEFINE c == s \o t
<1>1. /\ Len(s) \in Nat /\ Len(s) > 0 /\ Len(t) \in Nat /\ Head(s) = s[1] /\ Tail(s) \in Seq(S)
      /\ Len(Tail(s)) = Len(s) - 1 /\ \A k \in 1 .. Len(s) - 1 : Tail(s)[k] = s[k + 1]
  BY HeadTailProperties, LenProperties, EmptySeq
<1>2. /\ c \in Seq(S) /\ Len(c) = Len(s) + Len(t)
      /\ \A k \in 1 .. Len(s) + Len(t) : c[k] = IF k <= Len(s) THEN s[k] ELSE t[k - Len(s)]
  BY ConcatProperties
<1>3. c # << >>
  BY <1>1, <1>2, EmptySeq
<1> HIDE DEF c
<1>4. /\ Head(c) = c[1] /\ Tail(c) \in Seq(S) /\ Len(Tail(c)) = Len(c) - 1
      /\ \A k \in 1 .. Len(c) - 1 : Tail(c)[k] = c[k + 1]
  BY <1>2, <1>3, HeadTailProperties
<1> DEFINE d == Tail(s) \o t
<1>5. /\ d \in Seq(S) /\ Len(d) = (Len(s) - 1) + Len(t)
      /\ \A k \in 1 .. (Len(s) - 1) + Len(t) :
           d[k] = IF k <= Len(s) - 1 THEN Tail(s)[k] ELSE t[k - (Len(s) - 1)]
  BY <1>1, ConcatProperties
<1> HIDE DEF d
<1>6. Head(c) = Head(s)
  BY <1>1, <1>2, <1>4
<1>7. Len(Tail(c)) = Len(d)
  BY <1>1, <1>2, <1>4, <1>5
<1>8. ASSUME NEW k \in 1 .. Len(d) PROVE Tail(c)[k] = d[k]
  <2>1. k \in 1 .. (Len(s) - 1) + Len(t) /\ k \in 1 .. Len(c) - 1 /\ k + 1 \in 1 .. Len(s) + Len(t)
    BY <1>1, <1>2, <1>5, <1>8
  <2>2. Tail(c)[k] = IF k + 1 <= Len(s) THEN s[k + 1] ELSE t[(k + 1) - Len(s)]
    BY <1>2, <1>4, <2>1
  <2>3. CASE k <= Len(s) - 1
    <3>1. k \in 1 .. Len(s) - 1 /\ k + 1 <= Len(s)
      BY <1>1, <2>1, <2>3
    <3>2. d[k] = Tail(s)[k] /\ Tail(s)[k] = s[k + 1]
      BY <1>1, <1>5, <2>1, <2>3, <3>1
    <3> QED  BY <2>2, <3>1, <3>2
  <2>4. CASE ~(k <= Len(s) - 1)
    <3>1. ~(k + 1 <= Len(s)) /\ (k + 1) - Len(s) = k - (Len(s) - 1)
      BY <1>1, <2>1, <2>4
    <3> QED  BY <1>5, <2>1, <2>2, <2>4, <3>1
  <2> QED  BY <2>3, <2>4
<1>9. Tail(c) = d
  BY <1>4, <1>5, <1>7, <1>8, SeqEqual
<1> QED  BY <1>3, <1>6, <1>9 DEF c, d

LEMMA Associates == \A r, s, t \in Seq(Unit) : (r \o s) \o t = r \o (s \o t)
PROOF BY ConcatAssociative

\* Reading takes the first unit of all, wherever the rest of the buffer goes.
LEMMA TakesFirst ==
  ASSUME Types, NEW u, Take(u) \/ TakeBlock(u)
  PROVE  /\ reader' \in Seq(Unit) /\ under' \in Seq(Unit) /\ wire' \in Seq(Unit)
         /\ Unread \in Seq(Unit) /\ Unread # << >> /\ Head(Unread) = Head(reader)
         /\ Unread' = Tail(Unread) /\ Head(reader).unit = u /\ Head(reader) \in Unit
<1>1. reader \in Seq(Unit) /\ under \in Seq(Unit) /\ wire \in Seq(Unit) /\ wire' = wire
  BY DEF Types, Take, TakeBlock
<1>2. reader # << >> /\ Head(reader).unit = u
  BY DEF Take, TakeBlock, Coming
<1>3. Tail(reader) \in Seq(Unit) /\ Head(reader) \in Unit
  BY <1>1, <1>2, HeadTailProperties, EmptySeq, ElementOfSeq
<1>4. /\ Unread \in Seq(Unit) /\ under \o wire \in Seq(Unit) /\ Tail(reader) \o under \in Seq(Unit)
      /\ << >> \in Seq(Unit)
  BY <1>1, <1>3, Unreads, ConcatProperties, EmptySeq
<1>5. Unread = reader \o (under \o wire)
  BY <1>1, Associates, Zenon DEF Unread
<1>6. /\ Unread # << >> /\ Head(Unread) = Head(reader)
      /\ Tail(Unread) = Tail(reader) \o (under \o wire)
  BY <1>1, <1>2, <1>4, <1>5, HeadOfConcat
<1>7. (Tail(reader) \o under) \o wire = Tail(reader) \o (under \o wire)
  <2>1. PICK t : t = Tail(reader)
    OBVIOUS
  <2>2. t \in Seq(Unit) /\ under \in Seq(Unit) /\ wire \in Seq(Unit)
    BY <1>1, <1>3, <2>1
  <2>3. (t \o under) \o wire = t \o (under \o wire)
    BY <2>2, Associates
  <2> QED  BY <2>1, <2>3, Zenon
<1>8. CASE Take(u)
  <2>1. reader' = Tail(reader) /\ under' = under
    BY <1>8 DEF Take
  <2> QED  BY <1>1, <1>2, <1>3, <1>4, <1>6, <1>7, <2>1 DEF Unread
<1>9. CASE TakeBlock(u)
  <2>1. reader' = << >> /\ under' = Tail(reader) \o under
    BY <1>9 DEF TakeBlock
  <2>2. reader' \o under' = Tail(reader) \o under
    BY <1>4, <2>1, ConcatEmptySeq
  <2> QED  BY <1>1, <1>2, <1>3, <1>4, <1>6, <1>7, <2>1, <2>2 DEF Unread
<1> QED  BY <1>8, <1>9

LEMMA Takes ==
  ASSUME Types, NEW u, Take(u) \/ TakeBlock(u), NEW t, t = Head(reader).of
  PROVE  /\ u \in Units /\ t \in 0 .. N /\ Head(reader) \in Unit
         /\ reader' \in Seq(Unit) /\ under' \in Seq(Unit) /\ wire' \in Seq(Unit)
         /\ Here(t) = Here(t)' \cup {u}
         /\ \A s : s # t => Here(s)' = Here(s)
         /\ Data(t) = Data(t)' + (IF u = "data" THEN 1 ELSE 0)
         /\ \A s : s # t => Data(s)' = Data(s)
         /\ \A s : Data(s)' \in Nat
         /\ Sorted(Unread) => /\ Sorted(Unread') /\ \A v \in Here(t)' : Behind(u, v)
                              /\ \A s \in 0 .. N : s < t => Here(s) = {}
                              /\ u \in Final => \A s \in 0 .. N : Here(s)' = {}
<1> DEFINE x == Head(Unread)
           Of(E, s) == {y.unit : y \in {z \in E : z.of = s}}
<1>1. /\ reader' \in Seq(Unit) /\ under' \in Seq(Unit) /\ wire' \in Seq(Unit)
      /\ Unread \in Seq(Unit) /\ Unread # << >> /\ x = Head(reader) /\ x \in Unit
      /\ Unread' = Tail(Unread) /\ x.unit = u /\ x.of = t
  BY TakesFirst
<1> HIDE DEF x
<1>2. u \in Units /\ t \in 0 .. N /\ x = [of |-> t, unit |-> u]
  BY <1>1 DEF Unit
<1>3. /\ Tail(Unread) \in Seq(Unit)
      /\ Elems(Unread) = Elems(Tail(Unread)) \cup {x}
      /\ Count(Unread, x) = Count(Tail(Unread), x) + 1
      /\ \A y : y # x => Count(Unread, y) = Count(Tail(Unread), y)
      /\ Sorted(Unread) => Sorted(Tail(Unread)) /\ \A y \in Elems(Tail(Unread)) : Follows(x, y)
  BY <1>1, Taken DEF x
<1>4. \A s : Here(s) = Of(Elems(Unread), s) /\ Here(s)' = Of(Elems(Tail(Unread)), s)
  BY <1>1 DEF Here
<1>5. Here(t) = Here(t)' \cup {u} /\ \A s : s # t => Here(s)' = Here(s)
  BY <1>1, <1>3, <1>4
<1>6. \A s : Data(s)' = Count(Tail(Unread), [of |-> s, unit |-> "data"])
  BY <1>1 DEF Data
<1>7. \A s : Data(s)' \in Nat
  BY <1>3, <1>6, CountType
<1>8. Data(t) = Data(t)' + (IF u = "data" THEN 1 ELSE 0)
  <2>1. CASE u = "data"
    <3>1. x = [of |-> t, unit |-> "data"]
      BY <1>2, <2>1
    <3>2. Data(t) = Count(Unread, x) /\ Data(t)' = Count(Tail(Unread), x)
      BY <1>6, <3>1 DEF Data
    <3> QED  BY <1>3, <2>1, <3>2
  <2>2. CASE u # "data"
    <3>1. [of |-> t, unit |-> "data"] # x
      BY <1>1, <2>2
    <3> QED  BY <1>3, <1>6, <1>7, <2>2, <3>1 DEF Data
  <2> QED  BY <2>1, <2>2
<1>9. ASSUME NEW s, s # t PROVE Data(s)' = Data(s)
  <2>1. [of |-> s, unit |-> "data"] # x
    BY <1>1, <1>9
  <2> QED  BY <1>3, <1>6, <2>1 DEF Data
<1>10. ASSUME Sorted(Unread)
       PROVE  /\ Sorted(Unread') /\ \A v \in Here(t)' : Behind(u, v)
              /\ \A s \in 0 .. N : s < t => Here(s) = {}
              /\ u \in Final => \A s \in 0 .. N : Here(s)' = {}
  <2>1. Sorted(Tail(Unread)) /\ \A y \in Elems(Tail(Unread)) : Follows(x, y)
    BY <1>3, <1>10
  <2>2. \A v \in Here(t)' : Behind(u, v)
    <3>1. ASSUME NEW v \in Here(t)' PROVE Behind(u, v)
      <4>1. PICK y \in Elems(Tail(Unread)) : y.of = t /\ y.unit = v
        BY <1>4, <3>1
      <4>2. ~(t < t)
        BY <1>2
      <4> QED  BY <1>1, <2>1, <4>1, <4>2 DEF Follows
    <3> QED  BY <3>1
  <2>3. \A s \in 0 .. N : s < t => Here(s) = {}
    <3>1. ASSUME NEW s \in 0 .. N, s < t, NEW y \in Elems(Unread), y.of = s PROVE FALSE
      <4>1. ~(t < s) /\ t # s
        BY <1>2, <3>1
      <4>2. y \in Elems(Tail(Unread)) \/ y = x
        BY <1>3, <3>1
      <4> QED  BY <1>1, <2>1, <3>1, <4>1, <4>2 DEF Follows
    <3> QED  BY <1>4, <3>1
  <2>4. ASSUME u \in Final PROVE \A s \in 0 .. N : Here(s)' = {}
    <3>1. \A v : ~Behind(u, v)
      BY <2>4 DEF Behind, Final, Heads
    <3>2. Elems(Tail(Unread)) = {}
      BY <1>1, <2>1, <2>4, <3>1 DEF Follows
    <3> QED  BY <1>4, <3>2
  <2> QED  BY <1>1, <2>1, <2>2, <2>3, <2>4
<1> QED  BY <1>1, <1>2, <1>5, <1>7, <1>8, <1>9, <1>10

\* A Read moves units between the buffers and leaves their order alone.
LEMMA Fills ==
  ASSUME Types, Fill
  PROVE  /\ reader' \in Seq(Unit) /\ under' \in Seq(Unit) /\ wire' \in Seq(Unit)
         /\ Unread' = Unread
<1>1. /\ reader = << >> /\ under \in Seq(Unit) /\ wire \in Seq(Unit) /\ << >> \in Seq(Unit)
  BY EmptySeq DEF Types, Fill
<1>2. Unread = under \o wire
  BY <1>1, ConcatEmptySeq DEF Unread
<1>3. ASSUME NEW s \in Seq(Unit), NEW k \in 1 .. Len(s)
      PROVE  /\ SubSeq(s, 1, k) \in Seq(Unit) /\ SubSeq(s, k + 1, Len(s)) \in Seq(Unit)
             /\ SubSeq(s, 1, k) \o SubSeq(s, k + 1, Len(s)) = s
  <2>1. Len(s) \in Nat /\ k \in Int /\ Len(s) \in Int /\ k + 1 \in Int /\ 1 \in Int
    BY LenProperties
  <2>2. \A n \in 1 .. Len(s) : s[n] \in Unit
    BY ElementOfSeq
  <2>3. \A n \in 1 .. k : s[n] \in Unit
    BY <2>1, <2>2
  <2>4. \A n \in k + 1 .. Len(s) : s[n] \in Unit
    BY <2>1, <2>2
  <2>5. SubSeq(s, 1, k) \in Seq(Unit)
    BY <2>1, <2>3, SubSeqProperties
  <2>6. SubSeq(s, k + 1, Len(s)) \in Seq(Unit)
    BY <2>1, <2>4, SubSeqProperties
  <2>7. SubSeq(s, 1, k) \o SubSeq(s, k + 1, Len(s)) = SubSeq(s, 1, Len(s))
    <3>1. 1 \in 1 .. Len(s) + 1 /\ k \in 1 - 1 .. Len(s) /\ Len(s) \in k .. Len(s)
      BY <2>1
    <3> QED  BY <2>1, <3>1, ConcatAdjacentSubSeq
  <2>8. SubSeq(s, 1, Len(s)) = s
    BY SubSeqFull
  <2> QED  BY <2>5, <2>6, <2>7, <2>8
<1>4. ASSUME NEW k \in 1 .. Len(under), reader' = SubSeq(under, 1, k),
             under' = SubSeq(under, k + 1, Len(under)), wire' = wire
      PROVE  /\ reader' \in Seq(Unit) /\ under' \in Seq(Unit) /\ wire' \in Seq(Unit)
             /\ Unread' = Unread
  BY <1>1, <1>2, <1>3, <1>4 DEF Unread
<1>5. ASSUME under = << >>, NEW k \in 1 .. Len(wire), reader' = SubSeq(wire, 1, k),
             wire' = SubSeq(wire, k + 1, Len(wire)), under' = under
      PROVE  /\ reader' \in Seq(Unit) /\ under' \in Seq(Unit) /\ wire' \in Seq(Unit)
             /\ Unread' = Unread
  <2>1. /\ reader' \in Seq(Unit) /\ wire' \in Seq(Unit) /\ under' = << >>
        /\ reader' \o wire' = wire
    BY <1>1, <1>3, <1>5
  <2>2. reader' \o under' = reader' /\ << >> \o wire = wire
    BY <1>1, <2>1, ConcatEmptySeq
  <2> QED  BY <1>1, <1>2, <1>5, <2>1, <2>2 DEF Unread
<1> QED  BY <1>4, <1>5 DEF Fill

LEMMA Sends ==
  ASSUME Types, NEW t \in 0 .. N, NEW u \in Units, Send(t, u)
  PROVE  /\ wire' \in Seq(Unit)
         /\ Here(t)' = Here(t) \cup {u}
         /\ \A s : s # t => Here(s)' = Here(s)
         /\ Data(t)' = Data(t) + (IF u = "data" THEN 1 ELSE 0)
         /\ \A s : s # t => Data(s)' = Data(s)
         /\ /\ Sorted(Unread)
            /\ \A v \in Here(t) : Behind(v, u)
            /\ \A s \in 0 .. N : s > t => Here(s) = {}
            /\ \A s \in 0 .. N : s < t => Here(s) \cap Final = {}
            => Sorted(Unread')
<1> DEFINE x == [of |-> t, unit |-> u]
           Of(E, s) == {y.unit : y \in {z \in E : z.of = s}}
<1>1. /\ reader \in Seq(Unit) /\ under \in Seq(Unit) /\ wire \in Seq(Unit) /\ x \in Unit
      /\ UNCHANGED <<reader, under>> /\ wire' = Append(wire, x)
  BY DEF Types, Send, readers, Unit
<1>2. x.of = t /\ x.unit = u
  OBVIOUS
<1> HIDE DEF x
<1>3. Unread \in Seq(Unit) /\ wire' \in Seq(Unit) /\ Unread' = Append(Unread, x)
  <2>1. reader \o under \in Seq(Unit) /\ <<x>> \in Seq(Unit) /\ wire \in Seq(Unit)
    BY <1>1, ConcatProperties
  <2>2. Unread \in Seq(Unit) /\ Append(wire, x) = wire \o <<x>>
    BY <1>1, Unreads, AppendIsConcat
  <2>3. Append(Unread, x) = Unread \o <<x>>
    BY <1>1, <2>2, AppendIsConcat
  <2>4. ((reader \o under) \o wire) \o <<x>> = (reader \o under) \o (wire \o <<x>>)
    BY <2>1, Associates, Zenon
  <2>5. Append(wire, x) \in Seq(Unit)
    BY <1>1, AppendProperties
  <2> QED  BY <1>1, <2>2, <2>3, <2>4, <2>5 DEF Unread
<1>4. /\ Elems(Unread') = Elems(Unread) \cup {x}
      /\ Count(Unread', x) = Count(Unread, x) + 1
      /\ \A y : y # x => Count(Unread', y) = Count(Unread, y)
      /\ Sorted(Unread) /\ (\A y \in Elems(Unread) : Follows(y, x)) => Sorted(Unread')
  BY <1>1, <1>3, Appended
<1>5. \A s : Here(s) = Of(Elems(Unread), s) /\ Here(s)' = Of(Elems(Unread'), s)
  BY DEF Here
<1>6. Here(t)' = Here(t) \cup {u} /\ \A s : s # t => Here(s)' = Here(s)
  BY <1>2, <1>4, <1>5
<1>7. \A s : Data(s)' = Count(Unread', [of |-> s, unit |-> "data"])
  BY DEF Data
<1>8. Data(t)' = Data(t) + (IF u = "data" THEN 1 ELSE 0)
  <2>1. CASE u = "data"
    <3>1. Data(t) = Count(Unread, x) /\ Data(t)' = Count(Unread', x)
      BY <1>7, <2>1 DEF Data, x
    <3> QED  BY <1>4, <2>1, <3>1
  <2>2. CASE u # "data"
    <3>1. [of |-> t, unit |-> "data"] # x
      BY <1>2, <2>2
    <3>2. Data(t) \in Nat
      BY Unreads
    <3> QED  BY <1>4, <1>7, <2>2, <3>1, <3>2 DEF Data
  <2> QED  BY <2>1, <2>2
<1>9. ASSUME NEW s, s # t PROVE Data(s)' = Data(s)
  <2>1. [of |-> s, unit |-> "data"] # x
    BY <1>2, <1>9
  <2> QED  BY <1>4, <1>7, <2>1 DEF Data
<1>10. ASSUME \A v \in Here(t) : Behind(v, u),
              \A s \in 0 .. N : s > t => Here(s) = {},
              \A s \in 0 .. N : s < t => Here(s) \cap Final = {},
              NEW y \in Elems(Unread)
       PROVE  Follows(y, x)
  <2>1. y \in Unit
    BY <1>3, ElementOfSeq DEF Elems
  <2>2. y.of \in 0 .. N /\ y.unit \in Here(y.of)
    BY <1>5, <2>1 DEF Unit
  <2>3. ~(y.of > t)
    BY <1>10, <2>2
  <2>4. y.of = t \/ y.of < t
    BY <2>2, <2>3, Bounds
  <2> QED  BY <1>2, <1>10, <2>2, <2>4 DEF Follows
<1> QED  BY <1>3, <1>4, <1>6, <1>8, <1>9, <1>10

\* What is written of a target when a part of another, or of this one, is.
LEMMA Emits ==
  ASSUME Types, NEW part \in {"interim", "head", "data"}, Emit(part),
         NEW t \in 1 .. N, t = Head(reader).of
  PROVE  /\ stdout' \in Seq(Part)
         /\ Count(stdout', <<t, part>>) = Written(t, part) + 1
         /\ \A s, q : <<s, q>> # <<t, part>> => Count(stdout', <<s, q>>) = Written(s, q)
<1>1. PICK x : x = <<t, part>>
  OBVIOUS
<1>2. stdout \in Seq(Part) /\ x \in Part /\ stdout' = Append(stdout, x)
  BY <1>1 DEF Types, Emit, Part
<1>3. /\ Append(stdout, x) \in Seq(Part)
      /\ Count(Append(stdout, x), x) = Count(stdout, x) + 1
      /\ \A y : y # x => Count(Append(stdout, x), y) = Count(stdout, y)
  BY <1>2, Appended
<1> QED  BY <1>1, <1>2, <1>3 DEF Written

\* A header block and a piece of a body are those of the target that is read.
LEMMA OfThisOne ==
  ASSUME IInv, pc \in Reading \cup InBody, NEW u \in Units \ Final, Take(u) \/ TakeBlock(u)
  PROVE  Head(reader).of = i
<1>1. /\ Types /\ Sorted(Unread) /\ Places /\ i \in 1 .. N /\ N \in Nat /\ turn \in 0 .. N
  BY Bounds DEF IInv, Wire, Active, Agreement, Types
<1>2. PICK t : t = Head(reader).of
  OBVIOUS
<1>3. /\ t \in 0 .. N /\ u \in Here(t) /\ \A s \in 0 .. N : s < t => Here(s) = {}
  BY <1>1, <1>2, Takes
<1>4. t >= i /\ t <= turn
  BY <1>1, <1>3 DEF Places
<1>5. turn <= i + 1
  BY <1>1 DEF Places
<1>6. CASE t > i
  <2>1. turn > i /\ "end" \in Here(i) /\ i \in 0 .. N
    BY <1>1, <1>3, <1>4, <1>6 DEF Places
  <2> QED  BY <1>3, <1>6, <2>1
<1> QED  BY <1>1, <1>2, <1>3, <1>4, <1>6

-----------------------------------------------------------------------------
(* Types *)

\* What a step that reads a unit does to the buffers, and one that writes it
\* to the output.
LEMMA ReadsTyped ==
  ASSUME Types, \E u : Take(u) \/ TakeBlock(u)
  PROVE  reader' \in Seq(Unit) /\ under' \in Seq(Unit) /\ wire' \in Seq(Unit)
PROOF BY TakesFirst

LEMMA EmitsTyped ==
  ASSUME IInv, pc \in Reading \cup InBody, NEW u \in Units \ Final, Take(u) \/ TakeBlock(u),
         NEW part \in {"interim", "head", "data"}, Emit(part)
  PROVE  stdout' \in Seq(Part)
<1>1. Types /\ Head(reader).of = i /\ i \in 1 .. N
  BY OfThisOne DEF IInv, Types
<1> QED  BY <1>1, Emits

LEMMA Typed == ASSUME IInv, [Next]_vars PROVE Types'
<1>00. i \in 1 .. N /\ turn \in 0 .. N /\ Turn
  BY DEF IInv, Types
<1> USE DEF Types, Active, Asking, Reading, InBody
<1>0. Types /\ exit \in Codes
  BY DEF IInv
<1>1. CASE UNCHANGED vars
  BY <1>0, <1>1 DEF vars, options, client, server, readers
<1>2. ASSUME NEW p \in Protocols, Connect(p) PROVE Types'
  <2>1. 0 \in 0 .. MaxInterim /\ << >> \in Seq(Unit) /\ i - 1 \in 0 .. N
    BY <1>00, Bounds, EmptySeq
  <2> QED  BY <1>0, <1>2, <2>1 DEF Connect, options, Servers
<1>3. ASSUME NEW c \in ConnectCodes \cup {28}, ConnectFails(c) PROVE Types'
  <2>1. c \in Codes
    BY <1>3, SomeCodes
  <2>2. exit' \in Codes
    BY SomeCodes, <1>3, <2>1 DEF ConnectFails
  <2> QED  BY <1>0, <1>3, <2>2 DEF ConnectFails, options, server, readers
<1>4. CASE SendRequest \/ OpenStream
  <2>1. exit' \in Codes
    BY SomeCodes, <1>0, <1>4 DEF SendRequest, OpenStream, Failed, Return
  <2>2. srv' \in Servers /\ turn' \in 0 .. N
    <3>1. i \in 0 .. N
      BY <1>00, Bounds
    <3> QED  BY <1>0, <1>4, <3>1 DEF SendRequest, OpenStream, Asks, Servers
  <2> QED
    BY <1>0, <1>4, <2>1, <2>2 DEF SendRequest, OpenStream, Failed, Return, options, readers
<1>5. CASE SendFails \/ TimesOut
  <2>1. exit' \in Codes
    BY SomeCodes, <1>5 DEF SendFails, TimesOut, Failed, Return
  <2> QED
    BY <1>0, <1>5, <2>1 DEF SendFails, TimesOut, Failed, Return, options, server, readers
<1>6. CASE Fill
  <2>1. reader' \in Seq(Unit) /\ under' \in Seq(Unit) /\ wire' \in Seq(Unit)
    BY <1>0, <1>6, Fills
  <2> QED  BY <1>0, <1>6, <2>1 DEF Fill, options, server, client
<1>7. CASE ReadInterim
  <2>1. reader' \in Seq(Unit) /\ under' \in Seq(Unit) /\ wire' \in Seq(Unit)
    BY <1>0, <1>7, ReadsTyped DEF ReadInterim
  <2>2. stdout' \in Seq(Part)
    <3>1. TakeBlock("interim") /\ "interim" \in Units \ Final
      BY <1>7 DEF ReadInterim, Units, Final
    <3>2. CASE Emit("interim")
      BY <1>7, <3>1, <3>2, EmitsTyped DEF ReadInterim
    <3> QED  BY <1>0, <1>7, <3>2 DEF ReadInterim, CannotEmit
  <2>3. exit' \in Codes
    BY SomeCodes, <1>0, <1>7 DEF ReadInterim, CannotEmit, Return, client
  <2> QED
    BY <1>0, <1>7, <2>1, <2>2, <2>3 DEF ReadInterim, CannotEmit, Return, options, server, client
<1>8. ASSUME NEW f \in Heads, ReadHead(f) PROVE Types'
  <2>1. reader' \in Seq(Unit) /\ under' \in Seq(Unit) /\ wire' \in Seq(Unit)
    BY <1>0, <1>8, ReadsTyped DEF ReadHead
  <2>2. stdout' \in Seq(Part)
    <3>1. (Take(f) \/ TakeBlock(f)) /\ f \in Units \ Final /\ pc \in Reading
      BY <1>8 DEF ReadHead, Units, Final, Heads
    <3>2. CASE Emit("head")
      BY <3>1, <3>2, EmitsTyped
    <3> QED  BY <1>0, <1>8, <3>2 DEF ReadHead, CannotEmit
  <2>3. exit' \in Codes
    BY SomeCodes, <1>0, <1>8 DEF ReadHead, CannotEmit, Return
  <2> QED  BY <1>0, <1>8, <2>1, <2>2, <2>3 DEF ReadHead, CannotEmit, Return, options, server
<1>9. CASE ReadBad \/ ReadNoHead \/ ReadCutBody \/ LostConnection
  <2>1. reader' \in Seq(Unit) /\ under' \in Seq(Unit) /\ wire' \in Seq(Unit)
    BY <1>0, <1>9, ReadsTyped DEF ReadBad, ReadNoHead, ReadCutBody, LostConnection
  <2>2. exit' \in Codes
    BY SomeCodes, <1>9 DEF ReadBad, ReadNoHead, ReadCutBody, LostConnection, Failed, Return
  <2> QED
    BY <1>0, <1>9, <2>1, <2>2
       DEF ReadBad, ReadNoHead, ReadCutBody, LostConnection, Failed, Return, options, server
<1>10. CASE ReadData
  <2>1. reader' \in Seq(Unit) /\ under' \in Seq(Unit) /\ wire' \in Seq(Unit)
    BY <1>0, <1>10, ReadsTyped DEF ReadData
  <2>2. stdout' \in Seq(Part)
    <3>1. Take("data") /\ "data" \in Units \ Final /\ pc \in InBody
      BY <1>10 DEF ReadData, Units, Final, Heads
    <3>2. CASE Emit("data")
      BY <3>1, <3>2, EmitsTyped
    <3> QED  BY <1>0, <1>10, <3>2 DEF ReadData, CannotEmit
  <2>3. exit' \in Codes
    BY SomeCodes, <1>0, <1>10 DEF ReadData, CannotEmit, Return, client
  <2> QED
    BY <1>0, <1>10, <2>1, <2>2, <2>3 DEF ReadData, CannotEmit, Return, options, server, client
<1>11. CASE ReadEnd
  <2>1. reader' \in Seq(Unit) /\ under' \in Seq(Unit) /\ wire' \in Seq(Unit)
    BY <1>0, <1>11, ReadsTyped DEF ReadEnd, BodyEnds
  <2>2. exit' = exit \/ exit' = 0
    BY <1>11 DEF ReadEnd, Return
  <2>3. exit' \in Codes
    BY SomeCodes, <1>0, <2>2
  <2>4. i' = i \/ (i # N /\ i' = i + 1)
    BY <1>11 DEF ReadEnd, Return, Last
  <2>5. i' \in 1 .. N
    <3>1. i \in 1 .. N
      BY <1>0
    <3> QED  BY <2>4, <3>1, Bounds
  <2> QED  BY <1>0, <1>11, <2>1, <2>3, <2>5 DEF ReadEnd, Return, options, server
<1>12. ASSUME NEW c \in StreamCodes, RoundTripFails(c) PROVE Types'
  <2>1. reader' \in Seq(Unit) /\ under' \in Seq(Unit) /\ wire' \in Seq(Unit)
    BY <1>0, <1>12, ReadsTyped DEF RoundTripFails
  <2>2. exit' \in Codes
    BY SomeCodes, <1>12 DEF RoundTripFails, StreamCodes, Failed, Return
  <2> QED  BY <1>0, <1>12, <2>1, <2>2 DEF RoundTripFails, Failed, Return, options, server
<1>13. CASE Deferred
  <2>1. exit' \in Codes
    BY SomeCodes, <1>0, <1>13 DEF Deferred
  <2> QED  BY <1>0, <1>13, <2>1 DEF Deferred, options, server, readers
<1>14. ASSUME NEW t \in 0 .. N, NEW u \in Units, Send(t, u), UNCHANGED served,
              finished' \subseteq 1 .. N, srv' \in Servers, turn' \in 0 .. N,
              interim' \in 0 .. MaxInterim
       PROVE  Types'
  <2>1. wire' \in Seq(Unit)
    BY <1>0, <1>14, Sends
  <2> QED  BY <1>0, <1>14, <2>1 DEF Send, options, client, readers
<1>15. CASE Server
  <2>0. turn \in 0 .. N /\ interim \in 0 .. MaxInterim
    BY <1>0
  <2>01. conn \in open /\ srv \in {"asked"} \cup Heads => turn \in 1 .. N
    BY <1>00, Bounds DEF Turn
  <2>1. CASE ServeData
    <3>1. wire' \in Seq(Unit)
      BY <1>0, <2>0, <2>1, Sends DEF ServeData, Units
    <3>2. served[turn] + 1 \in 0 .. MaxBody /\ turn \in 1 .. N
      <4>1. turn \in 1 .. N /\ served \in [1 .. N -> 0 .. MaxBody] /\ served[turn] < MaxBody
        BY <1>0, <2>01, <2>1 DEF ServeData, Send
      <4>2. served[turn] \in 0 .. MaxBody
        BY <4>1
      <4> QED  BY <4>1, <4>2, Bounds
    <3>3. served' = [served EXCEPT ![turn] = served[turn] + 1]
      BY <2>1 DEF ServeData
    <3>4. served' \in [1 .. N -> 0 .. MaxBody]
      BY <1>0, <3>2, <3>3
    <3> QED  BY <1>0, <2>1, <3>1, <3>4 DEF ServeData, Send, options, client, readers
  <2>2. CASE ServeInterim
    <3>1. interim' = interim + 1 /\ interim < MaxInterim /\ interim \in 0 .. MaxInterim
      BY <1>0, <2>2 DEF ServeInterim
    <3>2. interim' \in 0 .. MaxInterim
      BY <3>1, Bounds
    <3> QED  BY <1>0, <1>14, <2>0, <2>2, <3>2 DEF ServeInterim, Units, Servers
  <2>3. CASE ServeEnd
    <3>1. interim' \in 0 .. MaxInterim
      BY <2>3, Bounds DEF ServeEnd
    <3>2. finished' \subseteq 1 .. N
      BY <1>0, <2>01, <2>3 DEF ServeEnd, Send, Heads
    <3> QED  BY <1>0, <1>14, <2>0, <2>3, <3>1, <3>2 DEF ServeEnd, Units, Final, Heads, Servers
  <2>4. ASSUME NEW f \in Heads, ServeHead(f) PROVE Types'
    BY <1>0, <1>14, <2>0, <2>4 DEF ServeHead, Units, Servers
  <2>5. ASSUME NEW u \in Final, ServeBad(u) \/ ServeBreak(u) PROVE Types'
    BY <1>0, <1>14, <2>0, <2>5 DEF ServeBad, ServeBreak, Units, Servers
  <2>6. ASSUME NEW f \in Heads, ServeUnasked(f) PROVE Types'
    <3>1. turn + 1 \in 0 .. N
      BY <2>0, <2>6, Bounds DEF ServeUnasked
    <3> QED  BY <1>0, <1>14, <2>0, <2>6, <3>1 DEF ServeUnasked, Units, Servers
  <2> QED  BY <1>15, <2>1, <2>2, <2>3, <2>4, <2>5, <2>6 DEF Server, Final
<1>16. CASE DeadlinePasses
  BY <1>0, <1>16 DEF DeadlinePasses, options, client, server, readers
<1> QED
  BY <1>1, <1>2, <1>3, <1>4, <1>5, <1>6, <1>7, <1>8, <1>9, <1>10, <1>11, <1>12, <1>13, <1>15, <1>16
     DEF Next, Receive, ConnectTimesOut

-----------------------------------------------------------------------------
(* Connections *)

LEMMA NotRunning == ASSUME NEW c \in ConnectCodes \cup StreamCodes
                                     \cup {0, 8, 18, 23, 28, 52, 55, 56, Panic}
                    PROVE  c \in Int /\ c # Running
PROOF BY DEF ConnectCodes, StreamCodes, Running, Panic

\* Whatever the server does puts one unit on the wire.
LEMMA ServerSends ==
  ASSUME Server
  PROVE  UNCHANGED client /\ UNCHANGED <<stdout, due, options>> /\ conn \in open
<1>1. ASSUME NEW f \in Heads, ServeHead(f) \/ ServeUnasked(f) PROVE \E t, u : Send(t, u)
  BY <1>1 DEF ServeHead, ServeUnasked
<1>2. ASSUME NEW u \in Final, ServeBad(u) \/ ServeBreak(u) PROVE \E t, v : Send(t, v)
  BY <1>2 DEF ServeBad, ServeBreak
<1>3. CASE ServeInterim \/ ServeData \/ ServeEnd
  <2>1. \E t, u : Send(t, u)
    BY <1>3 DEF ServeInterim, ServeData, ServeEnd, Heads
  <2> QED  BY <2>1 DEF Send
<1> QED  BY <1>1, <1>2, <1>3 DEF Server, Final, Send

LEMMA StaysConnection == ASSUME IInv, [Next]_vars PROVE Connection'
<1> USE DEF Active, Asking, Reading, InBody
<1>0. /\ Connection /\ i \in 1 .. N /\ opened \in 0 .. N /\ conn \in 0 .. opened
      /\ pc \in {"connect", "return", "done"} \cup Active
  BY DEF IInv, Types, Connection
<1>1. ASSUME UNCHANGED client PROVE Connection'
  BY <1>0, <1>1 DEF client, Connection
<1>2. ASSUME NEW c, c # Running, pc \in Active, Return(c) PROVE Connection'
  BY <1>0, <1>2 DEF Return, Connection
<1>3. ASSUME NEW c, c # Running, pc \in Active, Failed(c) PROVE Connection'
  BY <1>2, <1>3, NotRunning DEF Failed
<1>4. ASSUME NEW p \in Protocols, Connect(p) PROVE Connection'
  <2>1. opened + 1 \in 1 .. N /\ opened + 1 <= i
    <3>1. i \in 1 .. N /\ opened \in 0 .. N /\ opened < i
      BY <1>0, <1>4 DEF Connect, Connection
    <3> QED  BY <3>1, Bounds
  <2>2. pc' \in Active /\ conn' = opened + 1 /\ open' = {opened + 1} /\ opened' = opened + 1
    BY <1>0, <1>4 DEF Connect, Connection
  <2>3. i' = i /\ exit' = Running
    BY <1>0, <1>4 DEF Connect, Connection
  <2>4. conn' \in 0 .. opened' /\ opened' \in 0 .. N /\ opened' <= i' /\ conn' # 0 /\ conn' \in open'
    BY <1>0, <2>1, <2>2, <2>3, Bounds
  <2> QED  BY <2>2, <2>3, <2>4 DEF Connection
<1>5. ASSUME NEW c \in ConnectCodes \cup {28}, ConnectFails(c) PROVE Connection'
  <2>1. c # Running
    BY NotRunning
  <2> QED  BY <1>0, <1>5, <2>1 DEF ConnectFails, Connection
<1>6. CASE SendRequest
  BY <1>0, <1>6 DEF SendRequest, Connection
<1>7. CASE SendFails \/ TimesOut \/ LostConnection
  BY <1>2, <1>3, <1>7, NotRunning DEF SendFails, TimesOut, LostConnection, Waits
<1>8. CASE OpenStream
  <2>1. CASE Failed(55) \/ Return(28)
    BY <1>2, <1>3, <1>8, <2>1, NotRunning DEF OpenStream
  <2> QED  BY <1>0, <1>8, <2>1 DEF OpenStream, Connection
<1>9. CASE ReadInterim \/ ReadData \/ Fill
  BY <1>1, <1>2, <1>9, NotRunning DEF ReadInterim, ReadData, Fill, CannotEmit, client
<1>10. ASSUME NEW f \in Heads, ReadHead(f) PROVE Connection'
  <2>1. CASE CannotEmit
    BY <1>2, <1>10, <2>1, NotRunning DEF ReadHead, CannotEmit
  <2> QED  BY <1>0, <1>10, <2>1 DEF ReadHead, Connection
<1>11. CASE ReadBad \/ ReadNoHead \/ ReadCutBody
  BY <1>2, <1>3, <1>11, NotRunning DEF ReadBad, ReadNoHead, ReadCutBody
<1>12. CASE ReadEnd
  <2>1. CASE Return(0)
    BY <1>2, <1>12, <2>1, NotRunning DEF ReadEnd
  <2>2. CASE ~Return(0)
    <3>1. i' = i + 1 /\ UNCHANGED <<conn, opened, exit>> /\ opened <= i /\ exit = Running
      BY <1>0, <1>12, <2>2 DEF ReadEnd, Connection
    <3>2. \/ pc' \in {"stream", "send"} /\ open' = open /\ conn \in open
          \/ pc' = "connect" /\ open' = {}
      BY <1>0, <1>12, <2>2 DEF ReadEnd, CloseConn, Connection
    <3> QED  BY <1>0, <3>1, <3>2 DEF Connection
  <2> QED  BY <2>1, <2>2
<1>13. ASSUME NEW c \in StreamCodes, RoundTripFails(c) PROVE Connection'
  BY <1>3, <1>13, NotRunning DEF RoundTripFails
<1>14. CASE Deferred
  <2>1. exit' # Running
    BY <1>0, <1>14, NotRunning DEF Deferred, Connection
  <2> QED  BY <1>0, <1>14, <2>1 DEF Deferred, Connection
<1>15. CASE Server
  BY <1>1, <1>15, ServerSends
<1>16. CASE DeadlinePasses \/ UNCHANGED vars
  <2>1. UNCHANGED client
    BY <1>16 DEF DeadlinePasses, vars, options, client, server
  <2> QED  BY <1>1, <2>1
<1>17. ConnectTimesOut => ConnectFails(28)
  BY DEF ConnectTimesOut
<1> QED
  BY <1>4, <1>5, <1>6, <1>7, <1>8, <1>9, <1>10, <1>11, <1>12, <1>13, <1>14, <1>15, <1>16,
     <1>17 DEF Next, Receive

-----------------------------------------------------------------------------
(* The units on their way *)

\* What the proofs below start from.
LEMMA WireFacts ==
  ASSUME IInv
  PROVE  /\ Types /\ Connection /\ Progress /\ Turn
         /\ i \in 1 .. N /\ N \in Nat /\ i \in 0 .. N /\ turn \in 0 .. N /\ framing \in Heads
         /\ srv \in Servers /\ finished \subseteq 1 .. N
         /\ pc \in {"connect", "return", "done"} \cup Active
         /\ pc \in Active => Sorted(Unread) /\ Agreement /\ Places /\ AtServer /\ Responses
<1>1. i \in 1 .. N /\ turn \in 0 .. N /\ framing \in Heads /\ srv \in Servers /\ finished \subseteq 1 .. N
      /\ pc \in {"connect", "return", "done"} \cup Active
  BY DEF IInv, Types
<1>2. i \in 0 .. N
  BY <1>1, Bounds
<1> QED  BY <1>1, <1>2, Bounds DEF IInv, Wire, Agreement

\* A step that leaves the heads, the ends and the server alone keeps the rest.
LEMMA WireInHead ==
  ASSUME IInv, pc \in Active, UNCHANGED <<pc, i, framing, http3, srv, turn, finished>>,
         Sorted(Unread'),
         \A t \in 0 .. N : Here(t)' \subseteq Here(t) /\ Here(t) \subseteq Here(t)' \cup {"interim", "data"}
  PROVE  Wire'
<1>0. /\ Places /\ AtServer /\ Responses /\ i \in 0 .. N /\ i \in 1 .. N /\ N \in Nat /\ turn \in 0 .. N
  BY WireFacts
<1>1. \A t \in 0 .. N : \A u \in Units \ {"interim", "data"} : u \in Here(t)' <=> u \in Here(t)
  OBVIOUS
<1>2. \A t \in 0 .. N : \A f \in Heads : HeadSent(t, f)' <=> HeadSent(t, f)
  BY <1>1 DEF HeadSent, Heads, Units
<1>3. \A t \in 0 .. N : /\ Complete(t)' <=> Complete(t)
                        /\ "end" \in Here(t)' <=> "end" \in Here(t)
  BY <1>1, <1>2 DEF Complete, Heads, Units, Final
<1>4. OnStream' <=> OnStream
  BY DEF OnStream
<1>5. \A t \in i .. N : t \in 0 .. N
  BY <1>0
<1> USE <1>0, <1>1, <1>2, <1>3, <1>4, <1>5
<1>6. Places'
  BY DEF Places, Heads
<1>7. AtServer'
  <2>1. srv \in Heads => HeadSent(turn, srv)' /\ Here(turn)' \subseteq {"interim", "data"} \cup Heads
    BY DEF AtServer
  <2>2. srv \in {"idle", "closing"} /\ turn >= i =>
          "end" \in Here(turn)' /\ HeadSent(turn, IF srv = "idle" THEN "keep" ELSE "close")'
    BY DEF AtServer, Heads
  <2> QED  BY <2>1, <2>2 DEF AtServer, Broken
<1>8. Responses'
  BY DEF Responses, Heads
<1> QED  BY <1>6, <1>7, <1>8 DEF Wire, Agreement

\* What may come behind what.
LEMMA BehindWhat ==
  /\ \A v \in Units : Behind("interim", v)
  /\ \A u \in Heads \cup {"data"}, v \in OfBody \cup Final : Behind(u, v)
  /\ \A v \in Final : Behind("end", v)
  /\ \A u \in Heads \cup {"data"} : \A v : Behind(u, v) => v \in OfBody \cup Final
  /\ \A v : Behind("end", v) => v \in Final
  /\ OfBody \cup Final \cup Heads \subseteq Units
<1>1. \A v \in Units : Behind("interim", v)
  BY DEF Behind, Heads
<1>2. \A u \in Heads \cup {"data"} : \A v : Behind(u, v) <=> v \in OfBody \cup Final
  BY DEF Behind, Heads
<1>3. \A v : Behind("end", v) <=> v \in Final
  BY DEF Behind, Heads
<1> QED  BY <1>1, <1>2, <1>3 DEF Units, OfBody

\* A new connection: nothing has been sent on it.
LEMMA WireConnect == ASSUME IInv, NEW p \in Protocols, Connect(p) PROVE Wire'
<1>0. i \in 1 .. N /\ N \in Nat /\ turn \in 0 .. N /\ Progress /\ Turn
  BY WireFacts
<1>1. Unread' = << >>
  <2>1. reader' = << >> /\ under' = << >> /\ wire' = << >> /\ << >> \in Seq(Unit)
    BY EmptySeq DEF Connect
  <2> QED  BY <2>1, ConcatEmptySeq DEF Unread
<1>2. Sorted(Unread') /\ \A t : Here(t)' = {}
  BY <1>1, EmptySeqs DEF Here
<1>3. /\ pc' \in Asking /\ srv' = "idle" /\ turn' = i' - 1 /\ i' = i
      /\ pc = "connect" /\ finished' = finished
  BY DEF Connect, Asking
<1>4. \A t : ~Complete(t)' /\ \A f : ~HeadSent(t, f)'
  BY <1>2, <1>3 DEF HeadSent, Complete, Asking, InBody
<1>5. \A t \in i .. N : t \notin finished
  BY <1>0, <1>3 DEF Progress, Turn, Unserved
<1>6. Places'
  BY <1>0, <1>2, <1>3 DEF Places, Asking, InBody
<1>7. AtServer'
  BY <1>0, <1>2, <1>3 DEF AtServer, Heads
<1>8. Responses'
  BY <1>2, <1>3, <1>4, <1>5 DEF Responses, Asking, InBody
<1> QED  BY <1>2, <1>6, <1>7, <1>8 DEF Wire, Agreement

\* A request goes to a server that waits, or is not heard.
LEMMA WireAsks ==
  ASSUME IInv, pc \in Asking, pc' \in Reading, OnStream' <=> OnStream, Asks,
         UNCHANGED <<i, framing, readers, wire, finished>>
  PROVE  Wire'
<1>0. /\ i \in 1 .. N /\ N \in Nat /\ turn \in 0 .. N /\ srv \in Servers
      /\ Sorted(Unread) /\ Places /\ AtServer /\ Responses
  BY WireFacts DEF Active
<1>1. Unread' = Unread /\ \A t : Here(t)' = Here(t)
  BY DEF Unread, Here, readers
<1>2. /\ \A t, f : (HeadSent(t, f)' <=> f \in Here(t)) /\ (HeadSent(t, f) <=> f \in Here(t))
      /\ \A t : Complete(t)' <=> Complete(t)
  BY <1>1 DEF HeadSent, Complete, Asking, Reading, InBody
<1>3. CASE srv = "idle"
  <2>1. srv' = "asked" /\ turn' = i /\ turn = i - 1
    BY <1>0, <1>3 DEF Asks, Places, Hanging
  <2>2. \A t \in 0 .. N : Here(t) = {}
    BY <1>0, <1>3, <2>1 DEF Places, AtServer, Broken
  <2>3. Places'
    BY <1>0, <1>1, <2>1, <2>2 DEF Places, Asking, Reading, InBody
  <2>4. AtServer'
    BY <1>0, <1>1, <2>1, <2>2 DEF AtServer, Heads
  <2>5. Responses'
    BY <1>0, <1>1, <1>2, <2>2 DEF Responses, Reading, InBody
  <2> QED  BY <1>0, <1>1, <2>3, <2>4, <2>5 DEF Wire, Agreement
<1>4. CASE srv # "idle"
  <2>1. UNCHANGED <<srv, turn>> /\ srv # "asked"
    BY <1>0, <1>4 DEF Asks, AtServer, Asking, Reading
  <2>2. Places'
    BY <1>0, <1>1, <1>2, <1>4, <2>1 DEF Places, Asking, Reading, InBody
  <2>3. AtServer'
    BY <1>0, <1>1, <1>2, <2>1 DEF AtServer, Broken
  <2>4. Responses'
    BY <1>0, <1>1, <1>2 DEF Responses, Reading, InBody
  <2> QED  BY <1>0, <1>1, <2>2, <2>3, <2>4 DEF Wire, Agreement
<1> QED  BY <1>3, <1>4

\* A header block is followed by what belongs to its body, so it was the only
\* one of its response.
LEMMA WireHead ==
  ASSUME IInv, NEW f \in Heads, ReadHead(f), pc' \in Active
  PROVE  Wire'
<1>1. /\ pc \in Reading /\ (Take(f) \/ TakeBlock(f)) /\ framing' = f /\ pc' \in InBody
      /\ (OnStream' <=> OnStream) /\ UNCHANGED <<i, srv, turn, finished>>
  BY DEF ReadHead, CannotEmit, Return, Active, Asking, Reading, InBody, OnStream, server
<1>2. /\ Types /\ i \in 1 .. N /\ N \in Nat /\ i \in 0 .. N /\ turn \in 0 .. N /\ srv \in Servers
      /\ Sorted(Unread) /\ Places /\ AtServer /\ Responses
  BY <1>1, WireFacts DEF Active
<1>3. Head(reader).of = i
  BY <1>1, OfThisOne DEF Units, Final, Heads
<1>4. /\ Here(i) = Here(i)' \cup {f} /\ (\A s : s # i => Here(s)' = Here(s))
      /\ Sorted(Unread') /\ (\A v \in Here(i)' : Behind(f, v))
  BY <1>1, <1>2, <1>3, Takes
<1>5. Here(i)' \subseteq OfBody \cup Final
  BY <1>1, <1>4, BehindWhat
<1>6. \A g \in Heads : (HeadSent(i, g)' <=> g = f) /\ (HeadSent(i, g) <=> g = f)
  BY <1>1, <1>4, <1>5 DEF HeadSent, OfBody, Final, Heads, Reading, InBody
<1>7. \A t, g : t # i => (HeadSent(t, g)' <=> HeadSent(t, g))
  BY <1>1, <1>4 DEF HeadSent
<1>8. \A t : (Complete(t)' <=> Complete(t)) /\ ("end" \in Here(t)' <=> "end" \in Here(t))
  <2>1. Complete(i)' <=> Complete(i)
    BY <1>1, <1>4, <1>6 DEF Complete, Heads
  <2>2. \A t : t # i => (Complete(t)' <=> Complete(t))
    BY <1>1, <1>4, <1>7 DEF Complete
  <2>3. \A t : "end" \in Here(t)' <=> "end" \in Here(t)
    BY <1>1, <1>4 DEF Heads
  <2> QED  BY <1>1, <2>1, <2>2, <2>3
<1>9. \A t : Here(t)' \subseteq Here(t)
  BY <1>1, <1>4
<1>10. turn >= i /\ f \in Here(i)
  BY <1>1, <1>2, <1>4 DEF Places
<1>11. Places'
  <2>1. turn > i => HeadSent(i, "keep")'
    BY <1>1, <1>2, <1>6 DEF Places, Heads
  <2>2. turn > i => "end" \in Here(i)' /\ Here(i)' \cap Final = {} /\ srv \in Hanging
    BY <1>1, <1>2, <1>4, <1>8 DEF Places
  <2>3. \A t \in 0 .. N : Here(t)' # {} => t <= turn /\ (t >= i \/ (t = turn /\ Here(t)' \subseteq Final))
    BY <1>1, <1>2, <1>9 DEF Places
  <2> QED  BY <1>1, <1>2, <1>10, <2>1, <2>2, <2>3 DEF Places, Asking, InBody
<1>12. AtServer'
  <2>1. srv # "asked" /\ (srv \in Heads => HeadSent(turn, srv)' /\ Here(turn)' \subseteq {"interim", "data"} \cup Heads)
    <3>1. srv # "asked"
      BY <1>1, <1>2, <1>10 DEF AtServer, Heads
    <3>2. ASSUME srv \in Heads PROVE HeadSent(turn, srv)'
      BY <1>1, <1>2, <1>6, <1>7, <3>2 DEF AtServer
    <3> QED  BY <1>1, <1>2, <1>9, <3>1, <3>2 DEF AtServer
  <2>2. srv \in {"idle", "closing"} =>
          "end" \in Here(turn)' /\ HeadSent(turn, IF srv = "idle" THEN "keep" ELSE "close")'
    BY <1>1, <1>2, <1>6, <1>7, <1>8, <1>10 DEF AtServer, Heads
  <2> QED  BY <1>1, <1>2, <1>9, <2>1, <2>2 DEF AtServer, Broken
<1>13. Responses'
  <2>1. \A t \in i .. N : "end" \in Here(t)' => ~HeadSent(t, "until-eof")'
    BY <1>1, <1>2, <1>6, <1>7, <1>8 DEF Responses, Heads
  <2>2. \A t \in i .. N : \A g, h \in Heads : HeadSent(t, g)' /\ HeadSent(t, h)' => g = h
    BY <1>1, <1>2, <1>6, <1>7 DEF Responses
  <2>3. OnStream' => \A g \in Heads : HeadSent(i, g)' => g = "keep"
    BY <1>1, <1>2, <1>6 DEF Responses
  <2>4. \A t \in i .. N : t \in finished <=> Complete(t)'
    BY <1>1, <1>2, <1>8 DEF Responses
  <2> QED  BY <1>1, <1>5, <2>1, <2>2, <2>3, <2>4 DEF Responses
<1> QED  BY <1>1, <1>4, <1>11, <1>12, <1>13 DEF Wire, Agreement

\* The end is followed by the end of the connection only, or by the answer to
\* the next request, which the client is about to send.
LEMMA WireEnd ==
  ASSUME IInv, ReadEnd, pc' \in Active
  PROVE  Wire'
<1>1. /\ pc \in InBody /\ pc' \in Asking /\ i' = i + 1 /\ i # N /\ UNCHANGED <<srv, turn, finished>>
      /\ (pc = "stream-body" \/ framing = "keep") /\ BodyEnds /\ (OnStream' <=> OnStream)
  BY DEF ReadEnd, Return, Reusable, Last, Active, Asking, Reading, InBody, server, OnStream
<1>2. /\ Types /\ i \in 1 .. N /\ N \in Nat /\ i \in 0 .. N /\ turn \in 0 .. N /\ srv \in Servers
      /\ Sorted(Unread) /\ Places /\ AtServer /\ Responses /\ framing \in Heads
      /\ Progress /\ Turn
  BY <1>1, WireFacts DEF Active
<1>3. PICK n \in 0 .. N : n = i
  BY <1>2
<1>4. n \in 1 .. N /\ i' = n + 1 /\ n + 1 \in 0 .. N /\ n + 1 \in 1 .. N
  BY <1>1, <1>2, <1>3
<1>5. HeadSent(n, framing) /\ framing = "keep" /\ Take("end")
  <2>1. HeadSent(n, framing)
    BY <1>1, <1>3 DEF HeadSent
  <2>2. framing = "keep"
    BY <1>1, <1>2, <1>3, <2>1 DEF Responses, OnStream
  <2> QED  BY <1>1, <2>1, <2>2 DEF BodyEnds
<1>6. Head(reader).of = n
  BY <1>1, <1>3, <1>5, OfThisOne DEF Units, Final, Heads
<1>7. /\ Here(n) = Here(n)' \cup {"end"} /\ (\A s : s # n => Here(s)' = Here(s))
      /\ Sorted(Unread') /\ (\A v \in Here(n)' : Behind("end", v))
      /\ \A s \in 0 .. N : s < n => Here(s) = {}
  BY <1>2, <1>5, <1>6, Takes
<1>8. Here(n)' \subseteq Final /\ "end" \in Here(n) /\ \A s : Here(s)' \subseteq Here(s)
  BY <1>7, BehindWhat
<1>9. turn >= n /\ turn <= n + 1
  BY <1>2, <1>3, <1>8 DEF Places
<1>10. turn = n => srv \in {"idle", "gone", "lost"}
  <2>1. srv # "asked"
    BY <1>1, <1>2 DEF AtServer, InBody, Reading
  <2>2. turn = n => srv \notin Heads
    BY <1>2, <1>8 DEF AtServer, Heads
  <2>3. turn = n => srv # "closing"
    BY <1>2, <1>3, <1>5 DEF AtServer, Responses, Heads
  <2> QED  BY <1>2, <2>1, <2>2, <2>3 DEF Servers
<1>11. turn = n + 1 => srv \in Hanging /\ Here(n)' = {}
  <2>1. turn = n + 1 => turn > i
    BY <1>3, <1>4
  <2>2. turn = n + 1 => srv \in Hanging /\ Here(n) \cap Final = {}
    BY <1>2, <1>3, <2>1 DEF Places
  <2> QED  BY <1>7, <1>8, <2>2
<1>12. \A t : t # n => /\ \A f : (HeadSent(t, f)' <=> f \in Here(t)) /\ (HeadSent(t, f) <=> f \in Here(t))
                       /\ Complete(t)' <=> Complete(t)
  BY <1>1, <1>3, <1>7 DEF HeadSent, Complete, Asking, InBody
<1>13. Places'
  <2>1. turn \in (n + 1) - 1 .. (n + 1) + 1
    BY <1>2, <1>4, <1>9
  <2>2. ASSUME NEW t \in 0 .. N, Here(t)' # {}
        PROVE  t <= turn /\ (t >= n + 1 \/ (t = turn /\ Here(t)' \subseteq Final))
    <3>1. Here(t) # {} /\ ~(t < n)
      BY <1>7, <1>8, <2>2
    <3>2. t <= turn
      BY <1>2, <3>1 DEF Places
    <3>3. CASE t = n
      BY <1>2, <1>4, <1>8, <1>9, <1>11, <2>2, <3>2, <3>3
    <3> QED  BY <1>2, <1>4, <3>1, <3>2, <3>3
  <2>3. turn = n \/ turn = n + 1
    BY <1>2, <1>4, <1>9
  <2>4. OnStream => turn < n + 1
    BY <1>2, <1>3, <1>4 DEF Places
  <2> QED  BY <1>1, <1>2, <1>4, <1>10, <1>11, <2>1, <2>2, <2>3, <2>4 DEF Places, Asking, InBody
<1>14. AtServer'
  <2>1. srv # "asked"
    BY <1>1, <1>2 DEF AtServer, InBody, Reading
  <2>2. srv \in Heads => turn = n + 1
    BY <1>2, <1>4, <1>9, <1>10 DEF Heads
  <2>3. \A f \in Heads : turn = n + 1 => (HeadSent(turn, f)' <=> HeadSent(turn, f)) /\ Here(turn)' = Here(turn)
    BY <1>1, <1>4, <1>7, <1>12 DEF HeadSent, InBody, Asking
  <2>4. srv \in Heads => HeadSent(turn, srv)' /\ Here(turn)' \subseteq {"interim", "data"} \cup Heads
    BY <1>1, <1>2, <2>2, <2>3 DEF AtServer
  <2>5. srv \in {"idle", "closing"} /\ turn >= n + 1 =>
          "end" \in Here(turn)' /\ HeadSent(turn, IF srv = "idle" THEN "keep" ELSE "close")'
    <3>1. turn >= n + 1 => turn = n + 1 /\ turn >= i
      BY <1>2, <1>3, <1>4, <1>9
    <3> QED  BY <1>1, <1>2, <2>3, <3>1 DEF AtServer, Heads
  <2>6. \A t \in 0 .. N : \A u \in Here(t)' \cap Final : Broken /\ (u = "lost" <=> srv = "lost")
    BY <1>2, <1>8 DEF AtServer
  <2> QED  BY <1>1, <1>4, <2>1, <2>4, <2>5, <2>6 DEF AtServer, Broken
<1>15. Responses'
  <2>1. \A t \in n + 1 .. N : t # n /\ t \in i .. N /\ t \in 0 .. N
    BY <1>2, <1>3, <1>4
  <2>2. \A t \in n + 1 .. N : "end" \in Here(t)' => ~HeadSent(t, "until-eof")'
    BY <1>2, <1>7, <1>12, <2>1 DEF Responses
  <2>3. \A t \in n + 1 .. N : \A f, g \in Heads : HeadSent(t, f)' /\ HeadSent(t, g)' => f = g
    BY <1>2, <1>12, <2>1 DEF Responses
  <2>4. OnStream => \A f : ~HeadSent(n + 1, f)'
    <3>1. OnStream => Here(n + 1) = {}
      BY <1>2, <1>3, <1>4 DEF Places
    <3> QED  BY <1>4, <1>12, <2>1, <3>1
  <2>5. \A t \in n + 1 .. N : t \in finished <=> Complete(t)'
    BY <1>2, <1>12, <2>1 DEF Responses
  <2>6. pc' \notin InBody
    BY <1>1 DEF Asking, InBody
  <2> QED  BY <1>1, <1>4, <2>2, <2>3, <2>4, <2>5, <2>6 DEF Responses
<1> QED  BY <1>7, <1>13, <1>14, <1>15 DEF Wire, Agreement

\* The server writes behind everything that has arrived.
LEMMA SendsBehind ==
  ASSUME IInv, pc \in Active, NEW t \in 0 .. N, NEW u \in Units, Send(t, u), t >= turn,
         \A s \in 0 .. N : Here(s) \cap Final = {}, \A v \in Here(t) : Behind(v, u)
  PROVE  /\ Here(t)' = Here(t) \cup {u} /\ (\A s : s # t => Here(s)' = Here(s))
         /\ Sorted(Unread') /\ UNCHANGED <<pc, i, framing, http3, conn>> /\ (OnStream' <=> OnStream)
<1>1. Types /\ Sorted(Unread) /\ Places /\ turn \in 0 .. N
  BY WireFacts
<1>2. \A s \in 0 .. N : s > t => Here(s) = {}
  BY <1>1 DEF Places
<1>3. /\ Here(t)' = Here(t) \cup {u} /\ (\A s : s # t => Here(s)' = Here(s)) /\ Sorted(Unread')
  BY <1>1, <1>2, Sends
<1>4. UNCHANGED <<pc, i, framing, http3, conn>>
  BY DEF Send, client, options
<1> QED  BY <1>3, <1>4 DEF OnStream

\* A server that was asked has sent 1xx responses at most.
LEMMA WireInterim == ASSUME IInv, pc \in Active, ServeInterim PROVE Wire'
<1>0. /\ i \in 1 .. N /\ N \in Nat /\ i \in 0 .. N /\ turn \in 0 .. N /\ srv \in Servers
      /\ Sorted(Unread) /\ Places /\ AtServer /\ Responses
  BY WireFacts
<1>1. PICK n \in 0 .. N : n = i
  BY <1>0
<1>2. /\ srv = "asked" /\ turn = n /\ pc \in Reading /\ Here(n) \subseteq {"interim"}
      /\ Send(n, "interim") /\ UNCHANGED <<srv, turn, finished>>
  BY <1>0, <1>1 DEF AtServer, ServeInterim
<1>3. \A s \in 0 .. N : Here(s) \cap Final = {}
  BY <1>0, <1>2 DEF AtServer, Broken
<1>4. "interim" \in Units /\ \A v \in Here(n) : Behind(v, "interim")
  BY <1>2, BehindWhat DEF Units
<1>5. /\ Here(n)' = {"interim"} /\ (\A s : s # n => Here(s)' = Here(s))
      /\ Sorted(Unread') /\ UNCHANGED <<pc, i, framing, http3>> /\ (OnStream' <=> OnStream)
  BY <1>0, <1>2, <1>3, <1>4, SendsBehind
<1>6. \A t : Complete(t)' <=> Complete(t)
  BY <1>2, <1>5 DEF Complete, HeadSent, Reading, InBody
<1>7. \A t : /\ \A f \in Heads : HeadSent(t, f)' <=> HeadSent(t, f)
             /\ "end" \in Here(t)' <=> "end" \in Here(t)
  BY <1>2, <1>5 DEF HeadSent, Heads, Reading, InBody
<1>8. Places'
  BY <1>0, <1>1, <1>2, <1>5 DEF Places, Asking, Reading, InBody
<1>9. AtServer'
  BY <1>0, <1>1, <1>2, <1>3, <1>5 DEF AtServer, Heads, Final
<1>10. Responses'
  BY <1>0, <1>1, <1>2, <1>5, <1>6, <1>7 DEF Responses, Reading, InBody, Heads
<1> QED  BY <1>5, <1>8, <1>9, <1>10 DEF Wire, Agreement

\* What comes behind them is the header block, or no response at all.
LEMMA WireAnswer ==
  ASSUME IInv, pc \in Active, srv = "asked", NEW u \in Heads \cup Final, u # "eof", Send(turn, u),
         OnStream /\ u \in Heads => u = "keep",
         srv' = IF u \in Heads THEN u ELSE IF u = "lost" THEN "lost" ELSE "gone",
         UNCHANGED <<turn, finished>>
  PROVE  Wire'
<1>0. /\ i \in 1 .. N /\ N \in Nat /\ i \in 0 .. N /\ turn \in 0 .. N /\ srv \in Servers
      /\ Sorted(Unread) /\ Places /\ AtServer /\ Responses
  BY WireFacts
<1>1. PICK n \in 0 .. N : n = i
  BY <1>0
<1>2. /\ turn = n /\ pc \in Reading /\ Here(n) \subseteq {"interim"} /\ Send(n, u)
  BY <1>0, <1>1 DEF AtServer
<1>3. \A s \in 0 .. N : Here(s) \cap Final = {}
  BY <1>0 DEF AtServer, Broken
<1>4. u \in Units /\ \A v \in Here(n) : Behind(v, u)
  BY <1>2, BehindWhat DEF Units
<1>5. /\ Here(n)' = Here(n) \cup {u} /\ (\A s : s # n => Here(s)' = Here(s))
      /\ Sorted(Unread') /\ UNCHANGED <<pc, i, framing, http3>> /\ (OnStream' <=> OnStream)
  BY <1>0, <1>2, <1>3, <1>4, SendsBehind
<1>6. /\ \A f \in Heads : ~HeadSent(n, f) /\ (HeadSent(n, f)' <=> f = u)
      /\ ~Complete(n) /\ ~Complete(n)' /\ "end" \notin Here(n)'
  BY <1>2, <1>5 DEF Complete, HeadSent, Reading, InBody, Heads, Final
<1>7. \A t : t # n => /\ \A f : HeadSent(t, f)' <=> HeadSent(t, f)
                      /\ Complete(t)' <=> Complete(t)
  BY <1>2, <1>5 DEF HeadSent, Complete, Reading, InBody
<1>8. Places'
  BY <1>0, <1>1, <1>2, <1>5 DEF Places, Asking, Reading, InBody
<1>9. AtServer'
  <2>1. srv' # "asked" /\ srv' \notin {"idle", "closing"}
    BY DEF Heads, Final
  <2>2. srv' \in Heads => HeadSent(turn, srv)' /\ Here(turn)' \subseteq {"interim", "data"} \cup Heads
    <3>1. srv' \in Heads => srv' = u /\ u \in Heads
      BY DEF Heads, Final
    <3>2. u \in Heads => u \in Here(n)' /\ Here(n)' \subseteq {"interim", "data"} \cup Heads
      BY <1>2, <1>5
    <3> QED  BY <1>2, <1>5, <3>1, <3>2 DEF HeadSent
  <2>3. ASSUME NEW t \in 0 .. N, NEW v \in Here(t)' \cap Final
        PROVE  Broken' /\ (v = "lost" <=> srv' = "lost")
    <3>1. t = n /\ v = u
      BY <1>2, <1>3, <1>5, <2>3
    <3> QED  BY <2>3, <3>1 DEF Broken, Heads, Final
  <2> QED  BY <2>1, <2>2, <2>3 DEF AtServer
<1>10. Responses'
  BY <1>0, <1>1, <1>2, <1>5, <1>6, <1>7 DEF Responses, Reading, InBody, Heads
<1> QED  BY <1>5, <1>8, <1>9, <1>10 DEF Wire, Agreement

\* The body goes on.
LEMMA WireData == ASSUME IInv, pc \in Active, ServeData PROVE Wire'
<1>0. /\ i \in 1 .. N /\ N \in Nat /\ i \in 0 .. N /\ turn \in 0 .. N
      /\ Sorted(Unread) /\ Places /\ AtServer /\ Responses /\ Turn
  BY WireFacts
<1>1. PICK n \in 0 .. N : n = turn
  BY <1>0
<1>2. /\ srv \in Heads /\ Send(n, "data") /\ UNCHANGED <<srv, turn, finished>>
      /\ n >= i /\ HeadSent(n, srv) /\ Here(n) \subseteq {"interim", "data"} \cup Heads
  BY <1>0, <1>1 DEF ServeData, Send, Turn, AtServer
<1>3. \A s \in 0 .. N : Here(s) \cap Final = {}
  BY <1>0, <1>2 DEF AtServer, Broken, Heads
<1>4. "data" \in Units /\ \A v \in Here(n) : Behind(v, "data")
  BY <1>2, BehindWhat DEF Units, OfBody
<1>5. /\ Here(n)' = Here(n) \cup {"data"} /\ (\A s : s # n => Here(s)' = Here(s))
      /\ Sorted(Unread') /\ UNCHANGED <<pc, i, framing, http3>> /\ (OnStream' <=> OnStream)
  BY <1>0, <1>1, <1>2, <1>3, <1>4, SendsBehind
<1>6. \A t : /\ \A f \in Heads : HeadSent(t, f)' <=> HeadSent(t, f)
             /\ "end" \in Here(t)' <=> "end" \in Here(t)
             /\ Here(t)' \cap Final = Here(t) \cap Final
  BY <1>5 DEF HeadSent, Heads, Final
<1>7. \A t : Complete(t)' <=> Complete(t)
  BY <1>5, <1>6 DEF Complete, Heads
<1>8. Places'
  BY <1>0, <1>1, <1>2, <1>5, <1>6 DEF Places, Heads
<1>9. AtServer'
  BY <1>0, <1>1, <1>2, <1>3, <1>5, <1>6 DEF AtServer, Heads
<1>10. Responses'
  BY <1>0, <1>5, <1>2, <1>6, <1>7 DEF Responses, OfBody, Heads
<1> QED  BY <1>5, <1>8, <1>9, <1>10 DEF Wire, Agreement

\* The end of the response, with which it is complete.
LEMMA WireServeEnd == ASSUME IInv, pc \in Active, ServeEnd PROVE Wire'
<1>0. /\ i \in 1 .. N /\ N \in Nat /\ i \in 0 .. N /\ turn \in 0 .. N
      /\ Sorted(Unread) /\ Places /\ AtServer /\ Responses /\ Turn
  BY WireFacts
<1>1. PICK n \in 0 .. N : n = turn
  BY <1>0
<1>2. PICK u \in {"end", "eof"} :
        /\ Send(n, u) /\ (u = "eof" <=> srv = "until-eof")
        /\ srv' = CASE srv = "keep" -> "idle" [] srv = "close" -> "closing" [] srv = "until-eof" -> "gone"
  BY <1>1 DEF ServeEnd, Heads
<1>3. /\ srv \in Heads /\ turn' = turn /\ finished' = finished \cup {n}
      /\ n >= i /\ HeadSent(n, srv) /\ Here(n) \subseteq {"interim", "data"} \cup Heads
  BY <1>0, <1>1, <1>2 DEF ServeEnd, Send, Turn, AtServer
<1>4. \A s \in 0 .. N : Here(s) \cap Final = {}
  BY <1>0, <1>3 DEF AtServer, Broken, Heads
<1>5. u \in Units /\ \A v \in Here(n) : Behind(v, u)
  <2>1. u \in OfBody \cup Final
    BY DEF OfBody, Final
  <2> QED  BY <1>3, <2>1, BehindWhat
<1>6. /\ Here(n)' = Here(n) \cup {u} /\ (\A s : s # n => Here(s)' = Here(s))
      /\ Sorted(Unread') /\ UNCHANGED <<pc, i, framing, http3>> /\ (OnStream' <=> OnStream)
  BY <1>0, <1>1, <1>2, <1>4, <1>5, SendsBehind
<1>7. \A t : \A f \in Heads : HeadSent(t, f)' <=> HeadSent(t, f)
  BY <1>6 DEF HeadSent, Heads
<1>8. \A t : t # n => (Complete(t)' <=> Complete(t)) /\ Here(t)' = Here(t)
  BY <1>6, <1>7 DEF Complete, Heads
<1>9. /\ Complete(n)' /\ ("end" \in Here(n)' => u = "end")
      /\ Here(n)' \cap Final = (IF u = "eof" THEN {"eof"} ELSE {})
  BY <1>2, <1>3, <1>4, <1>6, <1>7 DEF Complete, Heads, Final
<1>10. srv' = (IF u = "eof" THEN "gone" ELSE IF srv = "keep" THEN "idle" ELSE "closing")
  BY <1>2, <1>3 DEF Heads
<1>11. Places'
  BY <1>0, <1>1, <1>3, <1>6, <1>7, <1>10 DEF Places, Hanging, Heads
<1>12. AtServer'
  <2>1. srv' \notin {"asked"} \cup Heads
    BY <1>10 DEF Heads
  <2>2. /\ srv' = "idle" => "end" \in Here(n)' /\ HeadSent(n, "keep")'
        /\ srv' = "closing" => "end" \in Here(n)' /\ HeadSent(n, "close")'
    <3>1. srv' \in {"idle", "closing"} => u = "end" /\ srv = (IF srv' = "idle" THEN "keep" ELSE "close")
      BY <1>2, <1>3, <1>10 DEF Heads
    <3> QED  BY <1>3, <1>6, <1>7, <3>1 DEF Heads
  <2>3. \A t \in 0 .. N : \A v \in Here(t)' \cap Final : Broken' /\ (v = "lost" <=> srv' = "lost")
    BY <1>4, <1>8, <1>9, <1>10 DEF Broken
  <2>4. turn' = n
    BY <1>1, <1>3
  <2> QED  BY <2>1, <2>2, <2>3, <2>4 DEF AtServer
<1>13. Responses'
  <2>1. ASSUME NEW t \in i .. N, "end" \in Here(t)' PROVE ~HeadSent(t, "until-eof")'
    <3>1. CASE t = n
      BY <1>0, <1>2, <1>3, <1>7, <1>9, <2>1, <3>1 DEF Responses, Heads
    <3> QED  BY <1>0, <1>7, <1>8, <2>1, <3>1 DEF Responses, Heads
  <2>2. \A t \in i .. N : t \in finished' <=> Complete(t)'
    BY <1>0, <1>3, <1>8, <1>9 DEF Responses
  <2>3. pc \in InBody => Here(i)' \subseteq OfBody \cup Final
    BY <1>0, <1>6 DEF Responses, OfBody, Final
  <2> QED  BY <1>0, <1>6, <1>7, <2>1, <2>2, <2>3 DEF Responses
<1> QED  BY <1>6, <1>11, <1>12, <1>13 DEF Wire, Agreement

\* A response nobody asked for is the one to the next request.
LEMMA WireUnasked == ASSUME IInv, pc \in Active, NEW f \in Heads, ServeUnasked(f) PROVE Wire'
<1>0. /\ i \in 1 .. N /\ N \in Nat /\ i \in 0 .. N /\ turn \in 0 .. N
      /\ Sorted(Unread) /\ Places /\ AtServer /\ Responses
  BY WireFacts
<1>1. /\ srv = "idle" /\ ~OnStream /\ turn < N /\ f \in {"close", "until-eof"}
      /\ srv' = f /\ turn' = turn + 1 /\ finished' = finished
  BY DEF ServeUnasked, Heads
<1>2. PICK m \in 0 .. N : m = turn + 1
  BY <1>0, <1>1
<1>3. Send(m, f) /\ turn' = m /\ m >= turn /\ m > turn
  BY <1>0, <1>1, <1>2 DEF ServeUnasked
<1>4. \A s \in 0 .. N : Here(s) \cap Final = {}
  BY <1>0, <1>1 DEF AtServer, Broken
<1>5. Here(m) = {} /\ f \in Units
  BY <1>0, <1>2, <1>3 DEF Places, Units
<1>6. \/ m = i /\ pc \in Asking /\ \A s \in 0 .. N : Here(s) = {}
      \/ /\ m = i + 1 /\ pc \notin Asking
         /\ "end" \in Here(i) /\ HeadSent(i, "keep") /\ Here(i) \cap Final = {}
  <2>1. turn \in {i - 1, i, i + 1}
    BY <1>0 DEF Places
  <2>2. CASE turn = i - 1
    <3>1. m = i /\ pc \in Asking
      BY <1>0, <1>1, <1>2, <2>2 DEF Places
    <3>2. \A s \in 0 .. N : Here(s) = {}
      BY <1>0, <1>4, <2>2 DEF Places
    <3> QED  BY <3>1, <3>2
  <2>3. CASE turn = i
    <3>1. pc \notin Asking
      BY <1>0, <1>1, <2>3 DEF Places, Hanging
    <3>2. "end" \in Here(i) /\ HeadSent(i, "keep")
      BY <1>0, <1>1, <2>3 DEF AtServer
    <3> QED  BY <1>0, <1>2, <1>4, <2>3, <3>1, <3>2
  <2>4. turn # i + 1
    BY <1>0, <1>1 DEF Places, Hanging
  <2> QED  BY <2>1, <2>2, <2>3, <2>4
<1>7. /\ Here(m)' = {f} /\ (\A s : s # m => Here(s)' = Here(s))
      /\ Sorted(Unread') /\ UNCHANGED <<pc, i, framing, http3>> /\ (OnStream' <=> OnStream)
  BY <1>0, <1>3, <1>4, <1>5, SendsBehind
<1>8. \A g \in Heads : (HeadSent(m, g)' <=> g = f) /\ ~HeadSent(m, g)
  <2>1. m = i => pc \notin InBody
    BY <1>0, <1>6 DEF Asking, InBody
  <2> QED  BY <1>5, <1>7, <2>1 DEF HeadSent
<1>9. ~Complete(m) /\ ~Complete(m)'
  BY <1>1, <1>5, <1>7 DEF Complete, Heads
<1>10. \A t : t # m => /\ \A g : HeadSent(t, g)' <=> HeadSent(t, g)
                       /\ Complete(t)' <=> Complete(t)
  BY <1>7 DEF HeadSent, Complete
<1>11. Places'
  <2>1. CASE m = i
    BY <1>0, <1>1, <1>3, <1>6, <1>7, <2>1 DEF Places, Hanging
  <2>2. CASE m = i + 1
    <3>1. "end" \in Here(i)' /\ HeadSent(i, "keep")' /\ Here(i)' \cap Final = {}
      <4>1. i # m /\ m # i
        BY <1>0, <2>2
      <4>2. "end" \in Here(i) /\ HeadSent(i, "keep") /\ Here(i) \cap Final = {}
        BY <1>6, <4>1
      <4>3. PICK n \in 0 .. N : n = i
        BY <1>0
      <4>4. "end" \in Here(n)' /\ HeadSent(n, "keep")' /\ Here(n)' \cap Final = {}
        BY <1>7, <1>10, <4>1, <4>2, <4>3
      <4>5. i' = n
        BY <1>7, <4>3
      <4> QED  BY <4>4, <4>5
    <3>2. \A t \in 0 .. N : Here(t)' # {} => t <= m /\ t >= i
      BY <1>0, <1>2, <1>4, <1>7, <2>2 DEF Places
    <3> QED  BY <1>0, <1>1, <1>3, <1>7, <2>2, <3>1, <3>2 DEF Places, Hanging
  <2> QED  BY <1>6, <2>1, <2>2
<1>12. AtServer'
  <2>1. HeadSent(m, f)' /\ Here(m)' \subseteq Heads
    BY <1>7, <1>8
  <2>2. \A t \in 0 .. N : Here(t)' \cap Final = {}
    BY <1>1, <1>4, <1>7 DEF Final
  <2> QED  BY <1>1, <1>3, <2>1, <2>2 DEF AtServer, Heads
<1>13. Responses'
  <2>1. pc \in InBody => m # i
    BY <1>0, <1>6 DEF Asking, InBody
  <2>2. \A t \in i .. N : "end" \in Here(t)' => t # m
    BY <1>1, <1>7
  <2>3. \A t \in i .. N : "end" \in Here(t)' => ~HeadSent(t, "until-eof")'
    BY <1>0, <1>7, <1>10, <2>2 DEF Responses, Heads
  <2>4. \A t \in i .. N : \A g, h \in Heads : HeadSent(t, g)' /\ HeadSent(t, h)' => g = h
    BY <1>0, <1>8, <1>10 DEF Responses
  <2>5. \A t \in i .. N : t \in finished <=> Complete(t)'
    BY <1>0, <1>9, <1>10 DEF Responses
  <2>6. pc \in InBody => Here(i)' \subseteq OfBody \cup Final
    BY <1>0, <1>7, <2>1 DEF Responses
  <2> QED  BY <1>0, <1>1, <1>7, <2>3, <2>4, <2>5, <2>6 DEF Responses
<1> QED  BY <1>7, <1>11, <1>12, <1>13 DEF Wire, Agreement

\* The connection ends.  A response that ends with it is complete only if the
\* server said so, and then it was not broken off.
LEMMA WireBreak ==
  ASSUME IInv, pc \in Active, NEW u \in {"eof", "cut", "reset", "lost"}, ServeBreak(u) PROVE Wire'
<1>0. /\ i \in 1 .. N /\ N \in Nat /\ i \in 0 .. N /\ turn \in 0 .. N /\ srv \in Servers
      /\ Types /\ Sorted(Unread) /\ Places /\ AtServer /\ Responses
  BY WireFacts
<1>1. PICK n \in 0 .. N : n = turn
  BY <1>0
<1>2. /\ ~Broken /\ (srv = "until-eof" => u # "eof") /\ Send(n, u)
      /\ srv' = (IF u = "lost" THEN "lost" ELSE "gone") /\ UNCHANGED <<turn, finished>>
  BY <1>1 DEF ServeBreak
<1>3. \A s \in 0 .. N : Here(s) \cap Final = {}
  BY <1>0, <1>2 DEF AtServer
<1>4. u \in Final /\ u \in Units /\ \A v \in Here(n) : Behind(v, u)
  <2>1. u \in Final /\ u \in Units
    BY DEF Final, Units
  <2>2. \A v \in Here(n) : v \in Units /\ v \notin Final
    BY <1>0, <1>3, Unreads
  <2> QED  BY <2>1, <2>2, BehindWhat DEF Units
<1>5. /\ Here(n)' = Here(n) \cup {u} /\ (\A s : s # n => Here(s)' = Here(s))
      /\ Sorted(Unread') /\ UNCHANGED <<pc, i, framing, http3>> /\ (OnStream' <=> OnStream)
  BY <1>0, <1>1, <1>2, <1>3, <1>4, SendsBehind
<1>6. \A t : /\ \A f \in Heads : HeadSent(t, f)' <=> HeadSent(t, f)
             /\ "end" \in Here(t)' <=> "end" \in Here(t)
  BY <1>4, <1>5 DEF HeadSent, Heads, Final
<1>7. n >= i => ~(HeadSent(n, "until-eof") /\ u = "eof")
  <2> SUFFICES ASSUME n >= i, HeadSent(n, "until-eof"), u = "eof" PROVE FALSE
    OBVIOUS
  <2>1. n \in i .. N /\ n = turn
    BY <1>0, <1>1
  <2>2. \A f \in Heads : HeadSent(n, f) => f = "until-eof"
    BY <1>0, <2>1 DEF Responses, Heads
  <2>3. srv \notin Heads /\ srv \notin {"idle", "closing"}
    BY <1>0, <1>2, <2>1, <2>2 DEF AtServer, Heads
  <2>4. srv # "asked"
    BY <1>0, <2>1 DEF AtServer, HeadSent, Reading, InBody
  <2> QED  BY <1>0, <1>2, <2>3, <2>4 DEF Servers, Broken
<1>8. \A t : t >= i => (Complete(t)' <=> Complete(t))
  <2>1. \A t : t # n => (Complete(t)' <=> Complete(t))
    BY <1>5, <1>6 DEF Complete, Heads
  <2>2. n >= i => (Complete(n)' <=> Complete(n))
    BY <1>5, <1>6, <1>7 DEF Complete, Heads
  <2> QED  BY <2>1, <2>2
<1>9. Places'
  <2>1. turn > i => Here(i)' \cap Final = {} /\ "end" \in Here(i)' /\ HeadSent(i, "keep")'
    BY <1>0, <1>1, <1>3, <1>5, <1>6 DEF Places, Heads
  <2>2. ASSUME NEW t \in 0 .. N, Here(t)' # {}
        PROVE  t <= turn /\ (t >= i \/ (t = turn /\ Here(t)' \subseteq Final))
    <3>1. CASE t = n
      BY <1>0, <1>1, <1>4, <1>5, <3>1 DEF Places
    <3> QED  BY <1>0, <1>5, <2>2, <3>1 DEF Places
  <2> QED  BY <1>0, <1>2, <1>5, <2>1, <2>2 DEF Places, Hanging
<1>10. AtServer'
  <2>1. \A t \in 0 .. N : \A v \in Here(t)' \cap Final : v = u
    BY <1>3, <1>5
  <2> QED  BY <1>2, <2>1 DEF AtServer, Broken, Heads
<1>11. Responses'
  <2>1. \A t \in i .. N : t \in finished <=> Complete(t)'
    BY <1>0, <1>8 DEF Responses
  <2>2. pc \in InBody => Here(i)' \subseteq OfBody \cup Final
    BY <1>0, <1>4, <1>5 DEF Responses
  <2> QED  BY <1>0, <1>2, <1>5, <1>6, <2>1, <2>2 DEF Responses, Heads
<1> QED  BY <1>5, <1>9, <1>10, <1>11 DEF Wire, Agreement

LEMMA StaysWire == ASSUME IInv, [Next]_vars PROVE Wire'
<1>0. pc \in {"connect", "return", "done"} \cup Active
  BY WireFacts
<1>1. ASSUME pc' \notin Active PROVE Wire'
  BY <1>1 DEF Wire
<1>2. ASSUME NEW c, Return(c) \/ Failed(c) PROVE Wire'
  BY <1>1, <1>2 DEF Return, Failed, Active, Asking, Reading, InBody
\* Nothing that the invariant looks at changes but data and 1xx responses.
<1>3. ASSUME UNCHANGED <<pc, i, framing, http3, srv, turn, finished>>, Unread' = Unread PROVE Wire'
  <2>1. \A t \in 0 .. N : Here(t)' = Here(t)
    BY <1>3 DEF Here
  <2>2. pc \in Active => Sorted(Unread')
    BY <1>3, WireFacts
  <2> QED  BY <1>1, <1>3, <2>1, <2>2, WireInHead
<1>4. ASSUME pc \in Reading \cup InBody, NEW u \in {"interim", "data"}, Take(u) \/ TakeBlock(u),
             UNCHANGED <<pc, i, framing, http3, srv, turn, finished>>
      PROVE  Wire'
  <2>1. pc \in Active /\ Types /\ Sorted(Unread)
    BY <1>4, WireFacts DEF Active
  <2>2. PICK t : t = Head(reader).of
    OBVIOUS
  <2>3. Here(t) = Here(t)' \cup {u} /\ (\A s : s # t => Here(s)' = Here(s)) /\ Sorted(Unread')
    BY <1>4, <2>1, <2>2, Takes
  <2>4. \A s \in 0 .. N : Here(s)' \subseteq Here(s) /\ Here(s) \subseteq Here(s)' \cup {"interim", "data"}
    BY <2>3
  <2> QED  BY <1>4, <2>1, <2>3, <2>4, WireInHead
<1>5. ASSUME NEW c, ConnectFails(c) \/ RoundTripFails(c) PROVE Wire'
  <2>1. ConnectFails(c) => pc' \notin Active
    BY DEF ConnectFails, Active, Asking, Reading, InBody
  <2>2. RoundTripFails(c) => Failed(c)
    BY DEF RoundTripFails
  <2> QED  BY <1>1, <1>2, <1>5, <2>1, <2>2
<1>6. CASE SendRequest \/ OpenStream
  <2>1. CASE Failed(55) \/ Return(28)
    BY <1>2, <2>1
  <2>2. CASE ~(Failed(55) \/ Return(28))
    <3>1. pc \in Asking /\ pc' \in Reading /\ Asks /\ UNCHANGED <<i, framing, readers, wire, finished>>
      BY <1>6, <2>2 DEF SendRequest, OpenStream, Asking, Reading
    <3>2. OnStream' <=> OnStream
      BY <1>6, <2>2 DEF SendRequest, OpenStream, OnStream
    <3> QED  BY <3>1, <3>2, WireAsks
  <2> QED  BY <2>1, <2>2
<1>7. CASE SendFails \/ TimesOut \/ LostConnection \/ ReadBad \/ ReadNoHead \/ ReadCutBody
  BY <1>2, <1>7 DEF SendFails, TimesOut, LostConnection, ReadBad, ReadNoHead, ReadCutBody
<1>8. CASE ReadInterim \/ ReadData
  <2>1. CASE CannotEmit
    BY <1>2, <2>1 DEF CannotEmit
  <2>2. CASE ~CannotEmit
    BY <1>4, <1>8, <2>2
       DEF ReadInterim, ReadData, Reading, InBody, client, server, options
  <2> QED  BY <2>1, <2>2
<1>9. CASE Fill
  <2>1. Types
    BY WireFacts
  <2> QED  BY <1>3, <1>9, <2>1, Fills DEF Fill, client, server, options
<1>10. CASE Deferred
  BY <1>1, <1>10 DEF Deferred, Active, Asking, Reading, InBody
<1>11. CASE DeadlinePasses \/ UNCHANGED vars
  BY <1>3, <1>11 DEF DeadlinePasses, vars, client, server, options, readers, Unread
<1>12. CASE Server
  <2>1. pc' = pc
    BY <1>12, ServerSends DEF client
  <2>2. CASE pc \in Active
    <3>1. ASSUME NEW f \in Heads, ServeHead(f) PROVE Wire'
      <4>1. f \in Heads \cup Final /\ f # "eof" /\ srv = "asked" /\ Send(turn, f) /\ srv' = f
            /\ (OnStream => f = "keep") /\ UNCHANGED <<turn, finished>>
        BY <3>1 DEF ServeHead, Heads
      <4> QED  BY <2>2, <3>1, <4>1, WireAnswer
    <3>2. ASSUME NEW u \in {"bad", "upgrade", "cut"}, ServeBad(u) PROVE Wire'
      <4>1. u \in Final /\ u \notin Heads /\ u # "eof" /\ u # "lost"
        BY DEF Final, Heads
      <4> QED  BY <2>2, <3>2, <4>1, WireAnswer DEF ServeBad
    <3> QED
      BY <1>12, <2>2, <3>1, <3>2, WireInterim, WireData, WireServeEnd, WireUnasked, WireBreak DEF Server
  <2> QED  BY <1>1, <2>1, <2>2
<1>13. ASSUME NEW f \in Heads, ReadHead(f) PROVE Wire'
  BY <1>1, <1>13, WireHead
<1>14. CASE ReadEnd
  BY <1>1, <1>14, WireEnd
<1> QED
  BY <1>5, <1>6, <1>7, <1>8, <1>9, <1>10, <1>11, <1>12, <1>13, <1>14, WireConnect
     DEF Next, Receive, ConnectTimesOut

-----------------------------------------------------------------------------
(* What is read last of a response, and of a connection *)

LEMMA Numbers ==
  ASSUME Types
  PROVE  /\ \A t, q : Written(t, q) \in Nat
         /\ \A t \in 1 .. N : served[t] \in Nat
<1>1. \A t, q : Written(t, q) \in Nat
  <2>1. stdout \in Seq(Part)
    BY DEF Types
  <2> QED  BY <2>1, CountType DEF Written
<1>2. \A t \in 1 .. N : served[t] \in Nat
  <2>1. served \in [1 .. N -> 0 .. MaxBody]
    BY DEF Types
  <2> QED  BY <2>1, Bounds
<1> QED  BY <1>1, <1>2

\* What ends a connection is the last of all that has arrived on it, and of the
\* target its server was at.
LEMMA TheEnd ==
  ASSUME IInv, pc \in Reading \cup InBody, NEW u \in Final, Take(u)
  PROVE  /\ Broken /\ (u = "lost" <=> srv = "lost") /\ turn <= i /\ Head(reader).of = turn
         /\ Here(i) \subseteq {u} /\ (turn = i - 1 => pc \notin InBody)
         /\ \A t \in 0 .. N : Here(t)' = {} /\ Data(t)' = 0 /\ Data(t) = 0
<1>1. /\ Types /\ Sorted(Unread) /\ Places /\ AtServer /\ i \in 0 .. N /\ turn \in 0 .. N
      /\ i \in 1 .. N /\ N \in Nat
  BY WireFacts DEF Active
<1>2. PICK t : t = Head(reader).of
  OBVIOUS
<1>3. /\ t \in 0 .. N /\ Here(t) = Here(t)' \cup {u} /\ (\A s : s # t => Here(s)' = Here(s))
      /\ \A s \in 0 .. N : s < t => Here(s) = {}
      /\ \A s \in 0 .. N : Here(s)' = {}
  BY <1>1, <1>2, Takes
<1>4. Broken /\ (u = "lost" <=> srv = "lost")
  BY <1>1, <1>3 DEF AtServer
<1>5. t <= turn /\ (t >= i \/ t = turn)
  BY <1>1, <1>3 DEF Places
<1>6. turn <= i
  <2> SUFFICES ASSUME turn > i PROVE FALSE
    BY <1>1
  <2>1. "end" \in Here(i) /\ Here(i) \cap Final = {}
    BY <1>1 DEF Places
  <2>2. ~(i < t)
    BY <1>1, <1>3, <2>1
  <2>3. t = i
    BY <1>1, <1>3, <1>5, <2>2
  <2> QED  BY <1>3, <2>1, <2>3
<1>7. t = turn
  BY <1>1, <1>3, <1>5, <1>6
<1>8. \A s \in 0 .. N : Here(s) \subseteq {u}
  BY <1>3
<1>9. \A s \in 0 .. N : Data(s)' = 0 /\ Data(s) = 0
  <2>1. \A s \in 0 .. N : Data(s) = 0
    <3>1. u # "data"
      BY DEF Final
    <3> QED  BY <1>1, <1>8, <3>1, Unreads
  <2>2. \A s : Data(s)' \in Nat
    BY <1>1, <1>2, Takes
  <2>3. Data(t) = Data(t)' + 0 /\ \A s : s # t => Data(s)' = Data(s)
    BY <1>1, <1>2, Takes DEF Final
  <2> QED  BY <1>3, <2>1, <2>2, <2>3
<1>10. turn = i - 1 => pc \notin InBody
  BY <1>1 DEF Places
<1> QED  BY <1>1, <1>2, <1>3, <1>4, <1>6, <1>7, <1>8, <1>9, <1>10

\* When the end of a response is read the server has finished it, and all its
\* data has been read.
LEMMA EndOfThisOne ==
  ASSUME IInv, pc \in InBody, BodyEnds
  PROVE  /\ i \in finished /\ turn >= i /\ Data(i) = 0
         /\ \A t \in i + 1 .. N : Data(t)' = Data(t)
         /\ srv \in Heads \cup {"asked"} => turn > i
         /\ turn > i => framing = "keep"
<1>1. /\ Types /\ Sorted(Unread) /\ Places /\ AtServer /\ Responses
      /\ i \in 1 .. N /\ N \in Nat /\ turn \in 0 .. N /\ framing \in Heads
  BY WireFacts DEF Active
<1>2. PICK n \in 0 .. N : n = i
  BY WireFacts
<1>3. n \in i .. N /\ HeadSent(n, framing)
  BY <1>1, <1>2 DEF HeadSent
<1>4. turn > i => framing = "keep" /\ Here(n) \cap Final = {}
  BY <1>1, <1>2, <1>3 DEF Places, Responses, Heads
<1>5. CASE Take("end")
  <2>1. Head(reader).of = n
    BY <1>2, <1>5, OfThisOne DEF Units, Final, Heads
  <2>2. /\ Here(n) = Here(n)' \cup {"end"} /\ (\A v \in Here(n)' : Behind("end", v))
        /\ Data(n) = Data(n)' + 0 /\ Data(n)' \in Nat /\ \A t : t # n => Data(t)' = Data(t)
    BY <1>1, <1>5, <2>1, Takes
  <2>3. "data" \notin Here(n) /\ "end" \in Here(n)
    BY <2>2, BehindWhat DEF Final
  <2>4. Data(n) = 0
    BY <1>1, <2>3, Unreads
  <2>5. i \in finished /\ turn >= i
    BY <1>1, <1>2, <1>3, <2>3 DEF Responses, Complete, Places, Final
  <2>6. srv \in Heads \cup {"asked"} => turn # i
    BY <1>1, <1>2, <2>3 DEF AtServer, Heads
  <2>7. \A t \in i + 1 .. N : t # n
    BY <1>1, <1>2
  <2> QED  BY <1>1, <1>2, <1>4, <2>2, <2>4, <2>5, <2>6, <2>7
<1>6. CASE framing = "until-eof" /\ Take("eof")
  <2>1. /\ Broken /\ turn <= i /\ Head(reader).of = turn /\ turn # i - 1
        /\ \A t \in 0 .. N : Data(t)' = 0 /\ Data(t) = 0
    BY <1>6, TheEnd DEF Final
  <2>2. turn = n
    BY <1>1, <1>2, <2>1 DEF Places
  <2>3. "eof" \in Here(n)
    BY <1>1, <1>6, <2>1, <2>2, Takes
  <2>4. i \in finished
    BY <1>1, <1>2, <1>3, <1>6, <2>3 DEF Responses, Complete
  <2>5. \A t \in i + 1 .. N : t \in 0 .. N
    BY <1>1
  <2>6. srv \notin Heads \cup {"asked"}
    BY <2>1 DEF Broken, Heads
  <2> QED  BY <1>1, <1>2, <1>4, <2>1, <2>2, <2>4, <2>5, <2>6
<1> QED  BY <1>5, <1>6 DEF BodyEnds

-----------------------------------------------------------------------------
(* What is written and what is served *)

\* What is said of a target stays true when its own part of the state does.
LEMMA Same ==
  ASSUME NEW t, \A q \in {"data", "head"} : Written(t, q)' = Written(t, q),
         served'[t] = served[t], t \in finished' <=> t \in finished, include' = include
  PROVE  (Whole(t)' <=> Whole(t)) /\ (Unserved(t)' <=> Unserved(t)) /\ (Unwritten(t)' <=> Unwritten(t))
PROOF BY DEF Whole, Unserved, Unwritten

\* A step that neither writes nor counts a piece of a body.
LEMMA KeepsProgress ==
  ASSUME IInv, UNCHANGED <<i, include, served, finished>>, turn <= turn', turn' \in 0 .. N,
         \A t, q : q # "interim" => Written(t, q)' = Written(t, q),
         \/ pc' \notin Active \cup {"connect"}
         \/ /\ \A t \in i .. N : Data(t)' = Data(t)
            /\ pc' = pc \/ (pc \in Asking /\ pc' \in Reading)
  PROVE  Progress'
<1>1. /\ Progress /\ i \in 1 .. N /\ N \in Nat /\ turn \in 0 .. N
      /\ \A t : t \in 1 .. i - 1 \/ t \in i .. N => t \in 1 .. N
  BY WireFacts
<1>2. \A t : (Whole(t)' <=> Whole(t)) /\ (Unserved(t)' <=> Unserved(t)) /\ (Unwritten(t)' <=> Unwritten(t))
  <2>1. ASSUME NEW t PROVE \A q \in {"data", "head"} : Written(t, q)' = Written(t, q)
    OBVIOUS
  <2> QED  BY <2>1, Same
<1>3. \A t \in i .. N : t > turn' => Unserved(t)'
  BY <1>1, <1>2 DEF Progress
<1>4. \A t \in i .. N : t > i \/ pc' \in {"connect"} \cup Asking \cup Reading => Unwritten(t)'
  BY <1>1, <1>2 DEF Progress, Active
<1>5. \A t \in i .. N : Written(t, "data")' <= served'[t]
  BY <1>1 DEF Progress
<1>6. pc' \in Active => \A t \in i .. N : served'[t] = Written(t, "data")' + Data(t)'
  BY <1>1 DEF Progress, Active
<1>7. pc' \in InBody => Written(i, "head")' = IF include THEN 1 ELSE 0
  <2>1. PICK n : n = i
    OBVIOUS
  <2>2. pc' \in InBody => pc \in InBody
    BY DEF Active, Asking, Reading, InBody
  <2>3. i' = n /\ Written(n, "head")' = Written(n, "head")
    BY <2>1
  <2> QED  BY <1>1, <2>1, <2>2, <2>3 DEF Progress
<1> QED  BY <1>1, <1>2, <1>3, <1>4, <1>5, <1>6, <1>7 DEF Progress

\* A piece of a body, or with -i a header block, is written.
LEMMA WritesProgress ==
  ASSUME IInv, pc \in Reading \cup InBody, NEW part \in {"head", "data"},
         NEW u \in Heads \cup {"data"}, Take(u) \/ TakeBlock(u), u = "data" <=> part = "data",
         pc' \in InBody, part = "data" => pc \in InBody, part = "head" => pc \in Reading,
         IF part = "data" \/ include THEN Emit(part) ELSE UNCHANGED stdout,
         UNCHANGED <<i, include, served, finished, turn>>
  PROVE  Progress'
<1>1. /\ Types /\ Progress /\ i \in 1 .. N /\ N \in Nat /\ turn \in 0 .. N
  BY WireFacts
<1>2. PICK n \in 1 .. N : n = i
  BY <1>1
<1>3. Head(reader).of = n
  BY <1>2, OfThisOne DEF Units, Final, Heads
<1>4. /\ Data(n) = Data(n)' + (IF part = "data" THEN 1 ELSE 0) /\ \A t : t # n => Data(t)' = Data(t)
      /\ Data(n)' \in Nat
  BY <1>1, <1>3, Takes
<1>5. /\ Written(n, part)' = Written(n, part) + (IF part = "data" \/ include THEN 1 ELSE 0)
      /\ \A t, q : <<t, q>> # <<n, part>> => Written(t, q)' = Written(t, q)
      /\ \A t, q : Written(t, q) \in Nat
  <2>1. \A t, q : Written(t, q) \in Nat
    BY <1>1, Numbers
  <2>2. CASE part = "data" \/ include
    BY <1>1, <1>3, <2>1, <2>2, Emits DEF Written
  <2>3. CASE ~(part = "data" \/ include)
    BY <2>1, <2>3 DEF Written
  <2> QED  BY <2>2, <2>3
<1>6. \A t : t # n => (Whole(t)' <=> Whole(t)) /\ (Unserved(t)' <=> Unserved(t))
                      /\ (Unwritten(t)' <=> Unwritten(t))
  <2>1. ASSUME NEW t, t # n PROVE \A q \in {"data", "head"} : Written(t, q)' = Written(t, q)
    BY <1>5, <2>1
  <2> QED  BY <2>1, Same
<1>7. /\ \A t \in i .. N : t # n => t > i /\ t \in i .. N
      /\ \A t \in 1 .. i - 1 : t # n
      /\ \A t \in i .. N : t > turn => Unserved(t)
      /\ pc \in Reading => Unwritten(n)
      /\ served[n] \in Nat /\ served[n] = Written(n, "data") + Data(n)
      /\ pc \in InBody => Written(n, "head") = IF include THEN 1 ELSE 0
  BY <1>1, <1>2, Numbers DEF Progress, Active
<1>8. \A t \in i .. N : t > turn => Unserved(t)'
  BY <1>7 DEF Unserved
<1>9. \A t \in i .. N : t > i => Unwritten(t)'
  BY <1>1, <1>2, <1>6 DEF Progress
<1>10. served[n] = Written(n, "data")' + Data(n)' /\ Written(n, "data")' <= served[n]
  BY <1>4, <1>5, <1>7
<1>11. Written(n, "head")' = IF include THEN 1 ELSE 0
  <2>1. CASE part = "head"
    BY <1>5, <1>7, <2>1 DEF Unwritten
  <2>2. CASE part = "data"
    BY <1>5, <1>7, <2>2
  <2> QED  BY <2>1, <2>2
<1>12. \A t \in i .. N : served[t] = Written(t, "data")' + Data(t)' /\ Written(t, "data")' <= served[t]
  <2>1. ASSUME NEW t \in i .. N, t # n
        PROVE  served[t] = Written(t, "data")' + Data(t)' /\ Written(t, "data")' <= served[t]
    BY <1>1, <1>4, <1>5, <2>1 DEF Progress, Active
  <2> QED  BY <1>10, <2>1
<1>13. i' = n /\ pc' \notin {"connect"} \cup Asking \cup Reading
  BY <1>2 DEF Asking, Reading, InBody
<1> QED
  BY <1>1, <1>2, <1>6, <1>7, <1>8, <1>9, <1>11, <1>12, <1>13 DEF Progress

\* The server sends a piece of a body, or the end of one.
LEMMA ServesProgress == ASSUME IInv, ServeData \/ ServeEnd PROVE Progress'
<1>1. /\ Types /\ Progress /\ Turn /\ i \in 1 .. N /\ N \in Nat /\ turn \in 0 .. N
  BY WireFacts
<1>2. PICK n \in 0 .. N : n = turn
  BY <1>1
<1>3. PICK u \in {"data", "end", "eof"} :
        /\ Send(n, u) /\ srv \in Heads
        /\ served' = (IF u = "data" THEN [served EXCEPT ![n] = @ + 1] ELSE served)
        /\ u = "data" => finished' = finished
        /\ u # "data" => finished' = finished \cup {n}
  BY <1>2 DEF ServeData, ServeEnd, Heads
<1>4. n >= i /\ n \in 1 .. N /\ turn' = n /\ UNCHANGED <<pc, i, include, stdout>>
  <2>1. conn \in open /\ UNCHANGED <<pc, i, include, stdout>>
    BY <1>3 DEF Send, client, options
  <2>2. turn' = turn
    BY DEF ServeData, ServeEnd
  <2>3. turn >= i
    BY <1>1, <1>3, <2>1 DEF Turn
  <2> QED  BY <1>1, <1>2, <2>1, <2>2, <2>3
<1>5. Data(n)' = Data(n) + (IF u = "data" THEN 1 ELSE 0) /\ \A t : t # n => Data(t)' = Data(t)
  <2>1. u \in Units
    BY DEF Units, Final
  <2> QED  BY <1>1, <1>3, <2>1, Sends
<1>6. \A t, q : Written(t, q)' = Written(t, q) /\ Written(t, q) \in Nat
  BY <1>1, <1>4, Numbers DEF Written
<1>7. /\ \A t \in 1 .. N : t # n => served'[t] = served[t]
      /\ served'[n] = served[n] + (IF u = "data" THEN 1 ELSE 0) /\ served[n] \in Nat
  <2>1. served \in [1 .. N -> 0 .. MaxBody]
    BY <1>1 DEF Types
  <2>2. served[n] \in Nat
    BY <1>1, <1>4, Numbers
  <2>3. CASE u = "data"
    <3>1. served' = [served EXCEPT ![n] = served[n] + 1]
      BY <1>3, <2>3
    <3> QED  BY <1>4, <2>1, <2>2, <2>3, <3>1
  <2>4. CASE u # "data"
    BY <1>3, <2>2, <2>4
  <2> QED  BY <2>3, <2>4
<1>8. \A t \in 1 .. N : t # n => (Whole(t)' <=> Whole(t)) /\ (Unserved(t)' <=> Unserved(t))
                                 /\ (Unwritten(t)' <=> Unwritten(t))
  <2>1. ASSUME NEW t \in 1 .. N, t # n
        PROVE  served'[t] = served[t] /\ (t \in finished' <=> t \in finished)
    <3>1. finished' = finished \/ finished' = finished \cup {n}
      BY <1>3
    <3> QED  BY <1>7, <2>1, <3>1
  <2> QED  BY <1>4, <1>6, <2>1, Same
<1>9. \A t : t \in 1 .. i - 1 \/ t \in i .. N => t \in 1 .. N
  BY <1>1
<1>10. \A t \in 1 .. i - 1 : Whole(t)'
  BY <1>1, <1>4, <1>8 DEF Progress
<1>11. \A t \in i .. N : t > n => Unserved(t)'
  BY <1>1, <1>2, <1>4, <1>8 DEF Progress
<1>12. \A t : Unwritten(t)' <=> Unwritten(t)
  BY <1>6 DEF Unwritten
<1>13. ASSUME NEW t \in i .. N
       PROVE  /\ Written(t, "data") <= served'[t]
              /\ pc \in Active => served'[t] = Written(t, "data") + Data(t)'
  <2>1. /\ Written(t, "data") <= served[t] /\ t \in 1 .. N /\ Data(t) \in Nat
        /\ pc \in Active => served[t] = Written(t, "data") + Data(t)
    BY <1>1, <1>9, Unreads DEF Progress
  <2>2. CASE t = n
    BY <1>5, <1>6, <1>7, <2>1, <2>2
  <2>3. CASE t # n
    BY <1>5, <1>7, <2>1, <2>3
  <2> QED  BY <2>2, <2>3
<1>14. PICK m : m = i
  OBVIOUS
<1>15. i' = m /\ (pc' \in InBody => Written(m, "head")' = IF include THEN 1 ELSE 0)
  BY <1>1, <1>4, <1>6, <1>14 DEF Progress
<1> QED
  BY <1>1, <1>4, <1>6, <1>10, <1>11, <1>12, <1>13, <1>14, <1>15 DEF Progress

\* Nothing is written of a 1xx response that is counted.
LEMMA InterimProgress == ASSUME IInv, ReadInterim, ~CannotEmit PROVE Progress'
<1>1. /\ Types /\ i \in 1 .. N /\ N \in Nat /\ turn \in 0 .. N
  BY WireFacts
<1>2. /\ pc \in Reading /\ TakeBlock("interim") /\ UNCHANGED <<pc, i, include, served, finished, turn>>
      /\ stdout' = stdout \/ Emit("interim")
  BY DEF ReadInterim, Reading, client, options, server
<1>3. Head(reader).of = i
  BY <1>2, OfThisOne DEF Units, Final, Heads
<1>4. \A t : Data(t)' = Data(t)
  <2>1. Data(i) = Data(i)' + 0 /\ Data(i)' \in Nat /\ \A t : t # i => Data(t)' = Data(t)
    <3>1. PICK n : n = i
      OBVIOUS
    <3>2. Data(n) = Data(n)' + 0 /\ Data(n)' \in Nat /\ \A t : t # n => Data(t)' = Data(t)
      BY <1>1, <1>2, <1>3, <3>1, Takes
    <3> QED  BY <1>2, <3>1, <3>2
  <2>2. PICK n : n = i
    OBVIOUS
  <2>3. Data(n)' = Data(n)
    BY <1>2, <2>1, <2>2
  <2> QED  BY <1>2, <2>1, <2>2, <2>3
<1>5. \A t, q : q # "interim" => Written(t, q)' = Written(t, q)
  <2>1. PICK n \in 1 .. N : n = i
    BY <1>1
  <2>2. CASE stdout' = stdout
    BY <2>2 DEF Written
  <2>3. CASE Emit("interim")
    <3>1. \A s, q : <<s, q>> # <<n, "interim">> => Count(stdout', <<s, q>>) = Written(s, q)
      BY <1>1, <1>3, <2>1, <2>3, Emits
    <3>2. \A s, q : q # "interim" => <<s, q>> # <<n, "interim">>
      OBVIOUS
    <3> QED  BY <3>1, <3>2 DEF Written
  <2> QED  BY <1>2, <2>2, <2>3
<1> QED  BY <1>1, <1>2, <1>4, <1>5, KeepsProgress

\* A new connection starts with nothing, for targets of which nothing is known.
LEMMA ConnectProgress == ASSUME IInv, NEW p \in Protocols, Connect(p) PROVE Progress'
<1>1. /\ Types /\ Progress /\ Turn /\ i \in 1 .. N /\ N \in Nat /\ turn \in 0 .. N
  BY WireFacts
<1>2. /\ pc = "connect" /\ pc' \in Asking /\ turn' = i - 1
      /\ UNCHANGED <<i, include, stdout, served, finished>>
  BY DEF Connect, Asking, options
<1>3. \A t, q : Written(t, q)' = Written(t, q)
  BY <1>2 DEF Written
<1>4. \A t : (Whole(t)' <=> Whole(t)) /\ (Unserved(t)' <=> Unserved(t)) /\ (Unwritten(t)' <=> Unwritten(t))
  BY <1>2, <1>3, Same
<1>5. Unread' = << >>
  <2>1. reader' = << >> /\ under' = << >> /\ wire' = << >> /\ << >> \in Seq(Unit)
    BY EmptySeq DEF Connect
  <2> QED  BY <2>1, ConcatEmptySeq DEF Unread
<1>6. \A t : Data(t)' = 0
  BY <1>5, EmptySeqs DEF Data
<1>7. \A t \in i .. N : Unserved(t) /\ Unwritten(t)
  BY <1>1, <1>2 DEF Progress, Turn
<1>8. \A t \in i .. N : served[t] = 0 /\ Written(t, "data")' = 0
  BY <1>3, <1>7 DEF Unserved, Unwritten
<1>9. pc' \notin InBody
  BY <1>2 DEF Asking, InBody
<1>10. \A t \in 1 .. i - 1 : Whole(t)'
  BY <1>1, <1>4 DEF Progress
<1> QED  BY <1>2, <1>4, <1>6, <1>7, <1>8, <1>9, <1>10 DEF Progress

\* The end has been read: whatever was served of the body is written.
LEMMA WholeAtEnd == ASSUME IInv, pc \in InBody, BodyEnds PROVE Whole(i)
<1>1. /\ Types /\ Progress /\ i \in 1 .. N /\ N \in Nat
  BY WireFacts
<1>2. i \in finished /\ Data(i) = 0
  BY EndOfThisOne
<1>3. Written(i, "data") \in Nat
  BY <1>1, Numbers
<1>4. /\ served[i] = Written(i, "data") + Data(i)
      /\ Written(i, "head") = IF include THEN 1 ELSE 0
  BY <1>1 DEF Progress, Active
<1> QED  BY <1>2, <1>3, <1>4 DEF Whole

LEMMA EndProgress == ASSUME IInv, ReadEnd PROVE Progress'
<1>1. /\ Types /\ Progress /\ i \in 1 .. N /\ N \in Nat /\ turn \in 0 .. N
  BY WireFacts
<1>2. pc \in InBody /\ BodyEnds /\ UNCHANGED <<stdout, include, turn, served, finished>>
  BY DEF ReadEnd, options, server, InBody
<1>3. \A t, q : Written(t, q)' = Written(t, q)
  BY <1>2 DEF Written
<1>4. CASE Return(0)
  BY <1>1, <1>2, <1>3, <1>4, KeepsProgress DEF Return, Active, Asking, Reading, InBody
<1>5. CASE ~Return(0)
  <2>1. PICK n \in 1 .. N : n = i
    BY <1>1
  <2>2. n # N /\ i' = n + 1 /\ pc' \in Asking \cup {"connect"} /\ n + 1 \in 1 .. N
    BY <1>1, <1>5, <2>1 DEF ReadEnd, Last, Asking
  <2>3. \A t : (Whole(t)' <=> Whole(t)) /\ (Unserved(t)' <=> Unserved(t)) /\ (Unwritten(t)' <=> Unwritten(t))
    BY <1>2, <1>3, Same
  <2>4. \A t \in n + 1 .. N : Data(t)' = Data(t)
    BY <1>2, <2>1, EndOfThisOne
  <2>5. /\ \A t \in n + 1 .. N : t \in n .. N /\ t > n
        /\ \A t \in 1 .. (n + 1) - 1 : t = n \/ t \in 1 .. n - 1
    BY <1>1
  <2>6. Whole(n)
    BY <1>2, <2>1, WholeAtEnd
  <2>7. \A t \in 1 .. (n + 1) - 1 : Whole(t)'
    BY <1>1, <2>1, <2>3, <2>5, <2>6 DEF Progress
  <2>8. \A t \in n + 1 .. N : Unwritten(t)' /\ (t > turn => Unserved(t)')
    BY <1>1, <2>1, <2>3, <2>5 DEF Progress
  <2>9. \A t \in n + 1 .. N : /\ Written(t, "data")' <= served'[t]
                              /\ served'[t] = Written(t, "data")' + Data(t)'
    BY <1>1, <1>2, <1>3, <2>1, <2>4, <2>5 DEF Progress, Active
  <2>10. pc' \notin InBody
    BY <2>2 DEF Asking, InBody
  <2> QED  BY <1>2, <2>2, <2>7, <2>8, <2>9, <2>10 DEF Progress
<1> QED  BY <1>4, <1>5

LEMMA StaysProgress == ASSUME IInv, [Next]_vars PROVE Progress'
<1>0. /\ Types /\ i \in 1 .. N /\ N \in Nat /\ turn \in 0 .. N /\ i - 1 <= turn
      /\ (pc \in Active => Places /\ AtServer)
  BY WireFacts DEF Turn
\* An error or a failed write ends the run.
<1>1. ASSUME pc' \notin Active \cup {"connect"}, UNCHANGED <<i, stdout, turn, include, served, finished>>
      PROVE  Progress'
  BY <1>0, <1>1, KeepsProgress DEF Written
<1>2. ASSUME NEW c, Return(c) \/ Failed(c), UNCHANGED <<stdout, turn, include, served, finished>>
      PROVE  Progress'
  BY <1>1, <1>2 DEF Return, Failed, Active, Asking, Reading, InBody
<1>3. ASSUME NEW c, ConnectFails(c) PROVE Progress'
  BY <1>1, <1>3 DEF ConnectFails, options, server, Active, Asking, Reading, InBody
<1>4. CASE Deferred
  BY <1>1, <1>4 DEF Deferred, options, server, Active, Asking, Reading, InBody
\* What does not read changes no count.
<1>5. ASSUME Unread' = Unread, UNCHANGED <<i, include, stdout, served, finished>>,
             turn <= turn', turn' \in 0 .. N, pc' = pc \/ (pc \in Asking /\ pc' \in Reading)
      PROVE  Progress'
  BY <1>5, KeepsProgress DEF Written, Data
<1>6. CASE SendRequest \/ OpenStream \/ SendFails
  <2>1. CASE \E c \in {28, 55} : Return(c) \/ Failed(c)
    <3>1. pc' = "return"
      BY <2>1 DEF Return, Failed
    <3>2. UNCHANGED <<stdout, turn, include, served, finished>>
      BY <1>6, <3>1 DEF SendRequest, OpenStream, SendFails, options, server
    <3> QED  BY <1>2, <2>1, <3>2
  <2>2. CASE ~ \E c \in {28, 55} : Return(c) \/ Failed(c)
    <3>1. /\ pc \in Asking /\ pc' \in Reading /\ Asks
          /\ UNCHANGED <<i, include, stdout, served, finished, readers, wire>>
      BY <1>6, <2>2 DEF SendRequest, OpenStream, SendFails, Asking, Reading, options
    <3>2. turn <= turn' /\ turn' \in 0 .. N
      <4>1. srv = "idle" => turn = i - 1
        BY <1>0, <3>1 DEF Places, Active, Hanging
      <4>2. turn' = turn \/ (srv = "idle" /\ turn' = i)
        BY <3>1 DEF Asks
      <4> QED  BY <1>0, <4>1, <4>2
    <3>3. Unread' = Unread
      BY <3>1 DEF Unread, readers
    <3> QED  BY <1>5, <3>1, <3>2, <3>3
  <2> QED  BY <2>1, <2>2
<1>7. CASE DeadlinePasses \/ Fill \/ UNCHANGED vars
  <2>1. Unread' = Unread
    BY <1>0, <1>7, Fills DEF DeadlinePasses, vars, readers, Unread
  <2> QED
    BY <1>0, <1>5, <1>7, <2>1 DEF DeadlinePasses, Fill, vars, client, server, options
<1>8. CASE CannotEmit /\ UNCHANGED <<turn, include, served, finished>>
  BY <1>2, <1>8 DEF CannotEmit
<1>9. CASE ReadInterim
  BY <1>8, <1>9, InterimProgress DEF ReadInterim, options, server
<1>10. ASSUME NEW f \in Heads, ReadHead(f) PROVE Progress'
  <2>1. CASE ~CannotEmit
    <3>1. /\ pc \in Reading /\ (Take(f) \/ TakeBlock(f)) /\ f # "data" /\ pc' \in InBody
          /\ IF include THEN Emit("head") ELSE UNCHANGED stdout
          /\ UNCHANGED <<i, include, served, finished, turn>>
      BY <1>10, <2>1 DEF ReadHead, options, server, Reading, InBody, Heads
    <3> QED  BY <3>1, WritesProgress
  <2> QED  BY <1>8, <1>10, <2>1 DEF ReadHead, options, server
<1>11. CASE ReadData
  <2>1. CASE ~CannotEmit
    <3>1. /\ pc \in InBody /\ Take("data") /\ Emit("data") /\ pc' \in InBody
          /\ UNCHANGED <<i, include, served, finished, turn>>
      BY <1>11, <2>1 DEF ReadData, options, server, client, InBody
    <3> QED  BY <3>1, WritesProgress
  <2> QED  BY <1>8, <1>11, <2>1 DEF ReadData, options, server
<1>12. CASE ReadBad \/ ReadNoHead \/ ReadCutBody \/ TimesOut \/ LostConnection
  BY <1>2, <1>12 DEF ReadBad, ReadNoHead, ReadCutBody, TimesOut, LostConnection, options, server
<1>13. ASSUME NEW c \in StreamCodes, RoundTripFails(c) PROVE Progress'
  BY <1>2, <1>13 DEF RoundTripFails, options, server
\* What the server does outside of a body is not counted.
<1>14. ASSUME NEW t \in 0 .. N, NEW u \in Units, u # "data", Send(t, u), UNCHANGED <<served, finished>>,
              turn <= turn', turn' \in 0 .. N
       PROVE  Progress'
  <2>1. UNCHANGED <<pc, i, include, stdout>>
    BY <1>14 DEF Send, client, options
  <2>2. \A s : Data(s) \in Nat
    BY <1>0, Unreads
  <2>3. Data(t)' = Data(t) + 0 /\ \A s : s # t => Data(s)' = Data(s)
    BY <1>0, <1>14, Sends
  <2>4. \A s : Data(s)' = Data(s)
    BY <2>2, <2>3
  <2> QED  BY <1>14, <2>1, <2>4, KeepsProgress DEF Written
<1>15. CASE Server
  <2>1. ASSUME NEW u \in {"bad", "upgrade", "cut", "eof", "reset", "lost"} \cup {"interim"},
               ServeBad(u) \/ ServeBreak(u) \/ (u = "interim" /\ ServeInterim)
        PROVE  Progress'
    <3>1. u \in Units /\ u # "data"
      BY DEF Units, Final
    <3>2. Send(turn, u) /\ UNCHANGED <<served, finished, turn>>
      BY <2>1 DEF ServeBad, ServeBreak, ServeInterim
    <3> QED  BY <1>0, <1>14, <3>1, <3>2
  <2>2. ASSUME NEW f \in Heads, ServeHead(f) \/ ServeUnasked(f) PROVE Progress'
    <3>1. f \in Units /\ f # "data"
      BY DEF Units, Heads
    <3>2. PICK t \in {turn, turn + 1} : Send(t, f) /\ UNCHANGED <<served, finished>> /\ turn' = t
                                        /\ (t # turn => turn < N)
      BY <2>2 DEF ServeHead, ServeUnasked
    <3>3. t \in 0 .. N /\ turn <= t
      BY <1>0, <3>2
    <3> QED  BY <1>14, <3>1, <3>2, <3>3
  <2> QED  BY <1>15, <2>1, <2>2, ServesProgress DEF Server
<1> QED
  BY <1>3, <1>4, <1>6, <1>7, <1>9, <1>10, <1>11, <1>12, <1>13, <1>15, ConnectProgress, EndProgress
     DEF Next, Receive, ConnectTimesOut

\* How far the server is.
LEMMA StaysTurn == ASSUME IInv, [Next]_vars PROVE Turn'
<1>0. /\ Types /\ Turn /\ Connection /\ i \in 1 .. N /\ N \in Nat /\ turn \in 0 .. N
      /\ pc \in {"connect", "return", "done"} \cup Active
      /\ (pc \in Active => Places)
      /\ (pc \in Active \cup {"connect"} => exit # 0)
  BY WireFacts DEF Connection, Running, Active, Asking, Reading, InBody
<1>2. \A t : UNCHANGED <<stdout, include, finished, served>> => (Whole(t)' <=> Whole(t))
  <2>1. ASSUME UNCHANGED <<stdout, include, finished, served>>, NEW t PROVE Whole(t)' <=> Whole(t)
    BY <2>1, Same DEF Written
  <2> QED  BY <2>1
\* The client goes on to no other target, and the server does nothing.
<1>3. ASSUME UNCHANGED <<i, turn, srv>>, open' \subseteq open, conn' \in {0, conn}, 0 \notin open',
             pc' # "connect", exit' # 0
      PROVE  Turn'
  BY <1>0, <1>3 DEF Turn
<1>4. ASSUME UNCHANGED <<i, conn, turn, srv, exit, stdout, include, finished, served>>,
             open' \subseteq open, pc' = pc
      PROVE  Turn'
  <2>1. Whole(N)' <=> Whole(N)
    BY <1>2, <1>4
  <2> QED  BY <1>0, <1>4, <2>1 DEF Turn
<1>5. 0 \notin open
  BY <1>0 DEF Connection
<1>6. ASSUME NEW c \in ConnectCodes \cup StreamCodes \cup {8, 18, 23, 28, 52, 55, 56}
      PROVE c # 0
  BY DEF ConnectCodes, StreamCodes
<1>7. ASSUME NEW c \in StreamCodes \cup {8, 18, 23, 28, 52, 55, 56}, Return(c) \/ Failed(c),
             UNCHANGED <<turn, srv>>
      PROVE  Turn'
  <2>1. exit' # 0 /\ UNCHANGED <<i, conn, open>> /\ pc' = "return"
    BY <1>6, <1>7 DEF Return, Failed
  <2> QED  BY <1>3, <1>5, <1>7, <2>1
<1>8. ASSUME NEW c \in ConnectCodes \cup {28}, ConnectFails(c) PROVE Turn'
  <2>1. exit' # 0
    BY <1>6, <1>8 DEF ConnectFails
  <2> QED  BY <1>3, <1>5, <1>8, <2>1 DEF ConnectFails, server
<1>9. ASSUME NEW p \in Protocols, Connect(p) PROVE Turn'
  <2>1. /\ pc = "connect" /\ pc' # "connect" /\ UNCHANGED <<i, exit>>
        /\ turn' = i - 1 /\ srv' \notin {"asked"} \cup Heads
    BY <1>9 DEF Connect, Heads
  <2> QED  BY <1>0, <2>1 DEF Turn
<1>10. CASE SendRequest \/ OpenStream \/ SendFails
  <2>1. CASE \E c \in {28, 55} : Return(c) \/ Failed(c)
    <3>1. pc' = "return"
      BY <2>1 DEF Return, Failed
    <3>2. UNCHANGED <<turn, srv>>
      BY <1>10, <3>1 DEF SendRequest, OpenStream, SendFails, server
    <3> QED  BY <1>7, <2>1, <3>2
  <2>2. CASE ~ \E c \in {28, 55} : Return(c) \/ Failed(c)
    <3>1. pc \in Asking /\ pc' \in Reading /\ Asks /\ UNCHANGED <<i, conn, open, exit>>
      BY <1>10, <2>2 DEF SendRequest, OpenStream, SendFails, Asking, Reading
    <3>2. (turn' = turn /\ srv' = srv) \/ (turn' = i /\ srv' = "asked")
      BY <3>1 DEF Asks
    <3> QED  BY <1>0, <3>1, <3>2 DEF Turn, Active, Asking, Reading
  <2> QED  BY <2>1, <2>2
<1>11. CASE DeadlinePasses \/ Fill \/ UNCHANGED vars
  BY <1>4, <1>11 DEF DeadlinePasses, Fill, vars, client, server, options
<1>12. CASE CannotEmit /\ UNCHANGED <<turn, srv>>
  BY <1>7, <1>12 DEF CannotEmit
<1>13. CASE ReadInterim \/ ReadData
  <2>1. CASE ~CannotEmit
    <3>1. UNCHANGED client /\ UNCHANGED <<turn, srv>> /\ pc \in Active
      BY <1>13, <2>1 DEF ReadInterim, ReadData, server, Active, Reading, InBody
    <3> QED  BY <1>0, <1>3, <1>5, <3>1 DEF client, Active, Asking, Reading, InBody
  <2> QED  BY <1>12, <1>13, <2>1 DEF ReadInterim, ReadData, server
<1>14. ASSUME NEW f \in Heads, ReadHead(f) PROVE Turn'
  <2>1. CASE ~CannotEmit
    <3>1. UNCHANGED <<i, conn, open, exit, turn, srv>> /\ pc \in Active /\ pc' # "connect"
      BY <1>14, <2>1 DEF ReadHead, server, Active, Reading
    <3> QED  BY <1>0, <1>3, <1>5, <3>1
  <2> QED  BY <1>12, <1>14, <2>1 DEF ReadHead, server
<1>15. CASE ReadBad \/ ReadNoHead \/ ReadCutBody \/ TimesOut \/ LostConnection
  BY <1>7, <1>15 DEF ReadBad, ReadNoHead, ReadCutBody, TimesOut, LostConnection, server
<1>16. ASSUME NEW c \in StreamCodes, RoundTripFails(c) PROVE Turn'
  BY <1>7, <1>16 DEF RoundTripFails, server
<1>17. CASE Deferred
  <2>1. /\ pc = "return" /\ pc' = "done" /\ open' \subseteq open /\ (exit' = exit \/ exit' = Panic)
        /\ UNCHANGED <<i, conn, turn, srv, stdout, include, finished, served>>
    BY <1>17 DEF Deferred, server, options
  <2>2. Whole(N)' <=> Whole(N)
    BY <1>2, <2>1
  <2> QED  BY <1>0, <2>1, <2>2 DEF Turn, Panic
\* The last response is complete, or the connection goes where the next one does.
<1>18. CASE ReadEnd
  <2>1. /\ pc \in InBody /\ BodyEnds /\ exit # 0
        /\ UNCHANGED <<conn, stdout, include, turn, srv, served, finished>>
    BY <1>0, <1>18 DEF ReadEnd, Return, options, server, InBody, Active
  <2>2. /\ turn >= i /\ turn <= i + 1 /\ Whole(i) /\ (turn > i => framing = "keep")
        /\ (srv \in Heads \cup {"asked"} => turn > i)
    BY <1>0, <2>1, EndOfThisOne, WholeAtEnd DEF Places, Active
  <2>3. CASE Return(0)
    <3>1. i = N /\ UNCHANGED <<i, open>> /\ pc' # "connect"
      BY <1>18, <2>3 DEF ReadEnd, Return, Last
    <3>2. srv \in {"idle", "closing", "gone", "lost"} /\ turn = N
      BY <1>0, <2>2, <3>1, WireFacts DEF Servers
    <3>3. Whole(N)'
      BY <1>2, <2>1, <2>2, <3>1
    <3> QED  BY <1>0, <2>1, <2>2, <3>1, <3>2, <3>3 DEF Turn, Heads
  <2>4. CASE ~Return(0)
    <3>1. i' = i + 1 /\ exit' = exit /\ (pc' = "connect" => framing # "keep") /\ (pc' = "connect" \/ open' = open)
          /\ (pc' = "connect" => open' = {})
      BY <1>0, <1>18, <2>1, <2>4 DEF ReadEnd, Reusable, CloseConn, Connection
    <3>2. turn >= (i + 1) - 1 /\ (pc' = "connect" => turn < i + 1)
      BY <1>0, <2>2, <3>1
    <3>3. conn \in open /\ srv \in {"asked"} \cup Heads => turn >= i + 1
      BY <1>0, <2>2
    <3> QED  BY <2>1, <3>1, <3>2, <3>3 DEF Turn
  <2> QED  BY <2>3, <2>4
<1>19. CASE Server
  <2>1. UNCHANGED <<pc, i, conn, open, exit, stdout, include>> /\ conn \in open /\ pc # "connect"
    BY <1>0, <1>19, ServerSends DEF client, options, Connection
  <2>2. \/ turn' = turn /\ (srv' \in {"asked"} \cup Heads => srv \in {"asked"} \cup Heads)
        \/ turn' = turn + 1 /\ turn < N
    BY <1>19 DEF Server, ServeInterim, ServeHead, ServeBad, ServeData, ServeEnd, ServeUnasked, ServeBreak, Heads
  <2>3. exit = 0 => /\ turn' = turn /\ UNCHANGED <<served, finished>>
                    /\ srv' \in {"idle", "closing", "gone", "lost"}
    <3>1. ASSUME srv \notin {"asked"} \cup Heads, ~(turn < N)
          PROVE  /\ turn' = turn /\ UNCHANGED <<served, finished>>
                 /\ srv' \in {"idle", "closing", "gone", "lost"}
      <4>1. \E u \in {"eof", "cut", "reset", "lost"} : ServeBreak(u)
        BY <1>19, <3>1
           DEF Server, ServeInterim, ServeHead, ServeBad, ServeData, ServeEnd, ServeUnasked
      <4> QED  BY <4>1 DEF ServeBreak
    <3>2. exit = 0 => srv \notin {"asked"} \cup Heads /\ ~(turn < N)
      BY <1>0 DEF Turn, Heads
    <3> QED  BY <3>1, <3>2
  <2>4. exit = 0 => Whole(N)'
    BY <1>0, <1>2, <2>1, <2>3 DEF Turn
  <2> QED  BY <1>0, <2>1, <2>2, <2>3, <2>4 DEF Turn
<1> QED
  BY <1>8, <1>9, <1>10, <1>11, <1>13, <1>14, <1>15, <1>16, <1>17, <1>18, <1>19
     DEF Next, Receive, ConnectTimesOut

-----------------------------------------------------------------------------
(* The order of the output, and the exit codes *)

LEMMA StaysInOrder == ASSUME IInv, [Next]_vars PROVE InOrder'
<1>0. InOrder /\ Types /\ i \in 1 .. N /\ N \in Nat
  BY WireFacts DEF IInv
<1>1. \/ stdout' = stdout /\ (i' = i \/ i' = i + 1)
      \/ /\ i' = i /\ pc \in Reading \cup InBody
         /\ \E u \in Heads \cup {"interim", "data"}, part \in {"interim", "head", "data"} :
              (Take(u) \/ TakeBlock(u)) /\ Emit(part)
  <2>1. CASE Server \/ DeadlinePasses \/ Fill \/ UNCHANGED vars
    BY <2>1, ServerSends DEF DeadlinePasses, Fill, vars, client
  <2>2. ASSUME NEW p, Connect(p) PROVE stdout' = stdout /\ i' = i
    BY <2>2 DEF Connect
  <2>3. ASSUME NEW c, ConnectFails(c) \/ RoundTripFails(c) PROVE stdout' = stdout /\ i' = i
    BY <2>3 DEF ConnectFails, RoundTripFails, Failed, Return
  <2>4. CASE SendRequest \/ SendFails \/ OpenStream \/ TimesOut \/ LostConnection \/ Deferred
    BY <2>4 DEF SendRequest, SendFails, OpenStream, TimesOut, LostConnection, Deferred, Failed, Return
  <2>5. CASE ReadBad \/ ReadNoHead \/ ReadCutBody
    BY <2>5 DEF ReadBad, ReadNoHead, ReadCutBody, Failed, Return
  <2>6. CASE ReadEnd
    BY <2>6 DEF ReadEnd, Return
  <2>7. CASE ReadInterim \/ ReadData
    BY <2>7 DEF ReadInterim, ReadData, CannotEmit, Return, client, Reading, InBody
  <2>8. ASSUME NEW f \in Heads, ReadHead(f)
        PROVE  \/ i' = i /\ stdout' = stdout
               \/ i' = i /\ pc \in Reading /\ (Take(f) \/ TakeBlock(f)) /\ Emit("head")
    BY <2>8 DEF ReadHead, CannotEmit, Return, Reading
  <2> QED  BY <2>1, <2>2, <2>3, <2>4, <2>5, <2>6, <2>7, <2>8 DEF Next, Receive, ConnectTimesOut
<1>2. \A k \in DOMAIN stdout : stdout[k][1] \in 1 .. N
  <2>1. stdout \in Seq(Part)
    BY <1>0 DEF Types
  <2>2. \A k \in DOMAIN stdout : stdout[k] \in Part
    BY <2>1, ElementOfSeq, LenProperties
  <2> QED  BY <2>2 DEF Part
<1>3. CASE stdout' = stdout /\ (i' = i \/ i' = i + 1)
  <2>1. \A k \in DOMAIN stdout : stdout[k][1] <= i'
    <3>1. \A n \in 1 .. N : n <= i => n <= i + 1
      BY <1>0
    <3> QED  BY <1>0, <1>2, <1>3, <3>1 DEF InOrder
  <2> QED  BY <1>0, <1>3, <2>1 DEF InOrder
\* A part that is written is of the target the client is at.
<1>4. ASSUME i' = i, pc \in Reading \cup InBody, NEW u \in Heads \cup {"interim", "data"},
             Take(u) \/ TakeBlock(u), NEW part \in {"interim", "head", "data"}, Emit(part)
      PROVE  InOrder'
  <2> DEFINE x == <<Head(reader).of, part>>
             n == Len(stdout)
  <2>1. Head(reader).of = i
    BY <1>4, OfThisOne DEF Units, Final, Heads
  <2>2. stdout' = Append(stdout, x) /\ stdout \in Seq(Part) /\ x \in Part /\ x[1] = i
    BY <1>0, <1>4, <2>1 DEF Emit, Types, Part
  <2> HIDE DEF x
  <2>3. /\ n \in Nat /\ DOMAIN stdout = 1 .. n /\ DOMAIN stdout' = 1 .. n + 1
        /\ \A k \in 1 .. n : stdout'[k] = stdout[k]
        /\ stdout'[n + 1] = x
    BY <2>2, AppendProperties, LenProperties
  <2> HIDE DEF n
  <2>4. \A k \in 1 .. n : stdout[k][1] <= i
    BY <1>0, <2>3 DEF InOrder
  <2>5. \A k \in 1 .. n + 1 : k \in 1 .. n \/ k = n + 1
    BY <2>3
  <2>6. \A k \in 1 .. n + 1 : stdout'[k][1] <= i
    BY <1>0, <2>2, <2>3, <2>4, <2>5
  <2>7. ASSUME NEW k \in 1 .. n + 1, NEW l \in 1 .. n + 1, k < l PROVE stdout'[k][1] <= stdout'[l][1]
    <3>1. k \in 1 .. n
      BY <2>3, <2>7
    <3>2. CASE l \in 1 .. n
      BY <1>0, <2>3, <2>7, <3>1, <3>2 DEF InOrder
    <3>3. CASE l = n + 1
      BY <2>2, <2>3, <2>4, <3>1, <3>3
    <3> QED  BY <2>5, <3>2, <3>3
  <2> QED  BY <1>4, <2>3, <2>6, <2>7 DEF InOrder
<1> QED  BY <1>1, <1>3, <1>4

LEMMA StaysCodes == ASSUME IInv, [Next]_vars PROVE CodeTellsWhy'
<1>0. /\ CodeTellsWhy /\ Types /\ Progress /\ Connection /\ i \in 1 .. N /\ N \in Nat /\ i \in i .. N
      /\ (pc \in Active => Responses)
      /\ pc \in Active \cup {"connect"} => exit # 18 /\ exit # 52 /\ exit # 28
  BY WireFacts DEF IInv, Connection, Running, Active, Asking, Reading, InBody
<1>1. ASSUME exit' \notin {18, 52, 28} PROVE CodeTellsWhy'
  BY <1>1 DEF CodeTellsWhy
<1>2. ASSUME NEW c, c \notin {18, 52, 28}, Return(c) \/ Failed(c), due' = due PROVE CodeTellsWhy'
  BY <1>2 DEF CodeTellsWhy, Return, Failed
\* The kernel or QUIC gave up.
<1>3. ASSUME srv' = "lost", Return(28) PROVE CodeTellsWhy'
  BY <1>3 DEF CodeTellsWhy, Return
<1>4. CASE ReadNoHead
  <2>1. CASE Take("eof") /\ Failed(52)
    <3>1. UNCHANGED <<i, due, finished, srv, served>> /\ pc = "head" /\ (due \/ exit' = 52) /\ (due => exit' = 28)
      BY <1>4, <2>1 DEF ReadNoHead, Failed, Return, server
    <3>2. srv = "gone" /\ Here(i) \subseteq {"eof"} /\ Data(i) = 0
      BY <2>1, <3>1, TheEnd, WireFacts DEF Reading, Broken, Final
    <3>3. i \notin finished
      BY <1>0, <3>1, <3>2 DEF Responses, Complete, HeadSent, Active, Reading, InBody
    <3>4. served[i] = 0
      BY <1>0, <3>1, <3>2 DEF Progress, Unwritten, Active, Reading
    <3> QED  BY <3>1, <3>2, <3>3, <3>4 DEF CodeTellsWhy
  <2> QED  BY <1>2, <1>4, <2>1 DEF ReadNoHead
<1>5. CASE ReadCutBody
  <2>1. ASSUME NEW u \in {"eof", "cut"}, Take(u), Failed(18), u = "eof" => framing # "until-eof"
        PROVE  CodeTellsWhy'
    <3>1. UNCHANGED <<i, due, finished, srv>> /\ pc \in InBody /\ exit' = IF due THEN 28 ELSE 18
      BY <1>5, <2>1 DEF ReadCutBody, Failed, Return, server, InBody
    <3>2. srv = "gone" /\ Here(i) \subseteq {u}
      BY <2>1, <3>1, TheEnd DEF Broken, Final
    <3>3. i \notin finished
      BY <1>0, <2>1, <3>1, <3>2 DEF Responses, Complete, HeadSent, Active
    <3> QED  BY <3>1, <3>2, <3>3 DEF CodeTellsWhy
  <2> QED  BY <1>2, <1>5, <2>1 DEF ReadCutBody
<1>6. CASE SendFails \/ ReadBad
  BY <1>2, <1>3, <1>6 DEF SendFails, ReadBad, server
<1>7. ASSUME NEW c \in StreamCodes, RoundTripFails(c) PROVE CodeTellsWhy'
  <2>1. c \notin {18, 52, 28}
    BY DEF StreamCodes
  <2> QED  BY <1>2, <1>7, <2>1 DEF RoundTripFails
<1>8. CASE TimesOut
  BY <1>8 DEF TimesOut, Return, CodeTellsWhy
<1>9. CASE LostConnection
  <2>1. pc \in Reading \cup InBody /\ Take("lost") /\ Return(28) /\ srv' = srv
    BY <1>9 DEF LostConnection, Waits, server, Reading, InBody
  <2>2. srv = "lost"
    BY <2>1, TheEnd DEF Final
  <2> QED  BY <1>3, <2>1, <2>2
<1>10. ASSUME NEW c \in ConnectCodes \cup {28}, ConnectFails(c) PROVE CodeTellsWhy'
  <2>1. c \notin {18, 52}
    BY DEF ConnectCodes
  <2> QED  BY <1>10, <2>1 DEF ConnectFails, CodeTellsWhy
<1>11. ASSUME exit' = exit, pc \in Active \cup {"connect"} PROVE CodeTellsWhy'
  BY <1>0, <1>1, <1>11
<1>12. ASSUME NEW p, Connect(p) PROVE CodeTellsWhy'
  BY <1>11, <1>12 DEF Connect
<1>13. CASE SendRequest
  BY <1>11, <1>13 DEF SendRequest, Active, Asking
<1>14. CASE OpenStream
  BY <1>2, <1>3, <1>11, <1>14 DEF OpenStream, Active, Asking
<1>15. ASSUME CannotEmit, due' = due PROVE CodeTellsWhy'
  BY <1>2, <1>15 DEF CannotEmit
<1>16. CASE ReadInterim \/ ReadData \/ Fill
  BY <1>11, <1>15, <1>16 DEF ReadInterim, ReadData, Fill, Waits, Active, Reading, InBody, client
<1>17. ASSUME NEW f, ReadHead(f) PROVE CodeTellsWhy'
  BY <1>11, <1>15, <1>17 DEF ReadHead, Active, Reading, InBody
<1>18. CASE ReadEnd
  BY <1>2, <1>11, <1>18 DEF ReadEnd, Active, InBody
<1>19. CASE Deferred \/ DeadlinePasses \/ UNCHANGED vars
  <2>1. /\ exit' = exit \/ exit' = Panic
        /\ UNCHANGED <<i, conn, finished, srv, served>> /\ (due' = due \/ due')
    BY <1>19 DEF Deferred, DeadlinePasses, vars, client, server
  <2> QED  BY <1>0, <2>1 DEF CodeTellsWhy, Panic
<1>20. CASE Server
  <2>1. UNCHANGED <<exit, i, conn, due>>
    BY <1>20, ServerSends DEF client
  <2>2. ~Broken
    BY <1>20
       DEF Server, ServeInterim, ServeHead, ServeBad, ServeData, ServeEnd, ServeUnasked, ServeBreak, Broken, Heads
  <2> QED  BY <1>0, <2>1, <2>2 DEF CodeTellsWhy, Broken
<1> QED
  BY <1>4, <1>5, <1>6, <1>7, <1>8, <1>9, <1>10, <1>12, <1>13, <1>14, <1>16, <1>17, <1>18, <1>19, <1>20
     DEF Next, Receive, ConnectTimesOut

-----------------------------------------------------------------------------
(* The invariant, and what follows from it *)

LEMMA Initially == Init => IInv
<1> SUFFICES ASSUME Init PROVE IInv
  OBVIOUS
<1>1. /\ pc = "connect" /\ i = 1 /\ conn = 0 /\ opened = 0 /\ open = {} /\ exit = Running
      /\ stdout = << >> /\ reader = << >> /\ under = << >> /\ wire = << >> /\ finished = {}
      /\ served = [t \in 1 .. N |-> 0] /\ turn = 0
  BY DEF Init
<1>2. 1 \in 1 .. N /\ 0 \in 0 .. N /\ 0 \in 0 .. MaxBody /\ 0 \in 0 .. MaxInterim
  BY Bounds
<1>3. Types
  <2>1. stdout \in Seq(Part) /\ reader \in Seq(Unit) /\ under \in Seq(Unit) /\ wire \in Seq(Unit)
    BY <1>1, EmptySeq
  <2>2. served \in [1 .. N -> 0 .. MaxBody]
    BY <1>1, <1>2
  <2>3. exit \in Codes
    BY <1>1 DEF Codes
  <2>4. i \in 1 .. N /\ turn \in 0 .. N /\ interim \in 0 .. MaxInterim /\ finished \subseteq 1 .. N
    BY <1>1, <1>2 DEF Init
  <2>5. /\ http3 \in HTTP3 /\ include \in Include /\ pc \in {"connect", "return", "done"} \cup Active
        /\ proto \in Protocols \cup {""} /\ framing \in Heads /\ due \in BOOLEAN
        /\ srv \in Servers
    BY DEF Init, Heads, Servers
  <2> QED  BY <2>1, <2>2, <2>3, <2>4, <2>5 DEF Types
<1>4. Connection
  BY <1>1, <1>2 DEF Connection, Active, Asking, Reading, InBody
<1>5. Wire
  BY <1>1 DEF Wire, Active, Asking, Reading, InBody
<1>6. Progress
  <2>1. \A t, q : Written(t, q) = 0
    BY <1>1, EmptySeqs DEF Written
  <2>2. \A t \in 1 .. N : Unserved(t) /\ Unwritten(t) /\ served[t] = 0
    BY <1>1, <2>1 DEF Unserved, Unwritten
  <2>3. \A t \in 1 .. i - 1 : Whole(t)
    BY <1>1, Bounds
  <2>4. pc \notin Active
    BY <1>1 DEF Active, Asking, Reading, InBody
  <2> QED  BY <1>1, <2>1, <2>2, <2>3, <2>4 DEF Progress, Active
<1>7. Turn
  BY <1>1 DEF Turn, Running
<1>8. InOrder
  BY <1>1 DEF InOrder
<1>9. CodeTellsWhy
  BY <1>1 DEF CodeTellsWhy, Running
<1> QED  BY <1>3, <1>4, <1>5, <1>6, <1>7, <1>8, <1>9 DEF IInv

LEMMA Inductive == ASSUME IInv, [Next]_vars PROVE IInv'
PROOF BY Typed, StaysConnection, StaysWire, StaysProgress, StaysTurn, StaysInOrder, StaysCodes DEF IInv

LEMMA Safe == Spec => []IInv
PROOF BY Initially, Inductive, PTL DEF Spec

\* Every variable of the run keeps to its values.
THEOREM Typing == Spec => []TypeOK
<1>1. ASSUME IInv PROVE TypeOK
  <2>1. Types /\ Connection
    BY <1>1 DEF IInv
  <2>2. exit \in {Running, Panic, 0, 1, 2, 6, 7, 8, 18, 23, 28, 35, 52, 55, 56, 60, 95, 96}
    BY <2>1 DEF Types, Codes
  <2>3. opened \in 0 .. N /\ conn \in 0 .. opened /\ open \subseteq 1 .. opened
    BY <2>1, Bounds DEF Connection
  <2>4. pc \in {"connect", "send", "head", "body", "stream", "stream-head",
                "stream-body", "return", "done"}
    BY <2>1 DEF Types, Active, Asking, Reading, InBody
  <2>5. {reader, under, wire} \subseteq Seq([of : 0 .. N, unit : Units])
    BY <2>1 DEF Types, Unit
  <2>6. stdout \in Seq((1 .. N) \X {"interim", "head", "data"})
    BY <2>1 DEF Types, Part
  <2>7. srv \in Heads \cup {"idle", "asked", "closing", "gone", "lost"}
    BY <2>1 DEF Types, Servers
  <2>8. proto \in Protocols \cup {""}
    BY <2>1, Zenon DEF Types
  <2>9. /\ http3 \in HTTP3 /\ include \in Include /\ i \in 1 .. N /\ framing \in Heads
        /\ due \in BOOLEAN /\ turn \in 0 .. N /\ interim \in 0 .. MaxInterim
        /\ served \in [1 .. N -> 0 .. MaxBody] /\ finished \subseteq 1 .. N
    BY <2>1, Zenon DEF Types
  <2> QED  BY <2>2, <2>3, <2>4, <2>5, <2>6, <2>7, <2>8, <2>9, Zenon DEF TypeOK
<1> QED  BY <1>1, Safe, PTL

\* However many targets there are, whatever the server sends, asked or not, and
\* whatever part of it each Read returns, the output is the responses in the
\* order of the targets: what a reader, or one below it, has buffered goes
\* neither lost nor to another target when the next reader takes over.
THEOREM InTheOrderOfTheTargets == Spec => []OutputInOrder
<1>1. ASSUME IInv PROVE OutputInOrder
  <2>1. Types /\ Progress /\ InOrder
    BY <1>1 DEF IInv
  <2>2. i \in 1 .. N /\ N \in Nat /\ \A t, q : Cardinality(Parts(t, q)) = Written(t, q)
    BY <1>1, WireFacts DEF Parts, Written, Count
  <2>3. ASSUME NEW t \in 1 .. N PROVE Written(t, "data") <= served[t]
    <3>1. served[t] \in Nat
      BY <2>1, Numbers
    <3>2. t \in 1 .. i - 1 \/ t \in i .. N
      BY <2>2
    <3> QED  BY <2>1, <3>1, <3>2 DEF Progress, Whole
  <2>4. \A t \in 1 .. i - 1 : Whole(t)
    BY <2>1 DEF Progress
  <2> QED  BY <2>1, <2>2, <2>3, <2>4 DEF OutputInOrder, InOrder, Whole
<1> QED  BY <1>1, Safe, PTL

\* Exit code 0 stands for all responses, whole and written.
THEOREM ZeroStandsForAll == Spec => []ZeroMeansAll
<1>1. ASSUME IInv PROVE ZeroMeansAll
  <2>1. Types /\ Progress /\ Turn
    BY <1>1 DEF IInv
  <2>2. \A t, q : Cardinality(Parts(t, q)) = Written(t, q)
    BY DEF Parts, Written, Count
  <2>3. ASSUME exit = 0, NEW t \in 1 .. N PROVE Whole(t)
    <3>1. i = N /\ Whole(N) /\ \A n \in 1 .. i - 1 : Whole(n)
      BY <2>1, <2>3 DEF Progress, Turn
    <3>2. t = N \/ t \in 1 .. N - 1
      BY <2>3, Bounds
    <3> QED  BY <3>1, <3>2
  <2> QED  BY <2>2, <2>3 DEF ZeroMeansAll, Whole
<1> QED  BY <1>1, Safe, PTL

\* The exit codes 18, 28 and 52 say what happened: 28 stands for the deadline, a
\* dial, or a connection that timed out by itself, and for nothing else.
THEOREM TheCodeTells == Spec => []CodeTellsWhy
PROOF BY Safe, PTL DEF IInv

\* There is one connection at a time, and none when execute has returned.
THEOREM OneConnection == Spec => []ConnectionsClosed
<1>1. ASSUME IInv PROVE ConnectionsClosed
  <2>1. (open = {} \/ open = {conn}) /\ (pc = "done" => open = {})
    BY <1>1 DEF IInv, Connection
  <2>2. Cardinality(open) <= 1
    <3>1. CASE open = {}
      BY <3>1, FS_EmptySet
    <3>2. CASE open = {conn}
      BY <3>2, FS_Singleton
    <3> QED  BY <2>1, <3>1, <3>2
  <2> QED  BY <2>1, <2>2 DEF ConnectionsClosed
<1> QED  BY <1>1, Safe, PTL

\* No request is written behind a response that closes the connection, but for
\* one that this very response answers.
THEOREM NotBehindTheLast == Spec => []NoRequestAfterClose
<1>1. ASSUME IInv PROVE NoRequestAfterClose
  <2> SUFFICES ASSUME pc = "send", srv = "closing" PROVE turn = i
    BY DEF NoRequestAfterClose
  <2>1. Places /\ i \in 1 .. N /\ turn \in 0 .. N
    BY <1>1, WireFacts DEF Active, Asking
  <2>2. turn # i - 1
    BY <2>1 DEF Places, Asking
  <2>3. ~(turn > i)
    BY <2>1 DEF Places, Asking
  <2> QED  BY <2>1, <2>2, <2>3 DEF Places
<1> QED  BY <1>1, Safe, PTL
=============================================================================
