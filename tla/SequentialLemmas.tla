-------------------------- MODULE SequentialLemmas --------------------------
(***************************************************************************)
(* Facts about numbers and sequences that the proofs keep needing, above   *)
(* all about FlattenSeq, by which the modules of the sequential parts map, *)
(* filter and join lists; and about what Glob builds from it: the product  *)
(* of the pieces of a URL, and the parts of a text.                        *)
(***************************************************************************)
EXTENDS Sequential, SequencesExt, SequenceTheorems, FiniteSetTheorems,
        WellFoundedInduction, TLAPS

-----------------------------------------------------------------------------
(* Numbers *)

\* Induction without an operator: a counterexample would have a least one.
LEMMA LeastElement ==
  ASSUME NEW T, T \subseteq Nat, T # {}
  PROVE  \E n1 \in T : \A k1 \in T : n1 <= k1
<1> DEFINE R == OpToRel(<, Nat)
<1>1. PICK n1 \in T : \A k1 \in T : ~ (<<k1, n1>> \in R)
  BY NatLessThanWellFounded, WFMin, Zenon
<1>2. \A k1 \in T : <<k1, n1>> \in R <=> k1 < n1
  BY DEF OpToRel
<1> HIDE DEF R
<1>3. \A k1 \in T : k1 \in Nat /\ n1 \in Nat /\ ~ (k1 < n1)
  BY <1>1, <1>2
<1> QED  BY <1>3

\* What holds of 0, and of one more than where it holds, holds up to any bound.
LEMMA Upwards ==
  ASSUME NEW S, NEW N \in Nat, 0 \in S, \A n1 \in 0 .. N - 1 : n1 \in S => n1 + 1 \in S
  PROVE  \A n1 \in 0 .. N : n1 \in S
<1> DEFINE T == {n1 \in 0 .. N : n1 \notin S}
<1> SUFFICES ASSUME T # {} PROVE FALSE
  OBVIOUS
<1>1. T \subseteq Nat
  OBVIOUS
<1>2. PICK n1 \in T : \A k1 \in T : n1 <= k1
  BY <1>1, LeastElement
<1>3. n1 \in 0 .. N /\ n1 # 0 /\ n1 \notin S
  BY <1>2
<1>4. n1 - 1 \in 0 .. N - 1 /\ n1 - 1 \notin T
  BY <1>2, <1>3
<1>5. (n1 - 1) + 1 \in S
  BY <1>4
<1> QED  BY <1>3, <1>5

-----------------------------------------------------------------------------
(* FlattenSeq: its recursion has one solution *)

Flattening(ss, n1, f) ==
  [i1 \in 1 .. n1 |-> IF i1 = 1 THEN ss[i1] ELSE f[i1 - 1] \o ss[i1]]

LEMMA FlattenIsRecursive ==
  ASSUME NEW ss, Len(ss) # 0
  PROVE  FlattenSeq(ss) = (CHOOSE f : f = Flattening(ss, Len(ss), f))[Len(ss)]
BY Zenon DEF FlattenSeq, Flattening

LEMMA FlatteningExists ==
  ASSUME NEW ss, NEW N \in Nat
  PROVE  \E f : f = Flattening(ss, N, f)
<1> DEFINE S == {n1 \in 0 .. N : \E f : f = Flattening(ss, n1, f)}
<1>1. 0 \in S
  <2>1. [i1 \in 1 .. 0 |-> 0] = Flattening(ss, 0, [i1 \in 1 .. 0 |-> 0])
    BY DEF Flattening
  <2> QED  BY <2>1
<1>2. ASSUME NEW n1 \in 0 .. N - 1, n1 \in S PROVE n1 + 1 \in S
  <2>1. PICK f : f = Flattening(ss, n1, f)
    BY <1>2
  <2> DEFINE g == [i1 \in 1 .. n1 + 1 |->
                     IF i1 <= n1 THEN f[i1] ELSE IF i1 = 1 THEN ss[i1] ELSE f[i1 - 1] \o ss[i1]]
  <2>2. \A i1 \in 1 .. n1 : f[i1] = IF i1 = 1 THEN ss[i1] ELSE f[i1 - 1] \o ss[i1]
    BY <2>1 DEF Flattening
  <2>3. ASSUME NEW i1 \in 1 .. n1 + 1
        PROVE  g[i1] = IF i1 = 1 THEN ss[i1] ELSE g[i1 - 1] \o ss[i1]
    <3>1. i1 # 1 => i1 - 1 \in 1 .. n1 /\ i1 - 1 <= n1
      OBVIOUS
    <3>2. i1 # 1 => g[i1 - 1] = f[i1 - 1]
      BY <3>1
    <3> QED  BY <2>2, <3>2
  <2>4. g = [i1 \in 1 .. n1 + 1 |-> g[i1]]
    OBVIOUS
  <2>5. g = Flattening(ss, n1 + 1, g)
    <3> HIDE DEF g
    <3> QED  BY <2>3, <2>4 DEF Flattening
  <2> QED  BY <2>5
<1> HIDE DEF S
<1>3. N \in S
  BY <1>1, <1>2, Upwards
<1> QED  BY <1>3 DEF S

LEMMA FlatteningUnique ==
  ASSUME NEW ss, NEW tt, NEW N \in Nat, NEW M \in Nat, N <= M,
         \A i1 \in 1 .. N : ss[i1] = tt[i1],
         NEW f, f = Flattening(ss, N, f), NEW g, g = Flattening(tt, M, g)
  PROVE  \A n1 \in 1 .. N : f[n1] = g[n1]
<1> DEFINE S == {n1 \in 0 .. N : n1 = 0 \/ f[n1] = g[n1]}
<1>1. 0 \in S
  OBVIOUS
<1>2. ASSUME NEW n1 \in 0 .. N - 1, n1 \in S PROVE n1 + 1 \in S
  <2>1. n1 + 1 \in 1 .. N /\ n1 + 1 \in 1 .. M /\ (n1 + 1) - 1 = n1
    OBVIOUS
  <2>2. f[n1 + 1] = IF n1 + 1 = 1 THEN ss[n1 + 1] ELSE f[n1] \o ss[n1 + 1]
    BY <2>1, ZenonT(60) DEF Flattening
  <2>3. g[n1 + 1] = IF n1 + 1 = 1 THEN tt[n1 + 1] ELSE g[n1] \o tt[n1 + 1]
    BY <2>1, ZenonT(60) DEF Flattening
  <2> QED  BY <1>2, <2>1, <2>2, <2>3
<1> HIDE DEF S
<1>3. \A n1 \in 0 .. N : n1 \in S
  BY <1>1, <1>2, Upwards
<1> QED  BY <1>3 DEF S

LEMMA FlattenEmpty == FlattenSeq(<< >>) = << >>
BY DEF FlattenSeq

LEMMA FlattenOne ==
  ASSUME NEW s
  PROVE  FlattenSeq(<< s >>) = s
<1> DEFINE ss == << s >>
           F == CHOOSE f : f = Flattening(ss, Len(ss), f)
<1>1. Len(ss) = 1 /\ ss[1] = s
  OBVIOUS
<1> HIDE DEF ss
<1>2. F = Flattening(ss, Len(ss), F)
  BY <1>1, FlatteningExists
<1>3. FlattenSeq(ss) = F[1]
  BY <1>1, FlattenIsRecursive
<1> HIDE DEF F
<1>4. F[1] = ss[1]
  BY <1>1, <1>2 DEF Flattening
<1> QED  BY <1>1, <1>3, <1>4 DEF ss

\* The step of the recursion: what stands before the last is flattened alike.
LEMMA FlattenStep ==
  ASSUME NEW ss, NEW tt, Len(ss) \in Nat \ {0}, Len(tt) = Len(ss) + 1,
         \A i1 \in 1 .. Len(ss) : ss[i1] = tt[i1]
  PROVE  FlattenSeq(tt) = FlattenSeq(ss) \o tt[Len(tt)]
<1> DEFINE N == Len(ss)
           M == Len(tt)
           F == CHOOSE f : f = Flattening(ss, N, f)
           G == CHOOSE f : f = Flattening(tt, M, f)
<1>1. FlattenSeq(ss) = F[N] /\ FlattenSeq(tt) = G[M]
  BY FlattenIsRecursive
<1>2. N \in Nat \ {0} /\ M \in Nat \ {0} /\ M = N + 1
  OBVIOUS
<1> HIDE DEF N, M
<1>3. F = Flattening(ss, N, F) /\ G = Flattening(tt, M, G)
  BY <1>2, FlatteningExists
<1> HIDE DEF F, G
<1>4. \A n1 \in 1 .. N : F[n1] = G[n1]
  <2>1. \A i1 \in 1 .. N : ss[i1] = tt[i1]
    BY DEF N
  <2> QED  BY <1>2, <1>3, <2>1, FlatteningUnique
<1>5. G[M] = G[N] \o tt[M]
  <2>1. M \in 1 .. M /\ M # 1 /\ M - 1 = N
    BY <1>2
  <2> QED  BY <1>3, <2>1 DEF Flattening
<1>6. F[N] = G[N]
  BY <1>2, <1>4
<1>7. M = Len(tt)
  BY DEF M
<1> QED  BY <1>1, <1>5, <1>6, <1>7, Zenon

-----------------------------------------------------------------------------
(* What FlattenSeq returns *)

LEMMA JoinIs ==
  ASSUME NEW S, NEW s \in Seq(S), NEW t \in Seq(S), NEW u \in Seq(S), Len(u) = Len(s) + Len(t),
         \A i1 \in 1 .. Len(s) : u[i1] = s[i1],
         \A i1 \in 1 .. Len(t) : u[Len(s) + i1] = t[i1]
  PROVE  u = s \o t
<1>1. /\ s \o t \in Seq(S) /\ Len(s \o t) = Len(s) + Len(t)
      /\ \A i1 \in 1 .. Len(s) + Len(t) : (s \o t)[i1] = IF i1 <= Len(s) THEN s[i1] ELSE t[i1 - Len(s)]
  BY ConcatProperties
<1>2. ASSUME NEW i1 \in 1 .. Len(u) PROVE u[i1] = (s \o t)[i1]
  <2>1. CASE i1 <= Len(s)
    BY <1>1, <2>1
  <2>2. CASE i1 > Len(s)
    <3>1. i1 - Len(s) \in 1 .. Len(t) /\ Len(s) + (i1 - Len(s)) = i1
      BY <2>2
    <3>2. u[i1] = t[i1 - Len(s)]
      BY <3>1
    <3> QED  BY <1>1, <2>2, <3>2
  <2> QED  BY <2>1, <2>2
<1> QED  BY <1>1, <1>2, SeqEqual

LEMMA JoinAssociative ==
  ASSUME NEW S, NEW s \in Seq(S), NEW t \in Seq(S), NEW u \in Seq(S)
  PROVE  (s \o t) \o u = s \o (t \o u)
OBVIOUS

LEMMA JoinAppend ==
  ASSUME NEW S, NEW s \in Seq(S), NEW t \in Seq(S), NEW e \in S
  PROVE  s \o Append(t, e) = Append(s \o t, e)
OBVIOUS

LEMMA AppendJoin ==
  ASSUME NEW S, NEW s \in Seq(S), NEW t \in Seq(S), NEW e \in S
  PROVE  Append(s \o t, e) = s \o (t \o << e >>)
<1>1. Append(t, e) = t \o << e >>
  BY AppendIsConcat
<1>2. s \o Append(t, e) = Append(s \o t, e)
  OBVIOUS
<1> QED  BY <1>1, <1>2

LEMMA FlattenAppend ==
  ASSUME NEW S, NEW ss \in Seq(Seq(S)), NEW s \in Seq(S)
  PROVE  FlattenSeq(Append(ss, s)) = FlattenSeq(ss) \o s
<1>1. CASE ss = << >>
  <2>1. Append(ss, s) = << s >>
    BY <1>1
  <2>2. FlattenSeq(ss) \o s = s
    BY <1>1, FlattenEmpty, ConcatEmptySeq
  <2> QED  BY <2>1, <2>2, FlattenOne
<1>2. CASE ss # << >>
  <2> DEFINE tt == Append(ss, s)
  <2>1. /\ Len(ss) \in Nat \ {0} /\ Len(tt) = Len(ss) + 1
        /\ \A i1 \in 1 .. Len(ss) : ss[i1] = tt[i1]
        /\ tt[Len(tt)] = s
    BY <1>2
  <2> HIDE DEF tt
  <2>2. FlattenSeq(tt) = FlattenSeq(ss) \o tt[Len(tt)]
    BY <2>1, FlattenStep
  <2> QED  BY <2>1, <2>2 DEF tt
<1> QED  BY <1>1, <1>2

LEMMA UptoProperties ==
  ASSUME NEW S, NEW ss \in Seq(S), NEW n1 \in 0 .. Len(ss)
  PROVE  /\ SubSeq(ss, 1, n1) \in Seq(S)
         /\ Len(SubSeq(ss, 1, n1)) = n1
         /\ \A i1 \in 1 .. n1 : SubSeq(ss, 1, n1)[i1] = ss[i1]
         /\ SubSeq(ss, 1, 0) = << >>
         /\ SubSeq(ss, 1, Len(ss)) = ss
         /\ n1 < Len(ss) => SubSeq(ss, 1, n1 + 1) = Append(SubSeq(ss, 1, n1), ss[n1 + 1])
<1>1. /\ SubSeq(ss, 1, n1) \in Seq(S) /\ Len(SubSeq(ss, 1, n1)) = n1
      /\ \A i1 \in 1 .. n1 : SubSeq(ss, 1, n1)[i1] = ss[i1]
  <2>1. \A i1 \in 1 .. n1 : ss[i1] \in S
    OBVIOUS
  <2> QED  BY <2>1, SubSeqProperties
<1>2. SubSeq(ss, 1, 0) = << >> /\ SubSeq(ss, 1, Len(ss)) = ss
  BY SubSeqEmpty, SubSeqFull
<1>3. ASSUME n1 < Len(ss)
      PROVE  SubSeq(ss, 1, n1 + 1) = Append(SubSeq(ss, 1, n1), ss[n1 + 1])
  <2>1. n1 + 1 \in 1 .. Len(ss) /\ (n1 + 1) - 1 = n1 /\ 1 \in 1 .. Len(ss) /\ n1 + 1 \in 1 .. Len(ss)
    BY <1>3
  <2>2. SubSeq(ss, 1, n1 + 1) = SubSeq(ss, 1, n1) \o << ss[n1 + 1] >>
    BY <2>1, SubSeqRecursiveSecond
  <2>3. ss[n1 + 1] \in S
    BY <2>1
  <2> QED  BY <1>1, <2>2, <2>3, AppendIsConcat
<1> QED  BY <1>1, <1>2, <1>3

LEMMA FlattenUpto ==
  ASSUME NEW S, NEW ss \in Seq(Seq(S)), NEW n1 \in 0 .. Len(ss) - 1
  PROVE  FlattenSeq(SubSeq(ss, 1, n1 + 1)) = FlattenSeq(SubSeq(ss, 1, n1)) \o ss[n1 + 1]
<1>1. n1 \in 0 .. Len(ss) /\ n1 < Len(ss) /\ ss[n1 + 1] \in Seq(S)
  OBVIOUS
<1>2. SubSeq(ss, 1, n1) \in Seq(Seq(S)) /\ SubSeq(ss, 1, n1 + 1) = Append(SubSeq(ss, 1, n1), ss[n1 + 1])
  BY <1>1, UptoProperties
<1> QED  BY <1>1, <1>2, FlattenAppend

LEMMA FlattenType ==
  ASSUME NEW S, NEW ss \in Seq(Seq(S))
  PROVE  FlattenSeq(ss) \in Seq(S)
<1> DEFINE T == {n1 \in 0 .. Len(ss) : FlattenSeq(SubSeq(ss, 1, n1)) \in Seq(S)}
<1>1. 0 \in T
  <2>1. SubSeq(ss, 1, 0) = << >> /\ 0 \in 0 .. Len(ss)
    BY UptoProperties
  <2>2. FlattenSeq(SubSeq(ss, 1, 0)) = << >>
    BY <2>1, FlattenEmpty
  <2>3. << >> \in Seq(S)
    OBVIOUS
  <2> QED  BY <2>1, <2>2, <2>3
<1>2. ASSUME NEW n1 \in 0 .. Len(ss) - 1, n1 \in T PROVE n1 + 1 \in T
  <2>1. FlattenSeq(SubSeq(ss, 1, n1 + 1)) = FlattenSeq(SubSeq(ss, 1, n1)) \o ss[n1 + 1]
    BY FlattenUpto
  <2>2. ss[n1 + 1] \in Seq(S) /\ FlattenSeq(SubSeq(ss, 1, n1)) \in Seq(S)
    BY <1>2
  <2>3. FlattenSeq(SubSeq(ss, 1, n1 + 1)) \in Seq(S)
    BY <2>1, <2>2, ConcatProperties
  <2> QED  BY <2>3
<1> HIDE DEF T
<1>3. Len(ss) \in T
  <2>1. Len(ss) \in Nat /\ Len(ss) \in 0 .. Len(ss)
    OBVIOUS
  <2> QED  BY <1>1, <1>2, <2>1, Upwards
<1>4. SubSeq(ss, 1, Len(ss)) = ss
  BY SubSeqFull
<1> QED  BY <1>3, <1>4 DEF T

LEMMA FlattenJoin ==
  ASSUME NEW S, NEW ss \in Seq(Seq(S)), NEW tt \in Seq(Seq(S))
  PROVE  FlattenSeq(ss \o tt) = FlattenSeq(ss) \o FlattenSeq(tt)
<1> DEFINE T == {n1 \in 0 .. Len(tt) :
                   FlattenSeq(ss \o SubSeq(tt, 1, n1)) = FlattenSeq(ss) \o FlattenSeq(SubSeq(tt, 1, n1))}
<1>0. FlattenSeq(ss) \in Seq(S)
  BY FlattenType
<1>1. 0 \in T
  <2>1. SubSeq(tt, 1, 0) = << >> /\ 0 \in 0 .. Len(tt)
    BY UptoProperties
  <2>2. ss \o << >> = ss /\ FlattenSeq(ss) \o << >> = FlattenSeq(ss)
    BY <1>0, ConcatEmptySeq
  <2> QED  BY <2>1, <2>2, FlattenEmpty
<1>2. ASSUME NEW n1 \in 0 .. Len(tt) - 1, n1 \in T PROVE n1 + 1 \in T
  <2> DEFINE u == SubSeq(tt, 1, n1)
             v == SubSeq(tt, 1, n1 + 1)
  <2>1. u \in Seq(Seq(S)) /\ v = Append(u, tt[n1 + 1]) /\ tt[n1 + 1] \in Seq(S)
    BY UptoProperties
  <2>2. FlattenSeq(ss \o u) = FlattenSeq(ss) \o FlattenSeq(u)
    BY <1>2
  <2> HIDE DEF u, v
  <2>3. ss \o v = Append(ss \o u, tt[n1 + 1])
    <3>1. ss \o Append(u, tt[n1 + 1]) = Append(ss \o u, tt[n1 + 1])
      BY <2>1, JoinAppend, SMTT(30)
    <3> QED  BY <2>1, <3>1
  <2>4. ss \o u \in Seq(Seq(S))
    BY <2>1
  <2>5. FlattenSeq(ss \o v) = (FlattenSeq(ss) \o FlattenSeq(u)) \o tt[n1 + 1]
    BY <2>1, <2>2, <2>3, <2>4, FlattenAppend
  <2>6. FlattenSeq(v) = FlattenSeq(u) \o tt[n1 + 1]
    BY <2>1, FlattenAppend
  <2>7. FlattenSeq(u) \in Seq(S)
    BY <2>1, FlattenType
  <2>8. FlattenSeq(ss \o v) = FlattenSeq(ss) \o FlattenSeq(v)
    <3> DEFINE x == FlattenSeq(ss)
               y == FlattenSeq(u)
               z == tt[n1 + 1]
    <3>1. x \in Seq(S) /\ y \in Seq(S) /\ z \in Seq(S)
      BY <1>0, <2>1, <2>7
    <3> HIDE DEF x, y, z
    <3>2. (x \o y) \o z = x \o (y \o z)
      BY <3>1, SMTT(30)
    <3> USE DEF x, y, z
    <3> QED  BY <2>5, <2>6, <3>2
  <2> QED  BY <2>8 DEF v
<1> HIDE DEF T
<1>3. Len(tt) \in T
  <2>1. Len(tt) \in Nat /\ Len(tt) \in 0 .. Len(tt)
    OBVIOUS
  <2> QED  BY <1>1, <1>2, <2>1, Upwards
<1>4. SubSeq(tt, 1, Len(tt)) = tt
  BY SubSeqFull
<1> QED  BY <1>3, <1>4 DEF T

\* Where the elements of the m-th part are.
LEMMA FlattenAt ==
  ASSUME NEW S, NEW ss \in Seq(Seq(S)), NEW m \in 1 .. Len(ss),
         NEW k1 \in 1 .. Len(ss[m])
  PROVE  /\ Len(FlattenSeq(SubSeq(ss, 1, m - 1))) + k1 \in 1 .. Len(FlattenSeq(ss))
         /\ FlattenSeq(ss)[Len(FlattenSeq(SubSeq(ss, 1, m - 1))) + k1] = ss[m][k1]
<1> DEFINE a == SubSeq(ss, 1, m - 1)
           b == SubSeq(ss, 1, m)
           c == SubSeq(ss, m + 1, Len(ss))
<1>1. a \in Seq(Seq(S)) /\ b \in Seq(Seq(S)) /\ m - 1 \in 0 .. Len(ss) - 1 /\ (m - 1) + 1 = m
  BY UptoProperties
<1>2. c \in Seq(Seq(S))
  <2>1. \A i1 \in m + 1 .. Len(ss) : ss[i1] \in Seq(S)
    OBVIOUS
  <2> QED  BY <2>1, SubSeqProperties
<1>3. ss = b \o c
  <2>1. /\ 1 \in 1 .. Len(ss) + 1 /\ m \in 1 - 1 .. Len(ss) /\ Len(ss) \in m .. Len(ss)
    OBVIOUS
  <2>2. SubSeq(ss, 1, m) \o SubSeq(ss, m + 1, Len(ss)) = SubSeq(ss, 1, Len(ss))
    BY <2>1, ConcatAdjacentSubSeq
  <2> QED  BY <2>2, SubSeqFull
<1>4. FlattenSeq(b) = FlattenSeq(a) \o ss[m]
  BY <1>1, FlattenUpto
<1> HIDE DEF a, b, c
<1>5. FlattenSeq(ss) = (FlattenSeq(a) \o ss[m]) \o FlattenSeq(c)
  BY <1>1, <1>2, <1>3, <1>4, FlattenJoin
<1>6. FlattenSeq(a) \in Seq(S) /\ FlattenSeq(c) \in Seq(S) /\ ss[m] \in Seq(S)
  BY <1>1, <1>2, FlattenType
<1> DEFINE x == FlattenSeq(a)
           y == ss[m]
           z == FlattenSeq(c)
           n1 == Len(x) + k1
<1>7. x \in Seq(S) /\ y \in Seq(S) /\ z \in Seq(S) /\ k1 \in 1 .. Len(y) /\ FlattenSeq(ss) = (x \o y) \o z
  BY <1>5, <1>6
<1>8. n1 \in 1 .. Len((x \o y) \o z) /\ ((x \o y) \o z)[n1] = y[k1]
  <2> HIDE DEF x, y, z
  <2> QED  BY <1>7
<1> QED  BY <1>7, <1>8 DEF a

LEMMA FlattenLists ==
  ASSUME NEW N \in Nat, NEW ss, ss = [m \in 1 .. N |-> ss[m]],
         \A m \in 1 .. N : ss[m] \in Seq(ToSet(ss[m]))
  PROVE  FlattenSeq(ss) \in Seq(UNION {ToSet(ss[m]) : m \in 1 .. N})
<1> DEFINE U == UNION {ToSet(ss[m]) : m \in 1 .. N}
           B == Seq(U)
<1>1. ASSUME NEW m \in 1 .. N PROVE ss[m] \in B
  <2>1. ToSet(ss[m]) \subseteq U
    OBVIOUS
  <2> QED  BY <1>1, <2>1, SeqMonotonic
<1> HIDE DEF B
<1>2. ss \in [1 .. N -> B]
  BY <1>1
<1>3. ss \in Seq(B)
  BY <1>2, SeqDef
<1> QED  BY <1>3, FlattenType DEF B

LEMMA FlattenOfEmpties ==
  ASSUME NEW ss \in Seq({<< >>})
  PROVE  FlattenSeq(ss) = << >>
<1>1. ss \in Seq(Seq({}))
  <2>1. << >> \in Seq({})
    OBVIOUS
  <2>2. {<< >>} \subseteq Seq({})
    BY <2>1
  <2> QED  BY <2>2, SeqMonotonic
<1>2. FlattenSeq(ss) \in Seq({})
  BY <1>1, FlattenType
<1> QED  BY <1>2

LEMMA FlattenOnly ==
  ASSUME NEW S, NEW ss \in Seq(Seq(S)), NEW m \in 1 .. Len(ss),
         \A i1 \in 1 .. Len(ss) : i1 # m => ss[i1] = << >>
  PROVE  FlattenSeq(ss) = ss[m]
<1> DEFINE a == SubSeq(ss, 1, m - 1)
           b == SubSeq(ss, 1, m)
           c == SubSeq(ss, m + 1, Len(ss))
<1>1. b \in Seq(Seq(S)) /\ m - 1 \in 0 .. Len(ss) - 1 /\ (m - 1) + 1 = m
  BY UptoProperties
<1>2. a \in Seq({<< >>})
  <2>1. \A i1 \in 1 .. m - 1 : ss[i1] \in {<< >>}
    OBVIOUS
  <2> QED  BY <2>1, SubSeqProperties
<1>3. c \in Seq({<< >>}) /\ c \in Seq(Seq(S))
  <2>1. \A i1 \in m + 1 .. Len(ss) : ss[i1] \in {<< >>} /\ ss[i1] \in Seq(S)
    OBVIOUS
  <2> QED  BY <2>1, SubSeqProperties
<1>4. ss = b \o c
  <2>1. /\ 1 \in 1 .. Len(ss) + 1 /\ m \in 1 - 1 .. Len(ss) /\ Len(ss) \in m .. Len(ss)
    OBVIOUS
  <2>2. SubSeq(ss, 1, m) \o SubSeq(ss, m + 1, Len(ss)) = SubSeq(ss, 1, Len(ss))
    BY <2>1, ConcatAdjacentSubSeq
  <2> QED  BY <2>2, SubSeqFull
<1>5. FlattenSeq(b) = FlattenSeq(a) \o ss[m]
  BY <1>1, FlattenUpto
<1> HIDE DEF a, b, c
<1>6. FlattenSeq(a) = << >> /\ FlattenSeq(c) = << >>
  BY <1>2, <1>3, FlattenOfEmpties
<1>7. FlattenSeq(ss) = (<< >> \o ss[m]) \o << >>
  <2>1. FlattenSeq(b \o c) = FlattenSeq(b) \o FlattenSeq(c)
    BY <1>1, <1>3, FlattenJoin
  <2> QED  BY <1>4, <1>5, <1>6, <2>1
<1>8. ss[m] \in Seq(S)
  OBVIOUS
<1> QED  BY <1>7, <1>8, ConcatEmptySeq

LEMMA FlattenSingletons ==
  ASSUME NEW S, NEW s \in Seq(S)
  PROVE  FlattenSeq([m \in DOMAIN s |-> << s[m] >>]) = s
<1> DEFINE ss == [m \in DOMAIN s |-> << s[m] >>]
           T == {n1 \in 0 .. Len(s) : FlattenSeq(SubSeq(ss, 1, n1)) = SubSeq(s, 1, n1)}
<1>1. ss \in Seq(Seq(S)) /\ Len(ss) = Len(s) /\ \A m \in 1 .. Len(s) : ss[m] = << s[m] >>
  <2>1. \A m \in 1 .. Len(s) : << s[m] >> \in Seq(S)
    OBVIOUS
  <2>2. DOMAIN s = 1 .. Len(s) /\ Len(s) \in Nat
    OBVIOUS
  <2>3. ss \in [1 .. Len(s) -> Seq(S)]
    BY <2>1, <2>2
  <2>4. ss \in Seq(Seq(S)) /\ Len(ss) = Len(s)
    BY <2>2, <2>3, SeqDef, LenProperties
  <2> QED  BY <2>2, <2>4
<1> HIDE DEF ss
<1>2. 0 \in T
  <2>1. SubSeq(ss, 1, 0) = << >> /\ SubSeq(s, 1, 0) = << >> /\ 0 \in 0 .. Len(s)
    BY <1>1, UptoProperties
  <2> QED  BY <2>1, FlattenEmpty
<1>3. ASSUME NEW n1 \in 0 .. Len(s) - 1, n1 \in T PROVE n1 + 1 \in T
  <2>1. FlattenSeq(SubSeq(ss, 1, n1 + 1)) = FlattenSeq(SubSeq(ss, 1, n1)) \o ss[n1 + 1]
    BY <1>1, FlattenUpto
  <2>2. n1 + 1 \in 1 .. Len(s) /\ n1 \in 0 .. Len(s) /\ n1 < Len(s)
    OBVIOUS
  <2>3. SubSeq(s, 1, n1 + 1) = Append(SubSeq(s, 1, n1), s[n1 + 1]) /\ SubSeq(s, 1, n1) \in Seq(S)
    BY <2>2, UptoProperties
  <2>4. FlattenSeq(SubSeq(ss, 1, n1 + 1)) = SubSeq(s, 1, n1) \o << s[n1 + 1] >>
    BY <1>1, <1>3, <2>1, <2>2
  <2>5. Append(SubSeq(s, 1, n1), s[n1 + 1]) = SubSeq(s, 1, n1) \o << s[n1 + 1] >>
    BY <2>2, <2>3, AppendIsConcat
  <2> QED  BY <2>2, <2>3, <2>4, <2>5
<1> HIDE DEF T
<1>4. Len(s) \in T
  <2>1. Len(s) \in Nat /\ Len(s) \in 0 .. Len(s)
    OBVIOUS
  <2> QED  BY <1>2, <1>3, <2>1, Upwards
<1>5. SubSeq(ss, 1, Len(ss)) = ss /\ SubSeq(s, 1, Len(s)) = s
  BY <1>1, SubSeqFull
<1> QED  BY <1>1, <1>4, <1>5 DEF T, ss

\* SetToSeq lists every member of a finite set, once.
LEMMA ListedOnce ==
  ASSUME NEW S, IsFiniteSet(S)
  PROVE  /\ SetToSeq(S) \in Seq(S)
         /\ \A x \in S : \E m \in 1 .. Len(SetToSeq(S)) : SetToSeq(S)[m] = x
         /\ \A a, b \in 1 .. Len(SetToSeq(S)) : SetToSeq(S)[a] = SetToSeq(S)[b] => a = b
<1> DEFINE N == Cardinality(S)
           f == SetToSeq(S)
<1>1. N \in Nat /\ \E g \in [1 .. N -> S] : IsInjective(g)
  BY FS_CardinalityType DEF ExistsBijection, Bijection, Injection
<1>2. f \in [1 .. N -> S] /\ IsInjective(f)
  BY <1>1, Zenon DEF SetToSeq
<1> HIDE DEF f
<1>3. f \in Injection(1 .. N, S)
  BY <1>2 DEF Injection
<1>4. Cardinality(1 .. N) = N
  BY <1>1, FS_Interval
<1>5. f \in Surjection(1 .. N, S)
  BY <1>3, <1>4, FS_Injection
<1>6. f \in Seq(S) /\ Len(f) = N /\ DOMAIN f = 1 .. N
  BY <1>1, <1>2, SeqDef, LenProperties
<1>7. \A x \in S : \E m \in 1 .. Len(f) : f[m] = x
  BY <1>5, <1>6 DEF Surjection
<1>8. \A a, b \in 1 .. Len(f) : f[a] = f[b] => a = b
  BY <1>2, <1>6 DEF IsInjective
<1> QED  BY <1>6, <1>7, <1>8 DEF f

-----------------------------------------------------------------------------
(* Mapping every element of a list to a list, and joining these: what the    *)
(* models' filters are.                                                      *)

FlatMap(h, list) == FlattenSeq([i1 \in DOMAIN list |-> h[list[i1]]])

LEMMA FlatMapType ==
  ASSUME NEW A, NEW S, NEW h \in [A -> Seq(S)], NEW list \in Seq(A)
  PROVE  /\ [i1 \in DOMAIN list |-> h[list[i1]]] \in Seq(Seq(S))
         /\ FlatMap(h, list) \in Seq(S)
<1>1. \A i1 \in 1 .. Len(list) : h[list[i1]] \in Seq(S)
  OBVIOUS
<1>2. DOMAIN list = 1 .. Len(list) /\ Len(list) \in Nat
  OBVIOUS
<1>3. [i1 \in DOMAIN list |-> h[list[i1]]] \in [1 .. Len(list) -> Seq(S)]
  BY <1>1, <1>2
<1>4. [i1 \in DOMAIN list |-> h[list[i1]]] \in Seq(Seq(S))
  BY <1>2, <1>3, SeqDef
<1> QED  BY <1>4, FlattenType DEF FlatMap

LEMMA FlatMapEnds ==
  ASSUME NEW A, NEW S, NEW h \in [A -> Seq(S)]
  PROVE  /\ FlatMap(h, << >>) = << >>
         /\ \A a \in A : FlatMap(h, << a >>) = h[a]
<1>1. FlatMap(h, << >>) = << >>
  <2>1. [i1 \in DOMAIN << >> |-> h[<< >>[i1]]] = << >>
    OBVIOUS
  <2> QED  BY <2>1, FlattenEmpty, Zenon DEF FlatMap
<1>2. ASSUME NEW a \in A PROVE FlatMap(h, << a >>) = h[a]
  <2>1. [i1 \in DOMAIN << a >> |-> h[<< a >>[i1]]] = << h[a] >>
    OBVIOUS
  <2> QED  BY <2>1, FlattenOne, Zenon DEF FlatMap
<1> QED  BY <1>1, <1>2

LEMMA FlatMapJoin ==
  ASSUME NEW A, NEW S, NEW h \in [A -> Seq(S)], NEW a \in Seq(A), NEW b \in Seq(A)
  PROVE  FlatMap(h, a \o b) = FlatMap(h, a) \o FlatMap(h, b)
<1> DEFINE M(list) == [i1 \in DOMAIN list |-> h[list[i1]]]
<1>0. a \o b \in Seq(A)
  OBVIOUS
<1>2. M(a) \in Seq(Seq(S)) /\ M(b) \in Seq(Seq(S)) /\ M(a \o b) \in Seq(Seq(S))
  <2>1. ASSUME NEW list \in Seq(A) PROVE [i1 \in DOMAIN list |-> h[list[i1]]] \in Seq(Seq(S))
    BY FlatMapType, ZenonT(60)
  <2> QED  BY <1>0, <2>1, Zenon
<1>1. M(a \o b) = M(a) \o M(b)
  <2>1. /\ Len(M(a)) = Len(a) /\ Len(M(b)) = Len(b) /\ Len(M(a \o b)) = Len(a) + Len(b)
        /\ \A i1 \in 1 .. Len(a) : M(a \o b)[i1] = M(a)[i1]
        /\ \A i1 \in 1 .. Len(b) : M(a \o b)[Len(a) + i1] = M(b)[i1]
    OBVIOUS
  <2> HIDE DEF M
  <2> DEFINE x == M(a)
             y == M(b)
             z == M(a \o b)
             B == Seq(S)
  <2>2. /\ x \in Seq(B) /\ y \in Seq(B) /\ z \in Seq(B) /\ Len(z) = Len(x) + Len(y)
        /\ \A i1 \in 1 .. Len(x) : z[i1] = x[i1]
        /\ \A i1 \in 1 .. Len(y) : z[Len(x) + i1] = y[i1]
    BY <1>2, <2>1
  <2> HIDE DEF x, y, z, B
  <2>3. x \o y \in Seq(B) /\ Len(x \o y) = Len(x) + Len(y)
    BY <2>2
  <2>4. ASSUME NEW i1 \in 1 .. Len(x) + Len(y) PROVE z[i1] = (x \o y)[i1]
    <3>1. CASE i1 <= Len(x)
      BY <2>2, <3>1
    <3>2. CASE i1 > Len(x)
      <4>1. i1 - Len(x) \in 1 .. Len(y) /\ Len(x) + (i1 - Len(x)) = i1
        BY <2>2, <3>2
      <4>2. z[i1] = y[i1 - Len(x)]
        BY <2>2, <4>1
      <4> QED  BY <2>2, <3>2, <4>1, <4>2
    <3> QED  BY <2>2, <3>1, <3>2
  <2>5. z = x \o y
    BY <2>2, <2>3, <2>4, SeqEqual
  <2> QED  BY <2>5 DEF x, y, z
<1>3. FlattenSeq(M(a) \o M(b)) = FlattenSeq(M(a)) \o FlattenSeq(M(b))
  BY <1>2, FlattenJoin
<1> QED  BY <1>1, <1>3, Zenon DEF FlatMap

LEMMA FlatMapAppend ==
  ASSUME NEW A, NEW S, NEW h \in [A -> Seq(S)], NEW list \in Seq(A), NEW a \in A
  PROVE  FlatMap(h, Append(list, a)) = FlatMap(h, list) \o h[a]
<1>1. Append(list, a) = list \o << a >> /\ << a >> \in Seq(A)
  OBVIOUS
<1> DEFINE b == << a >>
<1>2. FlatMap(h, list \o b) = FlatMap(h, list) \o FlatMap(h, b)
  <2>1. b \in Seq(A)
    OBVIOUS
  <2> HIDE DEF b
  <2> QED  BY <2>1, FlatMapJoin, SMTT(30)
<1>3. FlatMap(h, << a >>) = h[a]
  BY FlatMapEnds
<1> QED  BY <1>1, <1>2, <1>3

LEMMA FlatMapFlatten ==
  ASSUME NEW A, NEW S, NEW h \in [A -> Seq(S)]
  PROVE  \A lists \in Seq(Seq(A)) :
           FlatMap(h, FlattenSeq(lists)) = FlattenSeq([m \in DOMAIN lists |-> FlatMap(h, lists[m])])
<1>0. \A a, b \in Seq(A) : FlatMap(h, a \o b) = FlatMap(h, a) \o FlatMap(h, b)
  BY FlatMapJoin
<1> DEFINE B == Seq(A)
<1>b. \A a, b \in B : FlatMap(h, a \o b) = FlatMap(h, a) \o FlatMap(h, b)
  BY <1>0
<1>a. B = Seq(A)
  OBVIOUS
<1> HIDE DEF B
<1> SUFFICES ASSUME NEW lists \in Seq(B)
             PROVE  FlatMap(h, FlattenSeq(lists)) = FlattenSeq([m \in DOMAIN lists |-> FlatMap(h, lists[m])])
  BY <1>a
<1> DEFINE M(n1) == [i1 \in 1 .. n1 |-> FlatMap(h, lists[i1])]
           L(n1) == FlattenSeq(SubSeq(lists, 1, n1))
           T == {n1 \in 0 .. Len(lists) : FlatMap(h, L(n1)) = FlattenSeq(M(n1))}
<1>1. \A i1 \in 1 .. Len(lists) : FlatMap(h, lists[i1]) \in Seq(S)
  <2>1. ASSUME NEW i1 \in 1 .. Len(lists) PROVE FlatMap(h, lists[i1]) \in Seq(S)
    <3>1. lists[i1] \in B
      OBVIOUS
    <3> QED  BY <1>a, <3>1, FlatMapType
  <2> QED  BY <2>1
<1>2. \A n1 \in 0 .. Len(lists) : L(n1) \in B
  <2>1. ASSUME NEW n1 \in 0 .. Len(lists) PROVE L(n1) \in B
    <3>1. SubSeq(lists, 1, n1) \in Seq(Seq(A))
      BY <1>a, UptoProperties
    <3> QED  BY <1>a, <3>1, FlattenType
  <2> QED  BY <2>1
<1>3. 0 \in T
  <2>1. SubSeq(lists, 1, 0) = << >> /\ 0 \in 0 .. Len(lists)
    BY UptoProperties
  <2>2. M(0) = << >>
    OBVIOUS
  <2>3. FlatMap(h, L(0)) = << >>
    BY <2>1, FlattenEmpty, FlatMapEnds
  <2>4. FlattenSeq(M(0)) = << >>
    BY <2>2, FlattenEmpty
  <2> HIDE DEF L, M
  <2> QED  BY <2>1, <2>3, <2>4
<1>4. ASSUME NEW n1 \in 0 .. Len(lists) - 1, n1 \in T PROVE n1 + 1 \in T
  <2> DEFINE x == L(n1)
             y == lists[n1 + 1]
  <2>1. L(n1 + 1) = x \o y
    BY <1>a, FlattenUpto
  <2>2. x \in B /\ y \in B
    BY <1>2
  <2>3. M(n1 + 1) = Append(M(n1), FlatMap(h, y))
    OBVIOUS
  <2>4. M(n1) \in Seq(Seq(S)) /\ FlatMap(h, y) \in Seq(S)
    BY <1>1
  <2>5. FlatMap(h, x) = FlattenSeq(M(n1))
    BY <1>4
  <2> HIDE DEF L, M, x, y
  <2>6. FlatMap(h, x \o y) = FlatMap(h, x) \o FlatMap(h, y)
    BY <1>b, <2>2
  <2>7. FlattenSeq(M(n1 + 1)) = FlattenSeq(M(n1)) \o FlatMap(h, y)
    BY <2>3, <2>4, FlattenAppend
  <2>8. FlatMap(h, L(n1 + 1)) = FlattenSeq(M(n1 + 1))
    BY <2>1, <2>5, <2>6, <2>7
  <2> QED  BY <2>8
<1> HIDE DEF T
<1>5. Len(lists) \in T
  <2>1. Len(lists) \in Nat /\ Len(lists) \in 0 .. Len(lists)
    OBVIOUS
  <2> QED  BY <1>3, <1>4, <2>1, Upwards
<1>6. SubSeq(lists, 1, Len(lists)) = lists /\ DOMAIN lists = 1 .. Len(lists)
  BY SubSeqFull
<1> QED  BY <1>5, <1>6 DEF T

MapEach(h, lists) == [m \in DOMAIN lists |-> FlatMap(h, lists[m])]

LEMMA FlatMapEach ==
  ASSUME NEW A, NEW S, NEW h \in [A -> Seq(S)], NEW lists \in Seq(Seq(A))
  PROVE  FlatMap(h, FlattenSeq(lists)) = FlattenSeq(MapEach(h, lists))
<1>1. FlatMap(h, FlattenSeq(lists)) = FlattenSeq([m \in DOMAIN lists |-> FlatMap(h, lists[m])])
  BY FlatMapFlatten
<1> QED  BY <1>1, Zenon DEF MapEach

\* Leaving out what maps to nothing changes no map.
FilterKeeps(f, h, list) == FlatMap(f, FlatMap(h, list)) = FlatMap(f, list)

LEMMA FlatMapFilter ==
  ASSUME NEW A, NEW S, NEW U, U \subseteq A, NEW f \in [A -> Seq(S)], NEW h \in [A -> Seq(U)],
         \A e \in A : FlatMap(f, h[e]) = f[e], NEW list, list \in Seq(A)
  PROVE  FilterKeeps(f, h, list)
<1> DEFINE parts == [m \in DOMAIN list |-> h[list[m]]]
<1>1. parts \in Seq(Seq(U)) /\ FlatMap(h, list) = FlattenSeq(parts)
  <2>1. parts \in Seq(Seq(U))
    <3> DEFINE B == Seq(U)
    <3>1. DOMAIN list = 1 .. Len(list) /\ Len(list) \in Nat /\ \A m \in 1 .. Len(list) : list[m] \in A
      OBVIOUS
    <3>2. \A e \in A : h[e] \in B
      OBVIOUS
    <3> HIDE DEF B
    <3>3. parts \in [1 .. Len(list) -> B]
      BY <3>1, <3>2
    <3>4. parts \in Seq(B)
      BY <3>1, <3>3, SeqDef
    <3> QED  BY <3>4 DEF B
  <2> QED  BY <2>1, Zenon DEF FlatMap
<1>2. parts \in Seq(Seq(A))
  <2>1. Seq(U) \subseteq Seq(A)
    BY SeqMonotonic
  <2> QED  BY <1>1, <2>1, SeqMonotonic
<1>3. \A m \in DOMAIN list : list[m] \in A /\ parts[m] = h[list[m]]
  OBVIOUS
<1>4. DOMAIN parts = DOMAIN list
  OBVIOUS
<1> HIDE DEF parts
<1>5. FlatMap(f, FlattenSeq(parts)) = FlattenSeq([m \in DOMAIN parts |-> FlatMap(f, parts[m])])
  <2>1. FlatMap(f, FlattenSeq(parts)) = FlattenSeq(MapEach(f, parts))
    BY <1>2, FlatMapEach, Zenon
  <2> QED  BY <2>1, Zenon DEF MapEach
<1>6. [m \in DOMAIN parts |-> FlatMap(f, parts[m])] = [m \in DOMAIN list |-> f[list[m]]]
  BY <1>3, <1>4, Zenon
<1> QED  BY <1>1, <1>5, <1>6, Zenon DEF FlatMap, FilterKeeps

-----------------------------------------------------------------------------
\* Lists laid end to end: where each of them begins in the whole.
EndToEnd(parts, whole, N, before) ==
  /\ before[0] = 0 /\ before[N] = Len(whole) /\ Len(whole) \in Nat
  /\ \A u \in 0 .. N : before[u] \in 0 .. Len(whole)
  /\ \A u \in 0 .. N - 1 : before[u + 1] = before[u] + Len(parts[u + 1])
  /\ \A u \in 0 .. N - 1 : \A b \in 1 .. Len(parts[u + 1]) : whole[before[u] + b] = parts[u + 1][b]

LEMMA PartsLaid ==
  ASSUME NEW N \in Nat, NEW parts, parts = [m \in 1 .. N |-> parts[m]],
         \A m \in 1 .. N : parts[m] \in Seq(ToSet(parts[m]))
  PROVE  /\ EndToEnd(parts, FlattenSeq(parts), N, [u \in 0 .. N |-> Len(FlattenSeq(SubSeq(parts, 1, u)))])
         /\ FlattenSeq(parts) \in Seq(UNION {ToSet(parts[m]) : m \in 1 .. N})
<1> DEFINE S == UNION {ToSet(parts[m]) : m \in 1 .. N}
           B == Seq(S)
           whole == FlattenSeq(parts)
           before == [u \in 0 .. N |-> Len(FlattenSeq(SubSeq(parts, 1, u)))]
<1>1. whole \in Seq(S)
  BY FlattenLists
<1>2. parts \in Seq(Seq(S)) /\ Len(parts) = N
  <2>1. ASSUME NEW m \in 1 .. N PROVE parts[m] \in B
    <3>1. ToSet(parts[m]) \subseteq S
      OBVIOUS
    <3> QED  BY <3>1, SeqMonotonic
  <2> HIDE DEF B
  <2>2. parts \in [1 .. N -> B]
    BY <2>1
  <2>3. parts \in Seq(B)
    BY <2>2, SeqDef
  <2>4. Len(parts) = N
    BY <2>2, <2>3, LenProperties
  <2> QED  BY <2>3, <2>4 DEF B
<1> HIDE DEF S
<1>3. \A u \in 0 .. N : before[u] = Len(FlattenSeq(SubSeq(parts, 1, u)))
  OBVIOUS
<1> HIDE DEF before
<1>4. before[0] = 0 /\ before[N] = Len(whole) /\ Len(whole) \in Nat
  <2>1. SubSeq(parts, 1, 0) = << >> /\ SubSeq(parts, 1, N) = parts
    BY <1>2, UptoProperties
  <2>2. 0 \in 0 .. N /\ N \in 0 .. N /\ Len(<< >>) = 0
    OBVIOUS
  <2>3. before[0] = 0 /\ before[N] = Len(whole)
    BY <1>3, <2>1, <2>2, FlattenEmpty, Zenon
  <2> HIDE DEF whole
  <2> QED  BY <1>1, <2>3
<1>5. ASSUME NEW u \in 0 .. N PROVE before[u] \in 0 .. Len(whole)
  <2> DEFINE a == SubSeq(parts, 1, u)
             c == SubSeq(parts, u + 1, N)
  <2>1. a \in Seq(Seq(S))
    BY <1>2, UptoProperties
  <2>2. c \in Seq(Seq(S))
    <3>1. \A m \in u + 1 .. N : parts[m] \in B
      BY <1>2
    <3>2. u + 1 \in Int /\ N \in Int
      OBVIOUS
    <3> HIDE DEF B
    <3>3. SubSeq(parts, u + 1, N) \in Seq(B)
      BY ONLY <3>1, <3>2, SubSeqProperties
    <3> QED  BY <3>3 DEF B
  <2>3. a \o c = parts
    <3>1. 1 \in 1 .. Len(parts) + 1 /\ u \in 1 - 1 .. Len(parts) /\ Len(parts) \in u .. Len(parts)
      BY <1>2
    <3>2. SubSeq(parts, 1, u) \o SubSeq(parts, u + 1, Len(parts)) = SubSeq(parts, 1, Len(parts))
      BY <1>2, <3>1, ConcatAdjacentSubSeq
    <3> QED  BY <1>2, <3>2, SubSeqFull
  <2> HIDE DEF a, c
  <2>4. FlattenSeq(a) \in Seq(S) /\ FlattenSeq(c) \in Seq(S) /\ whole = FlattenSeq(a) \o FlattenSeq(c)
    BY <2>1, <2>2, <2>3, FlattenJoin, FlattenType
  <2> DEFINE x == FlattenSeq(a)
             y == FlattenSeq(c)
  <2>5. Len(x) \in 0 .. Len(whole)
    <3> HIDE DEF x, y, whole
    <3>1. x \in Seq(S) /\ y \in Seq(S) /\ whole = x \o y
      BY <2>4 DEF x, y
    <3> QED  BY <3>1
  <2> QED  BY <1>3, <2>5 DEF a
<1>6. ASSUME NEW u \in 0 .. N - 1 PROVE before[u + 1] = before[u] + Len(parts[u + 1])
  <2>1. u \in 0 .. Len(parts) - 1 /\ u \in 0 .. N /\ u + 1 \in 0 .. N /\ u + 1 \in 1 .. N
    BY <1>2
  <2>2. FlattenSeq(SubSeq(parts, 1, u + 1)) = FlattenSeq(SubSeq(parts, 1, u)) \o parts[u + 1]
    BY <1>2, <2>1, FlattenUpto
  <2> DEFINE x == FlattenSeq(SubSeq(parts, 1, u))
             y == parts[u + 1]
  <2>3. x \in Seq(S) /\ y \in Seq(S)
    <3>1. SubSeq(parts, 1, u) \in Seq(Seq(S))
      BY <1>2, <2>1, UptoProperties
    <3>2. FlattenSeq(SubSeq(parts, 1, u)) \in Seq(S)
      BY <3>1, FlattenType
    <3>3. parts[u + 1] \in Seq(S)
      BY <1>2, <2>1
    <3> QED  BY <3>2, <3>3
  <2>4. Len(x \o y) = Len(x) + Len(y)
    <3> HIDE DEF x, y
    <3> QED  BY <2>3
  <2> QED  BY <1>3, <2>1, <2>2, <2>4, Zenon
<1>7. ASSUME NEW u \in 0 .. N - 1, NEW b \in 1 .. Len(parts[u + 1])
      PROVE  whole[before[u] + b] = parts[u + 1][b]
  <2>1. u + 1 \in 1 .. Len(parts) /\ (u + 1) - 1 = u /\ u \in 0 .. N
    <3>1. u + 1 \in 1 .. N /\ (u + 1) - 1 = u /\ u \in 0 .. N
      OBVIOUS
    <3> QED  BY <1>2, <3>1, Zenon
  <2>2. whole[Len(FlattenSeq(SubSeq(parts, 1, (u + 1) - 1))) + b] = parts[u + 1][b]
    BY <1>2, <2>1, FlattenAt
  <2> QED  BY <1>3, <2>1, <2>2, Zenon
<1> QED  BY <1>1, <1>4, <1>5, <1>6, <1>7 DEF before, S, EndToEnd

-----------------------------------------------------------------------------
(* Rows of the same length, one behind the other *)

\* Quotient and remainder are unique.
LEMMA Divided ==
  ASSUME NEW b \in Nat \ {0}, NEW q \in Nat, NEW r \in 0 .. b - 1
  PROVE  (b * q + r) \div b = q /\ (b * q + r) % b = r
<1> DEFINE k1 == b * q + r
           p == k1 \div b
           s == k1 % b
<1>1. k1 \in Nat /\ b * q \in Nat
  OBVIOUS
<1> HIDE DEF k1
<1>2. p \in Nat /\ s \in 0 .. b - 1 /\ k1 = b * p + s
  BY <1>1
<1> HIDE DEF p, s
<1>3. k1 = b * q + r
  BY DEF k1
<1>4. ~(p >= q + 1)
  <2> SUFFICES ASSUME p >= q + 1 PROVE FALSE
    OBVIOUS
  <2>1. PICK d \in Nat : p = q + 1 + d
    <3>1. p - q - 1 \in Nat /\ p = q + 1 + (p - q - 1)
      BY <1>2
    <3> QED  BY <3>1
  <2>2. b * p = b * q + b + b * d /\ b * d \in Nat
    BY <2>1
  <2> QED  BY <1>1, <1>2, <1>3, <2>2
<1>5. ~(q >= p + 1)
  <2> SUFFICES ASSUME q >= p + 1 PROVE FALSE
    OBVIOUS
  <2>1. PICK d \in Nat : q = p + 1 + d
    <3>1. q - p - 1 \in Nat /\ q = p + 1 + (q - p - 1)
      BY <1>2
    <3> QED  BY <3>1
  <2>2. b * q = b * p + b + b * d /\ b * d \in Nat /\ b * p \in Nat
    BY <1>2, <2>1
  <2> QED  BY <1>1, <1>2, <1>3, <2>2
<1>6. p = q
  BY <1>2, <1>4, <1>5
<1>7. s = r
  BY <1>1, <1>2, <1>3, <1>6
<1> QED  BY <1>6, <1>7 DEF p, s, k1

\* Dividing by two numbers one after the other.
LEMMA DividedTwice ==
  ASSUME NEW k1 \in Nat, NEW b \in Nat \ {0}, NEW c \in Nat \ {0}
  PROVE  k1 \div (c * b) = (k1 \div b) \div c
<1> DEFINE p == k1 \div b
           r == k1 % b
           q == p \div c
           s == p % c
           t == b * s + r
<1>1. p \in Nat /\ r \in 0 .. b - 1 /\ k1 = b * p + r
  OBVIOUS
<1> HIDE DEF p, r
<1>2. q \in Nat /\ s \in 0 .. c - 1 /\ p = c * q + s
  BY <1>1
<1> HIDE DEF q, s
<1>3. k1 = (c * b) * q + t
  <2>1. b * p = b * (c * q) + b * s
    BY <1>1, <1>2
  <2>2. b * (c * q) = (c * b) * q
    BY <1>2
  <2> QED  BY <1>1, <1>2, <2>1, <2>2
<1>4. t \in 0 .. c * b - 1
  <2>1. b * s \in Nat /\ c * b \in Nat
    BY <1>2
  <2>2. PICK d \in Nat : c = s + 1 + d
    <3>1. c - s - 1 \in Nat /\ c = s + 1 + (c - s - 1)
      BY <1>2
    <3> QED  BY <3>1
  <2>3. c * b = b * s + b + b * d /\ b * d \in Nat
    BY <1>2, <2>2
  <2> QED  BY <1>1, <2>1, <2>3
<1>5. c * b \in Nat \ {0}
  OBVIOUS
<1> HIDE DEF t
<1> DEFINE m == c * b
<1>6. m \in Nat \ {0} /\ k1 = m * q + t /\ t \in 0 .. m - 1
  BY <1>3, <1>4, <1>5
<1> HIDE DEF m
<1>7. k1 \div m = q
  BY <1>2, <1>6, Divided
<1> QED  BY <1>7 DEF m, q, p

\* The place k of column b in row a, for M rows of N.
IsPlace(k1, M, N, a, b) == k1 \in 1 .. M * N /\ (k1 - 1) \div N = a - 1 /\ (k1 - 1) % N = b - 1

LEMMA PlaceInGrid ==
  ASSUME NEW M \in Nat, NEW N \in Nat, NEW a \in 1 .. M, NEW b \in 1 .. N
  PROVE  IsPlace((a - 1) * N + b, M, N, a, b)
<1> DEFINE q == a - 1
           r == b - 1
<1>1. q \in Nat /\ r \in 0 .. N - 1 /\ N \in Nat \ {0}
  OBVIOUS
<1>2. PICK d \in Nat : M = q + 1 + d
  <2>1. M - q - 1 \in Nat /\ M = q + 1 + (M - q - 1)
    BY <1>1
  <2> QED  BY <2>1
<1>3. M * N = q * N + N + d * N /\ d * N \in Nat /\ q * N \in Nat
  BY <1>1, <1>2
<1>4. q * N + b \in 1 .. M * N
  BY <1>1, <1>3
<1>5. (q * N + b) - 1 = N * q + r
  BY <1>1, <1>3
<1>6. (N * q + r) \div N = q /\ (N * q + r) % N = r
  BY <1>1, Divided
<1> QED  BY <1>4, <1>5, <1>6, Zenon DEF IsPlace

LEMMA PlaceOf ==
  ASSUME NEW M \in Nat, NEW N \in Nat, NEW k1 \in 1 .. M * N
  PROVE  \E a \in 1 .. M, b \in 1 .. N : k1 = (a - 1) * N + b
<1>1. N # 0
  OBVIOUS
<1> DEFINE q == (k1 - 1) \div N
           r == (k1 - 1) % N
<1>2. k1 - 1 \in Nat /\ q \in Nat /\ r \in 0 .. N - 1 /\ k1 - 1 = N * q + r
  BY <1>1
<1> HIDE DEF q, r
<1>3. q < M
  <2> SUFFICES ASSUME q >= M PROVE FALSE
    BY <1>2
  <2>1. PICK d \in Nat : q = M + d
    <3>1. q - M \in Nat /\ q = M + (q - M)
      BY <1>2
    <3> QED  BY <3>1
  <2>2. N * q = M * N + N * d /\ N * d \in Nat /\ M * N \in Nat
    BY <2>1
  <2> QED  BY <1>2, <2>2
<1>4. q + 1 \in 1 .. M /\ r + 1 \in 1 .. N /\ k1 = ((q + 1) - 1) * N + (r + 1)
  BY <1>2, <1>3
<1> QED  BY <1>4

Listed(s) == Len(s) \in Nat /\ DOMAIN s = 1 .. Len(s)

LEMMA Mapped ==
  ASSUME NEW N \in Nat, NEW s, DOMAIN s = 1 .. N, s = [m \in 1 .. N |-> s[m]]
  PROVE  s \in Seq({s[m] : m \in 1 .. N}) /\ Len(s) = N /\ Listed(s)
<1> DEFINE S == {s[m] : m \in 1 .. N}
<1>1. s \in [1 .. N -> S]
  OBVIOUS
<1> HIDE DEF S
<1>2. s \in Seq(S) /\ Len(s) = N
  BY <1>1, SeqDef, LenProperties
<1> QED  BY <1>2 DEF S, Listed

\* As many lists of the same length joined.
LEMMA FlattenLength ==
  ASSUME NEW S, NEW ss \in Seq(Seq(S)), NEW M \in Nat, \A m \in 1 .. Len(ss) : Len(ss[m]) = M
  PROVE  Len(FlattenSeq(ss)) = Len(ss) * M
<1> DEFINE N == Len(ss)
           T == {n1 \in 0 .. N : Len(FlattenSeq(SubSeq(ss, 1, n1))) = n1 * M}
<1>1. N \in Nat
  OBVIOUS
<1>2. 0 \in T
  <2>1. SubSeq(ss, 1, 0) = << >> /\ 0 \in 0 .. N
    BY UptoProperties
  <2>2. Len(FlattenSeq(<< >>)) = 0 /\ 0 * M = 0
    BY FlattenEmpty
  <2> QED  BY <2>1, <2>2
<1>3. ASSUME NEW n1 \in 0 .. N - 1, n1 \in T PROVE n1 + 1 \in T
  <2>1. FlattenSeq(SubSeq(ss, 1, n1 + 1)) = FlattenSeq(SubSeq(ss, 1, n1)) \o ss[n1 + 1]
    BY FlattenUpto
  <2>2. n1 + 1 \in 1 .. N /\ n1 \in 0 .. N /\ n1 + 1 \in 0 .. N /\ n1 \in Nat
    BY <1>1
  <2>3. SubSeq(ss, 1, n1) \in Seq(Seq(S)) /\ ss[n1 + 1] \in Seq(S)
    BY <2>2, UptoProperties
  <2>4. FlattenSeq(SubSeq(ss, 1, n1)) \in Seq(S)
    BY <2>3, FlattenType
  <2> DEFINE a == FlattenSeq(SubSeq(ss, 1, n1))
             b == ss[n1 + 1]
  <2>5. Len(a) = n1 * M /\ Len(b) = M
    BY <1>3, <2>2
  <2> HIDE DEF a, b
  <2>6. Len(a \o b) = Len(a) + Len(b)
    BY <2>3, <2>4, ConcatProperties DEF a, b
  <2>7. (n1 + 1) * M = n1 * M + M
    BY <2>2
  <2>8. Len(FlattenSeq(SubSeq(ss, 1, n1 + 1))) = (n1 + 1) * M
    BY <2>1, <2>5, <2>6, <2>7 DEF a, b
  <2> QED  BY <2>2, <2>8
<1> HIDE DEF T, N
<1>4. \A n1 \in 0 .. N : n1 \in T
  BY <1>1, <1>2, <1>3, Upwards
<1>5. SubSeq(ss, 1, N) = ss
  <2>1. Len(ss) \in 0 .. Len(ss)
    BY <1>1 DEF N
  <2> QED  BY <2>1, UptoProperties DEF N
<1>6. N \in 0 .. N
  BY <1>1
<1>7. N \in T
  BY <1>4, <1>6
<1> QED  BY <1>5, <1>7 DEF T, N

LEMMA FlattenGrid ==
  ASSUME NEW S, NEW ss \in Seq(Seq(S)), NEW M \in Nat, \A m \in 1 .. Len(ss) : Len(ss[m]) = M,
         NEW a \in 1 .. Len(ss), NEW b \in 1 .. M
  PROVE  FlattenSeq(ss)[(a - 1) * M + b] = ss[a][b]
<1> DEFINE front == SubSeq(ss, 1, a - 1)
<1>1. a - 1 \in 0 .. Len(ss)
  OBVIOUS
<1>2. front \in Seq(Seq(S)) /\ Len(front) = a - 1 /\ \A m \in 1 .. a - 1 : front[m] = ss[m]
  BY <1>1, UptoProperties
<1>3. \A m \in 1 .. Len(front) : Len(front[m]) = M
  BY <1>2
<1> HIDE DEF front
<1>4. Len(FlattenSeq(front)) = (a - 1) * M
  BY <1>2, <1>3, FlattenLength
<1>5. b \in 1 .. Len(ss[a])
  OBVIOUS
<1>6. FlattenSeq(ss)[Len(FlattenSeq(SubSeq(ss, 1, a - 1))) + b] = ss[a][b]
  BY <1>5, FlattenAt
<1> QED  BY <1>4, <1>6, Zenon DEF front

\* Every prefix is followed by every item, the item varying faster.
Extends(whole, prefixes, items) ==
  /\ Listed(whole) /\ Len(whole) = Len(prefixes) * Len(items)
  /\ \A a \in 1 .. Len(prefixes), b \in 1 .. Len(items) :
       whole[(a - 1) * Len(items) + b] = prefixes[a] \o items[b]

LEMMA ExtendsOnce ==
  ASSUME NEW prefixes, NEW items, Len(prefixes) \in Nat, Len(items) \in Nat,
         NEW s, NEW t, \E S : s \in Seq(S), \E S : t \in Seq(S),
         Extends(s, prefixes, items), Extends(t, prefixes, items)
  PROVE  s = t
<1> DEFINE M == Len(prefixes)
           N == Len(items)
<1>1. PICK S : s \in Seq(S)
  OBVIOUS
<1>2. PICK T : t \in Seq(T)
  OBVIOUS
<1>3. /\ Len(s) = M * N /\ Len(t) = M * N
      /\ \A a \in 1 .. M, b \in 1 .. N : s[(a - 1) * N + b] = prefixes[a] \o items[b]
      /\ \A a \in 1 .. M, b \in 1 .. N : t[(a - 1) * N + b] = prefixes[a] \o items[b]
  BY Zenon DEF Extends
<1>4. M \in Nat /\ N \in Nat
  OBVIOUS
<1> HIDE DEF M, N
<1>5. ASSUME NEW k1 \in 1 .. M * N PROVE s[k1] = t[k1]
  <2>1. PICK a \in 1 .. M, b \in 1 .. N : k1 = (a - 1) * N + b
    BY <1>4, <1>5, PlaceOf
  <2> QED  BY <1>3, <2>1, Zenon
<1>6. s \in Seq(S \cup T) /\ t \in Seq(S \cup T)
  BY <1>1, <1>2
<1> QED  BY <1>3, <1>5, <1>6, SeqEqual

LEMMA OneExtends ==
  ASSUME NEW C, NEW x \in Seq(C), NEW y \in Seq(C)
  PROVE  Extends(<< x \o y >>, << x >>, << y >>) /\ \E S : << x \o y >> \in Seq(S)
<1> DEFINE s == << x \o y >>
           a1 == << x >>
           b1 == << y >>
<1>1. Len(s) = 1 /\ Len(a1) = 1 /\ Len(b1) = 1 /\ s[1] = x \o y /\ a1[1] = x /\ b1[1] = y /\ DOMAIN s = 1 .. 1
  OBVIOUS
<1>2. s \in Seq({x \o y})
  OBVIOUS
<1> HIDE DEF s, a1, b1
<1>3. Listed(s) /\ Len(s) = Len(a1) * Len(b1)
  BY <1>1 DEF Listed
<1>4. ASSUME NEW a \in 1 .. Len(a1), NEW b \in 1 .. Len(b1) PROVE s[(a - 1) * Len(b1) + b] = a1[a] \o b1[b]
  <2>1. a = 1 /\ b = 1 /\ (a - 1) * Len(b1) + b = 1
    BY <1>1
  <2> QED  BY <1>1, <2>1, Zenon
<1>5. Extends(s, a1, b1)
  BY <1>3, <1>4, Zenon DEF Extends
<1> QED  BY <1>2, <1>5, Zenon DEF s, a1, b1

-----------------------------------------------------------------------------
(* What is behind a place, and a part of what is joined *)

\* Taking a list from its front.
LEMMA FlattenBehind ==
  ASSUME NEW S, NEW ss \in Seq(Seq(S)), NEW m \in 1 .. Len(ss)
  PROVE  FlattenSeq(SubSeq(ss, m, Len(ss))) = ss[m] \o FlattenSeq(SubSeq(ss, m + 1, Len(ss)))
<1> DEFINE B == Seq(S)
           N == Len(ss)
           s == SubSeq(ss, m, N)
           t == SubSeq(ss, m + 1, N)
           u == SubSeq(ss, m, m)
<1>1. N \in Nat /\ ss[m] \in B /\ \A w \in m .. N : ss[w] \in B
  <2> HIDE DEF B
  <2>1. ss \in Seq(B)
    BY DEF B
  <2> QED  BY <2>1
<1>2. u = << ss[m] >>
  <2>1. m \in Int /\ ss \in Seq(B) /\ m \in 1 .. Len(ss)
    OBVIOUS
  <2> HIDE DEF B
  <2>2. \A w \in m .. m : ss[w] \in B
    BY <1>1, <2>1
  <2>3. u \in Seq(B) /\ Len(u) = (IF m <= m THEN m - m + 1 ELSE 0) /\ \A w \in 1 .. m - m + 1 : u[w] = ss[m + w - 1]
    BY <2>1, <2>2, SubSeqProperties
  <2> HIDE DEF u
  <2>4. u \in Seq(B) /\ Len(u) = 1 /\ u[1] = ss[m]
    BY <2>1, <2>3
  <2>5. << ss[m] >> \in Seq(B)
    BY <1>1
  <2>6. \A w \in 1 .. Len(u) : u[w] = << ss[m] >>[w]
    BY <2>4
  <2> QED  BY <2>4, <2>5, <2>6, SeqEqual
<1>3. s = u \o t
  <2> HIDE DEF B
  <2>1. ss \in Seq(B) /\ m \in 1 .. Len(ss) + 1 /\ m \in m - 1 .. Len(ss) /\ N \in m .. Len(ss)
    BY <1>1 DEF B
  <2> QED  BY <2>1, ConcatAdjacentSubSeq
<1>4. u \in Seq(B) /\ t \in Seq(B)
  <2> HIDE DEF B
  <2>1. m + 1 \in Int /\ N \in Int
    BY <1>1
  <2>2. \A w \in m + 1 .. N : ss[w] \in B
    BY <1>1
  <2> QED  BY <1>1, <1>2, <2>1, <2>2, SubSeqProperties
<1> HIDE DEF s, t, u
<1>5. FlattenSeq(s) = FlattenSeq(u) \o FlattenSeq(t)
  BY <1>3, <1>4, FlattenJoin
<1>6. FlattenSeq(u) = ss[m]
  BY <1>1, <1>2, FlattenOne
<1> QED  BY <1>5, <1>6, Zenon DEF s, t, N

\* The rest of a list from a place.
LEMMA RestIs ==
  ASSUME NEW C, NEW s \in Seq(C), NEW m \in 1 .. Len(s) + 1
  PROVE  /\ SubSeq(s, m, Len(s)) \in Seq(C) /\ Len(SubSeq(s, m, Len(s))) = Len(s) + 1 - m
         /\ \A u \in 1 .. Len(s) + 1 - m : SubSeq(s, m, Len(s))[u] = s[m + u - 1]
<1> DEFINE N == Len(s)
           t == SubSeq(s, m, N)
<1>1. N \in Nat /\ m \in Int /\ \A u \in m .. N : s[u] \in C
  OBVIOUS
<1>2. t \in Seq(C) /\ Len(t) = (IF m <= N THEN N - m + 1 ELSE 0) /\ \A u \in 1 .. N - m + 1 : t[u] = s[m + u - 1]
  BY <1>1, SubSeqProperties
<1> HIDE DEF t
<1>3. Len(t) = N + 1 - m /\ N - m + 1 = N + 1 - m
  BY <1>1, <1>2
<1> QED  BY <1>2, <1>3, Zenon DEF t, N

LEMMA RestOfJoin ==
  ASSUME NEW C, NEW s \in Seq(C), NEW t \in Seq(C), NEW m \in 1 .. Len(s) + 1
  PROVE  SubSeq(s \o t, m, Len(s \o t)) = SubSeq(s, m, Len(s)) \o t
<1> DEFINE w == s \o t
           a == SubSeq(s, m, Len(s))
           b == SubSeq(w, m, Len(w))
           N == Len(s)
           M == Len(t)
<1>1. /\ N \in Nat /\ M \in Nat /\ w \in Seq(C) /\ Len(w) = N + M
      /\ \A u \in 1 .. N : w[u] = s[u]
      /\ \A u \in 1 .. M : w[N + u] = t[u]
  OBVIOUS
<1> HIDE DEF w
<1>2. a \in Seq(C) /\ Len(a) = N + 1 - m /\ \A u \in 1 .. N + 1 - m : a[u] = s[m + u - 1]
  BY RestIs
<1>3. b \in Seq(C) /\ Len(b) = N + M + 1 - m /\ \A u \in 1 .. N + M + 1 - m : b[u] = w[m + u - 1]
  <2>1. m \in 1 .. Len(w) + 1
    BY <1>1
  <2> HIDE DEF b
  <2>2. b \in Seq(C) /\ Len(b) = Len(w) + 1 - m /\ \A u \in 1 .. Len(w) + 1 - m : b[u] = w[m + u - 1]
    BY <1>1, <2>1, RestIs DEF b
  <2> QED  BY <1>1, <2>2
<1> HIDE DEF a, b
<1>4. Len(b) = Len(a) + Len(t)
  BY <1>1, <1>2, <1>3
<1>5. ASSUME NEW u \in 1 .. Len(a) PROVE b[u] = a[u]
  <2>1. u \in 1 .. N + 1 - m /\ u \in 1 .. N + M + 1 - m /\ m + u - 1 \in 1 .. N
    BY <1>1, <1>2
  <2> QED  BY <1>1, <1>2, <1>3, <2>1, Zenon
<1>6. ASSUME NEW u \in 1 .. Len(t) PROVE b[Len(a) + u] = t[u]
  <2>1. Len(a) + u \in 1 .. N + M + 1 - m /\ m + (Len(a) + u) - 1 = N + u
    BY <1>1, <1>2
  <2>2. b[Len(a) + u] = w[m + (Len(a) + u) - 1]
    BY <1>3, <2>1, Zenon
  <2> QED  BY <1>1, <2>1, <2>2, Zenon
<1>7. b = a \o t
  BY <1>2, <1>3, <1>4, <1>5, <1>6, JoinIs
<1> QED  BY <1>7, Zenon DEF a, b, w

LEMMA FlattenPart ==
  ASSUME NEW S, NEW ss \in Seq(Seq(S)), NEW m \in 1 .. Len(ss)
  PROVE  Len(ss[m]) <= Len(FlattenSeq(ss)) /\ Len(FlattenSeq(ss)) \in Nat
<1> DEFINE k1 == Len(ss[m])
           front == SubSeq(ss, 1, m - 1)
           x == Len(FlattenSeq(ss))
           y == Len(FlattenSeq(front))
<1>1. ss[m] \in Seq(S) /\ m - 1 \in 0 .. Len(ss)
  OBVIOUS
<1>2. k1 \in Nat
  BY <1>1
<1>3. front \in Seq(Seq(S))
  BY <1>1, UptoProperties
<1>4. FlattenSeq(front) \in Seq(S) /\ FlattenSeq(ss) \in Seq(S)
  BY <1>3, FlattenType
<1>5. x \in Nat /\ y \in Nat
  BY <1>4
<1>6. CASE k1 = 0
  BY <1>5, <1>6
<1>7. CASE k1 # 0
  <2>1. k1 \in 1 .. Len(ss[m])
    BY <1>2, <1>7
  <2>2. y + k1 \in 1 .. x
    BY <2>1, FlattenAt
  <2> HIDE DEF k1, x, y
  <2>3. k1 <= x /\ x \in Nat
    BY <1>2, <1>5, <2>2
  <2> QED  BY <2>3 DEF k1, x
<1> QED  BY <1>6, <1>7

-----------------------------------------------------------------------------
(* What the pieces of a URL mean multiplies: URL number m has the digits of  *)
(* m in the mixed radix whose digits are the pieces, so one more piece is    *)
(* one more digit, and every URL so far is continued with every item.        *)

Multiplying(means, n1, f) == [m \in 0 .. n1 |-> IF m = 0 THEN 1 ELSE f[m - 1] * Len(means[m])]

SameUpto(s, t, n1) == \A m \in 1 .. n1 : s[m] = t[m]
Solves(means, n1, f) == f = Multiplying(means, n1, f)

LEMMA CountIsRecursive ==
  ASSUME NEW means
  PROVE  URLs!Count(means) = (CHOOSE f : f = Multiplying(means, Len(means), f))[Len(means)]
BY Zenon DEF URLs!Count, Multiplying

LEMMA MultiplyingExists ==
  ASSUME NEW means, NEW N \in Nat
  PROVE  \E f : f = Multiplying(means, N, f)
<1> DEFINE S == {m \in 0 .. N : \E f : f = Multiplying(means, m, f)}
<1>1. 0 \in S
  <2>1. [m \in 0 .. 0 |-> 1] = Multiplying(means, 0, [m \in 0 .. 0 |-> 1])
    BY DEF Multiplying
  <2> QED  BY <2>1
<1>2. ASSUME NEW u \in 0 .. N - 1, u \in S PROVE u + 1 \in S
  <2>1. PICK f : f = Multiplying(means, u, f)
    BY <1>2
  <2> DEFINE g == [m \in 0 .. u + 1 |->
                     IF m <= u THEN f[m] ELSE IF m = 0 THEN 1 ELSE f[m - 1] * Len(means[m])]
  <2>2. \A m \in 0 .. u : f[m] = IF m = 0 THEN 1 ELSE f[m - 1] * Len(means[m])
    BY <2>1 DEF Multiplying
  <2>3. ASSUME NEW m \in 0 .. u + 1
        PROVE  g[m] = IF m = 0 THEN 1 ELSE g[m - 1] * Len(means[m])
    <3>1. m # 0 => m - 1 \in 0 .. u /\ m - 1 <= u
      OBVIOUS
    <3>2. m # 0 => g[m - 1] = f[m - 1]
      BY <3>1
    <3> QED  BY <2>2, <3>2
  <2>4. g = [m \in 0 .. u + 1 |-> g[m]]
    OBVIOUS
  <2>5. g = Multiplying(means, u + 1, g)
    <3> HIDE DEF g
    <3> QED  BY <2>3, <2>4 DEF Multiplying
  <2> QED  BY <2>5
<1> HIDE DEF S
<1>3. N \in S
  BY <1>1, <1>2, Upwards
<1> QED  BY <1>3 DEF S

\* Any solution of the recursion over the first N gives the same counts.
LEMMA MultiplyingOnce ==
  ASSUME NEW means, NEW more, NEW N \in Nat, NEW M \in Nat, N <= M, SameUpto(means, more, N),
         NEW f, Solves(means, N, f), NEW g, Solves(more, M, g)
  PROVE  f[N] = g[N]
<1> DEFINE S == {m \in 0 .. N : f[m] = g[m]}
<1>1. \A m \in 0 .. N : f[m] = IF m = 0 THEN 1 ELSE f[m - 1] * Len(means[m])
  BY DEF Multiplying, Solves
<1>2. \A m \in 0 .. M : g[m] = IF m = 0 THEN 1 ELSE g[m - 1] * Len(more[m])
  BY DEF Multiplying, Solves
<1>0. \A m \in 1 .. N : means[m] = more[m]
  BY DEF SameUpto
<1>3. 0 \in S
  BY <1>1, <1>2
<1>4. ASSUME NEW m \in 0 .. N - 1, m \in S PROVE m + 1 \in S
  <2>1. m + 1 \in 0 .. N /\ m + 1 \in 0 .. M /\ m + 1 # 0 /\ (m + 1) - 1 = m /\ m + 1 \in 1 .. N
    OBVIOUS
  <2>2. f[m + 1] = f[m] * Len(means[m + 1])
    BY <1>1, <2>1
  <2>3. g[m + 1] = g[m] * Len(more[m + 1])
    BY <1>2, <2>1
  <2>4. means[m + 1] = more[m + 1] /\ f[m] = g[m]
    BY <1>0, <1>4, <2>1
  <2> QED  BY <2>1, <2>2, <2>3, <2>4
<1> HIDE DEF S
<1>5. N \in S
  BY <1>3, <1>4, Upwards
<1> QED  BY <1>5 DEF S

LEMMA CountStep ==
  ASSUME NEW T, NEW means \in Seq(T), NEW items \in T
  PROVE  /\ URLs!Count(<< >>) = 1
         /\ URLs!Count(Append(means, items)) = URLs!Count(means) * Len(items)
<1> DEFINE more == Append(means, items)
           N == Len(means)
           F(s) == CHOOSE f : f = Multiplying(s, Len(s), f)
<1>1. N \in Nat /\ Len(more) = N + 1 /\ more[N + 1] = items /\ \A m \in 1 .. N : means[m] = more[m]
  OBVIOUS
<1>2. \A s : Len(s) \in Nat => F(s) = Multiplying(s, Len(s), F(s))
  BY MultiplyingExists
<1>3. \A s : URLs!Count(s) = F(s)[Len(s)]
  BY CountIsRecursive
<1> HIDE DEF F, more
<1>4. URLs!Count(<< >>) = 1
  <2>1. Len(<< >>) = 0
    OBVIOUS
  <2>2. F(<< >>) = Multiplying(<< >>, 0, F(<< >>))
    BY <1>2, <2>1
  <2>3. F(<< >>)[0] = 1
    <3> HIDE DEF N
    <3>1. PICK f : f = F(<< >>)
      OBVIOUS
    <3>2. f = Multiplying(<< >>, 0, f)
      BY <2>2, <3>1
    <3>3. f[0] = 1
      BY <3>2 DEF Multiplying
    <3> QED  BY <3>1, <3>3
  <2> QED  BY <1>3, <2>1, <2>3
<1> DEFINE f == F(means)
           g == F(more)
<1>5. f = Multiplying(means, N, f) /\ g = Multiplying(more, N + 1, g)
  BY <1>1, <1>2
<1> HIDE DEF f, g
<1>6. f[N] = g[N]
  <2>1. N <= N + 1 /\ N + 1 \in Nat
    BY <1>1
  <2>2. N \in Nat /\ SameUpto(means, more, N)
    BY <1>1 DEF SameUpto
  <2> DEFINE M == N + 1
  <2>3. M \in Nat /\ N <= M /\ Solves(means, N, f) /\ Solves(more, M, g)
    BY <1>5, <2>1 DEF Solves
  <2> HIDE DEF N, M
  <2>4. N \in Nat
    BY <2>2
  <2>5. SameUpto(means, more, N)
    BY <2>2
  <2>6. M \in Nat
    BY <2>3
  <2>7. N <= M
    BY <2>3
  <2>8. Solves(means, N, f)
    BY <2>3
  <2>9. Solves(more, M, g)
    BY <2>3
  <2> QED  BY ONLY <2>4, <2>5, <2>6, <2>7, <2>8, <2>9, MultiplyingOnce
<1>7. g[N + 1] = g[N] * Len(more[N + 1])
  <2>1. N + 1 \in 0 .. N + 1 /\ N + 1 # 0 /\ (N + 1) - 1 = N
    BY <1>1
  <2> QED  BY <1>5, <2>1 DEF Multiplying
<1>8. URLs!Count(means) = f[N] /\ URLs!Count(more) = g[N + 1]
  BY <1>1, <1>3 DEF f, g
<1> QED  BY <1>1, <1>4, <1>6, <1>7, <1>8 DEF more

LEMMA CountIs ==
  ASSUME NEW T, \A e \in T : Len(e) \in Nat \ {0}, NEW means \in Seq(T)
  PROVE  URLs!Count(means) \in Nat \ {0}
<1> DEFINE N == Len(means)
           front(m) == SubSeq(means, 1, m)
           S == {m \in 0 .. N : URLs!Count(front(m)) \in Nat \ {0}}
<1>1. 0 \in S
  <2>1. front(0) = << >> /\ 0 \in 0 .. N
    BY UptoProperties
  <2>2. URLs!Count(<< >>) = 1
    <3>1. << >> \in Seq({0}) /\ 0 \in {0}
      OBVIOUS
    <3> QED  BY <3>1, CountStep
  <2>3. URLs!Count(front(0)) = 1
    BY <2>1, <2>2, Zenon
  <2> HIDE DEF front
  <2> QED  BY <2>1, <2>3
<1>2. ASSUME NEW m \in 0 .. N - 1, m \in S PROVE m + 1 \in S
  <2>1. m \in 0 .. N /\ m < N /\ m + 1 \in 1 .. N /\ m + 1 \in 0 .. N
    OBVIOUS
  <2>2. front(m) \in Seq(T) /\ front(m + 1) = Append(front(m), means[m + 1]) /\ means[m + 1] \in T
    BY <2>1, UptoProperties
  <2>3. URLs!Count(front(m + 1)) = URLs!Count(front(m)) * Len(means[m + 1])
    BY <2>2, CountStep
  <2> DEFINE x == URLs!Count(front(m))
             y == Len(means[m + 1])
  <2>4. x \in Nat \ {0} /\ y \in Nat \ {0}
    BY <1>2, <2>2
  <2> HIDE DEF x, y
  <2>5. x * y \in Nat \ {0}
    BY <2>4
  <2> QED  BY <2>1, <2>3, <2>5 DEF x, y
<1> HIDE DEF S
<1>3. N \in S
  <2>1. N \in Nat /\ N \in 0 .. N
    OBVIOUS
  <2> QED  BY <1>1, <1>2, <2>1, Upwards
<1>4. front(N) = means
  BY SubSeqFull
<1> QED  BY <1>3, <1>4 DEF S

\* The digit of the number m at a place, in the radix of the lists.
PlaceValue(means, p) == URLs!Count(SubSeq(means, p + 1, Len(means)))
DigitAt(means, m, p) == ((m \div PlaceValue(means, p)) % Len(means[p])) + 1
Chosen(means, m) == [p \in DOMAIN means |-> means[p][DigitAt(means, m, p)]]

LEMMA URLIs ==
  ASSUME NEW means, NEW m
  PROVE  URLs!URL(means, m) = FlattenSeq(Chosen(means, m))
<1>1. \A s : URLs!FlattenSeq(s) = FlattenSeq(s)
  BY Zenon DEF URLs!FlattenSeq, FlattenSeq
<1> QED  BY <1>1, Zenon DEF URLs!URL, Chosen, DigitAt, PlaceValue

\* None of the lists is empty.
Radix(T) == \A e \in T : Len(e) \in Nat \ {0}

LEMMA ChosenType ==
  ASSUME NEW C, NEW T, T \subseteq Seq(Seq(C)), Radix(T), NEW means \in Seq(T), NEW m \in Nat
  PROVE  /\ Chosen(means, m) \in Seq(Seq(C)) /\ Len(Chosen(means, m)) = Len(means)
         /\ \A p \in 1 .. Len(means) : PlaceValue(means, p) \in Nat \ {0} /\ DigitAt(means, m, p) \in 1 .. Len(means[p])
<1> DEFINE P == Len(means)
           B == Seq(C)
<1>1. P \in Nat /\ DOMAIN means = 1 .. P /\ \A p \in 1 .. P : means[p] \in T
  OBVIOUS
<1>2. ASSUME NEW p \in 1 .. P PROVE PlaceValue(means, p) \in Nat \ {0}
  <2>1. \A k1 \in p + 1 .. P : means[k1] \in T
    BY <1>1
  <2>2. p + 1 \in Int /\ P \in Int
    BY <1>1
  <2>3. SubSeq(means, p + 1, P) \in Seq(T)
    BY <2>1, <2>2, SubSeqProperties
  <2> DEFINE x == SubSeq(means, p + 1, P)
  <2> HIDE DEF x
  <2>4. URLs!Count(x) \in Nat \ {0}
    BY <2>3, CountIs DEF Radix, x
  <2> QED  BY <2>4 DEF PlaceValue, x
<1>3. ASSUME NEW p \in 1 .. P PROVE DigitAt(means, m, p) \in 1 .. Len(means[p])
  <2> DEFINE x == PlaceValue(means, p)
             y == Len(means[p])
  <2>1. x \in Nat \ {0} /\ y \in Nat \ {0}
    BY <1>1, <1>2 DEF Radix
  <2> HIDE DEF x, y
  <2>2. ((m \div x) % y) + 1 \in 1 .. y
    BY <2>1
  <2> QED  BY <2>2 DEF DigitAt, x, y
<1>4. ASSUME NEW p \in 1 .. P PROVE means[p][DigitAt(means, m, p)] \in B
  <2> DEFINE y == means[p]
             k1 == DigitAt(means, m, p)
  <2>1. k1 \in 1 .. Len(y) /\ y \in Seq(B)
    BY <1>1, <1>3
  <2> HIDE DEF y, k1, B
  <2>2. y[k1] \in B
    BY <2>1
  <2> QED  BY <2>2 DEF y, k1
<1>5. Chosen(means, m) = [p \in 1 .. P |-> means[p][DigitAt(means, m, p)]]
  BY <1>1, Zenon DEF Chosen
<1> HIDE DEF B, P
<1>6. Chosen(means, m) \in [1 .. P -> B]
  BY <1>4, <1>5
<1>7. Chosen(means, m) \in Seq(B) /\ Len(Chosen(means, m)) = P
  BY <1>1, <1>6, SeqDef, LenProperties
<1> QED  BY <1>2, <1>3, <1>7 DEF P, B

LEMMA PlacesStep ==
  ASSUME NEW T, NEW means \in Seq(T), NEW items \in T, NEW p \in 1 .. Len(means)
  PROVE  PlaceValue(Append(means, items), p) = PlaceValue(means, p) * Len(items)
<1> DEFINE more == Append(means, items)
           P == Len(means)
           s == SubSeq(means, p + 1, P)
           t == SubSeq(more, p + 1, P + 1)
<1>1. /\ P \in Nat /\ more \in Seq(T) /\ Len(more) = P + 1 /\ more[P + 1] = items
      /\ \A k1 \in 1 .. P : more[k1] = means[k1] /\ means[k1] \in T /\ more[k1] \in T
  OBVIOUS
<1> HIDE DEF more
<1>2. s \in Seq(T) /\ Len(s) = P - p /\ \A k1 \in 1 .. P - p : s[k1] = means[p + k1]
  <2>1. p + 1 \in Int /\ P \in Int /\ \A k1 \in p + 1 .. P : means[k1] \in T
    BY <1>1
  <2>2. /\ s \in Seq(T) /\ Len(s) = IF p + 1 <= P THEN P - (p + 1) + 1 ELSE 0
        /\ \A k1 \in 1 .. P - (p + 1) + 1 : s[k1] = means[(p + 1) + k1 - 1]
    BY <2>1, SubSeqProperties
  <2> HIDE DEF s
  <2> QED  BY <1>1, <2>2
<1>3. t \in Seq(T) /\ Len(t) = P + 1 - p /\ \A k1 \in 1 .. P + 1 - p : t[k1] = more[p + k1]
  <2>1. p + 1 \in Int /\ P + 1 \in Int /\ \A k1 \in p + 1 .. P + 1 : more[k1] \in T
    BY <1>1
  <2>2. /\ t \in Seq(T) /\ Len(t) = IF p + 1 <= P + 1 THEN P + 1 - (p + 1) + 1 ELSE 0
        /\ \A k1 \in 1 .. P + 1 - (p + 1) + 1 : t[k1] = more[(p + 1) + k1 - 1]
    BY <2>1, SubSeqProperties
  <2> HIDE DEF t
  <2> QED  BY <1>1, <2>2
<1> HIDE DEF s, t, P
<1>4. t = Append(s, items)
  <2>1. Append(s, items) \in Seq(T) /\ Len(Append(s, items)) = Len(t)
    <3>1. Append(s, items) \in Seq(T) /\ Len(Append(s, items)) = Len(s) + 1
      BY <1>2
    <3>2. p \in Int /\ P \in Int
      BY <1>1
    <3> QED  BY <1>2, <1>3, <3>1, <3>2
  <2>2. ASSUME NEW k1 \in 1 .. Len(t) PROVE t[k1] = Append(s, items)[k1]
    <3>1. CASE k1 <= P - p
      <4>1. Append(s, items)[k1] = s[k1]
        BY <1>2, <3>1
      <4>2. p + k1 \in 1 .. P /\ k1 \in 1 .. P - p
        BY <1>1, <3>1
      <4> QED  BY <1>1, <1>2, <1>3, <2>2, <4>1, <4>2
    <3>2. CASE k1 = P + 1 - p
      <4> DEFINE L == Len(s)
      <4>0. L \in Nat /\ L = P - p /\ P \in Int /\ p \in Int
        BY <1>1, <1>2
      <4>1. Append(s, items)[k1] = items
        <5> HIDE DEF L
        <5>1. k1 = L + 1
          BY <3>2, <4>0
        <5>2. Append(s, items)[L + 1] = items
          BY <1>2 DEF L
        <5> QED  BY <5>1, <5>2, Zenon
      <4>2. p + k1 = P + 1
        BY <1>1, <3>2
      <4> QED  BY <1>1, <1>3, <2>2, <4>1, <4>2
    <3>3. k1 <= P - p \/ k1 = P + 1 - p
      BY <1>1, <1>3, <2>2
    <3> QED  BY <3>1, <3>2, <3>3
  <2> QED  BY <1>3, <2>1, <2>2, SeqEqual
<1>5. URLs!Count(Append(s, items)) = URLs!Count(s) * Len(items)
  BY <1>2, CountStep
<1> QED  BY <1>1, <1>4, <1>5, Zenon DEF PlaceValue, more, s, t, P

\* A further list is one more digit behind the others.
OneMoreDigit(means, items, m) ==
  Chosen(Append(means, items), m) =
    Append(Chosen(means, m \div Len(items)), items[(m % Len(items)) + 1])

LEMMA ChosenStep ==
  ASSUME NEW C, NEW T, T \subseteq Seq(Seq(C)), Radix(T), NEW means \in Seq(T), NEW items \in T, NEW m \in Nat
  PROVE  OneMoreDigit(means, items, m)
<1> DEFINE more == Append(means, items)
           P == Len(means)
           N == Len(items)
           u == m \div N
           s == Chosen(means, u)
           t == Chosen(more, m)
           e == items[(m % N) + 1]
<1>1. /\ P \in Nat /\ more \in Seq(T) /\ Len(more) = P + 1 /\ more[P + 1] = items
      /\ \A k1 \in 1 .. P : more[k1] = means[k1] /\ means[k1] \in T
      /\ DOMAIN more = 1 .. P + 1 /\ DOMAIN means = 1 .. P
  OBVIOUS
<1>2. N \in Nat \ {0}
  BY DEF Radix
<1> HIDE DEF N
<1>3. u \in Nat /\ (m % N) + 1 \in 1 .. N
  <2>1. \A x \in Nat, y \in Nat \ {0} : x \div y \in Nat /\ (x % y) + 1 \in 1 .. y
    BY ONLY TRUE
  <2> QED  BY <1>2, <2>1, Zenon
<1> HIDE DEF u, more
<1>4. s \in Seq(Seq(C)) /\ Len(s) = P
  BY <1>3, ChosenType
<1>5. t \in Seq(Seq(C)) /\ Len(t) = P + 1
  BY <1>1, ChosenType
<1>6. ASSUME NEW p \in 1 .. P PROVE t[p] = s[p]
  <2>1. p \in 1 .. P + 1 /\ more[p] = means[p]
    BY <1>1
  <2>2. PlaceValue(more, p) = PlaceValue(means, p) * N
    BY PlacesStep DEF more, N
  <2>3. PlaceValue(means, p) \in Nat \ {0}
    BY <1>3, ChosenType
  <2> DEFINE x == PlaceValue(means, p)
  <2> HIDE DEF x
  <2>4. m \div (x * N) = u \div x
    BY <1>2, <2>3, DividedTwice DEF x, u
  <2>5. DigitAt(more, m, p) = DigitAt(means, u, p)
    BY <2>1, <2>2, <2>4, Zenon DEF DigitAt, x
  <2>6. t[p] = more[p][DigitAt(more, m, p)]
    BY <1>1, <2>1 DEF Chosen
  <2>7. s[p] = means[p][DigitAt(means, u, p)]
    BY <1>1 DEF Chosen
  <2> QED  BY <2>1, <2>5, <2>6, <2>7, Zenon
<1>7. t[P + 1] = e
  <2>1. SubSeq(more, P + 2, P + 1) = << >>
    <3>1. P + 2 \in Int /\ P + 1 \in Int /\ P + 1 < P + 2
      BY <1>1
    <3> QED  BY <3>1, SubSeqEmpty
  <2>2. PlaceValue(more, P + 1) = 1
    <3>1. URLs!Count(<< >>) = 1
      BY CountStep
    <3>2. (P + 1) + 1 = P + 2
      BY <1>1
    <3> QED  BY <1>1, <2>1, <3>1, <3>2, Zenon DEF PlaceValue
  <2>3. m \div 1 = m
    OBVIOUS
  <2>4. DigitAt(more, m, P + 1) = (m % N) + 1
    BY <1>1, <2>2, <2>3, Zenon DEF DigitAt, N
  <2>5. P + 1 \in 1 .. P + 1
    BY <1>1
  <2>6. t[P + 1] = more[P + 1][DigitAt(more, m, P + 1)]
    BY <1>1, <2>5 DEF Chosen
  <2> QED  BY <1>1, <2>4, <2>6, Zenon
<1>8. e \in Seq(C)
  <2> DEFINE B == Seq(C)
             k1 == (m % N) + 1
  <2>1. items \in Seq(B) /\ k1 \in 1 .. Len(items)
    BY <1>3 DEF N
  <2> HIDE DEF B, k1
  <2>2. items[k1] \in B
    BY <2>1
  <2> QED  BY <2>2 DEF B, k1
<1> HIDE DEF s, t, e
<1>9. t = Append(s, e)
  <2> DEFINE B == Seq(C)
  <2>1. s \in Seq(B) /\ t \in Seq(B) /\ e \in B
    BY <1>4, <1>5, <1>8
  <2> HIDE DEF B, P
  <2>2. P \in Nat /\ Len(s) = P /\ Len(t) = P + 1
    BY <1>1, <1>4, <1>5
  <2>3. Append(s, e) \in Seq(B) /\ Len(Append(s, e)) = Len(t)
    BY <2>1, <2>2
  <2>4. ASSUME NEW p \in 1 .. Len(t) PROVE t[p] = Append(s, e)[p]
    <3>1. CASE p \in 1 .. P
      BY <1>6, <2>1, <2>2, <3>1
    <3>2. CASE p = P + 1
      BY <1>7, <2>1, <2>2, <3>2
    <3> QED  BY <2>2, <2>4, <3>1, <3>2
  <2> QED  BY <2>1, <2>3, <2>4, SeqEqual
<1> QED  BY <1>9, Zenon DEF OneMoreDigit, s, t, e, u, N, more

LEMMA ProductType ==
  ASSUME NEW C, NEW T, T \subseteq Seq(Seq(C)), Radix(T), NEW means \in Seq(T)
  PROVE  /\ URLs!Product(means) \in Seq(Seq(C)) /\ Len(URLs!Product(means)) = URLs!Count(means)
         /\ \A m \in 1 .. URLs!Count(means) : URLs!Product(means)[m] = FlattenSeq(Chosen(means, m - 1))
<1> DEFINE N == URLs!Count(means)
           s == URLs!Product(means)
           B == Seq(C)
<1>1. N \in Nat
  BY CountIs DEF Radix
<1>2. s = [m \in 1 .. N |-> URLs!URL(means, m - 1)]
  BY Zenon DEF URLs!Product
<1> HIDE DEF N, s
<1>3. ASSUME NEW m \in 1 .. N PROVE s[m] = FlattenSeq(Chosen(means, m - 1)) /\ s[m] \in B
  <2>1. s[m] = URLs!URL(means, m - 1)
    BY <1>2
  <2>2. s[m] = FlattenSeq(Chosen(means, m - 1))
    BY <2>1, URLIs
  <2>3. m - 1 \in Nat
    BY <1>1
  <2>4. Chosen(means, m - 1) \in Seq(Seq(C))
    BY <2>3, ChosenType
  <2> QED  BY <2>2, <2>4, FlattenType
<1> HIDE DEF B
<1>4. s = [m \in 1 .. N |-> s[m]]
  BY <1>2
<1>5. s \in [1 .. N -> B]
  BY <1>3, <1>4
<1>6. s \in Seq(B) /\ Len(s) = N
  BY <1>1, <1>5, SeqDef, LenProperties
<1> QED  BY <1>3, <1>6 DEF N, s, B

LEMMA ProductOfNone ==
  URLs!Product(<< >>) = << << >> >>
<1>1. URLs!Count(<< >>) = 1
  <2>1. << >> \in Seq({0}) /\ 0 \in {0}
    OBVIOUS
  <2> QED  BY <2>1, CountStep
<1>2. \A m : URLs!URL(<< >>, m) = << >>
  <2>1. \A m : Chosen(<< >>, m) = << >>
    BY DEF Chosen
  <2> QED  BY <2>1, URLIs, FlattenEmpty
<1>3. URLs!Product(<< >>) = [m \in 1 .. 1 |-> << >>]
  BY <1>1, <1>2 DEF URLs!Product
<1> QED  BY <1>3

\* Every URL of the lists so far is continued with every item of one more.
LEMMA ProductStep ==
  ASSUME NEW C, NEW T, T \subseteq Seq(Seq(C)), Radix(T), NEW means \in Seq(T), NEW items \in T
  PROVE  Extends(URLs!Product(Append(means, items)), URLs!Product(means), items)
<1> DEFINE more == Append(means, items)
           s == URLs!Product(means)
           t == URLs!Product(more)
           N == Len(items)
           M == URLs!Count(means)
           B == Seq(C)
<1>1. N \in Nat \ {0} /\ items \in Seq(B)
  BY DEF Radix
<1>2. more \in Seq(T)
  OBVIOUS
<1>3. s \in Seq(B) /\ Len(s) = M /\ \A m \in 1 .. M : s[m] = FlattenSeq(Chosen(means, m - 1))
  BY ProductType
<1>4. /\ t \in Seq(B) /\ Len(t) = URLs!Count(more)
      /\ \A m \in 1 .. URLs!Count(more) : t[m] = FlattenSeq(Chosen(more, m - 1))
  BY <1>2, ProductType
<1>5. URLs!Count(more) = M * N
  BY CountStep
<1>6. M \in Nat
  BY CountIs DEF Radix
<1> HIDE DEF s, t, M, N
<1>7. ASSUME NEW a \in 1 .. M, NEW b \in 1 .. N PROVE t[(a - 1) * N + b] = s[a] \o items[b]
  <2> DEFINE q == (a - 1) * N + b
  <2>1. q \in 1 .. M * N /\ (q - 1) \div N = a - 1 /\ (q - 1) % N = b - 1
    <3>1. N \in Nat
      BY <1>1
    <3> QED  BY ONLY <1>6, <3>1, a \in 1 .. M, b \in 1 .. N, PlaceInGrid DEF IsPlace
  <2> HIDE DEF q
  <2>2. q - 1 \in Nat /\ a - 1 \in Nat /\ (b - 1) + 1 = b
    BY <1>1, <1>6, <2>1
  <2>3. Chosen(more, q - 1) = Append(Chosen(means, a - 1), items[b])
    <3>1. Chosen(more, q - 1) = Append(Chosen(means, (q - 1) \div N), items[((q - 1) % N) + 1])
      <4> DEFINE u == q - 1
      <4>1. u \in Nat
        BY <2>2
      <4> HIDE DEF u
      <4>2. OneMoreDigit(means, items, u)
        BY <4>1, ChosenStep
      <4> QED  BY <4>2, Zenon DEF OneMoreDigit, u, N
    <3> QED  BY <2>1, <2>2, <3>1, Zenon
  <2>4. Chosen(means, a - 1) \in Seq(B)
    BY <2>2, ChosenType
  <2>5. items[b] \in B
    <3> HIDE DEF B
    <3> QED  BY <1>1 DEF N
  <2>6. FlattenSeq(Chosen(more, q - 1)) = FlattenSeq(Chosen(means, a - 1)) \o items[b]
    BY <2>3, <2>4, <2>5, FlattenAppend
  <2> QED  BY <1>3, <1>4, <1>5, <2>1, <2>6, Zenon DEF q
<1> HIDE DEF B
<1>8. Listed(t)
  BY <1>4 DEF Listed
<1> QED  BY <1>3, <1>4, <1>5, <1>7, <1>8, Zenon DEF Extends, s, t, M, N

\* Multiply continues every prefix with every item.
LEMMA MultiplyExtends ==
  ASSUME NEW C, NEW a \in Seq(Seq(C)), NEW b \in Seq(Seq(C))
  PROVE  URLs!Multiply(a, b) \in Seq(Seq(C)) /\ Extends(URLs!Multiply(a, b), a, b)
<1> DEFINE N == Len(a)
           M == Len(b)
           S == Seq(C)
           J(p, m) == a[p] \o b[m]
           part1(p) == [m \in 1 .. M |-> J(p, m)]
           ss == [p \in 1 .. N |-> part1(p)]
<1>1. N \in Nat /\ M \in Nat /\ DOMAIN a = 1 .. N /\ DOMAIN b = 1 .. M
  OBVIOUS
<1>2. URLs!Multiply(a, b) = FlattenSeq(ss)
  <2>1. \A s : URLs!FlattenSeq(s) = FlattenSeq(s)
    BY Zenon DEF URLs!FlattenSeq, FlattenSeq
  <2>2. URLs!Multiply(a, b) = URLs!FlattenSeq(ss)
    BY <1>1 DEF URLs!Multiply
  <2> HIDE DEF ss
  <2> QED  BY <2>1, <2>2, Zenon
<1>3. ASSUME NEW p \in 1 .. N, NEW m \in 1 .. M PROVE J(p, m) \in S
  <2>1. a \in Seq(S) /\ b \in Seq(S)
    OBVIOUS
  <2> DEFINE B == S
  <2>2. a[p] \in S /\ b[m] \in S
    <3> HIDE DEF S
    <3> QED  BY <2>1
  <2> DEFINE x == a[p]
             y == b[m]
  <2> HIDE DEF x, y
  <2>3. x \o y \in Seq(C)
    BY <2>2 DEF x, y
  <2> QED  BY <2>3 DEF x, y
<1> HIDE DEF S, N, M
<1>4. N \in Nat /\ M \in Nat
  BY <1>1
<1>5. ASSUME NEW p \in 1 .. N PROVE part1(p) \in Seq(S) /\ Len(part1(p)) = M /\ \A m \in 1 .. M : part1(p)[m] = J(p, m)
  <2> DEFINE s == part1(p)
  <2> HIDE DEF J
  <2>0. \A m \in 1 .. M : s[m] = J(p, m)
    OBVIOUS
  <2>2. s \in [1 .. M -> S]
    BY <1>3
  <2> HIDE DEF s
  <2>3. s \in Seq(S) /\ Len(s) = M
    BY ONLY <1>4, <2>2, SeqDef, LenProperties
  <2> QED  BY <2>0, <2>3 DEF s
<1>6. ss \in Seq(Seq(S)) /\ Len(ss) = N /\ \A p \in 1 .. N : Len(ss[p]) = M /\ \A m \in 1 .. M : ss[p][m] = J(p, m)
  <2> HIDE DEF part1, J
  <2>1. \A p \in 1 .. N : ss[p] = part1(p)
    OBVIOUS
  <2> DEFINE B == Seq(S)
  <2>2. \A p \in 1 .. N : ss[p] \in B
    BY <1>5, <2>1
  <2>3. ss = [p \in 1 .. N |-> ss[p]]
    OBVIOUS
  <2> HIDE DEF ss, B
  <2>4. ss \in [1 .. N -> B]
    BY <2>2, <2>3
  <2>5. ss \in Seq(B) /\ Len(ss) = N
    BY <1>1, <2>4, SeqDef, LenProperties
  <2> QED  BY <1>5, <2>1, <2>5 DEF B
<1> DEFINE whole == FlattenSeq(ss)
<1> HIDE DEF ss, J
<1>7. Len(whole) = N * M
  BY <1>1, <1>6, FlattenLength
<1>8. whole \in Seq(S)
  BY <1>6, FlattenType
<1>9. ASSUME NEW p \in 1 .. N, NEW m \in 1 .. M PROVE whole[(p - 1) * M + m] = J(p, m)
  <2>1. whole[(p - 1) * M + m] = ss[p][m]
    <3>1. ss \in Seq(Seq(S)) /\ p \in 1 .. Len(ss)
      BY <1>6, <1>9
    <3>2. \A w \in 1 .. Len(ss) : Len(ss[w]) = M
      BY <1>6
    <3> QED  BY ONLY <1>4, <3>1, <3>2, m \in 1 .. M, FlattenGrid
  <2> QED  BY <1>6, <2>1
<1> HIDE DEF whole
<1>10. Listed(whole)
  BY <1>8 DEF Listed
<1>11. Extends(whole, a, b)
  BY <1>7, <1>9, <1>10, Zenon DEF Extends, J, N, M
<1> QED  BY <1>2, <1>8, <1>11, Zenon DEF whole, S

-----------------------------------------------------------------------------
(* Where a character is first, and what is between separators and brackets *)

\* Where a character is first, 0 if it is nowhere.
First(text, c, m) ==
  \/ m = 0 /\ \A u \in 1 .. Len(text) : text[u] # c
  \/ m \in 1 .. Len(text) /\ text[m] = c /\ \A u \in 1 .. m - 1 : text[u] # c

LEMMA FirstOnce ==
  ASSUME NEW text, Len(text) \in Nat, NEW c, NEW m, NEW p, First(text, c, m), First(text, c, p)
  PROVE  m = p
<1>1. ASSUME m \in 1 .. Len(text), p \in 1 .. Len(text), text[m] = c, \A u \in 1 .. p - 1 : text[u] # c
      PROVE  m >= p
  BY <1>1
<1>2. ASSUME m \in 1 .. Len(text), p \in 1 .. Len(text), text[p] = c, \A u \in 1 .. m - 1 : text[u] # c
      PROVE  p >= m
  BY <1>2
<1> QED  BY <1>1, <1>2 DEF First

LEMMA IndexIsFirst ==
  ASSUME NEW text, Len(text) \in Nat, NEW c
  PROVE  First(text, c, URLs!Index(text, c))
<1> DEFINE T == {m \in 1 .. Len(text) : text[m] = c}
           x == URLs!Index(text, c)
<1>1. x = IF T # {} THEN URLs!Min(T) ELSE 0
  BY Zenon DEF URLs!Index, URLs!SelectInSeq
<1>2. T \subseteq Nat
  OBVIOUS
<1>3. ASSUME T # {} PROVE URLs!Min(T) \in T /\ \A r \in T : URLs!Min(T) <= r
  <2> HIDE DEF T
  <2>1. \E m \in T : \A r \in T : m <= r
    BY <1>2, <1>3, LeastElement
  <2> QED  BY <2>1, Zenon DEF URLs!Min
<1> HIDE DEF x
<1>4. CASE T = {}
  <2>1. x = 0
    BY <1>1, <1>4
  <2> QED  BY <1>4, <2>1 DEF First, x
<1>5. CASE T # {}
  <2>1. x \in T /\ \A r \in T : x <= r
    BY <1>1, <1>3, <1>5, Zenon
  <2>2. x \in 1 .. Len(text) /\ text[x] = c
    BY <2>1
  <2>3. ASSUME NEW u \in 1 .. x - 1, text[u] = c PROVE FALSE
    <3>1. u \in T /\ u < x
      BY <2>2, <2>3
    <3>2. x <= u
      BY <2>1, <3>1
    <3> QED  BY <2>2, <2>3, <3>1, <3>2
  <2> QED  BY <2>2, <2>3 DEF First, x
<1> QED  BY <1>4, <1>5, Zenon

LEMMA IndexAt ==
  ASSUME NEW text, Len(text) \in Nat, NEW c, NEW m, First(text, c, m)
  PROVE  URLs!Index(text, c) = m
BY IndexIsFirst, FirstOnce

\* What stands before a character.
Without(text, c) == \A u \in 1 .. Len(text) : text[u] # c

LEMMA BeforeWithout ==
  ASSUME NEW text, Len(text) \in Nat, NEW c, Without(text, c)
  PROVE  URLs!Before(text, c) = text
<1>1. First(text, c, 0)
  BY DEF First, Without
<1>2. URLs!Index(text, c) = 0
  BY <1>1, IndexAt
<1> QED  BY <1>2, Zenon DEF URLs!Before

LEMMA BeforeJoin ==
  ASSUME NEW C, NEW s \in Seq(C), NEW c \in C, NEW t \in Seq(C)
  PROVE  URLs!Before(s \o (<< c >> \o t), c) = URLs!Before(s, c)
<1> DEFINE w == s \o (<< c >> \o t)
           x == URLs!Index(s, c)
           N == Len(s)
<1>1. N \in Nat /\ w \in Seq(C) /\ Len(w) \in Nat /\ N + 1 <= Len(w) /\ w[N + 1] = c /\ \A u \in 1 .. N : w[u] = s[u]
  <2> DEFINE v == << c >> \o t
  <2>1. v \in Seq(C) /\ Len(v) = 1 + Len(t) /\ v[1] = c
    OBVIOUS
  <2> HIDE DEF v
  <2>2. N \in Nat /\ Len(t) \in Nat
    OBVIOUS
  <2>3. s \o v \in Seq(C) /\ Len(s \o v) = N + Len(v) /\ (\A u \in 1 .. N : (s \o v)[u] = s[u]) /\ (s \o v)[N + 1] = v[1]
    BY <2>1
  <2> QED  BY <2>1, <2>2, <2>3 DEF v
<1> HIDE DEF w
<1>2. First(s, c, x)
  BY IndexIsFirst
<1> HIDE DEF x, N
<1>3. CASE x = 0
  <2>1. \A u \in 1 .. N : s[u] # c
    BY <1>2, <1>3 DEF First, N
  <2>2. First(w, c, N + 1)
    BY <1>1, <2>1 DEF First
  <2>3. URLs!Index(w, c) = N + 1
    BY <1>1, <2>2, IndexAt
  <2>4. N + 1 # 0 /\ (N + 1) - 1 = N
    BY <1>1
  <2>5. URLs!Before(w, c) = SubSeq(w, 1, N)
    BY <2>3, <2>4, Zenon DEF URLs!Before
  <2>6. URLs!Before(s, c) = s
    BY <1>3, Zenon DEF URLs!Before, x
  <2>7. SubSeq(w, 1, N) = s
    <3>1. N \in 0 .. Len(w)
      BY <1>1
    <3>2. SubSeq(w, 1, N) \in Seq(C) /\ Len(SubSeq(w, 1, N)) = N /\ \A u \in 1 .. N : SubSeq(w, 1, N)[u] = w[u]
      BY <1>1, <3>1, UptoProperties
    <3> DEFINE v == SubSeq(w, 1, N)
    <3> HIDE DEF v
    <3>3. v \in Seq(C) /\ Len(v) = Len(s) /\ \A u \in 1 .. Len(v) : v[u] = s[u]
      BY <1>1, <3>2 DEF v, N
    <3>4. v = s
      BY <3>3, SeqEqual
    <3> QED  BY <3>4 DEF v
  <2> QED  BY <2>5, <2>6, <2>7, Zenon DEF w
<1>4. CASE x # 0
  <2>1. x \in 1 .. N /\ s[x] = c /\ \A u \in 1 .. x - 1 : s[u] # c
    BY <1>2, <1>4 DEF First, N
  <2>2. First(w, c, x)
    BY <1>1, <2>1 DEF First
  <2>3. URLs!Index(w, c) = x
    BY <1>1, <2>2, IndexAt
  <2>4. URLs!Before(w, c) = SubSeq(w, 1, x - 1)
    BY <1>4, <2>3, Zenon DEF URLs!Before
  <2>5. URLs!Before(s, c) = SubSeq(s, 1, x - 1)
    BY <1>4, Zenon DEF URLs!Before, x
  <2>6. SubSeq(w, 1, x - 1) = SubSeq(s, 1, x - 1)
    <3> DEFINE a == SubSeq(w, 1, x - 1)
               b == SubSeq(s, 1, x - 1)
    <3>1. x - 1 \in 0 .. Len(w) /\ x - 1 \in 0 .. Len(s) /\ x - 1 \in Nat
      BY <1>1, <2>1 DEF N
    <3>2. a \in Seq(C) /\ Len(a) = x - 1 /\ \A u \in 1 .. x - 1 : a[u] = w[u]
      BY <1>1, <3>1, UptoProperties
    <3>3. b \in Seq(C) /\ Len(b) = x - 1 /\ \A u \in 1 .. x - 1 : b[u] = s[u]
      BY <3>1, UptoProperties
    <3> HIDE DEF a, b
    <3>4. \A u \in 1 .. x - 1 : u \in 1 .. N
      BY <1>1, <2>1
    <3>5. \A u \in 1 .. Len(a) : a[u] = b[u]
      BY <1>1, <3>2, <3>3, <3>4
    <3>6. a = b
      BY <3>2, <3>3, <3>5, SeqEqual
    <3> QED  BY <3>6 DEF a, b
  <2> QED  BY <2>4, <2>5, <2>6, Zenon DEF w
<1> QED  BY <1>3, <1>4

LEMMA BeforeType ==
  ASSUME NEW C, NEW s \in Seq(C), NEW c
  PROVE  URLs!Before(s, c) \in Seq(C)
<1> DEFINE x == URLs!Index(s, c)
<1>1. First(s, c, x)
  BY IndexIsFirst
<1>2. URLs!Before(s, c) = IF x = 0 THEN s ELSE SubSeq(s, 1, x - 1)
  BY Zenon DEF URLs!Before
<1> HIDE DEF x
<1>3. x = 0 \/ x - 1 \in 0 .. Len(s)
  BY <1>1 DEF First
<1>4. x - 1 \in 0 .. Len(s) => SubSeq(s, 1, x - 1) \in Seq(C)
  BY UptoProperties
<1> QED  BY <1>2, <1>3, <1>4

\* The items a text is cut into at a character.
ItemAt(spec, c, m) == URLs!Before(SubSeq(spec, m, Len(spec)), c)
Starts(spec, c, m) == m = 1 \/ spec[m - 1] = c
Cut(spec, c) ==
  [m \in 1 .. Len(spec) + 1 |-> IF Starts(spec, c, m) THEN << ItemAt(spec, c, m) >> ELSE << >>]

LEMMA SetItemsIsCut ==
  ASSUME NEW spec
  PROVE  URLs!SetItems(spec) = FlattenSeq(Cut(spec, ","))
<1>1. \A s : URLs!FlattenSeq(s) = FlattenSeq(s)
  BY Zenon DEF URLs!FlattenSeq, FlattenSeq
<1> QED  BY <1>1, Zenon DEF URLs!SetItems, Cut, Starts, ItemAt

LEMMA CutType ==
  ASSUME NEW C, NEW spec \in Seq(C), NEW c
  PROVE  /\ Cut(spec, c) \in Seq(Seq(Seq(C))) /\ Len(Cut(spec, c)) = Len(spec) + 1
         /\ \A m \in 1 .. Len(spec) + 1 :
              Cut(spec, c)[m] = IF Starts(spec, c, m) THEN << ItemAt(spec, c, m) >> ELSE << >>
<1> DEFINE s == Cut(spec, c)
           N == Len(spec) + 1
           B == Seq(C)
           Q == Seq(B)
<1>1. N \in Nat
  OBVIOUS
<1>2. \A m \in 1 .. N : s[m] = IF Starts(spec, c, m) THEN << ItemAt(spec, c, m) >> ELSE << >>
  BY DEF Cut
<1>3. s = [m \in 1 .. N |-> s[m]]
  BY DEF Cut
<1> HIDE DEF s
<1>4. ASSUME NEW m \in 1 .. N PROVE s[m] \in Q
  <2> DEFINE x == ItemAt(spec, c, m)
  <2>1. x \in B
    <3>1. SubSeq(spec, m, Len(spec)) \in Seq(C)
      BY RestIs
    <3> QED  BY <3>1, BeforeType DEF ItemAt
  <2> HIDE DEF x, B
  <2>2. << x >> \in Q /\ << >> \in Q
    BY <2>1
  <2> QED  BY <1>2, <2>2, Zenon DEF x
<1> HIDE DEF Q, N
<1>5. s \in [1 .. N -> Q]
  BY <1>3, <1>4
<1>6. s \in Seq(Q) /\ Len(s) = N
  BY <1>1, <1>5, SeqDef, LenProperties
<1> QED  BY <1>2, <1>6, Zenon DEF s, Q, B, N

\* A text without the character is one item.
LEMMA CutOne ==
  ASSUME NEW C, NEW x \in Seq(C), NEW c, Without(x, c)
  PROVE  FlattenSeq(Cut(x, c)) = << x >>
<1> DEFINE s == Cut(x, c)
           B == Seq(C)
<1>1. /\ s \in Seq(Seq(B)) /\ Len(s) = Len(x) + 1
      /\ \A m \in 1 .. Len(x) + 1 : s[m] = IF Starts(x, c, m) THEN << ItemAt(x, c, m) >> ELSE << >>
  BY CutType
<1> HIDE DEF s, B
<1>2. 1 \in 1 .. Len(s) /\ Len(x) \in Nat
  BY <1>1
<1>3. s[1] = << x >>
  <2>1. Starts(x, c, 1)
    BY DEF Starts
  <2>2. SubSeq(x, 1, Len(x)) = x
    BY SubSeqFull
  <2>3. ItemAt(x, c, 1) = x
    BY <1>2, <2>2, BeforeWithout DEF ItemAt
  <2> QED  BY <1>1, <1>2, <2>1, <2>3, Zenon
<1>4. ASSUME NEW m \in 1 .. Len(s), m # 1 PROVE s[m] = << >>
  <2>1. m \in 1 .. Len(x) + 1 /\ m - 1 \in 1 .. Len(x)
    BY <1>1, <1>2, <1>4
  <2>2. ~Starts(x, c, m)
    BY <1>4, <2>1 DEF Starts, Without
  <2> QED  BY <1>1, <2>1, <2>2
<1>5. FlattenSeq(s) = s[1]
  BY <1>1, <1>2, <1>4, FlattenOnly
<1> QED  BY <1>3, <1>5, Zenon DEF s

\* One item more, behind the character.
LEMMA CutMore ==
  ASSUME NEW C, NEW a \in Seq(C), NEW c \in C, NEW x \in Seq(C), Without(x, c)
  PROVE  FlattenSeq(Cut(a \o (<< c >> \o x), c)) = FlattenSeq(Cut(a, c)) \o << x >>
<1> DEFINE v == << c >> \o x
           w == a \o v
           P == Len(a)
           M == Len(x)
           Q == Len(w)
           B == Seq(C)
           s == Cut(w, c)
           r == Cut(a, c)
           t == SubSeq(s, P + 2, Q + 1)
<1>1. /\ v \in Seq(C) /\ Len(v) = M + 1 /\ v[1] = c /\ \A u \in 1 .. M : v[u + 1] = x[u]
      /\ P \in Nat /\ M \in Nat
  OBVIOUS
<1> HIDE DEF v
<1>2. w \in Seq(C) /\ Q = P + M + 1 /\ (\A u \in 1 .. P : w[u] = a[u]) /\ w[P + 1] = c
      /\ \A u \in 1 .. M + 1 : w[P + u] = v[u]
  <2>1. w \in Seq(C) /\ Q = P + Len(v) /\ (\A u \in 1 .. P : w[u] = a[u])
        /\ \A u \in 1 .. Len(v) : w[P + u] = v[u]
    BY <1>1
  <2>2. Q = P + M + 1 /\ 1 \in 1 .. M + 1
    BY <1>1, <2>1
  <2> HIDE DEF w
  <2> QED  BY <1>1, <2>1, <2>2
<1>3. ASSUME NEW m \in 1 .. P + 1 PROVE ItemAt(w, c, m) = ItemAt(a, c, m)
  <2>1. SubSeq(w, m, Len(w)) = SubSeq(a, m, Len(a)) \o v
    BY <1>1, RestOfJoin
  <2>2. SubSeq(a, m, Len(a)) \in Seq(C)
    BY RestIs
  <2> DEFINE y == SubSeq(a, m, Len(a))
  <2> HIDE DEF y
  <2>3. y \in Seq(C)
    BY <2>2 DEF y
  <2>4. URLs!Before(y \o (<< c >> \o x), c) = URLs!Before(y, c)
    BY <2>3, BeforeJoin
  <2> QED  BY <2>1, <2>4, Zenon DEF ItemAt, y, v
<1>4. ItemAt(w, c, P + 2) = x
  <2> DEFINE y == a \o << c >>
  <2>1. y \in Seq(C) /\ Len(y) = P + 1 /\ P + 2 \in 1 .. Len(y) + 1
    BY <1>1
  <2>2. w = y \o x
    BY DEF v
  <2> HIDE DEF y, w, P
  <2>3. SubSeq(y \o x, P + 2, Len(y \o x)) = SubSeq(y, P + 2, Len(y)) \o x
    BY <2>1, RestOfJoin
  <2>4. SubSeq(y, P + 2, Len(y)) = << >>
    <3>1. P + 2 \in Int /\ P + 1 \in Int /\ P + 1 < P + 2
      BY <1>1
    <3> QED  BY <2>1, <3>1, SubSeqEmpty
  <2>5. SubSeq(w, P + 2, Len(w)) = x
    <3>1. << >> \o x = x
      BY ConcatEmptySeq
    <3> QED  BY <2>2, <2>3, <2>4, <3>1, Zenon
  <2>6. URLs!Before(x, c) = x
    BY <1>1, BeforeWithout
  <2> QED  BY <2>5, <2>6, Zenon DEF ItemAt
<1>5. /\ s \in Seq(Seq(B)) /\ Len(s) = Q + 1
      /\ \A m \in 1 .. Q + 1 : s[m] = IF Starts(w, c, m) THEN << ItemAt(w, c, m) >> ELSE << >>
  <2> HIDE DEF w
  <2> QED  BY <1>2, CutType
<1>6. /\ r \in Seq(Seq(B)) /\ Len(r) = P + 1
      /\ \A m \in 1 .. P + 1 : r[m] = IF Starts(a, c, m) THEN << ItemAt(a, c, m) >> ELSE << >>
  BY CutType
<1> HIDE DEF w, s, r, B, P, Q, M
<1>7. SubSeq(s, 1, P + 1) = r
  <2>1. P + 1 \in 0 .. Len(s)
    BY <1>1, <1>2, <1>5
  <2> DEFINE y == SubSeq(s, 1, P + 1)
             BB == Seq(B)
  <2>2. y \in Seq(BB) /\ Len(y) = P + 1 /\ \A m \in 1 .. P + 1 : y[m] = s[m]
    BY <1>5, <2>1, UptoProperties
  <2> HIDE DEF y
  <2>3. ASSUME NEW m \in 1 .. P + 1 PROVE y[m] = r[m]
    <3>1. m \in 1 .. Q + 1 /\ (m # 1 => m - 1 \in 1 .. P)
      BY <1>1, <1>2, <2>3
    <3>2. Starts(w, c, m) <=> Starts(a, c, m)
      BY <1>2, <3>1, Zenon DEF Starts
    <3> QED  BY <1>3, <1>5, <1>6, <2>2, <3>1, <3>2, Zenon
  <2> HIDE DEF BB
  <2>4. r \in Seq(BB)
    BY <1>6 DEF BB
  <2>5. y = r
    BY <1>6, <2>2, <2>3, <2>4, SeqEqual
  <2> QED  BY <2>5 DEF y
<1>8. s = r \o t
  <2>1. 1 \in 1 .. Len(s) + 1 /\ P + 1 \in 1 - 1 .. Len(s) /\ Q + 1 \in P + 1 .. Len(s) /\ (P + 1) + 1 = P + 2
    BY <1>1, <1>2, <1>5
  <2>2. SubSeq(s, 1, P + 1) \o SubSeq(s, (P + 1) + 1, Q + 1) = SubSeq(s, 1, Q + 1)
    BY <1>5, <2>1, ConcatAdjacentSubSeq
  <2>3. SubSeq(s, 1, Q + 1) = s
    BY <1>5, SubSeqFull
  <2> QED  BY <1>7, <2>1, <2>2, <2>3, Zenon
<1>9. t \in Seq(Seq(B)) /\ Len(t) = M + 1 /\ \A m \in 1 .. M + 1 : t[m] = s[P + 1 + m]
  <2>1. P + 2 \in 1 .. Len(s) + 1 /\ Q + 1 = Len(s) /\ Len(s) + 1 - (P + 2) = M + 1
    BY <1>1, <1>2, <1>5
  <2>2. t \in Seq(Seq(B)) /\ Len(t) = M + 1 /\ \A m \in 1 .. M + 1 : t[m] = s[(P + 2) + m - 1]
    <3> DEFINE p == P + 2
               y == SubSeq(s, p, Len(s))
    <3>1. p \in 1 .. Len(s) + 1
      BY <2>1
    <3> HIDE DEF p
    <3>2. y \in Seq(Seq(B)) /\ Len(y) = Len(s) + 1 - p /\ \A m \in 1 .. Len(s) + 1 - p : y[m] = s[p + m - 1]
      BY <1>5, <3>1, RestIs
    <3>3. y = t /\ Len(s) + 1 - p = M + 1
      BY <2>1, Zenon DEF p, t
    <3> HIDE DEF y
    <3> QED  BY <3>2, <3>3, Zenon DEF p
  <2>3. \A m \in 1 .. M + 1 : (P + 2) + m - 1 = P + 1 + m
    BY <1>1
  <2> QED  BY <2>2, <2>3, Zenon
<1> HIDE DEF t
<1>10. t[1] = << x >>
  <2>1. P + 2 \in 1 .. Q + 1 /\ P + 1 + 1 = P + 2 /\ 1 \in 1 .. M + 1 /\ (P + 2) - 1 = P + 1
    BY <1>1, <1>2
  <2>2. Starts(w, c, P + 2)
    BY <1>2, <2>1, Zenon DEF Starts
  <2> QED  BY <1>4, <1>5, <1>9, <2>1, <2>2, Zenon
<1>11. ASSUME NEW m \in 1 .. Len(t), m # 1 PROVE t[m] = << >>
  <2>1. /\ m \in 1 .. M + 1 /\ P + 1 + m \in 1 .. Q + 1 /\ (P + 1 + m) - 1 = P + m /\ P + 1 + m # 1
        /\ m - 1 \in 1 .. M /\ (m - 1) + 1 = m
    BY <1>1, <1>2, <1>9, <1>11
  <2>2. w[P + m] = x[m - 1]
    BY <1>1, <1>2, <2>1, Zenon
  <2>3. w[P + m] # c
    BY <2>1, <2>2 DEF Without, M
  <2>4. ~Starts(w, c, P + 1 + m)
    BY <2>1, <2>3, Zenon DEF Starts
  <2> QED  BY <1>5, <1>9, <2>1, <2>4, Zenon
<1>12. FlattenSeq(t) = << x >>
  <2>1. 1 \in 1 .. Len(t)
    BY <1>1, <1>9
  <2> QED  BY <1>9, <1>10, <1>11, <2>1, FlattenOnly
<1>13. FlattenSeq(s) = FlattenSeq(r) \o FlattenSeq(t)
  BY <1>6, <1>8, <1>9, FlattenJoin
<1> QED  BY <1>12, <1>13, Zenon DEF s, r, w, v

LEMMA ToSetIs ==
  ASSUME NEW C, NEW s \in Seq(C), NEW c, c \notin URLs!ToSet(s)
  PROVE  Without(s, c)
<1>1. \A u \in 1 .. Len(s) : u \in DOMAIN s
  OBVIOUS
<1>2. \A u \in DOMAIN s : s[u] \in URLs!ToSet(s)
  BY Zenon DEF URLs!ToSet
<1> QED  BY <1>1, <1>2, Zenon DEF Without

\* What is joined by a character comes apart at it.
Parted(items, c) == [m \in DOMAIN items |-> IF m = 1 THEN items[m] ELSE << c >> \o items[m]]

LEMMA CutJoined ==
  ASSUME NEW C, NEW items \in Seq(Seq(C)), items # << >>, NEW c \in C,
         \A m \in DOMAIN items : Without(items[m], c)
  PROVE  FlattenSeq(Cut(FlattenSeq(Parted(items, c)), c)) = items /\ FlattenSeq(Parted(items, c)) \in Seq(C)
<1> DEFINE B == Seq(C)
           N == Len(items)
           s == Parted(items, c)
           text(m) == FlattenSeq(SubSeq(s, 1, m + 1))
           T == {m \in 0 .. N - 1 : FlattenSeq(Cut(text(m), c)) = SubSeq(items, 1, m + 1)}
<1>1. N \in Nat \ {0} /\ DOMAIN items = 1 .. N /\ \A m \in 1 .. N : items[m] \in B
  <2> HIDE DEF B
  <2>1. items \in Seq(B)
    BY DEF B
  <2> QED  BY <2>1
<1>2. s = [m \in 1 .. N |-> IF m = 1 THEN items[m] ELSE << c >> \o items[m]]
  BY <1>1, Zenon DEF Parted
<1> HIDE DEF s
<1>3. \A m \in 1 .. N : s[m] = (IF m = 1 THEN items[m] ELSE << c >> \o items[m]) /\ s[m] \in B
  <2> SUFFICES ASSUME NEW m \in 1 .. N PROVE s[m] = (IF m = 1 THEN items[m] ELSE << c >> \o items[m]) /\ s[m] \in B
    OBVIOUS
  <2> DEFINE y == items[m]
  <2>1. y \in Seq(C)
    BY <1>1
  <2> HIDE DEF y
  <2>2. << c >> \o y \in B
    BY <2>1
  <2>3. s[m] = IF m = 1 THEN items[m] ELSE << c >> \o items[m]
    BY <1>2
  <2> QED  BY <2>1, <2>2, <2>3 DEF y
<1> HIDE DEF N
<1>4. s \in Seq(B) /\ Len(s) = N
  <2>1. s = [m \in 1 .. N |-> s[m]]
    BY <1>2, <1>3
  <2> HIDE DEF B
  <2>2. s \in [1 .. N -> B]
    BY <1>3, <2>1
  <2>3. N \in Nat
    BY <1>1
  <2> QED  BY ONLY <2>2, <2>3, SeqDef, LenProperties
<1>5. ASSUME NEW m \in 0 .. N - 1 PROVE text(m) \in B /\ items[m + 1] \in B /\ Without(items[m + 1], c) /\ m + 1 \in 1 .. N
  <2>1. m + 1 \in 0 .. Len(s) /\ m + 1 \in 1 .. N
    BY <1>1, <1>4
  <2>2. SubSeq(s, 1, m + 1) \in Seq(Seq(C))
    BY <1>4, <2>1, UptoProperties
  <2>3. text(m) \in B
    BY <2>2, FlattenType
  <2> HIDE DEF B, text
  <2> QED  BY <1>1, <2>1, <2>3
<1>6. 0 \in T
  <2>1. 0 \in 0 .. N - 1 /\ 1 \in 1 .. N /\ 0 + 1 = 1 /\ 0 \in 0 .. Len(s) /\ 0 < Len(s) /\ 0 \in 0 .. Len(items) /\ 0 < Len(items)
    BY <1>1, <1>4 DEF N
  <2>2. SubSeq(s, 1, 0 + 1) = Append(SubSeq(s, 1, 0), s[0 + 1]) /\ SubSeq(s, 1, 0) = << >>
    BY <1>4, <2>1, UptoProperties
  <2>3. SubSeq(items, 1, 0 + 1) = Append(SubSeq(items, 1, 0), items[0 + 1]) /\ SubSeq(items, 1, 0) = << >>
    BY <2>1, UptoProperties
  <2>4. \A e : Append(<< >>, e) = << e >>
    OBVIOUS
  <2>5. s[1] = items[1]
    BY <1>3, <2>1
  <2>6. text(0) = items[1]
    <3>1. FlattenSeq(<< s[1] >>) = s[1]
      BY FlattenOne
    <3> QED  BY <2>1, <2>2, <2>4, <2>5, <3>1, Zenon
  <2>7. SubSeq(items, 1, 0 + 1) = << items[1] >>
    BY <2>1, <2>3, <2>4, Zenon
  <2>8. items[1] \in Seq(C) /\ Without(items[1], c)
    BY <1>1, <2>1
  <2>9. FlattenSeq(Cut(items[1], c)) = << items[1] >>
    BY <2>8, CutOne
  <2>10. FlattenSeq(Cut(text(0), c)) = SubSeq(items, 1, 0 + 1)
    BY <2>6, <2>7, <2>9, Zenon
  <2> HIDE DEF text
  <2> QED  BY <2>1, <2>10
<1>7. ASSUME NEW m \in 0 .. (N - 1) - 1, m \in T PROVE m + 1 \in T
  <2>1. /\ m \in 0 .. N - 1 /\ m + 1 \in 0 .. N - 1 /\ m + 1 \in 0 .. Len(s) - 1 /\ m + 1 \in 0 .. Len(items) /\ m + 1 < Len(items)
        /\ (m + 1) + 1 # 1 /\ (m + 1) + 1 \in 1 .. N
    BY <1>1, <1>4 DEF N
  <2>2. text(m + 1) = text(m) \o s[(m + 1) + 1]
    BY <1>4, <2>1, FlattenUpto
  <2>3. s[(m + 1) + 1] = << c >> \o items[(m + 1) + 1]
    BY <1>3, <2>1
  <2>4. SubSeq(items, 1, (m + 1) + 1) = Append(SubSeq(items, 1, m + 1), items[(m + 1) + 1])
        /\ SubSeq(items, 1, m + 1) \in Seq(B)
    BY <2>1, UptoProperties
  <2> DEFINE x == items[(m + 1) + 1]
             a == text(m)
             f == SubSeq(items, 1, m + 1)
  <2>5. a \in Seq(C) /\ x \in Seq(C) /\ Without(x, c)
    BY <1>5, <2>1
  <2> HIDE DEF x, a, f
  <2>6. FlattenSeq(Cut(a \o (<< c >> \o x), c)) = FlattenSeq(Cut(a, c)) \o << x >>
    BY <2>5, CutMore, ZenonT(60)
  <2>7. f \o << x >> = Append(f, x)
    <3> HIDE DEF B
    <3>1. f \in Seq(B) /\ x \in B
      BY <2>4, <2>5 DEF f, B
    <3> QED  BY <3>1, AppendIsConcat
  <2>8. FlattenSeq(Cut(a, c)) = f
    BY <1>7 DEF a, f
  <2>9. FlattenSeq(Cut(text(m + 1), c)) = SubSeq(items, 1, (m + 1) + 1)
    BY <2>2, <2>3, <2>4, <2>6, <2>7, <2>8, Zenon DEF a, f, x
  <2> HIDE DEF text
  <2> QED  BY <2>1, <2>9
<1> HIDE DEF T
<1>8. N - 1 \in T
  <2>1. N - 1 \in Nat /\ N - 1 \in 0 .. N - 1
    BY <1>1
  <2> QED  BY <1>6, <1>7, <2>1, Upwards
<1>9. SubSeq(s, 1, N) = s /\ SubSeq(items, 1, N) = items /\ (N - 1) + 1 = N
  <2>1. SubSeq(s, 1, N) = s
    BY <1>4, SubSeqFull
  <2>2. SubSeq(items, 1, N) = items
    BY SubSeqFull DEF N
  <2> QED  BY <1>1, <2>1, <2>2
<1>10. FlattenSeq(Cut(FlattenSeq(s), c)) = items
  BY <1>8, <1>9 DEF T
<1>11. FlattenSeq(s) \in Seq(C)
  BY <1>4, FlattenType
<1> QED  BY <1>10, <1>11 DEF s

LEMMA SetItemsOfJoined ==
  ASSUME NEW C, NEW items \in Seq(Seq(C)), items # << >>,
         \A m \in DOMAIN items : "," \notin URLs!ToSet(items[m])
  PROVE  URLs!SetItems(URLs!Joined(items)) = items
<1> DEFINE D == C \cup {","}
           c == ","
<1>1. items \in Seq(Seq(D)) /\ c \in D
  BY SeqMonotonic
<1>2. \A m \in DOMAIN items : items[m] \in Seq(C)
  BY ONLY items \in Seq(Seq(C))
<1>3. \A m \in DOMAIN items : Without(items[m], c)
  BY <1>2, ToSetIs
<1>4. URLs!Joined(items) = FlattenSeq(Parted(items, c))
  <2>1. \A s : URLs!FlattenSeq(s) = FlattenSeq(s)
    BY Zenon DEF URLs!FlattenSeq, FlattenSeq
  <2> QED  BY <2>1, Zenon DEF URLs!Joined, Parted
<1>5. \A s : URLs!SetItems(s) = FlattenSeq(Cut(s, c))
  BY SetItemsIsCut
<1> HIDE DEF c, D
<1>6. FlattenSeq(Cut(FlattenSeq(Parted(items, c)), c)) = items
  BY <1>1, <1>3, CutJoined
<1> QED  BY <1>4, <1>5, <1>6, Zenon

\* What a pattern encloses, when it stands at the front of the rest.
Enclosed(C, whole, piece, opener, closer, behind) ==
  /\ URLs!Index(whole, closer) = Len(piece.text) /\ Len(piece.text) # 0
  /\ SubSeq(whole, 2, Len(piece.text) - 1) = URLs!Between(piece)
  /\ SubSeq(whole, Len(piece.text) + 1, Len(whole)) = behind
  /\ whole[1] = opener /\ URLs!Between(piece) \in Seq(C)

LEMMA EnclosedIs ==
  ASSUME NEW C, NEW piece, piece.text \in Seq(C), NEW behind \in Seq(C),
         NEW opener, NEW closer, opener # closer, URLs!Encloses(piece, opener, closer),
         NEW whole, whole = piece.text \o behind
  PROVE  Enclosed(C, whole, piece, opener, closer, behind)
<1> DEFINE text == piece.text
           L == Len(text)
           spec == SubSeq(text, 2, L - 1)
           w == text \o behind
<1>1. L > 1 /\ text[1] = opener /\ text[L] = closer /\ closer \notin URLs!ToSet(spec) /\ URLs!Between(piece) = spec
  BY Zenon DEF URLs!Encloses, URLs!Delimited, URLs!Between
<1> HIDE DEF text
<1>2. /\ text \in Seq(C) /\ L \in Nat /\ w \in Seq(C) /\ Len(w) \in Nat /\ L <= Len(w)
      /\ \A u \in 1 .. L : w[u] = text[u]
  BY DEF text
<1> HIDE DEF w
<1>3. spec \in Seq(C) /\ Len(spec) = L - 2 /\ \A u \in 1 .. L - 2 : spec[u] = text[u + 1]
  <2>1. L \in Int /\ 2 \in Int /\ L - 1 \in Int /\ \A u \in 2 .. L - 1 : text[u] \in C
    BY <1>2
  <2>2. spec \in Seq(C) /\ Len(spec) = (IF 2 <= L - 1 THEN L - 1 - 2 + 1 ELSE 0)
        /\ \A u \in 1 .. L - 1 - 2 + 1 : spec[u] = text[2 + u - 1]
    BY <2>1, SubSeqProperties
  <2> HIDE DEF spec, L
  <2>3. L - 1 - 2 + 1 = L - 2 /\ Len(spec) = L - 2
    BY <1>1, <2>1, <2>2
  <2>4. \A u \in 1 .. L - 2 : 2 + u - 1 = u + 1
    OBVIOUS
  <2> QED  BY <2>2, <2>3, <2>4, Zenon
<1> HIDE DEF spec
<1>4. Without(spec, closer)
  BY <1>1, <1>3, ToSetIs
<1> HIDE DEF L
<1>5. First(w, closer, L)
  <2>1. L \in 1 .. Len(w) /\ w[L] = closer
    BY <1>1, <1>2
  <2>2. ASSUME NEW u \in 1 .. L - 1 PROVE w[u] # closer
    <3>1. CASE u = 1
      <4>1. 1 \in 1 .. L
        BY <1>2, <2>1
      <4>2. w[1] = opener
        BY <1>1, <1>2, <4>1, Zenon
      <4> QED  BY <3>1, <4>2, Zenon
    <3>2. CASE u # 1
      <4>1. u - 1 \in 1 .. L - 2 /\ (u - 1) + 1 = u /\ u \in 1 .. L
        BY <1>2, <2>2, <3>2
      <4>2. w[u] = spec[u - 1]
        BY <1>2, <1>3, <4>1
      <4>3. spec[u - 1] # closer
        BY <1>3, <1>4, <4>1 DEF Without
      <4> QED  BY <4>2, <4>3
    <3> QED  BY <3>1, <3>2
  <2> QED  BY <2>1, <2>2, Zenon DEF First
<1>6. URLs!Index(w, closer) = L
  BY <1>2, <1>5, IndexAt
<1>7. SubSeq(w, 2, L - 1) = spec
  <2> DEFINE y == SubSeq(w, 2, L - 1)
  <2>1. L \in Int /\ 2 \in Int /\ L - 1 \in Int /\ \A u \in 2 .. L - 1 : w[u] \in C
    BY <1>2
  <2>2. y \in Seq(C) /\ Len(y) = (IF 2 <= L - 1 THEN L - 1 - 2 + 1 ELSE 0)
        /\ \A u \in 1 .. L - 1 - 2 + 1 : y[u] = w[2 + u - 1]
    BY <2>1, SubSeqProperties
  <2> HIDE DEF y
  <2>3. L - 1 - 2 + 1 = L - 2 /\ Len(y) = L - 2
    BY <1>1, <2>1, <2>2
  <2>4. \A u \in 1 .. L - 2 : 2 + u - 1 = u + 1 /\ u + 1 \in 1 .. L
    BY <2>1
  <2>5. \A u \in 1 .. Len(y) : y[u] = spec[u]
    BY <1>2, <1>3, <2>2, <2>3, <2>4, Zenon
  <2>6. y = spec
    BY <1>3, <2>2, <2>3, <2>5, SeqEqual
  <2> QED  BY <2>6 DEF y
<1>8. SubSeq(w, L + 1, Len(w)) = behind
  <2>1. L + 1 \in 1 .. Len(text) + 1
    BY <1>2 DEF L
  <2>2. SubSeq(text \o behind, L + 1, Len(text \o behind)) = SubSeq(text, L + 1, Len(text)) \o behind
    BY <1>2, <2>1, RestOfJoin
  <2>3. SubSeq(text, L + 1, Len(text)) = << >>
    <3>1. L + 1 \in Int /\ Len(text) \in Int /\ Len(text) < L + 1
      BY <1>2 DEF L
    <3> QED  BY <1>2, <3>1, SubSeqEmpty
  <2>4. << >> \o behind = behind
    BY ConcatEmptySeq
  <2> QED  BY <2>2, <2>3, <2>4, Zenon DEF w
<1>9. whole = w /\ L # 0 /\ w[1] = opener
  <2>1. 1 \in 1 .. L /\ L # 0
    BY <1>1, <1>2
  <2> QED  BY <1>1, <1>2, <2>1 DEF w, text
<1> QED  BY <1>1, <1>3, <1>6, <1>7, <1>8, <1>9, Zenon DEF Enclosed, text, L

\* The literals put behind every expansion.
Flush(o, l) == [m \in DOMAIN o |-> o[m] \o l]

LEMMA FlushIs ==
  ASSUME NEW C, NEW o \in Seq(Seq(C)), NEW l \in Seq(C)
  PROVE  /\ Flush(o, l) \in Seq(Seq(C)) /\ Len(Flush(o, l)) = Len(o)
         /\ \A m \in 1 .. Len(o) : Flush(o, l)[m] = o[m] \o l /\ o[m] \in Seq(C)
         /\ Flush(o, << >>) = o
<1> DEFINE B == Seq(C)
           N == Len(o)
           s == Flush(o, l)
<1>1. N \in Nat /\ DOMAIN o = 1 .. N /\ \A m \in 1 .. N : o[m] \in B
  <2> HIDE DEF B
  <2>1. o \in Seq(B)
    BY DEF B
  <2> QED  BY <2>1
<1>2. \A x \in B : x \o l \in B /\ x \o << >> = x
  OBVIOUS
<1>3. s = [m \in 1 .. N |-> o[m] \o l]
  BY <1>1, Zenon DEF Flush
<1>4. Flush(o, << >>) = [m \in 1 .. N |-> o[m] \o << >>]
  BY <1>1, Zenon DEF Flush
<1>5. o = [m \in 1 .. N |-> o[m]]
  BY <1>1
<1> HIDE DEF N, s, B
<1>6. s \in [1 .. N -> B]
  BY <1>1, <1>2, <1>3
<1>7. N \in Nat
  BY <1>1
<1>8. s \in Seq(B) /\ Len(s) = N
  BY ONLY <1>6, <1>7, SeqDef, LenProperties
<1>9. Flush(o, << >>) = o
  <2>1. \A m \in 1 .. N : o[m] \o << >> = o[m]
    BY <1>1, <1>2
  <2> QED  BY <1>4, <1>5, <2>1
<1>10. \A m \in 1 .. N : s[m] = o[m] \o l /\ o[m] \in B
  BY <1>1, <1>3
<1> QED  BY <1>8, <1>9, <1>10, Zenon DEF s, N, B

LEMMA FlushMore ==
  ASSUME NEW C, NEW o \in Seq(Seq(C)), NEW l \in Seq(C), NEW c \in C
  PROVE  Extends(Flush(o, Append(l, c)), Flush(o, l), << << c >> >>) /\ Append(l, c) \in Seq(C)
<1> DEFINE s == Flush(o, l)
           t == Flush(o, Append(l, c))
           x == << << c >> >>
           N == Len(o)
<1>1. Append(l, c) \in Seq(C) /\ N \in Nat /\ Len(x) = 1 /\ x[1] = << c >>
  OBVIOUS
<1>2. Len(s) = N /\ \A m \in 1 .. N : s[m] = o[m] \o l /\ o[m] \in Seq(C)
  BY FlushIs
<1>3. t \in Seq(Seq(C)) /\ Len(t) = N /\ \A m \in 1 .. N : t[m] = o[m] \o Append(l, c)
  <2> DEFINE y == Append(l, c)
  <2> HIDE DEF y
  <2>1. y \in Seq(C)
    BY <1>1 DEF y
  <2>2. Flush(o, y) \in Seq(Seq(C)) /\ Len(Flush(o, y)) = N /\ \A m \in 1 .. N : Flush(o, y)[m] = o[m] \o y
    BY <2>1, FlushIs
  <2> QED  BY <2>2, Zenon DEF y
<1> HIDE DEF s, t, x, N
<1>4. ASSUME NEW m \in 1 .. N PROVE t[m] = s[m] \o << c >>
  <2> DEFINE y == o[m]
  <2>1. y \in Seq(C)
    BY <1>2
  <2> HIDE DEF y
  <2>2. y \o Append(l, c) = Append(y \o l, c) /\ y \o l \in Seq(C)
    BY <2>1
  <2>3. Append(y \o l, c) = (y \o l) \o << c >>
    BY <2>2, AppendIsConcat
  <2> QED  BY <1>2, <1>3, <2>2, <2>3, Zenon DEF y
<1>5. Len(t) = Len(s) * Len(x)
  BY <1>1, <1>2, <1>3
<1>6. ASSUME NEW a \in 1 .. Len(s), NEW b \in 1 .. Len(x) PROVE t[(a - 1) * Len(x) + b] = s[a] \o x[b]
  <2>1. a \in 1 .. N /\ b = 1 /\ (a - 1) * Len(x) + b = a
    BY <1>1, <1>2
  <2> QED  BY <1>1, <1>4, <2>1, Zenon
<1>7. Listed(t)
  BY <1>3 DEF Listed
<1>8. Extends(t, s, x)
  BY <1>5, <1>6, <1>7, Zenon DEF Extends
<1> QED  BY <1>1, <1>8, Zenon DEF t, s, x

\* One and two characters at the front of the rest.
LEMMA OneAtFront ==
  ASSUME NEW C, NEW text \in Seq(C), Len(text) = 1, NEW behind \in Seq(C), NEW whole, whole = text \o behind
  PROVE  /\ whole[1] = text[1] /\ Tail(whole) = behind /\ text = << text[1] >> /\ text[1] \in C
         /\ Len(whole) > 1 => behind # << >> /\ whole[2] = behind[1]
<1>1. text = << text[1] >> /\ text[1] \in C
  <2>1. text[1] \in C
    BY ONLY text \in Seq(C), Len(text) = 1
  <2> DEFINE t == << text[1] >>
  <2>2. t \in Seq(C) /\ Len(t) = 1 /\ t[1] = text[1]
    BY <2>1
  <2> HIDE DEF t
  <2>3. \A u \in 1 .. Len(text) : text[u] = t[u]
    BY <2>2
  <2>4. text = t
    BY <2>2, <2>3, SeqEqual
  <2> QED  BY <2>1, <2>4 DEF t
<1> DEFINE c == text[1]
           w == << c >> \o behind
<1> HIDE DEF c
<1>2. c \in C /\ text = << c >>
  BY <1>1 DEF c
<1>3. w[1] = c /\ Tail(w) = behind /\ (Len(w) > 1 => behind # << >> /\ w[2] = behind[1])
  BY <1>2
<1> QED  BY <1>2, <1>3, Zenon DEF c

TwoFirst(whole, text, behind) ==
  /\ whole[1] = text[1] /\ whole[2] = text[2] /\ Len(whole) > 1
  /\ SubSeq(whole, 3, Len(whole)) = behind

LEMMA TwoAtFront ==
  ASSUME NEW C, NEW text \in Seq(C), Len(text) = 2, NEW behind \in Seq(C), NEW whole, whole = text \o behind
  PROVE  TwoFirst(whole, text, behind)
<1> DEFINE w == text \o behind
<1>1. /\ w[1] = text[1] /\ w[2] = text[2] /\ text[2] \in C /\ Len(w) > 1
  <2>1. text[2] \in C
    BY ONLY text \in Seq(C), Len(text) = 2
  <2>2. /\ Len(w) = Len(text) + Len(behind) /\ Len(behind) \in Nat
        /\ \A u \in 1 .. Len(text) + Len(behind) : w[u] = IF u <= Len(text) THEN text[u] ELSE behind[u - Len(text)]
    BY ONLY text \in Seq(C), behind \in Seq(C), ConcatProperties
  <2> HIDE DEF w
  <2>3. 1 \in 1 .. Len(text) + Len(behind) /\ 2 \in 1 .. Len(text) + Len(behind) /\ 1 <= Len(text) /\ 2 <= Len(text)
    BY <2>2
  <2> QED  BY <2>1, <2>2, <2>3
<1>2. SubSeq(w, 3, Len(w)) = SubSeq(text, 3, Len(text)) \o behind
  <2>1. 3 \in 1 .. Len(text) + 1
    OBVIOUS
  <2> QED  BY <2>1, RestOfJoin
<1>3. SubSeq(text, 3, Len(text)) = << >>
  <2>1. 3 \in Int /\ Len(text) \in Int /\ Len(text) < 3
    OBVIOUS
  <2> QED  BY <2>1, SubSeqEmpty
<1>4. << >> \o behind = behind
  BY ConcatEmptySeq
<1> QED  BY <1>1, <1>2, <1>3, <1>4, Zenon DEF TwoFirst

\* A range is cut at its first "-".
LEMMA BoundsAre ==
  ASSUME NEW C, NEW spec \in Seq(C), NEW dash \in DOMAIN spec, URLs!Bounds(spec, dash)
  PROVE  /\ URLs!IsRange(spec)
         /\ URLs!RangeItems(spec) = URLs!Counted(URLs!Left(spec, dash), URLs!Right(spec, dash))
<1> DEFINE c == "-"
           left == SubSeq(spec, 1, dash - 1)
<1>1. /\ spec[dash] = c /\ URLs!ParsesUint(left) /\ URLs!ParsesUint(URLs!Right(spec, dash))
      /\ URLs!Value(left) <= URLs!Value(URLs!Right(spec, dash)) /\ left = URLs!Left(spec, dash)
  BY Zenon DEF URLs!Bounds, URLs!Left
<1>2. c \notin DOMAIN Digit
  <2>1. DOMAIN Digit \cap (URLs!Special \cup {"-"}) = {}
    BY URLsAssumption, Zenon DEF URLs!GlobAssumption
  <2> QED  BY <2>1, Zenon
<1>3. c \notin URLs!ToSet(left)
  BY <1>1, <1>2, Zenon DEF URLs!ParsesUint
<1>4. URLs!Index(spec, c) # 0 => URLs!Before(spec, c) = SubSeq(spec, 1, URLs!Index(spec, c) - 1)
  BY Zenon DEF URLs!Before
<1>5. URLs!Lo(spec) = URLs!Before(spec, c) /\ URLs!Hi(spec) = SubSeq(spec, URLs!Index(spec, c) + 1, Len(spec))
  BY Zenon DEF URLs!Lo, URLs!Hi
<1>6. URLs!Right(spec, dash) = SubSeq(spec, dash + 1, Len(spec))
  BY Zenon DEF URLs!Right
<1>7. URLs!IsRange(spec) <=>
        /\ URLs!Index(spec, c) # 0 /\ URLs!ParsesUint(URLs!Lo(spec)) /\ URLs!ParsesUint(URLs!Hi(spec))
        /\ URLs!Value(URLs!Lo(spec)) <= URLs!Value(URLs!Hi(spec))
  BY Zenon DEF URLs!IsRange
<1> HIDE DEF c
<1>8. dash \in 1 .. Len(spec) /\ Len(spec) \in Nat /\ dash # 0 /\ dash - 1 \in 0 .. Len(spec)
  BY ONLY spec \in Seq(C), dash \in DOMAIN spec
<1>9. Without(left, c) /\ Len(left) = dash - 1 /\ \A u \in 1 .. dash - 1 : left[u] = spec[u]
  <2>1. left \in Seq(C) /\ Len(left) = dash - 1 /\ \A u \in 1 .. dash - 1 : left[u] = spec[u]
    BY <1>8, UptoProperties
  <2> HIDE DEF left
  <2> QED  BY <1>3, <2>1, ToSetIs
<1>10. \A u \in 1 .. dash - 1 : spec[u] # c
  BY <1>9, Zenon DEF Without
<1> HIDE DEF left
<1>11. First(spec, c, dash)
  BY <1>1, <1>8, <1>10, Zenon DEF First
<1>12. URLs!Index(spec, c) = dash
  BY <1>8, <1>11, IndexAt
<1>13. URLs!Lo(spec) = left /\ URLs!Hi(spec) = URLs!Right(spec, dash)
  BY <1>4, <1>5, <1>6, <1>8, <1>12, Zenon DEF left
<1>14. URLs!IsRange(spec)
  BY <1>1, <1>7, <1>8, <1>12, <1>13, Zenon
<1>15. URLs!RangeItems(spec) = URLs!Counted(left, URLs!Right(spec, dash))
  BY <1>13, Zenon DEF URLs!RangeItems, URLs!Counted
<1> QED  BY <1>1, <1>14, <1>15, Zenon

LEMMA RangeIsBounds ==
  ASSUME NEW spec, Len(spec) \in Nat, URLs!IsRange(spec)
  PROVE  URLs!Bounds(spec, URLs!Index(spec, "-")) /\ URLs!Index(spec, "-") \in 1 .. Len(spec)
<1> DEFINE c == "-"
           dash == URLs!Index(spec, c)
<1>1. /\ dash # 0 /\ URLs!ParsesUint(URLs!Lo(spec)) /\ URLs!ParsesUint(URLs!Hi(spec))
      /\ URLs!Value(URLs!Lo(spec)) <= URLs!Value(URLs!Hi(spec))
  BY Zenon DEF URLs!IsRange
<1>2. URLs!Lo(spec) = URLs!Left(spec, dash) /\ URLs!Hi(spec) = URLs!Right(spec, dash)
  BY <1>1, Zenon DEF URLs!Lo, URLs!Hi, URLs!Before, URLs!Left, URLs!Right
<1>3. spec[dash] = c => URLs!Bounds(spec, dash)
  BY <1>1, <1>2, Zenon DEF URLs!Bounds
<1> HIDE DEF c
<1>4. First(spec, c, dash)
  BY IndexIsFirst
<1> HIDE DEF dash
<1>5. spec[dash] = c /\ dash \in 1 .. Len(spec)
  BY <1>1, <1>4, Zenon DEF First
<1> QED  BY <1>3, <1>5, Zenon DEF dash, c

=============================================================================
