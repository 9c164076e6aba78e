-------------------------- MODULE CommandLineProofs -------------------------
(***************************************************************************)
(* What TLAPS proves of the parts of Sequential that read the command      *)
(* line: its options and its URLs.                                         *)
(***************************************************************************)
EXTENDS SequentialLemmas

-----------------------------------------------------------------------------
(* The arguments.  At every turn of the loop the parser stands between two   *)
(* units, at a letter of a cluster, at a unit that is wrong, or behind "--", *)
(* and its options are what the units in front of it mean (Understood).      *)

\* No option is of two sorts, and none is called like a URL or a mistake.
LEMMA NamesApart ==
  \A name :
    /\ name \in Parser!Flags => name \notin Parser!Families
    /\ name \in Parser!Switches => name \notin Parser!Valued
    /\ name \in Parser!Lists => name \notin Parser!Singles
    /\ name \in Parser!Switches \cup Parser!Valued => name # "url" /\ name # "wrong"
BY DEF Parser!Flags, Parser!Families, Parser!Switches, Parser!Valued, Parser!Lists, Parser!Singles

LEMMA FlattenIsParsers == \A s : Parser!FlattenSeq(s) = FlattenSeq(s)
BY Zenon DEF Parser!FlattenSeq, FlattenSeq

LEMMA ValuesStep ==
  ASSUME NEW S, NEW said \in Seq(S), NEW x \in S, NEW name
  PROVE  /\ Parser!ValuesOf(name, Append(said, x)) =
              IF x.name = name THEN Append(Parser!ValuesOf(name, said), x.value)
              ELSE Parser!ValuesOf(name, said)
         /\ \E V : Parser!ValuesOf(name, said) \in Seq(V)
<1> DEFINE V == {y.value : y \in S}
           h == [y \in S |-> IF y.name = name THEN << y.value >> ELSE << >>]
<1>1. h \in [S -> Seq(V)]
  <2>1. \A y \in S : << y.value >> \in Seq(V) /\ << >> \in Seq(V)
    OBVIOUS
  <2> QED  BY <2>1, Zenon
<1>2. ASSUME NEW t \in Seq(S) PROVE Parser!ValuesOf(name, t) = FlatMap(h, t)
  <2>1. \A m \in DOMAIN t : t[m] \in S
    OBVIOUS
  <2>2. [m \in DOMAIN t |-> IF t[m].name = name THEN << t[m].value >> ELSE << >>] = [m \in DOMAIN t |-> h[t[m]]]
    BY <2>1, Zenon
  <2> QED  BY <2>2, FlattenIsParsers, Zenon DEF Parser!ValuesOf, FlatMap
<1>3. h[x] = IF x.name = name THEN << x.value >> ELSE << >>
  OBVIOUS
<1> HIDE DEF h
<1>4. Append(said, x) \in Seq(S)
  OBVIOUS
<1>5. FlatMap(h, Append(said, x)) = FlatMap(h, said) \o h[x] /\ FlatMap(h, said) \in Seq(V)
  BY <1>1, FlatMapAppend, FlatMapType
<1>6. x.value \in V
  OBVIOUS
<1> DEFINE w == FlatMap(h, said)
<1>7. w \in Seq(V) /\ w \o << x.value >> = Append(w, x.value) /\ w \o << >> = w
  <2> HIDE DEF w, V
  <2>1. w \in Seq(V)
    BY <1>5 DEF w
  <2> QED  BY <2>1, <1>6
<1> HIDE DEF w, V
<1>8. Parser!ValuesOf(name, said) = w /\ Parser!ValuesOf(name, Append(said, x)) = w \o h[x]
  BY <1>2, <1>4, <1>5 DEF w
<1>9. Parser!ValuesOf(name, said) \in Seq(V)
  BY <1>7, <1>8
<1>10. Parser!ValuesOf(name, Append(said, x)) =
        IF x.name = name THEN Append(Parser!ValuesOf(name, said), x.value) ELSE Parser!ValuesOf(name, said)
  BY <1>3, <1>7, <1>8, Zenon
<1> QED  BY <1>9, <1>10, Zenon

LEMMA LastOfAppend ==
  ASSUME NEW V, NEW s \in Seq(V), NEW v, NEW none
  PROVE  Parser!LastOf(Append(s, v), none) = v
<1>1. s \in Seq(V \cup {v})
  <2>1. V \subseteq V \cup {v}
    OBVIOUS
  <2> QED  BY <2>1, SeqMonotonic
<1> QED  BY <1>1 DEF Parser!LastOf

LEMMA FamiliesStep ==
  ASSUME NEW S, NEW said \in Seq(S), NEW x \in S
  PROVE  /\ Parser!FamiliesOf(Append(said, x)) =
              IF x.name \in Parser!Families THEN Append(Parser!FamiliesOf(said), Parser!FamilyOf(x.name))
              ELSE Parser!FamiliesOf(said)
         /\ \E V : Parser!FamiliesOf(said) \in Seq(V)
<1> DEFINE V == {Parser!FamilyOf(y.name) : y \in S}
           h == [y \in S |-> IF y.name \in Parser!Families THEN << Parser!FamilyOf(y.name) >> ELSE << >>]
<1>1. h \in [S -> Seq(V)]
  <2>1. \A y \in S : << Parser!FamilyOf(y.name) >> \in Seq(V) /\ << >> \in Seq(V)
    OBVIOUS
  <2> QED  BY <2>1, Zenon
<1>2. ASSUME NEW t \in Seq(S) PROVE Parser!FamiliesOf(t) = FlatMap(h, t)
  <2>1. \A m \in DOMAIN t : t[m] \in S
    OBVIOUS
  <2>2. [m \in DOMAIN t |-> IF t[m].name \in Parser!Families THEN << Parser!FamilyOf(t[m].name) >> ELSE << >>]
          = [m \in DOMAIN t |-> h[t[m]]]
    BY <2>1, Zenon
  <2> QED  BY <2>2, FlattenIsParsers, Zenon DEF Parser!FamiliesOf, FlatMap
<1>3. h[x] = IF x.name \in Parser!Families THEN << Parser!FamilyOf(x.name) >> ELSE << >>
  OBVIOUS
<1> HIDE DEF h
<1>4. Append(said, x) \in Seq(S)
  OBVIOUS
<1>5. FlatMap(h, Append(said, x)) = FlatMap(h, said) \o h[x] /\ FlatMap(h, said) \in Seq(V)
  BY <1>1, FlatMapAppend, FlatMapType
<1> DEFINE w == FlatMap(h, said)
           v == Parser!FamilyOf(x.name)
<1>6. v \in V
  OBVIOUS
<1> HIDE DEF v, V
<1>7. w \o << v >> = Append(w, v) /\ w \o << >> = w
  <2> HIDE DEF w
  <2>1. w \in Seq(V)
    BY <1>5 DEF w
  <2> QED  BY <2>1, <1>6
<1> HIDE DEF w
<1>8. Parser!FamiliesOf(said) = w /\ Parser!FamiliesOf(Append(said, x)) = w \o h[x]
  BY <1>2, <1>4, <1>5 DEF w
<1>9. h[x] = IF x.name \in Parser!Families THEN << v >> ELSE << >>
  BY <1>3 DEF v
<1>10. Parser!FamiliesOf(said) \in Seq(V)
  BY <1>5, <1>8 DEF w
<1>11. Parser!FamiliesOf(Append(said, x)) =
         IF x.name \in Parser!Families THEN Append(Parser!FamiliesOf(said), Parser!FamilyOf(x.name))
         ELSE Parser!FamiliesOf(said)
  BY <1>7, <1>8, <1>9, Zenon DEF v
<1> QED  BY <1>10, <1>11, Zenon

LEMMA NothingSaid ==
  /\ \A name : Parser!ValuesOf(name, << >>) = << >>
  /\ Parser!FamiliesOf(<< >>) = << >>
<1>3. ASSUME NEW name PROVE Parser!ValuesOf(name, << >>) = << >>
  <2>1. [m \in DOMAIN << >> |-> IF << >>[m].name = name THEN << << >>[m].value >> ELSE << >>] = << >>
    OBVIOUS
  <2> QED  BY <2>1, FlattenIsParsers, FlattenEmpty, Zenon DEF Parser!ValuesOf
<1>4. Parser!FamiliesOf(<< >>) = << >>
  <2>1. [m \in DOMAIN << >> |-> IF << >>[m].name \in Parser!Families
                                THEN << Parser!FamilyOf(<< >>[m].name) >> ELSE << >>] = << >>
    OBVIOUS
  <2> QED  BY <2>1, FlattenIsParsers, FlattenEmpty, Zenon DEF Parser!FamiliesOf
<1> QED  BY <1>3, <1>4

OptionsOf(f, y, g, l, u) == [flags |-> f, family |-> y, single |-> g, list |-> l, urls |-> u]
FlagsOf(said) == {f \in Parser!Flags : \E m \in DOMAIN said : said[m].name = f}

LEMMA FlagsStep ==
  ASSUME NEW S, NEW said \in Seq(S), NEW x \in S
  PROVE  FlagsOf(Append(said, x)) = FlagsOf(said) \cup ({x.name} \cap Parser!Flags)
<1>1. \A m \in DOMAIN Append(said, x) : m \in DOMAIN said \/ m = Len(said) + 1
  OBVIOUS
<1>2. /\ \A m \in DOMAIN said : m \in DOMAIN Append(said, x) /\ Append(said, x)[m] = said[m]
      /\ Len(said) + 1 \in DOMAIN Append(said, x) /\ Append(said, x)[Len(said) + 1] = x
  OBVIOUS
<1> DEFINE t == Append(said, x)
           N == Len(said) + 1
<1> HIDE DEF t, N
<1>3. \A f : (\E m \in DOMAIN t : t[m].name = f) <=> (x.name = f \/ \E m \in DOMAIN said : said[m].name = f)
  BY <1>1, <1>2, Zenon DEF t, N
<1>4. FlagsOf(t) = FlagsOf(said) \cup ({x.name} \cap Parser!Flags)
  BY <1>3, Zenon DEF FlagsOf
<1> QED  BY <1>4 DEF t

\* One meaning more changes what is meant as the parser changes its options.
LEMMA MeaningStep ==
  ASSUME NEW S, NEW said \in Seq(S), NEW x \in S
  PROVE  /\ x.name \in Parser!Flags =>
              Parser!MeaningOf(Append(said, x)) = [Parser!MeaningOf(said) EXCEPT !.flags = @ \cup {x.name}]
         /\ x.name \in Parser!Families =>
              Parser!MeaningOf(Append(said, x))
                = [Parser!MeaningOf(said) EXCEPT !.family = Parser!FamilyOf(x.name)]
         /\ x.name \in Parser!Singles =>
              Parser!MeaningOf(Append(said, x)) = [Parser!MeaningOf(said) EXCEPT !.single[x.name] = x.value]
         /\ x.name \in Parser!Lists =>
              Parser!MeaningOf(Append(said, x))
                = [Parser!MeaningOf(said) EXCEPT !.list[x.name] = Append(@, x.value)]
         /\ x.name = "url" =>
              Parser!MeaningOf(Append(said, x)) = [Parser!MeaningOf(said) EXCEPT !.urls = Append(@, x.value)]
<1> DEFINE t == Append(said, x)
           G(s) == [name \in Parser!Singles |-> Parser!LastOf(Parser!ValuesOf(name, s), Parser!NoValue)]
           L(s) == [name \in Parser!Lists |-> Parser!ValuesOf(name, s)]
           Y(s) == Parser!LastOf(Parser!FamiliesOf(s), "")
           U(s) == Parser!ValuesOf("url", s)
<1>1. \A s : Parser!MeaningOf(s) = OptionsOf(FlagsOf(s), Y(s), G(s), L(s), U(s))
  BY Zenon DEF Parser!MeaningOf, OptionsOf, FlagsOf
<1>2. FlagsOf(t) = FlagsOf(said) \cup ({x.name} \cap Parser!Flags)
  BY FlagsStep
<1>3. \A name : Parser!ValuesOf(name, t) =
        IF x.name = name THEN Append(Parser!ValuesOf(name, said), x.value) ELSE Parser!ValuesOf(name, said)
  BY ValuesStep
<1>4. Parser!FamiliesOf(t) = IF x.name \in Parser!Families
                             THEN Append(Parser!FamiliesOf(said), Parser!FamilyOf(x.name))
                             ELSE Parser!FamiliesOf(said)
  BY FamiliesStep
<1> HIDE DEF t
<1>5. /\ x.name \in Parser!Flags => FlagsOf(t) = FlagsOf(said) \cup {x.name}
      /\ x.name \notin Parser!Flags => FlagsOf(t) = FlagsOf(said)
  BY <1>2
<1> DEFINE M == Parser!MeaningOf(said)
<1>6. M = OptionsOf(FlagsOf(said), Y(said), G(said), L(said), U(said))
  BY <1>1
<1>7. Parser!MeaningOf(t) = OptionsOf(FlagsOf(t), Y(t), G(t), L(t), U(t))
  BY <1>1
<1>8. x.name \notin Parser!Families => Y(t) = Y(said)
  BY <1>4, Zenon
<1>9. x.name \in Parser!Families => Y(t) = Parser!FamilyOf(x.name)
  <2>1. PICK V : Parser!FamiliesOf(said) \in Seq(V)
    BY FamiliesStep
  <2>2. \A v, none : Parser!LastOf(Append(Parser!FamiliesOf(said), v), none) = v
    BY <2>1, LastOfAppend
  <2> QED  BY <1>4, <2>2, Zenon
<1>10. x.name \notin Parser!Singles => G(t) = G(said)
  BY <1>3, Zenon
<1>11. ASSUME x.name \in Parser!Singles
       PROVE  G(t) = [G(said) EXCEPT ![x.name] = x.value]
  <2>1. PICK V : Parser!ValuesOf(x.name, said) \in Seq(V)
    BY ValuesStep
  <2>2. Parser!LastOf(Parser!ValuesOf(x.name, t), Parser!NoValue) = x.value
    <3>1. \A v, none : Parser!LastOf(Append(Parser!ValuesOf(x.name, said), v), none) = v
      BY <2>1, LastOfAppend
    <3>2. Parser!ValuesOf(x.name, t) = Append(Parser!ValuesOf(x.name, said), x.value)
      BY <1>3, Zenon
    <3> QED  BY <3>1, <3>2, Zenon
  <2>3. \A name : name # x.name => Parser!ValuesOf(name, t) = Parser!ValuesOf(name, said)
    BY <1>3, Zenon
  <2> QED  BY <2>2, <2>3
<1>12. x.name \notin Parser!Lists => L(t) = L(said)
  BY <1>3, Zenon
<1>13. x.name \in Parser!Lists => L(t) = [L(said) EXCEPT ![x.name] = Append(@, x.value)]
  <2>1. \A name : name # x.name => Parser!ValuesOf(name, t) = Parser!ValuesOf(name, said)
    BY <1>3, Zenon
  <2>2. Parser!ValuesOf(x.name, t) = Append(Parser!ValuesOf(x.name, said), x.value)
    BY <1>3, Zenon
  <2> QED  BY <2>1, <2>2
<1>14. x.name # "url" => U(t) = U(said)
  BY <1>3, Zenon
<1>15. x.name = "url" => U(t) = Append(U(said), x.value)
  BY <1>3, Zenon
<1> HIDE DEF G, L, Y, U, M
<1>16. /\ M.single = G(said) /\ M.list = L(said) /\ M.flags = FlagsOf(said) /\ M.urls = U(said)
  BY <1>6 DEF OptionsOf
<1>17. ASSUME NEW w
       PROVE  /\ [M EXCEPT !.flags = w] = OptionsOf(w, Y(said), G(said), L(said), U(said))
              /\ [M EXCEPT !.family = w] = OptionsOf(FlagsOf(said), w, G(said), L(said), U(said))
              /\ [M EXCEPT !.single = w] = OptionsOf(FlagsOf(said), Y(said), w, L(said), U(said))
              /\ [M EXCEPT !.list = w] = OptionsOf(FlagsOf(said), Y(said), G(said), w, U(said))
              /\ [M EXCEPT !.urls = w] = OptionsOf(FlagsOf(said), Y(said), G(said), L(said), w)
  <2> DEFINE f == FlagsOf(said)
             y == Y(said)
             g == G(said)
             l == L(said)
             u == U(said)
  <2> HIDE DEF f, y, g, l, u
  <2>1. M = OptionsOf(f, y, g, l, u)
    BY <1>6, Zenon DEF f, y, g, l, u
  <2>2. [M EXCEPT !.flags = w] = OptionsOf(w, y, g, l, u)
    BY <2>1 DEF OptionsOf
  <2>3. [M EXCEPT !.family = w] = OptionsOf(f, w, g, l, u)
    BY <2>1 DEF OptionsOf
  <2>4. [M EXCEPT !.single = w] = OptionsOf(f, y, w, l, u)
    BY <2>1 DEF OptionsOf
  <2>5. [M EXCEPT !.list = w] = OptionsOf(f, y, g, w, u)
    BY <2>1 DEF OptionsOf
  <2>6. [M EXCEPT !.urls = w] = OptionsOf(f, y, g, l, w)
    BY <2>1 DEF OptionsOf
  <2> QED  BY <2>2, <2>3, <2>4, <2>5, <2>6, Zenon DEF f, y, g, l, u
<1>18. /\ x.name \in Parser!Flags => x.name \notin Parser!Families
       /\ x.name \in Parser!Flags \cup Parser!Families =>
            x.name \notin Parser!Singles /\ x.name \notin Parser!Lists /\ x.name # "url"
       /\ x.name \in Parser!Lists => x.name \notin Parser!Singles
       /\ x.name \in Parser!Lists \cup Parser!Singles =>
            x.name # "url" /\ x.name \notin Parser!Flags /\ x.name \notin Parser!Families
  BY NamesApart, Zenon DEF Parser!Switches, Parser!Valued
<1>19. ASSUME x.name \in Parser!Flags
       PROVE  Parser!MeaningOf(t) = [M EXCEPT !.flags = FlagsOf(said) \cup {x.name}]
  BY <1>19, <1>5, <1>7, <1>8, <1>10, <1>12, <1>14, <1>17, <1>18, Zenon
<1>20. ASSUME x.name \in Parser!Families
       PROVE  Parser!MeaningOf(t) = [M EXCEPT !.family = Parser!FamilyOf(x.name)]
  BY <1>20, <1>5, <1>7, <1>9, <1>10, <1>12, <1>14, <1>17, <1>18, Zenon
<1>21. ASSUME x.name \in Parser!Singles
       PROVE  Parser!MeaningOf(t) = [M EXCEPT !.single = [G(said) EXCEPT ![x.name] = x.value]]
  BY <1>21, <1>5, <1>7, <1>8, <1>11, <1>12, <1>14, <1>17, <1>18, Zenon
<1>22. ASSUME x.name \in Parser!Lists
       PROVE  Parser!MeaningOf(t) = [M EXCEPT !.list = [L(said) EXCEPT ![x.name] = Append(@, x.value)]]
  BY <1>22, <1>5, <1>7, <1>8, <1>10, <1>13, <1>14, <1>17, <1>18, Zenon
<1>23. ASSUME x.name = "url"
       PROVE  Parser!MeaningOf(t) = [M EXCEPT !.urls = Append(U(said), x.value)]
  <2>1. x.name \notin Parser!Flags /\ x.name \notin Parser!Families
        /\ x.name \notin Parser!Singles /\ x.name \notin Parser!Lists
    BY <1>18, <1>23, Zenon
  <2> QED  BY <2>1, <1>5, <1>7, <1>8, <1>10, <1>12, <1>15, <1>17, <1>23, Zenon
<1> QED  BY <1>16, <1>19, <1>20, <1>21, <1>22, <1>23, Zenon DEF t, M

-----------------------------------------------------------------------------
(* Where the units of a command line are among its arguments and its meanings *)

ArgsIn(l) == [m \in DOMAIN l.units |-> l.units[m].args]
MeansIn(l) == [m \in DOMAIN l.units |-> l.units[m].means]
AllArgs(l) == FlattenSeq(ArgsIn(l))
AllSaid(l) == FlattenSeq(MeansIn(l))
ArgsBefore(l, u) == Len(FlattenSeq(SubSeq(ArgsIn(l), 1, u)))
MeansBefore(l, u) == Len(FlattenSeq(SubSeq(MeansIn(l), 1, u)))
Heard(l, m) == Parser!MeaningOf(SubSeq(AllSaid(l), 1, m))
Spelled(unit, last) ==
  \/ Parser!FlagUnit(unit) \/ Parser!JoinedUnit(unit) \/ Parser!SeparateUnit(unit) \/ Parser!URLUnit(unit)
  \/ last /\ Parser!LastUnit(unit)
  \/ Parser!WrongUnit(unit, last)

LEMMA LineIs ==
  ASSUME NEW l \in CommandLines
  PROVE  /\ Len(l.units) \in Nat /\ DOMAIN l.units = 1 .. Len(l.units)
         /\ \A m \in 1 .. Len(l.units) :
              /\ l.units[m].args \in Seq(ToSet(l.units[m].args))
              /\ l.units[m].means \in Seq(ToSet(l.units[m].means))
              /\ Spelled(l.units[m], m = Len(l.units))
         /\ Parser!Expanded(l.args) = AllArgs(l)
<1>1. \A s : Parser!IsList(s) <=> s \in Seq(ToSet(s))
  BY Zenon DEF Parser!IsList, Parser!ToSet, ToSet
<1>2. Parser!WellSpelled(l)
  BY ParserAssumption, Zenon DEF Parser!OptionsAssumption
<1>3. l.units \in Seq(ToSet(l.units))
  BY <1>1, <1>2, Zenon DEF Parser!WellSpelled
<1>4. Len(l.units) \in Nat /\ DOMAIN l.units = 1 .. Len(l.units)
  BY <1>3
<1>5. ASSUME NEW m \in DOMAIN l.units
      PROVE  /\ Parser!IsList(l.units[m].args) /\ Parser!IsList(l.units[m].means)
             /\ Spelled(l.units[m], m = Len(l.units))
  BY <1>2, Zenon DEF Parser!WellSpelled, Spelled
<1>6. Parser!Expanded(l.args) = AllArgs(l)
  BY <1>2, FlattenIsParsers, Zenon DEF Parser!WellSpelled, AllArgs, ArgsIn
<1> QED  BY <1>1, <1>4, <1>5, <1>6, Zenon

LEMMA LineLaid ==
  ASSUME NEW l \in CommandLines
  PROVE  LET N == Len(l.units)
         IN  /\ EndToEnd(ArgsIn(l), AllArgs(l), N, [u \in 0 .. N |-> ArgsBefore(l, u)])
             /\ EndToEnd(MeansIn(l), AllSaid(l), N, [u \in 0 .. N |-> MeansBefore(l, u)])
             /\ \E S : AllSaid(l) \in Seq(S)
             /\ \A m \in 1 .. N : ArgsIn(l)[m] = l.units[m].args /\ MeansIn(l)[m] = l.units[m].means
<1> DEFINE N == Len(l.units)
           a == ArgsIn(l)
           c == MeansIn(l)
<1>1. N \in Nat /\ DOMAIN l.units = 1 .. N
  BY LineIs
<1>2. /\ a = [m \in 1 .. N |-> a[m]] /\ c = [m \in 1 .. N |-> c[m]]
      /\ \A m \in 1 .. N : a[m] = l.units[m].args /\ c[m] = l.units[m].means
  BY <1>1 DEF ArgsIn, MeansIn
<1>3. \A m \in 1 .. N : a[m] \in Seq(ToSet(a[m])) /\ c[m] \in Seq(ToSet(c[m]))
  BY <1>2, LineIs, Zenon
<1> HIDE DEF a, c, N
<1>4. /\ EndToEnd(a, FlattenSeq(a), N, [u \in 0 .. N |-> Len(FlattenSeq(SubSeq(a, 1, u)))])
      /\ EndToEnd(c, FlattenSeq(c), N, [u \in 0 .. N |-> Len(FlattenSeq(SubSeq(c, 1, u)))])
      /\ \E S : FlattenSeq(c) \in Seq(S)
  BY <1>1, <1>2, <1>3, PartsLaid, Zenon
<1> QED  BY <1>2, <1>4, Zenon DEF a, c, N, AllArgs, AllSaid, ArgsBefore, MeansBefore

LEMMA HeardMore ==
  ASSUME NEW l \in CommandLines, NEW m \in 0 .. Len(AllSaid(l)) - 1
  PROVE  LET x == AllSaid(l)[m + 1]
             o == Heard(l, m)
         IN  /\ x.name \in Parser!Flags => Heard(l, m + 1) = [o EXCEPT !.flags = @ \cup {x.name}]
             /\ x.name \in Parser!Families => Heard(l, m + 1) = [o EXCEPT !.family = Parser!FamilyOf(x.name)]
             /\ x.name \in Parser!Singles => Heard(l, m + 1) = [o EXCEPT !.single[x.name] = x.value]
             /\ x.name \in Parser!Lists => Heard(l, m + 1) = [o EXCEPT !.list[x.name] = Append(@, x.value)]
             /\ x.name = "url" => Heard(l, m + 1) = [o EXCEPT !.urls = Append(@, x.value)]
<1> DEFINE w == AllSaid(l)
<1>1. PICK S : w \in Seq(S)
  BY LineLaid, Zenon
<1> HIDE DEF w
<1>2. m \in 0 .. Len(w) /\ m < Len(w) /\ m + 1 \in 1 .. Len(w) /\ m \in 0 .. Len(w) - 1
  BY <1>1 DEF w
<1>3. SubSeq(w, 1, m) \in Seq(S) /\ w[m + 1] \in S /\ SubSeq(w, 1, m + 1) = Append(SubSeq(w, 1, m), w[m + 1])
  BY <1>1, <1>2, UptoProperties
<1> DEFINE said == SubSeq(w, 1, m)
           x == w[m + 1]
<1> HIDE DEF said, x
<1>4. said \in Seq(S) /\ x \in S
  BY <1>3 DEF said, x
<1>5. /\ x.name \in Parser!Flags =>
           Parser!MeaningOf(Append(said, x)) = [Parser!MeaningOf(said) EXCEPT !.flags = @ \cup {x.name}]
      /\ x.name \in Parser!Families =>
           Parser!MeaningOf(Append(said, x))
             = [Parser!MeaningOf(said) EXCEPT !.family = Parser!FamilyOf(x.name)]
      /\ x.name \in Parser!Singles =>
           Parser!MeaningOf(Append(said, x)) = [Parser!MeaningOf(said) EXCEPT !.single[x.name] = x.value]
      /\ x.name \in Parser!Lists =>
           Parser!MeaningOf(Append(said, x))
             = [Parser!MeaningOf(said) EXCEPT !.list[x.name] = Append(@, x.value)]
      /\ x.name = "url" =>
           Parser!MeaningOf(Append(said, x)) = [Parser!MeaningOf(said) EXCEPT !.urls = Append(@, x.value)]
  BY <1>4, MeaningStep
<1>6. Heard(l, m) = Parser!MeaningOf(said) /\ Heard(l, m + 1) = Parser!MeaningOf(Append(said, x))
  BY <1>3, Zenon DEF Heard, said, w, x
<1> QED  BY <1>5, <1>6, Zenon DEF x, w

LEMMA NothingHeard ==
  ASSUME NEW l \in CommandLines
  PROVE  Heard(l, 0) = Parser!NoOptions /\ Heard(l, Len(AllSaid(l))) = Parser!MeaningOf(AllSaid(l))
<1> DEFINE w == AllSaid(l)
<1>1. PICK S : w \in Seq(S)
  BY LineLaid, Zenon
<1> HIDE DEF w
<1>2. SubSeq(w, 1, 0) = << >> /\ SubSeq(w, 1, Len(w)) = w
  <2>1. 0 \in 0 .. Len(w)
    BY <1>1
  <2> QED  BY <1>1, <2>1, UptoProperties
<1>3. Parser!MeaningOf(<< >>) = Parser!NoOptions
  <2>1. {f \in Parser!Flags : \E m \in DOMAIN << >> : << >>[m].name = f} = {}
    OBVIOUS
  <2>2. \A none : Parser!LastOf(<< >>, none) = none
    BY Zenon DEF Parser!LastOf
  <2> QED  BY <2>1, <2>2, NothingSaid, Zenon DEF Parser!MeaningOf, Parser!NoOptions
<1> QED  BY <1>2, <1>3, Zenon DEF Heard, w

-----------------------------------------------------------------------------
(* Where the parser is: between two units or inside a cluster, at a unit that *)
(* is wrong, or behind "--".                                                   *)

OptionUnit(unit) == Parser!FlagUnit(unit) \/ Parser!JoinedUnit(unit) \/ Parser!SeparateUnit(unit)
NamesIn(unit) == Parser!NamesOf(unit.args[1])

Told(l, o, m) ==
  /\ m \in 0 .. Len(AllSaid(l)) /\ o = Heard(l, m)
  /\ \A b \in 1 .. m : AllSaid(l)[b].name # "wrong"
AtUnit(l, o, a, c, p, u) ==
  /\ u \in 0 .. Len(l.units) /\ a = ArgsBefore(l, u) + 1 /\ ~p
  /\ c \in Nat \ {0} /\ Told(l, o, MeansBefore(l, u) + (c - 1))
  /\ c # 1 => u < Len(l.units) /\ OptionUnit(l.units[u + 1]) /\ c <= Len(NamesIn(l.units[u + 1]))
Stuck(l, a, c, p, u) ==
  /\ u \in 0 .. Len(l.units) - 1 /\ a = ArgsBefore(l, u) + 1 /\ ~p
  /\ Parser!WrongUnit(l.units[u + 1], u + 1 = Len(l.units))
  /\ c \in 1 .. Len(NamesIn(l.units[u + 1]))
BehindLast(l, o, a, c, p, m) ==
  /\ Len(l.units) # 0 /\ p /\ c = 1 /\ Parser!LastUnit(l.units[Len(l.units)])
  /\ m \in 1 .. Len(l.units[Len(l.units)].args)
  /\ a = ArgsBefore(l, Len(l.units) - 1) + 1 + m
  /\ Told(l, o, MeansBefore(l, Len(l.units) - 1) + (m - 1))
Position(l, o, a, c, p) ==
  \/ \E u \in 0 .. Len(l.units) : AtUnit(l, o, a, c, p, u)
  \/ \E u \in 0 .. Len(l.units) - 1 : Stuck(l, a, c, p, u)
  \/ \E m \in Nat : BehindLast(l, o, a, c, p, m)

\* What is known of the unit behind u others.
LEMMA UnitIs ==
  ASSUME NEW l \in CommandLines, NEW u \in 0 .. Len(l.units) - 1
  PROVE  LET unit == l.units[u + 1]
         IN  /\ ArgsBefore(l, u) \in Nat /\ MeansBefore(l, u) \in Nat
             /\ Len(unit.args) \in Nat /\ Len(unit.means) \in Nat
             /\ Len(AllArgs(l)) \in Nat /\ Len(AllSaid(l)) \in Nat
             /\ ArgsBefore(l, u + 1) = ArgsBefore(l, u) + Len(unit.args)
             /\ MeansBefore(l, u + 1) = MeansBefore(l, u) + Len(unit.means)
             /\ ArgsBefore(l, u + 1) <= Len(AllArgs(l)) /\ MeansBefore(l, u + 1) <= Len(AllSaid(l))
             /\ \A b \in 1 .. Len(unit.args) : AllArgs(l)[ArgsBefore(l, u) + b] = unit.args[b]
             /\ \A b \in 1 .. Len(unit.means) : AllSaid(l)[MeansBefore(l, u) + b] = unit.means[b]
<1> DEFINE N == Len(l.units)
           A == [b \in 0 .. N |-> ArgsBefore(l, b)]
           C == [b \in 0 .. N |-> MeansBefore(l, b)]
           unit == l.units[u + 1]
<1>1. /\ EndToEnd(ArgsIn(l), AllArgs(l), N, A) /\ EndToEnd(MeansIn(l), AllSaid(l), N, C)
      /\ \A m \in 1 .. N : ArgsIn(l)[m] = l.units[m].args /\ MeansIn(l)[m] = l.units[m].means
  BY LineLaid, Zenon
<1>2. N \in Nat /\ \A m \in 1 .. N : /\ l.units[m].args \in Seq(ToSet(l.units[m].args))
                                     /\ l.units[m].means \in Seq(ToSet(l.units[m].means))
  BY LineIs, Zenon
<1>3. A[u] = ArgsBefore(l, u) /\ A[u + 1] = ArgsBefore(l, u + 1)
      /\ C[u] = MeansBefore(l, u) /\ C[u + 1] = MeansBefore(l, u + 1)
  BY <1>2
<1>4. u \in 0 .. N /\ u + 1 \in 0 .. N /\ u + 1 \in 1 .. N /\ u \in 0 .. N - 1
  BY <1>2
<1> HIDE DEF A, C, N
<1>5. ArgsIn(l)[u + 1] = unit.args /\ MeansIn(l)[u + 1] = unit.means
  BY <1>1, <1>4, Zenon
<1>6. Len(unit.args) \in Nat /\ Len(unit.means) \in Nat
  <2>1. unit.args \in Seq(ToSet(unit.args)) /\ unit.means \in Seq(ToSet(unit.means))
    BY <1>2, <1>4, Zenon
  <2> DEFINE x == unit.args
             y == unit.means
  <2> HIDE DEF x, y
  <2>2. x \in Seq(ToSet(x)) /\ y \in Seq(ToSet(y))
    BY <2>1 DEF x, y
  <2>3. Len(x) \in Nat /\ Len(y) \in Nat
    BY <2>2
  <2> QED  BY <2>3 DEF x, y
<1> HIDE DEF unit
<1>7. /\ A[u] \in 0 .. Len(AllArgs(l)) /\ A[u + 1] \in 0 .. Len(AllArgs(l)) /\ Len(AllArgs(l)) \in Nat
      /\ A[u + 1] = A[u] + Len(unit.args)
      /\ \A b \in 1 .. Len(unit.args) : AllArgs(l)[A[u] + b] = unit.args[b]
  BY <1>1, <1>4, <1>5, ZenonT(60) DEF EndToEnd
<1>8. /\ C[u] \in 0 .. Len(AllSaid(l)) /\ C[u + 1] \in 0 .. Len(AllSaid(l)) /\ Len(AllSaid(l)) \in Nat
      /\ C[u + 1] = C[u] + Len(unit.means)
      /\ \A b \in 1 .. Len(unit.means) : AllSaid(l)[C[u] + b] = unit.means[b]
  BY <1>1, <1>4, <1>5, Zenon DEF EndToEnd
<1>9. A[u] \in Nat /\ A[u + 1] <= Len(AllArgs(l)) /\ C[u] \in Nat /\ C[u + 1] <= Len(AllSaid(l))
  BY <1>7, <1>8
<1> QED  BY <1>3, <1>6, <1>7, <1>8, <1>9, Zenon DEF unit

\* What is said behind m meanings is added as the parser adds it.
LEMMA SwitchTold ==
  ASSUME NEW l \in CommandLines, NEW o, NEW m, Told(l, o, m), m < Len(AllSaid(l)), NEW name, NEW v,
         AllSaid(l)[m + 1] = Parser!Means(name, v), name \in Parser!Switches, NEW o2,
         o2 = IF name \in Parser!Flags THEN [o EXCEPT !.flags = @ \cup {name}]
              ELSE [o EXCEPT !.family = Parser!FamilyOf(name)]
  PROVE  Told(l, o2, m + 1)
<1>1. AllSaid(l)[m + 1].name = name
  BY DEF Parser!Means
<1>2. m \in 0 .. Len(AllSaid(l)) - 1 /\ m + 1 \in 0 .. Len(AllSaid(l)) /\ m \in Nat
  <2>1. m \in 0 .. Len(AllSaid(l))
    BY DEF Told
  <2>2. Len(AllSaid(l)) \in Nat
    BY LineLaid, Zenon DEF EndToEnd
  <2> QED  BY <2>1, <2>2
<1>3. Heard(l, m + 1) = o2
  <2>1. o = Heard(l, m)
    BY Zenon DEF Told
  <2>2. name \in Parser!Flags \/ name \in Parser!Families
    BY Zenon DEF Parser!Switches
  <2>3. /\ name \in Parser!Flags => Heard(l, m + 1) = [o EXCEPT !.flags = @ \cup {name}]
        /\ name \in Parser!Families => Heard(l, m + 1) = [o EXCEPT !.family = Parser!FamilyOf(name)]
    BY <1>1, <1>2, <2>1, HeardMore, Zenon
  <2> QED  BY <2>2, <2>3, Zenon
<1>4. name # "wrong"
  BY NamesApart, Zenon
<1>5. \A b \in 1 .. m + 1 : b \in 1 .. m \/ b = m + 1
  BY <1>2
<1> QED  BY <1>1, <1>2, <1>3, <1>4, <1>5, Zenon DEF Told

LEMMA ValuedTold ==
  ASSUME NEW l \in CommandLines, NEW o, NEW m, Told(l, o, m), m < Len(AllSaid(l)), NEW name, NEW v,
         AllSaid(l)[m + 1] = Parser!Means(name, v), name \in Parser!Valued, NEW o2,
         o2 = IF name \in Parser!Lists THEN [o EXCEPT !.list[name] = Append(@, v)]
              ELSE [o EXCEPT !.single[name] = v]
  PROVE  Told(l, o2, m + 1)
<1>1. AllSaid(l)[m + 1].name = name /\ AllSaid(l)[m + 1].value = v
  BY DEF Parser!Means
<1>2. m \in 0 .. Len(AllSaid(l)) - 1 /\ m + 1 \in 0 .. Len(AllSaid(l)) /\ m \in Nat
  <2>1. m \in 0 .. Len(AllSaid(l))
    BY DEF Told
  <2>2. Len(AllSaid(l)) \in Nat
    BY LineLaid, Zenon DEF EndToEnd
  <2> QED  BY <2>1, <2>2
<1>3. Heard(l, m + 1) = o2
  <2>1. o = Heard(l, m)
    BY Zenon DEF Told
  <2>2. name \in Parser!Lists \/ name \in Parser!Singles
    BY Zenon DEF Parser!Valued
  <2>3. /\ name \in Parser!Lists => Heard(l, m + 1) = [o EXCEPT !.list[name] = Append(@, v)]
        /\ name \in Parser!Singles => Heard(l, m + 1) = [o EXCEPT !.single[name] = v]
    BY <1>1, <1>2, <2>1, HeardMore, Zenon
  <2>4. name \in Parser!Lists => name \notin Parser!Singles
    BY NamesApart, Zenon
  <2> QED  BY <2>2, <2>3, <2>4, Zenon
<1>4. name # "wrong"
  BY NamesApart, Zenon
<1>5. \A b \in 1 .. m + 1 : b \in 1 .. m \/ b = m + 1
  BY <1>2
<1> QED  BY <1>1, <1>2, <1>3, <1>4, <1>5, Zenon DEF Told

LEMMA URLTold ==
  ASSUME NEW l \in CommandLines, NEW o, NEW m, Told(l, o, m), m < Len(AllSaid(l)), NEW v,
         AllSaid(l)[m + 1] = Parser!Means("url", v), NEW o2, o2 = [o EXCEPT !.urls = Append(@, v)]
  PROVE  Told(l, o2, m + 1)
<1>1. AllSaid(l)[m + 1].name = "url" /\ AllSaid(l)[m + 1].value = v
  BY DEF Parser!Means
<1>2. m \in 0 .. Len(AllSaid(l)) - 1 /\ m + 1 \in 0 .. Len(AllSaid(l)) /\ m \in Nat
  <2>1. m \in 0 .. Len(AllSaid(l))
    BY DEF Told
  <2>2. Len(AllSaid(l)) \in Nat
    BY LineLaid, Zenon DEF EndToEnd
  <2> QED  BY <2>1, <2>2
<1>3. Heard(l, m + 1) = o2
  <2>1. o = Heard(l, m)
    BY Zenon DEF Told
  <2> QED  BY <1>1, <1>2, <2>1, HeardMore, Zenon
<1>4. "url" # "wrong"
  OBVIOUS
<1>5. \A b \in 1 .. m + 1 : b \in 1 .. m \/ b = m + 1
  BY <1>2
<1> QED  BY <1>1, <1>2, <1>3, <1>4, <1>5, Zenon DEF Told

\* One turn of the loop.
Turn ==
  \/ Parser!TakeURL \/ Parser!TakeDashDash \/ Parser!TakeFlag \/ Parser!TakeValue \/ Parser!BadOption

\* The arguments of a unit that is an option.
LEMMA OptionIsSaid ==
  ASSUME NEW unit, unit.means \in Seq(ToSet(unit.means)), OptionUnit(unit)
  PROVE  LET names == NamesIn(unit)
             size == Len(names)
             arg == unit.args[1]
         IN  /\ size \in Nat \ {0} /\ Len(unit.means) = size /\ arg.kind \in {"long", "short"}
             /\ \A b \in 1 .. size - 1 : /\ names[b] \in Parser!Switches
                                        /\ unit.means[b] = Parser!Means(names[b], Parser!NoValue)
             /\ \/ /\ Len(unit.args) = 1 /\ names[size] \in Parser!Switches /\ arg.value = Parser!NoValue
                   /\ unit.means[size] = Parser!Means(names[size], Parser!NoValue)
                \/ /\ Len(unit.args) = 1 /\ names[size] \in Parser!Valued /\ arg.value # Parser!NoValue
                   /\ Parser!Accepted(names[size], arg.value)
                   /\ unit.means[size] = Parser!Means(names[size], arg.value)
                \/ /\ Len(unit.args) = 2 /\ names[size] \in Parser!Valued /\ arg.value = Parser!NoValue
                   /\ Parser!Accepted(names[size], unit.args[2])
                   /\ unit.means[size] = Parser!Means(names[size], unit.args[2])
<1> DEFINE arg == unit.args[1]
           names == NamesIn(unit)
           size == Len(names)
<1>1. Parser!IsOption(arg)
  BY Zenon DEF OptionUnit, Parser!FlagUnit, Parser!JoinedUnit, Parser!SeparateUnit
<1>2. /\ arg.kind \in {"long", "short"} /\ names \in Seq(ToSet(names)) /\ names # << >>
      /\ \A b \in 1 .. size - 1 : names[b] \in Parser!Switches
  BY <1>1, Zenon DEF Parser!IsOption, NamesIn, Parser!IsList, Parser!ToSet, ToSet
<1> HIDE DEF names
<1>3. size \in Nat \ {0} /\ DOMAIN names = 1 .. size
  BY <1>2
<1> HIDE DEF size
<1>4. ASSUME NEW v, Parser!Says(unit, v)
      PROVE  /\ Len(unit.means) = size /\ unit.means[size] = Parser!Means(names[size], v)
             /\ \A b \in 1 .. size - 1 : unit.means[b] = Parser!Means(names[b], Parser!NoValue)
  <2>1. unit.means = [b \in 1 .. size |->
                        Parser!Means(names[b], IF b = size THEN v ELSE Parser!NoValue)]
    BY <1>3, <1>4, Zenon DEF Parser!Says, names, NamesIn, size
  <2> DEFINE w == unit.means
  <2>2. DOMAIN w = 1 .. size /\ \A b \in 1 .. size :
          w[b] = Parser!Means(names[b], IF b = size THEN v ELSE Parser!NoValue)
    BY <2>1, Zenon
  <2>3. w \in Seq(ToSet(w))
    OBVIOUS
  <2> HIDE DEF w
  <2>4. Len(w) = size
    BY <1>3, <2>2, <2>3, LenProperties
  <2>5. size \in 1 .. size /\ \A b \in 1 .. size - 1 : b \in 1 .. size /\ b # size
    BY <1>3
  <2> QED  BY <2>2, <2>4, <2>5, Zenon DEF w
<1>5. Parser!LastName(arg) = names[size]
  BY Zenon DEF Parser!LastName, names, size, NamesIn
<1>6. CASE Parser!FlagUnit(unit)
  <2>1. Len(unit.args) = 1 /\ names[size] \in Parser!Switches /\ arg.value = Parser!NoValue
        /\ Parser!Says(unit, Parser!NoValue)
    BY <1>5, <1>6, Zenon DEF Parser!FlagUnit
  <2> QED  BY <1>2, <1>3, <1>4, <2>1, Zenon DEF names, size
<1>7. CASE Parser!JoinedUnit(unit)
  <2>1. Len(unit.args) = 1 /\ names[size] \in Parser!Valued /\ arg.value # Parser!NoValue
        /\ Parser!Accepted(names[size], arg.value) /\ Parser!Says(unit, arg.value)
    BY <1>5, <1>7, Zenon DEF Parser!JoinedUnit
  <2> QED  BY <1>2, <1>3, <1>4, <2>1, Zenon DEF names, size
<1>8. CASE Parser!SeparateUnit(unit)
  <2>1. Len(unit.args) = 2 /\ names[size] \in Parser!Valued /\ arg.value = Parser!NoValue
        /\ Parser!Accepted(names[size], unit.args[2]) /\ Parser!Says(unit, unit.args[2])
    BY <1>5, <1>8, Zenon DEF Parser!SeparateUnit
  <2> QED  BY <1>2, <1>3, <1>4, <2>1, Zenon DEF names, size
<1> QED  BY <1>6, <1>7, <1>8, Zenon DEF OptionUnit

\* Between two units.
LEMMA NextUnit ==
  ASSUME NEW l \in CommandLines, NEW u \in 0 .. Len(l.units) - 1, NEW o, NEW a, NEW p, ~p,
         a = ArgsBefore(l, u + 1) + 1, Told(l, o, MeansBefore(l, u + 1))
  PROVE  Position(l, o, a, 1, p)
<1>1. u + 1 \in 0 .. Len(l.units) /\ 1 \in Nat \ {0}
  BY LineIs
<1>2. MeansBefore(l, u + 1) + (1 - 1) = MeansBefore(l, u + 1)
  <2> DEFINE w == MeansBefore(l, u + 1)
             x == MeansBefore(l, u)
             y == Len(l.units[u + 1].means)
  <2>1. w = x + y /\ x \in Nat /\ y \in Nat
    BY UnitIs, Zenon
  <2> HIDE DEF w, x, y
  <2>2. w + (1 - 1) = w
    BY <2>1
  <2> QED  BY <2>2 DEF w
<1>3. AtUnit(l, o, a, 1, p, u + 1)
  BY <1>1, <1>2, Zenon DEF AtUnit
<1> QED  BY <1>1, <1>3, Zenon DEF Position

\* An option is taken letter by letter, as it is meant.
LEMMA OptionTurn ==
  ASSUME line \in CommandLines, args = AllArgs(line), NEW u \in 0 .. Len(line.units) - 1,
         AtUnit(line, opts, i, j, positional, u), OptionUnit(line.units[u + 1]), Turn
  PROVE  UNCHANGED <<pc, line, args>> /\ Position(line, opts', i', j', positional')
<1> DEFINE unit == line.units[u + 1]
           names == NamesIn(unit)
           size == Len(names)
           arg == unit.args[1]
           A == ArgsBefore(line, u)
           C == MeansBefore(line, u)
<1>1. /\ A \in Nat /\ C \in Nat /\ Len(unit.args) \in Nat /\ Len(args) \in Nat
      /\ ArgsBefore(line, u + 1) = A + Len(unit.args) /\ MeansBefore(line, u + 1) = C + Len(unit.means)
      /\ A + Len(unit.args) <= Len(args) /\ C + Len(unit.means) <= Len(AllSaid(line)) /\ Len(AllSaid(line)) \in Nat
      /\ \A b \in 1 .. Len(unit.args) : args[A + b] = unit.args[b]
      /\ \A b \in 1 .. Len(unit.means) : AllSaid(line)[C + b] = unit.means[b]
  BY UnitIs, Zenon
<1>2. unit.means \in Seq(ToSet(unit.means))
  <2>1. u + 1 \in 1 .. Len(line.units)
    BY LineIs
  <2> QED  BY <2>1, LineIs, Zenon
<1>3. /\ size \in Nat \ {0} /\ Len(unit.means) = size /\ arg.kind \in {"long", "short"}
      /\ \A b \in 1 .. size - 1 : /\ names[b] \in Parser!Switches
                                 /\ unit.means[b] = Parser!Means(names[b], Parser!NoValue)
      /\ Len(unit.args) \in {1, 2}
  BY <1>2, OptionIsSaid, Zenon
<1>4. \/ /\ Len(unit.args) = 1 /\ names[size] \in Parser!Switches /\ arg.value = Parser!NoValue
         /\ unit.means[size] = Parser!Means(names[size], Parser!NoValue)
      \/ /\ Len(unit.args) = 1 /\ names[size] \in Parser!Valued /\ arg.value # Parser!NoValue
         /\ Parser!Accepted(names[size], arg.value)
         /\ unit.means[size] = Parser!Means(names[size], arg.value)
      \/ /\ Len(unit.args) = 2 /\ names[size] \in Parser!Valued /\ arg.value = Parser!NoValue
         /\ Parser!Accepted(names[size], unit.args[2])
         /\ unit.means[size] = Parser!Means(names[size], unit.args[2])
  BY <1>2, OptionIsSaid, Zenon
<1>5. /\ i = A + 1 /\ ~positional /\ j \in Nat \ {0} /\ Told(line, opts, C + (j - 1))
      /\ j # 1 => j <= size
  BY Zenon DEF AtUnit
<1> DEFINE whole == AllSaid(line)
<1> HIDE DEF unit, names, size, arg, A, C, whole
<1>6. j \in 1 .. size /\ i \in Nat /\ i <= Len(args) /\ 1 \in 1 .. Len(unit.args) /\ i + 1 = A + 2
  <2> DEFINE x == Len(unit.args)
             y == Len(args)
  <2>1. /\ A \in Nat /\ x \in {1, 2} /\ y \in Nat /\ A + x <= y /\ size \in Nat \ {0}
        /\ i = A + 1 /\ j \in Nat \ {0} /\ (j # 1 => j <= size)
    BY <1>1, <1>3, <1>5, Zenon
  <2> HIDE DEF x, y
  <2>2. j \in 1 .. size /\ i \in Nat /\ i <= y /\ 1 \in 1 .. x /\ i + 1 = A + 2
    BY <2>1
  <2> QED  BY <2>2 DEF x, y
<1>7. Parser!Arg = arg
  BY <1>1, <1>5, <1>6, Zenon DEF Parser!Arg, arg
<1>8. /\ Parser!Name = names[j] /\ (Parser!LastLetter <=> j = size)
      /\ Parser!Joined = IF j = size THEN arg.value ELSE Parser!NoValue
  BY <1>7, Zenon DEF Parser!Name, Parser!LastLetter, Parser!Joined, names, size, NamesIn, arg
<1>9. ~Parser!AtURL /\ arg.kind # "--"
  BY <1>3, <1>5, <1>7 DEF Parser!AtURL
<1>10. ~Parser!TakeURL /\ ~Parser!TakeDashDash
  BY <1>7, <1>9, Zenon DEF Parser!TakeURL, Parser!TakeDashDash
<1>11. whole[C + j] = unit.means[j] /\ C + j = C + (j - 1) + 1 /\ C + (j - 1) < Len(whole) /\ C + j = C + ((j + 1) - 1)
  <2>1. j \in 1 .. Len(unit.means)
    BY <1>3, <1>6
  <2>2. whole[C + j] = unit.means[j]
    BY <1>1, <2>1, Zenon DEF whole
  <2>3. Len(whole) \in Nat /\ C + size <= Len(whole)
    BY <1>1, <1>3, Zenon DEF whole
  <2> QED  BY <1>1, <1>3, <1>6, <2>2, <2>3
<1>12. CASE j # size
  <2>1. j \in 1 .. size - 1 /\ j + 1 \in Nat \ {0} /\ j + 1 <= size /\ j + 1 # 1
    BY <1>3, <1>6, <1>12
  <2>2. /\ names[j] \in Parser!Switches /\ names[j] \notin Parser!Valued
        /\ unit.means[j] = Parser!Means(names[j], Parser!NoValue)
    BY <1>3, <2>1, NamesApart, Zenon
  <2>3. ~Parser!TakeValue /\ ~Parser!BadOption
    BY <1>8, <1>12, <2>2, Zenon DEF Parser!TakeValue, Parser!BadOption
  <2>4. Parser!TakeFlag
    BY <1>10, <2>3, Zenon DEF Turn
  <2>5. /\ UNCHANGED <<line, args, i, positional, pc>> /\ j' = j + 1
        /\ opts' = IF names[j] \in Parser!Flags THEN [opts EXCEPT !.flags = @ \cup {names[j]}]
                   ELSE [opts EXCEPT !.family = Parser!FamilyOf(names[j])]
    BY <1>8, <1>12, <2>4, Zenon DEF Parser!TakeFlag
  <2>6. Told(line, opts', C + j)
    <3>1. Told(line, opts', C + (j - 1) + 1)
      BY <1>5, <1>11, <2>2, <2>5, SwitchTold, Zenon DEF whole
    <3> QED  BY <1>11, <3>1, Zenon
  <2>7. u \in 0 .. Len(line.units) /\ u < Len(line.units)
    BY LineIs
  <2>8. AtUnit(line, opts', i', j', positional', u)
    BY <1>5, <1>11, <2>1, <2>5, <2>6, <2>7, Zenon DEF AtUnit, A, C, unit, size, names
  <2> QED  BY <2>5, <2>7, <2>8, Zenon DEF Position
<1>13. ASSUME j = size, UNCHANGED <<line, args, positional, pc>>, j' = 1, i' = i + Len(unit.args),
              Told(line, opts', C + j)
       PROVE  UNCHANGED <<pc, line, args>> /\ Position(line, opts', i', j', positional')
  <2>1. i' = ArgsBefore(line, u + 1) + 1 /\ C + j = MeansBefore(line, u + 1)
    <3> DEFINE x == Len(unit.args)
               y == ArgsBefore(line, u + 1)
               w == MeansBefore(line, u + 1)
    <3>1. y = A + x /\ w = C + size /\ A \in Nat /\ x \in {1, 2} /\ i = A + 1 /\ j = size /\ i' = i + x
      BY <1>1, <1>3, <1>5, <1>13, Zenon
    <3> HIDE DEF x, y, w
    <3>2. i' = y + 1 /\ C + j = w
      BY <3>1
    <3> QED  BY <3>2 DEF y, w
  <2> QED  BY <1>5, <1>13, <2>1, NextUnit, Zenon
<1>14. CASE /\ j = size /\ Len(unit.args) = 1 /\ names[size] \in Parser!Switches /\ arg.value = Parser!NoValue
            /\ unit.means[size] = Parser!Means(names[size], Parser!NoValue)
  <2>1. names[j] \in Parser!Switches /\ names[j] \notin Parser!Valued /\ Parser!Joined = Parser!NoValue
    BY <1>8, <1>14, NamesApart, Zenon
  <2>2. ~Parser!TakeValue /\ ~Parser!BadOption
    BY <1>8, <2>1, Zenon DEF Parser!TakeValue, Parser!BadOption
  <2>3. Parser!TakeFlag
    BY <1>10, <2>2, Zenon DEF Turn
  <2>4. /\ UNCHANGED <<line, args, positional, pc>> /\ j' = 1 /\ i' = i + 1
        /\ opts' = IF names[j] \in Parser!Flags THEN [opts EXCEPT !.flags = @ \cup {names[j]}]
                   ELSE [opts EXCEPT !.family = Parser!FamilyOf(names[j])]
    BY <1>8, <1>14, <2>3, Zenon DEF Parser!TakeFlag, Parser!Go
  <2>5. Told(line, opts', C + j)
    <3>1. Told(line, opts', C + (j - 1) + 1)
      BY <1>5, <1>11, <1>14, <2>1, <2>4, SwitchTold, Zenon DEF whole
    <3> QED  BY <1>11, <3>1, Zenon
  <2> QED  BY <1>13, <1>14, <2>4, <2>5, Zenon
<1>15. CASE /\ j = size /\ Len(unit.args) = 1 /\ names[size] \in Parser!Valued /\ arg.value # Parser!NoValue
            /\ Parser!Accepted(names[size], arg.value)
            /\ unit.means[size] = Parser!Means(names[size], arg.value)
  <2>1. /\ names[j] \in Parser!Valued /\ names[j] \notin Parser!Switches
        /\ Parser!Joined = arg.value /\ Parser!OwnValue /\ Parser!Value = arg.value /\ Parser!HasValue
        /\ Parser!Joined # Parser!NoValue /\ Parser!Accepted(Parser!Name, Parser!Value)
    BY <1>8, <1>15, NamesApart, Zenon DEF Parser!OwnValue, Parser!Value, Parser!HasValue
  <2>2. ~Parser!TakeFlag /\ ~Parser!BadOption
    BY <1>8, <1>15, <2>1, Zenon DEF Parser!TakeFlag, Parser!BadOption
  <2>3. Parser!TakeValue
    BY <1>10, <2>2, Zenon DEF Turn
  <2>4. /\ UNCHANGED <<line, args, positional, pc>> /\ j' = 1 /\ i' = i + 1
        /\ opts' = IF names[j] \in Parser!Lists THEN [opts EXCEPT !.list[names[j]] = Append(@, arg.value)]
                   ELSE [opts EXCEPT !.single[names[j]] = arg.value]
    BY <1>8, <2>1, <2>3, Zenon DEF Parser!TakeValue, Parser!Go, Parser!After
  <2>5. Told(line, opts', C + j)
    <3>1. Told(line, opts', C + (j - 1) + 1)
      BY <1>5, <1>11, <1>15, <2>1, <2>4, ValuedTold, Zenon DEF whole
    <3> QED  BY <1>11, <3>1, Zenon
  <2> QED  BY <1>13, <1>15, <2>4, <2>5, Zenon
<1>16. CASE /\ j = size /\ Len(unit.args) = 2 /\ names[size] \in Parser!Valued /\ arg.value = Parser!NoValue
            /\ Parser!Accepted(names[size], unit.args[2])
            /\ unit.means[size] = Parser!Means(names[size], unit.args[2])
  <2>1. args[i + 1] = unit.args[2] /\ i < Len(args)
    <3>1. 2 \in 1 .. Len(unit.args) /\ i < Len(args)
      BY <1>1, <1>5, <1>16
    <3> QED  BY <1>1, <1>6, <3>1, Zenon
  <2>2. /\ names[j] \in Parser!Valued /\ names[j] \notin Parser!Switches
        /\ ~Parser!OwnValue /\ Parser!Value = unit.args[2] /\ Parser!HasValue
        /\ Parser!Accepted(Parser!Name, Parser!Value)
    BY <1>8, <1>16, <2>1, NamesApart, Zenon DEF Parser!OwnValue, Parser!Value, Parser!HasValue
  <2>3. ~Parser!TakeFlag /\ ~Parser!BadOption
    BY <1>8, <1>16, <2>2, Zenon DEF Parser!TakeFlag, Parser!BadOption
  <2>4. Parser!TakeValue
    BY <1>10, <2>3, Zenon DEF Turn
  <2>5. /\ UNCHANGED <<line, args, positional, pc>> /\ j' = 1 /\ i' = i + 2
        /\ opts' = IF names[j] \in Parser!Lists THEN [opts EXCEPT !.list[names[j]] = Append(@, unit.args[2])]
                   ELSE [opts EXCEPT !.single[names[j]] = unit.args[2]]
    BY <1>8, <2>2, <2>4, Zenon DEF Parser!TakeValue, Parser!Go, Parser!After
  <2>6. Told(line, opts', C + j)
    <3>1. Told(line, opts', C + (j - 1) + 1)
      BY <1>5, <1>11, <1>16, <2>2, <2>5, ValuedTold, Zenon DEF whole
    <3> QED  BY <1>11, <3>1, Zenon
  <2> QED  BY <1>13, <1>16, <2>5, <2>6, Zenon
<1> QED  BY <1>4, <1>12, <1>14, <1>15, <1>16, Zenon

\* Where the last unit ends.
LEMMA LineEnds ==
  ASSUME NEW l \in CommandLines
  PROVE  /\ ArgsBefore(l, 0) = 0 /\ MeansBefore(l, 0) = 0
         /\ ArgsBefore(l, Len(l.units)) = Len(AllArgs(l)) /\ MeansBefore(l, Len(l.units)) = Len(AllSaid(l))
         /\ Len(AllArgs(l)) \in Nat /\ Len(AllSaid(l)) \in Nat
<1> DEFINE N == Len(l.units)
           A == [b \in 0 .. N |-> ArgsBefore(l, b)]
           C == [b \in 0 .. N |-> MeansBefore(l, b)]
<1>1. EndToEnd(ArgsIn(l), AllArgs(l), N, A) /\ EndToEnd(MeansIn(l), AllSaid(l), N, C)
  BY LineLaid, Zenon
<1>2. 0 \in 0 .. N /\ N \in 0 .. N
  BY LineIs
<1>3. A[0] = ArgsBefore(l, 0) /\ A[N] = ArgsBefore(l, N) /\ C[0] = MeansBefore(l, 0) /\ C[N] = MeansBefore(l, N)
  BY <1>2, Zenon
<1> HIDE DEF A, C, N
<1> QED  BY <1>1, <1>3, Zenon DEF EndToEnd, N

\* What one turn of the loop comes to.
Turned ==
  \/ UNCHANGED <<pc, line, args>> /\ Position(line, opts', i', j', positional')
  \/ Parser!BadOption /\ ~Parser!Right(AllSaid(line))

\* A URL in front of "--".
LEMMA URLTurn ==
  ASSUME line \in CommandLines, args = AllArgs(line), NEW u \in 0 .. Len(line.units) - 1,
         AtUnit(line, opts, i, j, positional, u), j = 1, Parser!URLUnit(line.units[u + 1]), Turn
  PROVE  Turned
<1> DEFINE unit == line.units[u + 1]
           arg == unit.args[1]
           A == ArgsBefore(line, u)
           C == MeansBefore(line, u)
           whole == AllSaid(line)
           x == Len(unit.args)
           y == Len(unit.means)
<1>1. /\ A \in Nat /\ C \in Nat /\ Len(args) \in Nat /\ Len(whole) \in Nat
      /\ ArgsBefore(line, u + 1) = A + x /\ MeansBefore(line, u + 1) = C + y
      /\ A + x <= Len(args) /\ C + y <= Len(whole)
      /\ \A b \in 1 .. x : args[A + b] = unit.args[b]
      /\ \A b \in 1 .. y : whole[C + b] = unit.means[b]
  BY UnitIs, Zenon
<1>2. x = 1 /\ arg.kind = "text" /\ unit.means = << Parser!Means("url", arg) >>
  BY Zenon DEF Parser!URLUnit
<1>3. y = 1 /\ unit.means[1] = Parser!Means("url", arg)
  BY <1>2
<1>4. i = A + 1 /\ ~positional /\ Told(line, opts, C + (1 - 1))
  BY Zenon DEF AtUnit
<1> HIDE DEF unit, arg, A, C, whole, x, y
<1>5. C + (1 - 1) = C /\ C < Len(whole) /\ 1 \in 1 .. x /\ 1 \in 1 .. y
  BY <1>1, <1>2, <1>3
<1>6. Parser!Arg = arg
  BY <1>1, <1>4, <1>5, Zenon DEF Parser!Arg, arg
<1>7. arg.kind # "--" /\ arg.kind \notin {"long", "short"}
  BY <1>2
<1>8. Parser!TakeURL
  BY <1>6, <1>7, Zenon DEF Turn, Parser!TakeDashDash, Parser!TakeFlag, Parser!TakeValue, Parser!BadOption,
                           Parser!AtOption
<1>9. /\ UNCHANGED <<line, args, positional, pc>> /\ j' = 1 /\ i' = i + 1
      /\ opts' = [opts EXCEPT !.urls = Append(@, arg)]
  BY <1>6, <1>8, Zenon DEF Parser!TakeURL, Parser!Go
<1>10. Told(line, opts', C + 1)
  BY <1>1, <1>3, <1>4, <1>5, <1>9, URLTold, Zenon DEF whole
<1>11. i' = ArgsBefore(line, u + 1) + 1 /\ C + 1 = MeansBefore(line, u + 1)
  <2>1. i' = (A + 1) + 1
    BY <1>4, <1>9, Zenon
  <2> QED  BY <1>1, <1>2, <1>3, <2>1, Zenon
<1>12. Position(line, opts', i', 1, positional')
  BY <1>4, <1>9, <1>10, <1>11, NextUnit, Zenon
<1> QED  BY <1>9, <1>12, Zenon DEF Turned

\* "--".
LEMMA LastTurn ==
  ASSUME line \in CommandLines, args = AllArgs(line), NEW u \in 0 .. Len(line.units) - 1,
         AtUnit(line, opts, i, j, positional, u), j = 1, u + 1 = Len(line.units),
         Parser!LastUnit(line.units[u + 1]), Turn
  PROVE  Turned
<1> DEFINE N == Len(line.units)
           unit == line.units[N]
           arg == unit.args[1]
           A == ArgsBefore(line, u)
           C == MeansBefore(line, u)
           x == Len(unit.args)
<1>1. N \in Nat /\ u = N - 1 /\ N # 0 /\ N \in 1 .. N
  BY LineIs, SMTT(30)
<1>2. A \in Nat /\ C \in Nat /\ Len(args) \in Nat /\ A + x <= Len(args) /\ \A b \in 1 .. x : args[A + b] = unit.args[b]
  <2>1. /\ A \in Nat /\ C \in Nat /\ Len(args) \in Nat
        /\ ArgsBefore(line, u + 1) = A + Len(line.units[u + 1].args) /\ ArgsBefore(line, u + 1) <= Len(args)
        /\ \A b \in 1 .. Len(line.units[u + 1].args) : args[A + b] = line.units[u + 1].args[b]
    BY UnitIs, Zenon
  <2> QED  BY <2>1, Zenon
<1>3. unit.args \in Seq(ToSet(unit.args)) /\ unit.args # << >> /\ arg.kind = "--" /\ Parser!LastUnit(unit)
  BY <1>1, LineIs, Zenon DEF Parser!LastUnit
<1>4. x \in Nat /\ 1 \in 1 .. x
  <2> DEFINE w == unit.args
  <2> HIDE DEF w
  <2>1. w \in Seq(ToSet(w)) /\ w # << >>
    BY <1>3 DEF w
  <2>2. Len(w) \in Nat /\ 1 \in 1 .. Len(w)
    BY <2>1
  <2> QED  BY <2>2 DEF w
<1>5. i = A + 1 /\ ~positional /\ Told(line, opts, C + (1 - 1))
  BY Zenon DEF AtUnit
<1> HIDE DEF unit, arg, A, C, x, N
<1>6. Parser!Arg = arg
  BY <1>2, <1>4, <1>5, Zenon DEF Parser!Arg, arg
<1>7. arg.kind # "text" /\ arg.kind \notin {"long", "short"}
  BY <1>3
<1>8. Parser!TakeDashDash
  BY <1>5, <1>6, <1>7, Zenon DEF Turn, Parser!TakeURL, Parser!TakeFlag, Parser!TakeValue, Parser!BadOption,
                           Parser!AtOption, Parser!AtURL
<1>9. UNCHANGED <<line, args, opts, j, pc>> /\ positional' /\ i' = i + 1
  BY <1>8, Zenon DEF Parser!TakeDashDash
<1>10. i' = ArgsBefore(line, N - 1) + 1 + 1 /\ Told(line, opts', MeansBefore(line, N - 1) + (1 - 1))
  BY <1>1, <1>5, <1>9, Zenon DEF A, C
<1>11. BehindLast(line, opts', i', j', positional', 1)
  BY <1>1, <1>3, <1>4, <1>9, <1>10, Zenon DEF BehindLast, N, unit, x
<1>12. 1 \in Nat
  OBVIOUS
<1> QED  BY <1>9, <1>11, <1>12, Zenon DEF Turned, Position

\* The arguments behind "--".
LEMMA LastIs ==
  ASSUME NEW l \in CommandLines, Len(l.units) # 0, Parser!LastUnit(l.units[Len(l.units)])
  PROVE  LET N == Len(l.units)
             unit == l.units[N]
             A == ArgsBefore(l, N - 1)
             C == MeansBefore(l, N - 1)
             size == Len(unit.args)
         IN  /\ A \in Nat /\ C \in Nat /\ size \in Nat \ {0}
             /\ Len(AllArgs(l)) = A + size /\ Len(AllSaid(l)) = C + (size - 1)
             /\ \A b \in 1 .. size - 1 : /\ AllArgs(l)[A + (b + 1)] = unit.args[b + 1]
                                        /\ AllSaid(l)[C + b] = Parser!Means("url", unit.args[b + 1])
<1> DEFINE N == Len(l.units)
           unit == l.units[N]
           A == ArgsBefore(l, N - 1)
           C == MeansBefore(l, N - 1)
           size == Len(unit.args)
<1>1. N - 1 \in 0 .. N - 1 /\ (N - 1) + 1 = N /\ N \in 1 .. N
  BY LineIs
<1>2. /\ A \in Nat /\ C \in Nat /\ size \in Nat
      /\ Len(AllArgs(l)) = A + size /\ Len(AllSaid(l)) = C + Len(unit.means)
      /\ \A b \in 1 .. size : AllArgs(l)[A + b] = unit.args[b]
      /\ \A b \in 1 .. Len(unit.means) : AllSaid(l)[C + b] = unit.means[b]
  <2> DEFINE v == N - 1
  <2>1. v \in 0 .. Len(l.units) - 1
    BY <1>1, Zenon
  <2>2. v + 1 = N
    BY <1>1, Zenon
  <2> HIDE DEF v
  <2>3. /\ ArgsBefore(l, v) \in Nat /\ MeansBefore(l, v) \in Nat
        /\ Len(l.units[v + 1].args) \in Nat
        /\ ArgsBefore(l, v + 1) = ArgsBefore(l, v) + Len(l.units[v + 1].args)
        /\ MeansBefore(l, v + 1) = MeansBefore(l, v) + Len(l.units[v + 1].means)
        /\ \A b \in 1 .. Len(l.units[v + 1].args) : AllArgs(l)[ArgsBefore(l, v) + b] = l.units[v + 1].args[b]
        /\ \A b \in 1 .. Len(l.units[v + 1].means) : AllSaid(l)[MeansBefore(l, v) + b] = l.units[v + 1].means[b]
    BY <2>1, UnitIs, Zenon
  <2> QED  BY <2>2, <2>3, LineEnds, Zenon DEF v
<1>3. /\ unit.args # << >> /\ unit.args \in Seq(ToSet(unit.args)) /\ unit.means \in Seq(ToSet(unit.means))
      /\ unit.means = [b \in 1 .. size - 1 |-> Parser!Means("url", unit.args[b + 1])]
  BY <1>1, LineIs, Zenon DEF Parser!LastUnit
<1>4. size \in Nat \ {0}
  <2> DEFINE w == unit.args
  <2> HIDE DEF w
  <2>1. w \in Seq(ToSet(w)) /\ w # << >>
    BY <1>3 DEF w
  <2>2. Len(w) \in Nat \ {0}
    BY <2>1
  <2> QED  BY <2>2 DEF w
<1>5. Len(unit.means) = size - 1 /\ \A b \in 1 .. size - 1 : unit.means[b] = Parser!Means("url", unit.args[b + 1])
  <2> DEFINE w == unit.means
  <2>1. DOMAIN w = 1 .. size - 1 /\ \A b \in 1 .. size - 1 : w[b] = Parser!Means("url", unit.args[b + 1])
    BY <1>3, Zenon
  <2>2. w \in Seq(ToSet(w))
    BY <1>3, Zenon
  <2> HIDE DEF w, size
  <2>3. Len(w) = size - 1
    <3>1. size - 1 \in Nat
      BY <1>4
    <3> QED  BY <2>1, <2>2, <3>1, LenProperties
  <2> QED  BY <2>1, <2>3, Zenon DEF w
<1> HIDE DEF unit, A, C, size, N
<1>6. \A b \in 1 .. size - 1 : b + 1 \in 1 .. size
  BY <1>4
<1> QED  BY <1>2, <1>4, <1>5, <1>6, Zenon DEF unit, A, C, size, N

\* A URL behind "--".
LEMMA BehindTurn ==
  ASSUME line \in CommandLines, args = AllArgs(line), NEW m \in Nat,
         BehindLast(line, opts, i, j, positional, m), Turn
  PROVE  Turned
<1> DEFINE N == Len(line.units)
           unit == line.units[N]
           A == ArgsBefore(line, N - 1)
           C == MeansBefore(line, N - 1)
           size == Len(unit.args)
           whole == AllSaid(line)
           v == unit.args[m + 1]
<1>1. /\ N # 0 /\ positional /\ j = 1 /\ Parser!LastUnit(unit) /\ m \in 1 .. size
      /\ i = A + 1 + m /\ Told(line, opts, C + (m - 1))
  BY Zenon DEF BehindLast
<1>2. /\ A \in Nat /\ C \in Nat /\ size \in Nat \ {0}
      /\ Len(args) = A + size /\ Len(whole) = C + (size - 1)
      /\ \A b \in 1 .. size - 1 : /\ args[A + (b + 1)] = unit.args[b + 1]
                                 /\ whole[C + b] = Parser!Means("url", unit.args[b + 1])
  BY <1>1, LastIs, Zenon
<1> HIDE DEF unit, A, C, size, whole, N, v
<1>3. i <= Len(args)
  BY Zenon DEF Turn, Parser!TakeURL, Parser!TakeDashDash, Parser!TakeFlag, Parser!TakeValue, Parser!BadOption,
               Parser!AtURL, Parser!AtOption, Parser!Parsing
<1>4. /\ m \in 1 .. size - 1 /\ m + 1 \in 1 .. size /\ m + 1 \in Nat /\ A + (m + 1) = i /\ C + (m - 1) < Len(whole)
      /\ C + (m - 1) + 1 = C + m /\ C + m = C + ((m + 1) - 1) /\ i + 1 = A + 1 + (m + 1)
  BY <1>1, <1>2, <1>3
<1>5. Parser!Arg = v /\ whole[C + m] = Parser!Means("url", v)
  BY <1>2, <1>4, Zenon DEF Parser!Arg, v
<1>6. Parser!TakeURL
  BY <1>1, Zenon DEF Turn, Parser!TakeDashDash, Parser!TakeFlag, Parser!TakeValue, Parser!BadOption, Parser!AtOption
<1>7. /\ UNCHANGED <<line, args, positional, pc>> /\ j' = 1 /\ i' = i + 1
      /\ opts' = [opts EXCEPT !.urls = Append(@, v)]
  BY <1>5, <1>6, Zenon DEF Parser!TakeURL, Parser!Go
<1>8. Told(line, opts', C + (m - 1) + 1)
  BY <1>1, <1>4, <1>5, <1>7, URLTold, Zenon DEF whole
<1>9. Told(line, opts', C + ((m + 1) - 1)) /\ i' = A + 1 + (m + 1)
  BY <1>4, <1>7, <1>8, Zenon
<1>10. BehindLast(line, opts', i', j', positional', m + 1)
  BY <1>1, <1>4, <1>7, <1>9, Zenon DEF BehindLast, A, C, size, unit, N
<1> QED  BY <1>4, <1>7, <1>10, Zenon DEF Turned, Position

-----------------------------------------------------------------------------
\* A unit that is wrong is not taken.
LEMMA WrongIs ==
  ASSUME NEW unit, NEW last, Parser!WrongUnit(unit, last), unit.args \in Seq(ToSet(unit.args)),
         unit.means \in Seq(ToSet(unit.means))
  PROVE  LET names == NamesIn(unit)
             size == Len(names)
             arg == unit.args[1]
         IN  /\ size \in Nat \ {0} /\ Len(unit.args) \in Nat \ {0} /\ arg.kind \in {"long", "short"}
             /\ Len(unit.means) = 1 /\ unit.means[1].name = "wrong"
             /\ \A b \in 1 .. size - 1 : names[b] \in Parser!Switches
             /\ \/ names[size] \notin Parser!Switches \cup Parser!Valued
                \/ names[size] \in Parser!Switches /\ arg.value # Parser!NoValue
                \/ /\ names[size] \in Parser!Valued /\ arg.value # Parser!NoValue
                   /\ ~Parser!Accepted(names[size], arg.value)
                \/ /\ names[size] \in Parser!Valued /\ arg.value = Parser!NoValue
                   /\ IF Len(unit.args) = 1 THEN last ELSE ~Parser!Accepted(names[size], unit.args[2])
<1> DEFINE arg == unit.args[1]
           names == NamesIn(unit)
           size == Len(names)
<1>1. unit.args # << >> /\ unit.means = << Parser!Means("wrong", Parser!NoValue) >> /\ Parser!IsOption(arg)
  BY Zenon DEF Parser!WrongUnit
<1>2. /\ arg.kind \in {"long", "short"} /\ names \in Seq(ToSet(names)) /\ names # << >>
      /\ \A b \in 1 .. size - 1 : names[b] \in Parser!Switches
  BY <1>1, Zenon DEF Parser!IsOption, NamesIn, Parser!IsList, Parser!ToSet, ToSet
<1>3. Len(unit.args) \in Nat \ {0}
  <2> DEFINE w == unit.args
  <2>1. w \in Seq(ToSet(w)) /\ w # << >>
    BY <1>1
  <2> HIDE DEF w
  <2>2. Len(w) \in Nat \ {0}
    BY <2>1
  <2> QED  BY <2>2 DEF w
<1>4. Len(unit.means) = 1 /\ unit.means[1].name = "wrong"
  BY <1>1 DEF Parser!Means
<1>5. Parser!LastName(arg) = names[size]
  BY Zenon DEF Parser!LastName, NamesIn
<1>6. \/ names[size] \notin Parser!Switches \cup Parser!Valued
      \/ names[size] \in Parser!Switches /\ arg.value # Parser!NoValue
      \/ names[size] \in Parser!Valued /\ arg.value # Parser!NoValue /\ ~Parser!Accepted(names[size], arg.value)
      \/ /\ names[size] \in Parser!Valued /\ arg.value = Parser!NoValue
         /\ IF Len(unit.args) = 1 THEN last ELSE ~Parser!Accepted(names[size], unit.args[2])
  BY <1>5, Zenon DEF Parser!WrongUnit
<1> HIDE DEF names
<1>7. size \in Nat \ {0}
  BY <1>2
<1> QED  BY <1>2, <1>3, <1>4, <1>6, <1>7, Zenon DEF names

LEMMA StuckTurn ==
  ASSUME line \in CommandLines, args = AllArgs(line), NEW u \in 0 .. Len(line.units) - 1,
         Stuck(line, i, j, positional, u), Turn
  PROVE  Turned
<1> DEFINE unit == line.units[u + 1]
           names == NamesIn(unit)
           size == Len(names)
           arg == unit.args[1]
           A == ArgsBefore(line, u)
           C == MeansBefore(line, u)
           whole == AllSaid(line)
           x == Len(unit.args)
           last == u + 1 = Len(line.units)
<1>1. /\ A \in Nat /\ C \in Nat /\ x \in Nat /\ Len(args) \in Nat /\ Len(whole) \in Nat
      /\ ArgsBefore(line, u + 1) = A + x /\ A + x <= Len(args) /\ C + Len(unit.means) <= Len(whole)
      /\ \A b \in 1 .. x : args[A + b] = unit.args[b]
      /\ \A b \in 1 .. Len(unit.means) : whole[C + b] = unit.means[b]
  BY UnitIs, Zenon
<1>2. i = A + 1 /\ ~positional /\ Parser!WrongUnit(unit, last) /\ j \in 1 .. size
  BY Zenon DEF Stuck
<1>3. unit.args \in Seq(ToSet(unit.args)) /\ unit.means \in Seq(ToSet(unit.means))
  <2>1. u + 1 \in 1 .. Len(line.units)
    BY LineIs
  <2> QED  BY <2>1, LineIs, Zenon
<1>4. /\ size \in Nat \ {0} /\ x \in Nat \ {0} /\ arg.kind \in {"long", "short"}
      /\ Len(unit.means) = 1 /\ unit.means[1].name = "wrong"
      /\ \A b \in 1 .. size - 1 : names[b] \in Parser!Switches
  BY <1>2, <1>3, WrongIs, Zenon
<1>5. \/ names[size] \notin Parser!Switches \cup Parser!Valued
      \/ names[size] \in Parser!Switches /\ arg.value # Parser!NoValue
      \/ names[size] \in Parser!Valued /\ arg.value # Parser!NoValue /\ ~Parser!Accepted(names[size], arg.value)
      \/ /\ names[size] \in Parser!Valued /\ arg.value = Parser!NoValue
         /\ IF x = 1 THEN last ELSE ~Parser!Accepted(names[size], unit.args[2])
  BY <1>2, <1>3, WrongIs, Zenon
<1>6. last => Len(args) = A + x
  BY <1>1, LineEnds, Zenon
<1>7. ~Parser!Right(whole)
  <2> HIDE DEF whole, C
  <2>1. C + 1 \in 1 .. Len(whole) /\ 1 \in 1 .. Len(unit.means)
    <3>1. C \in Nat /\ C + 1 <= Len(whole) /\ Len(unit.means) = 1
      BY <1>1, <1>4, Zenon
    <3> QED  BY <3>1
  <2>2. whole[C + 1].name = "wrong"
    BY <1>1, <1>4, <2>1, Zenon
  <2>3. DOMAIN whole = 1 .. Len(whole)
    BY LineLaid, LenProperties DEF whole
  <2> QED  BY <2>1, <2>2, <2>3, Zenon DEF Parser!Right
<1> HIDE DEF unit, names, size, arg, A, C, whole, x, last
<1>8. 1 \in 1 .. x /\ i + 1 = A + 2
  BY <1>1, <1>2, <1>4, SMTT(30)
<1>9. Parser!Arg = arg
  BY <1>1, <1>2, <1>8, Zenon DEF Parser!Arg, arg
<1>10. /\ Parser!Name = names[j] /\ (Parser!LastLetter <=> j = size)
       /\ Parser!Joined = IF j = size THEN arg.value ELSE Parser!NoValue
  BY <1>9, Zenon DEF Parser!Name, Parser!LastLetter, Parser!Joined, names, size, NamesIn, arg
<1>11. arg.kind # "--" /\ arg.kind # "text"
  BY <1>4
<1>12. ~Parser!TakeURL /\ ~Parser!TakeDashDash
  BY <1>2, <1>9, <1>11, Zenon DEF Parser!AtURL, Parser!TakeURL, Parser!TakeDashDash
<1>13. CASE Parser!BadOption
  BY <1>7, <1>13, Zenon DEF Turned, whole
<1>14. CASE j # size /\ ~Parser!BadOption
  <2>1. j \in 1 .. size - 1 /\ j + 1 \in 1 .. size
    BY <1>2, <1>4, <1>14
  <2>2. names[j] \notin Parser!Valued
    BY <1>4, <2>1, NamesApart, Zenon
  <2>3. Parser!TakeFlag
    BY <1>10, <1>12, <1>14, <2>2, Zenon DEF Turn, Parser!TakeValue
  <2>4. UNCHANGED <<line, args, i, positional, pc>> /\ j' = j + 1
    BY <1>10, <1>14, <2>3, Zenon DEF Parser!TakeFlag
  <2>5. Stuck(line, i', j', positional', u)
    BY <1>2, <2>1, <2>4, Zenon DEF Stuck, A, unit, names, size, last
  <2> QED  BY <2>4, <2>5, Zenon DEF Turned, Position
<1>15. CASE j = size /\ ~Parser!BadOption
  <2>1. ~Parser!TakeFlag
    BY <1>5, <1>10, <1>15, NamesApart, Zenon DEF Parser!TakeFlag
  <2>2. ASSUME Parser!TakeValue PROVE FALSE
    <3>1. names[size] \in Parser!Valued /\ Parser!HasValue /\ Parser!Accepted(names[size], Parser!Value)
      BY <1>10, <1>15, <2>2, Zenon DEF Parser!TakeValue
    <3>2. arg.value = Parser!NoValue /\ IF x = 1 THEN last ELSE ~Parser!Accepted(names[size], unit.args[2])
      BY <1>5, <1>10, <1>15, <3>1, NamesApart, Zenon DEF Parser!Value, Parser!OwnValue
    <3>3. Parser!Value = args[i + 1] /\ i < Len(args)
      BY <1>10, <1>15, <3>1, <3>2, Zenon DEF Parser!Value, Parser!OwnValue, Parser!HasValue
    <3>4. x # 1
      BY <1>1, <1>2, <1>6, <3>2, <3>3
    <3>5. 2 \in 1 .. x
      BY <1>4, <3>4
    <3>6. args[i + 1] = unit.args[2]
      BY <1>1, <1>8, <3>5, Zenon
    <3> QED  BY <3>1, <3>2, <3>3, <3>4, <3>6, Zenon
  <2> QED  BY <1>12, <1>15, <2>1, <2>2, Zenon DEF Turn
<1> QED  BY <1>13, <1>14, <1>15

-----------------------------------------------------------------------------
(* The whole loop *)

LEMMA EveryTurn ==
  ASSUME line \in CommandLines, args = AllArgs(line), Position(line, opts, i, j, positional), Turn
  PROVE  Turned
<1>1. ASSUME NEW u \in 0 .. Len(line.units), AtUnit(line, opts, i, j, positional, u) PROVE Turned
  <2>1. u # Len(line.units)
    <3>1. ASSUME u = Len(line.units) PROVE FALSE
      <4>1. i = Len(args) + 1 /\ Len(args) \in Nat
        BY <1>1, <3>1, LineEnds, Zenon DEF AtUnit
      <4>2. i <= Len(args)
        BY Zenon DEF Turn, Parser!TakeURL, Parser!TakeDashDash, Parser!TakeFlag, Parser!TakeValue,
                     Parser!BadOption, Parser!AtURL, Parser!AtOption, Parser!Parsing
      <4> QED  BY <4>1, <4>2
    <3> QED  BY <3>1
  <2>2. u \in 0 .. Len(line.units) - 1 /\ u + 1 \in 1 .. Len(line.units)
    BY <2>1, LineIs
  <2> DEFINE unit == line.units[u + 1]
             last == u + 1 = Len(line.units)
  <2>3. /\ Spelled(unit, last) /\ unit.args \in Seq(ToSet(unit.args)) /\ unit.means \in Seq(ToSet(unit.means))
    BY <2>2, LineIs, Zenon
  <2>4. CASE OptionUnit(unit)
    <3>1. UNCHANGED <<pc, line, args>> /\ Position(line, opts', i', j', positional')
      BY <1>1, <2>2, <2>4, OptionTurn, Zenon
    <3> QED  BY <3>1, Zenon DEF Turned
  <2>5. CASE ~OptionUnit(unit)
    <3>1. j = 1 /\ i = ArgsBefore(line, u) + 1 /\ ~positional
      BY <1>1, <2>5, Zenon DEF AtUnit
    <3>2. CASE Parser!URLUnit(unit)
      BY <1>1, <2>2, <3>1, <3>2, URLTurn, Zenon
    <3>3. CASE last /\ Parser!LastUnit(unit)
      BY <1>1, <2>2, <3>1, <3>3, LastTurn, Zenon
    <3>4. CASE Parser!WrongUnit(unit, last)
      <4>1. Len(NamesIn(unit)) \in Nat \ {0}
        BY <2>3, <3>4, WrongIs, Zenon
      <4>2. 1 \in 1 .. Len(NamesIn(unit))
        <5> DEFINE w == Len(NamesIn(unit))
        <5> HIDE DEF w
        <5>1. w \in Nat \ {0}
          BY <4>1 DEF w
        <5>2. 1 \in 1 .. w
          BY <5>1
        <5> QED  BY <5>2 DEF w
      <4>3. Stuck(line, i, j, positional, u)
        BY <2>2, <3>1, <3>4, <4>2, Zenon DEF Stuck
      <4> QED  BY <2>2, <4>3, StuckTurn, Zenon
    <3> QED  BY <2>3, <2>5, <3>2, <3>3, <3>4, Zenon DEF Spelled, OptionUnit
  <2> QED  BY <2>4, <2>5
<1> QED  BY <1>1, StuckTurn, BehindTurn, Zenon DEF Position

\* Every unit has an argument.
LEMMA UnitHasArgs ==
  ASSUME NEW l \in CommandLines, NEW u \in 0 .. Len(l.units) - 1
  PROVE  Len(l.units[u + 1].args) \in Nat \ {0}
<1> DEFINE unit == l.units[u + 1]
           w == unit.args
<1>1. Spelled(unit, u + 1 = Len(l.units)) /\ w \in Seq(ToSet(w))
  <2>1. u + 1 \in 1 .. Len(l.units)
    BY LineIs
  <2> QED  BY <2>1, LineIs, Zenon
<1>2. Len(w) \in {1, 2} \/ w # << >>
  <2>1. Len(w) = 1 \/ Len(w) = 2 \/ w # << >>
    BY <1>1, Zenon DEF Spelled, Parser!FlagUnit, Parser!JoinedUnit, Parser!SeparateUnit, Parser!URLUnit,
                       Parser!LastUnit, Parser!WrongUnit
  <2> QED  BY <2>1
<1>3. Len(w) \in Nat \ {0}
  <2>1. w \in Seq(ToSet(w))
    BY <1>1, Zenon
  <2> HIDE DEF w
  <2>2. w # << >> => Len(w) \in Nat \ {0}
    BY <2>1
  <2>3. Len(w) \in {1, 2} => Len(w) \in Nat \ {0}
    OBVIOUS
  <2> QED  BY <1>2, <2>2, <2>3, Zenon
<1> QED  BY <1>3 DEF w

\* What the parser has when it has read all.
LEMMA ReadAll ==
  ASSUME line \in CommandLines, args = AllArgs(line), Position(line, opts, i, j, positional), ~(i <= Len(args))
  PROVE  Parser!Right(AllSaid(line)) /\ opts = Parser!MeaningOf(AllSaid(line))
<1> DEFINE N == Len(line.units)
           whole == AllSaid(line)
<1>1. ASSUME NEW u \in 0 .. N - 1, i = ArgsBefore(line, u) + 1 PROVE FALSE
  <2> DEFINE x == Len(line.units[u + 1].args)
             y == ArgsBefore(line, u)
             w == Len(args)
  <2>1. x \in Nat \ {0} /\ y \in Nat /\ w \in Nat /\ y + x <= w /\ ~(i <= w) /\ i = y + 1
    <3>1. ArgsBefore(line, u + 1) = y + x /\ ArgsBefore(line, u + 1) <= w
      BY UnitIs, Zenon
    <3> QED  BY <1>1, <3>1, UnitHasArgs, UnitIs, Zenon
  <2> HIDE DEF x, y, w
  <2> QED  BY <2>1
<1>2. Told(line, opts, Len(whole))
  <2>1. ASSUME NEW u \in 0 .. N, AtUnit(line, opts, i, j, positional, u) PROVE Told(line, opts, Len(whole))
    <3>1. u = N
      <4>1. u \in 0 .. N - 1 \/ u = N
        BY LineIs
      <4>2. i = ArgsBefore(line, u) + 1
        BY <2>1, Zenon DEF AtUnit
      <4> QED  BY <1>1, <4>1, <4>2, Zenon
    <3>2. j = 1 /\ Told(line, opts, MeansBefore(line, u) + (j - 1))
      <4>1. j # 1 => u < N
        BY <2>1, Zenon DEF AtUnit
      <4>2. ~(N < N)
        BY LineIs
      <4> QED  BY <2>1, <3>1, <4>1, <4>2, Zenon DEF AtUnit
    <3>3. Len(whole) \in Nat /\ MeansBefore(line, u) = Len(whole)
      BY <3>1, LineEnds, Zenon
    <3>4. Len(whole) + (1 - 1) = Len(whole)
      <4> DEFINE w == Len(whole)
      <4> HIDE DEF w
      <4>1. w \in Nat
        BY <3>3 DEF w
      <4>2. w + (1 - 1) = w
        BY <4>1
      <4> QED  BY <4>2 DEF w
    <3> QED  BY <3>2, <3>3, <3>4, Zenon
  <2>2. ASSUME NEW u \in 0 .. N - 1, Stuck(line, i, j, positional, u) PROVE Told(line, opts, Len(whole))
    BY <1>1, <2>2, Zenon DEF Stuck
  <2>3. ASSUME NEW m \in Nat, BehindLast(line, opts, i, j, positional, m) PROVE Told(line, opts, Len(whole))
    <3> DEFINE unit == line.units[N]
               A == ArgsBefore(line, N - 1)
               C == MeansBefore(line, N - 1)
               size == Len(unit.args)
    <3>1. /\ N # 0 /\ Parser!LastUnit(unit) /\ m \in 1 .. size
          /\ i = A + 1 + m /\ Told(line, opts, C + (m - 1))
      BY <2>3, Zenon DEF BehindLast
    <3>2. /\ A \in Nat /\ C \in Nat /\ size \in Nat \ {0}
          /\ Len(args) = A + size /\ Len(whole) = C + (size - 1)
      BY <3>1, LastIs, Zenon
    <3> HIDE DEF A, C, size, whole, unit
    <3>3. C + (m - 1) = Len(whole)
      BY <3>1, <3>2
    <3> QED  BY <3>1, <3>3, Zenon
  <2> QED  BY <2>1, <2>2, <2>3, Zenon DEF Position
<1>3. opts = Parser!MeaningOf(whole)
  BY <1>2, NothingHeard, Zenon DEF Told
<1>4. Parser!Right(whole)
  <2>1. DOMAIN whole = 1 .. Len(whole)
    <3> HIDE DEF whole
    <3> QED  BY LineLaid, LenProperties DEF whole
  <2> QED  BY <1>2, <2>1, Zenon DEF Told, Parser!Right
<1> QED  BY <1>3, <1>4

\* The options mean what the units do from the end of the loop on, and how the
\* program ends follows from them.
Cause(o, e) ==
  IF e = 3 THEN ~Parser!Readable(o)
  ELSE \/ Parser!Conflict(o) \/ Parser!NoURL(o) \/ ~Parser!OneOrigin(o) \/ Parser!Impossible(o)
       \/ o.list["header"] # << >>
Telling(o) == "silent" \notin o.flags \/ "show-error" \in o.flags
Understood ==
  /\ line \in CommandLines
  /\ pc = "expand" => i = 1 /\ j = 1 /\ ~positional /\ opts = Parser!NoOptions
  /\ pc = "parse" => args = AllArgs(line) /\ Position(line, opts, i, j, positional)
  /\ pc \in {"run", "transfer", "failed"} \/ (pc = "refused" /\ Parser!Right(AllSaid(line))) =>
       Parser!Right(AllSaid(line)) /\ opts = Parser!MeaningOf(AllSaid(line))
  /\ pc = "refused" /\ Parser!Right(AllSaid(line)) => Cause(opts, exit)
  /\ pc \in {"refused", "failed"} => (shown <=> Telling(opts))

LEMMA ReportTells ==
  ASSUME NEW to, NEW code, Parser!Report(to, code)
  PROVE  /\ UNCHANGED <<line, args, i, j, positional, opts>> /\ pc' = to /\ exit' = code
         /\ (shown' <=> Telling(opts))
BY Zenon DEF Parser!Report, Parser!Shows, Telling

LEMMA UnderstoodStep ==
  ASSUME Understood, i \in Nat, Len(args) \in Nat, Parser!Next
  PROVE  Understood'
<1> DEFINE whole == AllSaid(line)
           Meant == Parser!Right(whole) /\ opts = Parser!MeaningOf(whole)
<1>1. CASE Parser!Expand
  <2>1. /\ i = 1 /\ j = 1 /\ ~positional /\ opts = Parser!NoOptions /\ line \in CommandLines
        /\ args' = AllArgs(line) /\ pc' = "parse" /\ UNCHANGED <<line, i, j, positional, opts>>
    BY <1>1, LineIs, Zenon DEF Understood, Parser!Expand
  <2>2. Position(line, opts, i, j, positional)
    <3>1. 0 \in 0 .. Len(line.units) /\ 1 \in Nat \ {0} /\ 0 + 1 = 1 /\ 0 + (1 - 1) = 0
      BY <2>1, LineIs
    <3>2. ArgsBefore(line, 0) = 0 /\ MeansBefore(line, 0) = 0 /\ Len(AllSaid(line)) \in Nat
      BY <2>1, LineEnds, Zenon
    <3>3. 0 \in 0 .. Len(AllSaid(line)) /\ \A b \in 1 .. 0 : FALSE
      <4> DEFINE w == Len(AllSaid(line))
      <4> HIDE DEF w
      <4>1. w \in Nat
        BY <3>2 DEF w
      <4>2. 0 \in 0 .. w /\ \A b \in 1 .. 0 : FALSE
        BY <4>1
      <4> QED  BY <4>2 DEF w
    <3>4. Told(line, opts, 0)
      BY <2>1, <3>3, NothingHeard, Zenon DEF Told
    <3>5. AtUnit(line, opts, i, j, positional, 0)
      BY <2>1, <3>1, <3>2, <3>4, Zenon DEF AtUnit
    <3> QED  BY <3>1, <3>5, Zenon DEF Position
  <2> QED  BY <2>1, <2>2 DEF Understood
<1>2. CASE Turn
  <2>1. pc = "parse"
    BY <1>2, Zenon DEF Turn, Parser!TakeURL, Parser!TakeDashDash, Parser!TakeFlag, Parser!TakeValue,
                       Parser!BadOption, Parser!AtURL, Parser!AtOption, Parser!Parsing
  <2>2. Turned
    BY <1>2, <2>1, EveryTurn, Zenon DEF Understood
  <2>3. CASE UNCHANGED <<pc, line, args>> /\ Position(line, opts', i', j', positional')
    BY <2>1, <2>3 DEF Understood
  <2>4. CASE Parser!BadOption /\ ~Parser!Right(whole)
    <3>1. UNCHANGED <<line, opts>> /\ pc' = "refused" /\ (shown' <=> Telling(opts))
      BY <2>4, ReportTells, Zenon DEF Parser!BadOption
    <3> QED  BY <2>4, <3>1 DEF Understood
  <2> QED  BY <2>2, <2>3, <2>4 DEF Turned
<1>3. Parser!EndOfArgs => Meant
  <2>1. Parser!EndOfArgs => ~(i <= Len(args)) /\ pc = "parse"
    BY DEF Parser!EndOfArgs
  <2> QED  BY <2>1, ReadAll, Zenon DEF Understood
<1>4. CASE Parser!ParseEnds
  BY <1>3, <1>4 DEF Parser!ParseEnds, Understood
<1>5. CASE Parser!BadCombination
  <2>1. /\ UNCHANGED <<line, opts>> /\ pc' = "refused" /\ exit' = 2 /\ (shown' <=> Telling(opts))
        /\ Meant /\ (Parser!Conflict(opts) \/ Parser!NoURL(opts))
    BY <1>3, <1>5, ReportTells, Zenon DEF Parser!BadCombination
  <2>2. 2 # 3
    OBVIOUS
  <2>3. Cause(opts, exit')
    BY <2>1, <2>2, Zenon DEF Cause
  <2> QED  BY <2>1, <2>3 DEF Understood
<1>6. pc \in {"run", "transfer"} => Meant
  BY DEF Understood
<1>7. CASE Parser!PrintAndExit
  <2>1. /\ pc = "run" /\ UNCHANGED <<line, opts>>
        /\ pc' = "done" \/ (pc' = "failed" /\ (shown' <=> Telling(opts)))
    BY <1>7, ReportTells, Zenon DEF Parser!PrintAndExit
  <2> QED  BY <1>6, <2>1 DEF Understood
<1>8. CASE Parser!Execute
  <2>1. /\ pc = "run" /\ UNCHANGED <<line, opts>>
        /\ \/ pc' = "transfer"
           \/ /\ pc' = "refused" /\ (shown' <=> Telling(opts))
              /\ \/ exit' = 3 /\ ~Parser!Readable(opts)
                 \/ exit' = 2 /\ (~Parser!OneOrigin(opts) \/ Parser!Impossible(opts) \/ opts.list["header"] # << >>)
    BY <1>8, ReportTells, Zenon DEF Parser!Execute
  <2>2. 2 # 3
    OBVIOUS
  <2>3. pc' = "refused" => Cause(opts, exit')
    BY <2>1, <2>2 DEF Cause
  <2> QED  BY <1>6, <2>1, <2>3 DEF Understood
<1>9. ASSUME NEW code \in Codes, Parser!TransferEnds(code) PROVE Understood'
  <2>1. /\ pc = "transfer" /\ UNCHANGED <<line, opts>>
        /\ pc' = "done" \/ (pc' = "failed" /\ (shown' <=> Telling(opts)))
    BY <1>9, ReportTells, Zenon DEF Parser!TransferEnds
  <2> QED  BY <1>6, <2>1 DEF Understood
<1> QED  BY <1>1, <1>2, <1>4, <1>5, <1>7, <1>8, <1>9 DEF Parser!Next, Turn

LEMMA UnderstoodSafe ==
  ASSUME Understood
  PROVE  Parser!ArgumentsAreUnderstood
<1>1. Parser!Said = AllSaid(line) /\ Parser!Meaning = Parser!MeaningOf(AllSaid(line))
  BY FlattenIsParsers, Zenon DEF Parser!Said, Parser!Meaning, AllSaid, MeansIn
<1> DEFINE right == Parser!Right(Parser!Said)
           o == Parser!Meaning
<1>2. /\ pc \in {"run", "transfer", "failed"} \/ (pc = "refused" /\ right) => right /\ opts = o
      /\ pc = "refused" /\ right => Cause(opts, exit)
      /\ pc \in {"refused", "failed"} => (shown <=> Telling(opts))
  BY <1>1, Zenon DEF Understood
<1> HIDE DEF right, o
<1>3. pc \in {"run", "transfer"} => right /\ opts = o
  BY <1>2
<1>4. pc = "refused" /\ right => Cause(o, exit)
  BY <1>2
<1>5. pc \in {"refused", "failed"} /\ right => (shown <=> Telling(o))
  BY <1>2
<1>6. Parser!SpellingIsFree
  BY <1>3, Zenon DEF Parser!SpellingIsFree, right, o
<1>7. Parser!RefusedForCause
  BY <1>4, Zenon DEF Parser!RefusedForCause, right, o, Cause
<1>8. Parser!SilentUnlessAsked
  BY <1>5, Zenon DEF Parser!SilentUnlessAsked, right, o, Telling
<1> QED  BY <1>6, <1>7, <1>8 DEF Parser!ArgumentsAreUnderstood

-----------------------------------------------------------------------------
(* None is read behind the last, and the rules have been applied to the      *)
(* options a transfer is given: those of ParseArgs before anything runs,     *)
(* those of execute before the transfer.                                     *)

Judged ==
  /\ pc \in {"run", "transfer"} => ~Parser!Conflict(opts)
  /\ pc = "transfer" => ~Parser!Impossible(opts)
FamilyGiven == {"", "4", "6"}
ParserTyped ==
  /\ pc \in {"expand", "parse", "run", "transfer", "done", "refused", "failed"}
  /\ Len(args) \in Nat /\ i \in 1 .. Len(args) + 1 /\ j \in Nat \ {0}
  /\ pc = "expand" => i = 1
  /\ DOMAIN opts = {"flags", "family", "single", "list", "urls"}
  /\ opts.flags \subseteq Parser!Flags /\ opts.family \in FamilyGiven
  /\ exit \in {-1, 0, 2, 3, 23} \cup Codes /\ shown \in BOOLEAN
ParserInv == Judged /\ ParserTyped /\ Understood

LEMMA SameJudgement ==
  ASSUME opts' = opts
  PROVE  Parser!Conflict(opts)' = Parser!Conflict(opts) /\ Parser!Impossible(opts)' = Parser!Impossible(opts)
BY Zenon DEF Parser!Conflict, Parser!Impossible, Parser!UTLSOptionsSet, Parser!Has, Parser!ALPNOption, Parser!Scheme

LEMMA JudgedStep ==
  ASSUME Judged, Parser!Next
  PROVE  Judged'
<1> USE DEF Judged
<1>1. CASE Parser!Expand
  BY <1>1 DEF Parser!Expand
<1>2. CASE Parser!TakeURL \/ Parser!TakeDashDash \/ Parser!TakeFlag \/ Parser!TakeValue
  BY <1>2 DEF Parser!TakeURL, Parser!TakeDashDash, Parser!TakeFlag, Parser!TakeValue, Parser!Go,
              Parser!AtURL, Parser!AtOption, Parser!Parsing
<1>3. CASE Parser!BadOption \/ Parser!BadCombination
  BY <1>3 DEF Parser!BadOption, Parser!BadCombination, Parser!Report
<1>4. CASE Parser!ParseEnds
  <2>1. ~Parser!Conflict(opts) /\ opts' = opts /\ pc' = "run"
    BY <1>4 DEF Parser!ParseEnds
  <2> QED  BY <2>1, SameJudgement, Zenon
<1>5. CASE Parser!PrintAndExit
  BY <1>5 DEF Parser!PrintAndExit, Parser!Report
<1>6. CASE Parser!Execute
  <2>1. opts' = opts /\ pc = "run" /\ (pc' = "refused" \/ (pc' = "transfer" /\ ~Parser!Impossible(opts)))
    BY <1>6 DEF Parser!Execute, Parser!Report
  <2> QED  BY <2>1, SameJudgement, Zenon
<1>7. ASSUME NEW code \in Codes, Parser!TransferEnds(code) PROVE Judged'
  BY <1>7 DEF Parser!TransferEnds, Parser!Report
<1> QED  BY <1>1, <1>2, <1>3, <1>4, <1>5, <1>6, <1>7 DEF Parser!Next

LEMMA ParserTypedStep ==
  ASSUME ParserTyped, line \in CommandLines, Parser!Next
  PROVE  ParserTyped'
<1>1. CASE Parser!Expand
  <2>1. Len(args') \in Nat
    <3>1. args' = AllArgs(line)
      BY <1>1, LineIs, Zenon DEF Parser!Expand
    <3> QED  BY <3>1, LineEnds, Zenon
  <2>2. i' = 1 /\ pc' = "parse" /\ UNCHANGED <<line, j, opts, exit, shown>>
    BY <1>1 DEF Parser!Expand, ParserTyped
  <2> QED  BY <2>1, <2>2 DEF ParserTyped
<1>2. CASE Parser!TakeURL
  BY <1>2 DEF Parser!TakeURL, Parser!Go, Parser!AtURL, Parser!Parsing, ParserTyped
<1>3. CASE Parser!TakeDashDash
  BY <1>3 DEF Parser!TakeDashDash, Parser!Parsing, ParserTyped
<1>4. CASE Parser!TakeFlag
  <2>1. /\ UNCHANGED <<line, args, pc, exit, shown>> /\ Parser!Parsing
        /\ (i' = i + 1 /\ j' = 1) \/ (i' = i /\ j' = j + 1)
        /\ opts' = IF Parser!Name \in Parser!Flags THEN [opts EXCEPT !.flags = @ \cup {Parser!Name}]
                   ELSE [opts EXCEPT !.family = Parser!FamilyOf(Parser!Name)]
    BY <1>4, Zenon DEF Parser!TakeFlag, Parser!AtOption, Parser!Go
  <2>2. \A name : Parser!FamilyOf(name) \in FamilyGiven
    BY Zenon DEF Parser!FamilyOf, FamilyGiven
  <2>3. /\ DOMAIN opts' = {"flags", "family", "single", "list", "urls"}
        /\ opts'.flags \subseteq Parser!Flags /\ opts'.family \in FamilyGiven
    BY <2>1, <2>2 DEF ParserTyped
  <2> QED  BY <2>1, <2>3 DEF ParserTyped, Parser!Parsing
<1>5. CASE Parser!TakeValue
  <2>1. /\ UNCHANGED <<line, args, pc, exit, shown>> /\ Parser!Parsing
        /\ i' = Parser!After /\ j' = 1 /\ Parser!HasValue
        /\ \/ opts' = [opts EXCEPT !.list[Parser!Name] = Append(@, Parser!Value)]
           \/ opts' = [opts EXCEPT !.single[Parser!Name] = Parser!Value]
    BY <1>5, Zenon DEF Parser!TakeValue, Parser!AtOption, Parser!Go
  <2>2. i' \in 1 .. Len(args) + 1
    BY <2>1 DEF Parser!After, Parser!HasValue, Parser!OwnValue, Parser!Parsing, ParserTyped
  <2>3. DOMAIN opts' = DOMAIN opts /\ opts'.flags = opts.flags /\ opts'.family = opts.family
    BY <2>1 DEF ParserTyped
  <2> QED  BY <2>1, <2>2, <2>3 DEF ParserTyped, Parser!Parsing
<1>6. CASE Parser!BadOption \/ Parser!BadCombination
  BY <1>6 DEF Parser!BadOption, Parser!BadCombination, Parser!Report, Parser!Shows, ParserTyped
<1>7. CASE Parser!ParseEnds
  BY <1>7 DEF Parser!ParseEnds, ParserTyped
<1>8. CASE Parser!PrintAndExit \/ Parser!Execute
  BY <1>8 DEF Parser!PrintAndExit, Parser!Execute, Parser!Report, Parser!Shows, ParserTyped
<1>9. ASSUME NEW code \in Codes, Parser!TransferEnds(code) PROVE ParserTyped'
  BY <1>9 DEF Parser!TransferEnds, Parser!Report, Parser!Shows, ParserTyped
<1> QED  BY <1>1, <1>2, <1>3, <1>4, <1>5, <1>6, <1>7, <1>8, <1>9 DEF Parser!Next

LEMMA ParserStarts ==
  ASSUME Parser!Init
  PROVE  ParserInv
<1>1. /\ line \in CommandLines /\ args = << >> /\ i = 1 /\ j = 1 /\ pc = "expand" /\ exit = -1 /\ shown = FALSE
      /\ opts = Parser!NoOptions
  BY Zenon DEF Parser!Init
<1>2. opts.flags = {} /\ opts.family = "" /\ DOMAIN opts = {"flags", "family", "single", "list", "urls"}
  BY <1>1, Zenon DEF Parser!NoOptions
<1>3. opts.family \in FamilyGiven
  BY <1>2, Zenon DEF FamilyGiven
<1>4. DOMAIN opts = {"flags", "family", "single", "list", "urls"} /\ opts.flags \subseteq Parser!Flags
  BY <1>2, Zenon
<1>5. Len(args) \in Nat /\ i \in 1 .. Len(args) + 1 /\ j \in Nat \ {0}
  <2>1. Len(<< >>) \in Nat /\ 1 \in 1 .. Len(<< >>) + 1 /\ 1 \in Nat \ {0}
    OBVIOUS
  <2> QED  BY <1>1, <2>1, Zenon
<1>6. exit \in {-1, 0, 2, 3, 23} \cup Codes /\ shown \in BOOLEAN
  BY <1>1
<1>7. ParserTyped
  BY <1>1, <1>3, <1>4, <1>5, <1>6, Zenon DEF ParserTyped
<1>8. Understood
  <2>1. positional = FALSE
    BY Zenon DEF Parser!Init
  <2> QED  BY <1>1, <2>1 DEF Understood
<1> QED  BY <1>1, <1>7, <1>8 DEF ParserInv, Judged

LEMMA ParserMoves ==
  ASSUME ParserInv, Parser!Next
  PROVE  ParserInv'
<1>1. line \in CommandLines
  BY Zenon DEF ParserInv, Understood
<1>2. i \in Nat /\ Len(args) \in Nat
  BY DEF ParserInv, ParserTyped
<1> QED  BY <1>1, <1>2, JudgedStep, ParserTypedStep, UnderstoodStep, Zenon DEF ParserInv

LEMMA ParserStays ==
  ASSUME ParserInv, UNCHANGED <<pc, args, opts, exit, ofArguments>>
  PROVE  ParserInv'
<1>1. UNCHANGED <<line, args, i, j, positional, pc, opts, exit, shown>>
  BY DEF ofArguments
<1>2. Judged'
  BY <1>1, SameJudgement, Zenon DEF ParserInv, Judged
<1>3. Understood'
  BY <1>1, Zenon DEF ParserInv, Understood
<1> QED  BY <1>1, <1>2, <1>3, Zenon DEF ParserInv, ParserTyped

LEMMA ParserSafe ==
  ASSUME ParserInv
  PROVE  Parser!TypeOK /\ Parser!TransferIsPossible /\ Parser!ArgumentsAreUnderstood
<1>1. Parser!TypeOK
  BY Zenon DEF ParserInv, ParserTyped, FamilyGiven, Parser!TypeOK
<1>2. Parser!TransferIsPossible
  BY DEF ParserInv, Judged, Parser!TransferIsPossible, Parser!Conflict, Parser!Impossible, Parser!ALPNOption
<1> QED  BY <1>1, <1>2, UnderstoodSafe DEF ParserInv

LEMMA ParserInvariance == Spec => [](part = "arguments" => ParserInv)
<1>1. Init => (part = "arguments" => ParserInv)
  BY ParserStarts DEF Init
<1>2. ASSUME part = "arguments" => ParserInv, [Next]_vars PROVE (part = "arguments" => ParserInv)'
  <2>1. CASE ArgumentsStep
    BY <1>2, <2>1, ParserMoves DEF ArgumentsStep
  <2>2. CASE SYNStep \/ URLsStep \/ RequestStep \/ HelloStep
    BY <2>2 DEF SYNStep, URLsStep, RequestStep, HelloStep
  <2>3. CASE UNCHANGED vars
    BY <1>2, <2>3, ParserStays DEF vars
  <2> QED  BY <1>2, <2>1, <2>2, <2>3 DEF Next
<1> QED  BY <1>1, <1>2, PTL DEF Spec

\* A transfer starts only with options all of which it can honour, for every
\* command line: the rules of ParseArgs and those of checkTransportOptions,
\* which are far apart in the code, leave no forbidden combination between them.
THEOREM OnlyPossibleTransfers == Spec => []TransferIsPossible
<1>1. (part = "arguments" => ParserInv) => TransferIsPossible
  BY ParserSafe DEF TransferIsPossible
<1> QED  BY <1>1, ParserInvariance, PTL

\* The arguments are understood: for every list of right units, however they
\* are spelled, clustered, ordered or combined into one argument, the program
\* runs with what they mean together or refuses them for a reason in it.
THEOREM ArgumentsUnderstood == Spec => []ArgumentsAreUnderstood
<1>1. (part = "arguments" => ParserInv) => ArgumentsAreUnderstood
  BY ParserSafe DEF ArgumentsAreUnderstood
<1> QED  BY <1>1, ParserInvariance, PTL

-----------------------------------------------------------------------------
(* expandGlob reads each piece of a URL as what it means. *)

\* What stands at the front of the rest is read as what the piece means.
Reads(piece, behind) ==
  /\ URLs!Escaping => piece.means = << << rest[2] >> >> /\ SubSeq(rest, 3, Len(rest)) = behind
  /\ ~URLs!Escaping /\ rest[1] \notin URLs!Special \ {","} => piece.means = << << rest[1] >> >> /\ Tail(rest) = behind
  /\ rest[1] = "{" /\ URLs!Closer # 0 =>
       piece.means = URLs!SetItems(URLs!Inside) /\ SubSeq(rest, URLs!Closer + 1, Len(rest)) = behind
  /\ rest[1] = "[" /\ URLs!Closer # 0 /\ URLs!IsRange(URLs!Inside) =>
       piece.means = URLs!RangeItems(URLs!Inside) /\ SubSeq(rest, URLs!Closer + 1, Len(rest)) = behind

PieceTyped(C, piece) == piece.text \in Seq(C) /\ piece.means \in Seq(Seq(C))
AtFront(C, piece, behind) == PieceTyped(C, piece) /\ behind \in Seq(C) /\ rest = piece.text \o behind

LEMMA PlainReads ==
  ASSUME NEW C, NEW piece, NEW behind, AtFront(C, piece, behind), URLs!Plain(piece, behind)
  PROVE  Reads(piece, behind)
<1> DEFINE text == piece.text
<1>1. text \in Seq(C) /\ behind \in Seq(C) /\ rest = text \o behind
  BY Zenon DEF AtFront, PieceTyped
<1>2. /\ Len(text) = 1 /\ text[1] \notin URLs!Special \ {","}
      /\ (text[1] = "\\" /\ behind # << >> => behind[1] \notin URLs!Special)
      /\ piece.means = << text >>
  BY Zenon DEF URLs!Plain
<1>3. Len(text) = 1
  BY <1>2, Zenon
<1> HIDE DEF text
<1>4. /\ rest[1] = text[1] /\ Tail(rest) = behind /\ text = << text[1] >>
      /\ Len(rest) > 1 => behind # << >> /\ rest[2] = behind[1]
  BY ONLY <1>1, <1>3, OneAtFront, SMTT(40)
<1>5. ~URLs!Escaping
  BY <1>2, <1>4, Zenon DEF URLs!Escaping
<1>6. rest[1] # "{" /\ rest[1] # "["
  BY <1>2, <1>4, Zenon DEF URLs!Special
<1>7. piece.means = << << rest[1] >> >>
  BY <1>2, <1>4, Zenon
<1> QED  BY <1>4, <1>5, <1>6, <1>7, Zenon DEF Reads

LEMMA EscapedReads ==
  ASSUME NEW C, NEW piece, NEW behind, AtFront(C, piece, behind), URLs!Escaped(piece)
  PROVE  Reads(piece, behind)
<1> DEFINE text == piece.text
<1>1. text \in Seq(C) /\ behind \in Seq(C) /\ rest = text \o behind
  BY Zenon DEF AtFront, PieceTyped
<1>2. text[1] = "\\" /\ text[2] \in URLs!Special /\ piece.means = << << text[2] >> >>
  BY Zenon DEF URLs!Escaped
<1>3. Len(text) = 2
  BY Zenon DEF URLs!Escaped
<1> HIDE DEF text
<1>4. rest[1] = text[1] /\ rest[2] = text[2] /\ Len(rest) > 1 /\ SubSeq(rest, 3, Len(rest)) = behind
  <2>1. text \in Seq(C)
    BY <1>1
  <2>2. behind \in Seq(C)
    BY <1>1
  <2>3. rest = text \o behind
    BY <1>1
  <2>4. TwoFirst(rest, text, behind)
    BY ONLY <1>3, <2>1, <2>2, <2>3, TwoAtFront
  <2> QED  BY <2>4, Zenon DEF TwoFirst
<1>5. URLs!Escaping
  BY <1>2, <1>4, Zenon DEF URLs!Escaping
<1>6. rest[1] # "{" /\ rest[1] # "["
  BY <1>2, <1>4, Zenon
<1> QED  BY <1>2, <1>4, <1>5, <1>6, Zenon DEF Reads

LEMMA SetReads ==
  ASSUME NEW C, NEW piece, NEW behind, AtFront(C, piece, behind), URLs!SetPiece(piece)
  PROVE  Reads(piece, behind)
<1> DEFINE text == piece.text
           opener == "{"
           closer == "}"
<1>1. piece.text \in Seq(C) /\ piece.means \in Seq(Seq(C)) /\ behind \in Seq(C) /\ rest = piece.text \o behind
  BY Zenon DEF AtFront, PieceTyped
<1>2. /\ URLs!Encloses(piece, opener, closer) /\ piece.means # << >>
      /\ \A m \in DOMAIN piece.means : "," \notin URLs!ToSet(piece.means[m])
      /\ URLs!Between(piece) = URLs!Joined(piece.means) /\ opener # closer
  BY Zenon DEF URLs!SetPiece
<1>3. URLs!SetItems(URLs!Joined(piece.means)) = piece.means
  <2> DEFINE items == piece.means
  <2> HIDE DEF items
  <2>1. items \in Seq(Seq(C))
    BY <1>1, Zenon DEF items
  <2>2. items # << >>
    BY <1>2, Zenon DEF items
  <2>3. \A m \in DOMAIN items : "," \notin URLs!ToSet(items[m])
    BY <1>2, Zenon DEF items
  <2>4. URLs!SetItems(URLs!Joined(items)) = items
    BY ONLY <2>1, <2>2, <2>3, SetItemsOfJoined, Zenon
  <2> QED  BY <2>4, Zenon DEF items
<1>4. rest[1] = "{" => URLs!Closer = URLs!Index(rest, closer)
  BY Zenon DEF URLs!Closer
<1> HIDE DEF opener, closer
<1>5. /\ URLs!Index(rest, closer) = Len(piece.text) /\ Len(piece.text) # 0
      /\ SubSeq(rest, 2, Len(piece.text) - 1) = URLs!Between(piece)
      /\ SubSeq(rest, Len(piece.text) + 1, Len(rest)) = behind
      /\ rest[1] = opener /\ URLs!Between(piece) \in Seq(C)
  <2>1. piece.text \in Seq(C)
    BY <1>1, Zenon
  <2>2. behind \in Seq(C)
    BY <1>1, Zenon
  <2>3. rest = piece.text \o behind
    BY <1>1, Zenon
  <2>4. opener # closer
    BY <1>2, Zenon
  <2>5. URLs!Encloses(piece, opener, closer)
    BY <1>2, Zenon
  <2>6. Enclosed(C, rest, piece, opener, closer, behind)
    BY ONLY <2>1, <2>2, <2>3, <2>4, <2>5, EnclosedIs, Zenon
  <2> QED  BY <2>6, Zenon DEF Enclosed
<1>6. rest[1] = "{"
  BY <1>5, Zenon DEF opener
<1>7. URLs!Closer = Len(piece.text) /\ URLs!Inside = URLs!Between(piece)
  BY <1>4, <1>5, <1>6, Zenon DEF URLs!Inside
<1>8. ~URLs!Escaping /\ rest[1] \in URLs!Special \ {","} /\ rest[1] # "["
  BY <1>6, Zenon DEF URLs!Escaping, URLs!Special
<1> QED  BY <1>2, <1>3, <1>5, <1>7, <1>8, Zenon DEF Reads

LEMMA RangeReads ==
  ASSUME NEW C, NEW piece, NEW behind, AtFront(C, piece, behind),
         URLs!RangePiece(piece) \/ (URLs!Malformed(piece, behind) /\ URLs!Encloses(piece, "[", "]"))
  PROVE  Reads(piece, behind)
<1> DEFINE opener == "["
           closer == "]"
           spec == URLs!Between(piece)
<1>1. piece.text \in Seq(C) /\ behind \in Seq(C) /\ rest = piece.text \o behind
  BY Zenon DEF AtFront, PieceTyped
<1>2. URLs!Encloses(piece, opener, closer) /\ opener # closer
  BY Zenon DEF URLs!RangePiece
<1>4. rest[1] = "[" => URLs!Closer = URLs!Index(rest, closer)
  BY Zenon DEF URLs!Closer
<1> HIDE DEF opener, closer
<1>5. /\ URLs!Index(rest, closer) = Len(piece.text) /\ Len(piece.text) # 0
      /\ SubSeq(rest, 2, Len(piece.text) - 1) = URLs!Between(piece)
      /\ SubSeq(rest, Len(piece.text) + 1, Len(rest)) = behind
      /\ rest[1] = opener /\ URLs!Between(piece) \in Seq(C)
  <2>1. piece.text \in Seq(C)
    BY <1>1, Zenon
  <2>2. behind \in Seq(C)
    BY <1>1, Zenon
  <2>3. rest = piece.text \o behind
    BY <1>1, Zenon
  <2>4. opener # closer
    BY <1>2, Zenon
  <2>5. URLs!Encloses(piece, opener, closer)
    BY <1>2, Zenon
  <2>6. Enclosed(C, rest, piece, opener, closer, behind)
    BY ONLY <2>1, <2>2, <2>3, <2>4, <2>5, EnclosedIs, Zenon
  <2> QED  BY <2>6, Zenon DEF Enclosed
<1>6. rest[1] = "["
  BY <1>5, Zenon DEF opener
<1>7. URLs!Closer = Len(piece.text) /\ URLs!Inside = spec
  BY <1>4, <1>5, <1>6, Zenon DEF URLs!Inside
<1>8. ~URLs!Escaping /\ rest[1] \in URLs!Special \ {","} /\ rest[1] # "{"
  BY <1>6, Zenon DEF URLs!Escaping, URLs!Special
<1>9. URLs!IsRange(spec) => piece.means = URLs!RangeItems(spec)
  <2> SUFFICES ASSUME URLs!IsRange(spec) PROVE piece.means = URLs!RangeItems(spec)
    OBVIOUS
  <2>1. spec \in Seq(C)
    BY <1>5, Zenon
  <2> HIDE DEF spec
  <2>2. CASE URLs!RangePiece(piece)
    <3>1. PICK dash \in DOMAIN spec : /\ URLs!Bounds(spec, dash)
                                      /\ piece.means = URLs!Counted(URLs!Left(spec, dash), URLs!Right(spec, dash))
      BY <2>2, Zenon DEF URLs!RangePiece, spec
    <3>2. URLs!RangeItems(spec) = URLs!Counted(URLs!Left(spec, dash), URLs!Right(spec, dash))
      BY ONLY <2>1, <3>1, dash \in DOMAIN spec, BoundsAre
    <3> QED  BY <3>1, <3>2, Zenon
  <2>3. CASE URLs!Malformed(piece, behind)
    <3>1. URLs!Bounds(spec, URLs!Index(spec, "-")) /\ URLs!Index(spec, "-") \in DOMAIN spec
      <4>1. Len(spec) \in Nat /\ DOMAIN spec = 1 .. Len(spec)
        BY ONLY <2>1
      <4>2. URLs!IsRange(spec)
        OBVIOUS
      <4>3. URLs!Bounds(spec, URLs!Index(spec, "-")) /\ URLs!Index(spec, "-") \in 1 .. Len(spec)
        BY ONLY <4>1, <4>2, RangeIsBounds, Zenon
      <4> QED  BY <4>1, <4>3, Zenon
    <3>2. \A dash \in DOMAIN spec : ~URLs!Bounds(spec, dash)
      <4>1. piece.text[1] = "[" /\ Len(piece.text) > 1
        BY <1>2, Zenon DEF URLs!Encloses, URLs!Delimited, opener
      <4>2. \A c : Len(<< c >>) = 1
        OBVIOUS
      <4>3. ~(1 > 1)
        OBVIOUS
      <4>4. piece.text # << "[" >> /\ piece.text # << "{" >> /\ piece.text # << "}" >> /\ piece.text # << "]" >>
        BY <4>1, <4>2, <4>3, Zenon
      <4> QED  BY <2>3, <4>4, Zenon DEF URLs!Malformed, spec
    <3> QED  BY <3>1, <3>2, Zenon
  <2> QED  BY <2>2, <2>3, Zenon
<1> QED  BY <1>5, <1>7, <1>8, <1>9, Zenon DEF Reads

LEMMA LoneReads ==
  ASSUME NEW C, NEW piece, NEW behind, AtFront(C, piece, behind), URLs!Malformed(piece, behind),
         ~URLs!Encloses(piece, "[", "]")
  PROVE  Reads(piece, behind)
<1> DEFINE text == piece.text
<1>1. text \in Seq(C) /\ behind \in Seq(C) /\ rest = text \o behind
  BY Zenon DEF AtFront, PieceTyped
<1>2. PICK c : /\ text = << c >> /\ c \in {"{", "}", "[", "]"}
               /\ c = "{" => "}" \notin URLs!ToSet(behind)
               /\ c = "[" => "]" \notin URLs!ToSet(behind)
  <2> DEFINE Q(c) == /\ text = << c >> /\ c \in {"{", "}", "[", "]"}
                     /\ c = "{" => "}" \notin URLs!ToSet(behind)
                     /\ c = "[" => "]" \notin URLs!ToSet(behind)
  <2>1. Q("}") \/ Q("]") \/ Q("{") \/ Q("[")
    BY Zenon DEF URLs!Malformed
  <2> QED  BY <2>1, Zenon
<1>3. rest[1] = c
  <2> DEFINE t == << c >>
  <2>1. Len(text) = 1 /\ text[1] = c
    <3>1. Len(t) = 1 /\ t[1] = c
      BY ONLY TRUE
    <3> QED  BY <1>2, <3>1, Zenon
  <2> HIDE DEF text
  <2>2. Len(text) = 1
    BY <2>1, Zenon
  <2>3. rest[1] = text[1]
    BY ONLY <1>1, <2>2, OneAtFront
  <2> QED  BY <2>1, <2>3, Zenon
<1>4. ~URLs!Escaping /\ rest[1] \in URLs!Special \ {","}
  BY <1>2, <1>3, Zenon DEF URLs!Escaping, URLs!Special
<1>5. ASSUME NEW d, d # c, d \notin URLs!ToSet(behind) PROVE URLs!Index(rest, d) = 0
  <2>1. Without(behind, d)
    BY ONLY <1>1, <1>5, ToSetIs
  <2>2. text = << c >>
    BY <1>2, Zenon
  <2>3. Len(rest) \in Nat /\ \A u \in 1 .. Len(rest) : rest[u] # d
    <3> HIDE DEF text
    <3>1. c \in C
      BY ONLY <1>1, <2>2
    <3> DEFINE w == << c >> \o behind
    <3>2. Len(w) \in Nat /\ w[1] = c /\ \A u \in 1 .. Len(w) : u # 1 => u - 1 \in 1 .. Len(behind) /\ w[u] = behind[u - 1]
      BY ONLY <1>1, <3>1
    <3>3. w = rest
      BY <1>1, <2>2, Zenon
    <3> HIDE DEF w
    <3>4. ASSUME NEW u \in 1 .. Len(w) PROVE w[u] # d
      <4>1. CASE u = 1
        BY <1>5, <3>2, <4>1, Zenon
      <4>2. CASE u # 1
        BY <2>1, <3>2, <4>2, Zenon DEF Without
      <4> QED  BY <4>1, <4>2, Zenon
    <3> QED  BY <3>2, <3>3, <3>4, Zenon
  <2>4. First(rest, d, 0)
    BY <2>3, Zenon DEF First
  <2>5. Len(rest) \in Nat
    BY <2>3, Zenon
  <2> QED  BY ONLY <2>4, <2>5, IndexAt
<1>6. rest[1] = "{" => URLs!Closer = 0
  <2> SUFFICES ASSUME rest[1] = "{" PROVE URLs!Closer = 0
    OBVIOUS
  <2>1. c = "{" /\ "}" # c /\ "}" \notin URLs!ToSet(behind)
    BY <1>2, <1>3, Zenon
  <2> QED  BY <1>5, <2>1, Zenon DEF URLs!Closer
<1>7. rest[1] = "[" => URLs!Closer = 0
  <2> SUFFICES ASSUME rest[1] = "[" PROVE URLs!Closer = 0
    OBVIOUS
  <2>1. c = "[" /\ "]" # c /\ "]" \notin URLs!ToSet(behind)
    BY <1>2, <1>3, Zenon
  <2> QED  BY <1>5, <2>1, Zenon DEF URLs!Closer
<1> QED  BY <1>4, <1>6, <1>7, Zenon DEF Reads

Kinds(piece, behind) ==
  URLs!Plain(piece, behind) \/ URLs!Escaped(piece) \/ URLs!SetPiece(piece) \/ URLs!EscapedSet(piece)
    \/ URLs!RangePiece(piece) \/ URLs!Malformed(piece, behind)

LEMMA PieceReads ==
  ASSUME NEW C, NEW piece, NEW behind, AtFront(C, piece, behind), Kinds(piece, behind),
         ~URLs!EscapedSet(piece)
  PROVE  Reads(piece, behind)
BY PlainReads, EscapedReads, SetReads, RangeReads, LoneReads, Zenon DEF Kinds

-----------------------------------------------------------------------------
(* An argument as it is written *)

\* An argument written with the characters C.
Written(arg, C) ==
  /\ Len(arg.pieces) \in Nat /\ DOMAIN arg.pieces = 1 .. Len(arg.pieces)
  /\ \A m \in 1 .. Len(arg.pieces) :
       PieceTyped(C, arg.pieces[m]) /\ Kinds(arg.pieces[m], URLs!Behind(arg, m))

CharsOf(piece) == URLs!ToSet(piece.text) \cup UNION {URLs!ToSet(t) : t \in URLs!ToSet(piece.means)}

LEMMA PieceIsTyped ==
  ASSUME NEW piece, URLs!IsList(piece.text), URLs!IsList(piece.means),
         \A t \in URLs!ToSet(piece.means) : URLs!IsList(t), NEW C, CharsOf(piece) \subseteq C
  PROVE  PieceTyped(C, piece)
<1> DEFINE X == URLs!ToSet(piece.text)
           Y == URLs!ToSet(piece.means)
<1>1. piece.text \in Seq(X) /\ piece.means \in Seq(Y) /\ \A t \in Y : t \in Seq(URLs!ToSet(t))
  BY Zenon DEF URLs!IsList
<1>2. X \subseteq C /\ \A t \in Y : URLs!ToSet(t) \subseteq C
  BY Zenon DEF CharsOf
<1> HIDE DEF X, Y
<1>3. piece.text \in Seq(C)
  BY <1>1, <1>2, SeqMonotonic
<1>4. \A t \in Y : t \in Seq(C)
  BY <1>1, <1>2, SeqMonotonic
<1> DEFINE B == Seq(C)
<1>5. Y \subseteq B
  BY <1>4
<1> HIDE DEF B
<1>6. piece.means \in Seq(B)
  BY <1>1, <1>5, SeqMonotonic
<1> QED  BY <1>3, <1>6 DEF PieceTyped, B

LEMMA ArgIsWritten ==
  ASSUME args \in Inputs, NEW a \in DOMAIN args
  PROVE  \E C : Written(args[a], C)
<1> DEFINE arg == args[a]
           C == UNION {CharsOf(arg.pieces[m]) : m \in DOMAIN arg.pieces}
<1>1. URLs!WellWritten(arg)
  BY URLsAssumption, Zenon DEF URLs!GlobAssumption
<1> HIDE DEF arg
<1>2. URLs!IsList(arg.pieces)
  BY <1>1, Zenon DEF URLs!WellWritten
<1>3. Len(arg.pieces) \in Nat /\ DOMAIN arg.pieces = 1 .. Len(arg.pieces)
  <2>1. arg.pieces \in Seq(URLs!ToSet(arg.pieces))
    BY <1>2, Zenon DEF URLs!IsList
  <2> QED  BY <2>1
<1>4. ASSUME NEW m \in DOMAIN arg.pieces
      PROVE  PieceTyped(C, arg.pieces[m]) /\ Kinds(arg.pieces[m], URLs!Behind(arg, m))
  <2>1. /\ URLs!IsList(arg.pieces[m].text) /\ URLs!IsList(arg.pieces[m].means)
        /\ \A t \in URLs!ToSet(arg.pieces[m].means) : URLs!IsList(t)
        /\ Kinds(arg.pieces[m], URLs!Behind(arg, m))
    BY <1>1, Zenon DEF URLs!WellWritten, Kinds
  <2>2. CharsOf(arg.pieces[m]) \subseteq C
    OBVIOUS
  <2> HIDE DEF C
  <2> QED  BY <2>1, <2>2, PieceIsTyped, Zenon
<1> HIDE DEF C
<1> QED  BY <1>3, <1>4, Zenon DEF Written, arg

LEMMA TextsAre ==
  ASSUME NEW arg, NEW C, Written(arg, C)
  PROVE  /\ URLs!Texts(arg) \in Seq(Seq(C)) /\ Len(URLs!Texts(arg)) = Len(arg.pieces)
         /\ \A m \in 1 .. Len(arg.pieces) : URLs!Texts(arg)[m] = arg.pieces[m].text
<1> DEFINE N == Len(arg.pieces)
           s == URLs!Texts(arg)
           B == Seq(C)
<1>1. N \in Nat /\ DOMAIN arg.pieces = 1 .. N /\ \A m \in 1 .. N : arg.pieces[m].text \in B
  BY Zenon DEF Written, PieceTyped
<1>2. s = [m \in 1 .. N |-> arg.pieces[m].text]
  BY <1>1, Zenon DEF URLs!Texts
<1> HIDE DEF N, s, B
<1>3. s \in [1 .. N -> B] /\ \A m \in 1 .. N : s[m] = arg.pieces[m].text
  BY <1>1, <1>2
<1>4. N \in Nat /\ s \in [1 .. N -> B]
  BY <1>1, <1>3
<1>5. s \in Seq(B) /\ Len(s) = N
  BY ONLY <1>4, SeqDef, LenProperties
<1> QED  BY <1>3, <1>5, Zenon DEF N, s, B

\* What is behind a piece is the next one and what is behind that.
LEMMA BehindIs ==
  ASSUME NEW arg, NEW C, Written(arg, C)
  PROVE  /\ URLs!Behind(arg, 0) = URLs!Text(arg) /\ URLs!Behind(arg, Len(arg.pieces)) = << >>
         /\ \A p \in 0 .. Len(arg.pieces) : URLs!Behind(arg, p) \in Seq(C)
         /\ \A p \in 0 .. Len(arg.pieces) - 1 :
              URLs!Behind(arg, p) = arg.pieces[p + 1].text \o URLs!Behind(arg, p + 1)
<1> DEFINE N == Len(arg.pieces)
           s == URLs!Texts(arg)
<1>1. s \in Seq(Seq(C)) /\ Len(s) = N /\ \A m \in 1 .. N : s[m] = arg.pieces[m].text
  BY TextsAre
<1>2. \A p : URLs!Behind(arg, p) = FlattenSeq(SubSeq(s, p + 1, N))
  <2>1. \A r : URLs!FlattenSeq(r) = FlattenSeq(r)
    BY Zenon DEF URLs!FlattenSeq, FlattenSeq
  <2> QED  BY <2>1, Zenon DEF URLs!Behind
<1>3. URLs!Text(arg) = FlattenSeq(s)
  <2>1. \A r : URLs!FlattenSeq(r) = FlattenSeq(r)
    BY Zenon DEF URLs!FlattenSeq, FlattenSeq
  <2> QED  BY <2>1, Zenon DEF URLs!Text
<1>4. N \in Nat
  BY <1>1
<1> HIDE DEF s, N
<1>5. URLs!Behind(arg, 0) = URLs!Text(arg)
  <2>1. SubSeq(s, 1, N) = s /\ 0 + 1 = 1
    BY <1>1, SubSeqFull
  <2> QED  BY <1>2, <1>3, <2>1, Zenon
<1>6. URLs!Behind(arg, N) = << >>
  <2>1. N + 1 \in Int /\ N \in Int /\ N < N + 1
    BY <1>4
  <2>2. SubSeq(s, N + 1, N) = << >>
    BY <1>1, <2>1, SubSeqEmpty
  <2> QED  BY <1>2, <2>2, FlattenEmpty, Zenon
<1>7. ASSUME NEW p \in 0 .. N PROVE URLs!Behind(arg, p) \in Seq(C)
  <2>1. p + 1 \in 1 .. Len(s) + 1
    BY <1>1, <1>4
  <2> DEFINE q == p + 1
  <2> HIDE DEF q
  <2>2. q \in 1 .. Len(s) + 1
    BY <2>1 DEF q
  <2>3. SubSeq(s, q, Len(s)) \in Seq(Seq(C))
    BY ONLY <1>1, <2>2, RestIs
  <2>4. FlattenSeq(SubSeq(s, q, Len(s))) \in Seq(C)
    BY ONLY <2>3, FlattenType
  <2> QED  BY <1>1, <1>2, <2>4, Zenon DEF q
<1>8. ASSUME NEW p \in 0 .. N - 1 PROVE URLs!Behind(arg, p) = arg.pieces[p + 1].text \o URLs!Behind(arg, p + 1)
  <2> DEFINE q == p + 1
  <2>1. q \in 1 .. Len(s)
    BY <1>1, <1>4
  <2>2. q \in 1 .. N
    BY <1>4
  <2> HIDE DEF q
  <2>3. FlattenSeq(SubSeq(s, q, Len(s))) = s[q] \o FlattenSeq(SubSeq(s, q + 1, Len(s)))
    BY <1>1, <2>1, FlattenBehind
  <2>4. URLs!Behind(arg, p) = arg.pieces[q].text \o URLs!Behind(arg, q)
    <3>1. URLs!Behind(arg, p) = FlattenSeq(SubSeq(s, q, N))
      BY <1>2, Zenon DEF q
    <3>2. URLs!Behind(arg, q) = FlattenSeq(SubSeq(s, q + 1, N))
      BY <1>2, Zenon
    <3> QED  BY <1>1, <2>2, <2>3, <3>1, <3>2, Zenon
  <2> QED  BY <2>4, Zenon DEF q
<1> QED  BY <1>5, <1>6, <1>7, <1>8, Zenon DEF N

\* The meanings of the first pieces.
Choice(C) == {e \in Seq(Seq(C)) : Len(e) \in Nat \ {0}}
Upto(arg, p) == SubSeq(URLs!MeansOf(arg), 1, p)
MeansAt(arg, m) == IF globoff THEN << arg.pieces[m].text >> ELSE arg.pieces[m].means

LEMMA ChoiceIs ==
  ASSUME NEW C
  PROVE  Choice(C) \subseteq Seq(Seq(C)) /\ Radix(Choice(C))
BY Zenon DEF Choice, Radix

LEMMA MeansAre ==
  ASSUME NEW arg, NEW C, Written(arg, C)
  PROVE  /\ URLs!MeansOf(arg) \in Seq(Seq(Seq(C))) /\ Len(URLs!MeansOf(arg)) = Len(arg.pieces)
         /\ \A m \in 1 .. Len(arg.pieces) : URLs!MeansOf(arg)[m] = MeansAt(arg, m)
         /\ URLs!IsWellFormed(arg) \/ globoff => URLs!MeansOf(arg) \in Seq(Choice(C))
<1> DEFINE N == Len(arg.pieces)
           s == URLs!MeansOf(arg)
           B == Seq(C)
           Q == Seq(B)
<1>1. N \in Nat /\ DOMAIN arg.pieces = 1 .. N /\ \A m \in 1 .. N : arg.pieces[m].text \in B /\ arg.pieces[m].means \in Q
  BY Zenon DEF Written, PieceTyped
<1>2. s = [m \in 1 .. N |-> MeansAt(arg, m)]
  BY <1>1, Zenon DEF URLs!MeansOf, MeansAt
<1>3. ASSUME NEW m \in 1 .. N PROVE MeansAt(arg, m) \in Q /\ (globoff => MeansAt(arg, m) \in Choice(C))
  <2> DEFINE t == arg.pieces[m].text
  <2> HIDE DEF t, B
  <2>1. << t >> \in Q /\ Len(<< t >>) = 1
    BY <1>1 DEF t
  <2> DEFINE x == << t >>
  <2> HIDE DEF x, Q
  <2>2. x \in Q /\ Len(x) \in Nat \ {0}
    BY <2>1 DEF x
  <2>3. x \in Choice(C)
    BY <2>2, Zenon DEF Choice, Q, B
  <2> QED  BY <1>1, <2>2, <2>3, Zenon DEF MeansAt, x, t
<1>4. ASSUME NEW m \in 1 .. N, URLs!IsWellFormed(arg), ~globoff PROVE MeansAt(arg, m) \in Choice(C)
  <2>1. arg.pieces[m].means # << >> /\ arg.pieces[m].means \in Q /\ MeansAt(arg, m) = arg.pieces[m].means
    BY <1>1, <1>4, Zenon DEF URLs!IsWellFormed, MeansAt
  <2> DEFINE x == arg.pieces[m].means
  <2> HIDE DEF x, B
  <2>2. x \in Q /\ x # << >>
    BY <2>1 DEF x
  <2>3. Len(x) \in Nat \ {0}
    BY <2>2
  <2> QED  BY <2>1, <2>2, <2>3, Zenon DEF Choice, B, x
<1> HIDE DEF N, s, B, Q
<1>5. s \in [1 .. N -> Q] /\ \A m \in 1 .. N : s[m] = MeansAt(arg, m)
  BY <1>2, <1>3
<1>6. N \in Nat /\ s \in [1 .. N -> Q]
  BY <1>1, <1>5
<1>7. s \in Seq(Q) /\ Len(s) = N
  BY ONLY <1>6, SeqDef, LenProperties
<1>8. ASSUME URLs!IsWellFormed(arg) \/ globoff PROVE s \in Seq(Choice(C))
  <2>1. \A m \in 1 .. N : MeansAt(arg, m) \in Choice(C)
    BY <1>3, <1>4, <1>8, Zenon
  <2> DEFINE T == Choice(C)
  <2> HIDE DEF T
  <2>2. s \in [1 .. N -> T]
    BY <1>2, <2>1 DEF T
  <2>3. s \in Seq(T)
    BY ONLY <1>6, <2>2, SeqDef
  <2> QED  BY <2>3 DEF T
<1> QED  BY <1>5, <1>7, <1>8, Zenon DEF s, N, Q, B

LEMMA UptoStep ==
  ASSUME NEW arg, NEW C, Written(arg, C)
  PROVE  /\ Upto(arg, 0) = << >> /\ Upto(arg, Len(arg.pieces)) = URLs!MeansOf(arg)
         /\ \A p \in 0 .. Len(arg.pieces) - 1 : Upto(arg, p + 1) = Append(Upto(arg, p), MeansAt(arg, p + 1))
         /\ \A p \in 0 .. Len(arg.pieces) :
              (\A m \in 1 .. p : globoff \/ arg.pieces[m].means # << >>) => Upto(arg, p) \in Seq(Choice(C))
<1> DEFINE N == Len(arg.pieces)
           s == URLs!MeansOf(arg)
           B == Seq(C)
           Q == Seq(B)
<1>1. s \in Seq(Q) /\ Len(s) = N /\ \A m \in 1 .. N : s[m] = MeansAt(arg, m)
  BY MeansAre
<1>2. N \in Nat /\ \A m \in 1 .. N : arg.pieces[m].means \in Q /\ arg.pieces[m].text \in B
  BY Zenon DEF Written, PieceTyped
<1> HIDE DEF s, N, B, Q
<1>3. SubSeq(s, 1, 0) = << >> /\ SubSeq(s, 1, N) = s
  <2>1. N \in 0 .. Len(s)
    BY <1>1, <1>2
  <2> QED  BY <1>1, <2>1, UptoProperties
<1>4. ASSUME NEW p \in 0 .. N - 1 PROVE SubSeq(s, 1, p + 1) = Append(SubSeq(s, 1, p), MeansAt(arg, p + 1))
  <2>1. p \in 0 .. Len(s) /\ p < Len(s) /\ p + 1 \in 1 .. N
    BY <1>1, <1>2
  <2>2. SubSeq(s, 1, p + 1) = Append(SubSeq(s, 1, p), s[p + 1])
    BY <1>1, <2>1, UptoProperties
  <2> QED  BY <1>1, <2>1, <2>2, Zenon
<1>5. ASSUME NEW p \in 0 .. N, \A m \in 1 .. p : globoff \/ arg.pieces[m].means # << >>
      PROVE  SubSeq(s, 1, p) \in Seq(Choice(C))
  <2> DEFINE T == Choice(C)
             r == SubSeq(s, 1, p)
  <2>1. p \in 0 .. Len(s) /\ p \in Nat /\ \A m \in 1 .. p : m \in 1 .. N
    BY <1>1, <1>2
  <2>2. r \in Seq(Q) /\ Len(r) = p /\ \A m \in 1 .. p : r[m] = s[m]
    BY <1>1, <2>1, UptoProperties
  <2>3. ASSUME NEW m \in 1 .. p PROVE MeansAt(arg, m) \in T
    <3>1. m \in 1 .. N
      BY <2>1, <2>3
    <3>2. CASE globoff
      <4> DEFINE t == arg.pieces[m].text
      <4> HIDE DEF t
      <4>1. << t >> \in Q /\ Len(<< t >>) \in Nat \ {0}
        BY <1>2, <3>1 DEF t, Q
      <4> QED  BY <3>2, <4>1, Zenon DEF MeansAt, Choice, Q, B, t
    <3>3. CASE ~globoff
      <4> DEFINE x == arg.pieces[m].means
      <4>1. x # << >> /\ x \in Q
        BY <1>2, <1>5, <3>1, <3>3, Zenon
      <4> HIDE DEF x
      <4>2. Len(x) \in Nat \ {0}
        BY <4>1 DEF Q
      <4> QED  BY <3>3, <4>1, <4>2, Zenon DEF MeansAt, Choice, Q, B, x
    <3> QED  BY <3>2, <3>3, Zenon
  <2> HIDE DEF r, T
  <2>4. \A m \in 1 .. p : r[m] \in T
    BY <1>1, <2>1, <2>2, <2>3, Zenon
  <2>5. r = [m \in 1 .. p |-> r[m]]
    BY <2>2
  <2>6. r \in [1 .. p -> T]
    BY <2>4, <2>5
  <2>7. p \in Nat
    BY <2>1
  <2>8. r \in Seq(T)
    BY ONLY <2>6, <2>7, SeqDef
  <2> QED  BY <2>8 DEF r, T
<1> QED  BY <1>3, <1>4, <1>5, Zenon DEF Upto, s, N

-----------------------------------------------------------------------------
(* There are never more expansions than the limit allows. *)

LEMMA MultiplyLength ==
  ASSUME NEW a, NEW b, Listed(a), Listed(b)
  PROVE  Listed(URLs!Multiply(a, b)) /\ Len(URLs!Multiply(a, b)) = Len(a) * Len(b)
<1> DEFINE N == Len(a)
           M == Len(b)
           J(p, m) == a[p] \o b[m]
           part1(p) == [m \in 1 .. M |-> J(p, m)]
           S == {J(p, m) : p \in 1 .. N, m \in 1 .. M}
           ss == [p \in 1 .. N |-> part1(p)]
<1>1. N \in Nat /\ M \in Nat /\ DOMAIN a = 1 .. N /\ DOMAIN b = 1 .. M
  BY DEF Listed
<1>2. URLs!Multiply(a, b) = FlattenSeq(ss)
  <2>1. \A s : URLs!FlattenSeq(s) = FlattenSeq(s)
    BY Zenon DEF URLs!FlattenSeq, FlattenSeq
  <2>2. URLs!Multiply(a, b) = URLs!FlattenSeq(ss)
    BY <1>1 DEF URLs!Multiply
  <2> HIDE DEF ss
  <2> QED  BY <2>1, <2>2, Zenon
<1>3. ASSUME NEW p \in 1 .. N PROVE part1(p) \in Seq(S) /\ Len(part1(p)) = M
  <2> DEFINE s == part1(p)
  <2> HIDE DEF J
  <2>1. ASSUME NEW m \in 1 .. M PROVE J(p, m) \in S
    OBVIOUS
  <2> HIDE DEF S
  <2>2. s \in [1 .. M -> S]
    BY <2>1
  <2> HIDE DEF s
  <2>3. s \in Seq(S) /\ Len(s) = M
    BY <1>1, <2>2, SeqDef, LenProperties
  <2> QED  BY <2>3 DEF s
<1>4. ss \in Seq(Seq(S)) /\ Len(ss) = N /\ \A p \in 1 .. N : Len(ss[p]) = M
  <2> HIDE DEF part1, S
  <2>1. \A p \in 1 .. N : ss[p] = part1(p)
    OBVIOUS
  <2> DEFINE B == Seq(S)
  <2>2. \A p \in 1 .. N : ss[p] \in B
    BY <1>3, <2>1
  <2>3. ss = [p \in 1 .. N |-> ss[p]]
    OBVIOUS
  <2> HIDE DEF ss, B
  <2>4. ss \in [1 .. N -> B]
    BY <2>2, <2>3
  <2>5. ss \in Seq(B) /\ Len(ss) = N
    BY <1>1, <2>4, SeqDef, LenProperties
  <2> QED  BY <1>3, <2>1, <2>5 DEF B
<1> HIDE DEF ss, S
<1>5. Len(FlattenSeq(ss)) = N * M
  BY <1>1, <1>4, FlattenLength
<1>6. FlattenSeq(ss) \in Seq(S)
  BY <1>4, FlattenType
<1>7. Listed(FlattenSeq(ss))
  BY <1>6 DEF Listed
<1> QED  BY <1>2, <1>5, <1>7

\* There is at least one item in a set, and in a range.
LEMMA IndexIs ==
  ASSUME NEW text, NEW c
  PROVE  URLs!Index(text, c) \in Nat
<1> DEFINE T == {m \in 1 .. Len(text) : text[m] = c}
<1>1. URLs!Index(text, c) = IF T # {} THEN URLs!Min(T) ELSE 0
  BY Zenon DEF URLs!Index, URLs!SelectInSeq
<1>2. T \subseteq Nat
  OBVIOUS
<1>3. ASSUME T # {} PROVE URLs!Min(T) \in T
  <2> HIDE DEF T
  <2>1. \E m \in T : \A r \in T : m <= r
    BY <1>2, <1>3, LeastElement
  <2> QED  BY <2>1, Zenon DEF URLs!Min
<1> HIDE DEF T
<1>4. CASE T = {}
  BY <1>1, <1>4
<1>5. CASE T # {}
  <2>1. URLs!Index(text, c) = URLs!Min(T)
    BY <1>1, <1>5, Zenon
  <2> QED  BY <1>2, <1>3, <1>5, <2>1, Zenon
<1> QED  BY <1>4, <1>5, Zenon

LEMMA InsideIs == Len(URLs!Inside) \in Nat
<1>1. PICK c : c = URLs!Closer - 1
  OBVIOUS
<1>2. c \in Int
  <2>1. URLs!Closer \in Nat
    BY IndexIs, Zenon DEF URLs!Closer
  <2> QED  BY <1>1, <2>1
<1> DEFINE S == {rest[m] : m \in 2 .. c}
<1>3. \A m \in 2 .. c : rest[m] \in S
  OBVIOUS
<1> HIDE DEF S
<1>4. 2 \in Int
  OBVIOUS
<1>5. SubSeq(rest, 2, c) \in Seq(S)
  BY <1>2, <1>3, <1>4, SubSeqProperties
<1>6. URLs!Inside = SubSeq(rest, 2, c)
  BY <1>1, Zenon DEF URLs!Inside
<1> QED  BY <1>5, <1>6

LEMMA RangeItemsAre ==
  ASSUME NEW spec, URLs!IsRange(spec)
  PROVE  Listed(URLs!RangeItems(spec)) /\ Len(URLs!RangeItems(spec)) \in Nat \ {0}
<1> DEFINE low == URLs!Value(URLs!Lo(spec))
           high == URLs!Value(URLs!Hi(spec))
           N == high - low + 1
           s == URLs!RangeItems(spec)
<1>1. low \in Nat /\ high \in Nat /\ low <= high
  <2>1. low \in 0 .. MaxUint /\ high \in 0 .. MaxUint /\ low <= high
    BY Zenon DEF URLs!IsRange, URLs!ParsesUint
  <2> HIDE DEF low, high
  <2> QED  BY <2>1
<1>2. s = [m \in 1 .. N |-> URLs!Padded(low + m - 1, URLs!Width(URLs!Lo(spec)))]
  BY Zenon DEF URLs!RangeItems
<1> HIDE DEF s, low, high
<1>3. N \in Nat \ {0}
  BY <1>1
<1> HIDE DEF N
<1>4. DOMAIN s = 1 .. N /\ s = [m \in 1 .. N |-> s[m]]
  BY <1>2
<1>5. Len(s) = N /\ Listed(s)
  BY <1>3, <1>4, Mapped
<1> QED  BY <1>3, <1>5 DEF s

LEMMA SetItemsAre ==
  ASSUME NEW spec, Len(spec) \in Nat
  PROVE  Listed(URLs!SetItems(spec)) /\ Len(URLs!SetItems(spec)) \in Nat \ {0}
<1> DEFINE N == Len(spec) + 1
           B == {URLs!Before(SubSeq(spec, m, Len(spec)), ",") : m \in 1 .. N}
           item(m) == URLs!Before(SubSeq(spec, m, Len(spec)), ",")
           Behind(m) == spec[m - 1] = ","
           ss == [m \in 1 .. N |-> IF m = 1 \/ Behind(m) THEN << item(m) >> ELSE << >>]
<1>1. N \in Nat \ {0}
  OBVIOUS
<1>2. URLs!SetItems(spec) = FlattenSeq(ss)
  <2>1. \A s : URLs!FlattenSeq(s) = FlattenSeq(s)
    BY Zenon DEF URLs!FlattenSeq, FlattenSeq
  <2>2. URLs!SetItems(spec) = URLs!FlattenSeq(ss)
    BY Zenon DEF URLs!SetItems
  <2> HIDE DEF ss
  <2> QED  BY <2>1, <2>2, Zenon
<1>3. \A m \in 1 .. N : item(m) \in B
  OBVIOUS
<1> HIDE DEF B, item, N, Behind
<1>4. ss[1] = << item(1) >> /\ \A m \in 1 .. N : ss[m] = << item(m) >> \/ ss[m] = << >>
  BY <1>1
<1> DEFINE Q == Seq(B)
<1>5. \A m \in 1 .. N : ss[m] \in Q
  BY <1>3, <1>4
<1>6. ss = [m \in 1 .. N |-> ss[m]]
  OBVIOUS
<1> HIDE DEF ss, Q
<1>7. ss \in [1 .. N -> Q]
  BY <1>5, <1>6
<1>8. ss \in Seq(Q) /\ Len(ss) = N
  BY <1>1, <1>7, SeqDef, LenProperties
<1>9. ss \in Seq(Seq(B)) /\ 1 \in 1 .. Len(ss) /\ 1 \in 1 .. Len(ss[1])
  <2>1. Len(ss[1]) = 1
    BY <1>4
  <2> QED  BY <1>1, <1>8, <2>1 DEF Q
<1>10. FlattenSeq(ss) \in Seq(B)
  BY <1>9, FlattenType
<1>11. Len(FlattenSeq(SubSeq(ss, 1, 1 - 1))) + 1 \in 1 .. Len(FlattenSeq(ss))
  BY <1>9, FlattenAt
<1> DEFINE whole == FlattenSeq(ss)
<1> HIDE DEF whole
<1>12. Len(whole) \in Nat /\ DOMAIN whole = 1 .. Len(whole)
  BY <1>10 DEF whole
<1>13. Len(whole) # 0
  <2>1. \E m : m \in 1 .. Len(whole)
    BY <1>11 DEF whole
  <2> QED  BY <1>12, <2>1
<1> QED  BY <1>2, <1>12, <1>13 DEF whole, Listed

\* The URLs parsed so far are each of the origin of an argument.
OfArguments(list) ==
  \E S : list \in Seq(S) /\ \A t \in S : \E a \in DOMAIN args : t.origin = args[a].origin
Agree(list) ==
  /\ list # << >> /\ Len(list) <= MaxGlobURLs
  /\ \A m \in DOMAIN list : URLs!SameOrigin(list[m].origin, list[1].origin)
Differ == \E a, b \in DOMAIN args : ~URLs!SameOrigin(args[a].origin, args[b].origin)
Errors == {"none", "unmatched", "range", "many", "malformed", "protocol", "origin"}
Phases == {"expand", "parse", "check", "done"}
Room(list) == Listed(list) /\ Len(list) # 0 /\ Len(list) <= MaxGlobURLs

URLsInv ==
  /\ args \in Inputs /\ globoff \in BOOLEAN /\ n \in DOMAIN args
  /\ pc \in Phases /\ error \in Errors
  /\ Room(out) /\ OfArguments(targets)
  /\ pc = "check" => targets # << >>
  /\ pc = "done" /\ error = "none" => Agree(targets)
  /\ error = "origin" => Differ

LEMMA ArgsAre ==
  ASSUME args \in Inputs
  PROVE  /\ args # << >> /\ Len(args) \in Nat /\ DOMAIN args = 1 .. Len(args) /\ 1 \in DOMAIN args
         /\ \A m \in DOMAIN args : args[m].origin \in Origins
<1>1. /\ args \in Seq(URLs!ToSet(args)) /\ args # << >>
      /\ \A m \in DOMAIN args : args[m].origin \in Origins
  BY URLsAssumption, Zenon DEF URLs!GlobAssumption
<1> DEFINE A == URLs!ToSet(args)
<1> HIDE DEF A
<1>2. args \in Seq(A)
  BY <1>1 DEF A
<1> QED  BY <1>1, <1>2

LEMMA Limited == MaxGlobURLs \in Nat \ {0}
BY URLsAssumption DEF URLs!GlobAssumption

LEMMA SingleRoom ==
  ASSUME NEW e
  PROVE  Room(<< e >>)
<1>1. Len(<< e >>) = 1 /\ DOMAIN << e >> = 1 .. 1
  OBVIOUS
<1> QED  BY <1>1, Limited DEF Room, Listed

\* What is unchanged stays true.
LEMMA SameTargets ==
  ASSUME UNCHANGED args
  PROVE  /\ UNCHANGED targets => OfArguments(targets)' = OfArguments(targets) /\ Agree(targets)' = Agree(targets)
         /\ Differ' = Differ
<1>1. \A a, b : URLs!SameOrigin(a, b)' = URLs!SameOrigin(a, b)
  BY Zenon DEF URLs!SameOrigin, URLs!TargetPort
<1>2. UNCHANGED targets => OfArguments(targets)' = OfArguments(targets)
  BY Zenon DEF OfArguments
<1>3. UNCHANGED targets => Agree(targets)' = Agree(targets)
  BY Zenon DEF Agree
<1>4. Differ' = Differ
  BY Zenon DEF Differ
<1> QED  BY <1>2, <1>3, <1>4

LEMMA URLsStarts ==
  ASSUME URLs!Init
  PROVE  URLsInv
<1>1. /\ args \in Inputs /\ globoff \in BOOLEAN /\ pc = "expand" /\ n = 1 /\ out = << << >> >>
      /\ targets = << >> /\ error = "none"
  BY Zenon DEF URLs!Init
<1>2. Room(out)
  BY <1>1, SingleRoom, Zenon
<1>3. OfArguments(targets)
  <2> DEFINE S == {}
  <2>1. targets \in Seq(S) /\ \A t \in S : \E a \in DOMAIN args : t.origin = args[a].origin
    BY <1>1
  <2> HIDE DEF S
  <2> QED  BY <2>1, Zenon DEF OfArguments
<1>4. pc \in Phases /\ error \in Errors /\ error # "origin" /\ pc # "check" /\ pc # "done"
  BY <1>1 DEF Phases, Errors
<1>5. n \in DOMAIN args
  BY <1>1, ArgsAre
<1> QED  BY <1>1, <1>2, <1>3, <1>4, <1>5, Zenon DEF URLsInv

LEMMA URLsStays ==
  ASSUME URLsInv, UNCHANGED <<pc, args, ofURLs>>
  PROVE  URLsInv'
<1>1. UNCHANGED <<pc, args, globoff, n, rest, literal, out, targets, error>>
  BY DEF ofURLs
<1>2. OfArguments(targets)' = OfArguments(targets) /\ Agree(targets)' = Agree(targets) /\ Differ' = Differ
  BY <1>1, SameTargets, Zenon
<1>3. Room(out)' = Room(out)
  BY <1>1, Zenon DEF Room, Listed
<1> QED  BY <1>1, <1>2, <1>3, Zenon DEF URLsInv

\* A step of the scanner: it leaves the URLs as they are, and a list with room.
Scans ==
  /\ UNCHANGED <<args, globoff, n, targets, error>> /\ pc = "expand" /\ Room(out')
  /\ pc' \in {"expand", "parse"}
LEMMA ScanStep ==
  ASSUME URLsInv, Scans
  PROVE  URLsInv'
<1>1. OfArguments(targets)' = OfArguments(targets) /\ Differ' = Differ
  BY SameTargets, Zenon DEF Scans
<1>2. pc' \in Phases /\ pc' # "check" /\ pc' # "done"
  BY DEF Scans, Phases
<1>3. Room(out)'
  BY Zenon DEF Scans, Room, Listed
<1> QED  BY <1>1, <1>2, <1>3, Zenon DEF URLsInv, Scans

LEMMA StopStep ==
  ASSUME URLsInv, NEW e \in Errors \ {"none", "origin"}, URLs!Stop(e)
  PROVE  URLsInv'
<1>1. error' = e /\ pc' = "done" /\ UNCHANGED <<args, globoff, n, rest, literal, out, targets>>
  BY Zenon DEF URLs!Stop
<1>2. OfArguments(targets)' = OfArguments(targets)
  BY <1>1, SameTargets, Zenon
<1>3. Room(out)' = Room(out)
  BY <1>1, Zenon DEF Room, Listed
<1>4. pc' \in Phases /\ pc' # "check" /\ error' \in Errors /\ error' # "none" /\ error' # "origin"
  BY <1>1 DEF Phases
<1> QED  BY <1>1, <1>2, <1>3, <1>4, Zenon DEF URLsInv

LEMMA StopNames == \A e \in {"unmatched", "range", "many", "malformed", "protocol"} : e \in Errors \ {"none", "origin"}
BY DEF Errors

LEMMA FlushedIs ==
  ASSUME Room(out)
  PROVE  Room(URLs!Flushed) /\ Len(URLs!Flushed) = Len(out)
<1> DEFINE N == Len(out)
           s == URLs!Flushed
<1>1. N \in Nat /\ DOMAIN out = 1 .. N /\ N # 0 /\ N <= MaxGlobURLs
  BY DEF Room, Listed
<1>2. s = [m \in DOMAIN out |-> out[m] \o literal]
  BY Zenon DEF URLs!Flushed
<1> HIDE DEF N, s
<1>3. DOMAIN s = 1 .. N /\ s = [m \in 1 .. N |-> s[m]]
  BY <1>1, <1>2
<1>4. Len(s) = N /\ Listed(s)
  BY <1>1, <1>3, Mapped
<1> QED  BY <1>1, <1>4 DEF Room, s, N

LEMMA ProductIs ==
  ASSUME NEW a \in Nat \ {0}, NEW b \in Nat \ {0}
  PROVE  a * b \in Nat \ {0}
OBVIOUS

LEMMA MultipliedStep ==
  ASSUME URLsInv, URLs!Expanding, NEW items, Listed(items), Len(items) \in Nat \ {0}, URLs!Multiplied(items)
  PROVE  URLsInv'
<1>1. /\ ~URLs!Exceeds(items) /\ out' = URLs!Multiply(URLs!Flushed, items)
      /\ UNCHANGED <<args, globoff, pc, n, targets, error>> /\ pc = "expand"
  BY Zenon DEF URLs!Multiplied, URLs!Expanding
<1>2. Room(out) /\ Len(out) \in Nat \ {0}
  BY DEF URLsInv, Room, Listed
<1>3. Room(URLs!Flushed) /\ Len(URLs!Flushed) = Len(out)
  BY <1>2, FlushedIs
<1>4. Listed(out') /\ Len(out') = Len(out) * Len(items)
  <2>1. Listed(URLs!Flushed)
    BY <1>3 DEF Room
  <2> QED  BY <1>1, <1>3, <2>1, MultiplyLength
<1> DEFINE N == Len(out) * Len(items)
<1>5. N \in Nat \ {0}
  BY <1>2, ProductIs
<1>6. ~(N > MaxGlobURLs)
  BY <1>1, Zenon DEF URLs!Exceeds
<1> HIDE DEF N
<1>7. N <= MaxGlobURLs /\ N # 0
  BY <1>5, <1>6, Limited
<1>8. Room(out')
  BY <1>4, <1>7, Zenon DEF Room, N
<1>9. Scans
  BY <1>1, <1>8 DEF Scans
<1> QED  BY <1>9, ScanStep

LEMMA ExpandSetStep ==
  ASSUME URLsInv, URLs!ExpandSet
  PROVE  URLsInv'
<1> DEFINE items == URLs!SetItems(URLs!Inside)
<1>1. Listed(items) /\ Len(items) \in Nat \ {0}
  BY InsideIs, SetItemsAre, Zenon
<1>2. URLs!Expanding /\ (URLs!Multiplied(items) \/ URLs!Stop("many"))
  BY Zenon DEF URLs!ExpandSet
<1> HIDE DEF items
<1>3. CASE URLs!Multiplied(items)
  BY <1>1, <1>2, <1>3, MultipliedStep
<1>4. CASE URLs!Stop("many")
  BY <1>4, StopStep, StopNames, Zenon
<1> QED  BY <1>2, <1>3, <1>4

LEMMA ExpandRangeStep ==
  ASSUME URLsInv, URLs!ExpandRange
  PROVE  URLsInv'
<1> DEFINE items == URLs!RangeItems(URLs!Inside)
<1>1. Listed(items) /\ Len(items) \in Nat \ {0}
  <2>1. URLs!IsRange(URLs!Inside)
    BY Zenon DEF URLs!ExpandRange
  <2> QED  BY <2>1, RangeItemsAre
<1>2. URLs!Expanding /\ (URLs!Multiplied(items) \/ URLs!Stop("many"))
  BY Zenon DEF URLs!ExpandRange
<1> HIDE DEF items
<1>3. CASE URLs!Multiplied(items)
  BY <1>1, <1>2, <1>3, MultipliedStep
<1>4. CASE URLs!Stop("many")
  BY <1>4, StopStep, StopNames, Zenon
<1> QED  BY <1>2, <1>3, <1>4

LEMMA LiteralStep ==
  ASSUME URLsInv, URLs!Escape \/ URLs!Literal
  PROVE  URLsInv'
<1>1. pc = "expand" /\ UNCHANGED <<args, globoff, pc, n, out, targets, error>>
  BY Zenon DEF URLs!Escape, URLs!Literal, URLs!Expanding
<1>2. Room(out')
  BY <1>1, Zenon DEF URLsInv, Room, Listed
<1>3. Scans
  BY <1>1, <1>2 DEF Scans
<1> QED  BY <1>3, ScanStep

LEMMA ExpandedStep ==
  ASSUME URLsInv, URLs!Expanded
  PROVE  URLsInv'
<1>1. /\ pc = "expand" /\ pc' = "parse" /\ UNCHANGED <<args, globoff, n, targets, error>>
      /\ out' = << rest >> \/ out' = URLs!Flushed
  BY Zenon DEF URLs!Expanded
<1>2. Room(<< rest >>) /\ Room(URLs!Flushed)
  BY SingleRoom, FlushedIs, Zenon DEF URLsInv
<1>3. Room(out')
  BY <1>1, <1>2, Zenon
<1>4. Scans
  BY <1>1, <1>3 DEF Scans
<1> QED  BY <1>4, ScanStep

LEMMA BadURLStep ==
  ASSUME URLsInv, URLs!BadURL
  PROVE  URLsInv'
<1>0. PICK m \in DOMAIN out : ~URLs!Parses(m) /\ URLs!Stop(URLs!ParseError(args[n].origin, out[m]))
  BY Zenon DEF URLs!BadURL
<1> DEFINE e == URLs!ParseError(args[n].origin, out[m])
<1>1. URLs!Stop(e) /\ e # "none"
  BY <1>0, Zenon DEF URLs!Parses
<1>2. e \in {"none", "malformed", "protocol"}
  BY Zenon DEF URLs!ParseError
<1> HIDE DEF e
<1>3. e \in Errors \ {"none", "origin"}
  BY <1>1, <1>2, StopNames
<1> QED  BY <1>1, <1>3, StopStep

LEMMA ParseURLStep ==
  ASSUME URLsInv, URLs!ParseURL
  PROVE  URLsInv'
<1> DEFINE Of(m) == [origin |-> args[n].origin, path |-> out[m]]
           R == {Of(m) : m \in 1 .. Len(out)}
           more == [m \in DOMAIN out |-> Of(m)]
<1>1. /\ pc = "parse" /\ targets' = targets \o more /\ out' = << << >> >>
      /\ UNCHANGED <<args, globoff, error>>
      /\ (n < Len(args) /\ n' = n + 1 /\ pc' = "expand") \/ (pc' = "check" /\ n' = n)
  BY Zenon DEF URLs!ParseURL
<1>2. n' \in DOMAIN args'
  <2>1. n \in DOMAIN args /\ args' = args /\ Len(args) \in Nat /\ DOMAIN args = 1 .. Len(args)
    BY <1>1, ArgsAre DEF URLsInv
  <2> QED  BY <1>1, <2>1
<1>3. DOMAIN out = 1 .. Len(out) /\ Len(out) \in Nat \ {0}
  BY DEF URLsInv, Room, Listed
<1>4. more \in Seq(R) /\ Len(more) = Len(out)
  <2>1. \A m \in 1 .. Len(out) : Of(m) \in R
    OBVIOUS
  <2> HIDE DEF Of, R
  <2>2. more \in [1 .. Len(out) -> R]
    BY <1>3, <2>1
  <2> HIDE DEF more
  <2> QED  BY <1>3, <2>2, SeqDef, LenProperties
<1>5. \A t \in R : \E a \in DOMAIN args : t.origin = args[a].origin
  BY DEF URLsInv
<1>6. PICK S : targets \in Seq(S) /\ \A t \in S : \E a \in DOMAIN args : t.origin = args[a].origin
  BY Zenon DEF URLsInv, OfArguments
<1> DEFINE U == S \cup R
<1>7. \A t \in U : \E a \in DOMAIN args : t.origin = args[a].origin
  BY <1>5, <1>6, Zenon
<1>8. targets \in Seq(U) /\ more \in Seq(U) /\ targets \in Seq(S)
  <2> HIDE DEF R, more
  <2> QED  BY <1>4, <1>6
<1> HIDE DEF U, more, R
<1>9. targets \o more \in Seq(U) /\ Len(targets \o more) = Len(targets) + Len(more) /\ Len(targets) \in Nat
  BY <1>8, ConcatProperties
<1>10. OfArguments(targets)'
  BY <1>1, <1>7, <1>9, Zenon DEF OfArguments
<1>11. targets' # << >>
  <2>1. Len(targets \o more) # 0
    BY <1>3, <1>4, <1>9
  <2> QED  BY <1>1, <2>1
<1>12. Room(out)' /\ Differ' = Differ
  <2>1. Room(<< << >> >>)
    BY SingleRoom
  <2>2. Room(out')
    BY <1>1, <2>1, Zenon
  <2> QED  BY <1>1, <2>2, SameTargets, Zenon DEF Room, Listed
<1>13. pc' \in Phases /\ pc' # "done"
  BY <1>1 DEF Phases
<1> QED  BY <1>1, <1>2, <1>10, <1>11, <1>12, <1>13, Zenon DEF URLsInv

LEMMA CheckTargetsStep ==
  ASSUME URLsInv, URLs!CheckTargets
  PROVE  URLsInv'
<1>1. /\ pc = "check" /\ pc' = "done" /\ UNCHANGED <<args, globoff, n, rest, literal, out, targets>>
      /\ targets # << >> /\ OfArguments(targets)
  BY Zenon DEF URLs!CheckTargets, URLsInv
<1>2. PICK S : targets \in Seq(S) /\ \A t \in S : \E a \in DOMAIN args : t.origin = args[a].origin
  BY <1>1, Zenon DEF OfArguments
<1>3. Len(targets) \in Nat /\ DOMAIN targets = 1 .. Len(targets) /\ 1 \in DOMAIN targets
  BY <1>1, <1>2
<1>4. CASE error' = "none"
  <2>1. ~(Len(targets) > MaxGlobURLs) /\ \A m \in DOMAIN targets : URLs!SameOrigin(targets[m].origin, targets[1].origin)
    BY <1>4, Zenon DEF URLs!CheckTargets
  <2>2. Len(targets) <= MaxGlobURLs
    BY <1>3, <2>1, Limited
  <2>3. Agree(targets)
    BY <1>1, <2>1, <2>2, Zenon DEF Agree
  <2> QED  BY <1>1, <1>4, <2>3, SameTargets, Zenon DEF URLsInv, Errors, Phases, Room, Listed
<1>5. CASE error' = "many"
  <2> QED  BY <1>1, <1>5, SameTargets, Zenon DEF URLsInv, Errors, Phases, Room, Listed
<1>6. CASE error' = "origin"
  <2>1. ~\A m \in DOMAIN targets : URLs!SameOrigin(targets[m].origin, targets[1].origin)
    BY <1>6, Zenon DEF URLs!CheckTargets
  <2>2. PICK m \in DOMAIN targets : ~URLs!SameOrigin(targets[m].origin, targets[1].origin)
    BY <2>1, Zenon
  <2>3. targets[m] \in S /\ targets[1] \in S
    BY <1>2, <1>3
  <2>4. Differ
    BY <1>2, <2>2, <2>3, Zenon DEF Differ
  <2> QED  BY <1>1, <1>6, <2>4, SameTargets, Zenon DEF URLsInv, Errors, Phases, Room, Listed
<1>7. error' = "none" \/ error' = "many" \/ error' = "origin"
  BY Zenon DEF URLs!CheckTargets
<1> QED  BY <1>4, <1>5, <1>6, <1>7

LEMMA URLsKeep ==
  ASSUME URLs!Next
  PROVE  UNCHANGED <<args, globoff>>
BY Zenon DEF URLs!Next, URLs!Escape, URLs!Literal, URLs!Unmatched, URLs!BadRange, URLs!ExpandSet, URLs!ExpandRange,
  URLs!Multiplied, URLs!Expanded, URLs!BadURL, URLs!ParseURL, URLs!CheckTargets, URLs!Stop

LEMMA URLsMoves ==
  ASSUME URLsInv, URLs!Next
  PROVE  URLsInv'
<1>1. CASE URLs!Unmatched \/ URLs!BadRange
  <2>1. URLs!Stop("unmatched") \/ URLs!Stop("range")
    BY <1>1, Zenon DEF URLs!Unmatched, URLs!BadRange
  <2> QED  BY <2>1, StopStep, StopNames, Zenon
<1> QED  BY <1>1, LiteralStep, ExpandSetStep, ExpandRangeStep, ExpandedStep, BadURLStep, ParseURLStep,
            CheckTargetsStep, Zenon DEF URLs!Next

LEMMA URLsSafe ==
  ASSUME URLsInv
  PROVE  URLs!TypeOK /\ URLs!NeverTooMany /\ URLs!OneOrigin
<1>1. PICK S : targets \in Seq(S) /\ \A t \in S : \E a \in DOMAIN args : t.origin = args[a].origin
  BY Zenon DEF URLsInv, OfArguments
<1>2. DOMAIN targets = 1 .. Len(targets) /\ Len(targets) \in Nat /\ \A m \in DOMAIN targets : targets[m] \in S
  BY <1>1
<1>3. URLs!ToSet(targets) = {targets[m] : m \in DOMAIN targets}
  BY Zenon DEF URLs!ToSet
<1>4. \A m \in DOMAIN args : args[m].origin \in Origins
  BY ArgsAre DEF URLsInv
<1>5. \A t \in URLs!ToSet(targets) : t.origin \in Origins
  BY <1>1, <1>2, <1>3, <1>4, Zenon
<1>6. out # << >> /\ Len(out) <= MaxGlobURLs
  <2>1. Len(out) # 0 /\ Len(out) <= MaxGlobURLs
    BY DEF URLsInv, Room
  <2>2. Len(<< >>) = 0
    OBVIOUS
  <2> QED  BY <2>1, <2>2, Zenon
<1>7. URLs!TypeOK
  <2>1. pc = "done" /\ error = "none" => targets # << >>
    BY Zenon DEF URLsInv, Agree
  <2>2. pc \in Phases /\ error \in Errors /\ globoff \in BOOLEAN /\ n \in DOMAIN args /\ (pc = "check" => targets # << >>)
    BY Zenon DEF URLsInv
  <2>3. pc \in {"check", "done"} /\ error = "none" => targets # << >>
    BY <2>1, <2>2
  <2> QED  BY <1>5, <1>6, <2>2, <2>3, Zenon DEF URLs!TypeOK, Phases, Errors
<1>8. URLs!NeverTooMany
  <2>1. URLs!Accepted => Agree(targets)
    BY Zenon DEF URLsInv, URLs!Accepted
  <2> QED  BY <1>6, <2>1, Zenon DEF Agree, URLs!NeverTooMany
<1>9. URLs!OneOrigin
  <2>1. error = "origin" => \E a, b \in DOMAIN args : ~URLs!SameOrigin(args[a].origin, args[b].origin)
    BY Zenon DEF URLsInv, Differ
  <2>2. ASSUME URLs!Accepted, NEW t \in URLs!ToSet(targets), NEW u \in URLs!ToSet(targets)
        PROVE  /\ t.origin.scheme = u.origin.scheme /\ Fold[t.origin.host] = Fold[u.origin.host]
               /\ URLs!TargetPort(t.origin) = URLs!TargetPort(u.origin)
    <3>1. \A m \in DOMAIN targets : URLs!SameOrigin(targets[m].origin, targets[1].origin)
      BY <2>2, Zenon DEF URLsInv, URLs!Accepted, Agree
    <3>2. URLs!SameOrigin(t.origin, targets[1].origin) /\ URLs!SameOrigin(u.origin, targets[1].origin)
      BY <1>3, <2>2, <3>1, Zenon
    <3> QED  BY <3>2, Zenon DEF URLs!SameOrigin
  <2> QED  BY <2>1, <2>2, Zenon DEF URLs!OneOrigin
<1> QED  BY <1>7, <1>8, <1>9

LEMMA URLsInvariance == Spec => [](part = "urls" => URLsInv)
<1>1. Init => (part = "urls" => URLsInv)
  BY URLsStarts DEF Init
<1>2. ASSUME part = "urls" => URLsInv, [Next]_vars PROVE (part = "urls" => URLsInv)'
  <2>1. CASE URLsStep
    BY <1>2, <2>1, URLsMoves DEF URLsStep
  <2>2. CASE ArgumentsStep \/ SYNStep \/ RequestStep \/ HelloStep
    BY <2>2 DEF ArgumentsStep, SYNStep, RequestStep, HelloStep
  <2>3. CASE UNCHANGED vars
    BY <1>2, <2>3, URLsStays DEF vars
  <2> QED  BY <1>2, <2>1, <2>2, <2>3 DEF Next
<1> QED  BY <1>1, <1>2, PTL DEF Spec

-----------------------------------------------------------------------------
(* Every step of the scanner takes one piece more. *)

\* More lists make no fewer URLs.
LEMMA CountGrows ==
  ASSUME NEW T, Radix(T), NEW means \in Seq(T), NEW p \in 0 .. Len(means)
  PROVE  URLs!Count(SubSeq(means, 1, p)) <= URLs!Count(means)
<1> DEFINE N == Len(means)
           c(m) == URLs!Count(SubSeq(means, 1, m))
           S == {m \in 0 .. N - p : c(p) <= c(p + m)}
<1>1. N \in Nat /\ p \in Nat /\ N - p \in Nat
  OBVIOUS
<1>2. ASSUME NEW m \in 0 .. N PROVE c(m) \in Nat \ {0}
  <2>1. SubSeq(means, 1, m) \in Seq(T)
    BY <1>2, UptoProperties
  <2> DEFINE x == SubSeq(means, 1, m)
  <2> HIDE DEF x
  <2>2. x \in Seq(T)
    BY <2>1 DEF x
  <2>3. URLs!Count(x) \in Nat \ {0}
    BY <2>2, CountIs DEF Radix
  <2> QED  BY <2>3 DEF x
<1>3. ASSUME NEW m \in 0 .. N - 1 PROVE c(m) <= c(m + 1)
  <2>1. m \in 0 .. N /\ m < N /\ m + 1 \in 1 .. N /\ m + 1 \in 0 .. N
    BY <1>1
  <2> DEFINE x == SubSeq(means, 1, m)
             y == means[m + 1]
  <2>2. x \in Seq(T) /\ SubSeq(means, 1, m + 1) = Append(x, y) /\ y \in T
    BY <2>1, UptoProperties
  <2> HIDE DEF x, y
  <2>3. URLs!Count(Append(x, y)) = URLs!Count(x) * Len(y)
    BY <2>2, CountStep
  <2>4. Len(y) \in Nat \ {0}
    BY <2>2 DEF Radix
  <2> DEFINE a == URLs!Count(x)
             b == Len(y)
  <2>5. a \in Nat \ {0}
    BY <1>2, <2>1 DEF x
  <2> HIDE DEF a, b
  <2>6. a <= a * b
    <3>1. PICK d \in Nat : b = d + 1
      <4>1. b - 1 \in Nat /\ b = (b - 1) + 1
        BY <2>4 DEF b
      <4> QED  BY <4>1
    <3>2. a * b = a * d + a /\ a * d \in Nat
      BY <2>5, <3>1
    <3> QED  BY <2>5, <3>2
  <2> QED  BY <2>2, <2>3, <2>6, Zenon DEF a, b, x
<1> HIDE DEF c
<1>4. 0 \in S
  <2>1. 0 \in 0 .. N - p /\ p + 0 = p /\ p \in 0 .. N
    BY <1>1
  <2> QED  BY <1>2, <2>1
<1>5. ASSUME NEW m \in 0 .. (N - p) - 1, m \in S PROVE m + 1 \in S
  <2>1. /\ p + m \in 0 .. N - 1 /\ p + (m + 1) = (p + m) + 1 /\ m + 1 \in 0 .. N - p
        /\ p \in 0 .. N /\ p + m \in 0 .. N /\ (p + m) + 1 \in 0 .. N
    BY <1>1
  <2>2. c(p + m) <= c((p + m) + 1)
    BY <1>3, <2>1
  <2>3. c(p) <= c(p + m)
    BY <1>5
  <2>4. c(p) \in Nat /\ c(p + m) \in Nat /\ c((p + m) + 1) \in Nat
    BY <1>2, <2>1
  <2>5. c(p) <= c((p + m) + 1)
    BY <2>2, <2>3, <2>4
  <2> QED  BY <2>1, <2>5
<1> HIDE DEF S
<1>6. N - p \in S
  <2>1. N - p \in 0 .. N - p
    BY <1>1
  <2> QED  BY <1>1, <1>4, <1>5, <2>1, Upwards
<1>7. p + (N - p) = N
  BY <1>1
<1>8. c(N) = URLs!Count(means)
  BY SubSeqFull DEF c
<1>9. c(p) <= c(p + (N - p))
  BY <1>6 DEF S
<1> QED  BY <1>7, <1>8, <1>9, Zenon DEF c

\* One more piece is one more list.
LEMMA UptoExtends ==
  ASSUME NEW arg, NEW C, Written(arg, C), NEW p \in 0 .. Len(arg.pieces) - 1,
         \A m \in 1 .. p + 1 : globoff \/ arg.pieces[m].means # << >>
  PROVE  /\ Extends(URLs!Product(Upto(arg, p + 1)), URLs!Product(Upto(arg, p)), MeansAt(arg, p + 1))
         /\ URLs!Product(Upto(arg, p + 1)) \in Seq(Seq(C)) /\ URLs!Product(Upto(arg, p)) \in Seq(Seq(C))
         /\ MeansAt(arg, p + 1) \in Choice(C)
         /\ Len(URLs!Product(Upto(arg, p))) = URLs!Count(Upto(arg, p))
         /\ URLs!Count(Upto(arg, p + 1)) = URLs!Count(Upto(arg, p)) * Len(MeansAt(arg, p + 1))
<1> DEFINE N == Len(arg.pieces)
           T == Choice(C)
           s == Upto(arg, p)
           items == MeansAt(arg, p + 1)
           t == Upto(arg, p + 1)
<1>1. N \in Nat /\ p \in 0 .. N /\ p + 1 \in 0 .. N /\ p + 1 \in 1 .. N /\ \A m \in 1 .. p : m \in 1 .. p + 1
  BY DEF Written
<1>2. T \subseteq Seq(Seq(C)) /\ Radix(T)
  BY ChoiceIs
<1>3. s \in Seq(T) /\ t \in Seq(T) /\ t = Append(s, items)
  <2> HIDE DEF T, s, t
  <2>1. \A m \in 1 .. p : globoff \/ arg.pieces[m].means # << >>
    BY <1>1
  <2> QED  BY <1>1, <2>1, UptoStep, Zenon DEF T, s, t
<1>4. items \in T
  <2>1. Len(t) = p + 1 /\ t[p + 1] = items
    <3>1. Len(s) = p
      <4>1. URLs!MeansOf(arg) \in Seq(Seq(Seq(C))) /\ Len(URLs!MeansOf(arg)) = N
        BY MeansAre
      <4> QED  BY <1>1, <4>1, UptoProperties DEF Upto
    <3> HIDE DEF s, items, T, t
    <3> QED  BY <1>3, <3>1
  <2> HIDE DEF t, items, T
  <2>2. p + 1 \in 1 .. Len(t)
    BY <1>1, <2>1
  <2>3. t[p + 1] \in T
    BY <1>3, <2>2
  <2> QED  BY <2>1, <2>3
<1> HIDE DEF T, s, t, items
<1>5. Extends(URLs!Product(Append(s, items)), URLs!Product(s), items)
  BY <1>2, <1>3, <1>4, ProductStep
<1>6. URLs!Product(s) \in Seq(Seq(C)) /\ Len(URLs!Product(s)) = URLs!Count(s)
  BY <1>2, <1>3, ProductType
<1>7. URLs!Product(t) \in Seq(Seq(C))
  BY <1>2, <1>3, ProductType
<1>8. URLs!Count(Append(s, items)) = URLs!Count(s) * Len(items)
  BY <1>3, <1>4, CountStep
<1> QED  BY <1>3, <1>4, <1>5, <1>6, <1>7, <1>8, Zenon DEF s, t, items, T

\* With -g an argument stands for itself.
LEMMA GloboffProduct ==
  ASSUME NEW arg, NEW C, Written(arg, C), globoff
  PROVE  URLs!Product(URLs!MeansOf(arg)) = << URLs!Text(arg) >>
<1> DEFINE N == Len(arg.pieces)
           s == URLs!Texts(arg)
           f(p) == FlattenSeq(SubSeq(s, 1, p))
           S == {p \in 0 .. N : URLs!Product(Upto(arg, p)) = << f(p) >>}
<1>1. s \in Seq(Seq(C)) /\ Len(s) = N /\ \A m \in 1 .. N : s[m] = arg.pieces[m].text
  BY TextsAre
<1>2. N \in Nat
  BY <1>1
<1>3. URLs!Text(arg) = FlattenSeq(s)
  <2>1. \A r : URLs!FlattenSeq(r) = FlattenSeq(r)
    BY Zenon DEF URLs!FlattenSeq, FlattenSeq
  <2> QED  BY <2>1, Zenon DEF URLs!Text
<1> HIDE DEF s, N
<1>4. 0 \in S
  <2>1. 0 \in 0 .. N /\ 0 \in 0 .. Len(s)
    BY <1>1, <1>2
  <2>2. f(0) = << >>
    BY <1>1, <2>1, UptoProperties, FlattenEmpty
  <2>3. Upto(arg, 0) = << >>
    BY UptoStep
  <2> HIDE DEF f
  <2> QED  BY <2>1, <2>2, <2>3, ProductOfNone
<1>5. ASSUME NEW p \in 0 .. N - 1, p \in S PROVE p + 1 \in S
  <2>1. p \in 0 .. Len(arg.pieces) - 1 /\ p \in 0 .. Len(s) - 1 /\ p + 1 \in 1 .. N /\ p + 1 \in 0 .. N /\ p \in 0 .. Len(s)
    BY <1>1, <1>2 DEF N
  <2>2. f(p + 1) = f(p) \o s[p + 1]
    BY <1>1, <2>1, FlattenUpto
  <2>3. f(p) \in Seq(C) /\ s[p + 1] \in Seq(C)
    <3>1. SubSeq(s, 1, p) \in Seq(Seq(C)) /\ s[p + 1] \in Seq(C)
      BY <1>1, <2>1, UptoProperties
    <3> QED  BY <3>1, FlattenType
  <2> DEFINE x == f(p)
             y == s[p + 1]
             u == URLs!Product(Upto(arg, p + 1))
  <2>4. MeansAt(arg, p + 1) = << y >>
    BY <1>1, <2>1, Zenon DEF MeansAt
  <2>5. Extends(u, << x >>, << y >>) /\ u \in Seq(Seq(C))
    <3> HIDE DEF f
    <3>1. Extends(u, URLs!Product(Upto(arg, p)), MeansAt(arg, p + 1)) /\ u \in Seq(Seq(C))
      BY <2>1, UptoExtends, Zenon
    <3> QED  BY <1>5, <2>4, <3>1, Zenon
  <2> HIDE DEF x, y, u
  <2>6. Extends(<< x \o y >>, << x >>, << y >>) /\ \E Q : << x \o y >> \in Seq(Q)
    BY <2>3, OneExtends DEF x, y
  <2>7. u = << x \o y >>
    <3> DEFINE a1 == << x >>
               b1 == << y >>
               t == << x \o y >>
    <3>1. Len(a1) \in Nat /\ Len(b1) \in Nat
      OBVIOUS
    <3>2. Extends(t, a1, b1) /\ Extends(u, a1, b1) /\ (\E Q : t \in Seq(Q)) /\ \E Q : u \in Seq(Q)
      BY <2>5, <2>6, Zenon
    <3> HIDE DEF a1, b1, t
    <3>3. u = t
      BY ONLY <3>1, <3>2, ExtendsOnce
    <3> QED  BY <3>3 DEF t
  <2>8. URLs!Product(Upto(arg, p + 1)) = << f(p + 1) >>
    BY <2>2, <2>7, Zenon DEF u, x, y
  <2> HIDE DEF f
  <2> QED  BY <2>1, <2>8
<1> HIDE DEF S
<1>6. N \in S
  <2>1. N \in 0 .. N
    BY <1>2
  <2> QED  BY <1>2, <1>4, <1>5, <2>1, Upwards
<1>7. SubSeq(s, 1, N) = s
  BY <1>1, SubSeqFull
<1>8. Upto(arg, N) = URLs!MeansOf(arg)
  BY UptoStep DEF N
<1> QED  BY <1>3, <1>6, <1>7, <1>8 DEF S

LettersIn(D, o, l) == o \in Seq(Seq(D)) /\ l \in Seq(D)
Lettered(o, l) == \E D : LettersIn(D, o, l)

LEMMA LettersGrow ==
  ASSUME NEW D, NEW E, D \subseteq E, NEW o, NEW l, LettersIn(D, o, l)
  PROVE  LettersIn(E, o, l)
<1> DEFINE A == Seq(D)
           B == Seq(E)
<1>1. A \subseteq B
  BY SeqMonotonic
<1>2. o \in Seq(A) /\ l \in A
  BY DEF LettersIn
<1> HIDE DEF A, B
<1>3. o \in Seq(B) /\ l \in B
  BY <1>1, <1>2, SeqMonotonic
<1> QED  BY <1>3 DEF LettersIn, B

\* A literal character is a list with one item.
LEMMA LiteralTurn ==
  ASSUME Lettered(out, literal), NEW c, literal' = Append(literal, c), out' = out
  PROVE  Lettered(out', literal') /\ Extends(Flush(out', literal'), Flush(out, literal), << << c >> >>)
<1>1. PICK D : LettersIn(D, out, literal)
  BY Zenon DEF Lettered
<1> DEFINE E == D \cup {c}
<1>2. D \subseteq E /\ c \in E
  OBVIOUS
<1> HIDE DEF E
<1>3. LettersIn(E, out, literal)
  BY <1>1, <1>2, LettersGrow
<1>4. out \in Seq(Seq(E)) /\ literal \in Seq(E)
  BY <1>3 DEF LettersIn
<1>5. Extends(Flush(out, Append(literal, c)), Flush(out, literal), << << c >> >>) /\ Append(literal, c) \in Seq(E)
  BY <1>2, <1>4, FlushMore
<1> QED  BY <1>4, <1>5, Zenon DEF Lettered, LettersIn

LEMMA ItemsTurn ==
  ASSUME Lettered(out, literal), NEW C, NEW items, items \in Seq(Seq(C)), URLs!Multiplied(items)
  PROVE  Lettered(out', literal') /\ Extends(Flush(out', literal'), Flush(out, literal), items)
<1>1. PICK D : LettersIn(D, out, literal)
  BY Zenon DEF Lettered
<1> DEFINE E == D \cup C
<1>2. D \subseteq E /\ C \subseteq E
  OBVIOUS
<1> HIDE DEF E
<1>3. LettersIn(E, out, literal)
  BY <1>1, <1>2, LettersGrow
<1>4. LettersIn(E, items, << >>)
  <2>1. LettersIn(C, items, << >>)
    BY DEF LettersIn
  <2> QED  BY <1>2, <2>1, LettersGrow
<1>5. out \in Seq(Seq(E)) /\ literal \in Seq(E) /\ items \in Seq(Seq(E))
  BY <1>3, <1>4 DEF LettersIn
<1>6. out' = URLs!Multiply(Flush(out, literal), items) /\ literal' = << >>
  BY Zenon DEF URLs!Multiplied, URLs!Flushed, Flush
<1> DEFINE f == Flush(out, literal)
           o == URLs!Multiply(f, items)
<1>7. f \in Seq(Seq(E))
  BY <1>5, FlushIs
<1> HIDE DEF f
<1>8. o \in Seq(Seq(E)) /\ Extends(o, f, items)
  BY <1>5, <1>7, MultiplyExtends
<1> HIDE DEF o
<1>9. << >> \in Seq(E)
  OBVIOUS
<1>10. Flush(o, << >>) = o
  BY <1>8, <1>9, FlushIs
<1>11. out' = o
  BY <1>6, Zenon DEF o, f
<1> QED  BY <1>6, <1>8, <1>9, <1>10, <1>11, Zenon DEF Lettered, LettersIn, f

SetMore == URLs!Expanding /\ rest[1] = "{" /\ URLs!Closer # 0 /\ URLs!Multiplied(URLs!SetItems(URLs!Inside))
RangeMore ==
  /\ URLs!Expanding /\ rest[1] = "[" /\ URLs!Closer # 0 /\ URLs!IsRange(URLs!Inside)
  /\ URLs!Multiplied(URLs!RangeItems(URLs!Inside))
Advance == URLs!Escape \/ URLs!Literal \/ SetMore \/ RangeMore

Continues(piece, behind) ==
  /\ rest' = behind /\ piece.means # << >> /\ Lettered(out', literal')
  /\ Extends(Flush(out', literal'), Flush(out, literal), piece.means)

LEMMA AdvanceContinues ==
  ASSUME NEW C, NEW piece, NEW behind, PieceTyped(C, piece), Reads(piece, behind),
         Lettered(out, literal), Advance
  PROVE  Continues(piece, behind)
<1>0. piece.means \in Seq(Seq(C))
  BY Zenon DEF PieceTyped
<1>1. \A c : << << c >> >> # << >>
  OBVIOUS
<1>2. CASE URLs!Escape
  <2>1. URLs!Escaping /\ literal' = Append(literal, rest[2]) /\ rest' = SubSeq(rest, 3, Len(rest)) /\ out' = out
    BY <1>2, Zenon DEF URLs!Escape
  <2>2. piece.means = << << rest[2] >> >> /\ SubSeq(rest, 3, Len(rest)) = behind
    BY <2>1, Zenon DEF Reads
  <2> DEFINE c == rest[2]
  <2> HIDE DEF c
  <2>3. literal' = Append(literal, c) /\ out' = out
    BY <2>1, Zenon DEF c
  <2>4. Lettered(out', literal') /\ Extends(Flush(out', literal'), Flush(out, literal), << << c >> >>)
    BY ONLY <2>3, Lettered(out, literal), LiteralTurn
  <2> QED  BY <1>1, <2>1, <2>2, <2>4, Zenon DEF Continues, c
<1>3. CASE URLs!Literal
  <2>1. /\ ~URLs!Escaping /\ rest[1] \notin URLs!Special \ {","}
        /\ literal' = Append(literal, rest[1]) /\ rest' = Tail(rest) /\ out' = out
    BY <1>3, Zenon DEF URLs!Literal
  <2>2. piece.means = << << rest[1] >> >> /\ Tail(rest) = behind
    BY <2>1, Zenon DEF Reads
  <2> DEFINE c == rest[1]
  <2> HIDE DEF c
  <2>3. literal' = Append(literal, c) /\ out' = out
    BY <2>1, Zenon DEF c
  <2>4. Lettered(out', literal') /\ Extends(Flush(out', literal'), Flush(out, literal), << << c >> >>)
    BY ONLY <2>3, Lettered(out, literal), LiteralTurn
  <2> QED  BY <1>1, <2>1, <2>2, <2>4, Zenon DEF Continues, c
<1>4. ASSUME NEW items, piece.means = items, Len(items) \in Nat \ {0}, SubSeq(rest, URLs!Closer + 1, Len(rest)) = behind,
             URLs!Multiplied(items)
      PROVE  Continues(piece, behind)
  <2>1. items \in Seq(Seq(C))
    BY <1>0, <1>4, Zenon
  <2>2. Lettered(out', literal') /\ Extends(Flush(out', literal'), Flush(out, literal), items)
    BY ONLY <1>4, <2>1, Lettered(out, literal), ItemsTurn
  <2>3. rest' = behind
    BY <1>4, Zenon DEF URLs!Multiplied
  <2>4. items # << >>
    BY ONLY <1>4
  <2> QED  BY <1>4, <2>2, <2>3, <2>4, Zenon DEF Continues
<1>5. CASE SetMore
  <2>1. piece.means = URLs!SetItems(URLs!Inside) /\ SubSeq(rest, URLs!Closer + 1, Len(rest)) = behind
        /\ URLs!Multiplied(URLs!SetItems(URLs!Inside))
    BY <1>5, Zenon DEF SetMore, Reads
  <2>2. Len(URLs!SetItems(URLs!Inside)) \in Nat \ {0}
    BY InsideIs, SetItemsAre, Zenon
  <2> QED  BY <1>4, <2>1, <2>2, Zenon
<1>6. CASE RangeMore
  <2>1. piece.means = URLs!RangeItems(URLs!Inside) /\ SubSeq(rest, URLs!Closer + 1, Len(rest)) = behind
        /\ URLs!Multiplied(URLs!RangeItems(URLs!Inside)) /\ URLs!IsRange(URLs!Inside)
    BY <1>6, Zenon DEF RangeMore, Reads
  <2>2. Len(URLs!RangeItems(URLs!Inside)) \in Nat \ {0}
    BY <2>1, RangeItemsAre, Zenon
  <2> QED  BY <1>4, <2>1, <2>2, Zenon
<1> QED  BY <1>2, <1>3, <1>5, <1>6, Zenon DEF Advance

\* A pattern that is refused would have made too many.
SetMany == URLs!Expanding /\ rest[1] = "{" /\ URLs!Closer # 0 /\ URLs!Exceeds(URLs!SetItems(URLs!Inside))
RangeMany ==
  /\ URLs!Expanding /\ rest[1] = "[" /\ URLs!Closer # 0 /\ URLs!IsRange(URLs!Inside)
  /\ URLs!TooWide(URLs!Inside) \/ URLs!Exceeds(URLs!RangeItems(URLs!Inside))

LEMMA TooWideIs ==
  ASSUME NEW spec, URLs!IsRange(spec), URLs!TooWide(spec)
  PROVE  Len(URLs!RangeItems(spec)) > MaxGlobURLs
<1> DEFINE low == URLs!Value(URLs!Lo(spec))
           high == URLs!Value(URLs!Hi(spec))
           N == high - low + 1
           s == URLs!RangeItems(spec)
<1>1. low \in Nat /\ high \in Nat /\ low <= high
  <2>1. low \in 0 .. MaxUint /\ high \in 0 .. MaxUint /\ low <= high
    BY Zenon DEF URLs!IsRange, URLs!ParsesUint
  <2> HIDE DEF low, high
  <2> QED  BY <2>1
<1>2. s = [m \in 1 .. N |-> URLs!Padded(low + m - 1, URLs!Width(URLs!Lo(spec)))]
  BY Zenon DEF URLs!RangeItems
<1>3. high - low >= MaxGlobURLs
  BY Zenon DEF URLs!TooWide
<1> HIDE DEF s, low, high
<1>4. N \in Nat \ {0} /\ N > MaxGlobURLs
  <2>1. MaxGlobURLs \in Nat
    BY URLsAssumption DEF URLs!GlobAssumption
  <2> QED  BY <1>1, <1>3, <2>1
<1> HIDE DEF N
<1>5. DOMAIN s = 1 .. N /\ s = [m \in 1 .. N |-> s[m]]
  BY <1>2
<1>6. Len(s) = N
  BY <1>4, <1>5, Mapped
<1> QED  BY <1>4, <1>6 DEF s

LEMMA ManyIs ==
  ASSUME NEW piece, NEW behind, Reads(piece, behind), SetMany \/ RangeMany
  PROVE  Len(piece.means) \in Nat \ {0} /\ (Len(piece.means) > MaxGlobURLs \/ Len(out) * Len(piece.means) > MaxGlobURLs)
<1>1. CASE SetMany
  <2>1. piece.means = URLs!SetItems(URLs!Inside) /\ URLs!Exceeds(URLs!SetItems(URLs!Inside))
    BY <1>1, Zenon DEF SetMany, Reads
  <2>2. Len(URLs!SetItems(URLs!Inside)) \in Nat \ {0}
    BY InsideIs, SetItemsAre, Zenon
  <2> QED  BY <2>1, <2>2, Zenon DEF URLs!Exceeds
<1>2. CASE RangeMany
  <2>1. piece.means = URLs!RangeItems(URLs!Inside) /\ URLs!IsRange(URLs!Inside)
        /\ (URLs!TooWide(URLs!Inside) \/ URLs!Exceeds(URLs!RangeItems(URLs!Inside)))
    BY <1>2, Zenon DEF RangeMany, Reads
  <2>2. Len(URLs!RangeItems(URLs!Inside)) \in Nat \ {0}
    BY <2>1, RangeItemsAre, Zenon
  <2>3. URLs!TooWide(URLs!Inside) => Len(URLs!RangeItems(URLs!Inside)) > MaxGlobURLs
    BY <2>1, TooWideIs, Zenon
  <2> QED  BY <2>1, <2>2, <2>3, Zenon DEF URLs!Exceeds
<1> QED  BY <1>1, <1>2

-----------------------------------------------------------------------------
(* Between two steps, the expansions with the literals behind them are the  *)
(* product of what the pieces read so far mean, and the targets are the      *)
(* meanings of the arguments in front.                                        *)

\* What has been read of an argument, and which targets are parsed.
Passable(arg) == globoff \/ URLs!IsWellFormed(arg)
AllMeanings == [a \in DOMAIN args |-> URLs!Meaning(args[a])]
Scanned(arg, p) ==
  /\ p \in 0 .. Len(arg.pieces) /\ rest = URLs!Behind(arg, p)
  /\ \A m \in 1 .. p : globoff \/ arg.pieces[m].means # << >>
  /\ Flush(out, literal) = URLs!Product(Upto(arg, p))
Scanning == \E arg, p : arg = args[n] /\ Scanned(arg, p)
IsExpanded == \E arg : arg = args[n] /\ out = URLs!Product(URLs!MeansOf(arg)) /\ Passable(arg)
ParsedUpto(m) ==
  targets = FlattenSeq(SubSeq(AllMeanings, 1, m)) /\ \A a \in 1 .. m : Passable(args[a])

ExpansionsInv ==
  /\ Lettered(out, literal)
  /\ pc \in {"expand", "parse"} => ParsedUpto(n - 1)
  /\ pc = "expand" /\ globoff => rest = URLs!Text(args[n])
  /\ pc = "expand" /\ ~globoff => Scanning
  /\ pc = "parse" => literal = << >> /\ IsExpanded
  /\ pc = "check" \/ URLs!Accepted => ParsedUpto(Len(args))
  /\ URLs!LimitExact

LEMMA CountType ==
  ASSUME NEW T, \A e \in T : Len(e) \in Nat, NEW means \in Seq(T)
  PROVE  URLs!Count(means) \in Nat
<1> DEFINE N == Len(means)
           front(m) == SubSeq(means, 1, m)
           S == {m \in 0 .. N : URLs!Count(front(m)) \in Nat}
<1>1. 0 \in S
  <2>1. front(0) = << >> /\ 0 \in 0 .. N
    BY UptoProperties
  <2>2. URLs!Count(<< >>) = 1
    <3>1. << >> \in Seq({0}) /\ 0 \in {0}
      OBVIOUS
    <3> QED  BY <3>1, CountStep
  <2>3. URLs!Count(front(0)) = 1
    BY <2>1, <2>2, Zenon
  <2> HIDE DEF front
  <2> QED  BY <2>1, <2>3
<1>2. ASSUME NEW m \in 0 .. N - 1, m \in S PROVE m + 1 \in S
  <2>1. m \in 0 .. N /\ m < N /\ m + 1 \in 1 .. N /\ m + 1 \in 0 .. N
    OBVIOUS
  <2>2. front(m) \in Seq(T) /\ front(m + 1) = Append(front(m), means[m + 1]) /\ means[m + 1] \in T
    BY <2>1, UptoProperties
  <2>3. URLs!Count(front(m + 1)) = URLs!Count(front(m)) * Len(means[m + 1])
    BY <2>2, CountStep
  <2> DEFINE x == URLs!Count(front(m))
             y == Len(means[m + 1])
  <2>4. x \in Nat /\ y \in Nat
    BY <1>2, <2>2
  <2> HIDE DEF x, y
  <2>5. x * y \in Nat
    BY <2>4
  <2> QED  BY <2>1, <2>3, <2>5 DEF x, y
<1> HIDE DEF S
<1>3. N \in S
  <2>1. N \in Nat /\ N \in 0 .. N
    OBVIOUS
  <2> QED  BY <1>1, <1>2, <2>1, Upwards
<1>4. front(N) = means
  BY SubSeqFull
<1> QED  BY <1>3, <1>4 DEF S

LEMMA MeaningIs ==
  ASSUME NEW arg, NEW C, Written(arg, C)
  PROVE  /\ URLs!Meaning(arg) \in Seq({URLs!Meaning(arg)[m] : m \in 1 .. URLs!Count(URLs!MeansOf(arg))})
         /\ Len(URLs!Meaning(arg)) = URLs!Count(URLs!MeansOf(arg)) /\ URLs!Count(URLs!MeansOf(arg)) \in Nat
<1> DEFINE means == URLs!MeansOf(arg)
           N == URLs!Count(means)
           s == URLs!Meaning(arg)
           paths == URLs!Product(means)
           T == Seq(Seq(C))
<1>1. N \in Nat
  <2>1. means \in Seq(T)
    BY MeansAre
  <2>2. \A e \in T : Len(e) \in Nat
    OBVIOUS
  <2> HIDE DEF means, T
  <2> QED  BY <2>1, <2>2, CountType
<1>2. paths = [m \in 1 .. N |-> URLs!URL(means, m - 1)]
  BY Zenon DEF URLs!Product
<1>3. s = [m \in DOMAIN paths |-> [origin |-> arg.origin, path |-> paths[m]]]
  BY Zenon DEF URLs!Meaning, URLs!Of
<1> HIDE DEF s, N, paths
<1>4. DOMAIN paths = 1 .. N
  BY <1>2
<1>5. DOMAIN s = 1 .. N /\ s = [m \in 1 .. N |-> s[m]]
  BY <1>3, <1>4
<1>6. s \in Seq({s[m] : m \in 1 .. N}) /\ Len(s) = N
  BY ONLY <1>1, <1>5, Mapped
<1> QED  BY <1>1, <1>6, Zenon DEF s, N

LEMMA AllMeaningsAre ==
  ASSUME args \in Inputs
  PROVE  \E S : /\ AllMeanings \in Seq(Seq(S)) /\ Len(AllMeanings) = Len(args) /\ Len(args) \in Nat
                /\ DOMAIN args = 1 .. Len(args)
                /\ \A a \in 1 .. Len(args) : AllMeanings[a] = URLs!Meaning(args[a])
<1> DEFINE N == Len(args)
           M(a) == URLs!Meaning(args[a])
           D(a) == {M(a)[m] : m \in 1 .. URLs!Count(URLs!MeansOf(args[a]))}
           S == UNION {D(a) : a \in 1 .. N}
           B == Seq(S)
           s == AllMeanings
<1>1. N \in Nat /\ DOMAIN args = 1 .. N
  BY ArgsAre
<1>2. ASSUME NEW a \in 1 .. N PROVE M(a) \in B
  <2>1. PICK C : Written(args[a], C)
    BY <1>1, ArgIsWritten, Zenon
  <2> DEFINE arg == args[a]
  <2> HIDE DEF arg
  <2>2. Written(arg, C)
    BY <2>1 DEF arg
  <2>3. URLs!Meaning(arg) \in Seq({URLs!Meaning(arg)[m] : m \in 1 .. URLs!Count(URLs!MeansOf(arg))})
    BY <2>2, MeaningIs
  <2>4. M(a) \in Seq(D(a))
    BY <2>3, Zenon DEF arg
  <2>5. D(a) \subseteq S
    <3> HIDE DEF D
    <3> QED  OBVIOUS
  <2> HIDE DEF D, S, M
  <2> QED  BY <2>4, <2>5, SeqMonotonic
<1>3. s = [a \in 1 .. N |-> M(a)]
  BY <1>1, Zenon DEF AllMeanings
<1> HIDE DEF s, B, M, N
<1>4. s \in [1 .. N -> B] /\ \A a \in 1 .. N : s[a] = M(a)
  BY <1>2, <1>3
<1>5. N \in Nat /\ s \in [1 .. N -> B]
  BY <1>1, <1>4
<1>6. s \in Seq(B) /\ Len(s) = N
  BY ONLY <1>5, SeqDef, LenProperties
<1> QED  BY <1>1, <1>4, <1>6, Zenon DEF s, N, B, M

LEMMA MeaningsAre == URLs!Meanings = FlattenSeq(AllMeanings)
<1>1. \A s : URLs!FlattenSeq(s) = FlattenSeq(s)
  BY Zenon DEF URLs!FlattenSeq, FlattenSeq
<1> QED  BY <1>1, Zenon DEF URLs!Meanings, AllMeanings

LEMMA MeaningsUpto ==
  ASSUME args \in Inputs
  PROVE  /\ SubSeq(AllMeanings, 1, Len(args)) = AllMeanings /\ SubSeq(AllMeanings, 1, 0) = << >>
         /\ \A m \in DOMAIN args :
              FlattenSeq(SubSeq(AllMeanings, 1, m)) = FlattenSeq(SubSeq(AllMeanings, 1, m - 1)) \o URLs!Meaning(args[m])
         /\ \A m \in DOMAIN args : Len(URLs!Meaning(args[m])) <= Len(URLs!Meanings) /\ Len(URLs!Meanings) \in Nat
<1> DEFINE s == AllMeanings
           N == Len(args)
<1>1. PICK S : /\ s \in Seq(Seq(S)) /\ Len(s) = N /\ N \in Nat /\ DOMAIN args = 1 .. N
               /\ \A a \in 1 .. N : s[a] = URLs!Meaning(args[a])
  BY AllMeaningsAre
<1> HIDE DEF s, N
<1>2. SubSeq(s, 1, N) = s /\ SubSeq(s, 1, 0) = << >>
  <2>1. 0 \in 0 .. Len(s)
    BY <1>1
  <2> QED  BY <1>1, <2>1, UptoProperties
<1>3. ASSUME NEW m \in 1 .. N PROVE FlattenSeq(SubSeq(s, 1, m)) = FlattenSeq(SubSeq(s, 1, m - 1)) \o URLs!Meaning(args[m])
  <2> DEFINE q == m - 1
  <2>1. q \in 0 .. Len(s) - 1 /\ q + 1 = m
    BY <1>1
  <2> HIDE DEF q
  <2>2. FlattenSeq(SubSeq(s, 1, q + 1)) = FlattenSeq(SubSeq(s, 1, q)) \o s[q + 1]
    BY <1>1, <2>1, FlattenUpto
  <2> QED  BY <1>1, <2>1, <2>2, Zenon DEF q
<1>4. ASSUME NEW m \in 1 .. N PROVE Len(URLs!Meaning(args[m])) <= Len(FlattenSeq(s)) /\ Len(FlattenSeq(s)) \in Nat
  <2>1. m \in 1 .. Len(s)
    BY <1>1
  <2>2. Len(s[m]) <= Len(FlattenSeq(s)) /\ Len(FlattenSeq(s)) \in Nat
    BY <1>1, <2>1, FlattenPart
  <2> QED  BY <1>1, <2>2, Zenon
<1>5. URLs!Meanings = FlattenSeq(s)
  BY MeaningsAre DEF s
<1> QED  BY <1>1, <1>2, <1>3, <1>4, <1>5, Zenon DEF s, N

\* The meaning depends on what no step changes.
LEMMA SameMeaning ==
  ASSUME UNCHANGED <<args, globoff>>
  PROVE  /\ \A arg : URLs!MeansOf(arg)' = URLs!MeansOf(arg) /\ Passable(arg)' = Passable(arg)
         /\ \A arg, p : Upto(arg, p)' = Upto(arg, p)
         /\ AllMeanings' = AllMeanings /\ URLs!Meanings' = URLs!Meanings
         /\ URLs!WellFormed' = URLs!WellFormed
<1>0. args' = args /\ globoff' = globoff
  OBVIOUS
<1>1. ASSUME NEW CONSTANT arg PROVE URLs!MeansOf(arg)' = URLs!MeansOf(arg) /\ Passable(arg)' = Passable(arg)
  <2>1. URLs!MeansOf(arg)' = URLs!MeansOf(arg)
    BY <1>0 DEF URLs!MeansOf
  <2> QED  BY <1>0, <2>1 DEF Passable, URLs!IsWellFormed
<1>2. \A arg, p : Upto(arg, p)' = Upto(arg, p)
  BY <1>1, Zenon DEF Upto
<1>3. \A arg : URLs!Meaning(arg)' = URLs!Meaning(arg)
  BY <1>1, Zenon DEF URLs!Meaning
<1>4. AllMeanings' = AllMeanings
  BY <1>0, <1>3, Zenon DEF AllMeanings
<1>5. URLs!Meanings' = URLs!Meanings
  BY <1>0, <1>3, Zenon DEF URLs!Meanings
<1>6. URLs!WellFormed' = URLs!WellFormed
  BY <1>0, Zenon DEF URLs!WellFormed, URLs!IsWellFormed
<1> QED  BY <1>1, <1>2, <1>4, <1>5, <1>6, Zenon

LEMMA SameParsed ==
  ASSUME UNCHANGED <<args, globoff, targets>>, NEW m
  PROVE  ParsedUpto(m)' = ParsedUpto(m)
<1>1. AllMeanings' = AllMeanings /\ targets' = targets /\ args' = args
  BY SameMeaning
<1>2. \A arg : Passable(arg)' = Passable(arg)
  BY SameMeaning
<1> QED  BY <1>1, <1>2, Zenon DEF ParsedUpto

LEMMA SameLimit ==
  ASSUME UNCHANGED <<args, globoff>>, error' # "many" \/ error' = error, URLs!LimitExact
  PROVE  URLs!LimitExact'
<1>1. URLs!Meanings' = URLs!Meanings /\ URLs!WellFormed' = URLs!WellFormed
  BY SameMeaning
<1> QED  BY <1>1, Zenon DEF URLs!LimitExact

\* A piece takes up room, so an argument is read to its end when nothing is left.
LEMMA PieceIsLong ==
  ASSUME NEW piece, NEW behind, Kinds(piece, behind)
  PROVE  piece.text # << >>
<1>1. Len(<< >>) = 0 /\ 0 # 1 /\ 0 # 2 /\ ~(0 > 1) /\ \A c : << c >> # << >>
  OBVIOUS
<1> DEFINE text == piece.text
<1>2. ASSUME text = << >> PROVE FALSE
  <2>1. ~URLs!Plain(piece, behind) /\ ~URLs!Escaped(piece)
    BY <1>1, <1>2, Zenon DEF URLs!Plain, URLs!Escaped
  <2>2. \A a, b : ~URLs!Delimited(piece, a, b) /\ ~URLs!Encloses(piece, a, b)
    BY <1>1, <1>2, Zenon DEF URLs!Encloses, URLs!Delimited
  <2>3. ~URLs!SetPiece(piece) /\ ~URLs!RangePiece(piece) /\ ~URLs!EscapedSet(piece)
    BY <2>2, Zenon DEF URLs!SetPiece, URLs!RangePiece, URLs!EscapedSet
  <2>4. ~URLs!Malformed(piece, behind)
    BY <1>1, <1>2, <2>2, Zenon DEF URLs!Malformed
  <2> QED  BY <2>1, <2>3, <2>4, Zenon DEF Kinds
<1> QED  BY <1>2, Zenon

LEMMA ScannedMore ==
  ASSUME NEW arg, NEW C, Written(arg, C), NEW p, Scanned(arg, p)
  PROVE  /\ rest # << >> => /\ p \in 0 .. Len(arg.pieces) - 1 /\ p + 1 \in 1 .. Len(arg.pieces)
                            /\ AtFront(C, arg.pieces[p + 1], URLs!Behind(arg, p + 1))
                            /\ Kinds(arg.pieces[p + 1], URLs!Behind(arg, p + 1))
         /\ rest = << >> => p = Len(arg.pieces)
<1> DEFINE N == Len(arg.pieces)
           q == p + 1
           text == arg.pieces[q].text
           behind == URLs!Behind(arg, q)
<1>1. N \in Nat /\ p \in 0 .. N /\ rest = URLs!Behind(arg, p)
  BY Zenon DEF Written, Scanned
<1>2. URLs!Behind(arg, N) = << >>
  BY BehindIs
<1> HIDE DEF N
<1>3. p = N \/ (p \in 0 .. N - 1 /\ q \in 1 .. N /\ q \in 0 .. N)
  BY <1>1
<1>4. p = N => rest = << >>
  BY <1>1, <1>2, Zenon
<1>5. ASSUME p \in 0 .. N - 1, q \in 1 .. N, q \in 0 .. N
      PROVE  AtFront(C, arg.pieces[q], behind) /\ Kinds(arg.pieces[q], behind) /\ rest # << >>
  <2>1. PieceTyped(C, arg.pieces[q]) /\ Kinds(arg.pieces[q], behind)
    BY <1>5, Zenon DEF Written, N
  <2>2. behind \in Seq(C) /\ URLs!Behind(arg, p) = text \o behind
    BY <1>5, BehindIs, Zenon DEF N
  <2>3. text \in Seq(C) /\ text # << >>
    BY <2>1, PieceIsLong, Zenon DEF PieceTyped
  <2>4. rest = text \o behind
    BY <1>1, <2>2, Zenon
  <2> HIDE DEF text, behind, q
  <2>5. text \o behind # << >>
    <3>1. Len(text \o behind) = Len(text) + Len(behind) /\ Len(text) \in Nat \ {0} /\ Len(behind) \in Nat
      BY <2>2, <2>3
    <3> QED  BY <3>1
  <2> QED  BY <2>1, <2>2, <2>4, <2>5, Zenon DEF AtFront, text
<1> QED  BY <1>3, <1>4, <1>5, Zenon DEF N

\* An argument on whose meaning the code and its documentation agree.
Agreed(arg) == \A m \in DOMAIN arg.pieces : ~URLs!EscapedSet(arg.pieces[m])

\* The scanner stays in step with the meaning, piece by piece.
LEMMA AdvanceScans ==
  ASSUME UNCHANGED <<args, globoff>>, ~globoff, Lettered(out, literal), Advance, rest # << >>,
         NEW CONSTANT arg, NEW C, Written(arg, C), Agreed(arg), NEW CONSTANT p, Scanned(arg, p)
  PROVE  Lettered(out', literal') /\ Scanned(arg, p + 1)'
<1> DEFINE piece == arg.pieces[p + 1]
           behind == URLs!Behind(arg, p + 1)
<1>1. /\ p \in 0 .. Len(arg.pieces) - 1 /\ AtFront(C, piece, behind) /\ Kinds(piece, behind)
      /\ p + 1 \in 1 .. Len(arg.pieces) /\ Len(arg.pieces) \in Nat
  BY ScannedMore, Zenon DEF Written
<1>2. PieceTyped(C, piece) /\ Reads(piece, behind)
  <2>1. ~URLs!EscapedSet(piece)
    BY <1>1, Zenon DEF Agreed, Written
  <2> HIDE DEF piece, behind
  <2> QED  BY <1>1, <2>1, PieceReads, Zenon DEF AtFront
<1> HIDE DEF piece, behind
<1>3. Continues(piece, behind)
  BY ONLY <1>2, Lettered(out, literal), Advance, AdvanceContinues
<1>4. /\ rest' = behind /\ piece.means # << >> /\ Lettered(out', literal')
      /\ Extends(Flush(out', literal'), Flush(out, literal), piece.means)
  BY <1>3, Zenon DEF Continues
<1>5. MeansAt(arg, p + 1) = piece.means
  BY Zenon DEF MeansAt, piece
<1>6. \A m \in 1 .. p + 1 : arg.pieces[m].means # << >>
  <2>1. \A m \in 1 .. p : arg.pieces[m].means # << >>
    BY Zenon DEF Scanned
  <2>2. \A m \in 1 .. p + 1 : m \in 1 .. p \/ m = p + 1
    BY <1>1
  <2> QED  BY <1>4, <2>1, <2>2, Zenon DEF piece
<1> DEFINE u == URLs!Product(Upto(arg, p + 1))
           w == URLs!Product(Upto(arg, p))
           o == Flush(out', literal')
<1>7. Extends(u, w, piece.means) /\ u \in Seq(Seq(C)) /\ w \in Seq(Seq(C))
  <2>1. p \in 0 .. Len(arg.pieces) - 1
    BY <1>1
  <2>2. \A m \in 1 .. p + 1 : globoff \/ arg.pieces[m].means # << >>
    BY <1>6
  <2> HIDE DEF u, w
  <2>3. Extends(u, w, MeansAt(arg, p + 1)) /\ u \in Seq(Seq(C)) /\ w \in Seq(Seq(C))
    BY <2>1, <2>2, UptoExtends, Zenon DEF u, w
  <2> QED  BY <1>5, <2>3, Zenon
<1>8. Flush(out, literal) = w
  BY Zenon DEF Scanned
<1>9. \E S : o \in Seq(S)
  <2>1. PICK D : out' \in Seq(Seq(D)) /\ literal' \in Seq(D)
    BY <1>4, Zenon DEF Lettered, LettersIn
  <2>2. o \in Seq(Seq(D))
    BY <2>1, FlushIs
  <2> QED  BY <2>2
<1> HIDE DEF u, w, o
<1>10. o = u
  <2> DEFINE items == piece.means
  <2>1. Len(items) \in Nat /\ Len(w) \in Nat
    <3>1. items \in Seq(Seq(C))
      BY <1>2, Zenon DEF PieceTyped
    <3> HIDE DEF items
    <3> QED  BY <1>7, <3>1
  <2>2. Extends(o, w, items) /\ Extends(u, w, items)
    BY <1>4, <1>7, <1>8, Zenon DEF o
  <2>3. \E S : u \in Seq(S)
    BY <1>7
  <2> HIDE DEF items
  <2> QED  BY ONLY <1>9, <2>1, <2>2, <2>3, ExtendsOnce
<1>11. Upto(arg, p + 1)' = Upto(arg, p + 1)
  BY SameMeaning
<1>12. Flush(out', literal') = URLs!Product(Upto(arg, p + 1)')
  BY <1>10, <1>11, Zenon DEF o, u
<1>13. p + 1 \in 0 .. Len(arg.pieces)
  BY <1>1
<1> QED  BY <1>4, <1>6, <1>12, <1>13 DEF Scanned, behind

\* A step of the scanner, or the end of the argument.
LEMMA ScansOn ==
  ASSUME ExpansionsInv, UNCHANGED <<args, globoff, n, targets, error>>, pc = "expand", pc' \in {"expand", "parse"},
         Lettered(out', literal'),
         pc' = "expand" => ~globoff /\ Scanning',
         pc' = "parse" => literal' = << >> /\ IsExpanded'
  PROVE  ExpansionsInv'
<1>1. Lettered(out, literal)'
  BY Zenon DEF Lettered, LettersIn
<1>2. ParsedUpto(n - 1)'
  <2>1. PICK m : m = n - 1
    OBVIOUS
  <2>2. ParsedUpto(m)
    BY <2>1, Zenon DEF ExpansionsInv
  <2>3. ParsedUpto(m)'
    BY <2>2, SameParsed
  <2>4. n' - 1 = m
    BY <2>1
  <2> QED  BY <2>3, <2>4 DEF ParsedUpto
<1>3. URLs!LimitExact'
  BY SameLimit, Zenon DEF ExpansionsInv
<1>4. pc' # "check" /\ ~URLs!Accepted'
  BY DEF URLs!Accepted
<1> QED  BY <1>1, <1>2, <1>3, <1>4, Zenon DEF ExpansionsInv

LEMMA AdvanceExpands ==
  ASSUME URLs!Undisputed, URLsInv, ExpansionsInv, Advance
  PROVE  ExpansionsInv'
<1>1. pc = "expand" /\ ~globoff /\ rest # << >> /\ UNCHANGED <<args, globoff, n, pc, targets, error>>
  BY Zenon DEF Advance, URLs!Escape, URLs!Literal, SetMore, RangeMore, URLs!Multiplied, URLs!Expanding
<1>2. Lettered(out, literal) /\ Scanning
  BY <1>1, Zenon DEF ExpansionsInv
<1>3. PICK arg, p : arg = args[n] /\ Scanned(arg, p)
  BY <1>2, Zenon DEF Scanning
<1>4. PICK C : Written(arg, C)
  BY <1>3, ArgIsWritten, Zenon DEF URLsInv
<1>7. Agreed(arg)
  BY <1>1, <1>3, Zenon DEF URLs!Undisputed, Agreed, URLsInv
<1>5. Lettered(out', literal') /\ Scanned(arg, p + 1)'
  BY <1>1, <1>2, <1>3, <1>4, <1>7, AdvanceScans
<1>6. Scanning'
  BY <1>1, <1>3, <1>5 DEF Scanning
<1> QED  BY <1>1, <1>5, <1>6, ScansOn

LEMMA ExpandedExpands ==
  ASSUME URLsInv, ExpansionsInv, URLs!Expanded
  PROVE  ExpansionsInv'
<1>1. /\ pc = "expand" /\ pc' = "parse" /\ ~(~globoff /\ rest # << >>) /\ UNCHANGED <<args, globoff, n, targets, error>>
      /\ literal' = << >> /\ (globoff => out' = << rest >>) /\ (~globoff => out' = Flush(out, literal))
  BY Zenon DEF URLs!Expanded, URLs!Expanding, URLs!Flushed, Flush
<1>2. PICK arg : arg = args[n]
  OBVIOUS
<1>3. PICK C : Written(arg, C)
  BY <1>2, ArgIsWritten, Zenon DEF URLsInv
<1>4. out' = URLs!Product(URLs!MeansOf(arg)) /\ Passable(arg) /\ Lettered(out', << >>)
  <2>1. CASE globoff
    <3>1. rest = URLs!Text(arg)
      BY <1>1, <1>2, <2>1, Zenon DEF ExpansionsInv
    <3>2. URLs!Product(URLs!MeansOf(arg)) = << URLs!Text(arg) >>
      BY <1>3, <2>1, GloboffProduct
    <3>3. << rest >> \in Seq(Seq(C)) /\ << >> \in Seq(C)
      <4>1. URLs!Behind(arg, 0) \in Seq(C) /\ URLs!Behind(arg, 0) = URLs!Text(arg)
        <5>1. 0 \in 0 .. Len(arg.pieces)
          BY <1>3 DEF Written
        <5> QED  BY <1>3, <5>1, BehindIs, Zenon
      <4>2. rest \in Seq(C)
        BY <3>1, <4>1, Zenon
      <4> DEFINE B == Seq(C)
      <4>3. rest \in B
        BY <4>2
      <4> HIDE DEF B
      <4>4. << rest >> \in Seq(B)
        BY <4>3
      <4> QED  BY <4>4 DEF B
    <3> QED  BY <1>1, <2>1, <3>1, <3>2, <3>3, Zenon DEF Passable, Lettered, LettersIn
  <2>2. CASE ~globoff
    <3>1. PICK p : Scanned(arg, p)
      BY <1>1, <1>2, <2>2, Zenon DEF ExpansionsInv, Scanning
    <3>2. p = Len(arg.pieces) /\ DOMAIN arg.pieces = 1 .. Len(arg.pieces)
      BY <1>1, <1>3, <2>2, <3>1, ScannedMore, Zenon DEF Written
    <3>3. Upto(arg, p) = URLs!MeansOf(arg)
      BY <1>3, <3>2, UptoStep, Zenon
    <3>4. out' = URLs!Product(URLs!MeansOf(arg)) /\ Passable(arg)
      BY <1>1, <2>2, <3>1, <3>2, <3>3, Zenon DEF Scanned, Passable, URLs!IsWellFormed
    <3>5. Lettered(Flush(out, literal), << >>)
      <4>1. PICK D : out \in Seq(Seq(D)) /\ literal \in Seq(D)
        BY Zenon DEF ExpansionsInv, Lettered, LettersIn
      <4>2. Flush(out, literal) \in Seq(Seq(D)) /\ << >> \in Seq(D)
        BY <4>1, FlushIs
      <4> QED  BY <4>2, Zenon DEF Lettered, LettersIn
    <3> QED  BY <1>1, <2>2, <3>4, <3>5, Zenon
  <2> QED  BY <2>1, <2>2
<1>5. IsExpanded'
  <2>1. URLs!MeansOf(arg)' = URLs!MeansOf(arg) /\ Passable(arg)' = Passable(arg)
    BY <1>1, SameMeaning
  <2>2. arg = args'[n']
    BY <1>1, <1>2
  <2> QED  BY <1>4, <2>1, <2>2 DEF IsExpanded
<1>6. Lettered(out', literal')
  BY <1>1, <1>4, Zenon
<1> QED  BY <1>1, <1>5, <1>6, ScansOn

\* Nothing of an argument has been read yet.
LEMMA ScanStarts ==
  ASSUME NEW arg, NEW C, Written(arg, C)
  PROVE  /\ 0 \in 0 .. Len(arg.pieces) /\ URLs!Behind(arg, 0) = URLs!Text(arg) /\ Upto(arg, 0) = << >>
         /\ Flush(<< << >> >>, << >>) = URLs!Product(<< >>) /\ Lettered(<< << >> >>, << >>)
         /\ \A m \in 1 .. 0 : FALSE
<1>1. 0 \in 0 .. Len(arg.pieces) /\ \A m \in 1 .. 0 : FALSE
  BY DEF Written
<1>2. URLs!Behind(arg, 0) = URLs!Text(arg)
  BY BehindIs
<1>3. Upto(arg, 0) = << >>
  BY UptoStep
<1> DEFINE o == << << >> >>
           l == << >>
<1>4. o \in Seq(Seq({})) /\ l \in Seq({})
  OBVIOUS
<1> HIDE DEF o, l
<1>5. Flush(o, << >>) = o
  BY <1>4, FlushIs
<1> QED  BY <1>1, <1>2, <1>3, <1>4, <1>5, ProductOfNone, Zenon DEF o, l, Lettered, LettersIn

LEMMA ExpansionsStart ==
  ASSUME URLs!Init
  PROVE  ExpansionsInv
<1>1. /\ args \in Inputs /\ pc = "expand" /\ n = 1 /\ rest = URLs!Text(args[1]) /\ literal = << >>
      /\ out = << << >> >> /\ targets = << >> /\ error = "none"
  BY Zenon DEF URLs!Init
<1>2. PICK arg : arg = args[1]
  OBVIOUS
<1>3. PICK C : Written(arg, C)
  BY <1>1, <1>2, ArgsAre, ArgIsWritten, Zenon
<1>4. Lettered(out, literal) /\ Scanned(arg, 0)
  BY <1>1, <1>2, <1>3, ScanStarts, Zenon DEF Scanned
<1>5. Scanning
  BY <1>1, <1>2, <1>4, Zenon DEF Scanning
<1>6. ParsedUpto(n - 1)
  <2>1. n - 1 = 0 /\ \A a : a \notin 1 .. 0
    BY <1>1
  <2>2. SubSeq(AllMeanings, 1, 0) = << >>
    BY <1>1, MeaningsUpto
  <2> QED  BY <1>1, <2>1, <2>2, FlattenEmpty, Zenon DEF ParsedUpto
<1>7. pc # "parse" /\ pc # "check" /\ ~URLs!Accepted /\ URLs!LimitExact
  BY <1>1 DEF URLs!Accepted, URLs!LimitExact
<1> QED  BY <1>1, <1>4, <1>5, <1>6, <1>7, Zenon DEF ExpansionsInv

\* Parsing what an argument expands to adds its meaning.
LEMMA ParseAdds ==
  ASSUME URLsInv, ExpansionsInv, URLs!ParseURL
  PROVE  (\E m : m = n /\ ParsedUpto(m)') /\ UNCHANGED <<args, globoff, error>>
<1>1. pc = "parse" /\ targets' = targets \o URLs!Of(args[n].origin, out) /\ UNCHANGED <<args, globoff, error>>
  BY Zenon DEF URLs!ParseURL, URLs!Of
<1>2. args \in Inputs /\ n \in DOMAIN args /\ n \in Nat /\ DOMAIN args = 1 .. Len(args)
  BY ArgsAre DEF URLsInv
<1>3. IsExpanded /\ ParsedUpto(n - 1)
  BY <1>1, Zenon DEF ExpansionsInv
<1>4. URLs!Of(args[n].origin, out) = URLs!Meaning(args[n]) /\ Passable(args[n])
  BY <1>3, Zenon DEF IsExpanded, URLs!Meaning
<1>5. FlattenSeq(SubSeq(AllMeanings, 1, n)) = FlattenSeq(SubSeq(AllMeanings, 1, n - 1)) \o URLs!Meaning(args[n])
  BY <1>2, MeaningsUpto
<1>6. targets' = FlattenSeq(SubSeq(AllMeanings, 1, n))
  BY <1>1, <1>3, <1>4, <1>5, Zenon DEF ParsedUpto
<1>7. \A a \in 1 .. n : Passable(args[a])
  <2>1. \A a \in 1 .. n : a \in 1 .. n - 1 \/ a = n
    BY <1>2
  <2> QED  BY <1>3, <1>4, <2>1, Zenon DEF ParsedUpto
<1>8. AllMeanings' = AllMeanings /\ \A arg : Passable(arg)' = Passable(arg)
  BY <1>1, SameMeaning
<1>9. PICK m : m = n
  OBVIOUS
<1>10. ParsedUpto(m)'
  BY <1>1, <1>6, <1>7, <1>8, <1>9 DEF ParsedUpto
<1> QED  BY <1>1, <1>9, <1>10, Zenon

LEMMA ParseURLExpands ==
  ASSUME URLsInv, ExpansionsInv, URLs!ParseURL
  PROVE  ExpansionsInv'
<1>1. PICK m : m = n /\ ParsedUpto(m)'
  BY ParseAdds
<1>2. UNCHANGED <<args, globoff, error>>
  BY ParseAdds
<1>3. args \in Inputs /\ n \in Nat /\ DOMAIN args = 1 .. Len(args) /\ n \in 1 .. Len(args) /\ Len(args) \in Nat
  BY ArgsAre DEF URLsInv
<1>4. /\ pc = "parse" /\ out' = << << >> >> /\ literal' = literal
      /\ \/ n < Len(args) /\ n' = n + 1 /\ pc' = "expand" /\ rest' = URLs!Text(args[n + 1])
         \/ ~(n < Len(args)) /\ pc' = "check"
  BY Zenon DEF URLs!ParseURL
<1>5. literal = << >>
  BY <1>4, Zenon DEF ExpansionsInv
<1>6. URLs!LimitExact'
  BY <1>2, SameLimit, Zenon DEF ExpansionsInv
<1>7. Lettered(out, literal)' /\ ~URLs!Accepted'
  <2>1. << << >> >> \in Seq(Seq({})) /\ << >> \in Seq({})
    OBVIOUS
  <2> QED  BY <1>4, <1>5, <2>1 DEF Lettered, LettersIn, URLs!Accepted
<1>8. CASE n < Len(args)
  <2>1. n' = n + 1 /\ pc' = "expand" /\ rest' = URLs!Text(args[n + 1]) /\ n + 1 \in DOMAIN args
    BY <1>3, <1>4, <1>8
  <2>2. PICK arg : arg = args[n + 1]
    OBVIOUS
  <2>3. PICK C : Written(arg, C)
    BY <1>3, <2>1, <2>2, ArgIsWritten, Zenon DEF URLsInv
  <2>4. ParsedUpto(n - 1)'
    <3>1. n' - 1 = m
      BY <1>1, <1>3, <2>1
    <3> QED  BY <1>1, <3>1 DEF ParsedUpto
  <2>5. Upto(arg, 0)' = << >>
    <3>1. Upto(arg, 0) = << >>
      BY <2>3, ScanStarts
    <3>2. Upto(arg, 0)' = Upto(arg, 0)
      BY <1>2, SameMeaning
    <3> QED  BY <3>1, <3>2
  <2>6. Scanned(arg, 0)'
    <3>1. /\ 0 \in 0 .. Len(arg.pieces) /\ URLs!Behind(arg, 0) = URLs!Text(arg)
          /\ Flush(<< << >> >>, << >>) = URLs!Product(<< >>) /\ \A a \in 1 .. 0 : FALSE
      BY <2>3, ScanStarts
    <3>2. rest' = URLs!Behind(arg, 0)
      BY <2>1, <2>2, <3>1, Zenon
    <3>3. Flush(out', literal') = URLs!Product(Upto(arg, 0)')
      BY <1>4, <1>5, <2>5, <3>1, Zenon
    <3> QED  BY <3>1, <3>2, <3>3 DEF Scanned
  <2>7. Scanning'
    <3>1. arg = args'[n']
      BY <1>2, <2>1, <2>2
    <3> QED  BY <2>6, <3>1 DEF Scanning
  <2>8. rest' = URLs!Text(args[n])'
    BY <1>2, <2>1
  <2>9. pc' # "parse" /\ pc' # "check"
    BY <2>1
  <2> QED  BY <1>6, <1>7, <2>4, <2>7, <2>8, <2>9, Zenon DEF ExpansionsInv
<1>9. CASE ~(n < Len(args))
  <2>1. pc' = "check" /\ m = Len(args)
    <3>1. n = Len(args)
      <4> DEFINE l == Len(args)
      <4>1. n \in 1 .. l /\ l \in Nat /\ ~(n < l)
        BY <1>3, <1>9, Zenon
      <4> HIDE DEF l
      <4>2. n = l
        BY ONLY <4>1
      <4> QED  BY <4>2 DEF l
    <3> QED  BY <1>1, <1>4, <1>9, <3>1, Zenon
  <2>2. ParsedUpto(Len(args))'
    <3>1. Len(args') = m
      BY <1>2, <2>1
    <3> QED  BY <1>1, <3>1 DEF ParsedUpto
  <2>3. pc' # "parse" /\ pc' # "expand"
    BY <2>1
  <2> QED  BY <1>6, <1>7, <2>2, <2>3, Zenon DEF ExpansionsInv
<1> QED  BY <1>8, <1>9

\* All parsed: the targets are the meanings.
LEMMA AllParsed ==
  ASSUME args \in Inputs, ParsedUpto(Len(args))
  PROVE  targets = URLs!Meanings /\ (globoff \/ URLs!WellFormed)
<1>1. SubSeq(AllMeanings, 1, Len(args)) = AllMeanings /\ DOMAIN args = 1 .. Len(args)
  BY MeaningsUpto, ArgsAre
<1>2. targets = URLs!Meanings
  BY <1>1, MeaningsAre, Zenon DEF ParsedUpto
<1>3. globoff \/ URLs!WellFormed
  BY <1>1, Zenon DEF ParsedUpto, Passable, URLs!WellFormed
<1> QED  BY <1>2, <1>3

\* What ends the run, and what remains of the invariant then.
LEMMA EndsExpansions ==
  ASSUME ExpansionsInv, UNCHANGED <<args, globoff, out, literal, targets>>, pc' = "done",
         error' = "none" => ParsedUpto(Len(args)), URLs!LimitExact'
  PROVE  ExpansionsInv'
<1>1. Lettered(out, literal)'
  BY Zenon DEF Lettered, LettersIn, ExpansionsInv
<1>2. ASSUME error' = "none" PROVE ParsedUpto(Len(args))'
  <2>1. PICK m : m = Len(args)
    OBVIOUS
  <2>2. ParsedUpto(m)'
    BY <1>2, <2>1, SameParsed
  <2>3. Len(args') = m
    BY <2>1
  <2> QED  BY <2>2, <2>3 DEF ParsedUpto
<1>3. pc' # "expand" /\ pc' # "parse" /\ pc' # "check"
  OBVIOUS
<1> QED  BY <1>1, <1>2, <1>3, Zenon DEF ExpansionsInv, URLs!Accepted

LEMMA CheckTargetsExpands ==
  ASSUME URLsInv, ExpansionsInv, URLs!CheckTargets
  PROVE  ExpansionsInv'
<1>1. /\ pc = "check" /\ pc' = "done" /\ UNCHANGED <<args, globoff, out, literal, targets>>
      /\ error' = "many" => Len(targets) > MaxGlobURLs
  <2>1. "none" # "many" /\ "origin" # "many"
    OBVIOUS
  <2> QED  BY <2>1, Zenon DEF URLs!CheckTargets
<1>2. ParsedUpto(Len(args)) /\ args \in Inputs
  BY <1>1, Zenon DEF ExpansionsInv, URLsInv
<1>3. targets = URLs!Meanings
  BY <1>2, AllParsed
<1>4. URLs!Meanings' = URLs!Meanings
  BY <1>1, SameMeaning
<1>5. URLs!LimitExact'
  BY <1>1, <1>3, <1>4, Zenon DEF URLs!LimitExact
<1> QED  BY <1>1, <1>2, <1>5, EndsExpansions

LEMMA StopExpands ==
  ASSUME ExpansionsInv, NEW e, e # "none", e # "many", URLs!Stop(e)
  PROVE  ExpansionsInv'
<1>1. error' = e /\ pc' = "done" /\ UNCHANGED <<args, globoff, out, literal, targets>>
  BY Zenon DEF URLs!Stop
<1>2. URLs!LimitExact'
  BY <1>1, SameLimit, Zenon DEF ExpansionsInv
<1> QED  BY <1>1, <1>2, EndsExpansions, Zenon

\* Too many for an argument is too many for them all.
LEMMA TooManyIsTooMany ==
  ASSUME URLs!Undisputed, URLsInv, ExpansionsInv, SetMany \/ RangeMany, URLs!WellFormed
  PROVE  Len(URLs!Meanings) > MaxGlobURLs
<1>1. /\ args \in Inputs /\ n \in DOMAIN args /\ Len(args) \in Nat /\ pc = "expand" /\ ~globoff /\ rest # << >>
      /\ MaxGlobURLs \in Nat /\ Len(out) \in Nat
  BY ArgsAre, Limited DEF URLsInv, SetMany, RangeMany, URLs!Expanding, Room, Listed
<1>2. PICK arg, p : arg = args[n] /\ Scanned(arg, p)
  BY <1>1, Zenon DEF ExpansionsInv, Scanning
<1>3. PICK C : Written(arg, C)
  BY <1>1, <1>2, ArgIsWritten, Zenon
<1> DEFINE piece == arg.pieces[p + 1]
           behind == URLs!Behind(arg, p + 1)
           means == URLs!MeansOf(arg)
<1>4. p \in 0 .. Len(arg.pieces) - 1 /\ AtFront(C, piece, behind) /\ Kinds(piece, behind)
      /\ p + 1 \in 1 .. Len(arg.pieces) /\ Len(arg.pieces) \in Nat
  BY <1>1, <1>2, <1>3, ScannedMore, Zenon DEF Written
<1>5. Len(piece.means) \in Nat \ {0} /\ (Len(piece.means) > MaxGlobURLs \/ Len(out) * Len(piece.means) > MaxGlobURLs)
  <2>2. ~URLs!EscapedSet(piece)
    BY <1>1, <1>2, <1>3, <1>4, Zenon DEF URLs!Undisputed, Written
  <2> HIDE DEF piece, behind
  <2>1. Reads(piece, behind)
    BY <1>4, <2>2, PieceReads
  <2> QED  BY <2>1, ManyIs
<1>6. \A m \in 1 .. Len(arg.pieces) : arg.pieces[m].means # << >>
  BY <1>1, <1>2, <1>3, Zenon DEF URLs!WellFormed, URLs!IsWellFormed, Written
<1> DEFINE x == URLs!Count(Upto(arg, p))
           y == Len(piece.means)
           z == URLs!Count(Upto(arg, p + 1))
<1>7. z = x * y /\ Len(URLs!Product(Upto(arg, p))) = x
  <2>1. \A m \in 1 .. p + 1 : globoff \/ arg.pieces[m].means # << >>
    BY <1>4, <1>6
  <2>2. MeansAt(arg, p + 1) = piece.means
    BY <1>1, Zenon DEF MeansAt
  <2> HIDE DEF piece
  <2>3. /\ Len(URLs!Product(Upto(arg, p))) = URLs!Count(Upto(arg, p))
        /\ URLs!Count(Upto(arg, p + 1)) = URLs!Count(Upto(arg, p)) * Len(MeansAt(arg, p + 1))
    BY <1>3, <1>4, <2>1, UptoExtends, Zenon
  <2> QED  BY <2>2, <2>3, Zenon
<1>8. Len(out) = x
  <2>1. PICK D : out \in Seq(Seq(D)) /\ literal \in Seq(D)
    BY Zenon DEF ExpansionsInv, Lettered, LettersIn
  <2>2. Len(Flush(out, literal)) = Len(out)
    BY <2>1, FlushIs
  <2> QED  BY <1>2, <1>7, <2>2, Zenon DEF Scanned
<1>9. means \in Seq(Choice(C)) /\ Len(means) = Len(arg.pieces)
  <2>1. URLs!IsWellFormed(arg)
    BY <1>1, <1>2, Zenon DEF URLs!WellFormed
  <2> QED  BY <1>3, <2>1, MeansAre
<1>10. Radix(Choice(C))
  BY ChoiceIs
<1>11. z <= URLs!Count(means)
  <2> DEFINE T == Choice(C)
             q == p + 1
  <2>1. q \in 0 .. Len(means) /\ means \in Seq(T) /\ Radix(T)
    BY <1>4, <1>9, <1>10
  <2> HIDE DEF means, T, q
  <2>2. URLs!Count(SubSeq(means, 1, q)) <= URLs!Count(means)
    BY <2>1, CountGrows
  <2> QED  BY <2>2, Zenon DEF means, q, Upto
<1>12. URLs!Count(means) <= Len(URLs!Meanings) /\ Len(URLs!Meanings) \in Nat /\ URLs!Count(means) \in Nat
  <2>1. Len(URLs!Meaning(arg)) = URLs!Count(means) /\ URLs!Count(means) \in Nat
    BY <1>3, MeaningIs
  <2>2. Len(URLs!Meaning(arg)) <= Len(URLs!Meanings) /\ Len(URLs!Meanings) \in Nat
    BY <1>1, <1>2, MeaningsUpto, Zenon
  <2> QED  BY <2>1, <2>2, Zenon
<1>13. x \in Nat \ {0}
  <2>1. Len(out) # 0
    BY DEF URLsInv, Room
  <2> QED  BY <1>1, <1>8, <2>1
<1> DEFINE c == URLs!Count(means)
           l == Len(URLs!Meanings)
<1>14. x * y > MaxGlobURLs
  <2>1. y \in Nat \ {0} /\ (y > MaxGlobURLs \/ x * y > MaxGlobURLs)
    BY <1>5, <1>8
  <2> HIDE DEF x, y
  <2>2. x * y >= y
    <3>1. PICK d \in Nat : x = d + 1
      <4>1. x - 1 \in Nat /\ x = (x - 1) + 1
        BY <1>13
      <4> QED  BY <4>1
    <3>2. x * y = d * y + y /\ d * y \in Nat
      BY <2>1, <3>1
    <3> QED  BY <2>1, <3>2
  <2>3. x * y \in Nat
    BY <1>13, <2>1
  <2> DEFINE w == x * y
  <2> HIDE DEF w
  <2> QED  BY <1>1, <2>1, <2>2, <2>3 DEF w
<1>15. z \in Nat
  <2>1. y \in Nat
    BY <1>5
  <2> HIDE DEF x, y, z
  <2>2. x * y \in Nat
    BY <1>13, <2>1
  <2> QED  BY <1>7, <2>2
<1>16. z > MaxGlobURLs
  BY <1>7, <1>14, Zenon
<1>17. z <= c /\ c <= l /\ c \in Nat /\ l \in Nat
  BY <1>11, <1>12, Zenon
<1> HIDE DEF x, y, z, c, l
<1>18. l > MaxGlobURLs
  BY <1>1, <1>15, <1>16, <1>17
<1> QED  BY <1>18 DEF l

LEMMA ManyExpands ==
  ASSUME URLs!Undisputed, URLsInv, ExpansionsInv, SetMany \/ RangeMany, URLs!Stop("many")
  PROVE  ExpansionsInv'
<1>1. error' = "many" /\ pc' = "done" /\ UNCHANGED <<args, globoff, out, literal, targets>>
  BY Zenon DEF URLs!Stop
<1>2. URLs!LimitExact'
  <2>1. URLs!Meanings' = URLs!Meanings /\ URLs!WellFormed' = URLs!WellFormed
    BY <1>1, SameMeaning
  <2>2. URLs!WellFormed => Len(URLs!Meanings) > MaxGlobURLs
    BY TooManyIsTooMany
  <2> QED  BY <2>1, <2>2, Zenon DEF URLs!LimitExact
<1>3. error' # "none"
  BY <1>1
<1> QED  BY <1>1, <1>2, <1>3, EndsExpansions

LEMMA ExpansionsMove ==
  ASSUME URLs!Undisputed, URLsInv, ExpansionsInv, URLs!Next
  PROVE  ExpansionsInv'
<1>1. CASE URLs!Unmatched \/ URLs!BadRange
  <2>1. URLs!Stop("unmatched") \/ URLs!Stop("range")
    BY <1>1, Zenon DEF URLs!Unmatched, URLs!BadRange
  <2>2. "unmatched" # "none" /\ "unmatched" # "many" /\ "range" # "none" /\ "range" # "many"
    OBVIOUS
  <2> QED  BY <2>1, <2>2, StopExpands, Zenon
<1>2. CASE URLs!BadURL
  <2>0. PICK m \in DOMAIN out : ~URLs!Parses(m) /\ URLs!Stop(URLs!ParseError(args[n].origin, out[m]))
    BY <1>2, Zenon DEF URLs!BadURL
  <2> DEFINE e == URLs!ParseError(args[n].origin, out[m])
  <2>1. URLs!Stop(e) /\ e # "none"
    BY <2>0, Zenon DEF URLs!Parses
  <2>2. e \in {"none", "malformed", "protocol"}
    BY Zenon DEF URLs!ParseError
  <2> HIDE DEF e
  <2>3. PICK d : d = e
    OBVIOUS
  <2>4. d # "none" /\ d # "many" /\ URLs!Stop(d)
    BY <2>1, <2>2, <2>3
  <2> QED  BY <2>4, StopExpands
<1>3. CASE URLs!ExpandSet
  <2>1. SetMore \/ (SetMany /\ URLs!Stop("many"))
    BY <1>3, Zenon DEF URLs!ExpandSet, SetMore, SetMany
  <2> QED  BY <2>1, AdvanceExpands, ManyExpands, Zenon DEF Advance
<1>4. CASE URLs!ExpandRange
  <2>1. RangeMore \/ (RangeMany /\ URLs!Stop("many"))
    BY <1>4, Zenon DEF URLs!ExpandRange, RangeMore, RangeMany
  <2> QED  BY <2>1, AdvanceExpands, ManyExpands, Zenon DEF Advance
<1>5. CASE URLs!Escape \/ URLs!Literal
  BY <1>5, AdvanceExpands, Zenon DEF Advance
<1> QED  BY <1>1, <1>2, <1>3, <1>4, <1>5, ExpandedExpands, ParseURLExpands, CheckTargetsExpands, Zenon DEF URLs!Next

LEMMA ExpansionsStay ==
  ASSUME ExpansionsInv, UNCHANGED <<pc, args, ofURLs>>
  PROVE  ExpansionsInv'
<1>1. UNCHANGED <<pc, args, globoff, n, rest, literal, out, targets, error>>
  BY DEF ofURLs
<1>2. Lettered(out, literal)' /\ URLs!LimitExact'
  BY <1>1, SameLimit, Zenon DEF ExpansionsInv, Lettered, LettersIn
<1>3. ASSUME NEW m, ParsedUpto(m) PROVE ParsedUpto(m)'
  BY <1>1, <1>3, SameParsed
<1>4. /\ \A arg : URLs!MeansOf(arg)' = URLs!MeansOf(arg) /\ Passable(arg)' = Passable(arg)
      /\ \A arg, p : Upto(arg, p)' = Upto(arg, p)
  BY <1>1, SameMeaning
<1>5. pc = "expand" /\ ~globoff => Scanning'
  <2> SUFFICES ASSUME pc = "expand" /\ ~globoff PROVE Scanning'
    OBVIOUS
  <2>1. PICK arg, p : arg = args[n] /\ Scanned(arg, p)
    BY Zenon DEF ExpansionsInv, Scanning
  <2>2. Scanned(arg, p)'
    BY <1>1, <1>4, <2>1 DEF Scanned
  <2> QED  BY <1>1, <2>1, <2>2 DEF Scanning
<1>6. pc = "parse" => literal' = << >> /\ IsExpanded'
  <2> SUFFICES ASSUME pc = "parse" PROVE literal' = << >> /\ IsExpanded'
    OBVIOUS
  <2>1. PICK arg : arg = args[n] /\ out = URLs!Product(URLs!MeansOf(arg)) /\ Passable(arg)
    BY Zenon DEF ExpansionsInv, IsExpanded
  <2>2. literal = << >>
    BY Zenon DEF ExpansionsInv
  <2> QED  BY <1>1, <1>4, <2>1, <2>2 DEF IsExpanded
<1>7. pc \in {"expand", "parse"} => ParsedUpto(n - 1)'
  <2> SUFFICES ASSUME pc \in {"expand", "parse"} PROVE ParsedUpto(n - 1)'
    OBVIOUS
  <2>1. PICK m : m = n - 1
    OBVIOUS
  <2>2. ParsedUpto(m)'
    BY <1>3, <2>1, Zenon DEF ExpansionsInv
  <2>3. n' - 1 = m
    BY <1>1, <2>1
  <2> QED  BY <2>2, <2>3 DEF ParsedUpto
<1>8. pc = "check" \/ URLs!Accepted => ParsedUpto(Len(args))'
  <2> SUFFICES ASSUME pc = "check" \/ URLs!Accepted PROVE ParsedUpto(Len(args))'
    OBVIOUS
  <2>1. PICK m : m = Len(args)
    OBVIOUS
  <2>2. ParsedUpto(m)'
    BY <1>3, <2>1, Zenon DEF ExpansionsInv
  <2>3. Len(args') = m
    BY <1>1, <2>1
  <2> QED  BY <2>2, <2>3 DEF ParsedUpto
<1>9. pc' = "expand" /\ globoff' => rest' = URLs!Text(args[n])'
  BY <1>1, Zenon DEF ExpansionsInv
<1>10. URLs!Accepted' = URLs!Accepted
  BY <1>1, Zenon DEF URLs!Accepted
<1> QED  BY <1>1, <1>2, <1>5, <1>6, <1>7, <1>8, <1>9, <1>10, Zenon DEF ExpansionsInv

LEMMA SameDispute ==
  ASSUME UNCHANGED <<args, globoff>>
  PROVE  URLs!Undisputed' = URLs!Undisputed
BY DEF URLs!Undisputed

LEMMA ExpansionsInvariance ==
  Spec => [](part = "urls" => URLsInv /\ (URLs!Undisputed => ExpansionsInv))
<1> DEFINE Inv == part = "urls" => URLsInv /\ (URLs!Undisputed => ExpansionsInv)
<1>1. Init => Inv
  BY URLsStarts, ExpansionsStart DEF Init
<1>2. ASSUME Inv, [Next]_vars PROVE Inv'
  <2>1. CASE URLsStep
    <3>1. part = "urls" /\ URLs!Next /\ UNCHANGED part
      BY <2>1, Zenon DEF URLsStep
    <3>2. UNCHANGED <<args, globoff>>
      BY <3>1, URLsKeep
    <3>3. URLsInv'
      BY <1>2, <3>1, URLsMoves
    <3>4. URLs!Undisputed => ExpansionsInv'
      BY <1>2, <3>1, ExpansionsMove
    <3>5. URLs!Undisputed' = URLs!Undisputed
      BY <3>2, SameDispute
    <3> QED  BY <3>3, <3>4, <3>5
  <2>2. CASE ArgumentsStep \/ SYNStep \/ RequestStep \/ HelloStep
    BY <2>2 DEF ArgumentsStep, SYNStep, RequestStep, HelloStep
  <2>3. CASE UNCHANGED vars
    <3>1. UNCHANGED part /\ UNCHANGED <<args, globoff>> /\ UNCHANGED <<pc, args, ofURLs>>
      BY <2>3 DEF vars, ofURLs
    <3>2. URLs!Undisputed' = URLs!Undisputed
      BY <3>1, SameDispute
    <3> QED  BY <1>2, <2>3, <3>1, <3>2, URLsStays, ExpansionsStay DEF vars
  <2> QED  BY <1>2, <2>1, <2>2, <2>3 DEF Next
<1> QED  BY <1>1, <1>2, PTL DEF Spec

LEMMA ExpansionsSafe ==
  ASSUME URLsInv, URLs!Undisputed => ExpansionsInv
  PROVE  URLs!TargetsAsWritten
<1>1. URLs!NeverTooMany /\ URLs!OneOrigin
  BY URLsSafe
<1>2. ASSUME URLs!Undisputed PROVE URLs!CurlOrder /\ URLs!PatternsAreChecked /\ URLs!LimitExact
  <2>1. ExpansionsInv
    BY <1>2
  <2>2. URLs!Accepted => targets = URLs!Meanings /\ (globoff \/ URLs!WellFormed)
    BY <2>1, AllParsed, Zenon DEF ExpansionsInv, URLsInv
  <2>3. URLs!CurlOrder /\ URLs!PatternsAreChecked
    BY <2>2, Zenon DEF URLs!CurlOrder, URLs!PatternsAreChecked
  <2>4. URLs!LimitExact
    BY <2>1, Zenon DEF ExpansionsInv
  <2> QED  BY <2>3, <2>4
<1> QED  BY <1>1, <1>2, Zenon DEF URLs!TargetsAsWritten

\* However the patterns multiply, the run is never handed, and never builds for
\* an argument, more than MaxGlobURLs URLs, and those it is handed can all go
\* over one connection (expandGlob in glob.go, parseTargets in client.go).
THEOREM TargetsAreBounded == Spec => [](part = "urls" => URLs!NeverTooMany /\ URLs!OneOrigin)
<1>1. (part = "urls" => URLsInv) => (part = "urls" => URLs!NeverTooMany /\ URLs!OneOrigin)
  BY URLsSafe
<1> QED  BY <1>1, URLsInvariance, PTL

\* The targets of a run are the expansions of its URL arguments in curl order,
\* the rightmost pattern varying fastest, none lost, repeated or cut short, bad
\* patterns refused and the limit exact (expandGlob and expandRange in glob.go,
\* parseTargets and parseURL in client.go): for every argument the grammar of
\* Glob can write, and every limit, where no set has a backslash in it that the
\* documentation gives a meaning and the code does not (or -g is given).
THEOREM TargetsAreAsWritten == Spec => []TargetsAsWritten
<1>1. (part = "urls" => URLsInv /\ (URLs!Undisputed => ExpansionsInv)) => TargetsAsWritten
  BY ExpansionsSafe DEF TargetsAsWritten
<1> QED  BY <1>1, ExpansionsInvariance, PTL

=============================================================================
