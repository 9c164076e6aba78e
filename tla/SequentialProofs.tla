-------------------------- MODULE SequentialProofs --------------------------
(***************************************************************************)
(* What TLAPS proves of the parts of Sequential that make what is sent:    *)
(* the request, the SYN and the ClientHello; and the typing of all five.   *)
(***************************************************************************)
EXTENDS CommandLineProofs

-----------------------------------------------------------------------------
(* The request.  Header lines are pairs of a name and one of the values in   *)
(* reach; what the user says of a name is a list with a part for every -H    *)
(* option, << >> where the option says nothing of it.                        *)

Shapes == {Request!RequestHost(target), << Agent >>, << Everything >>} \cup {<< v >> : v \in Values}
Pairs == Request!Names \X Shapes
Pick(name) == [p \in Pairs |-> IF p[1] = name THEN << p[2] >> ELSE << >>]
Part(name) ==
  [m \in DOMAIN values |->
     IF Request!Says(m, name) /\ ~Request!Suppresses(values[m]) THEN << << values[m].value >> >> ELSE << >>]
\* What the first options say of a name: those before the m-th.
SaidBefore(name, m) == FlattenSeq(SubSeq(Part(name), 1, m - 1))
Base(name) ==
  IF name \in {"user-agent", "accept"} /\ name \notin suppressed THEN Request!DefaultValue(name) ELSE << >>
SaidOnce(name) == \A a, b \in Request!Said(name) : a = b

\* What has been read of the options is kept as it stands.
Reading ==
  /\ values \in Seq(Request!Options) /\ headers \in Seq(Request!Options)
  /\ Len(headers) <= Len(values)
  /\ \A m \in DOMAIN headers : headers[m] = values[m] /\ ~Request!Malformed(headers[m])
  /\ pc \in {"build", "done"} => Len(headers) = Len(values)
  /\ pc \in {"parse", "build", "done", "rejected"}
  /\ suppressed = Request!Defaults \cap {Lower[headers[m].name] : m \in DOMAIN headers}
  /\ fields \in [Request!Names -> Seq(Shapes)]

\* The http.Request, as far as it is built, has of every name what the options
\* read so far say of it.
Built ==
  /\ k \in 1 .. Len(values) + 1 /\ host \in Shapes
  /\ lines = Request!Lines
  /\ \A name \in Request!Names \cap (Request!HopByHop \cup {"host"}) : fields[name] = << >>
  /\ SaidOnce("host") =>
       << host >> = IF SaidBefore("host", k) = << >> THEN << Request!RequestHost(target) >> ELSE SaidBefore("host", k)
  /\ \A name \in Request!Names \ (Request!HopByHop \cup {"host"}) :
       (name = "user-agent" => SaidOnce(name)) => fields[name] = Base(name) \o SaidBefore(name, k)

RequestInv ==
  /\ Reading
  /\ pc = "parse" => k = 1
  /\ pc \in {"build", "done"} => Built
  /\ pc = "done" => k = Len(values) + 1 /\ trace = Request!Trace

LEMMA Defaulted ==
  /\ {"host", "user-agent", "accept"} \subseteq Request!Names
  /\ {"host", "user-agent", "accept"} \cap Request!HopByHop = {}
BY RequestAssumption DEF Request!RequestHeadersAssumption, Request!Names, Request!HopByHop

LEMMA HeaderIs ==
  ASSUME NEW h \in Request!Options, ~Request!Malformed(h)
  PROVE  /\ Lower[h.name] \in Request!Names
         /\ ~Request!Suppresses(h) => h.value \in Values /\ << h.value >> \in Shapes
<1>1. CASE h \in [name : Spellings, value : Values]
  <2>1. h.name \in Spellings /\ h.value \in Values
    BY <1>1
  <2> QED  BY <2>1 DEF Request!Names, Shapes
<1>2. CASE h \in [name : Spellings, suppress : {TRUE}]
  <2>1. h.name \in Spellings /\ "suppress" \in DOMAIN h
    BY <1>2
  <2> QED  BY <2>1 DEF Request!Names, Request!Suppresses
<1>3. CASE h \in {[malformed |-> TRUE]}
  <2>1. "malformed" \in DOMAIN h
    BY <1>3
  <2> QED  BY <2>1 DEF Request!Malformed
<1> QED  BY <1>1, <1>2, <1>3 DEF Request!Options

\* The parts are lists of values; those of a name no option names are empty.
LEMMA PartIs ==
  ASSUME Reading, pc \in {"build", "done"}, NEW name
  PROVE  /\ Part(name) \in Seq(Seq(Shapes)) /\ Len(Part(name)) = Len(values)
         /\ DOMAIN values = 1 .. Len(values) /\ Len(values) \in Nat
         /\ Request!SaidValues(name) = FlattenSeq(Part(name))
         /\ \A m \in 1 .. Len(values) :
              m \notin Request!Said(name) \/ Request!Suppresses(values[m]) => Part(name)[m] = << >>
         /\ \A m \in Request!Said(name) :
              ~Request!Suppresses(values[m]) => Part(name)[m] = << << values[m].value >> >>
<1>1. DOMAIN values = 1 .. Len(values) /\ Len(values) \in Nat
  BY DEF Reading
<1>2. ASSUME NEW m \in 1 .. Len(values) PROVE Part(name)[m] \in Seq(Shapes)
  <2>1. values[m] \in Request!Options /\ ~Request!Malformed(values[m])
    BY DEF Reading
  <2>2. ~Request!Suppresses(values[m]) => << values[m].value >> \in Shapes
    BY <2>1, HeaderIs
  <2> DEFINE v == << values[m].value >>
  <2>3. v \in Shapes => << v >> \in Seq(Shapes)
    OBVIOUS
  <2>4. Part(name)[m] = << >> \/ (~Request!Suppresses(values[m]) /\ Part(name)[m] = << v >>)
    BY <1>1 DEF Part
  <2> HIDE DEF v
  <2>5. << >> \in Seq(Shapes)
    OBVIOUS
  <2> QED  BY <2>2, <2>3, <2>4, <2>5 DEF v
<1>3. Part(name) \in [1 .. Len(values) -> Seq(Shapes)]
  BY <1>1, <1>2 DEF Part
<1>4. Part(name) \in Seq(Seq(Shapes)) /\ Len(Part(name)) = Len(values)
  BY <1>1, <1>3, SeqDef, LenProperties
<1>5. Request!SaidValues(name) = FlattenSeq(Part(name))
  BY Zenon DEF Request!SaidValues, Part, Request!FlattenSeq, FlattenSeq
<1>6. \A m \in 1 .. Len(values) : m \notin Request!Said(name) \/ Request!Suppresses(values[m]) => Part(name)[m] = << >>
  BY <1>1 DEF Part, Request!Said
<1>7. \A m \in Request!Said(name) :
         ~Request!Suppresses(values[m]) => Part(name)[m] = << << values[m].value >> >>
  BY <1>1 DEF Part, Request!Said
<1> QED  BY <1>1, <1>4, <1>5, <1>6, <1>7

\* What is said of a name before an option, and up to and with it.
LEMMA BeforeStep ==
  ASSUME Reading, pc \in {"build", "done"}, NEW name, NEW m \in 1 .. Len(values)
  PROVE  /\ SaidBefore(name, 1) = << >>
         /\ SaidBefore(name, Len(values) + 1) = Request!SaidValues(name)
         /\ SaidBefore(name, m) \in Seq(Shapes) /\ Part(name)[m] \in Seq(Shapes)
         /\ SaidBefore(name, m + 1) = SaidBefore(name, m) \o Part(name)[m]
         /\ (\A a \in Request!Said(name) : a >= m) => SaidBefore(name, m) = << >>
<1> DEFINE ss == Part(name)
           N == Len(values)
           B == Seq(Shapes)
<1>1. ss \in Seq(Seq(Shapes)) /\ Len(ss) = N /\ N \in Nat /\ Request!SaidValues(name) = FlattenSeq(ss)
      /\ \A a \in 1 .. N : a \notin Request!Said(name) => ss[a] = << >>
  BY PartIs
<1> HIDE DEF ss, N
<1>2. m - 1 \in 0 .. Len(ss) /\ m - 1 \in 0 .. Len(ss) - 1 /\ (m - 1) + 1 = m /\ (m + 1) - 1 = m /\ (N + 1) - 1 = N /\ 1 - 1 = 0
  BY <1>1 DEF N
<1>3. FlattenSeq(SubSeq(ss, 1, m)) = FlattenSeq(SubSeq(ss, 1, m - 1)) \o ss[m]
  BY <1>1, <1>2, FlattenUpto
<1>4. SubSeq(ss, 1, 0) = << >> /\ SubSeq(ss, 1, N) = ss /\ SubSeq(ss, 1, m - 1) \in Seq(Seq(Shapes))
  BY <1>1, <1>2, UptoProperties
<1>5. FlattenSeq(SubSeq(ss, 1, m - 1)) \in Seq(Shapes)
  BY <1>4, FlattenType
<1>6. ss[m] \in Seq(Shapes)
  <2> HIDE DEF B
  <2>1. ss \in Seq(B) /\ m \in 1 .. Len(ss)
    BY <1>1 DEF B, N
  <2>2. ss[m] \in B
    BY <2>1
  <2> QED  BY <2>2 DEF B
<1>7. ASSUME \A a \in Request!Said(name) : a >= m PROVE FlattenSeq(SubSeq(ss, 1, m - 1)) = << >>
  <2>1. \A a \in 1 .. m - 1 : a \in 1 .. N /\ ~(a >= m)
    BY DEF N
  <2>2. \A a \in 1 .. m - 1 : ss[a] \in {<< >>}
    BY <1>1, <1>7, <2>1
  <2>3. SubSeq(ss, 1, m - 1) \in Seq({<< >>})
    BY <1>1, <1>2, <2>2, SubSeqProperties
  <2> QED  BY <2>3, FlattenOfEmpties
<1> QED  BY <1>1, <1>2, <1>3, <1>4, <1>5, <1>6, <1>7, FlattenEmpty, Zenon DEF SaidBefore, ss, N

LEMMA UnreadIs ==
  ASSUME Reading
  PROVE  /\ Request!Unread \in Seq(Request!Options)
         /\ Request!Unread = << >> <=> Len(headers) = Len(values)
         /\ Request!Unread # << >> => /\ Head(Request!Unread) = values[Len(headers) + 1]
                                      /\ Head(Request!Unread) \in Request!Options
<1>1. Len(headers) \in Nat /\ Len(values) \in Nat /\ Len(headers) <= Len(values)
  BY DEF Reading
<1>2. Request!Unread \in Seq(Request!Options) /\ Len(Request!Unread) = Len(values) - Len(headers)
  BY <1>1 DEF Reading, Request!Unread
<1>3. CASE Len(headers) = Len(values)
  BY <1>1, <1>2, <1>3
<1>4. CASE Len(headers) # Len(values)
  <2>1. Len(Request!Unread) > 0 /\ Request!Unread[1] = values[Len(headers) + 1]
    BY <1>1, <1>2, <1>4 DEF Reading, Request!Unread
  <2> QED  BY <1>1, <1>2, <1>4, <2>1
<1> QED  BY <1>3, <1>4

LEMMA AllRead ==
  ASSUME Reading, Len(headers) = Len(values)
  PROVE  headers = values /\ suppressed = {d \in Request!Defaults : Request!Said(d) # {}}
<1>1. /\ headers \in Seq(Request!Options) /\ values \in Seq(Request!Options)
      /\ \A m \in DOMAIN headers : headers[m] = values[m]
  BY DEF Reading
<1>2. headers = values
  <2>1. ASSUME NEW S, NEW s \in Seq(S), NEW t \in Seq(S), Len(s) = Len(t), \A m \in DOMAIN s : s[m] = t[m]
        PROVE  s = t
    BY <2>1, SeqEqual
  <2> QED  BY <1>1, <2>1, Zenon
<1> QED  BY <1>2, Zenon DEF Reading, Request!Said, Request!Says

LEMMA ReadingStep ==
  ASSUME Reading, Request!ParseHeader
  PROVE  Reading'
<1> DEFINE h == values[Len(headers) + 1]
<1>1. /\ Len(headers) \in Nat /\ Len(values) \in Nat /\ Len(headers) < Len(values)
      /\ h \in Request!Options /\ ~Request!Malformed(h) /\ headers' = Append(headers, h)
  BY UnreadIs DEF Request!ParseHeader, Reading
<1>2. /\ UNCHANGED <<target, values, pc, fields>> /\ pc = "parse"
      /\ suppressed' = suppressed \cup (Request!Defaults \cap {Lower[h.name]})
  BY UnreadIs DEF Request!ParseHeader
<1> HIDE DEF h
<1>3. /\ headers' \in Seq(Request!Options) /\ Len(headers') = Len(headers) + 1
      /\ headers'[Len(headers) + 1] = h
      /\ \A m \in DOMAIN headers : headers'[m] = headers[m]
      /\ DOMAIN headers' = DOMAIN headers \cup {Len(headers) + 1}
  BY <1>1 DEF Reading
<1>4. \A m \in DOMAIN headers' : headers'[m] = values[m] /\ ~Request!Malformed(headers'[m])
  BY <1>1, <1>3 DEF Reading, h
<1>5. {Lower[headers'[m].name] : m \in DOMAIN headers'}
        = {Lower[headers[m].name] : m \in DOMAIN headers} \cup {Lower[h.name]}
  BY <1>3
<1>6. suppressed' = Request!Defaults \cap {Lower[headers'[m].name] : m \in DOMAIN headers'}
  BY <1>2, <1>5, Zenon DEF Reading
<1>7. Shapes' = Shapes
  BY <1>2, Zenon DEF Shapes, Request!RequestHost, Request!DefaultPort
<1>8. /\ values' \in Seq(Request!Options) /\ Len(headers') <= Len(values')
      /\ pc' \notin {"build", "done"} /\ pc' \in {"parse", "build", "done", "rejected"}
      /\ fields' \in [Request!Names -> Seq(Shapes')]
  BY <1>1, <1>2, <1>3, <1>7 DEF Reading
<1> QED  BY <1>2, <1>3, <1>4, <1>6, <1>8, Zenon DEF Reading, Request!Malformed


LEMMA SameRequest ==
  ASSUME UNCHANGED <<target, values, headers, suppressed>>
  PROVE  /\ Shapes' = Shapes /\ Request!RequestHost(target)' = Request!RequestHost(target)
         /\ Request!Lines' = Request!Lines
         /\ \A name : /\ Part(name)' = Part(name) /\ Base(name)' = Base(name)
                      /\ Request!Said(name)' = Request!Said(name)
                      /\ SaidOnce(name)' = SaidOnce(name)
<1>1. Request!RequestHost(target)' = Request!RequestHost(target)
  BY Zenon DEF Request!RequestHost, Request!DefaultPort
<1>2. Shapes' = Shapes
  BY <1>1, Zenon DEF Shapes
<1>3. Request!Lines' = Request!Lines
  BY <1>1, Zenon DEF Request!Lines, Request!Generated, Request!Sent, Request!Suppresses
<1>4. ASSUME NEW name
      PROVE  /\ Part(name)' = Part(name) /\ Base(name)' = Base(name)
             /\ Request!Said(name)' = Request!Said(name) /\ SaidOnce(name)' = SaidOnce(name)
  <2>1. Part(name)' = Part(name)
    BY Zenon DEF Part, Request!Says, Request!Suppresses
  <2>2. Base(name)' = Base(name)
    BY <1>1, Zenon DEF Base, Request!DefaultValue
  <2>3. Request!Said(name)' = Request!Said(name)
    BY Zenon DEF Request!Said, Request!Says
  <2> QED  BY <2>1, <2>2, <2>3, Zenon DEF SaidOnce
<1> QED  BY <1>1, <1>2, <1>3, <1>4, Zenon

LEMMA BaseIs ==
  ASSUME Reading, NEW name \in Request!Names
  PROVE  /\ Base(name) \in Seq(Shapes)
         /\ Request!RequestHost(target) \in Shapes
         /\ Base(name) = IF name = "user-agent" /\ name \notin suppressed THEN << << Agent >> >>
                         ELSE IF name = "accept" /\ name \notin suppressed THEN << << Everything >> >>
                         ELSE << >>
<1>1. Base(name) = IF name = "user-agent" /\ name \notin suppressed THEN << << Agent >> >>
                   ELSE IF name = "accept" /\ name \notin suppressed THEN << << Everything >> >>
                   ELSE << >>
  BY DEF Base, Request!DefaultValue
<1>2. \A v \in Shapes : << v >> \in Seq(Shapes)
  OBVIOUS
<1>3. << >> \in Seq(Shapes)
  OBVIOUS
<1>4. << Agent >> \in Shapes /\ << Everything >> \in Shapes /\ Request!RequestHost(target) \in Shapes
  BY Zenon DEF Shapes
<1>5. << << Agent >> >> \in Seq(Shapes) /\ << << Everything >> >> \in Seq(Shapes)
  BY <1>2, <1>4, Zenon
<1> QED  BY <1>1, <1>3, <1>4, <1>5, Zenon

LEMMA SerializeStep ==
  ASSUME RequestInv, Request!Serialize
  PROVE  RequestInv'
<1>1. /\ pc = "parse" /\ pc' = "build" /\ Len(headers) = Len(values) /\ k' = 1 /\ Reading
      /\ UNCHANGED <<target, values, headers, suppressed>> /\ lines' = Request!Lines
      /\ host' = Request!RequestHost(target)
  BY UnreadIs DEF Request!Serialize, RequestInv
<1>2. \A name \in Request!Names : fields'[name] = Base(name)
  BY <1>1, BaseIs DEF Request!Serialize
<1>3. fields' \in [Request!Names -> Seq(Shapes)]
  <2>1. \A name \in Request!Names : Base(name) \in Seq(Shapes)
    BY <1>1, BaseIs
  <2>2. fields' = [name \in Request!Names |-> fields'[name]]
    BY Zenon DEF Request!Serialize
  <2> QED  BY <1>2, <2>1, <2>2
<1>4. Reading'
  BY <1>1, <1>3, SameRequest, Zenon DEF Reading, Request!Malformed
<1>5. \A name : SaidBefore(name, k)' = << >>
  <2>1. ASSUME NEW name PROVE SaidBefore(name, k)' = << >>
    <3>2. SubSeq(Part(name)', 1, 0) = << >>
      OBVIOUS
    <3>3. SaidBefore(name, k)' = FlattenSeq(SubSeq(Part(name)', 1, k' - 1))
      BY Zenon DEF SaidBefore
    <3>4. k' - 1 = 0
      BY <1>1
    <3> QED  BY <3>2, <3>3, <3>4, FlattenEmpty
  <2> QED  BY <2>1
<1>6. Built'
  <2>1. k' \in 1 .. Len(values') + 1
    BY <1>1 DEF Reading
  <2>2. host' \in Shapes'
    BY <1>1, SameRequest, Zenon DEF Shapes
  <2>3. lines' = Request!Lines'
    BY <1>1, SameRequest
  <2>4. \A name \in Request!Names \cap (Request!HopByHop \cup {"host"}) : fields'[name] = << >>
    BY <1>1, <1>2, BaseIs DEF Request!HopByHop
  <2>5. << host' >> = << Request!RequestHost(target)' >>
    BY <1>1, SameRequest
  <2>6. \A name \in Request!Names : fields'[name] = Base(name)' \o SaidBefore(name, k)'
    <3>1. ASSUME NEW name \in Request!Names PROVE fields'[name] = Base(name)' \o SaidBefore(name, k)'
      <4>1. Base(name) \in Seq(Shapes)
        BY <1>1, BaseIs
      <4>2. Base(name) \o << >> = Base(name)
        BY <4>1, ConcatEmptySeq
      <4> QED  BY <1>1, <1>2, <1>5, <4>2, SameRequest
    <3> QED  BY <3>1
  <2> QED  BY <1>5, <2>1, <2>2, <2>3, <2>4, <2>5, <2>6, Zenon DEF Built
<1> QED  BY <1>1, <1>4, <1>6 DEF RequestInv


\* The header buildMuxedRequest takes next, and what it adds to what is said.
LEMMA TakenIs ==
  ASSUME RequestInv, Request!Building
  PROVE  /\ Reading /\ Built /\ pc = "build" /\ k \in 1 .. Len(values) /\ headers = values
         /\ headers[k] \in Request!Options /\ ~Request!Malformed(headers[k])
         /\ suppressed = {d \in Request!Defaults : Request!Said(d) # {}}
         /\ \A name : k \in Request!Said(name) <=> name = Request!Name
         /\ \A name : Part(name)[k] = IF name = Request!Name /\ ~Request!Suppresses(headers[k])
                                      THEN << << headers[k].value >> >> ELSE << >>
<1>1. /\ Reading /\ Built /\ pc = "build" /\ k <= Len(headers) /\ k \in Nat /\ k >= 1
      /\ Len(headers) = Len(values) /\ Len(values) \in Nat
  BY DEF RequestInv, Request!Building, Reading, Built
<1>2. headers = values /\ suppressed = {d \in Request!Defaults : Request!Said(d) # {}}
  BY <1>1, AllRead
<1>3. k \in 1 .. Len(values) /\ DOMAIN values = 1 .. Len(values)
  BY <1>1 DEF Reading
<1>4. headers[k] \in Request!Options /\ ~Request!Malformed(headers[k])
  BY <1>1, <1>2, <1>3 DEF Reading
<1>5. \A name : k \in Request!Said(name) <=> name = Request!Name
  BY <1>2, <1>3, Zenon DEF Request!Said, Request!Says, Request!Name
<1>6. \A name : Part(name)[k] = IF name = Request!Name /\ ~Request!Suppresses(headers[k])
                                THEN << << headers[k].value >> >> ELSE << >>
  BY <1>2, <1>3, Zenon DEF Part, Request!Says, Request!Name
<1> QED  BY <1>1, <1>2, <1>3, <1>4, <1>5, <1>6

LEMMA AdvanceIs ==
  ASSUME RequestInv, Request!Building, Request!Advance
  PROVE  /\ pc' = "build" /\ k' = k + 1 /\ k' \in 1 .. Len(values') + 1
         /\ UNCHANGED <<target, values, headers, suppressed>>
         /\ lines' = Request!Lines'
         /\ \A name : SaidBefore(name, k)' = SaidBefore(name, k) \o Part(name)[k]
         /\ \A name : SaidBefore(name, k) \in Seq(Shapes)
         /\ \A name : Part(name)[k] = << >> => SaidBefore(name, k)' = SaidBefore(name, k)
         /\ fields' \in [Request!Names -> Seq(Shapes)] => Reading'
<1>1. /\ Reading /\ Built /\ pc = "build" /\ k \in 1 .. Len(values)
      /\ k' = k + 1 /\ UNCHANGED <<target, values, pc, headers, suppressed, lines>>
  BY TakenIs DEF Request!Advance
<1>2. k' \in 1 .. Len(values') + 1
  <2>1. Len(values) \in Nat
    BY <1>1 DEF Reading
  <2> QED  BY <1>1, <2>1
<1>3. lines' = Request!Lines'
  BY <1>1, SameRequest, Zenon DEF Built
<1>4. ASSUME NEW name
      PROVE  /\ SaidBefore(name, k)' = SaidBefore(name, k) \o Part(name)[k]
             /\ SaidBefore(name, k) \in Seq(Shapes)
             /\ Part(name)[k] = << >> => SaidBefore(name, k)' = SaidBefore(name, k)
  <2>1. SaidBefore(name, k)' = FlattenSeq(SubSeq(Part(name)', 1, k' - 1)) /\ Part(name)' = Part(name)
    BY <1>1, SameRequest, Zenon DEF SaidBefore
  <2>2. SaidBefore(name, k)' = SaidBefore(name, k + 1)
    BY <1>1, <2>1 DEF SaidBefore
  <2>3. SaidBefore(name, k + 1) = SaidBefore(name, k) \o Part(name)[k] /\ SaidBefore(name, k) \in Seq(Shapes)
    BY <1>1, BeforeStep
  <2>4. SaidBefore(name, k) \o << >> = SaidBefore(name, k)
    BY <2>3, ConcatEmptySeq
  <2> QED  BY <2>2, <2>3, <2>4, Zenon
<1>5. ASSUME fields' \in [Request!Names -> Seq(Shapes)] PROVE Reading'
  BY <1>1, <1>5, SameRequest, Zenon DEF Reading, Request!Malformed
<1> QED  BY <1>1, <1>2, <1>3, <1>4, <1>5

LEMMA TakeHostStep ==
  ASSUME RequestInv, Request!TakeHost
  PROVE  RequestInv'
<1>1. /\ Request!Building /\ Request!Advance /\ Request!Name = "host" /\ fields' = fields
      /\ host' = IF Request!Suppresses(headers[k]) THEN Request!RequestHost(target) ELSE << headers[k].value >>
  BY DEF Request!TakeHost
<1>2. Reading /\ Built
  BY <1>1, TakenIs
<1>3. Reading'
  BY <1>1, <1>2, AdvanceIs DEF Reading
<1>4. \A name : name # "host" => SaidBefore(name, k)' = SaidBefore(name, k)
  BY <1>1, TakenIs, AdvanceIs
<1>5. host' \in Shapes'
  <2>1. host' \in Shapes
    BY <1>1, <1>2, TakenIs, HeaderIs, BaseIs, Defaulted
  <2> QED  BY <1>1, <2>1, AdvanceIs, SameRequest
<1>6. ASSUME SaidOnce("host")
      PROVE  << host' >> = IF SaidBefore("host", k)' = << >> THEN << Request!RequestHost(target)' >>
                           ELSE SaidBefore("host", k)'
  <2>1. SaidBefore("host", k) = << >>
    <3>1. k \in Request!Said("host") /\ k \in 1 .. Len(values) /\ pc = "build"
      BY <1>1, TakenIs
    <3>2. \A a \in Request!Said("host") : a >= k
      <4>1. \A a \in Request!Said("host") : a = k
        BY <1>6, <3>1 DEF SaidOnce
      <4> QED  BY <3>1, <4>1
    <3> QED  BY <1>2, <3>1, <3>2, BeforeStep
  <2>2. SaidBefore("host", k)' = << >> \o Part("host")[k]
    BY <1>1, <2>1, AdvanceIs
  <2>3. CASE Request!Suppresses(headers[k])
    <3>1. Part("host")[k] = << >>
      BY <1>1, <2>3, TakenIs
    <3> QED  BY <1>1, <2>2, <2>3, <3>1, AdvanceIs, SameRequest, ConcatEmptySeq
  <2>4. CASE ~Request!Suppresses(headers[k])
    <3>1. Part("host")[k] = << << headers[k].value >> >>
      BY <1>1, <2>4, TakenIs
    <3> DEFINE v == << headers[k].value >>
    <3>2. << >> \o << v >> = << v >> /\ << v >> # << >>
      OBVIOUS
    <3>3. SaidBefore("host", k)' = << v >> /\ host' = v
      BY <1>1, <2>2, <2>4, <3>1, <3>2
    <3> HIDE DEF v
    <3> QED  BY <3>2, <3>3
  <2> QED  BY <2>3, <2>4
<1>7. \A name \in Request!Names \ (Request!HopByHop \cup {"host"}) :
        (name = "user-agent" => SaidOnce(name)) => fields'[name] = Base(name)' \o SaidBefore(name, k)'
  <2>1. \A name : Base(name)' = Base(name)
    BY <1>1, AdvanceIs, SameRequest
  <2> QED  BY <1>1, <1>2, <1>4, <2>1, Zenon DEF Built
<1>8. Built'
  <2>1. k' \in 1 .. Len(values') + 1 /\ lines' = Request!Lines' /\ \A name : SaidOnce(name)' = SaidOnce(name)
    BY <1>1, AdvanceIs, SameRequest
  <2> QED  BY <1>1, <1>2, <1>5, <1>6, <1>7, <2>1, Zenon DEF Built
<1> QED  BY <1>1, <1>3, <1>8, AdvanceIs DEF RequestInv


\* A header of another name than Host leaves what is known of the host.
LEMMA HostStays ==
  ASSUME RequestInv, Request!Building, Request!Advance, Request!Name # "host", host' = host
  PROVE  /\ host' \in Shapes'
         /\ SaidOnce("host")' =>
              << host' >> = IF SaidBefore("host", k)' = << >> THEN << Request!RequestHost(target)' >>
                            ELSE SaidBefore("host", k)'
<1>1. Part("host")[k] = << >> /\ Built
  BY TakenIs
<1>2. /\ SaidBefore("host", k)' = SaidBefore("host", k) /\ SaidOnce("host")' = SaidOnce("host")
      /\ Shapes' = Shapes /\ Request!RequestHost(target)' = Request!RequestHost(target)
  BY <1>1, AdvanceIs, SameRequest
<1> QED  BY <1>1, <1>2, Zenon DEF Built

LEMMA DropStep ==
  ASSUME RequestInv, Request!Drop
  PROVE  RequestInv'
<1>1. /\ Request!Building /\ Request!Advance /\ Request!Name # "host" /\ fields' = fields /\ host' = host
      /\ Request!Dropped(headers[k])
  BY DEF Request!Drop
<1>2. Reading /\ Built
  BY <1>1, TakenIs
<1>3. Reading'
  BY <1>1, <1>2, AdvanceIs DEF Reading
<1>4. \A name : name \notin Request!HopByHop => SaidBefore(name, k)' = SaidBefore(name, k)
  <2>1. \A name : name \notin Request!HopByHop => Part(name)[k] = << >>
    BY <1>1, TakenIs DEF Request!Dropped, Request!Name
  <2> QED  BY <1>1, <2>1, AdvanceIs
<1>5. Built'
  <2>1. k' \in 1 .. Len(values') + 1 /\ lines' = Request!Lines'
    BY <1>1, AdvanceIs
  <2>2. \A name : SaidOnce(name)' = SaidOnce(name) /\ Base(name)' = Base(name)
    BY <1>1, AdvanceIs, SameRequest
  <2>3. \A name \in Request!Names \ (Request!HopByHop \cup {"host"}) :
          (name = "user-agent" => SaidOnce(name)) => fields'[name] = Base(name)' \o SaidBefore(name, k)'
    BY <1>1, <1>2, <1>4, <2>2, Zenon DEF Built
  <2> QED  BY <1>1, <1>2, <2>1, <2>2, <2>3, HostStays, Zenon DEF Built
<1> QED  BY <1>1, <1>3, <1>5, AdvanceIs DEF RequestInv

LEMMA AddFieldStep ==
  ASSUME RequestInv, Request!AddField
  PROVE  RequestInv'
<1>0. PICK m, v : m = Request!Name /\ v = << headers[k].value >>
  OBVIOUS
<1>1. /\ Request!Building /\ Request!Advance /\ m # "host" /\ host' = host
      /\ m \notin Request!HopByHop /\ ~Request!Suppresses(headers[k])
      /\ fields' = [fields EXCEPT ![m] = IF m = "user-agent" THEN << v >> ELSE Append(fields[m], v)]
  BY <1>0 DEF Request!AddField, Request!Dropped, Request!Name, Request!NewValues
<1>2. /\ Reading /\ Built /\ k \in 1 .. Len(values) /\ pc = "build"
      /\ \A name : k \in Request!Said(name) <=> name = m
      /\ \A name : name # m => Part(name)[k] = << >>
      /\ Part(m)[k] = << v >> /\ m \in Request!Names /\ v \in Shapes
      /\ suppressed = {d \in Request!Defaults : Request!Said(d) # {}}
  <2>1. m \in Request!Names /\ v \in Shapes
    BY <1>0, <1>1, TakenIs, HeaderIs DEF Request!Name
  <2> QED  BY <1>0, <1>1, <2>1, TakenIs
<1>3. /\ fields \in [Request!Names -> Seq(Shapes)] /\ << v >> \in Seq(Shapes)
      /\ Append(fields[m], v) \in Seq(Shapes)
  <2>1. fields[m] \in Seq(Shapes)
    BY <1>2 DEF Reading
  <2> QED  BY <1>2, <2>1 DEF Reading
<1>4. fields' \in [Request!Names -> Seq(Shapes)]
  BY <1>1, <1>3
<1>5. Reading'
  BY <1>1, <1>4, AdvanceIs
<1>6. \A name : name # m => SaidBefore(name, k)' = SaidBefore(name, k)
  BY <1>1, <1>2, AdvanceIs
<1>7. \A name \in Request!Names : name # m => fields'[name] = fields[name]
  BY <1>1, <1>3
<1>8. fields'[m] = IF m = "user-agent" THEN << v >> ELSE Append(fields[m], v)
  BY <1>1, <1>2, <1>3
<1>9. SaidBefore(m, k)' = SaidBefore(m, k) \o << v >> /\ SaidBefore(m, k) \in Seq(Shapes)
  BY <1>1, <1>2, AdvanceIs
<1>10. ASSUME m = "user-agent" => SaidOnce(m) PROVE fields'[m] = Base(m) \o SaidBefore(m, k)'
  <2>1. CASE m = "user-agent"
    <3>1. \A a \in Request!Said(m) : a >= k
      <4>1. \A a \in Request!Said(m) : a = k
        BY <1>2, <1>10, <2>1, Zenon DEF SaidOnce
      <4> QED  BY <1>2, <4>1
    <3>2. SaidBefore(m, k) = << >>
      BY <1>2, <3>1, BeforeStep
    <3>3. Base(m) = << >>
      <4>1. m \in suppressed
        BY <1>2, <2>1 DEF Request!Defaults
      <4> QED  BY <2>1, <4>1, Zenon DEF Base
    <3>4. << >> \o (<< >> \o << v >>) = << v >>
      BY <1>3, ConcatEmptySeq
    <3> QED  BY <1>8, <1>9, <2>1, <3>2, <3>3, <3>4
  <2>2. CASE m # "user-agent"
    <3>1. fields[m] = Base(m) \o SaidBefore(m, k)
      BY <1>1, <1>2, <2>2, Zenon DEF Built
    <3>2. Base(m) \in Seq(Shapes)
      BY <1>2, BaseIs
    <3>4. Append(Base(m) \o SaidBefore(m, k), v) = Base(m) \o (SaidBefore(m, k) \o << v >>)
      BY <1>2, <1>9, <3>2, AppendJoin, Zenon
    <3> QED  BY <1>8, <1>9, <2>2, <3>1, <3>4, Zenon
  <2> QED  BY <2>1, <2>2
<1>11. Built'
  <2>1. k' \in 1 .. Len(values') + 1 /\ lines' = Request!Lines'
    BY <1>1, AdvanceIs
  <2>2. \A name : SaidOnce(name)' = SaidOnce(name) /\ Base(name)' = Base(name)
    BY <1>1, AdvanceIs, SameRequest
  <2>3. ASSUME NEW name \in Request!Names \ (Request!HopByHop \cup {"host"}),
               name = "user-agent" => SaidOnce(name)
        PROVE  fields'[name] = Base(name)' \o SaidBefore(name, k)'
    <3>1. CASE name = m
      BY <1>10, <2>2, <2>3, <3>1
    <3>2. CASE name # m
      <4>1. fields'[name] = fields[name] /\ SaidBefore(name, k)' = SaidBefore(name, k)
        BY <1>6, <1>7, <3>2, Zenon
      <4>2. fields[name] = Base(name) \o SaidBefore(name, k)
        BY <1>2, <2>3, Zenon DEF Built
      <4> QED  BY <2>2, <4>1, <4>2, Zenon
    <3> QED  BY <3>1, <3>2
  <2>4. \A name \in Request!Names \cap (Request!HopByHop \cup {"host"}) : fields'[name] = << >>
    <3>1. ASSUME NEW name \in Request!Names \cap (Request!HopByHop \cup {"host"}) PROVE fields'[name] = << >>
      <4>1. name # m /\ fields[name] = << >>
        BY <1>1, <1>2, Zenon DEF Built
      <4> QED  BY <1>7, <4>1
    <3> QED  BY <3>1
  <2>5. m # "host" /\ m = Request!Name
    BY <1>0, <1>1
  <2> QED  BY <1>1, <2>1, <2>2, <2>3, <2>4, <2>5, HostStays, Zenon DEF Built
<1> QED  BY <1>1, <1>5, <1>11, AdvanceIs DEF RequestInv


LEMMA RequestStarts ==
  ASSUME Request!Init
  PROVE  RequestInv
<1>1. /\ pc = "parse" /\ headers = << >> /\ suppressed = {} /\ k = 1
      /\ fields = [name \in Request!Names |-> << >>]
  BY DEF Request!Init
<1>2. values \in Seq(Request!Options)
  <2>1. PICK m \in 0 .. MaxHeaders : values \in [1 .. m -> Request!Options]
    <3>1. values \in Request!BoundedSeq(Request!Options, MaxHeaders)
      BY DEF Request!Init
    <3> QED  BY <3>1 DEF Request!BoundedSeq, Request!SeqOf
  <2> QED  BY <2>1
<1>3. fields \in [Request!Names -> Seq(Shapes)]
  <2>1. << >> \in Seq(Shapes)
    OBVIOUS
  <2> QED  BY <1>1, <2>1
<1>4. Len(headers) <= Len(values) /\ headers \in Seq(Request!Options) /\ DOMAIN headers = {}
  BY <1>1, <1>2
<1>5. Reading
  BY <1>1, <1>2, <1>3, <1>4 DEF Reading
<1> QED  BY <1>1, <1>5 DEF RequestInv

LEMMA RequestMoves ==
  ASSUME RequestInv, Request!Next
  PROVE  RequestInv'
<1>1. CASE Request!ParseHeader
  <2>1. Reading' /\ pc' = "parse" /\ k' = 1
    BY <1>1, ReadingStep DEF Request!ParseHeader, RequestInv
  <2> QED  BY <2>1 DEF RequestInv
<1>2. CASE Request!BadHeader
  <2>1. pc' = "rejected" /\ UNCHANGED <<target, values, headers, suppressed, fields>>
    BY <1>2 DEF Request!BadHeader
  <2>2. Reading'
    BY <2>1, SameRequest, Zenon DEF RequestInv, Reading, Request!Malformed
  <2> QED  BY <2>1, <2>2 DEF RequestInv
<1>3. CASE Request!Built
  <2>1. /\ pc = "build" /\ pc' = "done" /\ trace' = Request!Trace
        /\ UNCHANGED <<target, values, headers, suppressed, lines, k, host, fields>>
        /\ ~(k <= Len(headers))
    BY <1>3 DEF Request!Built, Request!Building
  <2>2. Reading /\ Built
    BY <2>1 DEF RequestInv
  <2>3. k' = Len(values') + 1
    BY <2>1, <2>2 DEF Reading, Built
  <2>4. Reading'
    BY <2>1, <2>2, SameRequest, Zenon DEF Reading, Request!Malformed
  <2>5. Built'
    <3>1. \A name : SaidBefore(name, k)' = SaidBefore(name, k)
      <4>1. ASSUME NEW name PROVE SaidBefore(name, k)' = SaidBefore(name, k)
        <5>1. Part(name)' = Part(name)
          BY <2>1, SameRequest
        <5> QED  BY <2>1, <5>1, Zenon DEF SaidBefore
      <4> QED  BY <4>1
    <3> QED  BY <2>1, <2>2, <3>1, SameRequest, Zenon DEF Built
  <2>6. Request!Trace' = Request!Trace
    BY <2>1, Zenon DEF Request!Trace, Request!FieldLines
  <2> QED  BY <2>1, <2>3, <2>4, <2>5, <2>6 DEF RequestInv
<1> QED  BY <1>1, <1>2, <1>3, SerializeStep, TakeHostStep, DropStep, AddFieldStep DEF Request!Next

LEMMA RequestStays ==
  ASSUME RequestInv, UNCHANGED <<pc, ofRequest>>
  PROVE  RequestInv'
<1>1. UNCHANGED <<target, values, pc, headers, suppressed, lines, k, host, fields, trace>>
  BY DEF ofRequest
<1>2. Reading'
  BY <1>1, SameRequest, Zenon DEF RequestInv, Reading, Request!Malformed
<1>3. \A name : SaidBefore(name, k)' = SaidBefore(name, k)
  <2>1. ASSUME NEW name PROVE SaidBefore(name, k)' = SaidBefore(name, k)
    <3>1. Part(name)' = Part(name)
      BY <1>1, SameRequest
    <3> QED  BY <1>1, <3>1, Zenon DEF SaidBefore
  <2> QED  BY <2>1
<1>4. Built => Built'
  BY <1>1, <1>3, SameRequest, Zenon DEF Built
<1>5. Request!Trace' = Request!Trace
  BY <1>1, Zenon DEF Request!Trace, Request!FieldLines
<1> QED  BY <1>1, <1>2, <1>4, <1>5, Zenon DEF RequestInv


-----------------------------------------------------------------------------
(* What is seen of a name: picking its values from a list is a FlatMap.      *)

LEMMA PickIs ==
  ASSUME NEW name
  PROVE  /\ Pick(name) \in [Pairs -> Seq(Shapes)]
         /\ \A p \in Pairs : Pick(name)[p] = IF p[1] = name THEN << p[2] >> ELSE << >>
         /\ \A list \in Seq(Pairs) : Request!ValuesIn(list, name) = FlatMap(Pick(name), list)
<1>1. \A p \in Pairs : Pick(name)[p] = IF p[1] = name THEN << p[2] >> ELSE << >>
  BY DEF Pick
<1>2. \A p \in Pairs : Pick(name)[p] \in Seq(Shapes)
  <2>1. \A v \in Shapes : << v >> \in Seq(Shapes)
    OBVIOUS
  <2>2. << >> \in Seq(Shapes)
    OBVIOUS
  <2>3. \A p \in Pairs : p[2] \in Shapes
    BY DEF Pairs
  <2> QED  BY <1>1, <2>1, <2>2, <2>3, Zenon
<1>3. Pick(name) \in [Pairs -> Seq(Shapes)]
  BY <1>2 DEF Pick
<1>4. ASSUME NEW list \in Seq(Pairs) PROVE Request!ValuesIn(list, name) = FlatMap(Pick(name), list)
  <2>1. \A m \in DOMAIN list : list[m] \in Pairs
    <3> HIDE DEF Pairs
    <3> QED  OBVIOUS
  <2>2. [m \in DOMAIN list |-> IF list[m][1] = name THEN << list[m][2] >> ELSE << >>]
          = [m \in DOMAIN list |-> Pick(name)[list[m]]]
    BY <1>1, <2>1, Zenon
  <2>3. Request!ValuesIn(list, name)
          = FlattenSeq([m \in DOMAIN list |-> IF list[m][1] = name THEN << list[m][2] >> ELSE << >>])
    BY Zenon DEF Request!ValuesIn, Request!FlattenSeq, FlattenSeq
  <2> QED  BY <2>2, <2>3, Zenon DEF FlatMap
<1> QED  BY <1>1, <1>3, <1>4

\* A single line, and none.
LEMMA PickOne ==
  ASSUME NEW name, NEW name1 \in Request!Names, NEW v \in Shapes
  PROVE  /\ << <<name1, v>> >> \in Seq(Pairs) /\ << >> \in Seq(Pairs)
         /\ FlatMap(Pick(name), << <<name1, v>> >>) = IF name1 = name THEN << v >> ELSE << >>
         /\ FlatMap(Pick(name), << >>) = << >>
<1>1. <<name1, v>> \in Pairs
  BY DEF Pairs
<1> DEFINE p == <<name1, v>>
<1>2. p \in Pairs /\ p[1] = name1 /\ p[2] = v
  BY <1>1
<1> HIDE DEF p
<1>3. << p >> \in Seq(Pairs) /\ << >> \in Seq(Pairs)
  BY <1>2
<1>4. FlatMap(Pick(name), << p >>) = Pick(name)[p] /\ FlatMap(Pick(name), << >>) = << >>
  BY <1>2, PickIs, FlatMapEnds
<1>5. Pick(name)[p] = IF name1 = name THEN << v >> ELSE << >>
  BY <1>2, PickIs
<1> QED  BY <1>3, <1>4, <1>5 DEF p

LEMMA PickJoins ==
  ASSUME NEW name
  PROVE  /\ \A a, b \in Seq(Pairs) :
              FlatMap(Pick(name), a \o b) = FlatMap(Pick(name), a) \o FlatMap(Pick(name), b)
         /\ \A lists \in Seq(Seq(Pairs)) :
              FlatMap(Pick(name), FlattenSeq(lists))
                = FlattenSeq([m \in DOMAIN lists |-> FlatMap(Pick(name), lists[m])])
<1> DEFINE A == Pairs
           S == Shapes
<1>0. PICK h : h = Pick(name)
  OBVIOUS
<1>1. h \in [A -> Seq(S)]
  BY <1>0, PickIs
<1> HIDE DEF A, S
<1>2. \A a, b \in Seq(A) : FlatMap(h, a \o b) = FlatMap(h, a) \o FlatMap(h, b)
  BY <1>1, FlatMapJoin
<1>3. \A lists \in Seq(Seq(A)) : FlatMap(h, FlattenSeq(lists)) = FlattenSeq([m \in DOMAIN lists |-> FlatMap(h, lists[m])])
  <2>1. ASSUME NEW f \in [A -> Seq(S)]
        PROVE  \A lists \in Seq(Seq(A)) : FlatMap(f, FlattenSeq(lists)) = FlattenSeq([m \in DOMAIN lists |-> FlatMap(f, lists[m])])
    BY FlatMapFlatten
  <2> QED  BY <1>1, <2>1, Zenon
<1> QED  BY <1>0, <1>2, <1>3, Zenon DEF A

\* HTTP/1.1: the default lines and those of the options, picked one after another.
LEMMA SeenIs ==
  ASSUME Reading, pc \in {"build", "done"}, NEW name \in Request!Names
  PROVE  Request!ValuesIn(Request!Lines, name) = Request!Wanted(name)
<1> DEFINE h == Pick(name)
           g(d, v) == Request!Generated(d, v)
           sent == [m \in DOMAIN headers |-> Request!Sent(headers[m])]
           a == g("host", Request!RequestHost(target))
           b == g("user-agent", << Agent >>)
           c == g("accept", << Everything >>)
           B == Seq(Pairs)
           N == Len(values)
<1>1. /\ headers = values /\ suppressed = {d \in Request!Defaults : Request!Said(d) # {}}
      /\ N \in Nat /\ DOMAIN values = 1 .. N
  <2>1. Len(headers) = Len(values)
    BY DEF Reading
  <2> QED  BY <2>1, AllRead, PartIs
<1>2. h \in [Pairs -> Seq(Shapes)]
  BY PickIs
<1>3. ASSUME NEW d \in Request!Names, NEW v \in Shapes
      PROVE  g(d, v) \in B /\ FlatMap(h, g(d, v)) = IF d = name /\ d \notin suppressed THEN << v >> ELSE << >>
  BY PickOne, Zenon DEF Request!Generated
<1>4. ASSUME NEW m \in 1 .. N
      PROVE  sent[m] \in B /\ FlatMap(h, sent[m]) = Part(name)[m]
  <2>1. headers[m] \in Request!Options /\ ~Request!Malformed(headers[m]) /\ headers[m] = values[m]
    BY <1>1 DEF Reading
  <2>2. sent[m] = IF Request!Suppresses(values[m]) THEN << >>
                  ELSE << << Lower[values[m].name], << values[m].value >> >> >>
    BY <1>1, Zenon DEF Request!Sent
  <2>3. CASE Request!Suppresses(values[m])
    <3>1. Part(name)[m] = << >>
      BY <1>1, <2>3, Zenon DEF Part
    <3>2. Request!RequestHost(target) \in Shapes
      BY BaseIs
    <3> QED  BY <2>2, <2>3, <3>1, <3>2, PickOne, Zenon
  <2>4. CASE ~Request!Suppresses(values[m])
    <3> DEFINE n1 == Lower[values[m].name]
               v == << values[m].value >>
    <3>1. Part(name)[m] = IF n1 = name THEN << v >> ELSE << >>
      BY <1>1, <2>4, Zenon DEF Part, Request!Says
    <3>2. n1 \in Request!Names /\ v \in Shapes
      BY <2>1, <2>4, HeaderIs
    <3>3. sent[m] = << << n1, v >> >>
      BY <2>2, <2>4
    <3> HIDE DEF n1, v, sent
    <3> QED  BY <3>1, <3>2, <3>3, PickOne, ZenonT(60)
  <2> QED  BY <2>3, <2>4
<1>5. a \in B /\ b \in B /\ c \in B
  BY <1>3, BaseIs, Defaulted, Zenon DEF Shapes
<1>6. sent \in Seq(B) /\ DOMAIN sent = 1 .. N
  <2>1. sent \in [1 .. N -> B]
    <3>1. DOMAIN headers = 1 .. N
      BY <1>1
    <3> HIDE DEF B
    <3> QED  BY <1>4, <3>1
  <2> QED  BY <1>1, <2>1, SeqDef
<1>7. FlattenSeq(sent) \in B
  BY <1>6, FlattenType
<1>8. Request!Lines = a \o b \o c \o FlattenSeq(sent)
  BY Zenon DEF Request!Lines, Request!FlattenSeq, FlattenSeq
<1>9. FlatMap(h, FlattenSeq(sent)) = Request!SaidValues(name)
  <2>1. FlatMap(h, FlattenSeq(sent)) = FlattenSeq([m \in DOMAIN sent |-> FlatMap(h, sent[m])])
    <3> HIDE DEF sent, h
    <3> QED  BY <1>6, PickJoins, Zenon DEF h
  <2>2. Part(name) = [m \in 1 .. N |-> Part(name)[m]]
    BY <1>1, Zenon DEF Part
  <2>3. [m \in DOMAIN sent |-> FlatMap(h, sent[m])] = Part(name)
    <3> HIDE DEF h, sent
    <3> QED  BY <1>4, <1>6, <2>2, Zenon
  <2> QED  BY <2>1, <2>3, PartIs
<1> DEFINE s == FlattenSeq(sent)
           S == Seq(Shapes)
<1>10. /\ FlatMap(h, a \o b \o c \o s) = FlatMap(h, a) \o FlatMap(h, b) \o FlatMap(h, c) \o FlatMap(h, s)
       /\ Request!ValuesIn(a \o b \o c \o s, name) = FlatMap(h, a \o b \o c \o s)
  <2> HIDE DEF a, b, c, s, h
  <2>1. a \o b \in B /\ a \o b \o c \in B /\ a \o b \o c \o s \in B /\ s \in B
    <3>1. ASSUME NEW x \in B, NEW y \in B PROVE x \o y \in B
      OBVIOUS
    <3> HIDE DEF B
    <3> QED  BY <1>5, <1>7, <3>1, Zenon DEF s
  <2>2. \A x, y \in B : FlatMap(h, x \o y) = FlatMap(h, x) \o FlatMap(h, y)
    BY PickJoins, Zenon DEF h
  <2>3. \A x \in B : Request!ValuesIn(x, name) = FlatMap(h, x)
    BY PickIs, Zenon DEF h
  <2> HIDE DEF B
  <2>4. FlatMap(h, a \o b) = FlatMap(h, a) \o FlatMap(h, b)
    BY <1>5, <2>2, Zenon
  <2>5. FlatMap(h, a \o b \o c) = FlatMap(h, a \o b) \o FlatMap(h, c)
    BY <1>5, <2>1, <2>2, Zenon
  <2>6. FlatMap(h, a \o b \o c \o s) = FlatMap(h, a \o b \o c) \o FlatMap(h, s)
    BY <2>1, <2>2, Zenon
  <2> QED  BY <2>1, <2>3, <2>4, <2>5, <2>6, Zenon
<1>11. Request!SaidValues(name) \in S
  BY PartIs, FlattenType
<1>12. Request!Said(name) = {} => Request!SaidValues(name) = << >>
  <2> SUFFICES ASSUME Request!Said(name) = {} PROVE FlattenSeq(Part(name)) = << >>
    BY PartIs
  <2>1. Part(name) \in Seq(Seq(Shapes)) /\ Len(Part(name)) = N /\ \A m \in 1 .. N : Part(name)[m] = << >>
    BY PartIs
  <2>2. Part(name) \in Seq({<< >>})
    <3>1. DOMAIN Part(name) = 1 .. N /\ Part(name) = [m \in 1 .. N |-> Part(name)[m]]
      BY <1>1, Zenon DEF Part
    <3>2. Part(name) \in [1 .. N -> {<< >>}]
      BY <2>1, <3>1
    <3> QED  BY <1>1, <3>2, SeqDef
  <2> QED  BY <2>2, FlattenOfEmpties
<1>13. /\ FlatMap(h, a) = IF name = "host" /\ name \notin suppressed THEN << Request!RequestHost(target) >> ELSE << >>
       /\ FlatMap(h, b) = IF name = "user-agent" /\ name \notin suppressed THEN << << Agent >> >> ELSE << >>
       /\ FlatMap(h, c) = IF name = "accept" /\ name \notin suppressed THEN << << Everything >> >> ELSE << >>
  <2>1. << Agent >> \in Shapes /\ << Everything >> \in Shapes /\ Request!RequestHost(target) \in Shapes
    BY Zenon DEF Shapes
  <2> HIDE DEF h, g
  <2> QED  BY <1>3, <2>1, Defaulted, Zenon DEF a, b, c
<1> DEFINE x == FlatMap(h, a)
           y == FlatMap(h, b)
           z == FlatMap(h, c)
           t == Request!SaidValues(name)
<1>14. Request!ValuesIn(Request!Lines, name) = x \o y \o z \o t
  BY <1>8, <1>9, <1>10, Zenon
<1>15. x \in S /\ y \in S /\ z \in S
  BY <1>2, <1>5, FlatMapType
<1>16. name \in suppressed <=> name \in {"host", "user-agent", "accept"} /\ Request!Said(name) # {}
  BY <1>1 DEF Request!Defaults
<1> HIDE DEF x, y, z, t, S
<1>17. ASSUME NEW u \in S PROVE u \o << >> = u /\ << >> \o u = u
  BY ConcatEmptySeq DEF S
<1>18. CASE Request!Said(name) # {}
  <2>1. x = << >> /\ y = << >> /\ z = << >>
    BY <1>13, <1>16, <1>18 DEF x, y, z
  <2>2. << >> \in S
    BY DEF S
  <2>3. x \o y \o z \o t = t
    BY <1>11, <1>17, <2>1, <2>2 DEF t
  <2> QED  BY <1>14, <1>18, <2>3 DEF Request!Wanted, t
<1>19. CASE Request!Said(name) = {}
  <2>1. t = << >> /\ << >> \in S
    BY <1>12, <1>19 DEF S, t
  <2>2. x \o y \o z \o t = IF name = "host" THEN x ELSE IF name = "user-agent" THEN y ELSE z
    BY <1>13, <1>15, <1>17, <2>1 DEF x, y, z
  <2>3. (IF name = "host" THEN x ELSE IF name = "user-agent" THEN y ELSE z) = Request!DefaultValue(name)
    BY <1>13, <1>16, <1>19 DEF x, y, z, Request!DefaultValue
  <2> QED  BY <1>14, <1>19, <2>2, <2>3 DEF Request!Wanted
<1> QED  BY <1>18, <1>19


\* A field of the stream, and its lines in the trace.
LEMMA FieldLinesIs ==
  ASSUME Reading, NEW name, NEW name1 \in Request!Names
  PROVE  /\ Request!FieldLines(name1) \in Seq(Pairs)
         /\ FlatMap(Pick(name), Request!FieldLines(name1)) = IF name1 = name THEN fields[name1] ELSE << >>
<1> DEFINE s == fields[name1]
           L == [m \in DOMAIN s |-> <<name1, s[m]>>]
           N == Len(s)
<1>1. s \in Seq(Shapes)
  BY DEF Reading
<1>2. Request!FieldLines(name1) = L
  BY Zenon DEF Request!FieldLines
<1> HIDE DEF s
<1>3. N \in Nat /\ DOMAIN s = 1 .. N /\ \A m \in 1 .. N : s[m] \in Shapes
  BY <1>1
<1>4. \A m \in 1 .. N : L[m] = <<name1, s[m]>> /\ L[m] \in Pairs
  BY <1>3 DEF Pairs
<1>5. L \in Seq(Pairs) /\ DOMAIN L = 1 .. N
  <2>1. L \in [1 .. N -> Pairs]
    BY <1>3, <1>4
  <2> QED  BY <1>3, <2>1, SeqDef
<1>6. FlatMap(Pick(name), L) = FlattenSeq([m \in DOMAIN L |-> IF name1 = name THEN << s[m] >> ELSE << >>])
  <2>1. \A m \in 1 .. N : L[m][1] = name1 /\ L[m][2] = s[m]
    BY <1>4
  <2>2. \A m \in 1 .. N : Pick(name)[L[m]] = IF name1 = name THEN << s[m] >> ELSE << >>
    <3>1. \A p \in Pairs : Pick(name)[p] = IF p[1] = name THEN << p[2] >> ELSE << >>
      BY PickIs
    <3> HIDE DEF L
    <3> QED  BY <1>4, <2>1, <3>1
  <2> HIDE DEF L
  <2> QED  BY <1>5, <2>2, Zenon DEF FlatMap
<1> HIDE DEF L
<1>7. CASE name1 = name
  <2>1. FlatMap(Pick(name), L) = FlattenSeq([m \in DOMAIN s |-> << s[m] >>])
    BY <1>3, <1>5, <1>6, <1>7, Zenon
  <2>2. FlattenSeq([m \in DOMAIN s |-> << s[m] >>]) = s
    BY <1>1, FlattenSingletons
  <2> QED  BY <1>2, <1>5, <1>7, <2>1, <2>2 DEF s, L
<1>8. CASE name1 # name
  <2> DEFINE e == [m \in DOMAIN L |-> << >>]
  <2>1. FlatMap(Pick(name), L) = FlattenSeq(e)
    BY <1>6, <1>8, Zenon
  <2>2. e \in [1 .. N -> {<< >>}]
    BY <1>5
  <2>3. e \in Seq({<< >>})
    BY <1>3, <2>2, SeqDef
  <2> HIDE DEF e
  <2>4. FlattenSeq(e) = << >>
    BY <2>3, FlattenOfEmpties
  <2> QED  BY <1>2, <1>5, <1>8, <2>1, <2>4 DEF L
<1> QED  BY <1>7, <1>8

\* What the trace shows of a name is what the stream has of it: the names that
\* are not shown first are each listed once.
LEMMA ShownIs ==
  ASSUME Reading, host \in Shapes, fields["host"] = << >>, NEW name \in Request!Names
  PROVE  Request!ValuesIn(Request!Trace, name) = Request!SeenOnStream(name)
<1> DEFINE h == Pick(name)
           B == Seq(Pairs)
           S == Seq(Shapes)
           list == SetToSeq(Request!Rest)
           N == Len(list)
           parts == [m \in DOMAIN list |-> Request!FieldLines(list[m])]
           a == << <<"host", host>> >>
           b == Request!FieldLines("user-agent")
           c == Request!FieldLines("accept")
           s == FlattenSeq(parts)
<1>1. IsFiniteSet(Request!Rest)
  <2>1. IsFiniteSet({Lower[x] : x \in Spellings})
    <3> DEFINE f == [x \in Spellings |-> Lower[x]]
    <3>1. f \in Surjection(Spellings, {Lower[x] : x \in Spellings})
      BY DEF Surjection
    <3> HIDE DEF f
    <3>2. IsFiniteSet(Spellings)
      BY RequestAssumption, Zenon DEF Request!RequestHeadersAssumption, Request!IsFiniteSet, IsFiniteSet
    <3> QED  BY <3>1, <3>2, FS_Surjection, Zenon
  <2>2. Request!Rest \subseteq {Lower[x] : x \in Spellings}
    BY DEF Request!Rest, Request!Names
  <2> QED  BY <2>1, <2>2, FS_Subset
<1>2. /\ list \in Seq(Request!Rest) /\ \A x \in Request!Rest : \E m \in 1 .. N : list[m] = x
      /\ \A m, m1 \in 1 .. N : list[m] = list[m1] => m = m1
  BY <1>1, ListedOnce
<1> HIDE DEF list
<1>3. N \in Nat /\ DOMAIN list = 1 .. N /\ \A m \in 1 .. N : list[m] \in Request!Rest
  BY <1>2
<1>4. \A m \in 1 .. N : list[m] \in Request!Names /\ list[m] \notin Request!Defaults
  BY <1>3 DEF Request!Rest
<1>5. ASSUME NEW m \in 1 .. N
      PROVE  parts[m] \in B /\ FlatMap(h, parts[m]) = IF list[m] = name THEN fields[list[m]] ELSE << >>
  <2>1. parts[m] = Request!FieldLines(list[m])
    BY <1>3
  <2> QED  BY <1>4, <2>1, FieldLinesIs
<1>6. parts \in Seq(B) /\ DOMAIN parts = 1 .. N
  <2> HIDE DEF B
  <2>1. parts \in [1 .. N -> B]
    BY <1>3, <1>5
  <2> QED  BY <1>3, <2>1, SeqDef
<1>7. s \in B
  BY <1>6, FlattenType
<1>8. /\ a \in B /\ FlatMap(h, a) = IF "host" = name THEN << host >> ELSE << >>
      /\ b \in B /\ FlatMap(h, b) = IF "user-agent" = name THEN fields[name] ELSE << >>
      /\ c \in B /\ FlatMap(h, c) = IF "accept" = name THEN fields[name] ELSE << >>
  <2>1. "host" \in Request!Names /\ "user-agent" \in Request!Names /\ "accept" \in Request!Names
    BY Defaulted
  <2>2. a \in B /\ FlatMap(h, a) = IF "host" = name THEN << host >> ELSE << >>
    BY <2>1, PickOne, Zenon
  <2>3. b \in B /\ FlatMap(h, b) = IF "user-agent" = name THEN fields[name] ELSE << >>
    BY <2>1, FieldLinesIs, Zenon
  <2>4. c \in B /\ FlatMap(h, c) = IF "accept" = name THEN fields[name] ELSE << >>
    BY <2>1, FieldLinesIs, Zenon
  <2> QED  BY <2>2, <2>3, <2>4
<1> DEFINE picked == [m \in DOMAIN parts |-> FlatMap(h, parts[m])]
<1>9. FlatMap(h, s) = FlattenSeq(picked)
  <2> HIDE DEF parts
  <2> QED  BY <1>6, PickJoins, Zenon
<1>10. fields[name] \in S
  BY DEF Reading
<1>11. /\ picked \in Seq(S) /\ Len(picked) = N
       /\ \A m \in 1 .. N : picked[m] = IF list[m] = name THEN fields[name] ELSE << >>
  <2> HIDE DEF parts, h
  <2>1. \A m \in 1 .. N : picked[m] = IF list[m] = name THEN fields[name] ELSE << >>
    BY <1>5, <1>6
  <2>2. << >> \in S
    OBVIOUS
  <2> HIDE DEF S
  <2>3. \A m \in 1 .. N : picked[m] \in S
    BY <1>10, <2>1, <2>2
  <2>4. DOMAIN picked = 1 .. N /\ picked = [m \in 1 .. N |-> picked[m]]
    BY <1>6
  <2> HIDE DEF picked
  <2>5. picked \in [1 .. N -> S]
    BY <2>3, <2>4
  <2> QED  BY <1>3, <2>1, <2>5, SeqDef, LenProperties
<1> HIDE DEF picked
<1>12. FlattenSeq(picked) = IF name \in Request!Rest THEN fields[name] ELSE << >>
  <2>1. CASE name \in Request!Rest
    <3>1. PICK m \in 1 .. N : list[m] = name
      BY <1>2, <2>1
    <3>2. \A m1 \in 1 .. N : m1 # m => list[m1] # name
      BY <1>2, <3>1
    <3>3. picked[m] = fields[name] /\ \A m1 \in 1 .. Len(picked) : m1 # m => picked[m1] = << >>
      BY <1>11, <3>1, <3>2
    <3>4. FlattenSeq(picked) = picked[m]
      BY <1>11, <3>3, FlattenOnly
    <3> QED  BY <2>1, <3>3, <3>4
  <2>2. CASE name \notin Request!Rest
    <3>1. \A m \in 1 .. N : picked[m] \in {<< >>}
      BY <1>3, <1>11, <2>2
    <3>2. DOMAIN picked = 1 .. N /\ picked \in [1 .. N -> {<< >>}]
      <4>1. DOMAIN picked = 1 .. N /\ picked = [m \in 1 .. N |-> picked[m]]
        <5> HIDE DEF S
        <5> QED  BY <1>11
      <4> QED  BY <3>1, <4>1
    <3>3. picked \in Seq({<< >>})
      BY <1>3, <3>2, SeqDef
    <3> QED  BY <2>2, <3>3, FlattenOfEmpties
  <2> QED  BY <2>1, <2>2
<1>13. Request!Trace = a \o b \o c \o s
  <2>1. Request!SetToSeq(Request!Rest) = list
    <3>1. \A S1 : Request!Cardinality(S1) = Cardinality(S1)
      BY Zenon DEF Request!Cardinality, Cardinality
    <3> QED  BY <3>1, Zenon DEF list, Request!SetToSeq, SetToSeq, Request!IsInjective, IsInjective
  <2>2. \A ss : Request!FlattenSeq(ss) = FlattenSeq(ss)
    BY Zenon DEF Request!FlattenSeq, FlattenSeq
  <2> QED  BY <2>1, <2>2, Zenon DEF Request!Trace
<1> DEFINE x == FlatMap(h, a)
           y == FlatMap(h, b)
           z == FlatMap(h, c)
           t == FlatMap(h, s)
<1>14. Request!ValuesIn(a \o b \o c \o s, name) = x \o y \o z \o t
  <2> HIDE DEF a, b, c, s
  <2>1. a \o b \in B /\ a \o b \o c \in B /\ a \o b \o c \o s \in B
    <3>1. ASSUME NEW x1 \in B, NEW y1 \in B PROVE x1 \o y1 \in B
      OBVIOUS
    <3> HIDE DEF B
    <3> QED  BY <1>7, <1>8, <3>1, Zenon
  <2>2. \A x1, y1 \in B : FlatMap(h, x1 \o y1) = FlatMap(h, x1) \o FlatMap(h, y1)
    BY PickJoins, Zenon
  <2>3. \A x1 \in B : Request!ValuesIn(x1, name) = FlatMap(h, x1)
    BY PickIs, Zenon
  <2> HIDE DEF B, h
  <2>4. FlatMap(h, a \o b) = FlatMap(h, a) \o FlatMap(h, b)
    BY <1>8, <2>2, Zenon
  <2>5. FlatMap(h, a \o b \o c) = FlatMap(h, a \o b) \o FlatMap(h, c)
    BY <1>8, <2>1, <2>2, Zenon
  <2>6. FlatMap(h, a \o b \o c \o s) = FlatMap(h, a \o b \o c) \o FlatMap(h, s)
    BY <1>7, <2>1, <2>2, Zenon
  <2> QED  BY <2>1, <2>3, <2>4, <2>5, <2>6, Zenon
<1>15. /\ x = IF name = "host" THEN << host >> ELSE << >>
       /\ y = IF name = "user-agent" THEN fields[name] ELSE << >>
       /\ z = IF name = "accept" THEN fields[name] ELSE << >>
       /\ t = IF name \in {"host", "user-agent", "accept"} THEN << >> ELSE fields[name]
  <2> HIDE DEF h, a, b, c, s
  <2>1. name \in Request!Rest <=> name \notin {"host", "user-agent", "accept"}
    BY DEF Request!Rest, Request!Defaults
  <2> QED  BY <1>8, <1>9, <1>12, <2>1
<1> HIDE DEF a, b, c, s, x, y, z, t
<1>16. ASSUME NEW u \in S PROVE u \o << >> = u /\ << >> \o u = u
  BY ConcatEmptySeq
<1>17. << host >> \in S /\ << >> \in S
  OBVIOUS
<1> HIDE DEF S
<1>18. x \o y \o z \o t = IF name = "host" THEN << host >> ELSE fields[name]
  BY <1>10, <1>15, <1>16, <1>17
<1> QED  BY <1>13, <1>14, <1>18, Zenon DEF Request!SeenOnStream

LEMMA RequestSafe ==
  ASSUME RequestInv
  PROVE  Request!TypeOK /\ Request!RequestAsAsked
<1>1. Request!TypeOK
  <2>1. headers = SubSeq(values, 1, Len(headers))
    <3>1. /\ Len(headers) \in Nat /\ Len(values) \in Nat /\ Len(headers) <= Len(values)
          /\ values \in Seq(Request!Options) /\ headers \in Seq(Request!Options)
          /\ \A m \in 1 .. Len(headers) : headers[m] = values[m]
      BY DEF RequestInv, Reading
    <3>2. /\ SubSeq(values, 1, Len(headers)) \in Seq(Request!Options)
          /\ Len(SubSeq(values, 1, Len(headers))) = Len(headers)
          /\ \A m \in 1 .. Len(headers) : SubSeq(values, 1, Len(headers))[m] = values[m]
      BY <3>1
    <3> QED  BY <3>1, <3>2
  <2>2. pc \in {"build", "done"} => headers = values
    BY AllRead DEF RequestInv, Reading
  <2>3. suppressed \subseteq Request!Defaults /\ DOMAIN fields = Request!Names
    BY DEF RequestInv, Reading
  <2> QED  BY <2>1, <2>2, <2>3 DEF RequestInv, Reading, Request!TypeOK
<1>2. ASSUME pc = "done" PROVE Request!RequestAsAsked
  <2>1. /\ Reading /\ Built /\ lines = Request!Lines /\ k = Len(values) + 1 /\ trace = Request!Trace
        /\ host \in Shapes /\ pc \in {"build", "done"} /\ Len(headers) = Len(values)
    BY <1>2 DEF RequestInv, Built, Reading
  <2>2. /\ \A name \in Request!Names \cap (Request!HopByHop \cup {"host"}) : fields[name] = << >>
        /\ "host" \in Request!Names
    BY <2>1, Defaulted, Zenon DEF Built
  <2>3. \A name \in Request!Names : Request!Seen(name) = Request!Wanted(name)
    BY <2>1, SeenIs, Zenon DEF Request!Seen
  <2>4. \A name : SaidBefore(name, k) = Request!SaidValues(name) /\ Request!SaidValues(name) \in Seq(Shapes)
    <3>1. ASSUME NEW name
          PROVE  SaidBefore(name, k) = Request!SaidValues(name) /\ Request!SaidValues(name) \in Seq(Shapes)
      <4>1. /\ Part(name) \in Seq(Seq(Shapes)) /\ Len(Part(name)) = Len(values) /\ Len(values) \in Nat
            /\ Request!SaidValues(name) = FlattenSeq(Part(name))
        BY <2>1, PartIs
      <4>2. SubSeq(Part(name), 1, k - 1) = Part(name)
        <5>1. SubSeq(Part(name), 1, Len(Part(name))) = Part(name)
          BY <4>1, SubSeqFull
        <5>2. k - 1 = Len(Part(name))
          BY <2>1, <4>1
        <5> QED  BY <5>1, <5>2
      <4> QED  BY <4>1, <4>2, FlattenType DEF SaidBefore
    <3> QED  BY <3>1
  <2>5. /\ suppressed = {d \in Request!Defaults : Request!Said(d) # {}}
    BY <2>1, AllRead
  <2>6. Request!NoHopByHop
    BY <2>2, Defaulted DEF Request!NoHopByHop, Request!SeenOnStream, Request!HopByHop
  <2>7. Request!TraceShowsRequest
    BY <2>1, <2>2, ShownIs, Zenon DEF Request!TraceShowsRequest, Request!Shown
  <2>8. ASSUME NEW name \in Request!Names, name \notin Request!HopByHop,
               name \in {"host", "user-agent"} => SaidOnce(name),
               ~(name = "host" /\ Request!Said(name) # {} /\ Request!SaidValues(name) = << >>)
        PROVE  Request!SeenOnStream(name) = Request!Wanted(name)
    <3>1. Request!Said(name) = {} => Request!SaidValues(name) = << >>
      <4>1. Len(values) \in Nat /\ 1 \in 1 .. Len(values) + 1
        BY <2>1, PartIs
      <4>2. ASSUME Request!Said(name) = {} PROVE FlattenSeq(Part(name)) = << >>
        <5>1. /\ Part(name) \in Seq(Seq(Shapes)) /\ Len(Part(name)) = Len(values)
              /\ \A m \in 1 .. Len(values) : Part(name)[m] = << >>
          BY <2>1, <4>2, PartIs
        <5>2. Part(name) \in [1 .. Len(values) -> {<< >>}]
          <6>1. Part(name) = [m \in 1 .. Len(values) |-> Part(name)[m]]
            BY <2>1, PartIs, Zenon DEF Part
          <6> QED  BY <5>1, <6>1
        <5>3. Part(name) \in Seq({<< >>})
          BY <4>1, <5>2, SeqDef
        <5> QED  BY <5>3, FlattenOfEmpties
      <4> QED  BY <2>1, <4>2, PartIs
    <3>2. CASE name = "host"
      <4>1. << host >> = IF Request!SaidValues(name) = << >> THEN << Request!RequestHost(target) >>
                         ELSE Request!SaidValues(name)
        BY <2>1, <2>4, <2>8, <3>2, Zenon DEF Built
      <4>2. Request!SeenOnStream(name) = << host >>
        BY <3>2 DEF Request!SeenOnStream
      <4>3. Request!DefaultValue(name) = << Request!RequestHost(target) >>
        BY <3>2 DEF Request!DefaultValue
      <4> QED  BY <2>8, <3>1, <3>2, <4>1, <4>2, <4>3, Zenon DEF Request!Wanted
    <3>3. CASE name # "host"
      <4>1. fields[name] = Base(name) \o Request!SaidValues(name)
        BY <2>1, <2>4, <2>8, <3>3, Zenon DEF Built
      <4>2. Request!SeenOnStream(name) = fields[name]
        BY <3>3, Zenon DEF Request!SeenOnStream
      <4>3. Base(name) \in Seq(Shapes) /\ Request!SaidValues(name) \in Seq(Shapes)
        BY <2>1, <2>4, BaseIs
      <4>4. CASE Request!Said(name) = {}
        <5>1. Base(name) = Request!DefaultValue(name)
          BY <2>5, <3>3, <4>4 DEF Base, Request!DefaultValue
        <5>2. Base(name) \o << >> = Base(name)
          BY <4>3, ConcatEmptySeq
        <5> QED  BY <3>1, <4>1, <4>2, <4>4, <5>1, <5>2, Zenon DEF Request!Wanted
      <4>5. CASE Request!Said(name) # {}
        <5>1. Base(name) = << >>
          BY <2>5, <4>5 DEF Base, Request!Defaults
        <5>2. << >> \o Request!SaidValues(name) = Request!SaidValues(name)
          BY <4>3, ConcatEmptySeq
        <5> QED  BY <4>1, <4>2, <4>5, <5>1, <5>2, Zenon DEF Request!Wanted
      <4> QED  BY <4>4, <4>5
    <3> QED  BY <3>2, <3>3
  <2>9. Request!SameRequestOnStreams
    BY <2>3, <2>8, Zenon DEF Request!SameRequestOnStreams, SaidOnce
  <2> QED  BY <2>3, <2>6, <2>7, <2>9 DEF Request!RequestAsAsked, Request!UserReplacesDefault
<1>3. ASSUME pc # "done" PROVE Request!RequestAsAsked
  BY <1>3 DEF Request!RequestAsAsked, Request!UserReplacesDefault, Request!SameRequestOnStreams,
              Request!NoHopByHop, Request!TraceShowsRequest
<1> QED  BY <1>1, <1>2, <1>3

LEMMA RequestInvariance == Spec => [](part = "request" => RequestInv)
<1>1. Init => (part = "request" => RequestInv)
  BY RequestStarts DEF Init
<1>2. ASSUME part = "request" => RequestInv, [Next]_vars PROVE (part = "request" => RequestInv)'
  <2>1. CASE RequestStep
    BY <1>2, <2>1, RequestMoves DEF RequestStep
  <2>2. CASE SYNStep \/ URLsStep \/ ArgumentsStep \/ HelloStep
    BY <2>2 DEF SYNStep, URLsStep, ArgumentsStep, HelloStep
  <2>3. CASE UNCHANGED vars
    BY <1>2, <2>3, RequestStays DEF vars
  <2> QED  BY <1>2, <2>1, <2>2, <2>3 DEF Next
<1> QED  BY <1>1, <1>2, PTL DEF Spec

\* The request is the one asked for, whatever -H options are given, however
\* many, in whatever order and spelling: the user's headers replace the
\* generated ones in serializeHTTP1, buildMuxedRequest says the same of every
\* name, none of the fields a stream forbids gets through, and -v shows it all.
THEOREM RequestIsAsAsked == Spec => []RequestAsAsked
<1>1. (part = "request" => RequestInv) => RequestAsAsked
  BY RequestSafe DEF RequestAsAsked
<1> QED  BY <1>1, RequestInvariance, PTL

-----------------------------------------------------------------------------
(* The SYN.  The listener has read the first options, byte for byte. *)

Given == [a \in DOMAIN fp.kinds |-> SYN!Option(fp.kinds[a])]
Before(m) == FlattenSeq(SubSeq(Given, 1, m))
Honest ==
  \A a, b \in DOMAIN fp.kinds :
    a < b /\ fp.kinds[a] = SYN!EndOfList => fp.kinds[b] \notin {SYN!MSS, SYN!WindowScale}

FpType == fp \in [window : Nat, kinds : Seq(Nat), mss : Nat, scale : Nat]
Fresh ==
  /\ syn = [window |-> 0, offset |-> 5, options |-> << >>]
  /\ at = 1 /\ ended = FALSE /\ seen = [kinds |-> << >>, mss |-> 0, scale |-> 0]
Crafted ==
  syn = [window |-> fp.window, options |-> SYN!TCPOptions,
         offset |-> (5 + (Len(SYN!TCPOptions) \div 4)) % 16]
Noted(m, kind, value) == IF \E a \in 1 .. m : fp.kinds[a] = kind THEN value ELSE 0
Listened(m) ==
  /\ m \in 0 .. Len(fp.kinds)
  /\ seen.kinds \in Seq(Nat) /\ Len(seen.kinds) = m
  /\ \A a \in 1 .. m : seen.kinds[a] = fp.kinds[a]
  /\ at = Len(Before(m)) + 1
  /\ ended \in BOOLEAN /\ (ended => \E a \in 1 .. m : fp.kinds[a] = SYN!EndOfList)
  /\ DOMAIN seen = {"kinds", "mss", "scale"}
  /\ seen = [kinds |-> seen.kinds, mss |-> seen.mss, scale |-> seen.scale]
  /\ Honest => seen.mss = Noted(m, SYN!MSS, fp.mss) /\ seen.scale = Noted(m, SYN!WindowScale, fp.scale)

SYNInv ==
  /\ FpType
  /\ pc \in {"parse", "craft", "read", "done", "rejected"}
  /\ pc \in {"parse", "craft", "rejected"} => Fresh
  /\ pc \in {"craft", "read", "done"} => SYN!Valid
  /\ pc \in {"read", "done"} => Crafted /\ Listened(Len(seen.kinds))
  /\ pc = "done" => at > SYN!HeaderEnd

Bytes == 0 .. SYN!MaxUint8
Words == 0 .. SYN!MaxUint16

\* The only use of how large these are: elsewhere the numbers stay hidden.
LEMMA Limits ==
  /\ \A b \in Nat : b <= SYN!MaxUint8 <=> b < 256
  /\ \A w \in Nat : w <= SYN!MaxUint16 <=> w < 65536
  /\ SYN!MaxUint8 \in Nat /\ SYN!MaxUint16 \in Nat
BY SMT DEF SYN!MaxUint8, SYN!MaxUint16
LEMMA HighAndLow ==
  ASSUME NEW m \in Words
  PROVE  /\ SYN!Uint16(m) \in Seq(Bytes) /\ Len(SYN!Uint16(m)) = 2
         /\ 256 * SYN!Uint16(m)[1] + SYN!Uint16(m)[2] = m
<1>0. m \in Nat /\ m < 65536
  BY SMT, Limits DEF Words
<1>1. /\ m \div 256 \in Nat /\ m \div 256 < 256 /\ m % 256 \in Nat /\ m % 256 < 256
      /\ 256 * (m \div 256) + (m % 256) = m
  BY SMT, <1>0
<1>2. ASSUME NEW b \in Nat, b < 256 PROVE b \in Bytes
  <2>1. b <= SYN!MaxUint8 /\ SYN!MaxUint8 \in Nat
    BY <1>2, SMT DEF SYN!MaxUint8
  <2> QED  BY <2>1 DEF Bytes
<1>3. m \div 256 \in Bytes /\ m % 256 \in Bytes
  BY <1>1, <1>2, Zenon
<1> QED  BY SMT, <1>1, <1>3 DEF SYN!Uint16

\* An option longer than a byte: its kind, its length and its data.
LongOption(o, kind, data) ==
  /\ o \in Seq(Bytes) /\ Len(o) = 2 + Len(data) /\ o[1] = kind /\ o[2] = Len(o)
  /\ \A m \in 1 .. Len(data) : o[m + 2] = data[m]

LEMMA LongOptionIs ==
  ASSUME NEW kind \in Bytes, kind \notin {0, 1},
         SYN!Data(kind) \in Seq(Bytes), 2 + Len(SYN!Data(kind)) \in Bytes
  PROVE  LongOption(SYN!Option(kind), kind, SYN!Data(kind))
<1> DEFINE d == SYN!Data(kind)
           o == << kind, 2 + Len(d) >> \o d
<1>1. SYN!Option(kind) = o
  BY Zenon DEF SYN!Option, SYN!EndOfList, SYN!NoOp
<1>2. ASSUME NEW S, NEW a \in S, NEW b \in S, NEW e \in Seq(S)
      PROVE  /\ << a, b >> \o e \in Seq(S) /\ Len(<< a, b >> \o e) = 2 + Len(e)
             /\ (<< a, b >> \o e)[1] = a /\ (<< a, b >> \o e)[2] = b
             /\ \A m \in 1 .. Len(e) : (<< a, b >> \o e)[m + 2] = e[m]
  BY <1>2, SMT
<1> DEFINE l == 2 + Len(d)
           h == << kind, l >>
<1>3. d \in Seq(Bytes) /\ l \in Bytes
  OBVIOUS
<1> HIDE DEF d, l
<1>4. /\ h \o d \in Seq(Bytes) /\ Len(h \o d) = 2 + Len(d)
      /\ (h \o d)[1] = kind /\ (h \o d)[2] = l
      /\ \A m \in 1 .. Len(d) : (h \o d)[m + 2] = d[m]
  BY <1>2, <1>3
<1>5. o = h \o d /\ l = 2 + Len(d)
  BY DEF l
<1> HIDE DEF o, h
<1>6. LongOption(o, kind, d)
  BY <1>4, <1>5 DEF LongOption
<1> QED  BY <1>1, <1>6, Zenon DEF d

KindsSupported == {0, 1, 2, 3, 4, 8}

\* What the listener relies on when it is at an option.
OptionOf(o, kind) ==
  /\ o \in Seq(Bytes) /\ Len(o) > 0 /\ o[1] = kind
  /\ kind \in {0, 1} => Len(o) = 1
  /\ kind \notin {0, 1} => Len(o) >= 2 /\ o[2] = Len(o)
  /\ kind = 2 => Len(o) = 4 /\ 256 * o[3] + o[4] = fp.mss
  /\ kind = 3 => Len(o) = 3 /\ o[3] = fp.scale

LEMMA OptionIs ==
  ASSUME fp.mss \in Words, fp.scale \in Bytes, NEW kind \in KindsSupported
  PROVE  OptionOf(SYN!Option(kind), kind)
<1>0. /\ 0 \in Bytes /\ 1 \in Bytes /\ 2 \in Bytes /\ 3 \in Bytes /\ 4 \in Bytes /\ 8 \in Bytes
      /\ 10 \in Bytes
  BY SMT, Limits DEF Bytes
<1>1. ASSUME NEW o, NEW m \in Bytes, m \in {0, 1}, o = << m >>
      PROVE  OptionOf(o, m)
  BY <1>1 DEF OptionOf
<1>2. ASSUME NEW m \in {0, 1} PROVE OptionOf(SYN!Option(m), m)
  <2>1. SYN!Option(m) = << m >> /\ m \in Bytes
    BY <1>0, <1>2, Zenon DEF SYN!Option, SYN!EndOfList, SYN!NoOp
  <2> QED  BY <1>1, <1>2, <2>1, Zenon
<1>3. ASSUME NEW o, NEW m \in Bytes, m \notin {0, 1}, NEW d \in Seq(Bytes), LongOption(o, m, d),
             m = 2 => Len(d) = 2 /\ 256 * d[1] + d[2] = fp.mss,
             m = 3 => Len(d) = 1 /\ d[1] = fp.scale
      PROVE  OptionOf(o, m)
  BY <1>3 DEF OptionOf, LongOption
<1>4. OptionOf(SYN!Option(2), 2)
  <2>1. SYN!Data(2) = SYN!Uint16(fp.mss)
    BY Zenon DEF SYN!Data, SYN!MSS
  <2> DEFINE d == SYN!Data(2)
  <2>2. d \in Seq(Bytes) /\ Len(d) = 2 /\ 256 * d[1] + d[2] = fp.mss
    BY <2>1, HighAndLow, ZenonT(60)
  <2> HIDE DEF d
  <2>3. 2 \notin {0, 1} /\ 2 + Len(d) = 4 /\ 2 # 3
    BY <2>2
  <2>4. LongOption(SYN!Option(2), 2, d)
    BY <1>0, <2>2, <2>3, LongOptionIs, Zenon DEF d
  <2> QED  BY <1>0, <1>3, <2>2, <2>3, <2>4, Zenon
<1>5. OptionOf(SYN!Option(3), 3)
  <2>0. 3 # 2 /\ 3 \notin {0, 1}
    OBVIOUS
  <2>1. SYN!Data(3) = << fp.scale >>
    BY Zenon, <2>0 DEF SYN!Data, SYN!MSS, SYN!WindowScale
  <2> DEFINE d == SYN!Data(3)
  <2>2. d \in Seq(Bytes) /\ Len(d) = 1 /\ d[1] = fp.scale
    BY <2>1
  <2> HIDE DEF d
  <2>3. 2 + Len(d) = 3
    BY <2>2
  <2>4. LongOption(SYN!Option(3), 3, d)
    BY <1>0, <2>0, <2>2, <2>3, LongOptionIs, Zenon DEF d
  <2> QED  BY <1>0, <1>3, <2>0, <2>2, <2>4, Zenon
<1>6. OptionOf(SYN!Option(4), 4)
  <2>0. 4 # 2 /\ 4 # 3 /\ 4 # 8 /\ 4 \notin {0, 1}
    OBVIOUS
  <2>1. SYN!Data(4) = << >>
    BY Zenon, <2>0 DEF SYN!Data, SYN!MSS, SYN!WindowScale, SYN!Timestamps
  <2> DEFINE d == SYN!Data(4)
  <2>2. d \in Seq(Bytes) /\ 2 + Len(d) = 2
    <3>1. << >> \in Seq(Bytes) /\ 2 + Len(<< >>) = 2
      OBVIOUS
    <3> QED  BY <2>1, <3>1, Zenon
  <2> HIDE DEF d
  <2>4. LongOption(SYN!Option(4), 4, d)
    BY <1>0, <2>0, <2>2, LongOptionIs, Zenon DEF d
  <2> QED  BY <1>0, <1>3, <2>0, <2>2, <2>4, Zenon
<1>7. OptionOf(SYN!Option(8), 8)
  <2>0. 8 # 2 /\ 8 # 3 /\ 8 \notin {0, 1}
    OBVIOUS
  <2>1. SYN!Data(8) = [k1 \in 1 .. 8 |-> 0]
    BY Zenon, <2>0 DEF SYN!Data, SYN!MSS, SYN!WindowScale, SYN!Timestamps
  <2> DEFINE d == SYN!Data(8)
  <2>2. d \in Seq(Bytes) /\ 2 + Len(d) = 10
    <3>1. ASSUME NEW S, NEW z \in S
          PROVE  [k1 \in 1 .. 8 |-> z] \in Seq(S) /\ 2 + Len([k1 \in 1 .. 8 |-> z]) = 10
      OBVIOUS
    <3> QED  BY <1>0, <2>1, <3>1, Zenon
  <2> HIDE DEF d
  <2>4. LongOption(SYN!Option(8), 8, d)
    BY <1>0, <2>0, <2>2, LongOptionIs, Zenon DEF d
  <2> QED  BY <1>0, <1>3, <2>0, <2>2, <2>4, Zenon
<1>8. CASE kind \in {0, 1}
  BY <1>2, <1>8
<1>9. CASE kind \in {2, 3, 4, 8}
  BY <1>4, <1>5, <1>6, <1>7, <1>9, Zenon
<1> QED  BY <1>8, <1>9, Zenon DEF KindsSupported

-----------------------------------------------------------------------------
\* The options of a valid fingerprint, and where they lie in the header.
LEMMA GivenIs ==
  ASSUME FpType, SYN!Valid
  PROVE  /\ fp.mss \in Words /\ fp.scale \in Bytes /\ fp.window \in Words
         /\ fp.kinds \in Seq(KindsSupported)
         /\ Given \in Seq(Seq(Bytes)) /\ Len(Given) = Len(fp.kinds)
         /\ \A m \in 1 .. Len(fp.kinds) :
              Given[m] = SYN!Option(fp.kinds[m]) /\ OptionOf(Given[m], fp.kinds[m])
<1>1. fp.mss \in Words /\ fp.scale \in Bytes /\ fp.window \in Words
  BY SMT, Limits DEF FpType, SYN!Valid, SYN!InRange, Words, Bytes
<1>2. fp.kinds \in Seq(Nat) /\ \A m \in 1 .. Len(fp.kinds) : fp.kinds[m] \in KindsSupported
  BY SMT DEF FpType, SYN!Valid, SYN!Supported, KindsSupported, SYN!EndOfList, SYN!NoOp, SYN!MSS,
             SYN!WindowScale, SYN!SACKPermitted, SYN!Timestamps
<1>3. fp.kinds \in Seq(KindsSupported)
  BY <1>2
<1>4. \A kind \in KindsSupported : OptionOf(SYN!Option(kind), kind) /\ SYN!Option(kind) \in Seq(Bytes)
  BY <1>1, OptionIs, Zenon DEF OptionOf
<1> DEFINE B == Seq(Bytes)
           ks == fp.kinds
           g == [m \in 1 .. Len(ks) |-> SYN!Option(ks[m])]
<1>5. ks \in Seq(KindsSupported) /\ DOMAIN ks = 1 .. Len(ks) /\ Len(ks) \in Nat
  BY <1>3
<1>6. Given = g
  BY <1>5, Zenon DEF Given
<1>7. \A kind \in KindsSupported : SYN!Option(kind) \in B
  BY <1>4
<1> HIDE DEF B, ks
<1>8. g \in Seq(B) /\ Len(g) = Len(ks) /\ \A m \in 1 .. Len(ks) : g[m] = SYN!Option(ks[m])
  BY <1>5, <1>7
<1>9. \A m \in 1 .. Len(ks) : OptionOf(g[m], ks[m])
  BY <1>2, <1>4, <1>8, Zenon DEF ks
<1> HIDE DEF g
<1> QED  BY <1>1, <1>3, <1>6, <1>8, <1>9, Zenon DEF B, ks

LEMMA BeforeIs ==
  ASSUME FpType, SYN!Valid, NEW m \in 0 .. Len(fp.kinds)
  PROVE  /\ SYN!TCPOptions \in Seq(Bytes) /\ Before(m) \in Seq(Bytes)
         /\ Before(0) = << >> /\ Before(Len(fp.kinds)) = SYN!TCPOptions
         /\ m < Len(fp.kinds) =>
              /\ Len(Before(m)) < Len(SYN!TCPOptions)
              /\ Len(Before(m + 1)) = Len(Before(m)) + Len(Given[m + 1])
              /\ \A k1 \in 1 .. Len(Given[m + 1]) :
                   /\ Len(Before(m)) + k1 \in 1 .. Len(SYN!TCPOptions)
                   /\ SYN!TCPOptions[Len(Before(m)) + k1] = Given[m + 1][k1]
<1>1. SYN!TCPOptions = FlattenSeq(Given)
  BY Zenon DEF SYN!TCPOptions, SYN!FlattenSeq, FlattenSeq, Given
<1>2. Given \in Seq(Seq(Bytes)) /\ Len(Given) = Len(fp.kinds)
  BY GivenIs
<1>3. \A n1 \in 1 .. Len(Given) : Given[n1] \in Seq(Bytes) /\ Len(Given[n1]) > 0
  BY GivenIs, <1>2, Zenon DEF OptionOf
<1> DEFINE G == Given
           N == Len(fp.kinds)
<1>4. SYN!TCPOptions \in Seq(Bytes)
  BY <1>1, <1>2, FlattenType, Zenon
<1>5. SubSeq(G, 1, m) \in Seq(Seq(Bytes)) /\ SubSeq(G, 1, 0) = << >> /\ SubSeq(G, 1, N) = G
  BY <1>2, UptoProperties, Zenon
<1>6. Before(m) \in Seq(Bytes) /\ Before(0) = << >> /\ Before(N) = SYN!TCPOptions
  BY <1>1, <1>5, FlattenType, FlattenEmpty, Zenon DEF Before
<1>7. ASSUME m < N
      PROVE  /\ Len(Before(m)) < Len(SYN!TCPOptions)
             /\ Len(Before(m + 1)) = Len(Before(m)) + Len(Given[m + 1])
             /\ \A k1 \in 1 .. Len(Given[m + 1]) :
                  /\ Len(Before(m)) + k1 \in 1 .. Len(SYN!TCPOptions)
                  /\ SYN!TCPOptions[Len(Before(m)) + k1] = Given[m + 1][k1]
  <2> DEFINE g == Given[m + 1]
             T == SYN!TCPOptions
             p == Before(m)
             q == Before(m + 1)
  <2>1. N \in Nat /\ m \in 0 .. Len(Given) - 1 /\ m + 1 \in 1 .. Len(Given) /\ (m + 1) - 1 = m
    BY <1>2, <1>7 DEF FpType
  <2>2. q = p \o g
    BY <1>2, <2>1, FlattenUpto, Zenon DEF Before
  <2>3. \A k1 \in 1 .. Len(g) : Len(p) + k1 \in 1 .. Len(T) /\ T[Len(p) + k1] = g[k1]
    <3>1. ASSUME NEW r \in 1 .. Len(Given), NEW k1 \in 1 .. Len(Given[r]), NEW b, b = r - 1
          PROVE  /\ Len(Before(b)) + k1 \in 1 .. Len(T)
                 /\ T[Len(Before(b)) + k1] = Given[r][k1]
      BY <1>1, <1>2, <3>1, FlattenAt, Zenon DEF Before
    <3> QED  BY <2>1, <3>1, Zenon
  <2>4. p \in Seq(Bytes) /\ g \in Seq(Bytes) /\ Len(g) > 0 /\ T \in Seq(Bytes)
    BY <1>3, <1>4, <1>6, <2>1, Zenon
  <2> HIDE DEF p, g, q, T
  <2>5. Len(q) = Len(p) + Len(g)
    BY <2>2, <2>4
  <2>6. Len(p) + 1 \in 1 .. Len(T)
    BY <2>3, <2>4
  <2>7. Len(p) < Len(T)
    BY <2>4, <2>6
  <2> QED  BY <2>3, <2>5, <2>7, Zenon DEF p, q, g, T
<1> QED  BY <1>4, <1>6, <1>7, Zenon

\* The 4 bits of the data offset hold the options if they are at most 40 bytes;
\* a longer header ends too early, never too late.
LEMMA HeaderEndIs ==
  ASSUME FpType, SYN!Valid, Crafted
  PROVE  /\ SYN!HeaderEnd \in Int /\ SYN!HeaderEnd <= Len(SYN!TCPOptions)
         /\ Len(SYN!TCPOptions) <= 40 => SYN!HeaderEnd = Len(SYN!TCPOptions)
<1>1. 0 \in 0 .. Len(fp.kinds)
  BY DEF FpType
<1>2. Len(SYN!TCPOptions) \in Nat
  BY <1>1, BeforeIs
<1>3. Len(SYN!TCPOptions) % 4 = 0
  BY Zenon DEF SYN!Valid, SYN!Aligned
<1>4. SYN!HeaderEnd = 4 * (((5 + (Len(SYN!TCPOptions) \div 4)) % 16) - 5)
  BY DEF SYN!HeaderEnd, Crafted
<1>5. ASSUME NEW l \in Nat, l % 4 = 0, NEW h, h = 4 * (((5 + (l \div 4)) % 16) - 5)
      PROVE  h \in Int /\ h <= l /\ (l <= 40 => h = l)
  BY <1>5, SMT
<1> QED  BY <1>2, <1>3, <1>4, <1>5

LEMMA SYNStarts ==
  ASSUME SYN!Init
  PROVE  SYNInv
<1>1. FpType
  <2>1. Windows \subseteq Nat /\ MSSs \subseteq Nat /\ Scales \subseteq Nat /\ KindLists \subseteq Seq(Nat)
    BY SYNAssumption DEF SYN!FingerprintAssumption
  <2> QED  BY <2>1 DEF SYN!Init, FpType
<1>2. pc = "parse" /\ Fresh
  BY DEF SYN!Init, Fresh
<1> QED  BY <1>1, <1>2 DEF SYNInv

LEMMA SameFingerprint ==
  ASSUME fp' = fp
  PROVE  /\ SYN!TCPOptions' = SYN!TCPOptions /\ SYN!Valid' = SYN!Valid /\ Honest' = Honest
         /\ Given' = Given /\ \A m : Before(m)' = Before(m)
<1>1. \A kind : SYN!Option(kind)' = SYN!Option(kind)
  BY ZenonT(60) DEF SYN!Option, SYN!Data, SYN!EndOfList, SYN!NoOp, SYN!MSS, SYN!WindowScale, SYN!Timestamps,
     SYN!Uint16
<1>2. SYN!TCPOptions' = SYN!TCPOptions
  BY Zenon, <1>1 DEF SYN!TCPOptions
<1>3. Given' = Given
  BY Zenon, <1>1 DEF Given
<1>4. \A m : Before(m)' = Before(m)
  BY Zenon, <1>3 DEF Before
<1>5. SYN!Valid' = SYN!Valid
  BY Zenon, <1>2 DEF SYN!Valid, SYN!InRange, SYN!Supported, SYN!HasKind, SYN!Aligned
<1>6. Honest' = Honest
  BY Zenon DEF Honest
<1> QED  BY <1>2, <1>3, <1>4, <1>5, <1>6, Zenon

LEMMA SameListening ==
  ASSUME UNCHANGED <<fp, syn, at, ended, seen>>
  PROVE  /\ FpType' = FpType /\ Crafted' = Crafted /\ SYN!Valid' = SYN!Valid
         /\ Listened(Len(seen.kinds))' = Listened(Len(seen.kinds))
         /\ (at > SYN!HeaderEnd)' = (at > SYN!HeaderEnd)
<1>1. SYN!TCPOptions' = SYN!TCPOptions /\ SYN!Valid' = SYN!Valid /\ Honest' = Honest
  BY SameFingerprint, Zenon
<1>2. Before(Len(seen.kinds))' = Before(Len(seen.kinds))
  <2>1. Given' = Given
    BY SameFingerprint, Zenon
  <2> QED  BY <2>1, Zenon DEF Before
<1>3. Listened(Len(seen.kinds))' = Listened(Len(seen.kinds))
  BY <1>1, <1>2, Zenon DEF Listened, Noted
<1>4. FpType' = FpType /\ Crafted' = Crafted /\ (at > SYN!HeaderEnd)' = (at > SYN!HeaderEnd)
  BY <1>1, Zenon DEF FpType, Crafted, SYN!HeaderEnd
<1> QED  BY <1>1, <1>3, <1>4, Zenon

\* One more option read.
LEMMA OptionRead ==
  ASSUME SYNInv, SYN!ReadOption
  PROVE  SYNInv'
<1>a. PICK m : m = Len(seen.kinds)
  OBVIOUS
<1> DEFINE N == Len(fp.kinds)
           T == SYN!TCPOptions
           kind == fp.kinds[m + 1]
           g == Given[m + 1]
<1>1. /\ FpType /\ SYN!Valid /\ Crafted /\ Listened(m) /\ pc = "read" /\ at <= SYN!HeaderEnd
      /\ UNCHANGED <<fp, pc, syn>>
  BY <1>a, Zenon DEF SYNInv, SYN!ReadOption
<1>2. m \in Nat /\ N \in Nat /\ m <= N /\ at = Len(Before(m)) + 1
  BY <1>1 DEF Listened, FpType
<1>3. m < N
  <2>1. SUFFICES ASSUME m = N PROVE FALSE
    BY <1>2
  <2>2. Before(m) = T /\ Len(T) \in Nat
    BY <1>1, <1>2, <2>1, BeforeIs
  <2>3. at <= Len(T) /\ SYN!HeaderEnd \in Int
    BY <1>1, <1>2, <2>2, HeaderEndIs
  <2> QED  BY <1>2, <2>2, <2>3
<1>0. m \in 0 .. N /\ m + 1 \in 1 .. N
  BY <1>2, <1>3
<1>4. /\ Len(Before(m + 1)) = Len(Before(m)) + Len(g)
      /\ \A k1 \in 1 .. Len(g) : T[Len(Before(m)) + k1] = g[k1]
  BY <1>0, <1>1, <1>3, BeforeIs, Zenon
<1>5. OptionOf(g, kind) /\ kind \in KindsSupported /\ g \in Seq(Bytes) /\ Len(Before(m)) \in Nat
  <2>1. Before(m) \in Seq(Bytes)
    BY <1>0, <1>1, BeforeIs, Zenon
  <2>2. OptionOf(g, kind)
    BY <1>0, <1>1, GivenIs, Zenon
  <2>3. kind \in KindsSupported
    <3>1. fp.kinds \in Seq(KindsSupported)
      BY <1>1, GivenIs, Zenon
    <3> QED  BY <3>1, <1>0
  <2> QED  BY <2>1, <2>2, <2>3 DEF OptionOf
<1> DEFINE B(a) == syn.options[a]
<1>6. \A k1 \in 1 .. Len(g) : B(at + (k1 - 1)) = g[k1]
  BY <1>1, <1>2, <1>4, <1>5 DEF Crafted
<1> HIDE DEF N, T, g, kind
<1>7. B(at) = kind /\ at \in Nat
  BY <1>2, <1>5, <1>6 DEF OptionOf
<1>8. kind \notin {0, 1} => Len(g) >= 2 /\ B(at + 1) = Len(g)
  BY <1>2, <1>5, <1>6, <1>7 DEF OptionOf
<1>9. kind = 2 => 256 * B(at + 2) + B(at + 3) = fp.mss
  <2> SUFFICES ASSUME kind = 2 PROVE 256 * B(at + 2) + B(at + 3) = fp.mss
    OBVIOUS
  <2>1. Len(g) = 4 /\ 256 * g[3] + g[4] = fp.mss
    BY <1>5 DEF OptionOf
  <2>2. B(at + 2) = g[3] /\ B(at + 3) = g[4]
    BY <1>6, <2>1
  <2> QED  BY <2>1, <2>2
<1>10. kind = 3 => B(at + 2) = fp.scale
  <2> SUFFICES ASSUME kind = 3 PROVE B(at + 2) = fp.scale
    OBVIOUS
  <2>1. Len(g) = 3 /\ g[3] = fp.scale
    BY <1>5 DEF OptionOf
  <2> QED  BY <1>6, <2>1
<1> DEFINE value(old, at3, is) == IF is /\ ~ended THEN at3 ELSE old
           mss == IF kind = 2 /\ ~ended THEN 256 * B(at + 2) + B(at + 3) ELSE seen.mss
           scale == IF kind = 3 /\ ~ended THEN B(at + 2) ELSE seen.scale
<1>11. /\ at' = at + (IF kind \in {0, 1} THEN 1 ELSE B(at + 1))
       /\ ended' = (ended \/ kind = 0)
       /\ seen' = [kinds |-> Append(seen.kinds, kind), mss |-> mss, scale |-> scale]
  BY <1>7, Zenon DEF SYN!ReadOption, SYN!Byte, SYN!EndOfList, SYN!NoOp, SYN!MSS, SYN!WindowScale
<1> HIDE DEF B
<1>12. at' = at + Len(g)
  BY <1>5, <1>8, <1>11 DEF OptionOf
<1>13. at' = Len(Before(m + 1)) + 1
  BY <1>2, <1>4, <1>5, <1>12
<1>14. /\ seen.kinds \in Seq(Nat) /\ Len(seen.kinds) = m
       /\ \A a \in 1 .. m : seen.kinds[a] = fp.kinds[a]
       /\ ended \in BOOLEAN /\ (ended => \E a \in 1 .. m : fp.kinds[a] = 0)
       /\ Honest => seen.mss = Noted(m, 2, fp.mss) /\ seen.scale = Noted(m, 3, fp.scale)
  BY <1>1, Zenon DEF Listened, SYN!EndOfList, SYN!MSS, SYN!WindowScale
<1>15. kind \in Nat /\ kind = fp.kinds[m + 1]
  BY <1>5 DEF KindsSupported, kind
<1>16. /\ seen'.kinds \in Seq(Nat) /\ Len(seen'.kinds) = m + 1
       /\ \A a \in 1 .. m + 1 : seen'.kinds[a] = fp.kinds[a]
  <2>1. seen'.kinds = Append(seen.kinds, kind)
    BY <1>11
  <2>2. ASSUME NEW s \in Seq(Nat), Len(s) = m, NEW t, t = Append(s, kind)
        PROVE  /\ t \in Seq(Nat) /\ Len(t) = m + 1 /\ t[m + 1] = kind
               /\ \A a \in 1 .. m : t[a] = s[a]
    BY <1>2, <1>15, <2>2
  <2> DEFINE s == seen.kinds
             t == seen'.kinds
  <2>3. /\ t \in Seq(Nat) /\ Len(t) = m + 1 /\ t[m + 1] = kind
        /\ \A a \in 1 .. m : t[a] = s[a]
    BY <1>14, <2>1, <2>2, Zenon
  <2> HIDE DEF s, t
  <2>4. \A a \in 1 .. m : s[a] = fp.kinds[a]
    BY <1>14 DEF s
  <2>5. \A a \in 1 .. m + 1 : t[a] = fp.kinds[a]
    BY <1>2, <1>15, <2>3, <2>4
  <2> QED  BY <2>3, <2>5 DEF t
<1>17. ended' \in BOOLEAN /\ (ended' => \E a \in 1 .. m + 1 : fp.kinds[a] = 0)
  BY <1>2, <1>11, <1>14, <1>15
<1>18. ASSUME Honest, ended PROVE kind \notin {2, 3}
  <2>1. PICK a \in 1 .. m : fp.kinds[a] = 0
    BY <1>14, <1>18
  <2>2. a \in DOMAIN fp.kinds /\ m + 1 \in DOMAIN fp.kinds /\ a < m + 1
    BY <1>0, <1>1, <1>2 DEF FpType, N
  <2> QED  BY <1>15, <1>18, <2>1, <2>2, Zenon DEF Honest, SYN!EndOfList, SYN!MSS, SYN!WindowScale
<1>19. ASSUME NEW what, NEW given
       PROVE  (IF kind = what THEN given ELSE Noted(m, what, given)) = Noted(m + 1, what, given)
  <2>1. (\E a \in 1 .. m + 1 : fp.kinds[a] = what) <=> (\E a \in 1 .. m : fp.kinds[a] = what) \/ kind = what
    BY <1>2, <1>15
  <2> QED  BY <2>1, Zenon DEF Noted
<1>20. ASSUME Honest
       PROVE  seen'.mss = Noted(m + 1, 2, fp.mss) /\ seen'.scale = Noted(m + 1, 3, fp.scale)
  <2>1. mss = (IF kind = 2 THEN fp.mss ELSE seen.mss) /\ scale = (IF kind = 3 THEN fp.scale ELSE seen.scale)
    BY <1>9, <1>10, <1>18, <1>20, Zenon
  <2>2. seen'.mss = mss /\ seen'.scale = scale
    BY <1>11
  <2>3. seen.mss = Noted(m, 2, fp.mss) /\ seen.scale = Noted(m, 3, fp.scale)
    BY <1>14, <1>20, Zenon
  <2> HIDE DEF mss, scale
  <2>4. mss = Noted(m + 1, 2, fp.mss)
    BY <1>19, <2>1, <2>3
  <2>5. scale = Noted(m + 1, 3, fp.scale)
    BY <1>19, <2>1, <2>3
  <2> QED  BY <2>2, <2>4, <2>5, Zenon
<1>21. /\ DOMAIN seen' = {"kinds", "mss", "scale"}
       /\ seen' = [kinds |-> seen'.kinds, mss |-> seen'.mss, scale |-> seen'.scale]
  BY <1>11
<1>22. Listened(m + 1)'
  <2>1. fp' = fp
    BY <1>1
  <2>2. Before(m + 1)' = Before(m + 1) /\ Honest' = Honest
    BY <2>1, SameFingerprint, Zenon
  <2>3. (Honest => seen.mss = Noted(m + 1, 2, fp.mss) /\ seen.scale = Noted(m + 1, 3, fp.scale))'
    BY <1>20, <2>1, <2>2, Zenon DEF Noted
  <2>4. (ended => \E a \in 1 .. m + 1 : fp.kinds[a] = 0)'
    BY <1>17, <2>1, Zenon
  <2>5. (at = Len(Before(m + 1)) + 1)'
    BY <1>13, <2>2, Zenon
  <2>6. (\A a \in 1 .. m + 1 : seen.kinds[a] = fp.kinds[a])'
    BY <1>16, <2>1, Zenon
  <2>7. (m + 1 \in 0 .. Len(fp.kinds))'
    BY <1>2, <1>3, <2>1 DEF N
  <2>8. (seen.kinds \in Seq(Nat) /\ Len(seen.kinds) = m + 1 /\ ended \in BOOLEAN)'
    BY <1>16, <1>17, Zenon
  <2>9. (/\ DOMAIN seen = {"kinds", "mss", "scale"}
         /\ seen = [kinds |-> seen.kinds, mss |-> seen.mss, scale |-> seen.scale])'
    BY <1>21, Zenon
  <2> QED  BY <2>3, <2>4, <2>5, <2>6, <2>7, <2>8, <2>9, Zenon
           DEF Listened, SYN!EndOfList, SYN!MSS, SYN!WindowScale
<1>23. Len(seen.kinds)' = m + 1
  BY <1>16
<1>24. FpType' /\ SYN!Valid' /\ Crafted' /\ pc' = "read"
  BY <1>1, SameFingerprint, Zenon DEF FpType, Crafted
<1> QED  BY <1>22, <1>23, <1>24, Zenon DEF SYNInv

LEMMA SYNMoves ==
  ASSUME SYNInv, SYN!Next
  PROVE  SYNInv'
<1>1. CASE SYN!ParseJA4T
  <2>1. /\ UNCHANGED <<fp, syn, at, ended, seen>> /\ FpType /\ Fresh
        /\ pc' = IF SYN!Valid THEN "craft" ELSE "rejected"
    BY <1>1 DEF SYN!ParseJA4T, SYNInv
  <2>2. FpType' /\ Fresh'
    BY <2>1 DEF FpType, Fresh
  <2>3. SYN!Valid' = SYN!Valid
    BY <2>1, SameFingerprint, Zenon
  <2> QED  BY <2>1, <2>2, <2>3 DEF SYNInv
<1>2. CASE SYN!Craft
  <2>1. /\ UNCHANGED <<fp, at, ended, seen>> /\ pc' = "read" /\ pc = "craft" /\ FpType /\ Fresh /\ SYN!Valid
        /\ syn' = [window |-> fp.window, options |-> SYN!TCPOptions,
                   offset |-> (5 + (Len(SYN!TCPOptions) \div 4)) % 16]
    BY <1>2 DEF SYN!Craft, SYNInv
  <2>2. FpType' /\ Crafted' /\ SYN!Valid'
    BY <2>1, SameFingerprint, Zenon DEF FpType, Crafted
  <2>3. Before(0)' = << >> /\ Len(fp.kinds) \in Nat
    <3>1. Len(fp.kinds) \in Nat /\ 0 \in 0 .. Len(fp.kinds)
      BY <2>1 DEF FpType
    <3> QED  BY <2>1, <3>1, BeforeIs, SameFingerprint, Zenon
  <2>4. seen'.kinds = << >> /\ Len(seen'.kinds) = 0
    BY <2>1 DEF Fresh
  <2>5. Listened(0)'
    <3>1. /\ at' = 1 /\ ended' = FALSE /\ seen'.kinds = << >> /\ seen'.mss = 0 /\ seen'.scale = 0
          /\ DOMAIN seen' = {"kinds", "mss", "scale"}
          /\ seen' = [kinds |-> seen'.kinds, mss |-> seen'.mss, scale |-> seen'.scale] /\ fp' = fp
      BY <2>1 DEF Fresh
    <3>2. at' = Len(Before(0)') + 1 /\ 0 \in 0 .. Len(fp'.kinds)
      BY <2>3, <3>1
    <3>3. << >> \in Seq(Nat) /\ 1 .. 0 = {}
      OBVIOUS
    <3>4. \A kind, value : Noted(0, kind, value)' = 0
      BY <3>3 DEF Noted
    <3> QED  BY <2>4, <3>1, <3>2, <3>3, <3>4, Zenon DEF Listened
  <2> QED  BY <2>1, <2>2, <2>4, <2>5 DEF SYNInv
<1>3. CASE SYN!ReadOption
  BY <1>3, OptionRead
<1>4. CASE SYN!ReadDone
  <2>1. /\ UNCHANGED <<fp, syn, at, ended, seen>> /\ pc' = "done" /\ pc = "read" /\ at > SYN!HeaderEnd
        /\ FpType /\ SYN!Valid /\ Crafted /\ Listened(Len(seen.kinds))
    BY <1>4 DEF SYN!ReadDone, SYNInv
  <2>2. FpType' /\ Crafted' /\ SYN!Valid' /\ Listened(Len(seen.kinds))' /\ (at > SYN!HeaderEnd)'
    BY <2>1, SameListening
  <2> QED  BY <2>1, <2>2, Zenon DEF SYNInv
<1> QED  BY <1>1, <1>2, <1>3, <1>4 DEF SYN!Next

LEMMA SYNStays ==
  ASSUME SYNInv, UNCHANGED <<pc, ofSYN>>
  PROVE  SYNInv'
<1>1. UNCHANGED <<pc, fp, syn, at, ended, seen>>
  BY DEF ofSYN
<1>2. SYN!Valid' = SYN!Valid /\ Listened(Len(seen.kinds))' = Listened(Len(seen.kinds)) /\ Crafted' = Crafted
  BY <1>1, SameListening
<1> QED  BY <1>1, <1>2, Zenon DEF SYNInv, FpType, Fresh, SYN!HeaderEnd

LEMMA SYNSafe ==
  ASSUME SYNInv
  PROVE  SYN!TypeOK /\ SYN!FittingFingerprintIsSeen
<1>1. CASE pc \in {"parse", "craft", "rejected"}
  <2>1. syn = [window |-> 0, offset |-> 5, options |-> << >>] /\ at = 1 /\ ended = FALSE
    BY <1>1 DEF SYNInv, Fresh
  <2>2. 0 \in 0 .. SYN!MaxUint16 /\ 5 \in 0 .. 15 /\ DOMAIN << >> = {} /\ Len(<< >>) % 4 = 0 /\ 1 \in 1 .. Len(<< >>) + 1
    BY Limits
  <2>3. /\ syn.window = 0 /\ syn.offset = 5 /\ syn.options = << >>
    BY <2>1
  <2>4. SYN!TypeOK
    BY <1>1, <2>1, <2>2, <2>3 DEF SYN!TypeOK
  <2> QED  BY <1>1, <2>4 DEF SYN!FittingFingerprintIsSeen
<1>2. CASE pc \in {"read", "done"}
  <2> DEFINE m == Len(seen.kinds)
             N == Len(fp.kinds)
             T == SYN!TCPOptions
  <2>1. FpType /\ SYN!Valid /\ Crafted /\ Listened(m) /\ (pc = "done" => at > SYN!HeaderEnd)
    BY <1>2 DEF SYNInv
  <2>2. /\ m \in 0 .. N /\ m \in Nat /\ N \in Nat /\ at = Len(Before(m)) + 1 /\ ended \in BOOLEAN
        /\ N \in 0 .. N
    BY <2>1 DEF Listened, FpType
  <2>3. T \in Seq(Bytes) /\ Before(m) \in Seq(Bytes) /\ Before(N) = T /\ Len(Before(m)) \in Nat /\ Len(T) \in Nat
    <3>1. T \in Seq(Bytes) /\ Before(m) \in Seq(Bytes) /\ Before(N) = T
      BY <2>1, <2>2, BeforeIs, Zenon
    <3> QED  BY <3>1
  <2>4. m < N => Len(Before(m)) < Len(T)
    BY <2>1, <2>2, BeforeIs, Zenon
  <2>5. SYN!TypeOK
    <3>1. Len(T) % 4 = 0
      BY <2>1 DEF SYN!Valid, SYN!Aligned
    <3>2. at \in 1 .. Len(T) + 1
      <4>1. CASE m < N
        BY <2>2, <2>3, <2>4, <4>1
      <4>2. CASE m = N
        <5>1. at = Len(T) + 1
          BY <2>2, <2>3, <4>2
        <5> QED  BY <2>3, <5>1
      <4> QED  BY <2>2, <4>1, <4>2
    <3>3. fp.window \in 0 .. SYN!MaxUint16
      BY <2>1, GivenIs DEF Words
    <3>4. (5 + (Len(T) \div 4)) % 16 \in 0 .. 15
      <4>1. ASSUME NEW l \in Nat PROVE (5 + (l \div 4)) % 16 \in 0 .. 15
        OBVIOUS
      <4> QED  BY <2>3, <4>1
    <3>5. \A k1 \in DOMAIN T : T[k1] \in 0 .. SYN!MaxUint8
      <4>1. ASSUME NEW S, NEW s \in Seq(S) PROVE \A k1 \in DOMAIN s : s[k1] \in S
        OBVIOUS
      <4> QED  BY <2>3, <4>1, Zenon DEF Bytes
    <3>6. syn.window = fp.window /\ syn.options = T /\ syn.offset = (5 + (Len(T) \div 4)) % 16
      BY <2>1 DEF Crafted
    <3> QED  BY <1>2, <2>2, <3>1, <3>2, <3>3, <3>4, <3>5, <3>6, Zenon DEF SYN!TypeOK, SYN!Byte
  <2>6. ASSUME pc = "done", Len(T) <= 40, Honest
        PROVE  SYN!SeesFingerprint
    <3>1. m = N
      <4>1. SYN!HeaderEnd = Len(T)
        BY <2>1, <2>6, HeaderEndIs
      <4>2. at > Len(T)
        BY <2>1, <2>6, <4>1
      <4> QED  BY <2>2, <2>3, <2>4, <4>2
    <3>2. /\ seen.kinds \in Seq(Nat) /\ fp.kinds \in Seq(Nat) /\ Len(seen.kinds) = Len(fp.kinds)
          /\ \A a \in 1 .. Len(fp.kinds) : seen.kinds[a] = fp.kinds[a]
      BY <2>1, <3>1, Zenon DEF Listened, FpType
    <3>3. seen.kinds = fp.kinds
      <4>1. ASSUME NEW s \in Seq(Nat), NEW t \in Seq(Nat), Len(s) = Len(t), \A a \in 1 .. Len(t) : s[a] = t[a]
            PROVE  s = t
        BY <4>1, SeqEqual
      <4> QED  BY <3>2, <4>1, Zenon
    <3>4. seen.mss = Noted(N, SYN!MSS, fp.mss) /\ seen.scale = Noted(N, SYN!WindowScale, fp.scale)
      BY <2>1, <2>6, <3>1 DEF Listened
    <3>5. DOMAIN fp.kinds = 1 .. N
      BY <3>2
    <3>6. seen.mss = fp.mss /\ seen.scale = fp.scale
      BY <2>1, <3>4, <3>5, Zenon DEF SYN!Valid, SYN!HasKind, Noted
    <3>7. seen = [kinds |-> seen.kinds, mss |-> seen.mss, scale |-> seen.scale] /\ syn.window = fp.window
      BY <2>1 DEF Listened, Crafted
    <3> QED  BY <3>3, <3>6, <3>7, Zenon DEF SYN!SeesFingerprint
  <2> QED  BY <2>5, <2>6, Zenon DEF SYN!FittingFingerprintIsSeen, Honest
<1> QED  BY <1>1, <1>2 DEF SYNInv

LEMMA SYNInvariance == Spec => [](part = "syn" => SYNInv)
<1>1. Init => (part = "syn" => SYNInv)
  BY SYNStarts DEF Init
<1>2. ASSUME part = "syn" => SYNInv, [Next]_vars PROVE (part = "syn" => SYNInv)'
  <2>1. CASE SYNStep
    BY <1>2, <2>1, SYNMoves DEF SYNStep
  <2>2. CASE ArgumentsStep \/ URLsStep \/ RequestStep \/ HelloStep
    BY <2>2 DEF ArgumentsStep, URLsStep, RequestStep, HelloStep
  <2>3. CASE UNCHANGED vars
    BY <1>2, <2>3, SYNStays DEF vars
  <2> QED  BY <1>2, <2>1, <2>2, <2>3 DEF Next
<1> QED  BY <1>1, <1>2, PTL DEF Spec

\* Whatever fingerprint is given, of any number of options, a listener reads it
\* off the SYN if it fits the header and hides no value behind an end-of-list.
THEOREM FingerprintIsSeen == Spec => []FittingFingerprintIsSeen
<1>1. (part = "syn" => SYNInv) => FittingFingerprintIsSeen
  BY SYNSafe DEF FittingFingerprintIsSeen
<1> QED  BY <1>1, SYNInvariance, PTL

-----------------------------------------------------------------------------
(* The ClientHello.  What is collected from a list of extensions is a        *)
(* FlatMap, so it is that of the parts when the list is put together.        *)

BodyOf(A, kind) == [e \in A |-> IF e.kind = kind THEN << e.body >> ELSE << >>]
OtherThan(A, kind) == [e \in A |-> IF e.kind = kind THEN << >> ELSE << e >>]
KindOf(A) == [e \in A |-> IF e.kind \in {"alpn", "added"} THEN << >> ELSE << e.kind >>]

LEMMA CollectedIs ==
  ASSUME NEW A, NEW kind
  PROVE  /\ BodyOf(A, kind) \in [A -> Seq({e.body : e \in A})]
         /\ OtherThan(A, kind) \in [A -> Seq({e \in A : e.kind # kind})]
         /\ KindOf(A) \in [A -> Seq({e.kind : e \in A})]
         /\ \A list \in Seq(A) : /\ Hello!Bodies(list, kind) = FlatMap(BodyOf(A, kind), list)
                                 /\ Hello!Without(list, kind) = FlatMap(OtherThan(A, kind), list)
                                 /\ Hello!Untouched(list) = FlatMap(KindOf(A), list)
<1>0. ASSUME NEW S, NEW x \in S PROVE << x >> \in Seq(S) /\ << >> \in Seq(S)
  OBVIOUS
<1>1. \A e \in A : BodyOf(A, kind)[e] \in Seq({e1.body : e1 \in A})
  BY <1>0, Zenon DEF BodyOf
<1>2. \A e \in A : OtherThan(A, kind)[e] \in Seq({e1 \in A : e1.kind # kind})
  <2> DEFINE S == {e1 \in A : e1.kind # kind}
  <2>1. << >> \in Seq(S)
    OBVIOUS
  <2>2. \A e \in S : << e >> \in Seq(S)
    BY <1>0, Zenon
  <2>3. \A e \in A : e.kind # kind => e \in S
    OBVIOUS
  <2> HIDE DEF S
  <2>4. \A e \in A : OtherThan(A, kind)[e] \in Seq(S)
    BY <2>1, <2>2, <2>3, Zenon DEF OtherThan
  <2> QED  BY <2>4 DEF S
<1>3. \A e \in A : KindOf(A)[e] \in Seq({e1.kind : e1 \in A})
  BY <1>0, Zenon DEF KindOf
<1>4. ASSUME NEW list \in Seq(A)
      PROVE  /\ Hello!Bodies(list, kind) = FlatMap(BodyOf(A, kind), list)
             /\ Hello!Without(list, kind) = FlatMap(OtherThan(A, kind), list)
             /\ Hello!Untouched(list) = FlatMap(KindOf(A), list)
  <2>1. \A m \in DOMAIN list : list[m] \in A
    OBVIOUS
  <2>2. \A s : Hello!FlattenSeq(s) = FlattenSeq(s)
    BY Zenon DEF Hello!FlattenSeq, FlattenSeq
  <2>3. [m \in DOMAIN list |-> IF list[m].kind = kind THEN << list[m].body >> ELSE << >>]
          = [m \in DOMAIN list |-> BodyOf(A, kind)[list[m]]]
    BY <2>1, Zenon DEF BodyOf
  <2>4. [m \in DOMAIN list |-> IF list[m].kind = kind THEN << >> ELSE << list[m] >>]
          = [m \in DOMAIN list |-> OtherThan(A, kind)[list[m]]]
    BY <2>1, Zenon DEF OtherThan
  <2>5. [m \in DOMAIN list |-> IF list[m].kind \in {"alpn", "added"} THEN << >> ELSE << list[m].kind >>]
          = [m \in DOMAIN list |-> KindOf(A)[list[m]]]
    BY <2>1, Zenon DEF KindOf
  <2> QED  BY <2>2, <2>3, <2>4, <2>5, Zenon DEF Hello!Bodies, Hello!Without, Hello!Untouched, FlatMap
<1>5. BodyOf(A, kind) = [e \in A |-> BodyOf(A, kind)[e]] /\ OtherThan(A, kind) = [e \in A |-> OtherThan(A, kind)[e]]
      /\ KindOf(A) = [e \in A |-> KindOf(A)[e]]
  BY Zenon DEF BodyOf, OtherThan, KindOf
<1> QED  BY <1>1, <1>2, <1>3, <1>4, <1>5

Joins(A, a, b, kind) ==
  /\ Hello!Bodies(a \o b, kind) = Hello!Bodies(a, kind) \o Hello!Bodies(b, kind)
  /\ Hello!Untouched(a \o b) = Hello!Untouched(a) \o Hello!Untouched(b)
  /\ Hello!Bodies(a, kind) \in Seq({e.body : e \in A})
  /\ Hello!Untouched(a) \in Seq({e.kind : e \in A})

LEMMA CollectedJoin ==
  ASSUME NEW A, NEW kind, NEW a \in Seq(A), NEW b \in Seq(A)
  PROVE  Joins(A, a, b, kind)
<1> DEFINE f == BodyOf(A, kind)
           g == KindOf(A)
           S == {e.body : e \in A}
           T == {e.kind : e \in A}
<1>1. f \in [A -> Seq(S)] /\ g \in [A -> Seq(T)] /\ a \o b \in Seq(A)
  <2>1. a \o b \in Seq(A)
    OBVIOUS
  <2> QED  BY <2>1, CollectedIs, Zenon
<1>2. \A list \in Seq(A) : Hello!Bodies(list, kind) = FlatMap(f, list) /\ Hello!Untouched(list) = FlatMap(g, list)
  BY CollectedIs
<1> HIDE DEF f, g, S, T
<1>a. f \in [A -> Seq(S)]
  BY <1>1
<1>b. g \in [A -> Seq(T)]
  BY <1>1
<1>3. FlatMap(f, a \o b) = FlatMap(f, a) \o FlatMap(f, b)
  BY <1>a, FlatMapJoin
<1>4. FlatMap(g, a \o b) = FlatMap(g, a) \o FlatMap(g, b)
  BY <1>b, FlatMapJoin
<1>5. FlatMap(f, a) \in Seq(S)
  BY <1>1, FlatMapType
<1>6. FlatMap(g, a) \in Seq(T)
  BY <1>1, FlatMapType
<1> QED  BY <1>1, <1>2, <1>3, <1>4, <1>5, <1>6, Zenon DEF S, T, Joins

\* Parts that have nothing of a kind, or nothing that is untouched.
LEMMA CollectedNone ==
  ASSUME NEW A, NEW kind, NEW a \in Seq(A)
  PROVE  /\ (\A m \in DOMAIN a : a[m].kind # kind) => Hello!Bodies(a, kind) = << >>
         /\ (\A m \in DOMAIN a : a[m].kind \in {"alpn", "added"}) => Hello!Untouched(a) = << >>
<1>1. DOMAIN a = 1 .. Len(a) /\ Len(a) \in Nat
  OBVIOUS
<1>2. \A s : Hello!FlattenSeq(s) = FlattenSeq(s)
  BY Zenon DEF Hello!FlattenSeq, FlattenSeq
<1> DEFINE e == [m \in DOMAIN a |-> << >>]
<1>3. e \in [1 .. Len(a) -> {<< >>}]
  BY <1>1
<1>4. e \in Seq({<< >>})
  BY <1>1, <1>3, SeqDef
<1>5. FlattenSeq(e) = << >>
  <2> HIDE DEF e
  <2> QED  BY <1>4, FlattenOfEmpties
<1>6. ASSUME \A m \in DOMAIN a : a[m].kind # kind PROVE Hello!Bodies(a, kind) = << >>
  <2>1. [m \in DOMAIN a |-> IF a[m].kind = kind THEN << a[m].body >> ELSE << >>] = e
    BY <1>6, Zenon
  <2> QED  BY <1>2, <1>5, <2>1, Zenon DEF Hello!Bodies
<1>7. ASSUME \A m \in DOMAIN a : a[m].kind \in {"alpn", "added"} PROVE Hello!Untouched(a) = << >>
  <2>1. [m \in DOMAIN a |-> IF a[m].kind \in {"alpn", "added"} THEN << >> ELSE << a[m].kind >>] = e
    BY <1>7, Zenon
  <2> QED  BY <1>2, <1>5, <2>1, Zenon DEF Hello!Untouched
<1> QED  BY <1>6, <1>7

\* Leaving out a kind: nothing of it is left, and the rest as it was.
LEMMA CollectedWithout ==
  ASSUME NEW A, NEW a, a \in Seq(A), NEW kind
  PROVE  /\ Hello!Without(a, "alpn") \in Seq({e \in A : e.kind # "alpn"})
         /\ kind # "alpn" => Hello!Bodies(Hello!Without(a, "alpn"), kind) = Hello!Bodies(a, kind)
         /\ Hello!Untouched(Hello!Without(a, "alpn")) = Hello!Untouched(a)
<1> DEFINE f == BodyOf(A, kind)
           g == KindOf(A)
           h == OtherThan(A, "alpn")
           S == {e.body : e \in A}
           T == {e.kind : e \in A}
           U == {e \in A : e.kind # "alpn"}
<1>1. f \in [A -> Seq(S)]
  BY CollectedIs
<1>2. g \in [A -> Seq(T)]
  BY CollectedIs
<1>3. h \in [A -> Seq(U)]
  BY CollectedIs
<1>4. \A list \in Seq(A) : Hello!Bodies(list, kind) = FlatMap(f, list) /\ Hello!Untouched(list) = FlatMap(g, list)
                           /\ Hello!Without(list, "alpn") = FlatMap(h, list)
  BY CollectedIs
<1>5. U \subseteq A /\ Seq(U) \subseteq Seq(A)
  BY SeqMonotonic
<1>6. \A e \in A : f[e] = (IF e.kind = kind THEN << e.body >> ELSE << >>) /\ h[e] = (IF e.kind = "alpn" THEN << >> ELSE << e >>)
                   /\ g[e] = (IF e.kind \in {"alpn", "added"} THEN << >> ELSE << e.kind >>)
  BY Zenon DEF BodyOf, OtherThan, KindOf
<1> HIDE DEF f, g, h, S, T, U
<1>7. FlatMap(h, a) \in Seq(U)
  BY <1>3, FlatMapType
<1>8. ASSUME kind # "alpn" PROVE FlatMap(f, FlatMap(h, a)) = FlatMap(f, a)
  <2>1. FlatMap(f, << >>) = << >> /\ \A e \in A : FlatMap(f, << e >>) = f[e]
    BY <1>1, FlatMapEnds
  <2>2. \A e \in A : FlatMap(f, h[e]) = f[e]
    BY <1>6, <1>8, <2>1, Zenon
  <2>3. U \subseteq A
    BY <1>5
  <2>4. FilterKeeps(f, h, a)
    BY <1>1, <1>3, <2>2, <2>3, FlatMapFilter, Zenon
  <2> QED  BY <2>4 DEF FilterKeeps
<1>9. FlatMap(g, FlatMap(h, a)) = FlatMap(g, a)
  <2>1. FlatMap(g, << >>) = << >> /\ \A e \in A : FlatMap(g, << e >>) = g[e]
    BY <1>2, FlatMapEnds
  <2>2. \A e \in A : FlatMap(g, h[e]) = g[e]
    BY <1>6, <2>1, Zenon
  <2>3. U \subseteq A
    BY <1>5
  <2>4. FilterKeeps(g, h, a)
    BY <1>2, <1>3, <2>2, <2>3, FlatMapFilter, Zenon
  <2> QED  BY <2>4 DEF FilterKeeps
<1>10. /\ Hello!Without(a, "alpn") = FlatMap(h, a) /\ FlatMap(h, a) \in Seq(A)
       /\ Hello!Bodies(a, kind) = FlatMap(f, a) /\ Hello!Untouched(a) = FlatMap(g, a)
  BY <1>4, <1>5, <1>7, Zenon
<1>11. /\ Hello!Bodies(FlatMap(h, a), kind) = FlatMap(f, FlatMap(h, a))
       /\ Hello!Untouched(FlatMap(h, a)) = FlatMap(g, FlatMap(h, a))
  BY <1>4, <1>10, Zenon
<1> QED  BY <1>7, <1>8, <1>9, <1>10, <1>11, Zenon DEF U

\* Giving the first extension of a kind another body.
SameBut(A, a, e, b, kind) ==
  /\ b \in Seq(A \cup {e}) /\ DOMAIN b = DOMAIN a /\ \A r \in DOMAIN a : b[r].kind = a[r].kind
  /\ kind # e.kind => Hello!Bodies(b, kind) = Hello!Bodies(a, kind)
  /\ Hello!Untouched(b) = Hello!Untouched(a)
  /\ Hello!Body(b, e.kind) = e.body

LEMMA CollectedReplaced ==
  ASSUME NEW A, NEW a \in Seq(A), NEW m \in DOMAIN a, NEW e, NEW b, b = [a EXCEPT ![m] = e],
         e.kind = a[m].kind, \A r \in DOMAIN a : r < m => a[r].kind # e.kind, NEW kind
  PROVE  SameBut(A, a, e, b, kind)
<1> DEFINE C == A \cup {e}
           N == Len(a)
<1>1. N \in Nat /\ DOMAIN a = 1 .. N /\ \A r \in 1 .. N : a[r] \in C
  OBVIOUS
<1>2. DOMAIN b = 1 .. N /\ \A r \in 1 .. N : b[r] = IF r = m THEN e ELSE a[r]
  BY <1>1
<1>3. b = [r \in 1 .. N |-> b[r]]
  BY <1>1
<1> HIDE DEF N
<1>4. b \in [1 .. N -> C]
  BY <1>1, <1>2, <1>3
<1>5. b \in Seq(C)
  BY <1>1, <1>4, SeqDef
<1>6. \A r \in DOMAIN a : b[r].kind = a[r].kind
  BY <1>1, <1>2
<1>7. \A s : Hello!FlattenSeq(s) = FlattenSeq(s)
  BY Zenon DEF Hello!FlattenSeq, FlattenSeq
<1>8. Hello!Untouched(b) = Hello!Untouched(a)
  BY <1>1, <1>2, <1>6, Zenon DEF Hello!Untouched
<1>9. ASSUME kind # e.kind PROVE Hello!Bodies(b, kind) = Hello!Bodies(a, kind)
  <2>1. \A r \in DOMAIN a : (IF a[r].kind = kind THEN << a[r].body >> ELSE << >>)
                            = (IF b[r].kind = kind THEN << b[r].body >> ELSE << >>)
    BY <1>1, <1>2, <1>9, Zenon
  <2> QED  BY <1>1, <1>2, <2>1, Zenon DEF Hello!Bodies
<1> DEFINE ss == [r \in DOMAIN b |-> IF b[r].kind = e.kind THEN << b[r].body >> ELSE << >>]
           S == {x.body : x \in C}
<1>10. ss \in Seq(Seq(S)) /\ DOMAIN ss = 1 .. N /\ Len(ss) = N
  <2>1. \A r \in 1 .. N : << b[r].body >> \in Seq(S) /\ << >> \in Seq(S)
    <3>1. ASSUME NEW B, NEW x \in B PROVE << x >> \in Seq(B) /\ << >> \in Seq(B)
      OBVIOUS
    <3>2. \A r \in 1 .. N : b[r] \in C
      BY <1>4
    <3>3. \A r \in 1 .. N : b[r].body \in S
      BY <3>2, Zenon
    <3> QED  BY <3>1, <3>3, Zenon
  <2>2. \A r \in 1 .. N : ss[r] \in Seq(S)
    <3> HIDE DEF S
    <3> QED  BY <1>2, <2>1, Zenon
  <2>3. ss = [r \in 1 .. N |-> ss[r]] /\ DOMAIN ss = 1 .. N
    BY <1>2, Zenon
  <2> HIDE DEF ss, S
  <2>4. ss \in [1 .. N -> Seq(S)]
    BY <2>2, <2>3
  <2> DEFINE B == Seq(S)
  <2>5. ss \in [1 .. N -> B]
    BY <2>4
  <2> HIDE DEF B
  <2>6. ss \in Seq(B) /\ Len(ss) = N
    BY <1>1, <2>5, SeqDef, LenProperties
  <2> QED  BY <2>3, <2>6 DEF B
<1>11. ss[m] = << e.body >> /\ \A r \in 1 .. m - 1 : ss[r] = << >>
  <2>1. m \in 1 .. N /\ \A r \in 1 .. m - 1 : r \in 1 .. N /\ r < m /\ r # m
    BY <1>1
  <2>2. ss[m] = << e.body >>
    BY <1>2, <2>1, Zenon
  <2>3. \A r \in 1 .. m - 1 : b[r].kind # e.kind
    BY <1>1, <1>2, <2>1, Zenon
  <2> QED  BY <1>2, <2>1, <2>2, <2>3, Zenon
<1>12. Hello!Bodies(b, e.kind) = FlattenSeq(ss)
  BY <1>7, Zenon DEF Hello!Bodies
<1> HIDE DEF ss, S
<1>13. 1 \in 1 .. Len(FlattenSeq(ss)) /\ FlattenSeq(ss)[1] = e.body
  <2>1. m \in 1 .. N /\ m - 1 \in 0 .. Len(ss) /\ m \in 1 .. Len(ss)
    BY <1>1, <1>10
  <2>2. SubSeq(ss, 1, m - 1) \in Seq({<< >>})
    <3>1. \A r \in 1 .. m - 1 : ss[r] \in {<< >>}
      BY <1>11
    <3> QED  BY <2>1, <3>1, SubSeqProperties
  <2>3. Len(FlattenSeq(SubSeq(ss, 1, m - 1))) = 0
    <3>1. FlattenSeq(SubSeq(ss, 1, m - 1)) = << >>
      BY <2>2, FlattenOfEmpties
    <3> QED  BY <3>1
  <2>4. 1 \in 1 .. Len(ss[m]) /\ ss[m][1] = e.body
    BY <1>11
  <2>5. /\ Len(FlattenSeq(SubSeq(ss, 1, m - 1))) + 1 \in 1 .. Len(FlattenSeq(ss))
        /\ FlattenSeq(ss)[Len(FlattenSeq(SubSeq(ss, 1, m - 1))) + 1] = ss[m][1]
    BY <1>10, <2>1, <2>4, FlattenAt, SMTT(30)
  <2>6. 0 + 1 = 1
    OBVIOUS
  <2> QED  BY <2>3, <2>4, <2>5, <2>6
<1>14. FlattenSeq(ss) # << >>
  <2>1. Len(<< >>) = 0
    OBVIOUS
  <2> QED  BY <1>13, <2>1
<1>15. Hello!Body(b, e.kind) = e.body
  BY <1>12, <1>13, <1>14, Zenon DEF Hello!Body
<1> QED  BY <1>1, <1>2, <1>5, <1>6, <1>8, <1>9, <1>15, Zenon DEF SameBut

\* Extensions in sight: a list of records with a known kind.
Laid(list) == \E A : list \in Seq(A) /\ \A e \in A : e.kind \in Hello!Kinds
OneALPN(list) == \A a, b \in DOMAIN list : list[a].kind = "alpn" /\ list[b].kind = "alpn" => a = b
NoneAdded(list) == \A a \in DOMAIN list : list[a].kind # "added"

\* What ParrotKept asks of the extensions that are sent.
KeptBy(list) ==
  /\ Hello!Untouched(list) = Hello!Untouched(preset.exts)
  /\ Hello!Bodies(list, "added") = opts.exts
  /\ \A a, b \in {m \in DOMAIN list : list[m].kind = "added"} :
       \A l \in a .. b : l \in {m \in DOMAIN list : list[m].kind = "added"}
  /\ \A a \in {m \in DOMAIN list : list[m].kind = "added"} :
     \A b \in {m \in DOMAIN list : Hello!MustStayLast(list[m])} : a < b
  /\ \A a \in {m \in DOMAIN list : list[m].kind = "added"} :
       {m \in DOMAIN list : Hello!MustStayLast(list[m])} # {} =>
         \E b \in {m \in DOMAIN list : Hello!MustStayLast(list[m])} :
         \A l \in a .. b - 1 : l \in {m \in DOMAIN list : list[m].kind = "added"}
Kept == KeptBy(exts)

AskedCiphers == ciphers = preset.ciphers \o opts.ciphers

\* A connection is closed if it failed.
ClosedIfFailed == closed <=> exit # 0

HelloTyped ==
  /\ opts \in Hello!Options /\ preset \in Presets /\ ciphers \in Seq(Nat)
  /\ pc \in {"start", "alpn", "versions", "extensions", "info", "handshake", "done"}
  /\ exit \in {0, 1, 28, 35, 60} /\ ClosedIfFailed
  /\ Laid(exts) /\ OneALPN(exts)

ProtocolIs == Hello!Spoken(proto) /\ (proto # "" => proto \in Hello!ToSet(alpn))

HelloInv ==
  /\ HelloTyped
  /\ alpn = Hello!Body(exts, "alpn") /\ versions = Hello!Body(exts, "versions")
  /\ pc # "done" => exit = 0
  /\ pc = "start" => exts = << >>
  /\ pc \notin {"start", "done"} => AskedCiphers
  /\ count = -1 \/ (count = Hello!CountNonGREASE(ciphers) /\ AskedCiphers /\ pc \in {"handshake", "done"})
  /\ pc \in {"alpn", "versions", "extensions"} =>
       NoneAdded(exts) /\ Hello!Untouched(exts) = Hello!Untouched(preset.exts)
  /\ pc \in {"info", "handshake", "done"} /\ exit # 35 /\ ~preset.golang /\ ~opts.extNone => Kept
  /\ pc = "done" /\ exit = 0 => ProtocolIs

LEMMA SameHello ==
  ASSUME UNCHANGED <<opts, preset, ciphers, exts>>
  PROVE  /\ Kept' = Kept /\ AskedCiphers' = AskedCiphers /\ Laid(exts)' = Laid(exts) /\ OneALPN(exts)' = OneALPN(exts)
         /\ NoneAdded(exts)' = NoneAdded(exts)
         /\ \A kind : Hello!Body(exts, kind)' = Hello!Body(exts, kind)
         /\ Hello!Untouched(exts)' = Hello!Untouched(exts)
         /\ Hello!Untouched(preset.exts)' = Hello!Untouched(preset.exts)
         /\ Hello!CountNonGREASE(ciphers)' = Hello!CountNonGREASE(ciphers)
         /\ (opts \in Hello!Options)' = (opts \in Hello!Options)
<1>1. Hello!Untouched(exts)' = Hello!Untouched(exts) /\ Hello!Untouched(preset.exts)' = Hello!Untouched(preset.exts)
  BY Zenon DEF Hello!Untouched
<1>2. \A kind : Hello!Bodies(exts, kind)' = Hello!Bodies(exts, kind) /\ Hello!Body(exts, kind)' = Hello!Body(exts, kind)
  BY Zenon DEF Hello!Bodies, Hello!Body
<1>3. Kept' = Kept
  BY <1>1, <1>2, ZenonT(60) DEF Kept, KeptBy, Hello!MustStayLast
<1>4. Hello!CountNonGREASE(ciphers)' = Hello!CountNonGREASE(ciphers)
  BY Zenon DEF Hello!CountNonGREASE, Hello!IsGREASE
<1>5. (opts \in Hello!Options)' = (opts \in Hello!Options)
  BY Zenon DEF Hello!Options
<1>6. /\ AskedCiphers' = AskedCiphers /\ Laid(exts)' = Laid(exts) /\ OneALPN(exts)' = OneALPN(exts)
      /\ NoneAdded(exts)' = NoneAdded(exts)
  BY Zenon DEF AskedCiphers, Laid, OneALPN, NoneAdded
<1> QED  BY <1>1, <1>2, <1>3, <1>4, <1>5, <1>6, Zenon

\* What is known of a preset, and of the options.
LEMMA PresetIs ==
  ASSUME HelloTyped
  PROVE  /\ Laid(preset.exts) /\ OneALPN(preset.exts) /\ NoneAdded(preset.exts)
         /\ preset.golang => \A a \in DOMAIN preset.exts : preset.exts[a].kind # "alpn"
         /\ preset.ciphers \in Seq(Nat) /\ opts.ciphers \in Seq(Nat) /\ opts.exts \in Seq(Nat)
<1>1. /\ preset.ciphers \in Seq(Nat) /\ preset.exts \in Seq(ToSet(preset.exts))
      /\ \A a \in DOMAIN preset.exts : preset.exts[a].kind \in Hello!Kinds \ {"added"}
      /\ \A a, b \in DOMAIN preset.exts :
           preset.exts[a].kind = "alpn" /\ preset.exts[b].kind = "alpn" => a = b /\ ~preset.golang
      /\ OptCiphers \subseteq Seq(Nat) /\ OptExts \subseteq Seq(Nat)
  <2>1. Hello!ToSet(preset.exts) = ToSet(preset.exts)
    BY Zenon DEF Hello!ToSet, ToSet
  <2> QED  BY <2>1, HelloAssumption, Zenon DEF HelloTyped, Hello!ClientHelloAssumption
<1>2. Laid(preset.exts)
  <2>1. \A e \in ToSet(preset.exts) : e.kind \in Hello!Kinds
    BY <1>1, Zenon DEF ToSet
  <2> QED  BY <1>1, <2>1, Zenon DEF Laid
<1>3. opts.ciphers \in OptCiphers /\ opts.exts \in OptExts
  BY DEF HelloTyped, Hello!Options
<1> QED  BY <1>1, <1>2, <1>3 DEF OneALPN, NoneAdded

LEMMA FirstIs ==
  ASSUME HelloTyped, NEW kind
  PROVE  /\ Hello!First(kind) # 0 => /\ Hello!First(kind) \in DOMAIN exts /\ exts[Hello!First(kind)].kind = kind
                                     /\ \A r \in DOMAIN exts : r < Hello!First(kind) => exts[r].kind # kind
         /\ Hello!First(kind) = 0 => \A r \in DOMAIN exts : exts[r].kind # kind
<1> DEFINE T == {m \in 1 .. Len(exts) : exts[m].kind = kind}
<1>1. Hello!First(kind) = IF T # {} THEN Hello!Min(T) ELSE 0
  BY Zenon DEF Hello!First, Hello!SelectInSeq
<1>2. DOMAIN exts = 1 .. Len(exts) /\ Len(exts) \in Nat
  BY DEF HelloTyped, Laid
<1>3. T \subseteq Nat
  OBVIOUS
<1>4. ASSUME T # {} PROVE Hello!Min(T) \in T /\ \A r \in T : Hello!Min(T) <= r
  <2> HIDE DEF T
  <2>1. \E m \in T : \A r \in T : m <= r
    BY <1>3, <1>4, LeastElement
  <2> QED  BY <2>1, Zenon DEF Hello!Min
<1>5. CASE T # {}
  <2> DEFINE m == Hello!First(kind)
  <2>1. m \in T /\ \A r \in T : m <= r
    BY <1>1, <1>4, <1>5
  <2>2. \A r \in DOMAIN exts : r < m => r \notin T
    <3> HIDE DEF T, m
    <3>1. \A r \in T : r \in Nat /\ m \in Nat /\ m <= r
      BY <1>3, <2>1
    <3> QED  BY <3>1
  <2> HIDE DEF m
  <2> QED  BY <1>2, <2>1, <2>2 DEF m
<1>6. CASE T = {}
  BY <1>1, <1>2, <1>6
<1> QED  BY <1>5, <1>6

LEMMA BodyFollows ==
  ASSUME NEW a, NEW b, NEW kind, Hello!Bodies(a, kind) = Hello!Bodies(b, kind)
  PROVE  Hello!Body(a, kind) = Hello!Body(b, kind)
BY Zenon DEF Hello!Body

\* Another ALPN extension behind the last.
WithALPN(list, body) == Append(list, Hello!Ext("alpn", body))
Offers(more, list, body) ==
  /\ Laid(more) /\ OneALPN(more) /\ (NoneAdded(list) => NoneAdded(more))
  /\ Hello!Body(more, "alpn") = body
  /\ Hello!Body(more, "versions") = Hello!Body(list, "versions")
  /\ Hello!Untouched(more) = Hello!Untouched(list)

LEMMA ALPNAppended ==
  ASSUME NEW list, Laid(list), \A a \in DOMAIN list : list[a].kind # "alpn", NEW body
  PROVE  Offers(WithALPN(list, body), list, body)
<1> DEFINE e == Hello!Ext("alpn", body)
           B == ToSet(list)
<1>1. PICK A : list \in Seq(A) /\ \A x \in A : x.kind \in Hello!Kinds
  BY DEF Laid
<1>2. e.kind = "alpn" /\ e.body = body /\ e.kind \in Hello!Kinds
  BY DEF Hello!Ext, Hello!Kinds
<1> HIDE DEF e
<1> DEFINE C == A \cup {e}
           one == << e >>
<1>3. list \in Seq(C) /\ one \in Seq(C) /\ Append(list, e) = list \o one /\ Append(list, e) \in Seq(C)
      /\ \A m \in DOMAIN one : one[m] = e
  BY <1>1
<1>4. Laid(Append(list, e))
  <2>1. \A x \in C : x.kind \in Hello!Kinds
    BY <1>1, <1>2
  <2> HIDE DEF C
  <2> QED  BY <1>3, <2>1, Zenon DEF Laid
<1> DEFINE N == Len(list)
<1>5. /\ N \in Nat /\ DOMAIN list = 1 .. N /\ DOMAIN Append(list, e) = 1 .. N + 1
      /\ \A m \in 1 .. N : Append(list, e)[m] = list[m]
      /\ Append(list, e)[N + 1] = e
  BY <1>1
<1>6. OneALPN(Append(list, e))
  <2>1. \A m \in 1 .. N + 1 : Append(list, e)[m].kind = "alpn" => m = N + 1
    <3>1. \A m \in 1 .. N + 1 : m # N + 1 => m \in 1 .. N
      BY <1>5
    <3> QED  BY <1>5, <3>1, Zenon
  <2> QED  BY <1>5, <2>1, Zenon DEF OneALPN
<1>7. NoneAdded(list) => NoneAdded(Append(list, e))
  <2>1. \A m \in 1 .. N + 1 : m # N + 1 => m \in 1 .. N
    BY <1>5
  <2>2. e.kind # "added"
    BY <1>2
  <2> QED  BY <1>5, <2>1, <2>2, Zenon DEF NoneAdded
<1>8. \A m \in DOMAIN one : one[m].kind \in {"alpn", "added"} /\ one[m].kind # "versions"
  BY <1>2, <1>3
<1>9. Hello!Untouched(one) = << >> /\ Hello!Bodies(one, "versions") = << >>
  <2> HIDE DEF one, C
  <2> QED  BY <1>3, <1>8, CollectedNone
<1>10. Hello!Bodies(list, "alpn") = << >>
  BY <1>1, CollectedNone
<1>11. Hello!Bodies(one, "alpn") = << body >>
  <2> DEFINE f == BodyOf({e}, "alpn")
             S == {x.body : x \in {e}}
  <2>1. f \in [{e} -> Seq(S)]
    BY CollectedIs
  <2>2. Hello!Bodies(one, "alpn") = FlatMap(f, one)
    <3>1. one \in Seq({e})
      OBVIOUS
    <3> QED  BY <3>1, CollectedIs, ZenonT(60)
  <2>3. f[e] = << body >>
    BY <1>2 DEF BodyOf
  <2> HIDE DEF f, S
  <2>4. FlatMap(f, << e >>) = f[e]
    BY <2>1, FlatMapEnds
  <2> QED  BY <2>2, <2>3, <2>4
<1> HIDE DEF one, C
<1>12. /\ Hello!Bodies(list \o one, "alpn") = << >> \o << body >>
       /\ Hello!Bodies(list \o one, "versions") = Hello!Bodies(list, "versions") \o << >>
       /\ Hello!Untouched(list \o one) = Hello!Untouched(list) \o << >>
  <2>a. list \in Seq(C)
    BY <1>3
  <2>b. one \in Seq(C)
    BY <1>3
  <2>1. \A kind : Joins(C, list, one, kind)
    BY <2>a, <2>b, CollectedJoin, Zenon
  <2>2. Hello!Untouched(list \o one) = Hello!Untouched(list) \o Hello!Untouched(one)
        /\ \A kind : Hello!Bodies(list \o one, kind) = Hello!Bodies(list, kind) \o Hello!Bodies(one, kind)
    BY <2>1, Zenon DEF Joins
  <2> QED  BY <1>9, <1>10, <1>11, <2>2, Zenon
<1>13. /\ Hello!Bodies(list, "versions") \o << >> = Hello!Bodies(list, "versions")
       /\ Hello!Untouched(list) \o << >> = Hello!Untouched(list)
  <2>a. list \in Seq(C)
    BY <1>3
  <2>b. Joins(C, list, list, "versions")
    BY <2>a, CollectedJoin, Zenon
  <2>1. Hello!Bodies(list, "versions") \in Seq({x.body : x \in C})
    BY <2>b, Zenon DEF Joins
  <2>2. Hello!Untouched(list) \in Seq({x.kind : x \in C})
    BY <2>b, Zenon DEF Joins
  <2> QED  BY <2>1, <2>2, ConcatEmptySeq
<1>14. << >> \o << body >> = << body >> /\ << body >> # << >> /\ << body >>[1] = body
  OBVIOUS
<1>15. Hello!Body(Append(list, e), "alpn") = body
  BY <1>3, <1>12, <1>14, Zenon DEF Hello!Body
<1>16. Hello!Body(Append(list, e), "versions") = Hello!Body(list, "versions")
  BY <1>3, <1>12, <1>13, Zenon DEF Hello!Body
<1> QED  BY <1>3, <1>4, <1>6, <1>7, <1>12, <1>13, <1>15, <1>16, Zenon DEF e, Offers, WithALPN

LEMMA BuildsOn ==
  ASSUME HelloTyped
  PROVE  /\ Laid(Hello!Base) /\ OneALPN(Hello!Base) /\ NoneAdded(Hello!Base)
         /\ ~preset.golang => Hello!Base = preset.exts
<1>1. CASE preset.golang /\ Hello!GolangNextProtos # << >>
  <2>1. Hello!Base = WithALPN(preset.exts, Hello!GolangNextProtos)
    BY <1>1, Zenon DEF Hello!Base, WithALPN
  <2>2. Laid(preset.exts) /\ NoneAdded(preset.exts) /\ \A a \in DOMAIN preset.exts : preset.exts[a].kind # "alpn"
    BY <1>1, PresetIs
  <2>3. Offers(WithALPN(preset.exts, Hello!GolangNextProtos), preset.exts, Hello!GolangNextProtos)
    BY <2>2, ALPNAppended, Zenon
  <2> QED  BY <1>1, <2>1, <2>2, <2>3, Zenon DEF Offers
<1>2. CASE ~(preset.golang /\ Hello!GolangNextProtos # << >>)
  <2>1. Hello!Base = preset.exts
    BY <1>2, Zenon DEF Hello!Base
  <2> QED  BY <2>1, PresetIs, Zenon
<1> QED  BY <1>1, <1>2

\* One extension that takes the place of the first of its kind.
Replaces(b, a, kind, body) ==
  /\ Laid(b) /\ OneALPN(b) /\ (NoneAdded(a) => NoneAdded(b))
  /\ \A other : other # kind => Hello!Body(b, other) = Hello!Body(a, other)
  /\ Hello!Untouched(b) = Hello!Untouched(a)
  /\ Hello!Body(b, kind) = body

LEMMA BodyReplaced ==
  ASSUME HelloTyped, NEW kind \in Hello!Kinds, Hello!First(kind) # 0, NEW body
  PROVE  Replaces([exts EXCEPT ![Hello!First(kind)] = Hello!Ext(kind, body)], exts, kind, body)
<1>1. PICK a, m, e, b : a = exts /\ m = Hello!First(kind) /\ e = Hello!Ext(kind, body) /\ b = [a EXCEPT ![m] = e]
  OBVIOUS
<1>2. PICK A : a \in Seq(A) /\ \A x \in A : x.kind \in Hello!Kinds
  BY <1>1 DEF HelloTyped, Laid
<1>3. e.kind = kind /\ e.body = body
  BY <1>1 DEF Hello!Ext
<1>4. m \in DOMAIN a /\ a[m].kind = e.kind /\ \A r \in DOMAIN a : r < m => a[r].kind # e.kind
  BY <1>1, <1>3, FirstIs, Zenon
<1>5. ASSUME NEW other PROVE SameBut(A, a, e, b, other)
  <2>1. a \in Seq(A)
    BY <1>2
  <2>2. m \in DOMAIN a
    BY <1>4
  <2>3. b = [a EXCEPT ![m] = e]
    BY <1>1
  <2>4. a[m].kind = e.kind
    BY <1>4
  <2>5. \A r \in DOMAIN a : r < m => a[r].kind # e.kind
    BY <1>4
  <2> QED  BY <2>1, <2>2, <2>3, <2>4, <2>5, CollectedReplaced, Zenon
<1>6. OneALPN(b) /\ (NoneAdded(a) => NoneAdded(b))
  <2>1. OneALPN(a)
    BY <1>1 DEF HelloTyped
  <2> QED  BY <1>5, <2>1, Zenon DEF OneALPN, NoneAdded, SameBut
<1>7. Laid(b)
  <2>1. \A x \in A \cup {e} : x.kind \in Hello!Kinds
    BY <1>2, <1>3
  <2>2. b \in Seq(A \cup {e})
    BY <1>5, Zenon DEF SameBut
  <2> QED  BY <2>1, <2>2, Zenon DEF Laid
<1>8. \A other : other # kind => Hello!Body(b, other) = Hello!Body(a, other)
  BY <1>3, <1>5, BodyFollows, Zenon DEF SameBut
<1>9. Replaces(b, a, kind, body)
  BY <1>3, <1>5, <1>6, <1>7, <1>8, Zenon DEF Replaces, SameBut
<1> QED  BY <1>1, <1>9, Zenon

\* Nothing added where nothing is asked for.
LEMMA NothingAdded ==
  ASSUME NEW list, Laid(list), NoneAdded(list), opts.exts = << >>,
         Hello!Untouched(list) = Hello!Untouched(preset.exts)
  PROVE  KeptBy(list)
<1>1. PICK A : list \in Seq(A)
  BY DEF Laid
<1>2. Hello!Bodies(list, "added") = << >>
  BY <1>1, CollectedNone, Zenon DEF NoneAdded
<1>3. {m \in DOMAIN list : list[m].kind = "added"} = {}
  BY DEF NoneAdded
<1> QED  BY <1>2, <1>3, Zenon DEF KeptBy

LEMMA PlaceIs ==
  ASSUME HelloTyped
  PROVE  /\ Hello!Place \in 0 .. Len(exts)
         /\ \A r \in 1 .. Hello!Place : ~Hello!MustStayLast(exts[r])
         /\ Hello!Place < Len(exts) => Hello!MustStayLast(exts[Hello!Place + 1])
<1> DEFINE T == {m \in 1 .. Len(exts) : Hello!MustStayLast(exts[m])}
<1>1. Hello!Place = IF (IF T # {} THEN Hello!Min(T) ELSE 0) = 0 THEN Len(exts) ELSE (IF T # {} THEN Hello!Min(T) ELSE 0) - 1
  BY Zenon DEF Hello!Place, Hello!SelectInSeq
<1>2. Len(exts) \in Nat
  BY DEF HelloTyped, Laid
<1>3. T \subseteq Nat
  OBVIOUS
<1>4. CASE T = {}
  <2>1. Hello!Place = Len(exts)
    BY <1>1, <1>4
  <2> QED  BY <1>2, <1>4, <2>1
<1>5. CASE T # {}
  <2>1. PICK m : m = Hello!Min(T)
    OBVIOUS
  <2>2. m \in T /\ \A r \in T : m <= r
    <3> HIDE DEF T
    <3>1. \E b \in T : \A r \in T : b <= r
      BY <1>3, <1>5, LeastElement
    <3> QED  BY <2>1, <3>1, Zenon DEF Hello!Min
  <2>3. m \in 1 .. Len(exts) /\ Hello!MustStayLast(exts[m])
    BY <2>2
  <2>4. \A r \in 1 .. m - 1 : ~Hello!MustStayLast(exts[r])
    <3> SUFFICES ASSUME NEW r \in 1 .. m - 1, Hello!MustStayLast(exts[r]) PROVE FALSE
      OBVIOUS
    <3>1. r \in 1 .. Len(exts) /\ ~(m <= r)
      BY <1>2, <2>3
    <3>2. r \in T
      BY <3>1
    <3> QED  BY <2>2, <3>1, <3>2
  <2>5. Hello!Place = m - 1
    <3>1. m # 0
      BY <2>3
    <3> HIDE DEF T
    <3> QED  BY <1>1, <1>5, <2>1, <3>1
  <2>6. m - 1 + 1 = m /\ m - 1 \in 0 .. Len(exts)
    BY <1>2, <2>3
  <2> QED  BY <2>3, <2>4, <2>5, <2>6
<1> QED  BY <1>4, <1>5

\* A list between the parts of another.
Inserts(more, list, P, mid) ==
  /\ more = SubSeq(list, 1, P) \o mid \o SubSeq(list, P + 1, Len(list))
  /\ DOMAIN more = 1 .. Len(list) + Len(mid)
  /\ \A m \in 1 .. P : more[m] = list[m]
  /\ \A m \in P + 1 .. P + Len(mid) : more[m] = mid[m - P]
  /\ \A m \in P + Len(mid) + 1 .. Len(list) + Len(mid) : more[m] = list[m - Len(mid)]

Between(A, list, mid, P, more) ==
  /\ Inserts(more, list, P, mid) /\ more \in Seq(A)
  /\ SubSeq(list, 1, P) \in Seq(A) /\ SubSeq(list, P + 1, Len(list)) \in Seq(A)
  /\ SubSeq(list, 1, P) \o SubSeq(list, P + 1, Len(list)) = list

LEMMA InsertedBetween ==
  ASSUME NEW A, NEW list \in Seq(A), NEW mid \in Seq(A), NEW P \in 0 .. Len(list), NEW more,
         more = SubSeq(list, 1, P) \o mid \o SubSeq(list, P + 1, Len(list))
  PROVE  Between(A, list, mid, P, more)
<1> DEFINE x == SubSeq(list, 1, P)
           z == SubSeq(list, P + 1, Len(list))
           N == Len(list)
           M == Len(mid)
<1>1. N \in Nat /\ M \in Nat /\ P \in Nat /\ P <= N /\ DOMAIN list = 1 .. N
  OBVIOUS
<1>2. x \in Seq(A) /\ Len(x) = P /\ \A m \in 1 .. P : x[m] = list[m]
  <2>1. P \in 0 .. Len(list)
    OBVIOUS
  <2> QED  BY <2>1, UptoProperties
<1>3. z \in Seq(A) /\ Len(z) = N - P /\ \A m \in 1 .. N - P : z[m] = list[P + m]
  <2>1. z \in Seq(A)
    BY <1>1
  <2>2. Len(z) = N - P
    <3>1. P + 1 \in Int /\ N \in Int /\ (IF P + 1 <= N THEN N - (P + 1) + 1 ELSE 0) = N - P
      <4> HIDE DEF N
      <4> QED  BY <1>1
    <3>2. \A m \in P + 1 .. N : list[m] \in A
      BY <1>1
    <3> QED  BY <3>1, <3>2, SubSeqProperties
  <2>3. \A m \in 1 .. N - P : z[m] = list[P + m]
    <3>1. P + 1 \in 1 .. N + 1 /\ N \in P .. N /\ N - (P + 1) + 1 = N - P
      BY <1>1
    <3>2. \A m \in 1 .. N - P : z[m] = list[P + 1 + m - 1] /\ P + 1 + m - 1 = P + m
      BY <1>1
    <3> QED  BY <3>2
  <2> QED  BY <2>1, <2>2, <2>3
<1>5. more = x \o mid \o z
  OBVIOUS
<1> HIDE DEF x, z, N, M
<1>4. x \o z = list
  <2>1. N = Len(x) + Len(z)
    BY <1>1, <1>2, <1>3
  <2>2. \A m \in 1 .. Len(z) : z[m] = list[Len(x) + m]
    BY <1>2, <1>3
  <2> QED  BY <1>1, <1>2, <1>3, <2>1, <2>2, JoinIs DEF N
<1>8. x \o mid \in Seq(A) /\ Len(x \o mid) = P + M /\ \A m \in 1 .. P + M : (x \o mid)[m] = IF m <= P THEN x[m] ELSE mid[m - P]
  BY <1>2, ConcatProperties DEF M
<1> DEFINE w == x \o mid
<1>a. w \in Seq(A) /\ Len(w) = P + M /\ \A m \in 1 .. P + M : w[m] = IF m <= P THEN x[m] ELSE mid[m - P]
  BY <1>8
<1>b. more = w \o z
  BY <1>5
<1> HIDE DEF w
<1>9. /\ more \in Seq(A) /\ Len(more) = Len(w) + Len(z)
      /\ \A m \in 1 .. Len(w) + Len(z) : more[m] = IF m <= Len(w) THEN w[m] ELSE z[m - Len(w)]
  <2>1. w \in Seq(A)
    BY <1>a
  <2>2. z \in Seq(A)
    BY <1>3
  <2>3. /\ w \o z \in Seq(A) /\ Len(w \o z) = Len(w) + Len(z)
        /\ \A m \in 1 .. Len(w) + Len(z) : (w \o z)[m] = IF m <= Len(w) THEN w[m] ELSE z[m - Len(w)]
    BY <2>1, <2>2, ConcatProperties
  <2> QED  BY <1>b, <2>3, Zenon
<1>6. Len(w) + Len(z) = N + M /\ DOMAIN more = 1 .. N + M
  <2>1. Len(w) + Len(z) = N + M
    BY <1>1, <1>3, <1>a
  <2>2. DOMAIN more = 1 .. Len(more)
    <3>1. more \in Seq(A)
      BY <1>9
    <3> QED  BY <3>1
  <2> QED  BY <1>9, <2>1, <2>2, Zenon
<1>10. ASSUME NEW m \in 1 .. P PROVE more[m] = list[m]
  <2>1. m \in 1 .. N + M /\ m \in 1 .. P + M /\ m <= P + M /\ m <= P
    BY <1>1
  <2> QED  BY <1>2, <1>6, <1>9, <1>a, <2>1
<1>11. ASSUME NEW m \in P + 1 .. P + M PROVE more[m] = mid[m - P]
  <2>1. m \in 1 .. N + M /\ m \in 1 .. P + M /\ m <= P + M /\ ~(m <= P)
    BY <1>1
  <2> QED  BY <1>6, <1>9, <1>a, <2>1
<1>12. ASSUME NEW m \in P + M + 1 .. N + M PROVE more[m] = list[m - M]
  <2>1. m \in 1 .. N + M /\ ~(m <= P + M) /\ m - (P + M) \in 1 .. N - P /\ P + (m - (P + M)) = m - M
    BY <1>1
  <2> QED  BY <1>3, <1>6, <1>9, <1>a, <2>1
<1>13. Inserts(more, list, P, mid)
  BY <1>6, <1>10, <1>11, <1>12, Zenon DEF Inserts, N, M
<1> QED  BY <1>2, <1>3, <1>4, <1>9, <1>13, Zenon DEF x, z, Between

\* What appendParrotExtensions puts in.
LEMMA AddedIs ==
  ASSUME HelloTyped
  PROVE  LET y == Hello!Added
         IN  /\ Len(y) \in Nat /\ DOMAIN y = 1 .. Len(y) /\ y \in Seq({Hello!Ext("added", c) : c \in Nat})
             /\ \A m \in DOMAIN y : y[m].kind = "added"
             /\ Hello!Bodies(y, "added") = opts.exts
<1> DEFINE y == Hello!Added
           S == {Hello!Ext("added", c) : c \in Nat}
           N == Len(opts.exts)
<1>1. opts.exts \in Seq(Nat) /\ N \in Nat /\ DOMAIN opts.exts = 1 .. N /\ \A m \in 1 .. N : opts.exts[m] \in Nat
  BY PresetIs
<1>2. y = [m \in 1 .. N |-> Hello!Ext("added", opts.exts[m])]
  BY <1>1, Zenon DEF Hello!Added
<1>3. \A m \in 1 .. N : y[m] \in S /\ y[m].kind = "added" /\ y[m].body = opts.exts[m]
  <2>1. \A c : Hello!Ext("added", c).kind = "added" /\ Hello!Ext("added", c).body = c
    BY DEF Hello!Ext
  <2>2. ASSUME NEW m \in 1 .. N PROVE y[m] = Hello!Ext("added", opts.exts[m])
    BY <1>2, Zenon
  <2>3. \A c \in Nat : Hello!Ext("added", c) \in S
    OBVIOUS
  <2> HIDE DEF y, S
  <2>4. ASSUME NEW m \in 1 .. N PROVE y[m] \in S /\ y[m].kind = "added" /\ y[m].body = opts.exts[m]
    <3>1. y[m] = Hello!Ext("added", opts.exts[m]) /\ opts.exts[m] \in Nat
      BY <1>1, <2>2
    <3> QED  BY <2>1, <2>3, <3>1, Zenon
  <2> QED  BY <2>4
<1> HIDE DEF y, S, N
<1>4. y \in [1 .. N -> S]
  BY <1>2, <1>3
<1>5. y \in Seq(S) /\ Len(y) = N /\ DOMAIN y = 1 .. N
  BY <1>1, <1>4, SeqDef, LenProperties
<1>6. Hello!Bodies(y, "added") = opts.exts
  <2>1. \A s : Hello!FlattenSeq(s) = FlattenSeq(s)
    BY Zenon DEF Hello!FlattenSeq, FlattenSeq
  <2>2. [m \in DOMAIN y |-> IF y[m].kind = "added" THEN << y[m].body >> ELSE << >>]
          = [m \in DOMAIN opts.exts |-> << opts.exts[m] >>]
    BY <1>1, <1>3, <1>5, Zenon
  <2>3. FlattenSeq([m \in DOMAIN opts.exts |-> << opts.exts[m] >>]) = opts.exts
    BY <1>1, FlattenSingletons
  <2> QED  BY <2>1, <2>2, <2>3, Zenon DEF Hello!Bodies
<1>7. Len(y) \in Nat
  BY <1>1, <1>5
<1> QED  BY <1>3, <1>5, <1>6, <1>7 DEF y, S

More == SubSeq(exts, 1, Hello!Place) \o Hello!Added \o SubSeq(exts, Hello!Place + 1, Len(exts))

LEMMA InsertedIs ==
  ASSUME HelloTyped, NoneAdded(exts), Hello!Untouched(exts) = Hello!Untouched(preset.exts)
  PROVE  /\ Laid(More) /\ OneALPN(More) /\ KeptBy(More)
         /\ \A kind : kind # "added" => Hello!Body(More, kind) = Hello!Body(exts, kind)
<1>1. PICK list, mid, P, more, x, z :
           /\ list = exts /\ mid = Hello!Added /\ P = Hello!Place /\ more = More
           /\ x = SubSeq(list, 1, P) /\ z = SubSeq(list, P + 1, Len(list))
  OBVIOUS
<1>2. PICK A0 : list \in Seq(A0) /\ \A e \in A0 : e.kind \in Hello!Kinds
  BY <1>1 DEF HelloTyped, Laid
<1> DEFINE B == {Hello!Ext("added", c) : c \in Nat}
           A == A0 \cup B
           N == Len(list)
           M == Len(mid)
<1>3. /\ M \in Nat /\ DOMAIN mid = 1 .. M /\ mid \in Seq(B)
      /\ \A m \in 1 .. M : mid[m].kind = "added"
      /\ Hello!Bodies(mid, "added") = opts.exts
  BY <1>1, AddedIs
<1>4. /\ P \in 0 .. N
      /\ \A r \in 1 .. P : ~Hello!MustStayLast(list[r])
      /\ P < N => Hello!MustStayLast(list[P + 1])
  BY <1>1, PlaceIs
<1>5. N \in Nat /\ DOMAIN list = 1 .. N /\ list \in Seq(A) /\ mid \in Seq(A)
  BY <1>2, <1>3
<1>6. \A e \in A : e.kind \in Hello!Kinds
  <2>1. \A c : Hello!Ext("added", c).kind = "added"
    BY DEF Hello!Ext
  <2>2. "added" \in Hello!Kinds
    BY DEF Hello!Kinds
  <2> QED  BY <1>2, <2>1, <2>2
<1>7. more = SubSeq(list, 1, P) \o mid \o SubSeq(list, P + 1, Len(list))
  BY <1>1 DEF More
<1> HIDE DEF A, B, N, M
<1>8. /\ Inserts(more, list, P, mid) /\ more \in Seq(A)
      /\ x \in Seq(A) /\ z \in Seq(A) /\ x \o z = list
  <2>1. list \in Seq(A)
    BY <1>5
  <2>2. mid \in Seq(A)
    BY <1>5
  <2>3. P \in 0 .. Len(list)
    BY <1>4 DEF N
  <2>4. Between(A, list, mid, P, more)
    BY <1>7, <2>1, <2>2, <2>3, InsertedBetween, Zenon
  <2> QED  BY <1>1, <2>4, Zenon DEF Between
<1>9. Laid(more)
  BY <1>6, <1>8, Zenon DEF Laid
<1>10. /\ DOMAIN more = 1 .. N + M
       /\ \A m \in 1 .. P : more[m] = list[m]
       /\ \A m \in P + 1 .. P + M : more[m] = mid[m - P]
       /\ \A m \in P + M + 1 .. N + M : more[m] = list[m - M]
  BY <1>8, Zenon DEF Inserts, N, M
<1>11. \A m \in 1 .. N : list[m].kind # "added"
  BY <1>1, <1>5, Zenon DEF NoneAdded
\* Where what stands.
<1>12. \A m \in DOMAIN more : more[m].kind = "added" <=> m \in P + 1 .. P + M
  <2> SUFFICES ASSUME NEW m \in 1 .. N + M PROVE more[m].kind = "added" <=> m \in P + 1 .. P + M
    BY <1>10
  <2>1. CASE m \in 1 .. P
    <3>1. m \in 1 .. N /\ m \notin P + 1 .. P + M
      BY <1>3, <1>4, <1>5, <2>1
    <3> QED  BY <1>10, <1>11, <2>1, <3>1
  <2>2. CASE m \in P + 1 .. P + M
    <3>1. m - P \in 1 .. M
      BY <1>3, <1>4, <1>5, <2>2
    <3> QED  BY <1>3, <1>10, <2>2, <3>1
  <2>3. CASE m \in P + M + 1 .. N + M
    <3>1. m - M \in 1 .. N /\ m \notin P + 1 .. P + M
      BY <1>3, <1>4, <1>5, <2>3
    <3> QED  BY <1>10, <1>11, <2>3, <3>1
  <2> QED  BY <1>3, <1>4, <1>5, <2>1, <2>2, <2>3
<1>13. \A m \in DOMAIN more : Hello!MustStayLast(more[m]) => m \in P + M + 1 .. N + M
  <2> SUFFICES ASSUME NEW m \in 1 .. N + M, m \notin P + M + 1 .. N + M PROVE ~Hello!MustStayLast(more[m])
    BY <1>10
  <2>1. CASE m \in 1 .. P
    BY <1>4, <1>10, <2>1
  <2>2. CASE m \in P + 1 .. P + M
    BY <1>10, <1>12, <2>2 DEF Hello!MustStayLast
  <2> QED  BY <1>3, <1>4, <1>5, <2>1, <2>2
<1>14. P < N => P + M + 1 \in DOMAIN more /\ Hello!MustStayLast(more[P + M + 1])
  <2> SUFFICES ASSUME P < N PROVE P + M + 1 \in DOMAIN more /\ Hello!MustStayLast(more[P + M + 1])
    OBVIOUS
  <2>1. PICK m : m = P + M + 1
    OBVIOUS
  <2>2. m \in P + M + 1 .. N + M /\ m - M = P + 1 /\ m \in 1 .. N + M
    BY <1>3, <1>4, <1>5, <2>1
  <2>3. more[m] = list[m - M]
    BY <1>10, <2>2, Zenon
  <2>4. m \in DOMAIN more /\ Hello!MustStayLast(more[m])
    BY <1>4, <1>10, <2>2, <2>3, Zenon
  <2> QED  BY <2>1, <2>4, Zenon
<1> DEFINE added == {m \in DOMAIN more : more[m].kind = "added"}
           last == {m \in DOMAIN more : Hello!MustStayLast(more[m])}
<1>15. added = P + 1 .. P + M
  <2>1. P + 1 .. P + M \subseteq 1 .. N + M
    BY <1>3, <1>4, <1>5
  <2> QED  BY <1>10, <1>12, <2>1
<1>16. last \subseteq P + M + 1 .. N + M /\ (last # {} => P + M + 1 \in last)
  <2>1. last \subseteq P + M + 1 .. N + M
    BY <1>13
  <2>2. ASSUME NEW m \in last PROVE P < N
    <3>1. m \in P + M + 1 .. N + M
      BY <2>1
    <3> QED  BY <1>3, <1>4, <1>5, <3>1
  <2> QED  BY <1>14, <2>1, <2>2
<1>17. OneALPN(more)
  <2> DEFINE from(m) == IF m \in 1 .. P THEN m ELSE m - M
  <2>1. ASSUME NEW m \in 1 .. N + M, more[m].kind = "alpn"
        PROVE  from(m) \in 1 .. N /\ list[from(m)].kind = "alpn" /\ m \notin P + 1 .. P + M
    <3>1. m \notin P + 1 .. P + M
      BY <1>10, <1>12, <2>1
    <3>2. CASE m \in 1 .. P
      <4>1. m \in 1 .. N
        BY <1>3, <1>4, <1>5, <3>2
      <4> QED  BY <1>10, <2>1, <3>1, <3>2, <4>1
    <3>3. CASE m \in P + M + 1 .. N + M
      <4>1. m \notin 1 .. P /\ m - M \in 1 .. N
        BY <1>3, <1>4, <1>5, <3>3
      <4> QED  BY <1>10, <2>1, <3>1, <3>3, <4>1
    <3> QED  BY <1>3, <1>4, <1>5, <3>1, <3>2, <3>3
  <2>2. OneALPN(list)
    BY <1>1 DEF HelloTyped
  <2>3. ASSUME NEW a \in 1 .. N + M, NEW b \in 1 .. N + M, more[a].kind = "alpn", more[b].kind = "alpn"
        PROVE  a = b
    <3>1. from(a) = from(b)
      <4> HIDE DEF from
      <4> QED  BY <1>5, <2>1, <2>2, <2>3 DEF OneALPN
    <3>2. a \notin P + 1 .. P + M /\ b \notin P + 1 .. P + M
      BY <2>1, <2>3
    <3> QED  BY <1>3, <1>4, <1>5, <3>1, <3>2
  <2> QED  BY <1>10, <2>3, Zenon DEF OneALPN
\* What is collected.
<1>18. \A kind : Joins(A, x, mid, kind) /\ Joins(A, x \o mid, z, kind) /\ Joins(A, x, z, kind)
  <2>1. x \in Seq(A)
    BY <1>8
  <2>2. z \in Seq(A)
    BY <1>8
  <2>3. mid \in Seq(A)
    BY <1>5
  <2>4. x \o mid \in Seq(A)
    BY <2>1, <2>3
  <2> QED  BY <2>1, <2>2, <2>3, <2>4, CollectedJoin, Zenon
<1>19. more = (x \o mid) \o z /\ list = x \o z
  BY <1>1, <1>7, <1>8
<1>20. /\ \A kind : Hello!Bodies(more, kind) = (Hello!Bodies(x, kind) \o Hello!Bodies(mid, kind)) \o Hello!Bodies(z, kind)
       /\ Hello!Untouched(more) = (Hello!Untouched(x) \o Hello!Untouched(mid)) \o Hello!Untouched(z)
       /\ \A kind : Hello!Bodies(list, kind) = Hello!Bodies(x, kind) \o Hello!Bodies(z, kind)
       /\ Hello!Untouched(list) = Hello!Untouched(x) \o Hello!Untouched(z)
  BY <1>18, <1>19, Zenon DEF Joins
<1>21. ASSUME NEW kind, kind # "added" PROVE Hello!Body(more, kind) = Hello!Body(list, kind)
  <2>1. Hello!Bodies(mid, kind) = << >>
    <3>1. \A m \in DOMAIN mid : mid[m].kind # kind
      BY <1>3, <1>21
    <3>2. mid \in Seq(A)
      BY <1>5
    <3> QED  BY <3>1, <3>2, CollectedNone, Zenon
  <2>2. Hello!Bodies(x, kind) \o << >> = Hello!Bodies(x, kind)
    <3>1. Hello!Bodies(x, kind) \in Seq({e.body : e \in A})
      BY <1>18, Zenon DEF Joins
    <3> QED  BY <3>1, ConcatEmptySeq
  <2>3. Hello!Bodies(more, kind) = Hello!Bodies(list, kind)
    BY <1>20, <2>1, <2>2
  <2> QED  BY <2>3, BodyFollows, Zenon
<1>22. Hello!Untouched(more) = Hello!Untouched(list)
  <2>1. Hello!Untouched(mid) = << >>
    <3>1. \A m \in DOMAIN mid : mid[m].kind \in {"alpn", "added"}
      BY <1>3
    <3>2. mid \in Seq(A)
      BY <1>5
    <3> QED  BY <3>1, <3>2, CollectedNone, Zenon
  <2>2. Hello!Untouched(x) \o << >> = Hello!Untouched(x)
    <3>1. Hello!Untouched(x) \in Seq({e.kind : e \in A})
      BY <1>18, Zenon DEF Joins
    <3> QED  BY <3>1, ConcatEmptySeq
  <2> QED  BY <1>20, <2>1, <2>2
<1>23. Hello!Bodies(more, "added") = opts.exts
  <2>1. /\ x \in Seq(A) /\ z \in Seq(A) /\ (\A m \in DOMAIN x : x[m].kind # "added")
        /\ \A m \in DOMAIN z : z[m].kind # "added"
    <3>1. \A m \in DOMAIN list : list[m].kind # "added"
      BY <1>5, <1>11
    <3>2. \A m \in DOMAIN x : \E r \in DOMAIN list : x[m] = list[r]
      <4>1. DOMAIN x = 1 .. P /\ \A m \in 1 .. P : x[m] = list[m] /\ m \in 1 .. N
        <5>1. Len(x) = P /\ \A m \in 1 .. P : x[m] = list[m]
          BY <1>1, <1>4, <1>5, UptoProperties DEF N
        <5>2. DOMAIN x = 1 .. Len(x)
          BY <1>8
        <5> QED  BY <1>4, <1>5, <5>1, <5>2
      <4> QED  BY <1>5, <4>1
    <3>3. \A m \in DOMAIN z : \E r \in DOMAIN list : z[m] = list[r]
      <4>1. \A r \in P + 1 .. N : list[r] \in A
        BY <1>4, <1>5
      <4>2. P + 1 \in Int /\ N \in Int /\ P \in Nat /\ P <= N
        BY <1>4, <1>5
      <4>3. Len(z) = (IF P + 1 <= N THEN N - (P + 1) + 1 ELSE 0) /\ \A m \in 1 .. N - (P + 1) + 1 : z[m] = list[P + 1 + m - 1]
        BY <1>1, <4>1, <4>2, SubSeqProperties DEF N
      <4>4. DOMAIN z = 1 .. Len(z)
        BY <1>8
      <4>5. \A m \in 1 .. Len(z) : m \in 1 .. N - (P + 1) + 1 /\ P + 1 + m - 1 \in 1 .. N
        BY <4>2, <4>3
      <4> QED  BY <1>5, <4>3, <4>4, <4>5
    <3> QED  BY <1>8, <3>1, <3>2, <3>3
  <2>2. Hello!Bodies(x, "added") = << >>
    BY <2>1, CollectedNone, Zenon
  <2>3. Hello!Bodies(z, "added") = << >>
    BY <2>1, CollectedNone, Zenon
  <2>4. opts.exts \in Seq(Nat)
    BY PresetIs
  <2>5. (<< >> \o opts.exts) \o << >> = opts.exts
    BY <2>4
  <2> QED  BY <1>3, <1>20, <2>2, <2>3, <2>5
\* They stand together, right before what must stay last.
<1>24. \A a, b \in added : \A l \in a .. b : l \in added
  <2> HIDE DEF added
  <2> QED  BY <1>3, <1>4, <1>5, <1>15
<1>25. \A a \in added : \A b \in last : a < b
  <2>1. ASSUME NEW a \in P + 1 .. P + M, NEW b \in P + M + 1 .. N + M PROVE a < b
    BY <1>3, <1>4, <1>5
  <2> HIDE DEF added, last
  <2> QED  BY <1>15, <1>16, <2>1
<1>26. \A a \in added : last # {} => \E b \in last : \A l \in a .. b - 1 : l \in added
  <2> SUFFICES ASSUME NEW a \in added, last # {} PROVE \E b \in last : \A l \in a .. b - 1 : l \in added
    OBVIOUS
  <2>1. PICK b : b = P + M + 1
    OBVIOUS
  <2>2. \A l \in a .. b - 1 : l \in P + 1 .. P + M
    <3> HIDE DEF added
    <3> QED  BY <1>3, <1>4, <1>5, <1>15, <2>1
  <2>3. b \in last
    BY <1>16, <2>1
  <2>4. \A l \in a .. b - 1 : l \in added
    BY <1>15, <2>2, Zenon
  <2> HIDE DEF added, last
  <2> QED  BY <2>3, <2>4, Zenon
<1>27. KeptBy(more)
  BY <1>1, <1>22, <1>23, <1>24, <1>25, <1>26, Zenon DEF KeptBy
<1> QED  BY <1>1, <1>9, <1>17, <1>21, <1>27, Zenon

LEMMA NothingLaid ==
  /\ Laid(<< >>) /\ OneALPN(<< >>)
  /\ \A kind : Hello!Body(<< >>, kind) = << >>
<1>1. << >> \in Seq({}) /\ DOMAIN << >> = {}
  OBVIOUS
<1>2. Laid(<< >>) /\ OneALPN(<< >>)
  BY <1>1 DEF Laid, OneALPN
<1>3. ASSUME NEW kind PROVE Hello!Bodies(<< >>, kind) = << >>
  BY <1>1, CollectedNone, Zenon
<1> QED  BY <1>2, <1>3, Zenon DEF Hello!Body

LEMMA HelloStarts ==
  ASSUME Hello!Init
  PROVE  HelloInv
<1>1. /\ opts \in Hello!Options /\ preset \in Presets /\ pc = "start" /\ ciphers = << >> /\ exts = << >>
      /\ alpn = << >> /\ versions = << >> /\ count = -1 /\ exit = 0 /\ closed = FALSE
  BY DEF Hello!Init
<1>2. HelloTyped
  <2>1. << >> \in Seq(Nat)
    OBVIOUS
  <2>2. ClosedIfFailed
    BY <1>1, Zenon DEF ClosedIfFailed
  <2>3. exit \in {0, 1, 28, 35, 60}
    BY <1>1
  <2> QED  BY <1>1, <2>1, <2>2, <2>3, NothingLaid, Zenon DEF HelloTyped
<1>3. alpn = Hello!Body(exts, "alpn") /\ versions = Hello!Body(exts, "versions")
  BY <1>1, NothingLaid, Zenon
<1> QED  BY <1>1, <1>2, <1>3 DEF HelloInv

LEMMA HelloStays ==
  ASSUME HelloInv, UNCHANGED <<pc, opts, exit, ofHello>>
  PROVE  HelloInv'
<1>1. UNCHANGED <<pc, opts, exit, preset, ciphers, exts, alpn, versions, count, proto, closed>>
  BY DEF ofHello
<1>a. ClosedIfFailed' = ClosedIfFailed
  BY <1>1, Zenon DEF ClosedIfFailed
<1>2. HelloTyped'
  BY <1>1, <1>a, SameHello DEF HelloInv, HelloTyped
<1>3. ProtocolIs' = ProtocolIs
  BY <1>1, Zenon DEF ProtocolIs, Hello!ToSet, Hello!Spoken
<1> QED  BY <1>1, <1>2, <1>3, SameHello, Zenon DEF HelloInv

LEMMA FailsClosed ==
  ASSUME NEW code \in {1, 28, 35, 60}, Hello!FailWith(code)
  PROVE  pc' = "done" /\ exit' = code /\ exit' # 0 /\ ClosedIfFailed'
<1>1. code # 0
  OBVIOUS
<1>2. pc' = "done" /\ exit' = code
  BY Zenon DEF Hello!FailWith
<1>3. closed' = TRUE
  BY Zenon DEF Hello!FailWith
<1> QED  BY <1>1, <1>2, <1>3, Zenon DEF ClosedIfFailed

LEMMA FailsWithOne ==
  ASSUME Hello!FailWith(1)
  PROVE  pc' = "done" /\ exit' = 1 /\ exit' # 0 /\ ClosedIfFailed'
<1>1. 1 \in {1, 28, 35, 60}
  OBVIOUS
<1> QED  BY <1>1, FailsClosed, Zenon

LEMMA ExitIs ==
  ASSUME HelloInv, exit' = exit \/ exit' = 1
  PROVE  exit' \in {0, 1, 28, 35, 60}
BY DEF HelloInv, HelloTyped

\* The steps that leave the hello as it is.
AsBefore ==
  /\ UNCHANGED <<opts, preset, ciphers, exts, alpn, versions>>
  /\ Kept' = Kept /\ AskedCiphers' = AskedCiphers /\ Laid(exts)' = Laid(exts) /\ OneALPN(exts)' = OneALPN(exts)
  /\ (alpn = Hello!Body(exts, "alpn") /\ versions = Hello!Body(exts, "versions"))'
  /\ Hello!CountNonGREASE(ciphers)' = Hello!CountNonGREASE(ciphers)
  /\ (opts \in Hello!Options)' = (opts \in Hello!Options)
  /\ (UNCHANGED <<exit, closed>> => ClosedIfFailed')

LEMMA HelloAsBefore ==
  ASSUME HelloInv, UNCHANGED <<opts, preset, ciphers, exts, alpn, versions>>
  PROVE  AsBefore
<1>1. UNCHANGED <<opts, preset, ciphers, exts>>
  OBVIOUS
<1>2. /\ Kept' = Kept /\ AskedCiphers' = AskedCiphers /\ Laid(exts)' = Laid(exts) /\ OneALPN(exts)' = OneALPN(exts)
      /\ Hello!Body(exts, "alpn")' = Hello!Body(exts, "alpn")
      /\ Hello!Body(exts, "versions")' = Hello!Body(exts, "versions")
      /\ Hello!CountNonGREASE(ciphers)' = Hello!CountNonGREASE(ciphers)
      /\ (opts \in Hello!Options)' = (opts \in Hello!Options)
  BY <1>1, SameHello, Zenon
<1>3. (alpn = Hello!Body(exts, "alpn") /\ versions = Hello!Body(exts, "versions"))'
  BY <1>2 DEF HelloInv
<1>4. ClosedIfFailed
  BY DEF HelloInv, HelloTyped
<1>5. ASSUME UNCHANGED <<exit, closed>> PROVE ClosedIfFailed'
  <2>1. exit' = exit /\ closed' = closed
    BY <1>5
  <2> QED  BY <1>4, <2>1, Zenon DEF ClosedIfFailed
<1> QED  BY <1>2, <1>3, <1>5, Zenon DEF AsBefore

LEMMA RefusedStep ==
  ASSUME HelloInv, Hello!Refused
  PROVE  HelloInv'
<1>1. /\ pc' = "done" /\ exit' = 35 /\ ClosedIfFailed' /\ pc \in {"start", "info"}
      /\ UNCHANGED <<opts, preset, ciphers, exts, alpn, versions, count, proto>>
  <2>1. 35 \in {1, 28, 35, 60}
    OBVIOUS
  <2> QED  BY <2>1, FailsClosed, Zenon DEF Hello!Refused
<1>2. AsBefore
  BY <1>1, HelloAsBefore
<1>3. count' = -1
  BY <1>1 DEF HelloInv
<1>4. HelloTyped'
  BY <1>1, <1>2 DEF HelloInv, HelloTyped, AsBefore
<1> QED  BY <1>1, <1>2, <1>3, <1>4 DEF HelloInv, AsBefore

\* The end of a handshake.
LEMMA HandshakeEnds ==
  ASSUME HelloInv, pc = "handshake", pc' = "done", exit' \in {0, 1, 28, 35, 60}, ClosedIfFailed',
         exit' = 0 => ProtocolIs',
         UNCHANGED <<opts, preset, ciphers, exts, alpn, versions, count>>
  PROVE  HelloInv'
<1>1. AsBefore
  BY HelloAsBefore
<1>2. (count = -1 \/ (count = Hello!CountNonGREASE(ciphers) /\ AskedCiphers /\ pc \in {"handshake", "done"}))'
  BY <1>1 DEF HelloInv, AsBefore
<1>3. HelloTyped'
  BY <1>1 DEF HelloInv, HelloTyped, AsBefore
<1>4. exit # 35
  BY DEF HelloInv
<1> QED  BY <1>1, <1>2, <1>3, <1>4 DEF HelloInv, AsBefore

LEMMA HandshakeFailsStep ==
  ASSUME HelloInv, NEW code \in {28, 35, 60}, Hello!HandshakeFails(code)
  PROVE  HelloInv'
<1>1. code \in {1, 28, 35, 60} /\ code \in {0, 1, 28, 35, 60}
  OBVIOUS
<1>2. /\ pc' = "done" /\ exit' = code /\ exit' # 0 /\ ClosedIfFailed' /\ pc = "handshake"
      /\ UNCHANGED <<opts, preset, ciphers, exts, alpn, versions, count, proto>>
  BY <1>1, FailsClosed, Zenon DEF Hello!HandshakeFails
<1> QED  BY <1>1, <1>2, HandshakeEnds

LEMMA HandshakeDoneStep ==
  ASSUME HelloInv, NEW p, p = "" \/ p \in Hello!ToSet(alpn), Hello!HandshakeDone(p)
  PROVE  HelloInv'
<1>1. /\ pc' = "done" /\ proto' = p /\ pc = "handshake"
      /\ UNCHANGED <<opts, preset, ciphers, exts, alpn, versions, count>>
      /\ IF Hello!Spoken(p) THEN pc' = "done" /\ UNCHANGED <<exit, closed>> ELSE Hello!FailWith(1)
  BY Zenon DEF Hello!HandshakeDone, Hello!FailWith
<1>2. AsBefore
  BY <1>1, HelloAsBefore, Zenon
<1>3. \/ Hello!Spoken(p) /\ exit' = exit /\ ClosedIfFailed'
      \/ exit' = 1 /\ exit' # 0 /\ ClosedIfFailed'
  <2>1. CASE Hello!Spoken(p)
    BY <1>1, <1>2, <2>1, Zenon DEF AsBefore
  <2>2. CASE ~Hello!Spoken(p)
    BY <1>1, <2>2, FailsWithOne, Zenon
  <2> QED  BY <2>1, <2>2
<1>4. exit' = 0 => ProtocolIs'
  <2>1. Hello!ToSet(alpn)' = Hello!ToSet(alpn)
    BY <1>1, Zenon DEF Hello!ToSet
  <2>2. Hello!Spoken(proto)' = Hello!Spoken(p)
    BY <1>1, Zenon DEF Hello!Spoken
  <2> QED  BY <1>1, <1>3, <2>1, <2>2, Zenon DEF ProtocolIs
<1>5. exit' = exit \/ exit' = 1
  BY <1>3, Zenon
<1> QED  BY <1>1, <1>3, <1>4, <1>5, ExitIs, HandshakeEnds, Zenon

LEMMA InfoStep ==
  ASSUME HelloInv, Hello!Info
  PROVE  HelloInv'
<1>1. /\ pc = "info" /\ pc' = "handshake" /\ UNCHANGED <<proto, exit, closed>>
      /\ UNCHANGED <<opts, preset, ciphers, exts, alpn, versions>>
      /\ count' = IF opts.info THEN Hello!CountNonGREASE(ciphers) ELSE count
  BY DEF Hello!Info, Hello!Counted
<1>2. AsBefore
  BY <1>1, HelloAsBefore
<1>3. HelloTyped'
  BY <1>1, <1>2 DEF HelloInv, HelloTyped, AsBefore
<1>4. AskedCiphers /\ count = -1
  BY <1>1 DEF HelloInv
<1>5. (count = -1 \/ (count = Hello!CountNonGREASE(ciphers) /\ AskedCiphers /\ pc \in {"handshake", "done"}))'
  BY <1>1, <1>2, <1>4 DEF AsBefore
<1> QED  BY <1>1, <1>2, <1>3, <1>5 DEF HelloInv, AsBefore

\* A step while the hello is being made.
LEMMA HelloMade ==
  ASSUME HelloInv, pc # "done", pc' \in {"alpn", "versions", "extensions", "info", "handshake"},
         UNCHANGED <<opts, preset, count, proto, exit, closed>>, count = -1,
         ciphers' \in Seq(Nat), AskedCiphers', Laid(exts'), OneALPN(exts'),
         alpn' = Hello!Body(exts', "alpn"), versions' = Hello!Body(exts', "versions"),
         pc' \in {"alpn", "versions", "extensions"} =>
           NoneAdded(exts') /\ Hello!Untouched(exts') = Hello!Untouched(preset.exts),
         pc' \in {"info", "handshake"} /\ ~preset.golang /\ ~opts.extNone => KeptBy(exts')
  PROVE  HelloInv'
<1>1. ClosedIfFailed'
  <2>1. ClosedIfFailed
    BY DEF HelloInv, HelloTyped
  <2>2. exit' = exit /\ closed' = closed
    OBVIOUS
  <2> QED  BY <2>1, <2>2, Zenon DEF ClosedIfFailed
<1>2. (opts \in Hello!Options)' = (opts \in Hello!Options)
  BY Zenon DEF Hello!Options
<1>3. Hello!Body(exts', "alpn") = Hello!Body(exts, "alpn")' /\ Hello!Body(exts', "versions") = Hello!Body(exts, "versions")'
  BY Zenon DEF Hello!Body, Hello!Bodies
<1>4. Laid(exts') = Laid(exts)' /\ OneALPN(exts') = OneALPN(exts)' /\ NoneAdded(exts') = NoneAdded(exts)'
  BY Zenon DEF Laid, OneALPN, NoneAdded
<1>5. Hello!Untouched(exts') = Hello!Untouched(exts)' /\ Hello!Untouched(preset.exts) = Hello!Untouched(preset.exts)'
  BY Zenon DEF Hello!Untouched
<1>6. Kept' = KeptBy(exts')
  <2>1. Hello!Bodies(exts', "added") = Hello!Bodies(exts, "added")'
    BY Zenon DEF Hello!Bodies
  <2>2. opts' = opts
    OBVIOUS
  <2> QED  BY <1>5, <2>1, <2>2, Zenon DEF Kept, KeptBy, Hello!MustStayLast
<1>7. HelloTyped'
  BY <1>1, <1>2, <1>4 DEF HelloInv, HelloTyped
<1> QED  BY <1>3, <1>4, <1>5, <1>6, <1>7 DEF HelloInv

LEMMA NoExtensionsStep ==
  ASSUME HelloInv, Hello!NoExtensions
  PROVE  HelloInv'
<1>1. /\ pc = "start" /\ opts.extNone /\ ciphers' = preset.ciphers \o opts.ciphers /\ pc' = "info"
      /\ UNCHANGED <<opts, preset, exts, alpn, versions, count, proto, exit, closed>>
  BY DEF Hello!NoExtensions
<1>2. exts = << >> /\ count = -1 /\ HelloTyped /\ alpn = Hello!Body(exts, "alpn") /\ versions = Hello!Body(exts, "versions")
  BY <1>1 DEF HelloInv
<1>3. ciphers' \in Seq(Nat) /\ AskedCiphers'
  <2>1. preset.ciphers \in Seq(Nat) /\ opts.ciphers \in Seq(Nat)
    BY <1>2, PresetIs
  <2> QED  BY <1>1, <2>1 DEF AskedCiphers
<1>4. exts' = exts
  BY <1>1
<1>5. Laid(exts') /\ OneALPN(exts') /\ alpn' = Hello!Body(exts', "alpn") /\ versions' = Hello!Body(exts', "versions")
  BY <1>1, <1>2, <1>4 DEF HelloTyped
<1> QED  BY <1>1, <1>2, <1>3, <1>5, HelloMade

LEMMA BuildStep ==
  ASSUME HelloInv, Hello!Build
  PROVE  HelloInv'
<1>1. PICK base : base = Hello!Base
  OBVIOUS
<1>2. /\ pc = "start" /\ ~opts.extNone
      /\ ciphers' = IF Hello!Mutates THEN preset.ciphers \o opts.ciphers ELSE preset.ciphers
      /\ exts' = base /\ alpn' = Hello!Body(base, "alpn") /\ versions' = Hello!Body(base, "versions")
      /\ pc' = IF ~Hello!Mutates THEN "handshake" ELSE IF preset.golang THEN "info" ELSE "alpn"
      /\ UNCHANGED <<opts, preset, count, proto, exit, closed>>
  BY <1>1 DEF Hello!Build
<1>3. count = -1 /\ HelloTyped
  BY <1>2 DEF HelloInv
<1>4. ~Hello!Mutates => opts.ciphers = << >> /\ opts.exts = << >>
  BY DEF Hello!Mutates
<1>5. ciphers' \in Seq(Nat) /\ AskedCiphers'
  <2>1. preset.ciphers \in Seq(Nat) /\ opts.ciphers \in Seq(Nat)
    BY <1>3, PresetIs
  <2>2. preset.ciphers \o << >> = preset.ciphers /\ preset.ciphers \o opts.ciphers \in Seq(Nat)
    BY <2>1
  <2> QED  BY <1>2, <1>4, <2>1, <2>2 DEF AskedCiphers
<1>6. Laid(base) /\ OneALPN(base) /\ NoneAdded(base) /\ (~preset.golang => base = preset.exts)
  BY <1>1, <1>3, BuildsOn
<1>7. ASSUME ~preset.golang, ~Hello!Mutates PROVE KeptBy(base)
  <2>1. Hello!Untouched(base) = Hello!Untouched(preset.exts)
    BY <1>6, <1>7, Zenon
  <2> QED  BY <1>4, <1>6, <1>7, <2>1, NothingAdded
<1>8. pc' \in {"alpn", "versions", "extensions"} => ~preset.golang
  BY <1>2
<1>9. pc' \in {"alpn", "versions", "extensions"} => Hello!Untouched(base) = Hello!Untouched(preset.exts)
  BY <1>6, <1>8, Zenon
<1>10. pc' \in {"info", "handshake"} /\ ~preset.golang => ~Hello!Mutates
  BY <1>2
<1>11. pc' \in {"alpn", "versions", "extensions", "info", "handshake"}
  BY <1>2
<1> QED  BY <1>2, <1>3, <1>5, <1>6, <1>7, <1>9, <1>10, <1>11, HelloMade

LEMMA LaidWithoutAdded ==
  ASSUME NEW list, Laid(list), NoneAdded(list)
  PROVE  \E A : list \in Seq(A) /\ \A e \in A : e.kind \in Hello!Kinds /\ e.kind # "added"
<1>1. PICK A0 : list \in Seq(A0) /\ \A e \in A0 : e.kind \in Hello!Kinds
  BY DEF Laid
<1>2. Len(list) \in Nat /\ DOMAIN list = 1 .. Len(list) /\ \A m \in 1 .. Len(list) : list[m] \in A0
  BY <1>1
<1> DEFINE A == {e \in A0 : e.kind # "added"}
<1>3. \A m \in 1 .. Len(list) : list[m] \in A
  BY <1>2, Zenon DEF NoneAdded
<1>4. list = [m \in 1 .. Len(list) |-> list[m]]
  BY <1>1
<1>5. \A e \in A : e.kind \in Hello!Kinds /\ e.kind # "added"
  BY <1>1
<1> HIDE DEF A
<1>6. list \in [1 .. Len(list) -> A]
  BY <1>3, <1>4
<1>7. list \in Seq(A)
  BY <1>2, <1>6, SeqDef
<1> QED  BY <1>5, <1>7, Zenon

LEMMA ApplyParrotALPNStep ==
  ASSUME HelloInv, Hello!ApplyParrotALPN
  PROVE  HelloInv'
<1>1. /\ pc = "alpn" /\ pc' = "versions"
      /\ UNCHANGED <<opts, preset, ciphers, versions, count, proto, exit, closed>>
  BY Zenon DEF Hello!ApplyParrotALPN
<1>2. /\ HelloTyped /\ count = -1 /\ AskedCiphers /\ NoneAdded(exts) /\ Hello!Untouched(exts) = Hello!Untouched(preset.exts)
      /\ alpn = Hello!Body(exts, "alpn") /\ versions = Hello!Body(exts, "versions")
  BY <1>1 DEF HelloInv
<1> DEFINE Done(list) ==
      /\ Laid(list) /\ OneALPN(list) /\ NoneAdded(list)
      /\ alpn' = Hello!Body(list, "alpn") /\ Hello!Body(list, "versions") = Hello!Body(exts, "versions")
      /\ Hello!Untouched(list) = Hello!Untouched(exts)
<1>3. ASSUME UNCHANGED <<exts, alpn>> PROVE Done(exts')
  <2>1. exts' = exts /\ alpn' = alpn
    BY <1>3
  <2>2. Done(exts)
    BY <1>2, <2>1 DEF HelloTyped
  <2> QED  BY <2>1, <2>2, Zenon
<1>4. ASSUME exts' = Hello!Without(exts, "alpn"), alpn' = << >> PROVE Done(exts')
  <2>1. PICK list, less : list = exts /\ less = Hello!Without(exts, "alpn")
    OBVIOUS
  <2>2. PICK A : list \in Seq(A) /\ \A e \in A : e.kind \in Hello!Kinds /\ e.kind # "added"
    BY <1>2, <2>1, LaidWithoutAdded, ZenonT(60) DEF HelloTyped
  <2>3. /\ less \in Seq({e \in A : e.kind # "alpn"})
        /\ Hello!Bodies(less, "versions") = Hello!Bodies(list, "versions")
        /\ Hello!Bodies(less, "added") = Hello!Bodies(list, "added")
        /\ Hello!Untouched(less) = Hello!Untouched(list)
    <3>1. ASSUME NEW kind PROVE /\ less \in Seq({e \in A : e.kind # "alpn"})
                                /\ kind # "alpn" => Hello!Bodies(less, kind) = Hello!Bodies(list, kind)
                                /\ Hello!Untouched(less) = Hello!Untouched(list)
      BY <2>1, <2>2, CollectedWithout
    <3> QED  BY <3>1
  <2> DEFINE U == {e \in A : e.kind # "alpn"}
  <2>4. \A m \in DOMAIN less : less[m] \in U
    BY <2>3
  <2>5. Laid(less) /\ \A m \in DOMAIN less : less[m].kind # "alpn"
    <3>1. \A e \in U : e.kind \in Hello!Kinds /\ e.kind # "alpn"
      BY <2>2
    <3>2. less \in Seq(U)
      BY <2>3
    <3> HIDE DEF U
    <3> QED  BY <2>4, <3>1, <3>2, Zenon DEF Laid
  <2>6. Hello!Body(less, "alpn") = << >>
    <3>1. less \in Seq(U)
      BY <2>3
    <3>2. Hello!Bodies(less, "alpn") = << >>
      BY <2>5, <3>1, CollectedNone, Zenon
    <3> QED  BY <3>2, Zenon DEF Hello!Body
  <2>7. Hello!Body(less, "versions") = Hello!Body(list, "versions")
    BY <2>3, BodyFollows, Zenon
  <2>8. NoneAdded(less)
    <3>1. \A e \in U : e.kind # "added"
      BY <2>2
    <3> HIDE DEF U
    <3> QED  BY <2>4, <3>1, Zenon DEF NoneAdded
  <2>9. OneALPN(less)
    BY <2>5, Zenon DEF OneALPN
  <2>10. exts' = less
    BY <1>4, <2>1
  <2>11. Done(less)
    BY <1>4, <2>1, <2>3, <2>5, <2>6, <2>7, <2>8, <2>9, Zenon
  <2> QED  BY <2>10, <2>11, Zenon
<1>5. ASSUME Hello!First("alpn") # 0, NEW list, exts' = [exts EXCEPT ![Hello!First("alpn")] = Hello!Ext("alpn", list)],
             alpn' = list
      PROVE  Done(exts')
  <2>1. "alpn" \in Hello!Kinds
    BY DEF Hello!Kinds
  <2>2. Replaces(exts', exts, "alpn", list)
    BY <1>2, <1>5, <2>1, BodyReplaced, Zenon
  <2>3. "versions" # "alpn"
    OBVIOUS
  <2> QED  BY <1>2, <1>5, <2>2, <2>3, Zenon DEF Replaces
<1>6. ASSUME Hello!First("alpn") = 0, NEW list, exts' = Append(exts, Hello!Ext("alpn", list)), alpn' = list
      PROVE  Done(exts')
  <2>1. \A a \in DOMAIN exts : exts[a].kind # "alpn"
    BY <1>2, <1>6, FirstIs, Zenon
  <2>2. Laid(exts)
    BY <1>2 DEF HelloTyped
  <2>3. exts' = WithALPN(exts, list)
    BY <1>6 DEF WithALPN
  <2>4. Offers(exts', exts, list)
    BY <2>1, <2>2, <2>3, ALPNAppended, Zenon
  <2> QED  BY <1>2, <1>6, <2>4, Zenon DEF Offers
<1>7. Done(exts')
  <2>1. \/ UNCHANGED <<exts, alpn>>
        \/ exts' = Hello!Without(exts, "alpn") /\ alpn' = << >>
        \/ \E list : /\ Hello!First("alpn") # 0 /\ alpn' = list
                     /\ exts' = [exts EXCEPT ![Hello!First("alpn")] = Hello!Ext("alpn", list)]
        \/ \E list : Hello!First("alpn") = 0 /\ exts' = Append(exts, Hello!Ext("alpn", list)) /\ alpn' = list
    BY Zenon DEF Hello!ApplyParrotALPN, Hello!Agrees
  <2> HIDE DEF Done
  <2> QED  BY <1>3, <1>4, <1>5, <1>6, <2>1, Zenon
<1>8. /\ Laid(exts') /\ OneALPN(exts') /\ NoneAdded(exts')
      /\ alpn' = Hello!Body(exts', "alpn") /\ versions' = Hello!Body(exts', "versions")
      /\ Hello!Untouched(exts') = Hello!Untouched(preset.exts)
  <2>1. versions' = versions
    BY <1>1
  <2> QED  BY <1>2, <1>7, <2>1, Zenon
<1>9. ciphers' \in Seq(Nat) /\ AskedCiphers'
  BY <1>1, <1>2 DEF HelloTyped, AskedCiphers
<1> HIDE DEF Done
<1> QED  BY <1>1, <1>2, <1>8, <1>9, HelloMade

LEMMA AppendParrotVersionsStep ==
  ASSUME HelloInv, Hello!AppendParrotVersions
  PROVE  HelloInv'
<1>1. /\ pc = "versions" /\ pc' = "extensions"
      /\ UNCHANGED <<opts, preset, ciphers, alpn, count, proto, exit, closed>>
  BY Zenon DEF Hello!AppendParrotVersions
<1>2. /\ HelloTyped /\ count = -1 /\ AskedCiphers /\ NoneAdded(exts) /\ Hello!Untouched(exts) = Hello!Untouched(preset.exts)
      /\ alpn = Hello!Body(exts, "alpn") /\ versions = Hello!Body(exts, "versions")
  BY <1>1 DEF HelloInv
<1> DEFINE Done(list) ==
      /\ Laid(list) /\ OneALPN(list) /\ NoneAdded(list)
      /\ versions' = Hello!Body(list, "versions") /\ Hello!Body(list, "alpn") = Hello!Body(exts, "alpn")
      /\ Hello!Untouched(list) = Hello!Untouched(exts)
<1>3. ASSUME UNCHANGED <<exts, versions>> PROVE Done(exts')
  <2>1. exts' = exts /\ versions' = versions
    BY <1>3
  <2>2. Done(exts)
    BY <1>2, <2>1 DEF HelloTyped
  <2> QED  BY <2>1, <2>2, Zenon
<1>4. ASSUME Hello!First("versions") # 0, NEW list, versions' = list,
             exts' = [exts EXCEPT ![Hello!First("versions")] = Hello!Ext("versions", list)]
      PROVE  Done(exts')
  <2>1. "versions" \in Hello!Kinds
    BY DEF Hello!Kinds
  <2>2. Replaces(exts', exts, "versions", list)
    BY <1>2, <1>4, <2>1, BodyReplaced, Zenon
  <2>3. "alpn" # "versions"
    OBVIOUS
  <2> QED  BY <1>2, <1>4, <2>2, <2>3, Zenon DEF Replaces
<1>5. Done(exts')
  <2>1. \/ UNCHANGED <<exts, versions>>
        \/ \E list : /\ Hello!First("versions") # 0 /\ versions' = list
                     /\ exts' = [exts EXCEPT ![Hello!First("versions")] = Hello!Ext("versions", list)]
    BY Zenon DEF Hello!AppendParrotVersions
  <2> HIDE DEF Done
  <2> QED  BY <1>3, <1>4, <2>1, Zenon
<1>6. /\ Laid(exts') /\ OneALPN(exts') /\ NoneAdded(exts')
      /\ alpn' = Hello!Body(exts', "alpn") /\ versions' = Hello!Body(exts', "versions")
      /\ Hello!Untouched(exts') = Hello!Untouched(preset.exts)
  <2>1. alpn' = alpn
    BY <1>1
  <2> QED  BY <1>2, <1>5, <2>1, Zenon
<1>7. ciphers' \in Seq(Nat) /\ AskedCiphers'
  BY <1>1, <1>2 DEF HelloTyped, AskedCiphers
<1> HIDE DEF Done
<1> QED  BY <1>1, <1>2, <1>6, <1>7, HelloMade

LEMMA AppendParrotExtensionsStep ==
  ASSUME HelloInv, Hello!AppendParrotExtensions
  PROVE  HelloInv'
<1>1. /\ pc = "extensions" /\ pc' = "info" /\ exts' = More
      /\ UNCHANGED <<opts, preset, ciphers, alpn, versions, count, proto, exit, closed>>
  BY DEF Hello!AppendParrotExtensions, More
<1>2. /\ HelloTyped /\ count = -1 /\ AskedCiphers /\ NoneAdded(exts) /\ Hello!Untouched(exts) = Hello!Untouched(preset.exts)
      /\ alpn = Hello!Body(exts, "alpn") /\ versions = Hello!Body(exts, "versions")
  BY <1>1 DEF HelloInv
<1>3. /\ Laid(More) /\ OneALPN(More) /\ KeptBy(More)
      /\ \A kind : kind # "added" => Hello!Body(More, kind) = Hello!Body(exts, kind)
  BY <1>2, InsertedIs
<1>4. Hello!Body(More, "alpn") = Hello!Body(exts, "alpn") /\ Hello!Body(More, "versions") = Hello!Body(exts, "versions")
  <2>1. "alpn" # "added" /\ "versions" # "added"
    OBVIOUS
  <2> QED  BY <1>3, <2>1, Zenon
<1>5. /\ Laid(exts') /\ OneALPN(exts') /\ KeptBy(exts')
      /\ alpn' = Hello!Body(exts', "alpn") /\ versions' = Hello!Body(exts', "versions")
  <2>1. alpn' = alpn /\ versions' = versions /\ exts' = More
    BY <1>1
  <2> QED  BY <1>2, <1>3, <1>4, <2>1, Zenon
<1>6. ciphers' \in Seq(Nat) /\ AskedCiphers'
  BY <1>1, <1>2 DEF HelloTyped, AskedCiphers
<1> QED  BY <1>1, <1>2, <1>5, <1>6, HelloMade

LEMMA HelloMoves ==
  ASSUME HelloInv, Hello!Next
  PROVE  HelloInv'
<1>1. ASSUME NEW code \in {28, 35, 60}, Hello!HandshakeFails(code) PROVE HelloInv'
  BY <1>1, HandshakeFailsStep
<1>2. ASSUME NEW p \in Hello!ToSet(alpn) \cup {""}, Hello!HandshakeDone(p) PROVE HelloInv'
  <2>1. p = "" \/ p \in Hello!ToSet(alpn)
    BY Zenon
  <2> QED  BY <1>2, <2>1, HandshakeDoneStep, Zenon
<1> QED  BY <1>1, <1>2, NoExtensionsStep, BuildStep, ApplyParrotALPNStep, AppendParrotVersionsStep,
            AppendParrotExtensionsStep, InfoStep, RefusedStep, Zenon DEF Hello!Next

\* As many of the ciphers are counted as there are, at most.
LEMMA CountIsBounded ==
  ASSUME NEW list \in Seq(Nat)
  PROVE  Hello!CountNonGREASE(list) \in 0 .. Len(list)
<1> DEFINE T == {m \in DOMAIN list : ~Hello!IsGREASE(list[m])}
<1>1. Len(list) \in Nat /\ DOMAIN list = 1 .. Len(list) /\ T \subseteq 1 .. Len(list)
  OBVIOUS
<1>2. IsFiniteSet(1 .. Len(list)) /\ Cardinality(1 .. Len(list)) = Len(list)
  <2>1. PICK m : m = Len(list)
    OBVIOUS
  <2>2. IsFiniteSet(1 .. m) /\ Cardinality(1 .. m) = m
    <3>1. m \in Nat
      BY <1>1, <2>1
    <3>2. 1 \in Int /\ m \in Int /\ (IF 1 > m THEN 0 ELSE m - 1 + 1) = m
      BY <3>1
    <3> QED  BY <3>2, FS_Interval
  <2> QED  BY <2>1, <2>2
<1> HIDE DEF T
<1>3. IsFiniteSet(T) /\ Cardinality(T) <= Cardinality(1 .. Len(list))
  BY <1>1, <1>2, FS_Subset
<1>4. Cardinality(T) \in Nat
  BY <1>3, FS_CardinalityType
<1>5. Hello!CountNonGREASE(list) = Cardinality(T)
  BY Zenon DEF Hello!CountNonGREASE, T, Hello!Cardinality, Cardinality
<1> QED  BY <1>1, <1>2, <1>3, <1>4, <1>5

-----------------------------------------------------------------------------
(* What must stay last stays last, unless ALPN has to be appended. *)

Ordered(list) ==
  Hello!LastStay(preset.exts) /\ ~Hello!ALPNAdded => Hello!LastStay(list)
OrderInv ==
  /\ pc = "alpn" => exts = preset.exts
  /\ pc = "start" => exts = << >>
  /\ ~preset.golang => Ordered(exts)

\* A list whose kinds are those of another.
LEMMA SameKindsStay ==
  ASSUME NEW a, NEW b, DOMAIN b = DOMAIN a, \A m \in DOMAIN a : b[m].kind = a[m].kind, Hello!LastStay(a)
  PROVE  Hello!LastStay(b)
BY Zenon DEF Hello!LastStay, Hello!MustStayLast

\* Leaving a kind out.
OfFirst(a, m, w) == \A r \in DOMAIN w : \E y \in 1 .. m : w[r] = a[y]
LEMMA WithoutStays ==
  ASSUME NEW A, NEW a, a \in Seq(A), Hello!LastStay(a)
  PROVE  Hello!LastStay(Hello!Without(a, "alpn"))
<1> DEFINE h == OtherThan(A, "alpn")
           N == Len(a)
           w(m) == FlatMap(h, SubSeq(a, 1, m))
           S == {m \in 0 .. N : Hello!LastStay(w(m)) /\ OfFirst(a, m, w(m))}
<1>1. N \in Nat /\ DOMAIN a = 1 .. N /\ \A m \in 1 .. N : a[m] \in A
  OBVIOUS
<1>2. h \in [A -> Seq(A)]
  <2>1. h \in [A -> Seq({e \in A : e.kind # "alpn"})]
    BY CollectedIs
  <2>2. Seq({e \in A : e.kind # "alpn"}) \subseteq Seq(A)
    BY SeqMonotonic
  <2> HIDE DEF h
  <2> QED  BY <2>1, <2>2
<1>3. \A e \in A : h[e] = IF e.kind = "alpn" THEN << >> ELSE << e >>
  BY Zenon DEF OtherThan
<1>4. Hello!Without(a, "alpn") = FlatMap(h, a)
  BY CollectedIs
<1> HIDE DEF h, N
<1>5. 0 \in S
  <2>1. 0 \in 0 .. N /\ 0 \in 0 .. Len(a)
    BY <1>1 DEF N
  <2>2. w(0) = << >>
    <3>1. SubSeq(a, 1, 0) = << >>
      OBVIOUS
    <3>2. FlatMap(h, << >>) = << >>
      BY <1>2, FlatMapEnds
    <3> QED  BY <3>1, <3>2, Zenon
  <2>3. Hello!LastStay(<< >>) /\ OfFirst(a, 0, << >>)
    BY DEF Hello!LastStay, OfFirst
  <2> QED  BY <2>1, <2>2, <2>3
<1>6. ASSUME NEW m \in 0 .. N - 1, m \in S PROVE m + 1 \in S
  <2>1. m \in Nat /\ m + 1 \in 0 .. N /\ m + 1 \in 1 .. N /\ m \in 0 .. Len(a) /\ m \in 0 .. Len(a) - 1
    BY <1>1 DEF N
  <2> DEFINE e == a[m + 1]
             x == SubSeq(a, 1, m)
             u == w(m)
             v == w(m + 1)
  <2>2. e \in A
    BY <1>1, <2>1
  <2>3. x \in Seq(A) /\ SubSeq(a, 1, m + 1) = Append(x, e)
    BY <2>1, UptoProperties
  <2>4. Hello!LastStay(u) /\ OfFirst(a, m, u)
    BY <1>6
  <2>5. v = u \o h[e] /\ u \in Seq(A)
    <3> HIDE DEF x, e
    <3>1. FlatMap(h, Append(x, e)) = FlatMap(h, x) \o h[e]
      BY <1>2, <2>2, <2>3, FlatMapAppend
    <3>2. FlatMap(h, x) \in Seq(A)
      BY <1>2, <2>3, FlatMapType
    <3> QED  BY <2>3, <3>1, <3>2 DEF x
  <2>6. \A y \in 1 .. m : y \in 1 .. m + 1 /\ y \in 1 .. N /\ y < m + 1
    BY <1>1, <2>1
  <2> HIDE DEF u, v, x, w
  <2>7. CASE h[e] = << >>
    <3>1. v = u
      BY <2>5, <2>7
    <3>2. OfFirst(a, m + 1, v)
      BY <2>4, <2>6, <3>1, Zenon DEF OfFirst
    <3> QED  BY <2>1, <2>4, <3>1, <3>2, Zenon DEF u, v
  <2>8. CASE h[e] = << e >>
    <3> DEFINE L == Len(u)
    <3>1. L \in Nat /\ DOMAIN u = 1 .. L /\ DOMAIN v = 1 .. L + 1 /\ v[L + 1] = e /\ \A r \in 1 .. L : v[r] = u[r]
      <4> HIDE DEF e
      <4> QED  BY <2>2, <2>5, <2>8
    <3> HIDE DEF L
    <3>2. \A r \in 1 .. L + 1 : r \in 1 .. L \/ r = L + 1
      BY <3>1
    <3>3. OfFirst(a, m + 1, v)
      <4>1. ASSUME NEW r \in 1 .. L + 1 PROVE \E y \in 1 .. m + 1 : v[r] = a[y]
        <5>1. CASE r \in 1 .. L
          BY <2>4, <2>6, <3>1, <5>1, Zenon DEF OfFirst
        <5>2. CASE r = L + 1
          <6>1. m + 1 \in 1 .. m + 1
            BY <2>1
          <6> QED  BY <3>1, <5>2, <6>1, Zenon
        <5> QED  BY <3>2, <5>1, <5>2
      <4> QED  BY <3>1, <4>1, Zenon DEF OfFirst
    <3>4. ASSUME NEW r \in 1 .. L + 1, NEW q \in 1 .. L + 1, r < q, Hello!MustStayLast(v[r])
          PROVE  Hello!MustStayLast(v[q])
      <4>1. r \in 1 .. L
        BY <3>1, <3>4
      <4>2. CASE q \in 1 .. L
        <5>1. Hello!MustStayLast(u[q])
          BY <2>4, <3>1, <3>4, <4>1, <4>2, Zenon DEF Hello!LastStay
        <5> QED  BY <3>1, <4>2, <5>1, Zenon
      <4>3. CASE q = L + 1
        <5>1. PICK y \in 1 .. m : u[r] = a[y]
          BY <2>4, <3>1, <4>1, Zenon DEF OfFirst
        <5>2. Hello!MustStayLast(a[y])
          BY <3>1, <3>4, <4>1, <5>1, Zenon
        <5>3. y \in DOMAIN a /\ m + 1 \in DOMAIN a /\ y < m + 1
          BY <1>1, <2>1, <2>6
        <5>4. Hello!MustStayLast(a[m + 1])
          BY <5>2, <5>3, Zenon DEF Hello!LastStay
        <5> QED  BY <3>1, <4>3, <5>4, Zenon
      <4> QED  BY <3>2, <4>2, <4>3
    <3>5. Hello!LastStay(v)
      BY <3>1, <3>4, Zenon DEF Hello!LastStay
    <3> QED  BY <2>1, <3>3, <3>5, Zenon DEF v
  <2> QED  BY <1>3, <2>2, <2>7, <2>8, Zenon
<1> HIDE DEF S
<1>7. N \in S
  <2>1. N \in 0 .. N
    BY <1>1
  <2> QED  BY <1>1, <1>5, <1>6, <2>1, Upwards
<1>8. SubSeq(a, 1, N) = a
  BY SubSeqFull DEF N
<1>9. Hello!LastStay(w(N))
  BY <1>7 DEF S
<1> QED  BY <1>4, <1>8, <1>9, Zenon

\* appendParrotExtensions puts nothing behind what must stay last.
LEMMA InsertedStays ==
  ASSUME HelloTyped, Hello!LastStay(exts)
  PROVE  Hello!LastStay(More)
<1>1. PICK list, mid, P, more : list = exts /\ mid = Hello!Added /\ P = Hello!Place /\ more = More
  OBVIOUS
<1>2. PICK A0 : list \in Seq(A0)
  BY <1>1 DEF HelloTyped, Laid
<1> DEFINE B == {Hello!Ext("added", c) : c \in Nat}
           A == A0 \cup B
           N == Len(list)
           M == Len(mid)
<1>3. /\ M \in Nat /\ DOMAIN mid = 1 .. M /\ mid \in Seq(B)
      /\ \A m \in 1 .. M : mid[m].kind = "added"
  BY <1>1, AddedIs
<1>4. P \in 0 .. N /\ \A r \in 1 .. P : ~Hello!MustStayLast(list[r])
  BY <1>1, PlaceIs
<1>5. N \in Nat /\ DOMAIN list = 1 .. N /\ list \in Seq(A) /\ mid \in Seq(A)
  BY <1>2, <1>3
<1>6. more = SubSeq(list, 1, P) \o mid \o SubSeq(list, P + 1, Len(list))
  BY <1>1 DEF More
<1> HIDE DEF A, B
<1>7. Inserts(more, list, P, mid)
  <2>1. list \in Seq(A)
    BY <1>5
  <2>2. mid \in Seq(A)
    BY <1>5
  <2>3. P \in 0 .. Len(list)
    BY <1>4 DEF N
  <2>4. Between(A, list, mid, P, more)
    BY <1>6, <2>1, <2>2, <2>3, InsertedBetween, Zenon
  <2> QED  BY <2>4, Zenon DEF Between
<1> HIDE DEF N, M
<1>8. /\ DOMAIN more = 1 .. N + M
      /\ \A m \in 1 .. P : more[m] = list[m]
      /\ \A m \in P + 1 .. P + M : more[m] = mid[m - P]
      /\ \A m \in P + M + 1 .. N + M : more[m] = list[m - M]
  BY <1>7, Zenon DEF Inserts, N, M
<1>9. ASSUME NEW m \in 1 .. N + M, Hello!MustStayLast(more[m])
      PROVE  m \in P + M + 1 .. N + M
  <2>1. CASE m \in 1 .. P
    BY <1>4, <1>8, <1>9, <2>1, Zenon
  <2>2. CASE m \in P + 1 .. P + M
    <3>1. m - P \in 1 .. M
      BY <1>3, <1>4, <1>5, <2>2
    <3>2. more[m].kind = "added"
      BY <1>3, <1>8, <2>2, <3>1, Zenon
    <3> QED  BY <1>9, <3>2 DEF Hello!MustStayLast
  <2> QED  BY <1>3, <1>4, <1>5, <2>1, <2>2
<1>10. ASSUME NEW d \in 1 .. N + M, NEW q \in 1 .. N + M, d < q, Hello!MustStayLast(more[d])
       PROVE  Hello!MustStayLast(more[q])
  <2>1. d \in P + M + 1 .. N + M
    BY <1>9, <1>10
  <2>2. q \in P + M + 1 .. N + M /\ d - M \in 1 .. N /\ q - M \in 1 .. N /\ d - M < q - M
    BY <1>3, <1>4, <1>5, <1>10, <2>1
  <2>3. more[d] = list[d - M] /\ more[q] = list[q - M]
    BY <1>8, <2>1, <2>2, Zenon
  <2>4. Hello!LastStay(list)
    BY <1>1
  <2>5. Hello!MustStayLast(list[d - M])
    BY <1>10, <2>3, Zenon
  <2>6. Hello!MustStayLast(list[q - M])
    BY <1>5, <2>2, <2>4, <2>5, Zenon DEF Hello!LastStay
  <2> QED  BY <2>3, <2>6, Zenon
<1>11. Hello!LastStay(more)
  BY <1>8, <1>10, Zenon DEF Hello!LastStay
<1> QED  BY <1>1, <1>11, Zenon

LEMMA OrderStarts ==
  ASSUME Hello!Init
  PROVE  OrderInv
<1>1. pc = "start" /\ exts = << >>
  BY DEF Hello!Init
<1>2. Hello!LastStay(<< >>)
  BY DEF Hello!LastStay
<1> QED  BY <1>1, <1>2 DEF OrderInv, Ordered

\* Ordered speaks of the preset and of the options, which no step changes.
LEMMA SameOrdering ==
  ASSUME UNCHANGED <<opts, preset>>
  PROVE  Ordered(exts)' = Ordered(exts')
<1>1. Hello!LastStay(preset.exts)' = Hello!LastStay(preset.exts)
  BY Zenon DEF Hello!LastStay, Hello!MustStayLast
<1>2. Hello!ALPNAdded' = Hello!ALPNAdded
  BY Zenon DEF Hello!ALPNAdded
<1>3. Hello!LastStay(exts)' = Hello!LastStay(exts')
  BY Zenon DEF Hello!LastStay, Hello!MustStayLast
<1> QED  BY <1>1, <1>2, <1>3, Zenon DEF Ordered

LEMMA SameOrder ==
  ASSUME OrderInv, UNCHANGED <<opts, preset, exts>>, pc' \in {"alpn", "start"} => pc' = pc
  PROVE  OrderInv'
<1>1. Ordered(exts)' = Ordered(exts) /\ exts' = exts /\ preset' = preset
  BY SameOrdering, Zenon
<1> QED  BY <1>1 DEF OrderInv

LEMMA OrderFollows ==
  ASSUME UNCHANGED <<opts, preset>>, pc' \notin {"alpn", "start"}, ~preset.golang => Ordered(exts')
  PROVE  OrderInv'
<1>1. Ordered(exts)' = Ordered(exts') /\ preset' = preset
  BY SameOrdering, Zenon
<1> QED  BY <1>1 DEF OrderInv

LEMMA BuildOrders ==
  ASSUME HelloInv, OrderInv, Hello!Build
  PROVE  OrderInv'
<1>1. /\ pc = "start" /\ UNCHANGED <<opts, preset>> /\ exts' = Hello!Base
      /\ pc' = IF ~Hello!Mutates THEN "handshake" ELSE IF preset.golang THEN "info" ELSE "alpn"
  BY DEF Hello!Build
<1>2. ~preset.golang => exts' = preset.exts
  BY <1>1, BuildsOn DEF HelloInv
<1>3. ~preset.golang => Ordered(exts')
  BY <1>2, Zenon DEF Ordered
<1>4. Ordered(exts)' = Ordered(exts')
  BY <1>1, SameOrdering
<1>5. pc' # "start" /\ (pc' = "alpn" => ~preset.golang)
  BY <1>1
<1> QED  BY <1>1, <1>2, <1>3, <1>4, <1>5 DEF OrderInv

\* The kinds are as they were when the first extension of a kind is replaced.
LEMMA ReplacedStays ==
  ASSUME HelloTyped, NEW kind, Hello!First(kind) # 0, NEW body, Hello!LastStay(exts)
  PROVE  Hello!LastStay([exts EXCEPT ![Hello!First(kind)] = Hello!Ext(kind, body)])
<1>1. PICK a, m, e, b : a = exts /\ m = Hello!First(kind) /\ e = Hello!Ext(kind, body) /\ b = [a EXCEPT ![m] = e]
  OBVIOUS
<1>2. e.kind = kind
  BY <1>1 DEF Hello!Ext
<1>3. m \in DOMAIN a /\ a[m].kind = kind
  BY <1>1, FirstIs, Zenon
<1>4. PICK A : a \in Seq(A)
  BY <1>1 DEF HelloTyped, Laid
<1>5. DOMAIN b = DOMAIN a /\ \A r \in DOMAIN a : b[r].kind = a[r].kind
  BY <1>1, <1>2, <1>3, <1>4
<1>6. Hello!LastStay(b)
  BY <1>1, <1>5, SameKindsStay, Zenon
<1> QED  BY <1>1, <1>6, Zenon

LEMMA ALPNOrders ==
  ASSUME HelloInv, OrderInv, Hello!ApplyParrotALPN
  PROVE  OrderInv'
<1>1. pc = "alpn" /\ pc' = "versions" /\ UNCHANGED <<opts, preset>> /\ exts = preset.exts /\ HelloTyped
  BY Zenon DEF Hello!ApplyParrotALPN, OrderInv, HelloInv
<1>2. PICK A : exts \in Seq(A)
  BY <1>1 DEF HelloTyped, Laid
<1>3. ASSUME ~preset.golang, Hello!LastStay(preset.exts), ~Hello!ALPNAdded PROVE Hello!LastStay(exts')
  <2>1. \/ exts' = exts
        \/ exts' = Hello!Without(exts, "alpn")
        \/ /\ Hello!First("alpn") # 0
           /\ \E list : exts' = [exts EXCEPT ![Hello!First("alpn")] = Hello!Ext("alpn", list)]
        \/ opts.alpn # "" /\ Hello!First("alpn") = 0
    BY Zenon DEF Hello!ApplyParrotALPN
  <2>2. ~(opts.alpn # "" /\ Hello!First("alpn") = 0)
    BY <1>1, <1>3, FirstIs, Zenon DEF Hello!ALPNAdded
  <2>3. Hello!LastStay(exts)
    BY <1>1, <1>3, Zenon
  <2>4. Hello!LastStay(Hello!Without(exts, "alpn"))
    BY <1>2, <2>3, WithoutStays
  <2>5. ASSUME NEW list, Hello!First("alpn") # 0,
               exts' = [exts EXCEPT ![Hello!First("alpn")] = Hello!Ext("alpn", list)]
        PROVE  Hello!LastStay(exts')
    <3>1. Hello!LastStay([exts EXCEPT ![Hello!First("alpn")] = Hello!Ext("alpn", list)])
      BY <1>1, <2>3, <2>5, ReplacedStays
    <3> QED  BY <2>5, <3>1, Zenon
  <2> QED  BY <2>1, <2>2, <2>3, <2>4, <2>5, Zenon
<1>4. pc' \notin {"alpn", "start"}
  BY <1>1
<1>5. ~preset.golang => Ordered(exts')
  BY <1>3, Zenon DEF Ordered
<1> QED  BY <1>1, <1>4, <1>5, OrderFollows

LEMMA VersionsOrder ==
  ASSUME HelloInv, OrderInv, Hello!AppendParrotVersions
  PROVE  OrderInv'
<1>1. pc' = "extensions" /\ UNCHANGED <<opts, preset>> /\ HelloTyped
  BY Zenon DEF Hello!AppendParrotVersions, HelloInv
<1>2. \/ exts' = exts
      \/ /\ Hello!First("versions") # 0
         /\ \E list : exts' = [exts EXCEPT ![Hello!First("versions")] = Hello!Ext("versions", list)]
  BY Zenon DEF Hello!AppendParrotVersions
<1>3. Hello!LastStay(exts) => Hello!LastStay(exts')
  BY <1>1, <1>2, ReplacedStays, Zenon
<1>4. ~preset.golang => Ordered(exts')
  BY <1>3, Zenon DEF OrderInv, Ordered
<1>5. pc' \notin {"alpn", "start"}
  BY <1>1
<1> QED  BY <1>1, <1>4, <1>5, OrderFollows

LEMMA ExtensionsOrder ==
  ASSUME HelloInv, OrderInv, Hello!AppendParrotExtensions
  PROVE  OrderInv'
<1>1. pc' = "info" /\ exts' = More /\ UNCHANGED <<opts, preset>> /\ HelloTyped
  BY DEF Hello!AppendParrotExtensions, More, HelloInv
<1>2. Hello!LastStay(exts) => Hello!LastStay(exts')
  BY <1>1, InsertedStays, Zenon
<1>3. ~preset.golang => Ordered(exts')
  BY <1>2, Zenon DEF OrderInv, Ordered
<1>4. pc' \notin {"alpn", "start"}
  BY <1>1
<1> QED  BY <1>1, <1>3, <1>4, OrderFollows

LEMMA OrderMoves ==
  ASSUME HelloInv, OrderInv, Hello!Next
  PROVE  OrderInv'
<1>1. CASE Hello!NoExtensions \/ Hello!Info \/ Hello!Refused
  <2>1. UNCHANGED <<opts, preset, exts>> /\ (pc' = "info" \/ pc' = "handshake" \/ pc' = "done")
    BY <1>1, Zenon DEF Hello!NoExtensions, Hello!Info, Hello!Refused, Hello!FailWith
  <2>2. pc' \notin {"alpn", "start"}
    BY <2>1
  <2> QED  BY <2>1, <2>2, SameOrder
<1>2. ASSUME NEW code \in {28, 35, 60}, Hello!HandshakeFails(code) PROVE OrderInv'
  <2>1. UNCHANGED <<opts, preset, exts>> /\ pc' = "done"
    BY <1>2, Zenon DEF Hello!HandshakeFails, Hello!FailWith
  <2> QED  BY <2>1, SameOrder
<1>3. ASSUME NEW p, Hello!HandshakeDone(p) PROVE OrderInv'
  <2>1. UNCHANGED <<opts, preset, exts>> /\ pc' = "done"
    BY <1>3, Zenon DEF Hello!HandshakeDone, Hello!FailWith
  <2> QED  BY <2>1, SameOrder
<1> QED  BY <1>1, <1>2, <1>3, BuildOrders, ALPNOrders, VersionsOrder, ExtensionsOrder, Zenon DEF Hello!Next

LEMMA HelloSafe ==
  ASSUME HelloInv, OrderInv
  PROVE  Hello!TypeOK /\ Hello!HelloAsAsked
<1>1. Hello!TypeOK
  <2>1. \A m \in DOMAIN exts : exts[m].kind \in Hello!Kinds
    <3>1. Laid(exts)
      BY DEF HelloInv, HelloTyped
    <3> QED  BY <3>1 DEF Laid
  <2>2. count \in -1 .. Len(ciphers)
    <3>1. ciphers \in Seq(Nat) /\ (count = -1 \/ count = Hello!CountNonGREASE(ciphers)) /\ Len(ciphers) \in Nat
      BY DEF HelloInv, HelloTyped
    <3>2. Hello!CountNonGREASE(ciphers) \in 0 .. Len(ciphers)
      BY <3>1, CountIsBounded
    <3> QED  BY <3>1, <3>2
  <2>3. /\ pc \in {"start", "alpn", "versions", "extensions", "info", "handshake", "done"}
        /\ exit \in {0, 1, 28, 35, 60} /\ ClosedIfFailed
    BY DEF HelloInv, HelloTyped
  <2>4. closed <=> exit # 0
    BY <2>3, Zenon DEF ClosedIfFailed
  <2> QED  BY <2>1, <2>2, <2>3, <2>4, Zenon DEF Hello!TypeOK
<1>2. Hello!ParrotKept
  <2>1. Hello!Sent /\ ~preset.golang /\ ~opts.extNone => KeptBy(exts)
    BY DEF HelloInv, Hello!Sent, Kept
  <2>2. ~preset.golang => Ordered(exts)
    BY DEF OrderInv
  <2> QED  BY <2>1, <2>2, Zenon DEF Hello!ParrotKept, KeptBy, Ordered
<1>3. Hello!FieldsAgree
  BY Zenon DEF HelloInv, HelloTyped, OneALPN, Hello!FieldsAgree
<1>4. Hello!CountIsOfWhatIsSent
  BY Zenon DEF HelloInv, AskedCiphers, Hello!CountIsOfWhatIsSent
<1>5. Hello!ProtocolIsSpoken
  <2>1. alpn = Hello!Body(exts, "alpn") /\ (pc = "done" /\ exit = 0 => ProtocolIs)
    BY DEF HelloInv
  <2> QED  BY <2>1, Zenon DEF Hello!ProtocolIsSpoken, ProtocolIs, Hello!Spoken
<1> QED  BY <1>1, <1>2, <1>3, <1>4, <1>5, Zenon DEF Hello!HelloAsAsked

LEMMA HelloInvariance == Spec => [](part = "hello" => HelloInv /\ OrderInv)
<1>1. Init => (part = "hello" => HelloInv /\ OrderInv)
  <2> SUFFICES ASSUME Init, part = "hello" PROVE HelloInv /\ OrderInv
    OBVIOUS
  <2>1. Hello!Init
    BY DEF Init
  <2> QED  BY <2>1, HelloStarts, OrderStarts
<1>2. (part = "hello" => HelloInv /\ OrderInv) /\ [Next]_vars => (part = "hello" => HelloInv /\ OrderInv)'
  <2> SUFFICES ASSUME part = "hello" => HelloInv /\ OrderInv, [Next]_vars, part' = "hello" PROVE HelloInv' /\ OrderInv'
    OBVIOUS
  <2>1. part = "hello"
    BY DEF Next, vars, ArgumentsStep, URLsStep, RequestStep, HelloStep, SYNStep
  <2>2. CASE HelloStep
    BY <2>1, <2>2, HelloMoves, OrderMoves DEF HelloStep
  <2>3. CASE UNCHANGED vars
    <3>1. UNCHANGED <<pc, opts, exit, ofHello>>
      BY <2>3 DEF vars
    <3>2. UNCHANGED <<opts, preset, exts, pc>>
      BY <3>1 DEF ofHello
    <3> QED  BY <1>2, <2>1, <3>1, <3>2, HelloStays, SameOrder
  <2> QED  BY <2>1, <2>2, <2>3 DEF Next, ArgumentsStep, URLsStep, RequestStep, SYNStep
<1> QED  BY <1>1, <1>2, PTL DEF Spec

\* HelloAsAsked (Sequential.tla, applyParrotALPN, appendParrotVersions and
\* appendParrotExtensions in utls.go).
THEOREM HelloIsAsAsked == Spec => []HelloAsAsked
<1>1. (part = "hello" => HelloInv /\ OrderInv) => HelloAsAsked
  BY HelloSafe DEF HelloAsAsked
<1> QED  BY <1>1, HelloInvariance, PTL

\* Type correctness of every part (the values its variables keep to are those
\* its module's TypeOK names).
THEOREM Typing == Spec => []TypeOK
<1> DEFINE P == part \in {"arguments", "urls", "request", "hello", "syn"}
<1>1. Init => P
  BY DEF Init
<1>2. P /\ [Next]_vars => P'
  BY DEF Next, vars, ArgumentsStep, URLsStep, RequestStep, HelloStep, SYNStep
<1>3. ASSUME P, part = "arguments" => ParserInv, part = "urls" => URLsInv, part = "request" => RequestInv,
             part = "hello" => HelloInv /\ OrderInv, part = "syn" => SYNInv
      PROVE  TypeOK
  <2>1. CASE part = "arguments"
    <3>1. Parser!TypeOK
      BY <1>3, <2>1, ParserSafe
    <3> QED  BY <2>1, <3>1 DEF TypeOK
  <2>2. CASE part = "urls"
    <3>1. URLs!TypeOK
      BY <1>3, <2>2, URLsSafe
    <3> QED  BY <2>2, <3>1 DEF TypeOK
  <2>3. CASE part = "request"
    <3>1. Request!TypeOK
      BY <1>3, <2>3, RequestSafe
    <3> QED  BY <2>3, <3>1 DEF TypeOK
  <2>4. CASE part = "hello"
    <3>1. Hello!TypeOK
      BY <1>3, <2>4, HelloSafe
    <3> QED  BY <2>4, <3>1 DEF TypeOK
  <2>5. CASE part = "syn"
    <3>1. SYN!TypeOK
      BY <1>3, <2>5, SYNSafe
    <3> QED  BY <2>5, <3>1 DEF TypeOK
  <2> QED  BY <1>3, <2>1, <2>2, <2>3, <2>4, <2>5
<1> HIDE DEF P
<1>4. /\ P /\ (part = "arguments" => ParserInv) /\ (part = "urls" => URLsInv)
      /\ (part = "request" => RequestInv) /\ (part = "hello" => HelloInv /\ OrderInv) /\ (part = "syn" => SYNInv)
      => TypeOK
  BY <1>3
<1> QED  BY <1>1, <1>2, <1>4, ParserInvariance, URLsInvariance, RequestInvariance, HelloInvariance,
            SYNInvariance, PTL DEF Spec
=============================================================================
