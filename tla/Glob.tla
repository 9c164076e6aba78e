-------------------------------- MODULE Glob --------------------------------
(***************************************************************************)
(* From the URL arguments to the list of targets (parseTargets and         *)
(* parseURL in internal/curlu/client.go, expandGlob and expandRange in     *)
(* glob.go).  An argument is an origin (scheme and authority, which are    *)
(* never globbed) and the characters of its path and query; to judge what  *)
(* becomes of them, an argument comes as pieces with their meaning: the    *)
(* texts one piece stands for, in order.                                   *)
(***************************************************************************)
EXTENDS Integers, Sequences, FiniteSets, SequencesExt

CONSTANTS Origins,      \* records [scheme, host, port]
          Fold,         \* the lower case of a host
          Ports,        \* the number a port is the text of, if it is one
          Inputs,       \* values of opts.URLs: sequences of records [origin, pieces],
                        \* a piece [text, means]
          MaxGlobURLs,  \* 1000 in the code
          MaxUint,      \* what strconv.ParseUint accepts, 2^32 - 1 in the code
          Digit         \* the value of a digit

-----------------------------------------------------------------------------
(* Numbers.  The Mut... definitions below are plausible bugs, one per        *)
(* property: no action uses them.                                            *)

Value(s) == FoldLeft(LAMBDA v, c : 10 * v + Digit[c], 0, s)
ParsesUint(s) == s # << >> /\ ToSet(s) \subseteq DOMAIN Digit /\ Value(s) \in 0 .. MaxUint

Numeral(v) ==
  LET text[k \in 0 .. v] ==
        LET last == CHOOSE c \in DOMAIN Digit : Digit[c] = k % 10
        IN  IF k < 10 THEN << last >> ELSE Append(text[k \div 10], last)
  IN  text[v]
Padded(v, width) == [k \in 1 .. width - Len(Numeral(v)) |-> "0"] \o Numeral(v)

Width(lo) == IF Len(lo) > 1 /\ lo[1] = "0" THEN Len(lo) ELSE 0

-----------------------------------------------------------------------------
(* What can be written: a piece is a record [text, means], means being << >> *)
(* if it is malformed, and behind it stands the rest of the argument.        *)

IsList(s) == s \in Seq(ToSet(s))
Texts(arg) == [m \in DOMAIN arg.pieces |-> arg.pieces[m].text]
Text(arg) == FlattenSeq(Texts(arg))
Behind(arg, m) == FlattenSeq(SubSeq(Texts(arg), m + 1, Len(arg.pieces)))

Special == {"{", "}", "[", "]", ","}

\* One character for itself, and one a backslash takes its meaning from.
Plain(piece, behind) ==
  /\ Len(piece.text) = 1 /\ piece.text[1] \notin Special \ {","}
  /\ piece.text[1] = "\\" /\ behind # << >> => behind[1] \notin Special
  /\ piece.means = << piece.text >>
Escaped(piece) ==
  /\ Len(piece.text) = 2 /\ piece.text[1] = "\\" /\ piece.text[2] \in Special
  /\ piece.means = << << piece.text[2] >> >>

\* A pattern ends with the first closer behind its opener.
Between(piece) == SubSeq(piece.text, 2, Len(piece.text) - 1)
Delimited(piece, opener, closer) ==
  Len(piece.text) > 1 /\ piece.text[1] = opener /\ piece.text[Len(piece.text)] = closer
Encloses(piece, opener, closer) ==
  Delimited(piece, opener, closer) /\ closer \notin ToSet(Between(piece))

\* {a,b,c}, without a backslash that takes the meaning from what is behind it.
Escapes(text) ==
  \E k \in 1 .. Len(text) - 1 : text[k] = "\\" /\ text[k + 1] \in Special
Joined(items) ==
  FlattenSeq([m \in DOMAIN items |-> IF m = 1 THEN items[m] ELSE << "," >> \o items[m]])
SetPiece(piece) ==
  /\ Encloses(piece, "{", "}") /\ ~Escapes(piece.text)
  /\ piece.means # << >> /\ \A m \in DOMAIN piece.means : "," \notin ToSet(piece.means[m])
  /\ Between(piece) = Joined(piece.means)

\* {a\,b,c}: "a backslash makes the next {, }, [, ] or , literal" (expandGlob's
\* comment, and README), so the items are "a,b" and "c".  expandGlob does not look
\* for backslashes within a set; EscapesAreLiteral is about that.
Spelled(item) ==
  FlattenSeq([k \in DOMAIN item |-> IF item[k] \in Special THEN <<"\\", item[k]>> ELSE << item[k] >>])
EscapedSet(piece) ==
  /\ Delimited(piece, "{", "}") /\ Escapes(piece.text)
  /\ piece.means # << >>
  /\ \A m \in DOMAIN piece.means :
       piece.means[m] # << >> => piece.means[m][Len(piece.means[m])] # "\\"
  /\ Between(piece) = Joined([m \in DOMAIN piece.means |-> Spelled(piece.means[m])])

\* [N-M], the "-" being at dash
Left(spec, dash) == SubSeq(spec, 1, dash - 1)
Right(spec, dash) == SubSeq(spec, dash + 1, Len(spec))
Bounds(spec, dash) ==
  /\ spec[dash] = "-" /\ ParsesUint(Left(spec, dash)) /\ ParsesUint(Right(spec, dash))
  /\ Value(Left(spec, dash)) <= Value(Right(spec, dash))
Counted(lo, hi) ==
  [m \in 1 .. Value(hi) - Value(lo) + 1 |-> Padded(Value(lo) + m - 1, Width(lo))]
RangePiece(piece) ==
  /\ Encloses(piece, "[", "]")
  /\ \E dash \in DOMAIN Between(piece) :
       /\ Bounds(Between(piece), dash)
       /\ piece.means = Counted(Left(Between(piece), dash), Right(Between(piece), dash))

\* A closer without its opener, brackets around what is no range, or an opener
\* without its closer.
Malformed(piece, behind) ==
  /\ piece.means = << >>
  /\ \/ piece.text \in {<< "}" >>, << "]" >>}
     \/ /\ Encloses(piece, "[", "]")
        /\ \A dash \in DOMAIN Between(piece) : ~Bounds(Between(piece), dash)
     \/ piece.text = << "{" >> /\ "}" \notin ToSet(behind)
     \/ piece.text = << "[" >> /\ "]" \notin ToSet(behind)

WellWritten(arg) ==
  /\ IsList(arg.pieces)
  /\ \A m \in DOMAIN arg.pieces :
       LET piece == arg.pieces[m]
           behind == Behind(arg, m)
       IN  /\ IsList(piece.text) /\ IsList(piece.means) /\ \A text \in ToSet(piece.means) : IsList(text)
           /\ \/ Plain(piece, behind) \/ Escaped(piece) \/ SetPiece(piece) \/ EscapedSet(piece)
              \/ RangePiece(piece) \/ Malformed(piece, behind)

GlobAssumption ==
  /\ MaxGlobURLs \in Nat \ {0} /\ MaxUint \in Nat
  /\ \A a \in Inputs : /\ a \in Seq(ToSet(a)) /\ a # << >>
                         /\ \A k \in DOMAIN a : a[k].origin \in Origins /\ WellWritten(a[k])
  /\ \A o \in Origins : o.host = "" \/ o.host \in DOMAIN Fold
  /\ \A c \in DOMAIN Digit : Digit[c] \in 0 .. 9
  /\ DOMAIN Digit \cap (Special \cup {"-"}) = {}

-----------------------------------------------------------------------------
VARIABLES
  args,     \* opts.URLs
  globoff,  \* -g
  pc,       \* "expand", "parse", "check" or "done"
  n,        \* the argument being expanded
  rest,     \* what of it expandGlob has not read
  literal,  \* literal characters not yet put behind out
  out,      \* the expansions so far
  targets,  \* the URLs parsed so far, records [origin, path]
  error     \* "none", or what ended the run

vars == <<args, globoff, pc, n, rest, literal, out, targets, error>>

Init ==
  /\ args \in Inputs
  /\ globoff \in BOOLEAN
  /\ pc = "expand" /\ n = 1 /\ rest = Text(args[1]) /\ literal = << >> /\ out = << << >> >>
  /\ targets = << >> /\ error = "none"

-----------------------------------------------------------------------------
(* Ranges and sets                                                           *)

\* Where a character is first, 0 if nowhere, and what stands before it.
Index(text, c) == SelectInSeq(text, LAMBDA d : d = c)
Before(text, c) == IF Index(text, c) = 0 THEN text ELSE SubSeq(text, 1, Index(text, c) - 1)

\* expandRange: N-M with N up to M, and not too wide; strings.Cut parts the
\* text at the first "-".
Lo(spec) == Before(spec, "-")
Hi(spec) == SubSeq(spec, Index(spec, "-") + 1, Len(spec))
IsRange(spec) ==
  /\ Index(spec, "-") # 0 /\ ParsesUint(Lo(spec)) /\ ParsesUint(Hi(spec))
  /\ Value(Lo(spec)) <= Value(Hi(spec))
TooWide(spec) == Value(Hi(spec)) - Value(Lo(spec)) >= MaxGlobURLs
RangeItems(spec) ==
  [k \in 1 .. Value(Hi(spec)) - Value(Lo(spec)) + 1 |->
     Padded(Value(Lo(spec)) + k - 1, Width(Lo(spec)))]

\* strings.Split(spec, ",")
SetItems(spec) ==
  FlattenSeq([k \in 1 .. Len(spec) + 1 |->
    IF k = 1 \/ spec[k - 1] = "," THEN << Before(SubSeq(spec, k, Len(spec)), ",") >> ELSE << >>])

-----------------------------------------------------------------------------
(* expandGlob, one action per case of its loop *)

Expanding == pc = "expand" /\ ~globoff /\ rest # << >>
Stop(e) == error' = e /\ pc' = "done" /\ UNCHANGED <<args, globoff, n, rest, literal, out, targets>>

Escaping == Len(rest) > 1 /\ rest[1] = "\\" /\ rest[2] \in Special

Escape ==
  /\ Expanding /\ Escaping
  /\ literal' = Append(literal, rest[2])
  /\ rest' = SubSeq(rest, 3, Len(rest))
  /\ UNCHANGED <<args, globoff, pc, n, out, targets, error>>

Literal ==
  /\ Expanding /\ ~Escaping /\ rest[1] \notin Special \ {","}
  /\ literal' = Append(literal, rest[1])
  /\ rest' = Tail(rest)
  /\ UNCHANGED <<args, globoff, pc, n, out, targets, error>>

\* The closer is the first one behind the opener, whatever lies in between.
Closer == Index(rest, IF rest[1] = "{" THEN "}" ELSE "]")
Inside == SubSeq(rest, 2, Closer - 1)

Unmatched ==
  /\ Expanding
  /\ rest[1] \in {"}", "]"} \/ (rest[1] \in {"{", "["} /\ Closer = 0)
  /\ Stop("unmatched")

BadRange == Expanding /\ rest[1] = "[" /\ Closer # 0 /\ ~IsRange(Inside) /\ Stop("range")

\* Every expansion so far is continued with every item: the item varies
\* faster than what stands left of it.
MutMultiply(prefixes, items) ==
  [k \in 1 .. Len(prefixes) * Len(items) |->
     prefixes[((k - 1) % Len(prefixes)) + 1] \o items[((k - 1) \div Len(prefixes)) + 1]]
Multiply(prefixes, items) ==
  FlattenSeq([p \in DOMAIN prefixes |-> [k \in DOMAIN items |-> prefixes[p] \o items[k]]])

Flushed == [k \in DOMAIN out |-> out[k] \o literal]
Exceeds(items) == Len(out) * Len(items) > MaxGlobURLs

Multiplied(items) ==
  /\ ~Exceeds(items)
  /\ out' = Multiply(Flushed, items)
  /\ literal' = << >>
  /\ rest' = SubSeq(rest, Closer + 1, Len(rest))
  /\ UNCHANGED <<args, globoff, pc, n, targets, error>>

ExpandSet ==
  /\ Expanding /\ rest[1] = "{" /\ Closer # 0
  /\ \/ Multiplied(SetItems(Inside))
     \/ Exceeds(SetItems(Inside)) /\ Stop("many")

ExpandRange ==
  /\ Expanding /\ rest[1] = "[" /\ Closer # 0 /\ IsRange(Inside)
  /\ \/ TooWide(Inside) /\ Stop("many")
     \/ ~TooWide(Inside) /\ Multiplied(RangeItems(Inside))
     \/ ~TooWide(Inside) /\ Exceeds(RangeItems(Inside)) /\ Stop("many")

\* The end of the argument, or -g: literals are put behind every expansion.
Expanded ==
  /\ pc = "expand" /\ ~Expanding
  /\ out' = IF globoff THEN << rest >> ELSE Flushed
  /\ literal' = << >> /\ rest' = << >> /\ pc' = "parse"
  /\ UNCHANGED <<args, globoff, n, targets, error>>

-----------------------------------------------------------------------------
(* parseURL, on every expansion of an argument; then the next argument *)

\* url.Parse: behind a "%" of the path come two hexadecimal digits.
Hex == {"0", "1", "2", "3", "4", "5", "6", "7", "8", "9",
        "a", "b", "c", "d", "e", "f", "A", "B", "C", "D", "E", "F"}
BadEscape(path) ==
  \E k \in DOMAIN path :
    /\ path[k] = "%" /\ "?" \notin ToSet(SubSeq(path, 1, k))
    /\ ~(k + 2 <= Len(path) /\ {path[k + 1], path[k + 2]} \subseteq Hex)

ParseError(o, path) ==
  IF BadEscape(path) \/ o.scheme = "" \/ o.host = "" THEN "malformed"
  ELSE IF o.scheme \notin {"http", "https"} THEN "protocol"
  ELSE IF o.port # "" /\ o.port \notin DOMAIN Ports THEN "malformed"
  ELSE "none"

Parses(k) == ParseError(args[n].origin, out[k]) = "none"

\* The first expansion that is refused ends the run.
BadURL ==
  /\ pc = "parse"
  /\ \E k \in DOMAIN out : /\ ~Parses(k) /\ \A q \in 1 .. k - 1 : Parses(q)
                           /\ Stop(ParseError(args[n].origin, out[k]))

ParseURL ==
  /\ pc = "parse" /\ \A k \in DOMAIN out : Parses(k)
  /\ targets' = targets \o [k \in DOMAIN out |-> [origin |-> args[n].origin, path |-> out[k]]]
  /\ IF n < Len(args)
     THEN n' = n + 1 /\ pc' = "expand" /\ rest' = Text(args[n + 1])
     ELSE pc' = "check" /\ UNCHANGED <<n, rest>>
  /\ out' = << << >> >>
  /\ UNCHANGED <<args, globoff, literal, error>>

\* targetPort, and the comparison with the first target.
TargetPort(o) == IF o.port # "" THEN Ports[o.port] ELSE IF o.scheme = "https" THEN 443 ELSE 80
SameOrigin(a, b) ==
  a.scheme = b.scheme /\ Fold[a.host] = Fold[b.host] /\ TargetPort(a) = TargetPort(b)

CheckTargets ==
  /\ pc = "check"
  /\ error' = IF Len(targets) > MaxGlobURLs THEN "many"
               ELSE IF \A k \in DOMAIN targets : SameOrigin(targets[k].origin, targets[1].origin)
               THEN "none" ELSE "origin"
  /\ pc' = "done"
  /\ UNCHANGED <<args, globoff, n, rest, literal, out, targets>>

Next ==
  \/ Escape \/ Literal \/ Unmatched \/ BadRange \/ ExpandSet \/ ExpandRange \/ Expanded
  \/ BadURL \/ ParseURL \/ CheckTargets

Spec == Init /\ [][Next]_vars

-----------------------------------------------------------------------------
(* What the arguments mean: the product of their pieces, URL number k being  *)
(* number k in the mixed radix whose digits are the pieces.                  *)

Count(means) ==
  LET product[m \in 0 .. Len(means)] == IF m = 0 THEN 1 ELSE product[m - 1] * Len(means[m])
  IN  product[Len(means)]
URL(means, k) ==
  FlattenSeq([j \in DOMAIN means |->
    means[j][((k \div Count(SubSeq(means, j + 1, Len(means)))) % Len(means[j])) + 1]])
Product(means) == [k \in 1 .. Count(means) |-> URL(means, k - 1)]
MeansOf(arg) ==
  [k \in DOMAIN arg.pieces |-> IF globoff THEN << arg.pieces[k].text >> ELSE arg.pieces[k].means]
Of(origin, paths) == [k \in DOMAIN paths |-> [origin |-> origin, path |-> paths[k]]]
Meaning(arg) == Of(arg.origin, Product(MeansOf(arg)))
Meanings == FlattenSeq([a \in DOMAIN args |-> Meaning(args[a])])
IsWellFormed(arg) == \A k \in DOMAIN arg.pieces : arg.pieces[k].means # << >>
WellFormed == \A a \in DOMAIN args : IsWellFormed(args[a])
Accepted == pc = "done" /\ error = "none"
\* The code and its documentation agree on the meaning.
Undisputed ==
  globoff \/ \A a \in DOMAIN args : \A k \in DOMAIN args[a].pieces : ~EscapedSet(args[a].pieces[k])

-----------------------------------------------------------------------------
(* Properties *)

\* Every variable keeps to its values, and there is always an expansion:
\* execute takes the first target unseen.
TypeOK ==
  /\ pc \in {"expand", "parse", "check", "done"} /\ globoff \in BOOLEAN
  /\ n \in DOMAIN args /\ out # << >> /\ (pc \in {"check", "done"} /\ error = "none" => targets # << >>)
  /\ \A t \in ToSet(targets) : t.origin \in Origins
  /\ error \in {"none", "unmatched", "range", "many", "malformed", "protocol", "origin"}

\* The targets of an accepted command line are the expansions of its arguments
\* in curl order, the rightmost pattern varying fastest, none lost or repeated;
\* ranges keep the width of a zero-padded start.
CurlOrder == Accepted /\ (globoff \/ WellFormed) => targets = Meanings

\* A bad pattern is never passed on to the server as it stands.
PatternsAreChecked == Accepted /\ ~globoff => WellFormed

\* Expansion multiplies: neither the list built for an argument nor the list
\* handed to the run ever holds more than MaxGlobURLs URLs.
NeverTooMany ==
  /\ Len(out) <= MaxGlobURLs
  /\ Accepted => Len(targets) <= MaxGlobURLs

\* As many URLs as the limit are still accepted.
LimitExact == error = "many" /\ WellFormed => Len(Meanings) > MaxGlobURLs

\* All requests of a run can go over one connection, whichever way the URLs
\* spell its host and port.
OneOrigin ==
  /\ Accepted => \A t, u \in ToSet(targets) :
       t.origin.scheme = u.origin.scheme /\ Fold[t.origin.host] = Fold[u.origin.host]
         /\ TargetPort(t.origin) = TargetPort(u.origin)
  /\ error = "origin" => \E a, b \in DOMAIN args : ~SameOrigin(args[a].origin, args[b].origin)

\* The targets are as written: all of the above, where the documentation and the
\* code agree on what is written.
TargetsAsWritten ==
  /\ NeverTooMany /\ OneOrigin
  /\ Undisputed => CurlOrder /\ PatternsAreChecked /\ LimitExact

\* And where they do not: a backslash makes the next {, }, [, ] or , literal,
\* within a set too (README, expandGlob's comment).
EscapesAreLiteral == CurlOrder
=============================================================================
