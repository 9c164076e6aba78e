------------------------------ MODULE Options ------------------------------
(***************************************************************************)
(* The command line: ParseArgs (internal/curlu/options.go), argument by    *)
(* argument and letter by letter, the rules for combining options there    *)
(* and in checkTransportOptions (client.go), and Run with report (run.go). *)
(* To judge what becomes of a command line it comes with its units: the    *)
(* arguments that belong together, and what they mean.                     *)
(***************************************************************************)
EXTENDS Integers, Sequences, FiniteSets, SequencesExt, Arguments

CONSTANTS CommandLines,  \* records [args, units]
          Accepts,       \* the texts a valued option accepts as its value
          Codes          \* exit codes a transfer may end with

-----------------------------------------------------------------------------
(* What can be said: a unit is a record [args, means], and a meaning the     *)
(* name of an option with its value (NoValue for a flag), "url" with a URL,  *)
(* or "wrong" for what no command line may have.  None of this looks at the  *)
(* arguments in front of a unit or behind it.                                *)

IsList(s) == s \in Seq(ToSet(s))

\* The options an argument names, each by its long name.
Canonical(name) == IF name = "http3-only" THEN "http3" ELSE name
OfLetter(c) ==
  CASE c = "i" -> "include" [] c = "s" -> "silent" [] c = "S" -> "show-error"
    [] c = "v" -> "verbose" [] c = "k" -> "insecure" [] c = "g" -> "globoff"
    [] c = "4" -> "ipv4" [] c = "6" -> "ipv6" [] c = "h" -> "help" [] c = "V" -> "version"
    [] c = "H" -> "header" [] c = "m" -> "max-time" [] OTHER -> c
NamesOf(arg) ==
  IF arg.kind = "long" THEN << Canonical(arg.name) >>
  ELSE [m \in DOMAIN arg.letters |-> OfLetter(arg.letters[m])]
LastName(arg) == NamesOf(arg)[Len(NamesOf(arg))]

Switches == Flags \cup Families
FamilyOf(name) == IF name = "ipv4" THEN "4" ELSE "6"
Accepted(name, value) == name = "header" \/ value \in Accepts[name]
Means(name, value) == [name |-> name, value |-> value]

\* One option, or a cluster of which all but the last are flags.
IsOption(arg) ==
  /\ arg.kind \in {"long", "short"} /\ IsList(NamesOf(arg)) /\ NamesOf(arg) # << >>
  /\ \A m \in 1 .. Len(NamesOf(arg)) - 1 : NamesOf(arg)[m] \in Switches
Says(unit, value) ==
  LET names == NamesOf(unit.args[1])
  IN  unit.means = [m \in DOMAIN names |-> Means(names[m], IF m = Len(names) THEN value ELSE NoValue)]

FlagUnit(unit) ==
  LET arg == unit.args[1]
  IN  /\ Len(unit.args) = 1 /\ IsOption(arg)
      /\ LastName(arg) \in Switches /\ arg.value = NoValue /\ Says(unit, NoValue)
JoinedUnit(unit) ==
  LET arg == unit.args[1]
  IN  /\ Len(unit.args) = 1 /\ IsOption(arg) /\ LastName(arg) \in Valued
      /\ arg.value # NoValue /\ Accepted(LastName(arg), arg.value) /\ Says(unit, arg.value)
SeparateUnit(unit) ==
  LET arg == unit.args[1]
      value == unit.args[2]
  IN  /\ Len(unit.args) = 2 /\ IsOption(arg) /\ LastName(arg) \in Valued
      /\ arg.value = NoValue /\ Accepted(LastName(arg), value) /\ Says(unit, value)
URLUnit(unit) ==
  LET arg == unit.args[1]
  IN  Len(unit.args) = 1 /\ arg.kind = "text" /\ unit.means = << Means("url", arg) >>

\* Behind "--" there are only URLs.
LastUnit(unit) ==
  /\ unit.args # << >> /\ unit.args[1].kind = "--"
  /\ unit.means = [m \in 1 .. Len(unit.args) - 1 |-> Means("url", unit.args[m + 1])]

\* An unknown option, a value where none is taken or one that is not accepted,
\* or none (which is possible only at the end).  What follows an unknown
\* letter counts as its value.
WrongUnit(unit, last) ==
  LET arg == unit.args[1]
  IN  /\ unit.args # << >> /\ unit.means = << Means("wrong", NoValue) >> /\ IsOption(arg)
      /\ \/ LastName(arg) \notin Switches \cup Valued
         \/ LastName(arg) \in Switches /\ arg.value # NoValue
         \/ LastName(arg) \in Valued /\ arg.value # NoValue /\ ~Accepted(LastName(arg), arg.value)
         \/ /\ LastName(arg) \in Valued /\ arg.value = NoValue
            /\ IF Len(unit.args) = 1 THEN last ELSE ~Accepted(LastName(arg), unit.args[2])

\* expandCombinedFlags: a combined argument is itself a list of arguments.
Expanded(list) ==
  FlattenSeq([m \in DOMAIN list |->
    IF list[m].kind = "combined" THEN list[m].args ELSE << list[m] >>])

\* A command line is one unit behind the other.
WellSpelled(l) ==
  /\ IsList(l.units)
  /\ \A m \in DOMAIN l.units :
       LET unit == l.units[m]
       IN  /\ IsList(unit.args) /\ IsList(unit.means)
           /\ \/ FlagUnit(unit) \/ JoinedUnit(unit) \/ SeparateUnit(unit) \/ URLUnit(unit)
              \/ m = Len(l.units) /\ LastUnit(unit)
              \/ WrongUnit(unit, m = Len(l.units))
  /\ Expanded(l.args) = FlattenSeq([m \in DOMAIN l.units |-> l.units[m].args])

OptionsAssumption ==
  /\ Valued \subseteq DOMAIN Accepts /\ Codes \subseteq Nat
  /\ \A l \in CommandLines : WellSpelled(l)

-----------------------------------------------------------------------------
VARIABLES
  line,        \* the command line
  args,        \* its arguments, combined ones split
  i,           \* the argument at hand
  j,           \* the letter of it at hand
  positional,  \* "--" has been seen
  opts,        \* [flags, family, single, list, urls]
  pc,          \* "expand", "parse", "run", "transfer", "done", "refused" or "failed"
  exit,        \* the exit code, -1 before there is one
  shown        \* the error was written to stderr

vars == <<line, args, i, j, positional, opts, pc, exit, shown>>

NoOptions == [flags |-> {}, family |-> "", single |-> [n \in Singles |-> NoValue],
              list |-> [n \in Lists |-> << >>], urls |-> << >>]

Init ==
  /\ line \in CommandLines
  /\ args = << >> /\ i = 1 /\ j = 1 /\ positional = FALSE /\ opts = NoOptions
  /\ pc = "expand" /\ exit = -1 /\ shown = FALSE

-----------------------------------------------------------------------------
Expand ==
  /\ pc = "expand"
  /\ args' = Expanded(line.args)
  /\ pc' = "parse"
  /\ UNCHANGED <<line, i, j, positional, opts, exit, shown>>

(* The loop of ParseArgs.  The Mut... definitions here and below are         *)
(* plausible bugs, one per property: no action uses them.                    *)

Arg == args[i]
Parsing == pc = "parse" /\ i <= Len(args)
AtURL == Parsing /\ (positional \/ Arg.kind = "text")
AtOption == Parsing /\ ~positional /\ Arg.kind \in {"long", "short"}

\* The option at hand and the value that is part of it.
LastLetter == j = Len(NamesOf(Arg))
Name == NamesOf(Arg)[j]
Joined == IF LastLetter THEN Arg.value ELSE NoValue

Go(to) == i' = to /\ j' = 1 /\ UNCHANGED <<line, args, positional, pc, exit, shown>>

TakeURL ==
  /\ AtURL
  /\ opts' = [opts EXCEPT !.urls = Append(@, Arg)]
  /\ Go(i + 1)

TakeDashDash ==
  /\ Parsing /\ ~positional /\ Arg.kind = "--"
  /\ positional' = TRUE /\ i' = i + 1
  /\ UNCHANGED <<line, args, j, opts, pc, exit, shown>>

TakeFlag ==
  /\ AtOption /\ Joined = NoValue /\ Name \in Switches
  /\ opts' = IF Name \in Flags THEN [opts EXCEPT !.flags = @ \cup {Name}]
             ELSE [opts EXCEPT !.family = FamilyOf(Name)]
  /\ \/ LastLetter /\ Go(i + 1)
     \/ ~LastLetter /\ j' = j + 1 /\ UNCHANGED <<line, args, i, positional, pc, exit, shown>>

\* optionArgument: the value is part of the argument, or the next one whatever
\* it looks like.
HasValue == Joined # NoValue \/ i < Len(args)
OwnValue == Joined # NoValue
Value == IF OwnValue THEN Joined ELSE args[i + 1]

MutAfter == i + 2
After == IF OwnValue THEN i + 1 ELSE i + 2

TakeValue ==
  /\ AtOption /\ Name \in Valued /\ HasValue /\ Accepted(Name, Value)
  /\ opts' = IF Name \in Lists THEN [opts EXCEPT !.list[Name] = Append(@, Value)]
             ELSE [opts EXCEPT !.single[Name] = Value]
  /\ Go(After)

\* report
Shows == "silent" \notin opts.flags \/ "show-error" \in opts.flags
Report(to, code) ==
  /\ exit' = code /\ shown' = Shows /\ pc' = to
  /\ UNCHANGED <<line, args, i, j, positional, opts>>

BadOption ==
  /\ AtOption
  /\ \/ Name \notin Switches \cup Valued
     \/ Name \in Switches /\ Joined # NoValue
     \/ Name \in Valued /\ (HasValue => ~Accepted(Name, Value))
  /\ Report("refused", 2)

-----------------------------------------------------------------------------
(* The rules for combining options *)

Has(o, name) == IF name \in Singles THEN o.single[name] # NoValue ELSE name \in o.flags
ALPNOption(o) == Has(o, "utls-alpn-none") \/ Has(o, "utls-alpn-hex")

MutConflict(o) ==
  \/ Has(o, "utls-ext-none") /\ ALPNOption(o)
  \/ /\ o.list["utls-version-append"] # << >> \/ o.list["utls-ext-append"] # << >>
     /\ Has(o, "utls-ext-none") \/ ~Has(o, "utls-hello")
Conflict(o) ==
  \/ Has(o, "utls-alpn-none") /\ Has(o, "utls-alpn-hex")
  \/ Has(o, "utls-ext-none") /\ ALPNOption(o)
  \/ /\ o.list["utls-version-append"] # << >> \/ o.list["utls-ext-append"] # << >>
     /\ Has(o, "utls-ext-none") \/ ~Has(o, "utls-hello")
NoURL(o) == o.urls = << >> /\ o.flags \cap {"help", "version", "utls-hello-list"} = {}

EndOfArgs == pc = "parse" /\ i > Len(args)
ParseEnds ==
  /\ EndOfArgs /\ ~Conflict(opts) /\ ~NoURL(opts)
  /\ pc' = "run"
  /\ UNCHANGED <<line, args, i, j, positional, opts, exit, shown>>
BadCombination == EndOfArgs /\ (Conflict(opts) \/ NoURL(opts)) /\ Report("refused", 2)

\* parseTargets and, for the scheme of the first URL, utlsOptionsSet and
\* checkTransportOptions.  A URL is of one of two origins, named by the scheme.
Readable(o) == \A k \in DOMAIN o.urls : o.urls[k].kind = "text"
OneOrigin(o) == \A k \in DOMAIN o.urls : o.urls[k] = o.urls[1]
UTLSOptionsSet(o) ==
  \/ \E n \in {"utls-hello", "utls-alpn-hex", "utls-alpn-none", "utls-ext-none", "utls-info"} :
       Has(o, n)
  \/ \E n \in {"utls-cipher-append", "utls-version-append", "utls-ext-append"} : o.list[n] # << >>
Scheme(o) == o.urls[1].text
Impossible(o) ==
  \/ Has(o, "ja4t") /\ (UTLSOptionsSet(o) \/ Scheme(o) # "http" \/ o.family = "6")
  \/ UTLSOptionsSet(o) /\ Scheme(o) # "https"
  \/ Has(o, "http3") /\ (\/ Has(o, "ja4t") \/ UTLSOptionsSet(o)
                         \/ Has(o, "http2-prior-knowledge") \/ Scheme(o) # "https")

-----------------------------------------------------------------------------
(* Run *)

Prints == opts.flags \cap {"help", "version", "utls-hello-list"} # {}

PrintAndExit ==
  /\ pc = "run" /\ Prints
  /\ \/ exit' = 0 /\ pc' = "done" /\ UNCHANGED <<line, args, i, j, positional, opts, shown>>
     \/ Report("failed", 23)

\* parseTargets (module Glob), checkTransportOptions and parseRequestHeaders
\* (module RequestHeaders), before anything is opened.
Execute ==
  /\ pc = "run" /\ ~Prints
  /\ \/ ~Readable(opts) /\ Report("refused", 3)
     \/ Readable(opts) /\ (~OneOrigin(opts) \/ Impossible(opts)) /\ Report("refused", 2)
     \/ /\ Readable(opts) /\ OneOrigin(opts) /\ ~Impossible(opts)
        /\ \/ opts.list["header"] # << >> /\ Report("refused", 2)
           \/ /\ pc' = "transfer"
              /\ UNCHANGED <<line, args, i, j, positional, opts, exit, shown>>

\* The transfer (module Session) ends.
TransferEnds(code) ==
  /\ pc = "transfer"
  /\ IF code = 0
     THEN exit' = 0 /\ pc' = "done" /\ UNCHANGED <<line, args, i, j, positional, opts, shown>>
     ELSE Report("failed", code)

Next ==
  \/ Expand \/ TakeURL \/ TakeDashDash \/ TakeFlag \/ TakeValue \/ BadOption
  \/ ParseEnds \/ BadCombination \/ PrintAndExit \/ Execute
  \/ \E code \in Codes : TransferEnds(code)

Spec == Init /\ [][Next]_vars

-----------------------------------------------------------------------------
(* What a command line means: what its units mean, one after the other.      *)

Said == FlattenSeq([m \in DOMAIN line.units |-> line.units[m].means])
Right(said) == \A m \in DOMAIN said : said[m].name # "wrong"

ValuesOf(name, said) ==
  FlattenSeq([m \in DOMAIN said |-> IF said[m].name = name THEN << said[m].value >> ELSE << >>])
FamiliesOf(said) ==
  FlattenSeq([m \in DOMAIN said |->
                IF said[m].name \in Families THEN << FamilyOf(said[m].name) >> ELSE << >>])
LastOf(list, none) == IF list = << >> THEN none ELSE list[Len(list)]
MeaningOf(said) ==
  [flags |-> {f \in Flags : \E m \in DOMAIN said : said[m].name = f},
   family |-> LastOf(FamiliesOf(said), ""),
   single |-> [name \in Singles |-> LastOf(ValuesOf(name, said), NoValue)],
   list |-> [name \in Lists |-> ValuesOf(name, said)],
   urls |-> ValuesOf("url", said)]
Meaning == MeaningOf(Said)

-----------------------------------------------------------------------------
(* Properties *)

\* Every variable keeps to its values; no argument is read beyond the last.
TypeOK ==
  /\ pc \in {"expand", "parse", "run", "transfer", "done", "refused", "failed"}
  /\ i \in 1 .. Len(args) + 1 /\ j \in Nat \ {0}
  /\ opts.flags \subseteq Flags /\ opts.family \in {"", "4", "6"}
  /\ exit \in {-1, 0, 2, 3, 23} \cup Codes /\ shown \in BOOLEAN

\* A command line means the same however its options are spelled, clustered or
\* combined into one argument and wherever they stand: no argument is lost or
\* taken twice, the last value of a single-valued option wins, and repeatable
\* ones and URLs keep their order.
SpellingIsFree == pc \in {"run", "transfer"} => Right(Said) /\ opts = Meaning

\* A command line of which every unit is right is refused for no other reason
\* than what its units mean together, however they are spelled and ordered.
RefusedForCause ==
  pc = "refused" /\ Right(Said) =>
    IF exit = 3 THEN ~Readable(Meaning)
    ELSE \/ Conflict(Meaning) \/ NoURL(Meaning) \/ ~OneOrigin(Meaning) \/ Impossible(Meaning)
         \/ Meaning.list["header"] # << >>

\* The transfer starts only with options it can honour all of: those of the
\* modules Dial (--ja4t is a TCP connection over IPv4, QUIC is not) and
\* ClientHello (what can be changed in which hello).
TransferIsPossible ==
  pc = "transfer" =>
    /\ Has(opts, "ja4t") => ~Has(opts, "http3") /\ opts.family # "6"
    /\ Has(opts, "ja4t") \/ Has(opts, "http3") => ~UTLSOptionsSet(opts)
    /\ ~(Has(opts, "utls-alpn-none") /\ Has(opts, "utls-alpn-hex"))
    /\ Has(opts, "utls-ext-none") =>
         ~ALPNOption(opts) /\ opts.list["utls-version-append"] = << >>
                           /\ opts.list["utls-ext-append"] = << >>

\* Once the options are read, an error is told unless -s is given without -S,
\* in either order.
SilentUnlessAsked ==
  pc \in {"refused", "failed"} /\ Right(Said) =>
    (shown <=> ("silent" \in Meaning.flags => "show-error" \in Meaning.flags))

\* The arguments are understood: whatever the order and spelling of the options,
\* the program does what each of them says, or refuses for a reason.
ArgumentsAreUnderstood == SpellingIsFree /\ RefusedForCause /\ SilentUnlessAsked
=============================================================================
