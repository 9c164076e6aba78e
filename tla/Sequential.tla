----------------------------- MODULE Sequential -----------------------------
(***************************************************************************)
(* The parts of a run that one goroutine computes without waiting for      *)
(* anybody: what the arguments mean (Options), the URLs they expand to     *)
(* (Glob), the requests (RequestHeaders), the ClientHello and the options  *)
(* of the SYN (Fingerprint).  None of them changes another's data, so they *)
(* stand side by side, each with all its inputs: part says which is meant. *)
(* Variables of the same name serve each part in its turn; those a part    *)
(* does not have are Unused.                                               *)
(***************************************************************************)
EXTENDS Integers, Sequences

CONSTANTS CommandLines, Accepts, Codes,                                \* of Options
          Origins, Fold, Ports, Inputs, MaxGlobURLs, MaxUint, Digit,   \* of Glob
          Spellings, Lower, Values, Targets, Agent, Everything, MaxHeaders,
                                                                       \* of RequestHeaders
          Presets, OptCiphers, OptVersions, OptExts, OptALPN, NoBody,  \* of ClientHello
          Windows, KindLists, MSSs, Scales                             \* of Fingerprint

VARIABLES part, pc, args, opts, exit,
          line, i, j, positional, shown,
          globoff, n, rest, literal, out, targets, error,
          target, values, headers, suppressed, lines, k, host, fields, trace,
          preset, ciphers, exts, alpn, versions, count, proto, closed,
          fp, syn, at, ended, seen

Parser == INSTANCE Options
URLs == INSTANCE Glob
Request == INSTANCE RequestHeaders
Hello == INSTANCE ClientHello
SYN == INSTANCE Fingerprint

ASSUME ParserAssumption == Parser!OptionsAssumption
ASSUME URLsAssumption == URLs!GlobAssumption
ASSUME RequestAssumption == Request!RequestHeadersAssumption
ASSUME HelloAssumption == Hello!ClientHelloAssumption
ASSUME SYNAssumption == SYN!FingerprintAssumption

-----------------------------------------------------------------------------
\* What each part has of its own, and the shared variables it leaves alone.
ofArguments == <<line, i, j, positional, shown>>
ofURLs == <<globoff, n, rest, literal, out, targets, error>>
ofRequest == <<target, values, headers, suppressed, lines, k, host, fields, trace>>
ofHello == <<preset, ciphers, exts, alpn, versions, count, proto, closed>>
ofSYN == <<fp, syn, at, ended, seen>>
vars == <<part, pc, args, opts, exit, ofArguments, ofURLs, ofRequest, ofHello, ofSYN>>

NotArguments == <<ofURLs, ofRequest, ofHello, ofSYN>>
NotURLs == <<opts, exit, ofArguments, ofRequest, ofHello, ofSYN>>
NotRequest == <<args, opts, exit, ofArguments, ofURLs, ofHello, ofSYN>>
NotHello == <<args, ofArguments, ofURLs, ofRequest, ofSYN>>
NotSYN == <<args, opts, exit, ofArguments, ofURLs, ofRequest, ofHello>>

Unused == << >>
NoArguments == line = Unused /\ i = Unused /\ j = Unused /\ positional = Unused /\ shown = Unused
NoURLs == /\ globoff = Unused /\ n = Unused /\ rest = Unused /\ literal = Unused
          /\ out = Unused /\ targets = Unused /\ error = Unused
NoRequest == /\ target = Unused /\ values = Unused /\ headers = Unused /\ suppressed = Unused
             /\ lines = Unused /\ k = Unused /\ host = Unused /\ fields = Unused /\ trace = Unused
NoHello == /\ preset = Unused /\ ciphers = Unused /\ exts = Unused /\ alpn = Unused
           /\ versions = Unused /\ count = Unused /\ proto = Unused /\ closed = Unused
NoSYN == fp = Unused /\ syn = Unused /\ at = Unused /\ ended = Unused /\ seen = Unused

Init ==
  \/ part = "arguments" /\ Parser!Init /\ NoURLs /\ NoRequest /\ NoHello /\ NoSYN
  \/ /\ part = "urls" /\ URLs!Init /\ opts = Unused /\ exit = Unused
     /\ NoArguments /\ NoRequest /\ NoHello /\ NoSYN
  \/ /\ part = "request" /\ Request!Init /\ args = Unused /\ opts = Unused /\ exit = Unused
     /\ NoArguments /\ NoURLs /\ NoHello /\ NoSYN
  \/ /\ part = "hello" /\ Hello!Init /\ args = Unused
     /\ NoArguments /\ NoURLs /\ NoRequest /\ NoSYN
  \/ /\ part = "syn" /\ SYN!Init /\ args = Unused /\ opts = Unused /\ exit = Unused
     /\ NoArguments /\ NoURLs /\ NoRequest /\ NoHello

ArgumentsStep == part = "arguments" /\ Parser!Next /\ UNCHANGED <<part, NotArguments>>
URLsStep == part = "urls" /\ URLs!Next /\ UNCHANGED <<part, NotURLs>>
RequestStep == part = "request" /\ Request!Next /\ UNCHANGED <<part, NotRequest>>
HelloStep == part = "hello" /\ Hello!Next /\ UNCHANGED <<part, NotHello>>
SYNStep == part = "syn" /\ SYN!Next /\ UNCHANGED <<part, NotSYN>>

Next == ArgumentsStep \/ URLsStep \/ RequestStep \/ HelloStep \/ SYNStep

Spec == Init /\ [][Next]_vars

-----------------------------------------------------------------------------
(* Properties: those of the parts, each of which its module states. *)

\* Every variable of every part keeps to its values.
TypeOK ==
  CASE part = "arguments" -> Parser!TypeOK
    [] part = "urls" -> URLs!TypeOK
    [] part = "request" -> Request!TypeOK
    [] part = "hello" -> Hello!TypeOK
    [] part = "syn" -> SYN!TypeOK

\* Whatever the order and spelling of the options, the program does what each
\* of them says or refuses for a reason, and tells it unless -s silences it.
ArgumentsAreUnderstood == part = "arguments" => Parser!ArgumentsAreUnderstood

\* A transfer starts only with options all of which it can honour.
TransferIsPossible == part = "arguments" => Parser!TransferIsPossible

\* The targets are the expansions of the URL arguments in curl order, at most
\* MaxGlobURLs and as many as that, of one origin; bad patterns are refused.
\* Sets with an escaped character in them are left to EscapesAreLiteral.
TargetsAsWritten == part = "urls" => URLs!TargetsAsWritten

\* README and expandGlob's comment: a backslash makes the next {, }, [, ] or ,
\* literal.  Within a set expandGlob does not look for one.
EscapesAreLiteral == part = "urls" => URLs!EscapesAreLiteral

\* The user's headers replace, add to and suppress the generated ones, and -v
\* shows what is handed to the transport.  A suppressed Host is sent all the same
\* over HTTP/2 and HTTP/3, a Host or User-Agent given twice only once, and what
\* the HTTP libraries make of Content-Length and Cookie is not looked at.
RequestAsAsked == part = "request" => Request!RequestAsAsked

\* The ClientHello is the parrot's but for what was asked for, the fields the
\* library checks the server against agree with it, the ciphers counted are
\* those sent, and a protocol nobody speaks is not used.
HelloAsAsked == part = "hello" => Hello!HelloAsAsked

\* README and appendParrotExtensions' comment: padding and pre_shared_key stay
\* last.  An ALPN extension that the parrot lacks is put behind them.
PaddingStaysLast == part = "hello" => Hello!PaddingStaysLast

\* A listener reads the given JA4T fingerprint off the SYN if it fits.
FittingFingerprintIsSeen == part = "syn" => SYN!FittingFingerprintIsSeen
=============================================================================
