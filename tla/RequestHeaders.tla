--------------------------- MODULE RequestHeaders ---------------------------
(***************************************************************************)
(* The header section of a request, from the -H options to the lines of an *)
(* HTTP/1.1 request (parseRequestHeaders and serializeHTTP1 in             *)
(* internal/curlu/client.go) and to the http.Request of an HTTP/2 or       *)
(* HTTP/3 stream with its trace (buildMuxedRequest, formatMuxedRequest in  *)
(* http2.go).  A header line is a pair <<name, value>>; a value stands for *)
(* what is left of it between spaces.                                      *)
(***************************************************************************)
EXTENDS Integers, Sequences, FiniteSets, SequencesExt

CONSTANTS Spellings,  \* names as the user may write them
          Lower,      \* strings.ToLower of a spelling
          Values,     \* values of headers
          Targets,    \* records [scheme, host, port], port "" if there is none
          Agent,      \* the value curlu/<version>
          Everything,        \* the value */*
          MaxHeaders  \* bound: -H options

\* A -H option gives a name a value, or none; or it is not Name: value.
Options == [name : Spellings, value : Values] \cup [name : Spellings, suppress : {TRUE}]
             \cup {[malformed |-> TRUE]}
Malformed(h) == "malformed" \in DOMAIN h
Suppresses(h) == "suppress" \in DOMAIN h
HopByHop == {"connection", "keep-alive", "proxy-connection", "transfer-encoding",
             "upgrade", "http2-settings"}

RequestHeadersAssumption ==
  /\ Spellings \subseteq DOMAIN Lower /\ IsFiniteSet(Spellings) /\ MaxHeaders \in Nat
  /\ {"host", "user-agent", "accept"} \subseteq {Lower[s] : s \in Spellings}

VARIABLES
  target,      \* the URL requested
  values,      \* opts.Headers
  pc,          \* "parse", "build", "done" or "rejected"
  headers,     \* the options parsed so far
  suppressed,  \* suppressedDefaults
  lines,       \* the lines of the HTTP/1.1 request
  k,           \* the next header buildMuxedRequest takes
  host,        \* Host of the http.Request
  fields,      \* its Header: the values of a canonical name
  trace        \* the lines -v shows of it

vars == <<target, values, pc, headers, suppressed, lines, k, host, fields, trace>>

Names == {Lower[s] : s \in Spellings}

Init ==
  /\ target \in Targets /\ values \in BoundedSeq(Options, MaxHeaders)
  /\ pc = "parse" /\ headers = << >> /\ suppressed = {} /\ lines = << >>
  /\ k = 1 /\ host = << >> /\ fields = [name \in Names |-> << >>] /\ trace = << >>

-----------------------------------------------------------------------------
(* parseRequestHeaders: a default gives way to any option of its name.  The  *)
(* Mut... definitions here and below are plausible bugs, one per property:   *)
(* no action uses them.                                                      *)

Defaults == {"host", "user-agent", "accept"}

Unread == SubSeq(values, Len(headers) + 1, Len(values))
ParseHeader ==
  /\ pc = "parse" /\ Unread # << >> /\ ~Malformed(Head(Unread))
  /\ headers' = Append(headers, Head(Unread))
  /\ suppressed' = suppressed \cup (Defaults \cap {Lower[Head(Unread).name]})
  /\ UNCHANGED <<target, values, pc, lines, k, host, fields, trace>>

BadHeader ==
  /\ pc = "parse" /\ Unread # << >> /\ Malformed(Head(Unread))
  /\ pc' = "rejected"
  /\ UNCHANGED <<target, values, headers, suppressed, lines, k, host, fields, trace>>

-----------------------------------------------------------------------------
(* serializeHTTP1 *)

DefaultPort(t) == IF t.scheme = "https" THEN "443" ELSE "80"
RequestHost(t) ==
  IF t.port \in {"", DefaultPort(t)} THEN << t.host >> ELSE << t.host, t.port >>

MutGenerated(name, value) == << <<name, value>> >>
Generated(name, value) == IF name \in suppressed THEN << >> ELSE << <<name, value>> >>
Sent(h) == IF Suppresses(h) THEN << >> ELSE << << Lower[h.name], << h.value >> >> >>
Lines ==
  Generated("host", RequestHost(target)) \o Generated("user-agent", << Agent >>)
    \o Generated("accept", << Everything >>)
    \o FlattenSeq([j \in DOMAIN headers |-> Sent(headers[j])])

\* Both forms of the request, one after the other; a run sends one of them.
Serialize ==
  /\ pc = "parse" /\ Unread = << >>
  /\ lines' = Lines
  /\ host' = RequestHost(target)
  /\ fields' = [name \in Names |->
       IF name = "user-agent" /\ name \notin suppressed THEN << << Agent >> >>
       ELSE IF name = "accept" /\ name \notin suppressed THEN << << Everything >> >>
       ELSE << >>]
  /\ pc' = "build"
  /\ UNCHANGED <<target, values, headers, suppressed, k, trace>>

-----------------------------------------------------------------------------
(* buildMuxedRequest: its loop over the headers, one action per branch *)

Building == pc = "build" /\ k <= Len(headers)
Name == Lower[headers[k].name]
Advance == k' = k + 1 /\ UNCHANGED <<target, values, pc, headers, suppressed, lines, trace>>

TakeHost ==
  /\ Building /\ Name = "host"
  /\ host' = IF Suppresses(headers[k]) THEN RequestHost(target) ELSE << headers[k].value >>
  /\ Advance /\ UNCHANGED fields

Dropped(h) == Suppresses(h) \/ Lower[h.name] \in HopByHop

Drop ==
  /\ Building /\ Name # "host" /\ Dropped(headers[k])
  /\ Advance /\ UNCHANGED <<host, fields>>

\* User-Agent is set; every other field is added to those of its name.
NewValues(h) ==
  IF Lower[h.name] = "user-agent" THEN << << h.value >> >>
  ELSE Append(fields[Lower[h.name]], << h.value >>)

AddField ==
  /\ Building /\ Name # "host" /\ ~Dropped(headers[k])
  /\ fields' = [fields EXCEPT ![Name] = NewValues(headers[k])]
  /\ Advance /\ UNCHANGED host

\* formatMuxedRequest: the host, the two defaults, and the rest by name.
FieldLines(name) == [j \in DOMAIN fields[name] |-> <<name, fields[name][j]>>]
Rest == Names \ Defaults
Trace ==
  << <<"host", host>> >> \o FieldLines("user-agent") \o FieldLines("accept")
    \o LET names == SetToSeq(Rest) IN FlattenSeq([j \in DOMAIN names |-> FieldLines(names[j])])

Built ==
  /\ pc = "build" /\ ~Building
  /\ trace' = Trace
  /\ pc' = "done"
  /\ UNCHANGED <<target, values, headers, suppressed, lines, k, host, fields>>

Next ==
  \/ ParseHeader \/ BadHeader \/ Serialize \/ TakeHost \/ Drop \/ AddField \/ Built

Spec == Init /\ [][Next]_vars

-----------------------------------------------------------------------------
(* Properties *)

\* Every variable keeps to its values; a malformed option never gets through.
TypeOK ==
  /\ pc \in {"parse", "build", "done", "rejected"}
  /\ headers = SubSeq(values, 1, Len(headers)) /\ suppressed \subseteq Defaults
  /\ \A j \in DOMAIN headers : ~Malformed(headers[j])
  /\ DOMAIN fields = Names
  /\ pc \in {"build", "done"} => headers = values

\* What the server sees of a name: in HTTP/1.1, and on a stream; and what -v shows.
ValuesIn(list, name) ==
  FlattenSeq([j \in DOMAIN list |-> IF list[j][1] = name THEN << list[j][2] >> ELSE << >>])
Seen(name) == ValuesIn(lines, name)
SeenOnStream(name) == IF name = "host" THEN << host >> ELSE fields[name]
Shown(name) == ValuesIn(trace, name)

\* What the user said of a name, and where.
Says(j, name) == Lower[values[j].name] = name
Said(name) == {j \in DOMAIN values : Says(j, name)}
SaidValues(name) ==
  FlattenSeq([j \in DOMAIN values |->
    IF Says(j, name) /\ ~Suppresses(values[j]) THEN << << values[j].value >> >> ELSE << >>])
DefaultValue(name) ==
  IF name = "host" THEN << RequestHost(target) >>
  ELSE IF name = "user-agent" THEN << << Agent >> >>
  ELSE IF name = "accept" THEN << << Everything >> >> ELSE << >>
Wanted(name) == IF Said(name) = {} THEN DefaultValue(name) ELSE SaidValues(name)

\* HTTP/1.1: a header the user names, however spelled, is sent as often and in
\* the order given, and takes the place of the generated one; "Name:" alone
\* sends none.
UserReplacesDefault == pc = "done" => \A name \in Names : Seen(name) = Wanted(name)

\* A run over another transport asks for the same request: name by name the same
\* values in the same order, whenever Host and User-Agent are given once at most,
\* Host is not suppressed, and but for hop-by-hop headers.  (README wants Host
\* suppressed on every transport; what the HTTP libraries make of the values of
\* Content-Length and Cookie is theirs.)
SameRequestOnStreams ==
  pc = "done" => \A name \in Names :
    \/ name \in HopByHop
    \/ name \in {"host", "user-agent"} /\ \E a, b \in Said(name) : a # b
    \/ name = "host" /\ Said(name) # {} /\ SaidValues(name) = << >>
    \/ SeenOnStream(name) = Seen(name)

\* No field that HTTP/2 and HTTP/3 forbid reaches a stream, in any spelling.
NoHopByHop == pc = "done" => \A name \in Names \cap HopByHop : SeenOnStream(name) = << >>

\* -v shows the request that is sent: every field and no other.
TraceShowsRequest == pc = "done" => \A name \in Names : Shown(name) = SeenOnStream(name)

\* The request is the one asked for, on each transport, and the one shown.
RequestAsAsked ==
  UserReplacesDefault /\ SameRequestOnStreams /\ NoHopByHop /\ TraceShowsRequest
=============================================================================
