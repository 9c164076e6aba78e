---------------------------- MODULE MCSequential ----------------------------
(***************************************************************************)
(* The inputs on which TLC checks the sequential parts, each on all of its *)
(* own.                                                                    *)
(***************************************************************************)
EXTENDS Sequential, SequencesExt, TLC, Arguments

CONSTANT MaxKinds  \* options of a fingerprint

-----------------------------------------------------------------------------
(* Command lines: up to three units with a URL or two, in every order, each  *)
(* option in every spelling.                                                 *)

Several(list, means) == [args |-> list, means |-> means]
Means(name, value) == [name |-> name, value |-> value]
Unit(list, name, value) == Several(list, << Means(name, value) >>)
Wrong(list) == Unit(list, "wrong", NoValue)

FlagUnits ==
  {Unit(<< Long(f, NoValue) >>, f, NoValue) : f \in Flags \cup Families}
    \cup {Unit(<< Long("http3-only", NoValue) >>, "http3", NoValue),
          Unit(<< Short(<< "s" >>, NoValue) >>, "silent", NoValue),
          Unit(<< Short(<< "6" >>, NoValue) >>, "ipv6", NoValue)}
ValuedUnits ==
  UNION {{Unit(<< Long(opt, Text("a")) >>, opt, Text("a")),
          Unit(<< Long(opt, NoValue), Text("b") >>, opt, Text("b"))} : opt \in Valued}
    \cup {Unit(<< Short(<< "H" >>, Text("a")) >>, "header", Text("a")),
          Unit(<< Short(<< "H" >>, NoValue), Short(<< "k" >>, NoValue) >>, "header",
               Short(<< "k" >>, NoValue)),
          Unit(<< Long("resolve", NoValue), Short(<< "a" >>, NoValue) >>, "resolve",
               Short(<< "a" >>, NoValue)),
          Unit(<< Short(<< "m" >>, NoValue), Text("a") >>, "max-time", Text("a")),
          Unit(<< Combined(<< Long("utls-hello", NoValue), Text("a") >>) >>, "utls-hello", Text("a")),
          Unit(<< Combined(<< Long("ja4t", NoValue), Text("b") >>) >>, "ja4t", Text("b"))}
WrongUnits ==
  {Wrong(<< Long("proxy", NoValue) >>), Wrong(<< Short(<< "s", "x" >>, NoValue) >>),
   Wrong(<< Long("silent", Text("a")) >>), Wrong(<< Long("resolve", Text("bad")) >>)}
URLUnits == {Unit(<< Text("http") >>, "url", Text("http")), Unit(<< Text("https") >>, "url", Text("https"))}

AllUnits == FlagUnits \cup ValuedUnits \cup WrongUnits \cup URLUnits
\* Clusters, "--" and an option without its value, each where it means what is
\* said of it.
Clusters ==
  {<< Several(<< Short(<< "i", "v", "m" >>, Text("a")) >>,
              <<Means("include", NoValue), Means("verbose", NoValue), Means("max-time", Text("a"))>>),
      Unit(<< Text("http") >>, "url", Text("http")) >>,
   << Several(<< Short(<< "6", "S", "4" >>, NoValue) >>,
              <<Means("ipv6", NoValue), Means("show-error", NoValue), Means("ipv4", NoValue)>>),
      Unit(<< DashDash, Text("https") >>, "url", Text("https")) >>,
   << Unit(<< Long("include", NoValue) >>, "include", NoValue),
      Several(<< DashDash, Long("silent", NoValue), DashDash >>,
              <<Means("url", Long("silent", NoValue)), Means("url", DashDash)>>) >>,
   << Unit(<< Short(<< "s" >>, NoValue) >>, "silent", NoValue), Several(<< DashDash >>, << >>) >>,
   << Unit(<< Text("http") >>, "url", Text("http")), Wrong(<< Long("ja4t", NoValue) >>) >>,
   << Unit(<< Text("http") >>, "url", Text("http")), Wrong(<< Short(<< "H" >>, NoValue) >>) >>}
WithURL == {<<a, b, u>> : a, b \in AllUnits, u \in URLUnits}
             \cup {<<a, u, b>> : a \in FlagUnits, b \in ValuedUnits, u \in URLUnits}
             \cup {<< a >> : a \in AllUnits}

\* The arguments of the units one by one or all in one; the units have them split.
Given(units) == FlattenSeq([m \in DOMAIN units |-> units[m].args])
Split(list) ==
  FlattenSeq([m \in DOMAIN list |->
    IF list[m].kind = "combined" THEN list[m].args ELSE << list[m] >>])
Line(list, units) ==
  [args |-> list, units |-> [m \in DOMAIN units |-> [units[m] EXCEPT !.args = Split(@)]]]
SomeLines ==
  {Line(Given(units), units) : units \in WithURL \cup Clusters}
    \cup {Line(<< Combined(Given(units)) >>, units) : units \in {c \in Clusters : c[1] \notin URLUnits}}

\* "-a" is a --resolve value that removes an entry.
SomeValues == [opt \in Valued |-> {Text("a"), Text("b")}
                             \cup IF opt = "resolve" THEN {Short(<< "a" >>, NoValue)} ELSE {}]

-----------------------------------------------------------------------------
(* URL arguments of up to three pieces: every pattern next to every other one,*)
(* well-formed or not, and pairs of arguments.                                *)

Origin(s, h, p) == [scheme |-> s, host |-> h, port |-> p]
Home == Origin("http", "h", "")
SomeOrigins == {Home, Origin("http", "H", "080"), Origin("https", "h", "080"),
                Origin("https", "h", ""), Origin("http", "h", "443"), Origin("http", "h", "99999"),
                Origin("ftp", "h", ""), Origin("http", "g", ""), Origin("", "h", ""), Origin("http", "", "")}
HostFold == [h |-> "h", g |-> "g", H |-> "h"]
SomePorts == "443" :> 443 @@ "080" :> 80
SomeDigits == "0" :> 0 @@ "1" :> 1 @@ "2" :> 2 @@ "3" :> 3 @@ "4" :> 4 @@ "5" :> 5 @@ "6" :> 6
            @@ "7" :> 7 @@ "8" :> 8 @@ "9" :> 9

Piece(text, means) == [text |-> text, means |-> means]
Plain(c) == Piece(<< c >>, << << c >> >>)
Letter == Plain("a")
Pair == Piece(<<"{", "a", ",", "b", "}">>, << <<"a">>, <<"b">> >>)
\* A backslash that escapes nothing comes with what is behind it.
WellFormedParts ==
  {<< Letter >>, << Pair >>, << Plain(",") >>, << Plain("%") >>, << Plain("\\"), Letter >>,
   << Piece(<<"{", "a", "\\", "b", ",", "c", "}">>, << <<"a", "\\", "b">>, <<"c">> >>) >>,
   << Piece(<<"{", "a", "\\", ",", "b", "}">>, << <<"a", ",", "b">> >>) >>,
   << Piece(<<"{", "a", ",", "\\", "}", "}">>, << <<"a">>, <<"}">> >>) >>,
   << Piece(<<"\\", "{">>, << <<"{">> >>) >>,
   << Plain("\\"), Piece(<<"\\", "}">>, << <<"}">> >>) >>,
   << Piece(<<"{", "}">>, << << >> >>) >>,
   << Piece(<<"{", ",", "[", "}">>, << << >>, <<"[">> >>) >>,
   << Piece(<<"[", "1", "-", "3", "]">>, << <<"1">>, <<"2">>, <<"3">> >>) >>,
   << Piece(<<"[", "0", "9", "-", "1", "0", "]">>, << <<"0", "9">>, <<"1", "0">> >>) >>,
   << Piece(<<"[", "0", "-", "0", "0", "]">>, << <<"0">> >>) >>,
   << Piece(<<"[", "3", "-", "8", "]">>,
            << <<"3">>, <<"4">>, <<"5">>, <<"6">>, <<"7">>, <<"8">> >>) >>,
   << Piece(<<"[", "3", "-", "9", "]">>,
            << <<"3">>, <<"4">>, <<"5">>, <<"6">>, <<"7">>, <<"8">>, <<"9">> >>) >>}
Bad(text) == Piece(text, << >>)
MalformedParts ==
  {<< Bad(text) >> : text \in
     {<<"}">>, <<"]">>, <<"[", "2", "-", "1", "]">>, <<"[", "1", "]">>, <<"[", "1", "-", "]">>,
      <<"[", "1", "-", "2", "-", "3", "]">>, <<"[", "1", "-", "1", "0", "0", "]">>}}
\* An opener without its closer is malformed only at the end.
Unclosed == {<< Bad(<<"{">>), Letter >>, << Bad(<<"[">>), Plain("1"), Plain("-"), Plain("2") >>}

Parts == WellFormedParts \cup MalformedParts
Paths(size) ==
  {FlattenSeq(p) : p \in BoundedSeq(Parts, size)
     \cup {Append(p, u) : p \in BoundedSeq(WellFormedParts, size - 1), u \in Unclosed}}
Arguments(origins, size) == {[origin |-> o, pieces |-> p] : o \in origins, p \in Paths(size)}
Single == {<< a >> : a \in Arguments({Home}, 3)}
Pairs == {<<a, b>> : a, b \in {[origin |-> o, pieces |-> p] : o \in SomeOrigins, p \in {<< Letter >>, << Pair, Letter >>, << Pair, Pair >>}}}
SomeInputs == Single \cup {<< a >> : a \in Arguments(SomeOrigins, 1)} \cup Pairs

-----------------------------------------------------------------------------
(* -H options: every default, a name of the user's own in two spellings, and a *)
(* hop-by-hop one.                                                             *)

NameFold == "Host" :> "host" @@ "User-Agent" :> "user-agent" @@ "accept" :> "accept"
  @@ "X-A" :> "x-a" @@ "x-a" :> "x-a" @@ "Upgrade" :> "upgrade"
SomeNames == {"Host", "User-Agent", "accept", "X-A", "x-a", "Upgrade"}
SomeTargets == {[scheme |-> "https", host |-> "h", port |-> "443"],
                [scheme |-> "http", host |-> "h", port |-> "443"]}

-----------------------------------------------------------------------------
(* The shapes of the library's presets: with and without ALPN,                *)
(* supported_versions, padding and pre_shared_key.                            *)

Ext(kind, body) == [kind |-> kind, body |-> body]
Preset(golang, list) == [golang |-> golang, ciphers |-> <<2570, 4865, 47>>, exts |-> list]
SNI == Ext("sni", NoBody)
Unfollowed == Ext("other", NoBody)
BothProtocols == Ext("alpn", <<"h2", "http/1.1">>)
SupportedVersions == Ext("versions", <<772, 771>>)
Padding == Ext("padding", NoBody)
PSK == Ext("psk", NoBody)

Golang == Preset(TRUE, << SNI, SupportedVersions >>)
WithPSK == Preset(FALSE, << SNI, BothProtocols, Unfollowed, SupportedVersions, Padding, PSK >>)
NoALPNPadded == Preset(FALSE, << SNI, SupportedVersions, Padding >>)
SomePresets ==
  {Golang, WithPSK, NoALPNPadded,
   Preset(FALSE, << SNI, SupportedVersions, BothProtocols, Unfollowed, Padding >>),
   Preset(FALSE, << Unfollowed, SNI, SupportedVersions, BothProtocols >>),
   Preset(FALSE, << SNI, Padding, Unfollowed >>),
   Preset(FALSE, << SNI, Unfollowed >>)}

SomeCiphers == {<< >>, <<47, 47>>, <<6682, 4866>>}
SomeVersions == {<< >>, <<64000, 770>>}
SomeExts == {<< >>, <<64000>>, <<64000, 65000, 64000>>}

-----------------------------------------------------------------------------
(* Fingerprints: values at the limits of their fields and just behind them.   *)

SomeKindLists == BoundedSeq({0, 1, 2, 3, 4, 8, 5}, MaxKinds)
=============================================================================
