---------------------------- MODULE ClientHello ----------------------------
(***************************************************************************)
(* The ClientHello of a TLS connection and what comes of the handshake     *)
(* (handshakeUTLS in internal/curlu/utls.go): the hello of a preset, what  *)
(* the --utls options change in it, and the fields of the handshake state  *)
(* by which the uTLS library judges the server's answer.  The presets and  *)
(* the handshake itself are the library's.                                 *)
(***************************************************************************)
EXTENDS Integers, Sequences, FiniteSets, SequencesExt

CONSTANTS Presets,      \* records [golang, ciphers, exts]
          OptCiphers,   \* values of --utls-cipher-append, as sequences
          OptVersions,  \* of --utls-version-append
          OptExts,      \* of --utls-ext-append
          OptALPN,      \* of --utls-alpn-hex, "" if not given
          NoBody        \* the body of an extension without one we follow

\* An extension: its kind and what it lists.  "added" stands for those of
\* --utls-ext-append, "other" for all those nothing is done with.
Kinds == {"sni", "alpn", "versions", "padding", "psk", "other", "added"}
Ext(kind, body) == [kind |-> kind, body |-> body]

\* HelloGolang has the library's own hello; nothing of it is laid out here
\* but the ALPN extension, built from config.NextProtos.
ClientHelloAssumption ==
  /\ \A p \in Presets : /\ p.golang \in BOOLEAN
                        /\ p.ciphers \in Seq(Nat) /\ p.exts \in Seq(ToSet(p.exts))
                        /\ \A k \in DOMAIN p.exts : p.exts[k].kind \in Kinds \ {"added"}
                        /\ \A a, b \in DOMAIN p.exts :
                             p.exts[a].kind = "alpn" /\ p.exts[b].kind = "alpn" => a = b /\ ~p.golang
  /\ \E p \in Presets : p.golang
  /\ OptCiphers \subseteq Seq(Nat) /\ OptExts \subseteq Seq(Nat)
  /\ "" \in OptALPN

VARIABLES
  opts,      \* the --utls options
  preset,    \* the preset of helloID
  pc,        \* where handshakeUTLS is
  ciphers,   \* HandshakeState.Hello.CipherSuites
  exts,      \* tlsConn.Extensions
  alpn,      \* HandshakeState.Hello.AlpnProtocols
  versions,  \* HandshakeState.Hello.SupportedVersions
  count,     \* EXPECTED_CIPHER_COUNT as printed, -1 if not
  proto,     \* state.NegotiatedProtocol
  exit,      \* the exit code, 0 of a connection that is up
  closed     \* connect has closed the TCP connection

vars == <<opts, preset, pc, ciphers, exts, alpn, versions, count, proto, exit, closed>>

\* What ParseArgs lets through; hello is FALSE if --utls-hello is not given.
Options ==
  {o \in [hello : BOOLEAN, ciphers : OptCiphers, versions : OptVersions, exts : OptExts,
          info : BOOLEAN, alpnNone : BOOLEAN, alpn : OptALPN, extNone : BOOLEAN] :
     /\ ~(o.alpnNone /\ o.alpn # "")
     /\ o.extNone => ~o.alpnNone /\ o.alpn = ""
     /\ o.versions # << >> \/ o.exts # << >> => o.hello /\ ~o.extNone}

Init ==
  /\ opts \in Options
  /\ preset \in {p \in Presets : ~opts.hello => p.golang}
  /\ pc = "start" /\ ciphers = << >> /\ exts = << >> /\ alpn = << >> /\ versions = << >>
  /\ count = -1 /\ proto = "" /\ exit = 0 /\ closed = FALSE

-----------------------------------------------------------------------------
(* Building the hello.  The Mut... definitions here and below are plausible  *)
(* bugs, one per property: no action uses them.                              *)

Bodies(list, kind) ==
  FlattenSeq([k \in DOMAIN list |-> IF list[k].kind = kind THEN << list[k].body >> ELSE << >>])
Body(list, kind) == IF Bodies(list, kind) = << >> THEN << >> ELSE Bodies(list, kind)[1]

GolangNextProtos ==
  IF opts.alpnNone THEN << >>
  ELSE IF opts.alpn # "" THEN << opts.alpn, "http/1.1" >>
  ELSE << "h2", "http/1.1" >>

\* BuildHandshakeState: the fields are those of the extensions.
Base ==
  IF preset.golang /\ GolangNextProtos # << >>
  THEN Append(preset.exts, Ext("alpn", GolangNextProtos))
  ELSE preset.exts

Mutates ==
  \/ opts.ciphers # << >> \/ opts.versions # << >> \/ opts.exts # << >>
  \/ opts.info \/ opts.alpnNone \/ opts.alpn # ""

\* noExtensionsConn
NoExtensions ==
  /\ pc = "start" /\ opts.extNone
  /\ ciphers' = preset.ciphers \o opts.ciphers
  /\ pc' = "info"
  /\ UNCHANGED <<opts, preset, exts, alpn, versions, count, proto, exit, closed>>

\* The hello is built, by BuildHandshakeState or within the handshake, and
\* changed if an option asks for it.
Build ==
  /\ pc = "start" /\ ~opts.extNone
  /\ ciphers' = IF Mutates THEN preset.ciphers \o opts.ciphers ELSE preset.ciphers
  /\ exts' = Base /\ alpn' = Body(Base, "alpn") /\ versions' = Body(Base, "versions")
  /\ pc' = IF ~Mutates THEN "handshake" ELSE IF preset.golang THEN "info" ELSE "alpn"
  /\ UNCHANGED <<opts, preset, count, proto, exit, closed>>

First(kind) == SelectInSeq(exts, LAMBDA e : e.kind = kind)

\* applyParrotALPN
Without(list, kind) ==
  FlattenSeq([k \in DOMAIN list |-> IF list[k].kind = kind THEN << >> ELSE << list[k] >>])
ReplaceFirst(list) == << opts.alpn >> \o SubSeq(list, 2, Len(list))
Agrees(list) == alpn' = list

ApplyParrotALPN ==
  /\ pc = "alpn"
  /\ \/ ~opts.alpnNone /\ opts.alpn = "" /\ UNCHANGED <<exts, alpn>>
     \/ /\ opts.alpnNone
        /\ exts' = Without(exts, "alpn")
        /\ Agrees(<< >>)
     \/ /\ opts.alpn # "" /\ First("alpn") # 0
        /\ LET list == ReplaceFirst(exts[First("alpn")].body)
           IN  exts' = [exts EXCEPT ![First("alpn")] = Ext("alpn", list)] /\ Agrees(list)
     \/ /\ opts.alpn # "" /\ First("alpn") = 0
        /\ exts' = Append(exts, Ext("alpn", << opts.alpn >>))
        /\ Agrees(<< opts.alpn >>)
  /\ pc' = "versions"
  /\ UNCHANGED <<opts, preset, ciphers, versions, count, proto, exit, closed>>

\* appendParrotVersions
AppendParrotVersions ==
  /\ pc = "versions"
  /\ IF opts.versions # << >> /\ First("versions") # 0
     THEN LET list == exts[First("versions")].body \o opts.versions
          IN  /\ exts' = [exts EXCEPT ![First("versions")] = Ext("versions", list)]
              /\ versions' = list
     ELSE UNCHANGED <<exts, versions>>
  /\ pc' = "extensions"
  /\ UNCHANGED <<opts, preset, ciphers, alpn, count, proto, exit, closed>>

\* appendParrotExtensions
MustStayLast(e) == e.kind \in {"padding", "psk"}
MutPlace == Len(exts)
Place ==
  LET at == SelectInSeq(exts, MustStayLast) IN IF at = 0 THEN Len(exts) ELSE at - 1
Added == [k \in DOMAIN opts.exts |-> Ext("added", opts.exts[k])]

AppendParrotExtensions ==
  /\ pc = "extensions"
  /\ exts' = SubSeq(exts, 1, Place) \o Added \o SubSeq(exts, Place + 1, Len(exts))
  /\ pc' = "info"
  /\ UNCHANGED <<opts, preset, ciphers, alpn, versions, count, proto, exit, closed>>

\* countNonGREASE: 0x0a0a, 0x1a1a, ..., 0xfafa are GREASE.
IsGREASE(c) == c \div 256 = c % 256 /\ c % 16 = 10
CountNonGREASE(list) == Cardinality({k \in DOMAIN list : ~IsGREASE(list[k])})
Counted == ciphers

Info ==
  /\ pc = "info"
  /\ count' = IF opts.info THEN CountNonGREASE(Counted) ELSE count
  /\ pc' = "handshake"
  /\ UNCHANGED <<opts, preset, ciphers, exts, alpn, versions, proto, exit, closed>>

-----------------------------------------------------------------------------
(* The handshake, and connect's answer to a failure *)

FailWith(code) == exit' = code /\ pc' = "done" /\ closed' = TRUE

\* BuildHandshakeState, ApplyPreset or MarshalClientHello refuses the hello.
Refused ==
  /\ pc \in {"start", "info"} /\ (opts.extNone \/ Mutates)
  /\ FailWith(35)
  /\ UNCHANGED <<opts, preset, ciphers, exts, alpn, versions, count, proto>>

\* A timeout, a certificate that is not trusted, or anything else.
HandshakeFails(code) ==
  /\ pc = "handshake"
  /\ FailWith(code)
  /\ UNCHANGED <<opts, preset, ciphers, exts, alpn, versions, count, proto>>

\* The library accepts no protocol but those of alpn; of them only these are
\* spoken here.
Spoken(p) == p \in {"", "http/1.1", "h2"}
HandshakeDone(p) ==
  /\ pc = "handshake"
  /\ proto' = p
  /\ IF Spoken(p) THEN pc' = "done" /\ UNCHANGED <<exit, closed>> ELSE FailWith(1)
  /\ UNCHANGED <<opts, preset, ciphers, exts, alpn, versions, count>>

Next ==
  \/ NoExtensions \/ Build \/ ApplyParrotALPN \/ AppendParrotVersions
  \/ AppendParrotExtensions \/ Info
  \/ Refused \/ \E code \in {28, 35, 60} : HandshakeFails(code)
  \/ \E p \in ToSet(alpn) \cup {""} : HandshakeDone(p)

Spec == Init /\ [][Next]_vars

-----------------------------------------------------------------------------
(* Properties *)

\* Every variable keeps to its values; a connection is given back or closed.
TypeOK ==
  /\ pc \in {"start", "alpn", "versions", "extensions", "info", "handshake", "done"}
  /\ \A k \in DOMAIN exts : exts[k].kind \in Kinds
  /\ count \in -1 .. Len(ciphers) /\ exit \in {0, 1, 28, 35, 60}
  /\ closed <=> exit # 0

Sent == pc \in {"handshake", "done"} /\ exit # 35
\* The kinds of the extensions that no option is about, in their order.
Untouched(list) ==
  FlattenSeq([k \in DOMAIN list |->
    IF list[k].kind \in {"alpn", "added"} THEN << >> ELSE << list[k].kind >>])

\* Padding and pre_shared_key are the last of a list.
LastStay(list) ==
  \A j, k \in DOMAIN list : j < k /\ MustStayLast(list[j]) => MustStayLast(list[k])
\* --utls-alpn-hex, on a parrot without ALPN.
ALPNAdded ==
  opts.alpn # "" /\ \A k \in DOMAIN preset.exts : preset.exts[k].kind # "alpn"

\* A fingerprint stays the parrot's but for what was asked for: every other
\* extension is sent, in the parrot's order, and the added ones stand together,
\* in order and with their duplicates, right before padding and pre_shared_key,
\* which stay last (for an ALPN extension of its own see PaddingStaysLast).
ParrotKept ==
  Sent /\ ~preset.golang /\ ~opts.extNone =>
    LET added == {k \in DOMAIN exts : exts[k].kind = "added"}
        last == {k \in DOMAIN exts : MustStayLast(exts[k])}
    IN  /\ Untouched(exts) = Untouched(preset.exts)
        /\ Bodies(exts, "added") = opts.exts
        /\ \A j, k \in added : \A l \in j .. k : l \in added
        /\ \A j \in added, k \in last : j < k
        /\ \A j \in added : last # {} => \E k \in last : \A l \in j .. k - 1 : l \in added
        /\ LastStay(preset.exts) /\ ~ALPNAdded => LastStay(exts)

\* README: "Added extensions go before padding and pre_shared_key, which stay
\* last".  applyParrotALPN appends an ALPN extension of its own behind them.
PaddingStaysLast ==
  Sent /\ ~preset.golang /\ ~opts.extNone /\ LastStay(preset.exts) => LastStay(exts)

\* The library checks the server's choices against the fields of its state:
\* they are what the extensions say.
FieldsAgree ==
  Sent => /\ alpn = Body(exts, "alpn") /\ versions = Body(exts, "versions")
          /\ \A j, k \in DOMAIN exts : exts[j].kind = "alpn" /\ exts[k].kind = "alpn" => j = k

\* --utls-info tells how many ciphers the hello has that is sent, whichever of
\* the three ways it was made.
CountIsOfWhatIsSent ==
  count # -1 => /\ count = CountNonGREASE(ciphers)
                /\ ciphers = preset.ciphers \o opts.ciphers

\* The run is given a protocol it can speak and the hello offered.
ProtocolIsSpoken ==
  pc = "done" /\ exit = 0 =>
    proto \in {"", "http/1.1", "h2"} /\ (proto # "" => proto \in ToSet(Body(exts, "alpn")))

\* The hello is the one asked for, and what is told and believed of it is true.
HelloAsAsked ==
  ParrotKept /\ FieldsAgree /\ CountIsOfWhatIsSent /\ ProtocolIsSpoken
=============================================================================
