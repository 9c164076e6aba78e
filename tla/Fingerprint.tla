---------------------------- MODULE Fingerprint ----------------------------
(***************************************************************************)
(* A JA4T fingerprint from the --ja4t option to the SYN and back: what     *)
(* parseJA4T and validate accept (internal/curlu/ja4t.go), the TCP options *)
(* they are laid out as, and what a listener reads from the header.        *)
(***************************************************************************)
EXTENDS Integers, Sequences, FiniteSets, SequencesExt

CONSTANTS Windows, KindLists, MSSs, Scales  \* what the four sections may say

FingerprintAssumption ==
  /\ Windows \cup MSSs \cup Scales \subseteq Nat
  /\ KindLists \subseteq Seq(Nat)

VARIABLES
  fp,    \* the fingerprint given: [window, kinds, mss, scale]
  pc,    \* "parse", "craft", "read", "done" or "rejected"
  syn,   \* the SYN: [window, offset, options], options being bytes
  at,    \* the byte of the options the listener is at
  ended, \* it has passed an end-of-list
  seen   \* what it has read: [kinds, mss, scale]

vars == <<fp, pc, syn, at, ended, seen>>

Init ==
  /\ fp \in [window : Windows, kinds : KindLists, mss : MSSs, scale : Scales]
  /\ pc = "parse" /\ syn = [window |-> 0, offset |-> 5, options |-> << >>]
  /\ at = 1 /\ ended = FALSE /\ seen = [kinds |-> << >>, mss |-> 0, scale |-> 0]

-----------------------------------------------------------------------------
(* The options of a SYN *)

EndOfList == 0
NoOp == 1
MSS == 2
WindowScale == 3
SACKPermitted == 4
Timestamps == 8

HasKind(kind) == \E k \in DOMAIN fp.kinds : fp.kinds[k] = kind

Uint16(n) == << n \div 256, n % 256 >>

\* tcpOption, with the time as zeros
MutData(kind) ==
  IF kind = MSS THEN << fp.mss % 256, fp.mss \div 256 >>
  ELSE IF kind = WindowScale THEN << fp.scale >>
  ELSE IF kind = Timestamps THEN [k \in 1 .. 8 |-> 0]
  ELSE << >>
Data(kind) ==
  IF kind = MSS THEN Uint16(fp.mss)
  ELSE IF kind = WindowScale THEN << fp.scale >>
  ELSE IF kind = Timestamps THEN [k \in 1 .. 8 |-> 0]
  ELSE << >>
Option(kind) ==
  IF kind \in {EndOfList, NoOp} THEN << kind >> ELSE << kind, 2 + Len(Data(kind)) >> \o Data(kind)
TCPOptions == FlattenSeq([k \in DOMAIN fp.kinds |-> Option(fp.kinds[k])])

-----------------------------------------------------------------------------
(* parseJA4T and validate.  MutAligned and MutData are plausible bugs, one   *)
(* per property: no action uses them.                                        *)

MaxUint16 == 65535
MaxUint8 == 255
InRange == fp.window <= MaxUint16 /\ fp.mss <= MaxUint16 /\ fp.scale <= MaxUint8
Supported ==
  \A k \in DOMAIN fp.kinds :
    fp.kinds[k] \in {EndOfList, NoOp, MSS, WindowScale, SACKPermitted, Timestamps}
MutAligned == TRUE
Aligned == Len(TCPOptions) % 4 = 0

Valid ==
  /\ InRange /\ Supported
  /\ HasKind(MSS) <=> fp.mss # 0
  /\ fp.scale # 0 => HasKind(WindowScale)
  /\ Aligned

ParseJA4T ==
  /\ pc = "parse"
  /\ pc' = IF Valid THEN "craft" ELSE "rejected"
  /\ UNCHANGED <<fp, syn, at, ended, seen>>

\* serializeSegment: the data offset counts words, in 4 bits.
Craft ==
  /\ pc = "craft"
  /\ syn' = [window |-> fp.window, options |-> TCPOptions,
             offset |-> (5 + (Len(TCPOptions) \div 4)) % 16]
  /\ pc' = "read"
  /\ UNCHANGED <<fp, at, ended, seen>>

-----------------------------------------------------------------------------
(* The listener.  It looks for options where the header says, notes their    *)
(* kinds, and takes values up to an end-of-list.                             *)

HeaderEnd == 4 * (syn.offset - 5)
Byte(k) == syn.options[k]

ReadOption ==
  /\ pc = "read" /\ at <= HeaderEnd
  /\ LET kind == Byte(at)
         size == IF kind \in {EndOfList, NoOp} THEN 1 ELSE Byte(at + 1)
     IN  /\ at' = at + size
         /\ ended' = (ended \/ kind = EndOfList)
         /\ seen' =
              [kinds |-> Append(seen.kinds, kind),
               mss |-> IF kind = MSS /\ ~ended THEN 256 * Byte(at + 2) + Byte(at + 3) ELSE seen.mss,
               scale |-> IF kind = WindowScale /\ ~ended THEN Byte(at + 2) ELSE seen.scale]
  /\ UNCHANGED <<fp, pc, syn>>

ReadDone ==
  /\ pc = "read" /\ at > HeaderEnd
  /\ pc' = "done"
  /\ UNCHANGED <<fp, syn, at, ended, seen>>

Next == ParseJA4T \/ Craft \/ ReadOption \/ ReadDone

Spec == Init /\ [][Next]_vars

-----------------------------------------------------------------------------
(* Properties *)

\* Every variable keeps to its values, the bytes of the header among them.
TypeOK ==
  /\ pc \in {"parse", "craft", "read", "done", "rejected"}
  /\ syn.window \in 0 .. MaxUint16 /\ syn.offset \in 0 .. 15
  /\ \A k \in DOMAIN syn.options : Byte(k) \in 0 .. MaxUint8
  /\ Len(syn.options) % 4 = 0
  /\ at \in 1 .. Len(syn.options) + 1 /\ ended \in BOOLEAN

SeesFingerprint ==
  syn.window = fp.window /\ seen = [kinds |-> fp.kinds, mss |-> fp.mss, scale |-> fp.scale]

\* A fingerprint whose options fit the header, with no option that carries a
\* value behind an end-of-list, is what the listener reads: kinds in order, MSS
\* and scale unswapped.
FittingFingerprintIsSeen ==
  pc = "done" /\ Len(TCPOptions) <= 40
    /\ (\A j, k \in DOMAIN fp.kinds :
          j < k /\ fp.kinds[j] = EndOfList => fp.kinds[k] \notin {MSS, WindowScale})
    => SeesFingerprint
=============================================================================
