------------------------------- MODULE MCDial -------------------------------
(***************************************************************************)
(* Dial on instances small enough for TLC.                                 *)
(***************************************************************************)
EXTENDS Dial

CONSTANTS a1, a2, a3   \* addresses; a3 is of family IPv6

AllAddresses == {a1, a2, a3}
FamilyIPv4 == {a1, a2}
AddressLists == {<< a1 >>, << a3 >>, << a3, a1, a2 >>}
=============================================================================
