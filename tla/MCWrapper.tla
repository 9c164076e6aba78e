----------------------------- MODULE MCWrapper -----------------------------
(***************************************************************************)
(* Wrapper on instances small enough for TLC: two runs at a time, of three *)
(* process ids two of which share a subnet.  Nothing tells the slots apart.*)
(***************************************************************************)
EXTENDS Wrapper, TLC

CONSTANTS r1, r2

SlotSymmetry == Permutations(Slots)
SomeLines == {<< "--ja4t", "http://" >>, << "--ja4t=", "https://" >>}
=============================================================================
