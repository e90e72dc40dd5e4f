------------------------------ MODULE MCWidths -------------------------------
(* The numbers whose widths differ between memory and wire.  Objects and    *)
(* sizes share no state: in a behaviour one of the two is at work.          *)
EXTENDS Vocabulary, CompactSize, TLC

VARIABLE part   \* which of the two

WidthsInit == Init /\ SizeInit /\ part \in {"objects", "sizes"}

WidthsNext ==
  /\ UNCHANGED part
  /\ \/ part = "objects" /\ Next /\ UNCHANGED sizeVars
     \/ part = "sizes" /\ SizeNext /\ UNCHANGED vars

WidthsSpec == WidthsInit /\ [][WidthsNext]_<<vars, sizeVars, part>>

(* Two outputs, one of a negative amount. *)
TwoOutputs == {<<1, -1>>}
Symmetry == Permutations(Var)
=============================================================================
