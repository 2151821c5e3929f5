------------------------------ MODULE MCBumpHeap ------------------------------
(***************************************************************************)
(* Instances of BumpHeap for TLC.                                          *)
(***************************************************************************)
EXTENDS BumpHeap, TLC

CONSTANTS i1, i2, i3

\* Fills that tell the blocks apart; none is an address.
FillDistinct == [j \in Ids |-> CASE j = i1 -> -1 [] j = i2 -> -2 [] OTHER -> -3]
=============================================================================
