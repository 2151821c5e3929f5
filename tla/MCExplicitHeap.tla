--------------------------- MODULE MCExplicitHeap ---------------------------
(***************************************************************************)
(* Instances of ExplicitHeap for TLC.                                      *)
(***************************************************************************)
EXTENDS ExplicitHeap

CONSTANTS i1, i2, i3

\* Fills that tell the blocks apart; none is an address or a header.
FillDistinct == [i \in Ids |-> CASE i = i1 -> -1 [] i = i2 -> -2 [] OTHER -> -3]

\* One fill for all blocks: ids are interchangeable.
FillSame == [i \in Ids |-> 0]
IdSymmetry == Permutations(Ids)
=============================================================================
