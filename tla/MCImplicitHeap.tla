--------------------------- MODULE MCImplicitHeap ---------------------------
(***************************************************************************)
(* Instances of ImplicitHeap for TLC.                                      *)
(***************************************************************************)
EXTENDS ImplicitHeap

CONSTANTS i1, i2, i3

\* Fills that tell the blocks apart; none is an address or a header.
FillDistinct == [j \in Ids |-> CASE j = i1 -> -1 [] j = i2 -> -2 [] OTHER -> -3]

\* One fill for all blocks: ids are interchangeable.
FillSame == [j \in Ids |-> 0]
=============================================================================
