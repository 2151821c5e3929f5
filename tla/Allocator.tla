------------------------------ MODULE Allocator ------------------------------
(***************************************************************************)
(* What a heap allocator owes its client, whatever its data structures:    *)
(* the promise of src/assign6/allocator.h in the terms in which            *)
(* src/assign6/test_harness.c tests it.  Every live block lies inside the  *)
(* segment and overlaps no other; its contents change only when the client *)
(* writes them, and a resize keeps the common prefix.  A call that fails   *)
(* changes nothing, which is a stuttering step.                            *)
(***************************************************************************)
EXTENDS Integers

CONSTANTS
    Ids,    \* the client's block identifiers
    Addr,   \* the word addresses of the segment
    Fill    \* the word the client writes, for each id

VARIABLES
    blk,    \* [Ids -> [ptr, size]]: word address (0: none) and bytes requested
    data    \* the words of each block, indexed from 0

bvars == <<blk, data>>

NoBlock  == [ptr |-> 0, size |-> 0]
Words(n) == (n + 7) \div 8
Span(b)  == 0 .. (Words(b.size) - 1)
Extent(b) == IF b.ptr = 0 THEN {} ELSE b.ptr .. (b.ptr + Words(b.size) - 1)

\* Every block of b is inside the segment and clear of the others.
WellPlaced(b) ==
    \A i \in Ids : /\ Extent(b[i]) \subseteq Addr
                   /\ \A j \in Ids \ {i} : Extent(b[i]) \cap Extent(b[j]) = {}

Init == /\ blk  = [i \in Ids |-> NoBlock]
        /\ data = [i \in Ids |-> [k \in {} |-> 0]]

\* A call for id leaves the blocks of the other ids, and their words, alone.
OnlyFor(id) ==
    \A j \in Ids \ {id} : blk'[j] = blk[j] /\ data'[j] = data[j]

Allocate(id) ==
    /\ blk[id].ptr = 0 /\ blk'[id].ptr # 0
    /\ WellPlaced(blk') /\ OnlyFor(id)

Resize(id) ==
    /\ blk[id].ptr # 0 /\ blk'[id].ptr # 0
    /\ WellPlaced(blk') /\ OnlyFor(id)
    /\ \A k \in Span(blk[id]) \cap Span(blk'[id]) : data'[id][k] = data[id][k]

Release(id) ==
    /\ blk[id].ptr # 0
    /\ blk'[id] = NoBlock /\ OnlyFor(id)

Write(id) ==
    /\ blk[id].ptr # 0 /\ blk' = blk
    /\ data'[id] = [k \in Span(blk[id]) |-> Fill[id]] /\ OnlyFor(id)

Reset == \A i \in Ids : blk'[i] = NoBlock

Next == Reset \/ \E id \in Ids : Allocate(id) \/ Resize(id) \/ Release(id) \/ Write(id)

Spec == Init /\ [][Next]_bvars
=============================================================================
