------------------------------ MODULE HeapWords ------------------------------
(***************************************************************************)
(* The memory that explicit.c and implicit.c of src/assign6 lay their      *)
(* heaps out in, and the client's view of it.                              *)
(*                                                                         *)
(* The heap segment is an array of 8-byte words indexed by word address.   *)
(* A header word holds a block size in bytes with the status in its low    *)
(* three bits, and is followed by the block's payload.  A word written by  *)
(* the client holds the fill of the identifier it was written through.     *)
(* Headers and payload share the one memory, so a write that strays is     *)
(* seen by whoever reads the word.                                         *)
(*                                                                         *)
(* A heap h is a record with at least the fields mem, the words; nheaders, *)
(* the static of that name; and hdrs, the set of all header addresses.     *)
(* hdrs is auxiliary: no C variable holds it and no step depends on it.    *)
(***************************************************************************)
EXTENDS Integers, FiniteSets

CONSTANTS
    HeapSize,       \* heap_size given to myinit, in bytes
    SegStart,       \* word address of segment_start
    MaxRequest,     \* MAX_REQUEST_SIZE, in bytes
    Ids,            \* the client's block identifiers
    NoId,           \* none of them
    Fill,           \* the word the client's memset leaves, for each id
    Requests        \* the sizes, in bytes, the client asks for

HEADER_SIZE == 8
NULL        == 0
StatusFree  == 0
StatusUsed  == 1

ASSUME HeapAssumption ==
    /\ SegStart \in Nat \ {0}
    /\ HeapSize \in Nat /\ HeapSize % HEADER_SIZE = 0 /\ HeapSize >= 24
    /\ MaxRequest \in Nat
    /\ NoId \notin Ids
    /\ Fill \in [Ids -> Int]
    /\ Requests \subseteq Nat

SegEnd == SegStart + HeapSize \div HEADER_SIZE
Addr   == SegStart .. (SegEnd - 1)

-----------------------------------------------------------------------------
(* Words and headers.                                                      *)

Masked(w)  == w - (w % 8)            \* w & for_61_mask
Status(w)  == w % 8                  \* w & for_3_mask
SetUsed(w) == w + 1 - (w % 2)        \* w | status_used

roundup(sz, mult) == ((sz + mult - 1) \div mult) * mult

\* The words that n bytes of payload touch.
Words(n) == roundup(n, HEADER_SIZE) \div HEADER_SIZE

\* Block size in bytes, and the address of the next block, as read from the
\* header at p.
SizeAt(h, p) == Masked(h.mem[p])
NextOf(h, p) == p + h.mem[p] \div HEADER_SIZE + 1

FreeHdrs(h) == {p \in h.hdrs : Status(h.mem[p]) = StatusFree}
UsedHdrs(h) == {p \in h.hdrs : Status(h.mem[p]) = StatusUsed}

memcpy(h, dst, src, size) ==
    [h EXCEPT !.mem = [a \in Addr |-> IF a \in dst .. (dst + Words(size) - 1)
                                      THEN h.mem[src + (a - dst)] ELSE h.mem[a]]]

memset(h, ptr, word, size) ==
    [h EXCEPT !.mem = [a \in Addr |-> IF a \in ptr .. (ptr + Words(size) - 1)
                                      THEN word ELSE h.mem[a]]]

\* A freshly mapped segment, and an identifier that holds no block.
ZeroMem == [a \in Addr |-> 0]
NoBlock == [ptr |-> NULL, size |-> 0]

-----------------------------------------------------------------------------
(* What a heap must be.                                                    *)

\* From SegStart to SegEnd every block ends where the next begins, and
\* nheaders counts them.
Tiled(h) ==
    /\ SegStart \in h.hdrs
    /\ h.nheaders = Cardinality(h.hdrs)
    /\ \A p \in h.hdrs :
          /\ Status(h.mem[p]) \in {StatusFree, StatusUsed}
          /\ SizeAt(h, p) >= HEADER_SIZE
          /\ NextOf(h, p) \in h.hdrs \cup {SegEnd}
          /\ \A q \in h.hdrs : q > p => q >= NextOf(h, p)

\* The used blocks are exactly the client's, one each and large enough.
Owned(h, lv) ==
    LET Held == {id \in Ids : lv[id].ptr # NULL}
    IN  /\ UsedHdrs(h) = {lv[id].ptr - 1 : id \in Held}
        /\ \A id, id2 \in Held : lv[id].ptr = lv[id2].ptr => id = id2
        /\ \A id \in Held : lv[id].size <= SizeAt(h, lv[id].ptr - 1)
        /\ \A id \in Ids \ Held : lv[id].size = 0
=============================================================================
