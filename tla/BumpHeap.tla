------------------------------- MODULE BumpHeap -------------------------------
(***************************************************************************)
(* The bump allocator of src/assign6/bump.c under a client that behaves    *)
(* like src/assign6/test_harness.c, over the words of HeapWords.           *)
(*                                                                         *)
(* A block is the next roundup(size) bytes of the segment and is never     *)
(* given back.  Here a request for no bytes gets a block like any other,   *)
(* and myrealloc copies new_size bytes from the old block, however short   *)
(* that is: it reads into the blocks behind it, the new one included,      *)
(* where memcpy's regions overlap and its result is not defined.           *)
(***************************************************************************)
EXTENDS HeapWords, FiniteSetsExt

ALIGNMENT == 8

VARIABLES
    heap,   \* mem: the words of the segment; nused: bytes handed out
    live,   \* blocks[] of the client: its pointer and size for every id
    pc,     \* "idle", "fill" or "crashed"
    call    \* of the call that returned last: its id, and the bytes kept

vars == <<heap, live, pc, call>>

HeapType == [mem : [Addr -> Int], nused : Nat]
NoCall   == [id |-> NoId, keep |-> 0]

-----------------------------------------------------------------------------
(* The allocator.  Variants named ..._bug are what a plausible mistake would *)
(* make of the definition after them; nothing here uses them.               *)

\* myinit on a segment whose words are m.
myinit(m) == [mem |-> m, nused |-> 0]

needed(n) == roundup(n, ALIGNMENT)

\* mymalloc(n) has room.
Fits(n) == needed(n) + heap.nused <= HeapSize

\* The address mymalloc returns next.
top(h) == SegStart + h.nused \div ALIGNMENT

\* nused counts the bytes asked for, rounded down.
bump_bug(h, n) == [h EXCEPT !.nused = @ + (n \div ALIGNMENT) * ALIGNMENT]

bump(h, n) == [h EXCEPT !.nused = @ + needed(n)]

\* How memcpy(dst, src, n), with dst not before src, may go: word k of the
\* copy is word from[k] of the source as it was.  That is word k, unless the
\* copy had overwritten it, with word k - (dst - src), when it was read.
Copyings(dst, src, n) ==
    LET K == 0 .. (Words(n) - 1)
    IN  {from \in [K -> K] :
            \A k \in K : \/ from[k] = k
                         \/ src < dst /\ src + k >= dst /\ from[k] = from[k - (dst - src)]}

\* The copy goes from the new block to the old one.
Copied_swap_bug(h, dst, src, n, from) ==
    [h EXCEPT !.mem = [a \in Addr |-> IF a \in src .. (src + Words(n) - 1)
                                      THEN h.mem[dst + from[a - src]] ELSE h.mem[a]]]

Copied(h, dst, src, n, from) ==
    [h EXCEPT !.mem = [a \in Addr |-> IF a \in dst .. (dst + Words(n) - 1)
                                      THEN h.mem[src + from[a - dst]] ELSE h.mem[a]]]

-----------------------------------------------------------------------------
(* The client and its calls.                                               *)

Init == /\ heap = myinit(ZeroMem)
        /\ live = [j \in Ids |-> NoBlock]
        /\ pc   = "idle"
        /\ call = NoCall

\* The call returns ptr for block id; the client is about to fill it.
Return(id, ptr, size, keep) ==
    /\ live' = [live EXCEPT ![id] = [ptr |-> ptr, size |-> size]]
    /\ call' = [id |-> id, keep |-> keep]
    /\ pc'   = "fill"

Malloc(id, n) ==
    /\ pc = "idle" /\ live[id].ptr = NULL
    /\ Fits(n)
    /\ heap' = bump(heap, n)
    /\ Return(id, top(heap), n, 0)

\* mymalloc returns NULL, and the client goes on.
MallocFull(id, n) ==
    /\ pc = "idle" /\ live[id].ptr = NULL
    /\ ~Fits(n)
    /\ UNCHANGED vars

\* myrealloc(p, n) of a block.
Realloc(id, n) ==
    /\ pc = "idle" /\ live[id].ptr # NULL
    /\ Fits(n)
    /\ \E from \in Copyings(top(heap), live[id].ptr, n) :
          heap' = Copied(bump(heap, n), top(heap), live[id].ptr, n, from)
    /\ Return(id, top(heap), n, Min({n, live[id].size}))

\* myrealloc(NULL, 0): there is nothing to copy.
ReallocNull(id) ==
    /\ pc = "idle" /\ live[id].ptr = NULL
    /\ heap' = bump(heap, 0)
    /\ Return(id, top(heap), 0, 0)

\* myrealloc copies to the NULL of mymalloc, or from the NULL it was given.
ReallocCrash(id, n) ==
    /\ pc = "idle" /\ n > 0
    /\ ~Fits(n) \/ live[id].ptr = NULL
    /\ pc' = "crashed"
    /\ heap' = IF Fits(n) THEN bump(heap, n) ELSE heap
    /\ UNCHANGED <<live, call>>

\* myfree does nothing; the client forgets the block.
Free(id) ==
    /\ pc = "idle"
    /\ live' = [live EXCEPT ![id] = NoBlock]
    /\ UNCHANGED <<heap, pc, call>>

\* The client's memset of the block it got.
ClientFill ==
    LET b == live[call.id]
    IN  /\ pc = "fill"
        /\ heap' = memset(heap, b.ptr, Fill[call.id], b.size)
        /\ pc' = "idle" /\ call' = NoCall
        /\ UNCHANGED live

\* The next script: myinit on the segment, remapped (all zero) or as it was.
Restart ==
    /\ pc = "idle"
    /\ \E m \in {ZeroMem, heap.mem} : heap' = myinit(m)
    /\ live' = [j \in Ids |-> NoBlock]
    /\ UNCHANGED <<pc, call>>

Next ==
    \/ \E id \in Ids, n \in Requests :
          Malloc(id, n) \/ MallocFull(id, n) \/ Realloc(id, n) \/ ReallocCrash(id, n)
    \/ \E id \in Ids : ReallocNull(id) \/ Free(id)
    \/ ClientFill
    \/ Restart

Spec == Init /\ [][Next]_vars

\* The heap checker of the C file.
validate_heap(h) == h.nused <= HeapSize

-----------------------------------------------------------------------------
(* Properties.                                                             *)

TypeOK ==
    /\ heap \in HeapType
    /\ live \in [Ids -> [ptr : (Addr \cup {SegEnd}) \cup {NULL}, size : Nat]]
    /\ pc \in {"idle", "fill", "crashed"}
    /\ call \in [id : Ids \cup {NoId}, keep : Nat]

Extent(b) == b.ptr .. (b.ptr + Words(b.size) - 1)

\* Whole words are handed out, inside the segment; every block lies in what
\* has been handed out and is clear of every other (mymalloc, myrealloc).
BlocksApart ==
    /\ heap.nused % ALIGNMENT = 0 /\ validate_heap(heap)
    /\ \A id \in Ids : live[id].ptr # NULL =>
          /\ live[id].ptr >= SegStart
          /\ live[id].ptr + Words(live[id].size) <= top(heap)
          /\ \A id2 \in Ids \ {id} : Extent(live[id]) \cap Extent(live[id2]) = {}

\* Every word of every live block is what the client last wrote there; in a
\* block just returned by a call, the words the call must keep.  What the
\* overlapping copy makes of the rest is never relied on.
PayloadIntact ==
    \A id \in Ids :
        LET kept == IF pc = "fill" /\ call.id = id THEN call.keep ELSE live[id].size
        IN  \A k \in 0 .. (Words(kept) - 1) : heap.mem[live[id].ptr + k] = Fill[id]

\* Blocks, table and payload agree in every state.
HeapSound == TypeOK /\ BlocksApart /\ PayloadIntact

(***************************************************************************)
(* Seen from the client the heap is an Allocator.                          *)
(***************************************************************************)
A == INSTANCE Allocator WITH
        blk  <- live,
        data <- [j \in Ids |-> [k \in 0 .. (Words(live[j].size) - 1) |->
                                   heap.mem[live[j].ptr + k]]]

\* Blocks returned are in the segment and apart, and no call changes a word of
\* a live block it was not asked to change.
ImplementsAllocator == A!Spec
=============================================================================
