---------------------------- MODULE ExplicitHeap ----------------------------
(***************************************************************************)
(* The explicit heap allocator of src/assign6/explicit.c under a client    *)
(* that behaves like src/assign6/test_harness.c.                           *)
(*                                                                         *)
(* A heap is laid out in words as HeapWords says; the two words after a    *)
(* free block's header hold the links of the free list.                    *)
(*                                                                         *)
(* The functions of the C file appear under their own names as operators   *)
(* from heap to heap.  The loops of find_free_block and of myrealloc are   *)
(* unrolled into steps, one iteration each.                                *)
(***************************************************************************)
EXTENDS HeapWords, Sequences, SequencesExt

ALIGNMENT_16 == 16

VARIABLES
    heap,   \* the memory and the globals of explicit.c, see HeapType
    live,   \* blocks[] of the client: its pointer and size for every id
    pc,     \* where control is: with the client ("idle", "fill"), or in a call
    call    \* the arguments and locals of the call in progress

vars == <<heap, live, pc, call>>

(***************************************************************************)
(* Like hdrs, flist is auxiliary: the free list from its front.  No C      *)
(* variable holds it and no step depends on it; the invariants relate it   *)
(* to the memory.                                                          *)
(***************************************************************************)
HeapType == [mem          : [Addr -> Int],
             ffh          : Addr \cup {NULL},
             nheaders     : Nat,
             nfreeheaders : Nat,
             hdrs         : SUBSET Addr,
             flist        : Seq(Addr)]

PositionIn(s, p) == CHOOSE i \in DOMAIN s : s[i] = p

-----------------------------------------------------------------------------
(* Operations on the heap.                                                 *)

\* myinit on a segment whose words are m.
myinit(m) ==
    [mem          |-> [m EXCEPT ![SegStart]     = HeapSize - HEADER_SIZE,
                                ![SegStart + 1] = NULL,
                                ![SegStart + 2] = NULL],
     ffh          |-> SegStart,
     nheaders     |-> 1,
     nfreeheaders |-> 1,
     hdrs         |-> {SegStart},
     flist        |-> <<SegStart>>]

change_header(h, p, size, status) ==
    [h EXCEPT !.mem[p] = IF status = StatusUsed THEN SetUsed(size)
                                                ELSE Masked(size)]

\* Variants named ..._bug are what a plausible mistake would make of the
\* definition after them; nothing here uses them.

\* The counter is not reset when the list was empty.
add_free_block_count_bug(h, p) ==
    IF h.ffh = NULL
    THEN [h EXCEPT !.mem = [h.mem EXCEPT ![p + 1] = NULL, ![p + 2] = NULL],
                   !.ffh = p, !.flist = <<p>>]
    ELSE [h EXCEPT !.mem = [h.mem EXCEPT ![h.ffh + 1] = p, ![p] = Masked(@),
                                         ![p + 1] = NULL, ![p + 2] = h.ffh],
                   !.ffh = p, !.nfreeheaders = @ + 1, !.flist = <<p>> \o @]

add_free_block(h, p) ==
    IF h.ffh = NULL
    THEN [h EXCEPT !.mem          = [h.mem EXCEPT ![p + 1] = NULL, ![p + 2] = NULL],
                   !.ffh          = p,
                   !.nfreeheaders = 1,
                   !.flist        = <<p>>]
    ELSE LET m == [h.mem EXCEPT ![h.ffh + 1] = p, ![p + 1] = NULL, ![p + 2] = h.ffh]
         IN  [h EXCEPT !.mem          = [m EXCEPT ![p] = Masked(m[p])],
                       !.ffh          = p,
                       !.nfreeheaders = h.nfreeheaders + 1,
                       !.flist        = <<p>> \o h.flist]

\* The new front of the list keeps its old prev link.
remove_free_block_bug(h, p) ==
    LET prev == h.mem[p + 1]
        next == h.mem[p + 2]
        m    == IF h.nfreeheaders = 1 \/ prev = NULL THEN h.mem
                ELSE IF next = NULL THEN [h.mem EXCEPT ![prev + 2] = NULL]
                ELSE [h.mem EXCEPT ![prev + 2] = next, ![next + 1] = prev]
    IN  [h EXCEPT !.mem          = [m EXCEPT ![p] = SetUsed(m[p])],
                  !.ffh          = IF h.nfreeheaders = 1 THEN NULL
                                   ELSE IF prev = NULL THEN next ELSE h.ffh,
                  !.nfreeheaders = h.nfreeheaders - 1,
                  !.flist        = RemoveAt(h.flist, PositionIn(h.flist, p))]

\* p leaves the list: its neighbours there, if any, are joined.
remove_free_block(h, p) ==
    LET prev == h.mem[p + 1]
        next == h.mem[p + 2]
        m    == IF h.nfreeheaders = 1 THEN h.mem
                ELSE IF prev = NULL   THEN [h.mem EXCEPT ![next + 1] = NULL]
                ELSE IF next = NULL   THEN [h.mem EXCEPT ![prev + 2] = NULL]
                ELSE [h.mem EXCEPT ![prev + 2] = next, ![next + 1] = prev]
    IN  [h EXCEPT !.mem          = [m EXCEPT ![p] = SetUsed(m[p])],
                  !.ffh          = IF h.nfreeheaders = 1 THEN NULL
                                   ELSE IF prev = NULL THEN next ELSE h.ffh,
                  !.nfreeheaders = h.nfreeheaders - 1,
                  !.flist        = RemoveAt(h.flist, PositionIn(h.flist, p))]

need_split(h, p, size) == h.mem[p] - size >= ALIGNMENT_16 + HEADER_SIZE

\* The second header that a split writes: p keeps size bytes, marked used.
cut(h, p, size) ==
    LET new_ptr == p + size \div HEADER_SIZE + 1
    IN  change_header(
            change_header([h EXCEPT !.nheaders = @ + 1, !.hdrs = @ \cup {new_ptr}],
                          new_ptr, SizeAt(h, p) - size - HEADER_SIZE, StatusFree),
            p, size, StatusUsed)

split_block(h, p, size) ==
    add_free_block(remove_free_block(cut(h, p, size), p),
                   p + size \div HEADER_SIZE + 1)

split_block_r(h, p, size) ==
    add_free_block(cut(h, p, size), p + size \div HEADER_SIZE + 1)

\* Is the block to the right of p inside the segment and free?
can_col(h, p) ==
    /\ NextOf(h, p) <= SegEnd - (ALIGNMENT_16 + HEADER_SIZE) \div HEADER_SIZE
    /\ Status(h.mem[NextOf(h, p)]) = StatusFree

\* The right neighbour of p leaves the free list and becomes part of p.
absorb(h, p, status) ==
    LET next  == NextOf(h, p)
        total == SizeAt(h, p) + h.mem[next] + HEADER_SIZE
    IN  change_header([remove_free_block(h, next) EXCEPT !.nheaders = @ - 1,
                                                         !.hdrs = @ \ {next}],
                      p, total, status)

col(h, p)   == add_free_block(absorb(h, p, StatusFree), p)
col_r(h, p) == absorb(h, p, StatusUsed)

\* The part of mymalloc after find_free_block has returned cur.
place(h, cur, needed) ==
    IF need_split(h, cur, needed)
    THEN split_block(h, cur, needed)
    ELSE remove_free_block(change_header(h, cur, SizeAt(h, cur), StatusUsed), cur)

myfree(h, ptr) ==
    IF ptr = NULL THEN h
    ELSE LET p == ptr - 1
         IN  IF can_col(h, p)
             THEN col(h, p)
             ELSE add_free_block(change_header(h, p, SizeAt(h, p), StatusFree), p)

\* myrealloc when the block at p has become, or is, large enough.
fit_in_place(h, p, new_size) ==
    IF need_split(h, p, new_size) THEN split_block_r(h, p, new_size) ELSE h

-----------------------------------------------------------------------------
(* The client and its calls.                                               *)

NoCall == [id |-> NoId, size |-> 0, need |-> 0, cur |-> NULL, old_size |-> 0, keep |-> 0]

Init == /\ heap = myinit(ZeroMem)
        /\ live = [i \in Ids |-> NoBlock]
        /\ pc   = "idle"
        /\ call = NoCall

\* The call returns ptr for block id; the client is about to fill it and
\* expects the first keep bytes to be what they were.
Return(id, ptr, size, keep) ==
    /\ live' = [live EXCEPT ![id] = [ptr |-> ptr, size |-> size]]
    /\ call' = [NoCall EXCEPT !.id = id, !.keep = keep]
    /\ pc'   = "fill"

\* mymalloc(n), or myrealloc(NULL, n): the search starts at ffh.
Malloc(id, n) ==
    /\ pc = "idle" /\ live[id].ptr = NULL
    /\ n > 0 /\ n <= MaxRequest
    /\ call' = [NoCall EXCEPT !.id = id, !.size = n,
                              !.need = roundup(n, ALIGNMENT_16), !.cur = heap.ffh]
    /\ pc' = "find"
    /\ UNCHANGED <<heap, live>>

\* The same calls when mymalloc returns NULL at once.
MallocReject(id, n) ==
    /\ pc = "idle" /\ live[id].ptr = NULL
    /\ n = 0 \/ n > MaxRequest
    /\ UNCHANGED vars

\* myfree(p), or myrealloc(p, 0).
Free(id) ==
    /\ pc = "idle"
    /\ heap' = myfree(heap, live[id].ptr)
    /\ live' = [live EXCEPT ![id] = NoBlock]
    /\ UNCHANGED <<pc, call>>

\* myrealloc(p, n) when the block of p already has room for n.
ReallocInPlace(id, n) ==
    LET p    == live[id].ptr - 1
        need == roundup(n, ALIGNMENT_16)
    IN  /\ pc = "idle" /\ live[id].ptr # NULL /\ n > 0
        /\ need <= SizeAt(heap, p)
        /\ heap' = fit_in_place(heap, p, need)
        /\ Return(id, live[id].ptr, n, Min({n, live[id].size}))

\* Straight to mymalloc, without a look at the neighbours.
ReallocGrow_bug(id, n) ==
    LET p    == live[id].ptr - 1
        need == roundup(n, ALIGNMENT_16)
    IN  /\ pc = "idle" /\ live[id].ptr # NULL /\ n > 0
        /\ need > SizeAt(heap, p)
        /\ call' = [id |-> id, size |-> n, need |-> need, cur |-> heap.ffh,
                    old_size |-> SizeAt(heap, p), keep |-> Min({n, live[id].size})]
        /\ pc' = "find"
        /\ UNCHANGED <<heap, live>>

\* myrealloc(p, n) when it has not: enter the loop that absorbs neighbours.
ReallocGrow(id, n) ==
    LET p    == live[id].ptr - 1
        need == roundup(n, ALIGNMENT_16)
    IN  /\ pc = "idle" /\ live[id].ptr # NULL /\ n > 0
        /\ need > SizeAt(heap, p)
        /\ call' = [id |-> id, size |-> n, need |-> need, cur |-> p,
                    old_size |-> SizeAt(heap, p), keep |-> Min({n, live[id].size})]
        /\ pc' = "absorb"
        /\ UNCHANGED <<heap, live>>

\* The grown block's header is returned for its payload.
Absorb_bug ==
    LET grown == col_r(heap, call.cur)
    IN  /\ pc = "absorb" /\ can_col(heap, call.cur)
        /\ \/ /\ call.need > SizeAt(grown, call.cur)
              /\ heap' = grown
              /\ UNCHANGED <<live, pc, call>>
           \/ /\ call.need <= SizeAt(grown, call.cur)
              /\ heap' = fit_in_place(grown, call.cur, call.need)
              /\ Return(call.id, call.cur, call.size, call.keep)

\* An iteration of the loop, followed by a return when there is room now.
Absorb ==
    LET grown == col_r(heap, call.cur)
    IN  /\ pc = "absorb" /\ can_col(heap, call.cur)
        /\ \/ /\ call.need > SizeAt(grown, call.cur)
              /\ heap' = grown
              /\ UNCHANGED <<live, pc, call>>
           \/ /\ call.need <= SizeAt(grown, call.cur)
              /\ heap' = fit_in_place(grown, call.cur, call.need)
              /\ Return(call.id, call.cur + 1, call.size, call.keep)

\* The loop is left only when there is room.
AbsorbEnd_bug ==
    /\ pc = "absorb" /\ ~can_col(heap, call.cur)
    /\ call.need <= SizeAt(heap, call.cur)
    /\ pc' = "find" /\ call' = [call EXCEPT !.cur = heap.ffh]
    /\ UNCHANGED <<heap, live>>

\* Nothing left to absorb: mymalloc(new_size) is called.  If it refuses the
\* size, memcpy through the NULL it returned ends the program.
AbsorbEnd ==
    /\ pc = "absorb" /\ ~can_col(heap, call.cur)
    /\ IF call.need > MaxRequest
       THEN pc' = "crashed" /\ call' = NoCall
       ELSE pc' = "find" /\ call' = [call EXCEPT !.cur = heap.ffh]
    /\ UNCHANGED <<heap, live>>

\* An iteration of find_free_block whose block is too small.
FindNext ==
    /\ pc = "find" /\ call.cur # NULL
    /\ SizeAt(heap, call.cur) < call.need
    /\ call' = [call EXCEPT !.cur = heap.mem[call.cur + 2]]
    /\ UNCHANGED <<heap, live, pc>>

Fits == pc = "find" /\ call.cur # NULL /\ SizeAt(heap, call.cur) >= call.need

\* mymalloc returns to the client.
MallocFit ==
    /\ Fits /\ live[call.id].ptr = NULL
    /\ heap' = place(heap, call.cur, call.need)
    /\ Return(call.id, call.cur + 1, call.size, 0)

\* The old block is not freed.
ReallocMove_leak_bug ==
    LET old == live[call.id].ptr
        new == call.cur + 1
    IN  /\ Fits /\ old # NULL
        /\ heap' = memcpy(place(heap, call.cur, call.need), new, old, call.old_size)
        /\ Return(call.id, new, call.size, call.keep)

\* The old block is freed before it is copied.
ReallocMove_order_bug ==
    LET old == live[call.id].ptr
        new == call.cur + 1
    IN  /\ Fits /\ old # NULL
        /\ heap' = memcpy(myfree(place(heap, call.cur, call.need), old),
                          new, old, call.old_size)
        /\ Return(call.id, new, call.size, call.keep)

\* mymalloc returns to myrealloc, which copies, frees the old block, returns.
ReallocMove ==
    LET old == live[call.id].ptr
        new == call.cur + 1
    IN  /\ Fits /\ old # NULL
        /\ heap' = myfree(memcpy(place(heap, call.cur, call.need),
                                 new, old, call.old_size), old)
        /\ Return(call.id, new, call.size, call.keep)

\* The search stops on the last block instead of after it.
FindFail_bug ==
    /\ pc = "find" /\ (call.cur = NULL \/ heap.mem[call.cur + 2] = NULL)
    /\ pc' = IF live[call.id].ptr = NULL THEN "idle" ELSE "crashed"
    /\ call' = NoCall
    /\ UNCHANGED <<heap, live>>

\* The list is exhausted: mymalloc returns NULL, to the client or to the
\* memcpy of myrealloc.
FindFail ==
    /\ pc = "find" /\ call.cur = NULL
    /\ pc' = IF live[call.id].ptr = NULL THEN "idle" ELSE "crashed"
    /\ call' = NoCall
    /\ UNCHANGED <<heap, live>>

\* The client's memset of the block it got.
ClientFill ==
    LET b == live[call.id]
    IN  /\ pc = "fill"
        /\ heap' = memset(heap, b.ptr, Fill[call.id], b.size)
        /\ pc' = "idle" /\ call' = NoCall
        /\ UNCHANGED live

\* The next script: myinit on the segment, remapped (all zero) or as it was.
Restart ==
    /\ pc = "idle"
    /\ \E m \in {ZeroMem, heap.mem} : heap' = myinit(m)
    /\ live' = [i \in Ids |-> NoBlock]
    /\ UNCHANGED <<pc, call>>

CallStep == Absorb \/ AbsorbEnd \/ FindNext \/ MallocFit \/ ReallocMove \/ FindFail

ClientStep ==
    \/ \E id \in Ids, n \in Requests : \/ Malloc(id, n) \/ MallocReject(id, n)
                                       \/ ReallocInPlace(id, n) \/ ReallocGrow(id, n)
    \/ \E id \in Ids : Free(id)
    \/ ClientFill
    \/ Restart

Next == ClientStep \/ CallStep

Spec     == Init /\ [][Next]_vars
FairSpec == Spec /\ WF_vars(CallStep)

-----------------------------------------------------------------------------
(* The heap checker of the C file, which the harness calls between requests. *)

\* The loop over the headers, after i of them: where it stands, the bytes and
\* the free blocks it has counted.
HeaderWalk(h) ==
    LET walk[i \in 0 .. h.nheaders] ==
            IF i = 0
            THEN [cur |-> SegStart, sum |-> 0, nfree |-> 0]
            ELSE LET w == walk[i - 1]
                 IN  [cur   |-> w.cur + SizeAt(h, w.cur) \div HEADER_SIZE + 1,
                      sum   |-> w.sum + HEADER_SIZE + SizeAt(h, w.cur),
                      nfree |-> w.nfree + IF Status(h.mem[w.cur]) = StatusFree
                                          THEN 1 ELSE 0]
    IN  walk[h.nheaders]

\* The block reached from ffh by following n next links.
ListWalk(h, n) ==
    LET node[i \in 0 .. n] == IF i = 0 THEN h.ffh ELSE h.mem[node[i - 1] + 2]
    IN  node[n]

validate_heap(h) ==
    /\ HeaderWalk(h).sum = HeapSize
    /\ HeaderWalk(h).nfree = h.nfreeheaders
    /\ h.nfreeheaders > 0 => h.mem[ListWalk(h, h.nfreeheaders - 1) + 2] = NULL

-----------------------------------------------------------------------------
(* Properties.                                                             *)

\* Every variable has the shape the code gives it.
TypeOK ==
    /\ heap \in HeapType
    /\ live \in [Ids -> [ptr : Addr \cup {NULL}, size : Nat]]
    /\ pc \in {"idle", "find", "absorb", "fill", "crashed"}
    /\ call \in [id : Ids \cup {NoId}, size : Nat, need : Nat, cur : Addr \cup {NULL},
                 old_size : Nat, keep : Nat]

Tiles(h) == Tiled(h) /\ \A p \in h.hdrs : SizeAt(h, p) >= ALIGNMENT_16

Linked(h) ==
    LET L == h.flist
        n == Len(L)
    IN  /\ h.ffh = IF n = 0 THEN NULL ELSE L[1]
        /\ h.nfreeheaders = n
        /\ \A i \in 1..n :
              /\ h.mem[L[i] + 1] = IF i = 1 THEN NULL ELSE L[i - 1]
              /\ h.mem[L[i] + 2] = IF i = n THEN NULL ELSE L[i + 1]
        /\ \A i, j \in 1..n : L[i] = L[j] => i = j

\* The headers cut the segment into blocks of at least 16 bytes, without gap
\* or overlap, and nheaders counts them (split_block, col and their _r forms).
Tiling == Tiles(heap)

\* The prev and next words link the free list in both directions, from ffh to
\* NULL, through nfreeheaders distinct blocks (add_free_block and the four
\* cases of remove_free_block).
FreeList == Linked(heap)

\* The blocks on the free list are exactly those whose header says free.
FreeBits == Range(heap.flist) = FreeHdrs(heap)

\* The used blocks are exactly the client's, one each and large enough: no
\* block is lost, handed out twice or cut short (mymalloc, myrealloc, myfree).
LiveBlocks == Owned(heap, live)

\* The locals of the call in progress.  The search stands on a listed block,
\* or past the last, and every block before it is too small; a block being
\* resized keeps its header, its old bytes and its owner until it moves, and
\* the search for a new place starts only once its right side is blocked.
CallInProgress ==
    LET L     == heap.flist
        owner == live[call.id]
    IN  /\ pc \in {"find", "absorb"} =>
              /\ call.id \in Ids /\ call.size > 0
              /\ call.need = roundup(call.size, ALIGNMENT_16)
              /\ owner.ptr # NULL =>
                    /\ SizeAt(heap, owner.ptr - 1) < call.need
                    /\ call.old_size <= SizeAt(heap, owner.ptr - 1)
                    /\ call.old_size % HEADER_SIZE = 0
                    /\ owner.size <= call.old_size
                    /\ call.keep = Min({call.size, owner.size})
        /\ pc = "absorb" => owner.ptr # NULL /\ call.cur = owner.ptr - 1
        /\ pc = "find" =>
              /\ \E k \in 1 .. (Len(L) + 1) :
                    /\ call.cur = IF k = Len(L) + 1 THEN NULL ELSE L[k]
                    /\ \A i \in 1 .. (k - 1) : SizeAt(heap, L[i]) < call.need
              /\ owner.ptr # NULL => ~can_col(heap, owner.ptr - 1)
        /\ pc = "fill" =>
              call.id \in Ids /\ owner.ptr # NULL /\ call.keep <= owner.size

\* The heap's structure: a defect in any of the three makes a later call write
\* a header or a link into somebody's data.
HeapStructure == Tiling /\ FreeList /\ FreeBits

\* The client's table, the heap and the locals of a call agree in every state,
\* the middle of a search or of a resize included.
StateSound == TypeOK /\ LiveBlocks /\ CallInProgress

\* Every word of every live block is what the client last wrote there; in a
\* block just returned by a call, the words the call must keep.
PayloadIntact ==
    \A id \in Ids :
        LET kept == IF pc = "fill" /\ call.id = id THEN call.keep ELSE live[id].size
        IN  \A k \in 0 .. (Words(kept) - 1) : heap.mem[live[id].ptr + k] = Fill[id]

\* mymalloc gives up only if no free block has the size asked for, wherever in
\* the list it is (find_free_block).
FailsOnlyIfNoFit ==
    [][ (pc = "find" /\ pc' \in {"idle", "crashed"})
          => \A p \in FreeHdrs(heap) : SizeAt(heap, p) < call.need ]_vars

\* myrealloc moves a block only when what is to its right is used or the end
\* of the segment, and it is still too small for the rounded size ("absorbs
\* adjacent free blocks as much as possible", explicit.c:6-8).
MovesOnlyWhenBoxedIn ==
    [][ \A id \in Ids :
          LET p == live[id].ptr - 1
          IN  (live[id].ptr # NULL /\ live'[id].ptr \notin {NULL, live[id].ptr})
                => /\ \/ NextOf(heap, p) = SegEnd
                      \/ Status(heap.mem[NextOf(heap, p)]) = StatusUsed
                   /\ SizeAt(heap, p) < roundup(live'[id].size, ALIGNMENT_16) ]_vars

\* The checker accepts the heap whenever the harness may call it
\* (test_harness.c:222, "check heap consistency after each request").
CheckerAccepts == pc = "idle" => validate_heap(heap)

\* Every call comes to an end: no cycle in the free list, no endless absorbing.
CallsEnd == pc \in {"find", "absorb"} ~> pc \in {"idle", "fill", "crashed"}

(***************************************************************************)
(* Seen from the client the heap is an Allocator.                          *)
(***************************************************************************)
A == INSTANCE Allocator WITH
        blk  <- live,
        data <- [i \in Ids |-> [k \in 0 .. (Words(live[i].size) - 1) |->
                                   heap.mem[live[i].ptr + k]]]

\* Blocks returned are in the segment and apart, and no call changes a word of
\* a live block it was not asked to change.
ImplementsAllocator == A!Spec

(***************************************************************************)
(* What the harness expects, and the code does not do.                     *)
(***************************************************************************)

\* A failed myrealloc returns NULL (test_harness.c:309-311 tests for it).
ReallocFailureIsReported == pc # "crashed"
=============================================================================
