---------------------------- MODULE ImplicitHeap ----------------------------
(***************************************************************************)
(* The implicit heap allocator of src/assign6/implicit.c under a client    *)
(* that behaves like src/assign6/test_harness.c.                           *)
(*                                                                         *)
(* A heap is laid out in words as HeapWords says, with nothing else in it: *)
(* mymalloc walks the headers from the first block on.  An iteration of    *)
(* its loop is a step.                                                     *)
(***************************************************************************)
EXTENDS HeapWords, FiniteSetsExt

ALIGNMENT == 8

VARIABLES
    heap,   \* the memory and the globals of implicit.c, see HeapType
    live,   \* blocks[] of the client: its pointer and size for every id
    pc,     \* with the client ("idle", "fill", "failed"), or in the loop ("find")
    call    \* the arguments and locals of the call in progress

vars == <<heap, live, pc, call>>

HeapType == [mem : [Addr -> Int], nheaders : Nat, hdrs : SUBSET Addr]

-----------------------------------------------------------------------------
(* Operations on the heap.  Variants named ..._bug are what a plausible     *)
(* mistake would make of the definition after them; nothing here uses them. *)

\* myinit on a segment whose words are m.
myinit(m) == [mem      |-> [m EXCEPT ![SegStart] = HeapSize - HEADER_SIZE],
              nheaders |-> 1,
              hdrs     |-> {SegStart}]

\* The new header is not counted.
place_count_bug(h, cur, needed) ==
    LET size == SizeAt(h, cur)
        rest == cur + needed \div HEADER_SIZE + 1
    IN  IF needed >= size - HEADER_SIZE
        THEN [h EXCEPT !.mem = [h.mem EXCEPT ![cur] = SetUsed(@)]]
        ELSE [mem      |-> [h.mem EXCEPT ![cur]  = SetUsed(needed),
                                         ![rest] = size - HEADER_SIZE - needed],
              nheaders |-> h.nheaders,
              hdrs     |-> h.hdrs \cup {rest}]

\* The free block at cur is used, whole if what is over holds no payload.
place(h, cur, needed) ==
    LET size == SizeAt(h, cur)
        rest == cur + needed \div HEADER_SIZE + 1
    IN  IF needed >= size - HEADER_SIZE
        THEN [h EXCEPT !.mem = [h.mem EXCEPT ![cur] = SetUsed(@)]]
        ELSE [mem      |-> [h.mem EXCEPT ![cur]  = SetUsed(needed),
                                         ![rest] = size - HEADER_SIZE - needed],
              nheaders |-> h.nheaders + 1,
              hdrs     |-> h.hdrs \cup {rest}]

myfree(h, ptr) ==
    IF ptr = NULL THEN h
    ELSE [h EXCEPT !.mem = [h.mem EXCEPT ![ptr - 1] = Masked(@)]]

-----------------------------------------------------------------------------
(* The client and its calls.                                               *)

NoCall == [id |-> NoId, size |-> 0, need |-> 0, i |-> 0, cur |-> NULL,
           old_size |-> 0, keep |-> 0]

Init == /\ heap = myinit(ZeroMem)
        /\ live = [j \in Ids |-> NoBlock]
        /\ pc   = "idle"
        /\ call = NoCall

\* The call returns ptr for block id; the client is about to fill it and
\* expects the first keep bytes to be what they were.
Return(id, ptr, size, keep) ==
    /\ live' = [live EXCEPT ![id] = [ptr |-> ptr, size |-> size]]
    /\ call' = [NoCall EXCEPT !.id = id, !.keep = keep]
    /\ pc'   = "fill"

\* Where a NULL from mymalloc leads: to the client, or to the memcpy of
\* myrealloc, which ends the program.
Denied(id) == IF live[id].ptr = NULL THEN "failed" ELSE "crashed"

\* mymalloc(n) is entered, to stand on the first block or to refuse.
Enter(id, n, old_size, keep) ==
    /\ call' = [id |-> id, size |-> n, need |-> roundup(n, ALIGNMENT),
                i |-> 0, cur |-> SegStart, old_size |-> old_size, keep |-> keep]
    /\ pc' = IF n < MaxRequest THEN "find" ELSE Denied(id)
    /\ UNCHANGED <<heap, live>>

\* mymalloc(n), or myrealloc(NULL, n).
Malloc(id, n) ==
    /\ pc = "idle" /\ live[id].ptr = NULL /\ n > 0
    /\ Enter(id, n, 0, 0)

\* The same calls with n = 0 return NULL, which the client takes for a block.
MallocZero(id) ==
    /\ pc = "idle" /\ live[id].ptr = NULL
    /\ UNCHANGED vars

\* myrealloc(p, n): the old size is read, then mymalloc is called.
Realloc(id, n) ==
    /\ pc = "idle" /\ live[id].ptr # NULL /\ n > 0
    /\ Enter(id, n, SizeAt(heap, live[id].ptr - 1), Min({n, live[id].size}))

\* myfree(p), or myrealloc(p, 0).
Free(id) ==
    /\ pc = "idle"
    /\ heap' = myfree(heap, live[id].ptr)
    /\ live' = [live EXCEPT ![id] = NoBlock]
    /\ UNCHANGED <<pc, call>>

\* A used block will do as well.
Hit_bug == pc = "find" /\ SizeAt(heap, call.cur) >= call.need

\* The loop stands on a free block that is large enough.
Hit == /\ pc = "find"
       /\ Status(heap.mem[call.cur]) = StatusFree
       /\ SizeAt(heap, call.cur) >= call.need

\* The loop moves by the size of the payload only.
FindNext_bug ==
    /\ pc = "find" /\ ~Hit /\ call.i # heap.nheaders - 1
    /\ call' = [call EXCEPT !.i = @ + 1, !.cur = NextOf(heap, @) - 1]
    /\ UNCHANGED <<heap, live, pc>>

\* An iteration that passes over a block: used, or too small.
FindNext ==
    /\ pc = "find" /\ ~Hit /\ call.i # heap.nheaders - 1
    /\ call' = [call EXCEPT !.i = @ + 1, !.cur = NextOf(heap, call.cur)]
    /\ UNCHANGED <<heap, live, pc>>

\* The block before the last is taken for the last.
FindFail_bug ==
    /\ pc = "find" /\ ~Hit /\ call.i >= heap.nheaders - 2
    /\ pc' = Denied(call.id)
    /\ UNCHANGED <<heap, live, call>>

\* The end is looked for one block too far.
FindFail_last_bug ==
    /\ pc = "find" /\ ~Hit /\ call.i = heap.nheaders
    /\ pc' = Denied(call.id)
    /\ UNCHANGED <<heap, live, call>>

\* The last block is passed over: mymalloc returns NULL.
FindFail ==
    /\ pc = "find" /\ ~Hit /\ call.i = heap.nheaders - 1
    /\ pc' = Denied(call.id)
    /\ UNCHANGED <<heap, live, call>>

\* mymalloc returns to the client.
MallocFit ==
    /\ Hit /\ live[call.id].ptr = NULL
    /\ heap' = place(heap, call.cur, call.need)
    /\ Return(call.id, call.cur + 1, call.size, 0)

\* The old size is taken to include the header.
ReallocMove_copy_bug ==
    LET new == call.cur + 1
        old == live[call.id].ptr
    IN  /\ Hit /\ old # NULL
        /\ heap' = myfree(memcpy(place(heap, call.cur, call.need), new, old,
                                 Min({call.size, call.old_size - HEADER_SIZE})), old)
        /\ Return(call.id, new, call.size, call.keep)

\* mymalloc returns to myrealloc, which copies, frees the old block, returns.
ReallocMove ==
    LET new == call.cur + 1
        old == live[call.id].ptr
    IN  /\ Hit /\ old # NULL
        /\ heap' = myfree(memcpy(place(heap, call.cur, call.need), new, old,
                                 Min({call.size, call.old_size})), old)
        /\ Return(call.id, new, call.size, call.keep)

\* The client's memset of the block it got.
ClientFill ==
    LET b == live[call.id]
    IN  /\ pc = "fill"
        /\ heap' = memset(heap, b.ptr, Fill[call.id], b.size)
        /\ pc' = "idle" /\ call' = NoCall
        /\ UNCHANGED live

\* The client sees the NULL of a failed mymalloc and goes on.
ClientSeesNull ==
    /\ pc = "failed" /\ pc' = "idle" /\ call' = NoCall
    /\ UNCHANGED <<heap, live>>

\* The next script: myinit on the segment, remapped (all zero) or as it was.
Restart ==
    /\ pc = "idle"
    /\ \E m \in {ZeroMem, heap.mem} : heap' = myinit(m)
    /\ live' = [j \in Ids |-> NoBlock]
    /\ UNCHANGED <<pc, call>>

CallStep == FindNext \/ FindFail \/ MallocFit \/ ReallocMove

ClientStep ==
    \/ \E id \in Ids, n \in Requests : Malloc(id, n) \/ Realloc(id, n)
    \/ \E id \in Ids : MallocZero(id) \/ Free(id)
    \/ ClientFill
    \/ ClientSeesNull
    \/ Restart

Next == ClientStep \/ CallStep

Spec     == Init /\ [][Next]_vars
FairSpec == Spec /\ WF_vars(CallStep)

-----------------------------------------------------------------------------
(* The heap checker of the C file, which the harness calls between requests. *)

\* The bytes that the loop over the headers adds up.
validate_heap(h) ==
    LET walk[i \in 0 .. h.nheaders] ==
            IF i = 0 THEN [cur |-> SegStart, sum |-> 0]
            ELSE LET w == walk[i - 1]
                 IN  [cur |-> NextOf(h, w.cur),
                      sum |-> w.sum + HEADER_SIZE + SizeAt(h, w.cur)]
    IN  walk[h.nheaders].sum = HeapSize

-----------------------------------------------------------------------------
(* Properties.                                                             *)

\* Every variable has the shape the code gives it.
TypeOK ==
    /\ heap \in HeapType
    /\ live \in [Ids -> [ptr : Addr \cup {NULL}, size : Nat]]
    /\ pc \in {"idle", "find", "fill", "failed", "crashed"}
    /\ call \in [id : Ids \cup {NoId}, size : Nat, need : Nat, i : Nat,
                 cur : Addr \cup {NULL}, old_size : Nat, keep : Nat]

\* The headers cut the segment into blocks of at least 8 bytes, without gap or
\* overlap, and nheaders counts them (the split in mymalloc).
Tiling == Tiled(heap)

\* The used blocks are exactly the client's, one each and large enough: no
\* block is lost, handed out twice or cut short (mymalloc, myrealloc, myfree).
LiveBlocks == Owned(heap, live)

\* No free block of the heap has room for the request in progress.
NoFit == \A p \in FreeHdrs(heap) : SizeAt(heap, p) < call.need

\* The locals of the call in progress.  The loop counter is the number of
\* headers before the block the loop stands on, which is a header, and no free
\* block before it is large enough; old_size is still the size of the block
\* being resized; and once mymalloc has given up, on a size it does not
\* refuse, nothing fits.
CallInProgress ==
    LET owner == live[call.id]
    IN  /\ pc = "find" =>
              /\ call.id \in Ids /\ call.size > 0 /\ call.size < MaxRequest
              /\ call.need = roundup(call.size, ALIGNMENT)
              /\ call.cur \in heap.hdrs
              /\ call.i = Cardinality({q \in heap.hdrs : q < call.cur})
              /\ \A p \in FreeHdrs(heap) : p < call.cur => SizeAt(heap, p) < call.need
              /\ owner.ptr # NULL => /\ call.old_size = SizeAt(heap, owner.ptr - 1)
                                     /\ call.keep = Min({call.size, owner.size})
        /\ pc \in {"failed", "crashed"} => call.size >= MaxRequest \/ NoFit
        /\ pc = "fill" =>
              call.id \in Ids /\ owner.ptr # NULL /\ call.keep <= owner.size

\* The headers, the client's table and the locals of a call agree in every
\* state, the middle of a search included.
StateSound == TypeOK /\ Tiling /\ LiveBlocks /\ CallInProgress

\* Every word of every live block is what the client last wrote there; in a
\* block just returned by a call, the words the call must keep.
PayloadIntact ==
    \A id \in Ids :
        LET kept == IF pc = "fill" /\ call.id = id THEN call.keep ELSE live[id].size
        IN  \A k \in 0 .. (Words(kept) - 1) : heap.mem[live[id].ptr + k] = Fill[id]

\* The search takes the first free block of the segment that is large enough,
\* and gives up only if there is none (the loop of mymalloc).
FirstFit ==
    [][ (pc = "find" /\ pc' # "find")
          => \A p \in FreeHdrs(heap) : SizeAt(heap, p) >= call.need
               => pc' = "fill" /\ live'[call.id].ptr - 1 <= p ]_vars

\* The checker accepts the heap whenever the harness may call it
\* (test_harness.c:222, "check heap consistency after each request").
CheckerAccepts == pc = "idle" => validate_heap(heap)

\* Every call comes to an end.
CallsEnd == pc = "find" ~> pc # "find"

(***************************************************************************)
(* Seen from the client the heap is an Allocator.                          *)
(***************************************************************************)
A == INSTANCE Allocator WITH
        blk  <- live,
        data <- [j \in Ids |-> [k \in 0 .. (Words(live[j].size) - 1) |->
                                   heap.mem[live[j].ptr + k]]]

\* Blocks returned are in the segment and apart, and no call changes a word of
\* a live block it was not asked to change.
ImplementsAllocator == A!Spec
=============================================================================
