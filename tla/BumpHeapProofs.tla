---------------------------- MODULE BumpHeapProofs ----------------------------
(***************************************************************************)
(* Proofs about BumpHeap, for every segment size and every set of ids and  *)
(* requests.                                                               *)
(***************************************************************************)
EXTENDS BumpHeap, HeapWordsProofs

Ptr == (Addr \cup {SegEnd}) \cup {NULL}

\* A block that is not held has no bytes, and the block that the client is
\* about to fill is held.
BlocksSane ==
    /\ \A id \in Ids : live[id].ptr = NULL => live[id].size = 0
    /\ pc = "fill" => /\ call.id \in Ids /\ live[call.id].ptr # NULL
                      /\ call.keep <= live[call.id].size

IInv == TypeOK /\ BlocksApart /\ PayloadIntact /\ BlocksSane

-----------------------------------------------------------------------------
(* What has been handed out.                                               *)

Bumped(h) == h \in HeapType /\ h.nused % 8 = 0 /\ h.nused <= HeapSize

LEMMA TopFacts ==
    ASSUME NEW h, Bumped(h)
    PROVE  /\ top(h) \in Nat /\ SegStart <= top(h) /\ top(h) <= SegEnd
           /\ top(h) \in Ptr /\ top(h) # NULL
           /\ h.nused = 8 * (top(h) - SegStart)
  <1>1. h.nused \in Nat /\ h.nused % 8 = 0 /\ h.nused <= HeapSize
    BY DEF Bumped, HeapType
  <1>2. /\ HeapSize \in Nat /\ HeapSize % 8 = 0 /\ SegStart \in Nat \ {0}
        /\ SegEnd = SegStart + HeapSize \div 8
    BY HeapAssumption DEF HEADER_SIZE, SegEnd
  <1>3. top(h) = SegStart + h.nused \div 8
    BY DEF top, ALIGNMENT
  <1>4. /\ top(h) \in Nat /\ SegStart <= top(h) /\ top(h) <= SegEnd
        /\ h.nused = 8 * (top(h) - SegStart)
    BY <1>1, <1>2, <1>3
  <1>. QED BY <1>2, <1>4, AddrFacts DEF Ptr, Addr, NULL

LEMMA NeededFacts ==
    ASSUME NEW n \in Nat
    PROVE  needed(n) \in Nat /\ needed(n) = 8 * Words(n)
  BY DEF needed, Words, roundup, ALIGNMENT, HEADER_SIZE

\* A block of n bytes that fits goes from the old top to the new one.
LEMMA BumpFacts ==
    ASSUME NEW h, Bumped(h), NEW n \in Nat, h.nused + needed(n) <= HeapSize,
           NEW g, g \in HeapType, g.nused = h.nused + needed(n)
    PROVE  Bumped(g) /\ top(g) = top(h) + Words(n)
  <1>1. Words(n) \in Nat /\ needed(n) = 8 * Words(n)
    BY WordsFacts, NeededFacts
  <1>2. h.nused \in Nat /\ h.nused % 8 = 0
    BY DEF Bumped, HeapType
  <1>3. Bumped(g)
    BY <1>1, <1>2 DEF Bumped
  <1>4. top(g) = SegStart + g.nused \div 8 /\ top(h) = SegStart + h.nused \div 8
    BY DEF top, ALIGNMENT
  <1>5. SegStart \in Nat
    BY AddrFacts
  <1>. QED BY <1>1, <1>2, <1>3, <1>4, <1>5
-----------------------------------------------------------------------------
(* A call that returns a new block.                                        *)

\* From h to g the words below dst stay, and the first ones of a block of n
\* bytes at dst are those of the block of size bytes at src.
CopyKept(h, g, dst, src, n, size) ==
    /\ g.mem \in [Addr -> Int]
    /\ \A a \in Addr : a < dst => g.mem[a] = h.mem[a]
    /\ \A k \in 0 .. (Words(n) - 1) : k < Words(size) => g.mem[dst + k] = h.mem[src + k]

LEMMA CopyKeeps ==
    ASSUME NEW h, h.mem \in [Addr -> Int],
           NEW src \in Int, NEW dst \in Int, NEW n \in Nat, NEW size \in Nat,
           SegStart <= src, src + Words(size) <= dst, dst + Words(n) <= SegEnd,
           NEW from \in Copyings(dst, src, n)
    PROVE  CopyKept(h, Copied(h, dst, src, n, from), dst, src, n, size)
  <1>. DEFINE K == 0 .. (Words(n) - 1)
              M == [a \in Addr |-> IF a \in dst .. (dst + Words(n) - 1)
                                   THEN h.mem[src + from[a - dst]] ELSE h.mem[a]]
  <1>1. Words(n) \in Nat /\ Words(size) \in Nat
    BY WordsFacts
  <1>2. Copied(h, dst, src, n, from).mem = M
    BY DEF Copied
  <1>3. /\ from \in [K -> K]
        /\ \A k \in K : from[k] = k \/ src + k >= dst
    BY DEF Copyings
  <1>4. \A a \in Addr : a \in Int /\ SegStart <= a /\ a < SegEnd
    BY AddrFacts
  <1>5. ASSUME NEW a \in Addr, a \in dst .. (dst + Words(n) - 1)
        PROVE  a - dst \in K /\ src + from[a - dst] \in Addr
    <2>1. a - dst \in K
      BY <1>1, <1>4, <1>5
    <2>2. from[a - dst] \in K
      BY <2>1, <1>3
    <2>3. SegStart <= src + from[a - dst] /\ src + from[a - dst] < SegEnd
      BY <2>2, <1>1, AddrFacts
    <2>. QED BY <2>1, <2>2, <2>3, AddrFacts
  <1>6. M \in [Addr -> Int]
    BY <1>5
  <1>7. \A a \in Addr : a < dst => M[a] = h.mem[a]
    BY <1>4
  <1>8. ASSUME NEW k \in K, k < Words(size)
        PROVE  M[dst + k] = h.mem[src + k]
    <2>1. from[k] = k
      BY <1>1, <1>3, <1>8
    <2>2. dst + k \in dst .. (dst + Words(n) - 1) /\ (dst + k) - dst = k
      BY <1>1
    <2>3. dst + k \in Addr
      BY <1>1, AddrFacts
    <2>. QED BY <2>1, <2>2, <2>3
  <1>. QED BY <1>2, <1>6, <1>7, <1>8 DEF CopyKept

\* What a call that hands out n bytes to id does to the heap and the client.
Handed(id, n, keep) ==
    /\ heap' \in HeapType
    /\ heap'.nused = heap.nused + needed(n)
    /\ \A a \in Addr : a < top(heap) => heap'.mem[a] = heap.mem[a]
    /\ \A k \in 0 .. (Words(keep) - 1) : heap'.mem[top(heap) + k] = Fill[id]
    /\ live' = [live EXCEPT ![id] = [ptr |-> top(heap), size |-> n]]
    /\ call' = [id |-> id, keep |-> keep]
    /\ pc' = "fill"

LEMMA HandedIInv ==
    ASSUME IInv, pc = "idle", NEW id \in Ids, NEW n \in Nat, NEW keep \in Nat, keep <= n,
           Fits(n), Handed(id, n, keep)
    PROVE  IInv'
  <1>1. Bumped(heap)
    BY DEF IInv, TypeOK, BlocksApart, validate_heap, Bumped, ALIGNMENT
  <1>2. Bumped(heap') /\ top(heap)' = top(heap) + Words(n)
    <2>1. heap.nused + needed(n) <= HeapSize
      <3>1. heap.nused \in Nat /\ needed(n) \in Nat
        BY NeededFacts DEF IInv, TypeOK, HeapType
      <3>. QED BY <3>1 DEF Fits
    <2>2. Bumped(heap') /\ top(heap') = top(heap) + Words(n)
      BY <1>1, <2>1, BumpFacts DEF Handed
    <2>. QED BY <2>2 DEF top
  <1>3. /\ top(heap) \in Nat /\ SegStart <= top(heap) /\ top(heap) <= SegEnd
        /\ top(heap) \in Ptr /\ top(heap) # NULL /\ Words(n) \in Nat
    BY <1>1, TopFacts, WordsFacts
  <1>4. live \in [Ids -> [ptr : Ptr, size : Nat]]
    BY DEF IInv, TypeOK, Ptr
  <1>5. /\ live' \in [Ids -> [ptr : Ptr, size : Nat]]
        /\ live'[id].ptr = top(heap) /\ live'[id].size = n
        /\ \A j \in Ids \ {id} : live'[j] = live[j]
    BY <1>3, <1>4 DEF Handed
  <1>6. TypeOK'
    BY <1>5 DEF IInv, TypeOK, Handed, Ptr
  <1>7. \A j \in Ids : /\ live[j].ptr \in Int /\ live[j].size \in Nat
                       /\ Words(live[j].size) \in Nat
                       /\ live[j].ptr = NULL => live[j].size = 0 /\ Words(live[j].size) = 0
                       /\ live[j].ptr # NULL => live[j].ptr >= SegStart
                                     /\ live[j].ptr + Words(live[j].size) <= top(heap)
    BY <1>4, AddrFacts, WordsFacts DEF IInv, BlocksApart, BlocksSane, Ptr, NULL
  <1>8. BlocksApart'
    <2>1. (heap.nused % ALIGNMENT = 0 /\ validate_heap(heap))'
      BY <1>2 DEF Bumped, validate_heap, ALIGNMENT
    <2>2. ASSUME NEW j \in Ids, live'[j].ptr # NULL
          PROVE  /\ live'[j].ptr >= SegStart
                 /\ live'[j].ptr + Words(live'[j].size) <= top(heap)'
      <3>1. CASE j = id
        BY <3>1, <1>2, <1>3, <1>5
      <3>2. CASE j # id
        BY <3>2, <2>2, <1>2, <1>3, <1>5, <1>7
      <3>. QED BY <3>1, <3>2
    <2>3. ASSUME NEW j \in Ids \ {id}
          PROVE  Extent(live'[id]) \cap Extent(live'[j]) = {}
      <3>1. /\ Extent(live'[id]) = top(heap) .. (top(heap) + Words(n) - 1)
            /\ Extent(live'[j]) = live[j].ptr .. (live[j].ptr + Words(live[j].size) - 1)
        BY <1>5 DEF Extent
      <3>2. live[j].ptr + Words(live[j].size) <= top(heap)
        BY <1>3, <1>7 DEF NULL
      <3>. QED BY <3>1, <3>2, <1>3, <1>7
    <2>4. ASSUME NEW j \in Ids, NEW j2 \in Ids \ {j}, live'[j].ptr # NULL
          PROVE  Extent(live'[j]) \cap Extent(live'[j2]) = {}
      <3>1. CASE j = id \/ j2 = id
        BY <3>1, <2>3
      <3>2. CASE j # id /\ j2 # id
        BY <3>2, <2>4, <1>5 DEF IInv, BlocksApart, Extent
      <3>. QED BY <3>1, <3>2
    <2>. QED BY <2>1, <2>2, <2>4 DEF BlocksApart, Extent
  <1>9. PayloadIntact'
    <2>1. pc' = "fill" /\ call'.id = id /\ call'.keep = keep
      BY DEF Handed
    <2>2. ASSUME NEW j \in Ids \ {id}, NEW k \in 0 .. (Words(live'[j].size) - 1)
          PROVE  heap'.mem[live'[j].ptr + k] = Fill[j]
      <3>1. live'[j] = live[j] /\ k \in 0 .. (Words(live[j].size) - 1)
        BY <1>5, <2>2
      <3>2. heap.mem[live[j].ptr + k] = Fill[j]
        BY <3>1 DEF IInv, PayloadIntact
      <3>3. live[j].ptr # NULL /\ k \in Int /\ k >= 0 /\ k < Words(live[j].size)
        BY <3>1, <1>7
      <3>4. live[j].ptr + k \in Addr /\ live[j].ptr + k < top(heap)
        BY <3>3, <1>3, <1>7, AddrFacts
      <3>. QED BY <3>1, <3>2, <3>4 DEF Handed
    <2>3. ASSUME NEW k \in 0 .. (Words(keep) - 1)
          PROVE  heap'.mem[live'[id].ptr + k] = Fill[id]
      BY <1>5 DEF Handed
    <2>4. ASSUME NEW j \in Ids
          PROVE  LET kept == IF pc' = "fill" /\ call'.id = j THEN call'.keep ELSE live'[j].size
                 IN  \A k \in 0 .. (Words(kept) - 1) : heap'.mem[live'[j].ptr + k] = Fill[j]
      <3>1. CASE j = id
        BY <3>1, <2>1, <2>3
      <3>2. CASE j # id
        BY <3>2, <2>1, <2>2
      <3>. QED BY <3>1, <3>2
    <2>. QED BY <2>4 DEF PayloadIntact
  <1>10. BlocksSane'
    BY <1>3, <1>5 DEF IInv, BlocksSane, Handed
  <1>. QED BY <1>6, <1>8, <1>9, <1>10 DEF IInv

-----------------------------------------------------------------------------
(* The invariant is inductive.                                             *)

LEMMA InitIInv == Init => IInv
  <1>. SUFFICES ASSUME Init PROVE IInv
    OBVIOUS
  <1>1. \A id \in Ids : live[id] = NoBlock
    BY DEF Init
  <1>2. Bumped(heap)
    BY HeapAssumption DEF Init, myinit, Bumped, HeapType, ZeroMem
  <1>3. TypeOK
    BY <1>2 DEF Init, NoCall, NoBlock, TypeOK, Bumped
  <1>4. BlocksApart /\ BlocksSane
    BY <1>1, <1>2 DEF Init, BlocksApart, BlocksSane, Bumped, NoBlock, validate_heap, ALIGNMENT
  <1>5. \A id \in Ids : Words(live[id].size) = 0
    BY <1>1, WordsFacts DEF NoBlock
  <1>6. PayloadIntact
    BY <1>5 DEF Init, PayloadIntact
  <1>. QED BY <1>3, <1>4, <1>6 DEF IInv

LEMMA MallocIInv ==
    ASSUME IInv, NEW id \in Ids, NEW n \in Nat, Malloc(id, n) PROVE IInv'
  <1>1. heap \in HeapType /\ heap.nused \in Nat
    BY DEF IInv, TypeOK, HeapType
  <1>2. heap' = [heap EXCEPT !.nused = @ + needed(n)]
    BY DEF Malloc, bump
  <1>3. /\ heap' \in HeapType /\ heap'.nused = heap.nused + needed(n)
        /\ heap'.mem = heap.mem
    BY <1>1, <1>2, NeededFacts DEF HeapType
  <1>4. 0 .. (Words(0) - 1) = {}
    BY WordsFacts
  <1>5. Handed(id, n, 0)
    BY <1>3, <1>4 DEF Handed, Malloc, Return
  <1>. QED BY <1>5, HandedIInv DEF Malloc

LEMMA ReallocNullIInv ==
    ASSUME IInv, NEW id \in Ids, ReallocNull(id) PROVE IInv'
  <1>1. heap \in HeapType /\ heap.nused \in Nat /\ heap.nused <= HeapSize
    BY DEF IInv, TypeOK, HeapType, BlocksApart, validate_heap
  <1>2. needed(0) = 0
    BY NeededFacts, WordsFacts
  <1>3. heap' = [heap EXCEPT !.nused = @ + needed(0)]
    BY DEF ReallocNull, bump
  <1>4. /\ heap' \in HeapType /\ heap'.nused = heap.nused + needed(0)
        /\ heap'.mem = heap.mem
    BY <1>1, <1>3, NeededFacts DEF HeapType
  <1>5. 0 .. (Words(0) - 1) = {}
    BY WordsFacts
  <1>6. Handed(id, 0, 0)
    BY <1>4, <1>5 DEF Handed, ReallocNull, Return
  <1>7. Fits(0)
    BY <1>1, <1>2 DEF Fits
  <1>. QED BY <1>6, <1>7, HandedIInv DEF ReallocNull

LEMMA ReallocIInv ==
    ASSUME IInv, NEW id \in Ids, NEW n \in Nat, Realloc(id, n) PROVE IInv'
  <1>. DEFINE size == live[id].size
              src == live[id].ptr
              dst == top(heap)
              keep == Min({n, size})
              g == bump(heap, n)
  <1>1. PICK from \in Copyings(dst, src, n) : heap' = Copied(g, dst, src, n, from)
    BY DEF Realloc
  <1>2. /\ src # NULL /\ pc = "idle" /\ Fits(n)
        /\ live' = [live EXCEPT ![id] = [ptr |-> dst, size |-> n]]
        /\ call' = [id |-> id, keep |-> keep] /\ pc' = "fill"
    BY DEF Realloc, Return
  <1>3. /\ heap \in HeapType /\ heap.nused \in Nat /\ size \in Nat /\ src \in Int
        /\ heap.mem \in [Addr -> Int]
    BY AddrFacts DEF IInv, TypeOK, HeapType, NULL
  <1>4. /\ g \in HeapType /\ g.nused = heap.nused + needed(n)
        /\ g.mem = heap.mem
    BY <1>3, NeededFacts DEF bump, HeapType
  <1>5. Bumped(heap)
    BY DEF IInv, TypeOK, BlocksApart, validate_heap, Bumped, ALIGNMENT
  <1>6. /\ dst \in Int /\ Words(n) \in Nat /\ Words(size) \in Nat
        /\ SegStart <= src /\ src + Words(size) <= dst
    BY <1>2, <1>3, <1>5, TopFacts, WordsFacts DEF IInv, BlocksApart
  <1>7. dst + Words(n) <= SegEnd
    <2>1. heap.nused + needed(n) <= HeapSize
      BY <1>2, <1>3, NeededFacts DEF Fits
    <2>2. Bumped(g) /\ top(g) = dst + Words(n)
      BY <1>4, <1>5, <2>1, BumpFacts
    <2>. QED BY <2>2, TopFacts
  <1>8. keep \in Nat /\ keep <= n /\ keep <= size
    BY <1>3, MinFacts
  <1>. HIDE DEF size, src, dst, keep, g
  <1>9. /\ heap'.mem \in [Addr -> Int]
        /\ \A a \in Addr : a < dst => heap'.mem[a] = g.mem[a]
        /\ \A k \in 0 .. (Words(n) - 1) : k < Words(size) => heap'.mem[dst + k] = g.mem[src + k]
    <2>1. g.mem \in [Addr -> Int]
      BY <1>3, <1>4
    <2>2. CopyKept(g, Copied(g, dst, src, n, from), dst, src, n, size)
      BY <2>1, <1>1, <1>3, <1>6, <1>7, CopyKeeps
    <2>. QED BY <2>2, <1>1 DEF CopyKept
  <1>10. heap'.nused = g.nused /\ heap' \in HeapType
    BY <1>1, <1>4, <1>9 DEF Copied, HeapType
  <1>11. \A k \in 0 .. (Words(size) - 1) : heap.mem[src + k] = Fill[id]
    BY <1>2 DEF IInv, PayloadIntact, size, src
  <1>12. ASSUME NEW k \in 0 .. (Words(keep) - 1)
         PROVE  heap'.mem[dst + k] = Fill[id]
    <2>1. Words(keep) <= Words(n) /\ Words(keep) <= Words(size) /\ Words(keep) \in Nat
      BY <1>3, <1>8, WordsFacts
    <2>2. k \in 0 .. (Words(n) - 1) /\ k < Words(size) /\ k \in 0 .. (Words(size) - 1)
      BY <2>1, <1>6
    <2>. QED BY <2>2, <1>4, <1>9, <1>11
  <1>13. Handed(id, n, keep)
    BY <1>2, <1>4, <1>9, <1>10, <1>12 DEF Handed, dst
  <1>. QED BY <1>2, <1>8, <1>13, HandedIInv

LEMMA ReallocCrashIInv ==
    ASSUME IInv, NEW id \in Ids, NEW n \in Nat, ReallocCrash(id, n) PROVE IInv'
  <1>1. Bumped(heap)
    BY DEF IInv, TypeOK, BlocksApart, validate_heap, Bumped, ALIGNMENT
  <1>2. /\ heap' \in HeapType /\ heap'.mem = heap.mem
        /\ Bumped(heap') /\ top(heap') >= top(heap)
    <2>1. heap.nused \in Nat /\ heap \in HeapType /\ top(heap) \in Nat
      BY <1>1, TopFacts DEF Bumped, HeapType
    <2>2. CASE ~Fits(n)
      BY <1>1, <2>1, <2>2 DEF ReallocCrash
    <2>3. CASE Fits(n)
      <3>1. heap' = [heap EXCEPT !.nused = @ + needed(n)]
        BY <2>3 DEF ReallocCrash, bump
      <3>2. /\ heap' \in HeapType /\ heap'.mem = heap.mem
            /\ heap'.nused = heap.nused + needed(n)
        BY <3>1, <2>1, NeededFacts DEF HeapType
      <3>3. heap.nused + needed(n) <= HeapSize
        BY <2>1, <2>3, NeededFacts DEF Fits
      <3>4. Bumped(heap') /\ top(heap') = top(heap) + Words(n) /\ Words(n) \in Nat
        BY <1>1, <3>2, <3>3, BumpFacts, WordsFacts
      <3>. QED BY <2>1, <3>2, <3>4
    <2>. QED BY <2>2, <2>3
  <1>3. pc = "idle" /\ pc' = "crashed" /\ live' = live /\ call' = call
    BY DEF ReallocCrash
  <1>4. TypeOK'
    BY <1>2, <1>3 DEF IInv, TypeOK
  <1>5. BlocksApart'
    <2>1. (heap.nused % ALIGNMENT = 0 /\ validate_heap(heap))'
      BY <1>2 DEF Bumped, validate_heap, ALIGNMENT
    <2>2. ASSUME NEW j \in Ids, live[j].ptr # NULL
          PROVE  live[j].ptr + Words(live[j].size) <= top(heap)'
      <3>1. live[j].ptr + Words(live[j].size) <= top(heap)
        BY <2>2 DEF IInv, BlocksApart
      <3>2. live[j].ptr + Words(live[j].size) \in Int
        BY AddrFacts, WordsFacts DEF IInv, TypeOK, NULL
      <3>3. top(heap)' = top(heap') /\ top(heap) \in Int /\ top(heap') \in Int
        BY <1>1, <1>2, TopFacts DEF top
      <3>. QED BY <1>2, <3>1, <3>2, <3>3
    <2>. QED BY <1>3, <2>1, <2>2 DEF IInv, BlocksApart, Extent
  <1>6. PayloadIntact' /\ BlocksSane'
    BY <1>2, <1>3 DEF IInv, PayloadIntact, BlocksSane
  <1>. QED BY <1>4, <1>5, <1>6 DEF IInv

LEMMA FreeIInv ==
    ASSUME IInv, NEW id \in Ids, Free(id) PROVE IInv'
  <1>1. /\ live' \in [Ids -> [ptr : Ptr, size : Nat]]
        /\ live'[id] = NoBlock /\ \A j \in Ids \ {id} : live'[j] = live[j]
    BY DEF IInv, TypeOK, Free, NoBlock, Ptr
  <1>2. pc = "idle" /\ UNCHANGED <<heap, pc, call>>
    BY DEF Free
  <1>3. 0 .. (Words(0) - 1) = {}
    BY WordsFacts
  <1>4. Extent(NoBlock) = {}
    BY <1>3, WordsFacts DEF Extent, NoBlock, NULL
  <1>5. TypeOK'
    BY <1>1, <1>2 DEF IInv, TypeOK, Ptr
  <1>6. BlocksApart'
    <2>1. (heap.nused % ALIGNMENT = 0 /\ validate_heap(heap))'
      BY <1>2 DEF IInv, BlocksApart, validate_heap
    <2>2. ASSUME NEW j \in Ids, live'[j].ptr # NULL
          PROVE  /\ live'[j].ptr >= SegStart
                 /\ live'[j].ptr + Words(live'[j].size) <= top(heap)'
                 /\ \A j2 \in Ids \ {j} : Extent(live'[j]) \cap Extent(live'[j2]) = {}
      <3>1. j # id
        BY <1>1, <2>2 DEF NoBlock
      <3>2. /\ live[j].ptr # NULL /\ live'[j] = live[j] /\ top(heap)' = top(heap)
        BY <1>1, <1>2, <2>2, <3>1 DEF top
      <3>3. /\ live[j].ptr >= SegStart /\ live[j].ptr + Words(live[j].size) <= top(heap)
            /\ \A j2 \in Ids \ {j} : Extent(live[j]) \cap Extent(live[j2]) = {}
        BY <3>2 DEF IInv, BlocksApart
      <3>4. ASSUME NEW j2 \in Ids \ {j} PROVE Extent(live'[j]) \cap Extent(live'[j2]) = {}
        BY <1>1, <1>4, <3>2, <3>3
      <3>. QED BY <3>2, <3>3, <3>4
    <2>. QED BY <2>1, <2>2 DEF BlocksApart, Extent
  <1>7. PayloadIntact' /\ BlocksSane'
    BY <1>1, <1>2, <1>3 DEF IInv, PayloadIntact, BlocksSane, NoBlock
  <1>. QED BY <1>5, <1>6, <1>7 DEF IInv

LEMMA ClientFillIInv ==
    ASSUME IInv, ClientFill PROVE IInv'
  <1>. DEFINE id == call.id
              b == live[id]
              M == [a \in Addr |-> IF a \in b.ptr .. (b.ptr + Words(b.size) - 1)
                                   THEN Fill[id] ELSE heap.mem[a]]
  <1>1. /\ id \in Ids /\ pc = "fill" /\ pc' = "idle" /\ call' = NoCall /\ live' = live
        /\ heap' = [heap EXCEPT !.mem = M]
    BY DEF IInv, BlocksSane, ClientFill, memset
  <1>2. heap \in HeapType /\ heap.mem \in [Addr -> Int]
    BY DEF IInv, TypeOK, HeapType
  <1>3. M \in [Addr -> Int]
    BY <1>1, <1>2, HeapAssumption
  <1>4. heap'.mem = M /\ heap'.nused = heap.nused /\ heap' \in HeapType
    BY <1>1, <1>2, <1>3 DEF HeapType
  <1>5. top(heap)' = top(heap)
    BY <1>4 DEF top
  <1>6. TypeOK'
    BY <1>1, <1>4 DEF IInv, TypeOK, NoCall
  <1>7. BlocksApart' /\ BlocksSane'
    BY <1>1, <1>4, <1>5 DEF IInv, BlocksApart, BlocksSane, Extent, validate_heap
  <1>8. Bumped(heap)
    BY DEF IInv, TypeOK, BlocksApart, validate_heap, Bumped, ALIGNMENT
  <1>. HIDE DEF id, M
  <1>9. ASSUME NEW j \in Ids, NEW k \in 0 .. (Words(live[j].size) - 1)
        PROVE  M[live[j].ptr + k] = Fill[j]
    <2>1. /\ live[j].ptr \in Int /\ Words(live[j].size) \in Nat
          /\ live[j].ptr = NULL => Words(live[j].size) = 0
      BY AddrFacts, WordsFacts DEF IInv, TypeOK, BlocksSane, NULL
    <2>2. live[j].ptr # NULL
      BY <2>1
    <2>3. live[j].ptr >= SegStart /\ live[j].ptr + Words(live[j].size) <= top(heap)
      BY <2>2 DEF IInv, BlocksApart
    <2>4. top(heap) \in Int /\ top(heap) <= SegEnd
      BY <1>8, TopFacts
    <2>5. live[j].ptr + k \in Addr
      BY <2>1, <2>3, <2>4, AddrFacts
    <2>6. live[j].ptr + k \in Extent(live[j])
      BY <2>1 DEF Extent
    <2>7. M[live[j].ptr + k] = IF live[j].ptr + k \in Extent(b) THEN Fill[id]
                               ELSE heap.mem[live[j].ptr + k]
      BY <2>5 DEF M, Extent
    <2>8. CASE j = id
      BY <2>6, <2>7, <2>8
    <2>9. CASE j # id
      <3>1. Extent(live[j]) \cap Extent(b) = {}
        BY <1>1, <2>2, <2>9 DEF IInv, BlocksApart, Extent
      <3>2. heap.mem[live[j].ptr + k] = Fill[j]
        BY <1>1, <2>9 DEF IInv, PayloadIntact, id
      <3>. QED BY <2>6, <2>7, <3>1, <3>2
    <2>. QED BY <2>8, <2>9
  <1>10. PayloadIntact'
    BY <1>1, <1>4, <1>9 DEF PayloadIntact
  <1>. QED BY <1>6, <1>7, <1>10 DEF IInv

LEMMA RestartIInv ==
    ASSUME IInv, Restart PROVE IInv'
  <1>1. \A id \in Ids : live'[id] = NoBlock
    BY DEF Restart
  <1>2. heap' \in HeapType /\ heap'.nused = 0
    BY DEF IInv, TypeOK, Restart, myinit, HeapType, ZeroMem
  <1>3. 0 <= HeapSize /\ 0 % 8 = 0
    BY HeapAssumption
  <1>4. TypeOK'
    BY <1>2 DEF IInv, TypeOK, Restart, NoBlock
  <1>5. BlocksApart' /\ BlocksSane'
    BY <1>1, <1>2, <1>3 DEF BlocksApart, BlocksSane, Restart, NoBlock, validate_heap, ALIGNMENT
  <1>6. \A id \in Ids : Words(live'[id].size) = 0
    BY <1>1, WordsFacts DEF NoBlock
  <1>7. PayloadIntact'
    BY <1>6 DEF Restart, PayloadIntact
  <1>. QED BY <1>4, <1>5, <1>7 DEF IInv

LEMMA NextIInv == IInv /\ [Next]_vars => IInv'
  <1>. SUFFICES ASSUME IInv, [Next]_vars PROVE IInv'
    OBVIOUS
  <1>1. ASSUME NEW id \in Ids, NEW n \in Requests, Malloc(id, n) PROVE IInv'
    BY <1>1, MallocIInv, HeapAssumption
  <1>2. ASSUME UNCHANGED vars PROVE IInv'
    BY <1>2 DEF vars, IInv, TypeOK, BlocksApart, PayloadIntact, BlocksSane, top, Extent,
                validate_heap
  <1>3. ASSUME NEW id \in Ids, NEW n \in Requests, Realloc(id, n) PROVE IInv'
    BY <1>3, ReallocIInv, HeapAssumption
  <1>4. ASSUME NEW id \in Ids, NEW n \in Requests, ReallocCrash(id, n) PROVE IInv'
    BY <1>4, ReallocCrashIInv, HeapAssumption
  <1>. QED BY <1>1, <1>2, <1>3, <1>4, ReallocNullIInv, FreeIInv, ClientFillIInv, RestartIInv
           DEF Next, MallocFull

\* The inductive invariant holds in every reachable state.
THEOREM Invariance == Spec => []IInv
  BY InitIInv, NextIInv, PTL DEF Spec

\* The record and the table have their types, the blocks are apart and the
\* payload is kept (mymalloc and myrealloc of bump.c).
THEOREM HeapHolds == Spec => []HeapSound
  BY Invariance, PTL DEF IInv, HeapSound

\* Blocks lie in what has been handed out and are clear of each other
\* (mymalloc of bump.c).
THEOREM BlocksSound == Spec => []BlocksApart
  BY Invariance, PTL DEF IInv

\* No call loses a word of payload the client may rely on, however memcpy
\* treats the overlap (myrealloc of bump.c).
THEOREM PayloadKept == Spec => []PayloadIntact
  BY Invariance, PTL DEF IInv

-----------------------------------------------------------------------------
(* The heap as its client sees it.                                         *)

WordsOf(h, b) == [k \in 0 .. (Words(b.size) - 1) |-> h.mem[b.ptr + k]]
Data == [j \in Ids |-> WordsOf(heap, live[j])]

LEMMA BlockFacts ==
    ASSUME TypeOK, BlocksApart, BlocksSane, NEW j \in Ids
    PROVE  /\ live[j] \in [ptr : Ptr, size : Nat]
           /\ A!Words(live[j].size) = Words(live[j].size)
           /\ A!Span(live[j]) = 0 .. (Words(live[j].size) - 1)
           /\ A!Extent(live[j]) \subseteq Extent(live[j])
           /\ A!Extent(live[j]) \subseteq Addr
  <1>1. live[j] \in [ptr : Ptr, size : Nat] /\ live[j].size \in Nat /\ live[j].ptr \in Int
    BY AddrFacts DEF TypeOK, Ptr, NULL
  <1>2. A!Words(live[j].size) = Words(live[j].size) /\ Words(live[j].size) \in Nat
    BY <1>1, WordsFacts DEF A!Words, Words, roundup, HEADER_SIZE
  <1>3. A!Span(live[j]) = 0 .. (Words(live[j].size) - 1)
    BY <1>2 DEF A!Span
  <1>4. A!Extent(live[j]) = IF live[j].ptr = NULL THEN {} ELSE Extent(live[j])
    BY <1>2 DEF A!Extent, Extent, NULL
  <1>5. ASSUME NEW a \in A!Extent(live[j]) PROVE a \in Addr
    <2>1. /\ live[j].ptr # NULL /\ a \in Int
          /\ live[j].ptr <= a /\ a < live[j].ptr + Words(live[j].size)
      BY <1>1, <1>2, <1>4, <1>5 DEF Extent
    <2>2. live[j].ptr >= SegStart /\ live[j].ptr + Words(live[j].size) <= top(heap)
      BY <2>1 DEF BlocksApart
    <2>3. Bumped(heap)
      BY DEF TypeOK, BlocksApart, validate_heap, Bumped, ALIGNMENT
    <2>4. top(heap) \in Int /\ top(heap) <= SegEnd
      BY <2>3, TopFacts
    <2>. QED BY <1>1, <1>2, <2>1, <2>2, <2>4, AddrFacts
  <1>. QED BY <1>1, <1>2, <1>3, <1>4, <1>5

\* The client's blocks are inside the segment and apart.
LEMMA PlacedWell ==
    ASSUME TypeOK, BlocksApart, BlocksSane
    PROVE  A!WellPlaced(live)
  <1>. SUFFICES ASSUME NEW i \in Ids
                PROVE  /\ A!Extent(live[i]) \subseteq Addr
                       /\ \A j \in Ids \ {i} : A!Extent(live[i]) \cap A!Extent(live[j]) = {}
    BY DEF A!WellPlaced
  <1>1. A!Extent(live[i]) \subseteq Addr /\ A!Extent(live[i]) \subseteq Extent(live[i])
    BY BlockFacts
  <1>2. CASE live[i].ptr = NULL
    BY <1>1, <1>2 DEF A!Extent, NULL
  <1>3. ASSUME live[i].ptr # NULL, NEW j \in Ids \ {i}
        PROVE  A!Extent(live[i]) \cap A!Extent(live[j]) = {}
    <2>1. Extent(live[i]) \cap Extent(live[j]) = {}
      BY <1>3 DEF BlocksApart
    <2>2. A!Extent(live[j]) \subseteq Extent(live[j])
      BY BlockFacts
    <2>. QED BY <1>1, <2>1, <2>2
  <1>. QED BY <1>1, <1>2, <1>3

LEMMA PlacedWellNext == IInv' => A!WellPlaced(live')
  <1>1. (TypeOK /\ BlocksApart /\ BlocksSane => A!WellPlaced(live))'
    BY PlacedWell, PTL
  <1>. QED BY <1>1 DEF IInv

\* A step for id alone.
LEMMA OthersSame ==
    ASSUME IInv, IInv', NEW id \in Ids,
           pc # "fill" \/ call.id = id, pc' # "fill" \/ call'.id = id,
           \A j \in Ids \ {id} : live'[j] = live[j]
    PROVE  A!OnlyFor(id)
  <1>1. ASSUME NEW j \in Ids \ {id} PROVE Data'[j] = Data[j]
    <2>1. \A k \in 0 .. (Words(live[j].size) - 1) : heap.mem[live[j].ptr + k] = Fill[j]
      BY DEF IInv, PayloadIntact
    <2>2. \A k \in 0 .. (Words(live'[j].size) - 1) : heap'.mem[live'[j].ptr + k] = Fill[j]
      BY DEF IInv, PayloadIntact
    <2>. QED BY <2>1, <2>2 DEF Data, WordsOf
  <1>. QED BY <1>1 DEF A!OnlyFor, Data, WordsOf

\* A step that returns a block: a resize keeps the first words.
LEMMA ReturnRefines ==
    ASSUME IInv, IInv', pc = "idle", NEW id \in Ids, NEW n \in Nat, NEW keep,
           Return(id, top(heap), n, keep),
           live[id].ptr # NULL => keep = Min({n, live[id].size})
    PROVE  A!Next
  <1>1. live \in [Ids -> [ptr : Ptr, size : Nat]]
    BY DEF IInv, TypeOK, Ptr
  <1>2. top(heap) # NULL
    BY TopFacts DEF IInv, TypeOK, BlocksApart, validate_heap, Bumped, ALIGNMENT
  <1>3. /\ pc' = "fill" /\ call'.id = id /\ call'.keep = keep
        /\ live'[id].ptr = top(heap) /\ live'[id].size = n
        /\ \A j \in Ids \ {id} : live'[j] = live[j]
    BY <1>1 DEF Return
  <1>4. A!OnlyFor(id)
    BY <1>3, OthersSame
  <1>5. A!WellPlaced(live')
    BY PlacedWellNext
  <1>6. CASE live[id].ptr = NULL
    BY <1>2, <1>3, <1>4, <1>5, <1>6 DEF A!Next, A!Allocate, NULL
  <1>7. CASE live[id].ptr # NULL
    <2>. DEFINE old == live[id].size
    <2>1. old \in Nat
      BY <1>1
    <2>2. keep \in Nat /\ (keep = n \/ keep = old)
      BY <1>7, <2>1, MinFacts
    <2>3. A!Span(live[id]) = 0 .. (Words(old) - 1) /\ A!Span(live'[id]) = 0 .. (Words(n) - 1)
      BY <1>3, <2>1 DEF A!Span, A!Words, Words, roundup, HEADER_SIZE
    <2>4. ASSUME NEW k \in A!Span(live[id]) \cap A!Span(live'[id])
          PROVE  Data'[id][k] = Data[id][k]
      <3>1. k \in 0 .. (Words(old) - 1) /\ k \in 0 .. (Words(n) - 1)
        BY <2>3, <2>4
      <3>2. k \in 0 .. (Words(keep) - 1)
        BY <2>2, <3>1
      <3>3. heap'.mem[live'[id].ptr + k] = Fill[id]
        BY <1>3, <3>2 DEF IInv, PayloadIntact
      <3>4. heap.mem[live[id].ptr + k] = Fill[id]
        BY <3>1 DEF IInv, PayloadIntact
      <3>. QED BY <1>3, <3>1, <3>3, <3>4 DEF Data, WordsOf
    <2>5. A!Resize(id)
      BY <1>2, <1>3, <1>4, <1>5, <1>7, <2>4 DEF A!Resize, Data, WordsOf, NULL
    <2>. QED BY <2>5 DEF A!Next
  <1>. QED BY <1>6, <1>7

LEMMA NextRefines ==
    ASSUME IInv, IInv', [Next]_vars
    PROVE  [A!Next]_(A!bvars)
  <1>. USE DEF A!bvars
  <1>1. live \in [Ids -> [ptr : Ptr, size : Nat]]
    BY DEF IInv, TypeOK, Ptr
  <1>2. ASSUME UNCHANGED <<heap, live>> PROVE UNCHANGED A!bvars
    BY <1>2
  <1>3. ASSUME NEW id \in Ids, NEW n \in Requests, Malloc(id, n) \/ Realloc(id, n)
        PROVE  A!Next
    <2>1. n \in Nat
      BY HeapAssumption
    <2>2. CASE Malloc(id, n)
      BY <2>1, <2>2, ReturnRefines DEF Malloc
    <2>3. CASE Realloc(id, n)
      BY <2>1, <2>3, ReturnRefines DEF Realloc
    <2>. QED BY <1>3, <2>2, <2>3
  <1>4. ASSUME NEW id \in Ids, ReallocNull(id) PROVE A!Next
    BY <1>4, ReturnRefines DEF ReallocNull
  <1>5. ASSUME NEW id \in Ids, NEW n \in Requests, ReallocCrash(id, n)
        PROVE  UNCHANGED A!bvars
    <2>1. heap'.mem = heap.mem /\ live' = live
      BY <1>5 DEF ReallocCrash, bump
    <2>. QED BY <2>1
  <1>6. ASSUME NEW id \in Ids, Free(id) PROVE A!Next \/ UNCHANGED A!bvars
    <2>1. /\ live'[id] = NoBlock /\ pc = "idle" /\ pc' = "idle" /\ heap' = heap
          /\ live' = [live EXCEPT ![id] = NoBlock]
          /\ \A j \in Ids \ {id} : live'[j] = live[j]
      BY <1>1, <1>6 DEF Free
    <2>2. CASE live[id].ptr = NULL
      <3>1. live[id] = NoBlock
        BY <1>1, <2>2 DEF IInv, BlocksSane, NoBlock
      <3>2. live' = live
        BY <1>1, <2>1, <3>1
      <3>. QED BY <1>2, <2>1, <3>2
    <2>3. CASE live[id].ptr # NULL
      <3>1. A!OnlyFor(id)
        BY <2>1, OthersSame
      <3>2. A!Release(id)
        BY <2>1, <2>3, <3>1 DEF A!Release, A!NoBlock, NoBlock, NULL
      <3>. QED BY <3>2 DEF A!Next
    <2>. QED BY <2>2, <2>3
  <1>7. ASSUME ClientFill PROVE A!Next
    <2>1. /\ pc = "fill" /\ pc' = "idle" /\ live' = live
          /\ call.id \in Ids /\ live[call.id].ptr # NULL
      BY <1>7 DEF ClientFill, IInv, BlocksSane
    <2>2. PICK id \in Ids : id = call.id
      BY <2>1
    <2>3. A!OnlyFor(id)
      BY <2>1, <2>2, OthersSame
    <2>4. Data'[id] = [k \in 0 .. (Words(live[id].size) - 1) |-> Fill[id]]
      <3>1. \A k \in 0 .. (Words(live'[id].size) - 1) : heap'.mem[live'[id].ptr + k] = Fill[id]
        BY <2>1, <2>2 DEF IInv, PayloadIntact
      <3>. QED BY <2>1, <2>2, <3>1 DEF Data, WordsOf
    <2>5. A!Span(live[id]) = 0 .. (Words(live[id].size) - 1)
      BY BlockFacts DEF IInv
    <2>6. A!Write(id)
      BY <2>1, <2>2, <2>3, <2>4, <2>5 DEF A!Write, Data, WordsOf, NULL
    <2>. QED BY <2>6 DEF A!Next
  <1>8. ASSUME Restart PROVE A!Next
    BY <1>8 DEF Restart, A!Next, A!Reset, A!NoBlock, NoBlock, NULL
  <1>9. ASSUME UNCHANGED vars PROVE UNCHANGED A!bvars
    BY <1>2, <1>9 DEF vars
  <1>. HIDE DEF A!bvars
  <1>. QED BY <1>3, <1>4, <1>5, <1>6, <1>7, <1>8, <1>9 DEF Next, MallocFull

\* Seen through the client's pointers and the words behind them, the bump heap
\* is an Allocator, with myrealloc's overlapping copy and all.
THEOREM Refinement == Spec => ImplementsAllocator
  <1>1. Init => A!Init
    <2>. SUFFICES ASSUME Init PROVE A!Init
      OBVIOUS
    <2>1. live = [j \in Ids |-> A!NoBlock]
      BY DEF Init, NoBlock, A!NoBlock, NULL
    <2>2. \A j \in Ids : live[j].size = 0 /\ Words(live[j].size) = 0
      BY WordsFacts DEF Init, NoBlock
    <2>3. 0 .. (0 - 1) = {}
      OBVIOUS
    <2>4. Data = [j \in Ids |-> [k \in {} |-> 0]]
      BY <2>2, <2>3 DEF Data, WordsOf
    <2>. QED BY <2>1, <2>4 DEF A!Init, Data, WordsOf
  <1>2. IInv /\ IInv' /\ [Next]_vars => [A!Next]_(A!bvars)
    BY NextRefines
  <1>3. IInv /\ [Next]_vars => IInv'
    BY NextIInv
  <1>. QED BY <1>1, <1>2, <1>3, InitIInv, PTL DEF Spec, ImplementsAllocator, A!Spec
=============================================================================
