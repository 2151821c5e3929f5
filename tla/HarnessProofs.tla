---------------------------- MODULE HarnessProofs ----------------------------
(***************************************************************************)
(* Proofs about Harness, for every segment, every set of ids and sizes and *)
(* whatever the allocator answers and spoils; and about the Segment that   *)
(* its scripts run in.                                                     *)
(***************************************************************************)
EXTENDS Harness, Segment, FiniteSetTheorems, TLAPS

Ptr == Addr \cup {NULL, End}
Value == {Fill[i] : i \in Ids} \cup {0, Junk}

\* An id without a block has no bytes.
NullIsEmpty == \A i \in Ids : blocks[i].ptr = NULL => blocks[i].size = 0

\* A block that has been written to shows it for as long as it is recorded.
SpoiledIsBad == \A i \in spoiled : \E a \in Bytes(blocks[i]) : mem[a] # Fill[i]

\* cur_size counts every byte held, and those of blocks that a script which
\* allocates an id twice has lost.
Counted ==
    /\ Held \subseteq Start .. (heap_end - 1)
    /\ Cardinality(Held) <= cur_size
    /\ ~twice => cur_size = Cardinality(Held) /\ peak_size <= heap_end - Start

IInv == TypeOK /\ BlocksApart /\ NullIsEmpty /\ SpoiledIsBad /\ Counted /\ SpoilingIsFound

-----------------------------------------------------------------------------
(* Facts about the segment and the checks.                                 *)

LEMMA SegmentFacts ==
    /\ Start \in Nat /\ Start > 0 /\ End \in Nat /\ End > Start
    /\ Addr \subseteq Nat /\ NULL \notin Addr /\ NULL \in Nat
    /\ Ptr \subseteq Nat
    /\ IsFiniteSet(Addr)
  <1>1. Start \in Nat /\ Start > 0 /\ End \in Nat /\ End > Start
    BY HarnessAssumption
  <1>2. IsFiniteSet(Addr)
    BY <1>1, FS_Interval DEF Addr
  <1>. QED BY <1>1, <1>2 DEF Addr, NULL, Ptr

LEMMA MaxOfTwo ==
    ASSUME NEW a \in Int, NEW b \in Int
    PROVE  /\ Max({a, b}) \in {a, b}
           /\ Max({a, b}) >= a /\ Max({a, b}) >= b
  <1>1. \E x \in {a, b} : \A y \in {a, b} : x >= y
    <2>1. CASE a >= b
      BY <2>1
    <2>2. CASE b >= a
      BY <2>2
    <2>. QED BY <2>1, <2>2
  <1>. QED BY <1>1 DEF Max

\* A block that is not seen to overlap another shares no byte with it.
LEMMA NoOverlap ==
    ASSUME NEW p \in Nat, NEW n \in Nat, NEW b \in [ptr : Nat, size : Nat],
           b.size # 0, ~Overlaps(p, p + n, b)
    PROVE  Bytes(b) \cap (p .. (p + n - 1)) = {}
  <1>1. b.ptr \in Nat /\ b.size \in Nat
    OBVIOUS
  <1>2. /\ ~(p >= b.ptr /\ p < b.ptr + b.size)
        /\ ~(p + n > b.ptr /\ p + n < b.ptr + b.size)
        /\ ~(p < b.ptr /\ p + n >= b.ptr + b.size)
    BY DEF Overlaps
  <1>. DEFINE q == b.ptr
              k == b.size
  <1>3. \A a \in Int : ~(q <= a /\ a <= q + k - 1 /\ p <= a /\ a <= p + n - 1)
    <2>1. q \in Nat /\ k \in Nat /\ k # 0
      BY <1>1
    <2>2. /\ ~(p >= q /\ p < q + k)
          /\ ~(p + n > q /\ p + n < q + k)
          /\ ~(p < q /\ p + n >= q + k)
      BY <1>2
    <2>. HIDE DEF q, k
    <2>. QED BY <2>1, <2>2
  <1>. QED BY <1>1, <1>3 DEF Bytes

\* What is asked of a block before it is recorded for id.
Good(id, p, n) ==
    /\ p \in Ptr /\ n \in Nat
    /\ p # NULL => p % ALIGNMENT = 0
    /\ p = NULL => n = 0
    /\ p # NULL => p >= Start /\ p + n <= End
    /\ \A i \in Ids \ {id} : Bytes(blocks[i]) \cap (p .. (p + n - 1)) = {}

\* The checks ensure it, also when the block of id itself counts as empty.
LEMMA VerifiedIsGood ==
    ASSUME TypeOK, NullIsEmpty, NEW id \in Ids, NEW p \in Answers, NEW n \in Nat,
           NEW bl, \A i \in Ids \ {id} : bl[i] = blocks[i],
           ~(p = NULL /\ n # 0), verify_block(p, n, bl)
    PROVE  Good(id, p, n)
  <1>1. CASE p = NULL
    <2>1. n = 0 /\ p \in Ptr
      BY <1>1 DEF Ptr
    <2>2. p .. (p + n - 1) = {}
      BY <2>1, <1>1 DEF NULL
    <2>. QED BY <1>1, <2>1, <2>2 DEF Good
  <1>2. CASE p # NULL
    <2>1. /\ p % ALIGNMENT = 0 /\ p >= Start /\ p + n <= End
          /\ \A i \in Ids : \/ bl[i].ptr = NULL \/ bl[i].size = 0
                            \/ ~Overlaps(p, p + n, bl[i])
      BY <1>2 DEF verify_block
    <2>2. p \in Int
      BY SegmentFacts DEF Answers, NULL
    <2>3. p \in Ptr /\ p \in Nat
      BY <2>1, <2>2, SegmentFacts DEF Ptr, Addr
    <2>4. ASSUME NEW i \in Ids \ {id}
          PROVE  Bytes(blocks[i]) \cap (p .. (p + n - 1)) = {}
      <3>1. blocks[i] \in [ptr : Nat, size : Nat]
        BY SegmentFacts DEF TypeOK, Ptr
      <3>2. CASE blocks[i].size = 0
        BY <3>1, <3>2 DEF Bytes
      <3>3. CASE blocks[i].size # 0
        <4>1. blocks[i].ptr # NULL
          BY <3>3 DEF NullIsEmpty
        <4>2. ~Overlaps(p, p + n, blocks[i])
          BY <2>1, <3>3, <4>1
        <4>. QED BY <3>1, <3>3, <4>2, <2>3, NoOverlap
      <3>. QED BY <3>2, <3>3
    <2>. QED BY <1>2, <2>1, <2>3, <2>4 DEF Good
  <1>. QED BY <1>1, <1>2

-----------------------------------------------------------------------------
(* The table.                                                              *)

Span(p, n) == p .. (p + n - 1)

LEMMA AllApart ==
    ASSUME TypeOK, BlocksApart, NullIsEmpty
    PROVE  /\ \A i \in Ids : Bytes(blocks[i]) \subseteq Addr
           /\ \A i, j \in Ids : i # j => Bytes(blocks[i]) \cap Bytes(blocks[j]) = {}
           /\ \A i \in Ids : blocks[i].size = 0 => Bytes(blocks[i]) = {}
  <1>1. ASSUME NEW i \in Ids
        PROVE  blocks[i].ptr \in Nat /\ blocks[i].size \in Nat
    BY SegmentFacts DEF TypeOK, Ptr
  <1>2. ASSUME NEW i \in Ids, blocks[i].size = 0
        PROVE  Bytes(blocks[i]) = {}
    BY <1>1, <1>2 DEF Bytes
  <1>3. ASSUME NEW i \in Ids
        PROVE  Bytes(blocks[i]) \subseteq Addr
    BY <1>2 DEF BlocksApart, NullIsEmpty
  <1>4. ASSUME NEW i \in Ids, NEW j \in Ids, i # j
        PROVE  Bytes(blocks[i]) \cap Bytes(blocks[j]) = {}
    BY <1>2, <1>4 DEF BlocksApart, NullIsEmpty
  <1>. QED BY <1>2, <1>3, <1>4

\* A good block is recorded.
Recorded(id, p, n) == blocks' = [blocks EXCEPT ![id] = [ptr |-> p, size |-> n]]

LEMMA Replace ==
    ASSUME TypeOK, BlocksApart, NullIsEmpty,
           NEW id \in Ids, NEW p, NEW n, Good(id, p, n), Recorded(id, p, n)
    PROVE  /\ blocks' \in [Ids -> [ptr : Ptr, size : Nat]]
           /\ blocks'[id].ptr = p /\ blocks'[id].size = n
           /\ Bytes(blocks'[id]) = Span(p, n) /\ Span(p, n) \subseteq Addr
           /\ \A i \in Ids \ {id} : blocks'[i] = blocks[i]
           /\ BlocksApart' /\ NullIsEmpty'
  <1>1. /\ p \in Ptr /\ p \in Nat /\ n \in Nat
        /\ blocks \in [Ids -> [ptr : Ptr, size : Nat]]
    BY SegmentFacts DEF Good, TypeOK, Ptr
  <1>2. /\ blocks' \in [Ids -> [ptr : Ptr, size : Nat]]
        /\ blocks'[id] = [ptr |-> p, size |-> n]
        /\ \A i \in Ids \ {id} : blocks'[i] = blocks[i]
    BY <1>1 DEF Recorded
  <1>3. Bytes(blocks'[id]) = Span(p, n)
    BY <1>2 DEF Bytes, Span
  <1>4. Span(p, n) \subseteq Addr
    <2>1. CASE p = NULL
      BY <2>1 DEF Good, Span, NULL
    <2>2. CASE p # NULL
      BY <2>2, <1>1, SegmentFacts DEF Good, Span, Addr
    <2>. QED BY <2>1, <2>2
  <1>5. NullIsEmpty'
    BY <1>2 DEF NullIsEmpty, Good
  <1>6. \A i \in Ids \ {id} : Bytes(blocks[i]) \cap Span(p, n) = {}
    BY DEF Good, Span
  <1>7. ASSUME NEW i \in Ids, blocks'[i].ptr # NULL
        PROVE  /\ blocks'[i].ptr % ALIGNMENT = 0
               /\ Bytes(blocks'[i]) \subseteq Addr
               /\ \A j \in Ids \ {i} : Bytes(blocks'[i]) \cap Bytes(blocks'[j]) = {}
    <2>1. CASE i = id
      <3>1. blocks'[i].ptr % ALIGNMENT = 0
        BY <2>1, <1>2, <1>7 DEF Good
      <3>. QED BY <2>1, <3>1, <1>2, <1>3, <1>4, <1>6
    <2>2. CASE i # id
      <3>1. blocks'[i] = blocks[i]
        BY <2>2, <1>2
      <3>2. \A j \in Ids \ {i} : Bytes(blocks[i]) \cap Bytes(blocks'[j]) = {}
        BY <2>2, <1>2, <1>3, <1>6, AllApart
      <3>. QED BY <3>1, <3>2, <1>7 DEF BlocksApart
    <2>. QED BY <2>1, <2>2
  <1>8. BlocksApart'
    BY <1>7 DEF BlocksApart, Bytes, Addr
  <1>. QED BY <1>2, <1>3, <1>4, <1>5, <1>8

LEMMA HeldFacts ==
    ASSUME TypeOK, BlocksApart, NullIsEmpty
    PROVE  /\ Held \subseteq Addr /\ IsFiniteSet(Held) /\ Cardinality(Held) \in Nat
           /\ \A i \in Ids : /\ Bytes(blocks[i]) \subseteq Held
                             /\ Cardinality(Bytes(blocks[i])) = blocks[i].size
                             /\ blocks[i].size <= Cardinality(Held)
  <1>1. Held \subseteq Addr
    BY AllApart DEF Held
  <1>2. IsFiniteSet(Held) /\ Cardinality(Held) \in Nat
    BY <1>1, SegmentFacts, FS_Subset, FS_CardinalityType
  <1>3. ASSUME NEW i \in Ids
        PROVE  /\ Bytes(blocks[i]) \subseteq Held
               /\ Cardinality(Bytes(blocks[i])) = blocks[i].size
    <2>1. blocks[i].ptr \in Nat /\ blocks[i].size \in Nat
      BY SegmentFacts DEF TypeOK, Ptr
    <2>2. Cardinality(Bytes(blocks[i])) = blocks[i].size
      <3>. DEFINE a == blocks[i].ptr
                  b == blocks[i].ptr + blocks[i].size - 1
      <3>1. a \in Int /\ b \in Int
        BY <2>1
      <3>2. Cardinality(a .. b) = IF a > b THEN 0 ELSE b - a + 1
        <4>. HIDE DEF a, b
        <4>. QED BY <3>1, FS_Interval
      <3>. QED BY <2>1, <3>2 DEF Bytes
    <2>. QED BY <2>2 DEF Held
  <1>. QED BY <1>1, <1>2, <1>3, FS_Subset

\* What is held after a block of id has been replaced.
LEMMA HeldChange ==
    ASSUME TypeOK, BlocksApart, NullIsEmpty,
           NEW id \in Ids, NEW p, NEW n, Good(id, p, n), Recorded(id, p, n)
    PROVE  /\ Held' = (Held \ Bytes(blocks[id])) \cup Span(p, n)
           /\ Cardinality(Held') = Cardinality(Held) - blocks[id].size + n
  <1>. DEFINE Rest == Held \ Bytes(blocks[id])
  <1>1. Rest = UNION {Bytes(blocks[i]) : i \in Ids \ {id}}
    BY AllApart DEF Held
  <1>2. Held' = UNION {Bytes(blocks'[i]) : i \in Ids}
    BY DEF Held, Bytes
  <1>3. Held' = Rest \cup Span(p, n)
    BY <1>1, <1>2, Replace
  <1>4. Rest \cap Span(p, n) = {}
    BY <1>1 DEF Good, Span
  <1>5. IsFiniteSet(Rest) /\ Cardinality(Rest) = Cardinality(Held) - blocks[id].size
    <2>1. Held \cap Bytes(blocks[id]) = Bytes(blocks[id])
      BY HeldFacts
    <2>2. /\ IsFiniteSet(Rest)
          /\ Cardinality(Rest) = Cardinality(Held) - Cardinality(Held \cap Bytes(blocks[id]))
      <3>1. IsFiniteSet(Held)
        BY HeldFacts
      <3>. QED BY <3>1, FS_Difference
    <2>3. Cardinality(Bytes(blocks[id])) = blocks[id].size
      BY HeldFacts
    <2>. QED BY <2>1, <2>2, <2>3
  <1>6. IsFiniteSet(Span(p, n)) /\ Cardinality(Span(p, n)) = n
    <2>1. p \in Nat /\ n \in Nat
      BY SegmentFacts DEF Good
    <2>. DEFINE b == p + n - 1
    <2>2. IsFiniteSet(p .. b) /\ Cardinality(p .. b) = IF p > b THEN 0 ELSE b - p + 1
      BY <2>1, FS_Interval
    <2>. QED BY <2>1, <2>2 DEF Span
  <1>7. Cardinality(Rest \cup Span(p, n))
            = Cardinality(Rest) + Cardinality(Span(p, n)) - Cardinality(Rest \cap Span(p, n))
    BY <1>5, <1>6, FS_Union
  <1>8. Cardinality(Rest \cap Span(p, n)) = 0 /\ Cardinality(Held) \in Nat /\ n \in Nat
        /\ blocks[id].size \in Nat
    BY <1>4, FS_EmptySet, HeldFacts DEF Good, TypeOK
  <1>. QED BY <1>3, <1>5, <1>6, <1>7, <1>8

-----------------------------------------------------------------------------
(* The totals.                                                             *)

LEMMA EndGrows ==
    ASSUME TypeOK, NEW id \in Ids, NEW p, NEW n, Good(id, p, n)
    PROVE  LET e == Max({heap_end, p + n})
           IN  e \in Start .. End /\ e >= heap_end /\ e >= p + n
  <1>1. /\ heap_end \in Start .. End /\ p \in Nat /\ n \in Nat
        /\ Start \in Nat /\ End \in Nat
        /\ p + n = 0 \/ (p + n \in Start .. End)
    <2>1. heap_end \in Start .. End /\ p \in Nat /\ n \in Nat
      BY SegmentFacts DEF TypeOK, Good
    <2>2. CASE p = NULL
      BY <2>1, <2>2, SegmentFacts DEF Good, NULL
    <2>3. CASE p # NULL
      BY <2>1, <2>3, SegmentFacts DEF Good
    <2>. QED BY <2>1, <2>2, <2>3, SegmentFacts
  <1>2. heap_end \in Int /\ p + n \in Int
    BY <1>1
  <1>. DEFINE q == p + n
              e == Max({heap_end, q})
  <1>3. e \in {heap_end, q} /\ e >= heap_end /\ e >= q
    BY <1>2, MaxOfTwo
  <1>4. q \in Int /\ (q = 0 \/ q \in Start .. End)
    BY <1>1
  <1>. HIDE DEF q, e
  <1>5. e \in Start .. End
    BY <1>1, <1>3, <1>4
  <1>. QED BY <1>3, <1>5 DEF e, q

\* heap_end after a request is neither below the block nor below what it was.
EndReaches(p, n, e) ==
    heap_end' = e /\ e \in Start .. End /\ e >= heap_end /\ e >= p + n

LEMMA HeldBelow ==
    ASSUME TypeOK, BlocksApart, NullIsEmpty, Counted,
           NEW id \in Ids, NEW p, NEW n, Good(id, p, n), Recorded(id, p, n),
           NEW e, EndReaches(p, n, e)
    PROVE  /\ Held' \subseteq Start .. (e - 1)
           /\ Cardinality(Held') <= e - Start
  <1>1. Start \in Nat /\ heap_end \in Int /\ e \in Int /\ p \in Nat /\ n \in Nat
        /\ e >= Start /\ e >= heap_end /\ e >= p + n
    BY SegmentFacts DEF TypeOK, Good, EndReaches
  <1>2. Held \subseteq Start .. (e - 1)
    <2>1. \A a \in Start .. (heap_end - 1) : a \in Start .. (e - 1)
      BY <1>1
    <2>. QED BY <2>1 DEF Counted
  <1>3. Span(p, n) \subseteq Start .. (e - 1)
    <2>1. \A a \in Span(p, n) : a \in Int /\ a >= Start
      <3>1. \A a \in Addr : a \in Int /\ a >= Start
        BY SegmentFacts DEF Addr
      <3>. QED BY <3>1, Replace
    <2>2. \A a \in Span(p, n) : a <= p + n - 1
      BY <1>1 DEF Span
    <2>3. \A a \in Int : a >= Start /\ a <= p + n - 1 => a \in Start .. (e - 1)
      BY <1>1
    <2>. QED BY <2>1, <2>2, <2>3
  <1>4. Held' \subseteq Start .. (e - 1)
    BY <1>2, <1>3, HeldChange
  <1>. DEFINE l == e - 1
  <1>5. l \in Int /\ IsFiniteSet(Start .. l)
        /\ Cardinality(Start .. l) = IF Start > l THEN 0 ELSE l - Start + 1
    <2>1. l \in Int /\ Start \in Int
      BY <1>1
    <2>. HIDE DEF l
    <2>. QED BY <2>1, FS_Interval
  <1>6. Cardinality(Start .. l) = e - Start
    <2>. DEFINE k == Cardinality(Start .. l)
    <2>1. k = IF Start > l THEN 0 ELSE l - Start + 1
      BY <1>5
    <2>. HIDE DEF k
    <2>2. k = e - Start
      BY <1>1, <2>1
    <2>. QED BY <2>2 DEF k
  <1>7. Cardinality(Held') <= Cardinality(Start .. l)
    BY <1>4, <1>5, FS_Subset
  <1>. QED BY <1>4, <1>6, <1>7

\* What a request adds to the totals.
Added(id, n) ==
    /\ cur_size' \in Int
    /\ cur_size' >= (cur_size - blocks[id].size) + n
    /\ ~twice' => ~twice /\ cur_size' = (cur_size - blocks[id].size) + n

LEMMA CountStep ==
    ASSUME TypeOK, BlocksApart, NullIsEmpty, Counted,
           NEW id \in Ids, NEW p, NEW n, Good(id, p, n), Recorded(id, p, n),
           NEW e, EndReaches(p, n, e),
           Added(id, n), Validated
    PROVE  /\ Counted' /\ cur_size' \in Nat /\ peak_size' \in Nat
           /\ pc' \in {"running", "failed"}
  <1>. DEFINE c == Cardinality(Held)
              d == Cardinality(Held')
              old == blocks[id].size
              room == e - Start
              grown == heap_end - Start
  <1>1. c \in Nat /\ old \in Nat /\ n \in Nat /\ cur_size \in Nat /\ peak_size \in Nat
        /\ room \in Int /\ grown \in Int /\ grown <= room
    <2>1. c \in Nat
      BY HeldFacts
    <2>2. old \in Nat /\ cur_size \in Nat /\ peak_size \in Nat /\ n \in Nat
      BY DEF TypeOK, Good
    <2>3. heap_end \in Int /\ e \in Int /\ Start \in Int /\ heap_end <= e
      BY SegmentFacts DEF TypeOK, EndReaches
    <2>4. room \in Int /\ grown \in Int /\ grown <= room
      BY <2>3
    <2>. QED BY <2>1, <2>2, <2>4
  <1>2. d = (c - old) + n /\ old <= c /\ c <= cur_size /\ d <= room
        /\ Held' \subseteq Start .. (e - 1)
    <2>1. d = c - old + n
      BY HeldChange
    <2>2. old <= c
      BY HeldFacts
    <2>3. d <= room /\ Held' \subseteq Start .. (e - 1)
      BY HeldBelow
    <2>4. c <= cur_size
      BY DEF Counted
    <2>. QED BY <2>1, <2>2, <2>3, <2>4, <1>1
  <1>3. /\ cur_size' \in Int /\ cur_size' >= (cur_size - old) + n
        /\ ~twice' => ~twice /\ cur_size' = (cur_size - old) + n
    BY DEF Added
  <1>4. ~twice => cur_size = c /\ peak_size <= grown
    BY DEF Counted
  <1>5. pc' \in {"running", "failed"} /\ peak_size' \in {peak_size, cur_size'}
    <2>1. CASE peak_size' = Max({peak_size, cur_size'}) /\ pc' = "running"
      <3>1. peak_size \in Int /\ cur_size' \in Int
        BY <1>1, <1>3
      <3>2. Max({peak_size, cur_size'}) \in {peak_size, cur_size'}
        BY <3>1, MaxOfTwo
      <3>. QED BY <2>1, <3>2
    <2>2. CASE peak_size' = peak_size /\ pc' = "failed"
      BY <2>2
    <2>. QED BY <2>1, <2>2 DEF Validated
  <1>. HIDE DEF c, d, old, room, grown
  <1>6. cur_size' \in Nat /\ d <= cur_size'
    BY <1>1, <1>2, <1>3
  <1>7. peak_size' \in Nat
    BY <1>1, <1>5, <1>6
  <1>8. ASSUME ~twice'
        PROVE  cur_size' = d /\ peak_size' <= room
    <2>1. cur_size' = d
      BY <1>1, <1>2, <1>3, <1>4, <1>8
    <2>. QED BY <2>1, <1>1, <1>2, <1>3, <1>4, <1>5, <1>6, <1>8
  <1>9. Counted'
    BY <1>2, <1>6, <1>8 DEF Counted, d, room, EndReaches
  <1>. QED BY <1>5, <1>6, <1>7, <1>9

-----------------------------------------------------------------------------
(* Memory.                                                                 *)

\* Outside of the block at p only Junk is new.
OnlySpoilt(m, p, n) ==
    /\ m \in [Addr -> Value]
    /\ \A a \in Addr \ Span(p, n) : m[a] = mem[a] \/ m[a] = Junk

LEMMA SpoiltMemory ==
    ASSUME NEW moved \in [Addr -> Value], NEW p, NEW n,
           \A a \in Addr \ Span(p, n) : moved[a] = mem[a],
           NEW m \in Spoilt(moved)
    PROVE  OnlySpoilt(m, p, n)
  <1>1. CASE m = moved
    BY <1>1 DEF OnlySpoilt
  <1>2. CASE \E a \in Addr : m = [moved EXCEPT ![a] = Junk]
    BY <1>2 DEF OnlySpoilt, Value
  <1>. QED BY <1>1, <1>2 DEF Spoilt

LEMMA MovedMemory ==
    ASSUME TypeOK, NEW b, b.size \in Nat, NEW p \in Nat, NEW n \in Nat, NEW moved \in Moved(b, p, n)
    PROVE  /\ moved \in [Addr -> Value]
           /\ \A a \in Addr \ Span(p, n) : moved[a] = mem[a]
  <1>. DEFINE k == Min({n, b.size})
              l == b.size
  <1>1. k \in Nat /\ k <= n
    <2>1. \E x \in {n, l} : \A y \in {n, l} : x <= y
      <3>1. CASE n <= l
        BY <3>1
      <3>2. CASE l <= n
        BY <3>2
      <3>. QED BY <3>1, <3>2
    <2>2. k \in {n, l} /\ \A y \in {n, l} : k <= y
      BY <2>1 DEF Min
    <2>. QED BY <2>2
  <1>2. p .. (p + k - 1) \subseteq Span(p, n)
    BY <1>1 DEF Span
  <1>3. mem \in [Addr -> Value]
    BY DEF TypeOK, Value
  <1>4. CASE moved = mem
    BY <1>3, <1>4
  <1>5. CASE moved = [a \in Addr |-> IF a \in p .. (p + k - 1) /\ b.ptr + (a - p) \in Addr
                                     THEN mem[b.ptr + (a - p)] ELSE mem[a]]
    <2>. HIDE DEF k
    <2>. QED BY <1>2, <1>3, <1>5
  <1>. QED BY <1>4, <1>5 DEF Moved

\* Blocks that have been written to go on showing it; those newly hit do, too.
LEMMA SpoilStep ==
    ASSUME IInv, NEW id \in Ids, NEW p, NEW n, Good(id, p, n), Recorded(id, p, n),
           NEW m, OnlySpoilt(m, p, n),
           \A a \in Addr \ Span(p, n) : mem'[a] = m[a],
           NEW S \in SUBSET spoiled, id \notin S, spoiled' = S \cup Hit(m, id)
    PROVE  SpoiledIsBad' /\ spoiled' \subseteq Ids
  <1>1. TypeOK /\ BlocksApart /\ NullIsEmpty /\ SpoiledIsBad /\ spoiled \subseteq Ids
    BY DEF IInv, TypeOK
  <1>2. ASSUME NEW i \in Ids \ {id}, NEW a \in Bytes(blocks[i])
        PROVE  /\ a \in Bytes(blocks'[i])
               /\ mem'[a] = m[a]
               /\ m[a] = mem[a] \/ m[a] # Fill[i]
    <2>1. a \in Addr \ Span(p, n)
      BY <1>1, AllApart DEF Good, Span
    <2>2. Junk # Fill[i]
      BY HarnessAssumption
    <2>. QED BY <1>1, <2>1, <2>2, Replace DEF OnlySpoilt
  <1>3. ASSUME NEW i \in spoiled'
        PROVE  \E a \in Bytes(blocks'[i]) : mem'[a] # Fill[i]
    <2>1. CASE i \in S
      <3>1. i \in Ids \ {id}
        BY <2>1, <1>1
      <3>2. PICK a \in Bytes(blocks[i]) : mem[a] # Fill[i]
        BY <2>1, <1>1 DEF SpoiledIsBad
      <3>. QED BY <3>1, <3>2, <1>2
    <2>2. CASE i \in Hit(m, id)
      <3>1. i \in Ids \ {id} /\ \E a \in Bytes(blocks[i]) : m[a] # mem[a]
        BY <2>2 DEF Hit
      <3>. QED BY <3>1, <1>2
    <2>. QED BY <2>1, <2>2
  <1>4. spoiled' \subseteq Ids
    BY <1>1 DEF Hit
  <1>. QED BY <1>3, <1>4 DEF SpoiledIsBad, Bytes

-----------------------------------------------------------------------------
(* The requests.                                                           *)

\* What every request that passes its checks comes to.
Passed(id, p, n, m, e, S) ==
    /\ id \in Ids /\ Good(id, p, n) /\ Recorded(id, p, n)
    /\ OnlySpoilt(m, p, n) /\ mem' \in [Addr -> Value]
    /\ \A a \in Addr \ Span(p, n) : mem'[a] = m[a]
    /\ S \in SUBSET spoiled /\ id \notin S /\ spoiled' = S \cup Hit(m, id)
    /\ EndReaches(p, n, e) /\ Added(id, n) /\ Validated /\ twice' \in BOOLEAN

LEMMA PassedIInv ==
    ASSUME IInv, NEW id, NEW p, NEW n, NEW m, NEW e, NEW S, Passed(id, p, n, m, e, S)
    PROVE  IInv'
  <1>1. /\ TypeOK /\ BlocksApart /\ NullIsEmpty /\ Counted
        /\ id \in Ids /\ Good(id, p, n) /\ Recorded(id, p, n)
    BY DEF IInv, Passed
  <1>2. BlocksApart' /\ NullIsEmpty' /\ blocks' \in [Ids -> [ptr : Ptr, size : Nat]]
    BY <1>1, Replace
  <1>3. /\ Counted' /\ cur_size' \in Nat /\ peak_size' \in Nat
        /\ pc' \in {"running", "failed"}
    BY <1>1, CountStep DEF Passed
  <1>4. SpoiledIsBad' /\ spoiled' \subseteq Ids
    BY <1>1, SpoilStep DEF Passed
  <1>5. heap_end' \in Start .. End
    BY DEF Passed, EndReaches
  <1>6. TypeOK'
    BY <1>2, <1>3, <1>4, <1>5 DEF Passed, TypeOK, Ptr, Value, Addr, NULL
  <1>7. SpoilingIsFound'
    BY <1>3 DEF SpoilingIsFound
  <1>. QED BY <1>2, <1>3, <1>4, <1>6, <1>7 DEF IInv

\* heap_end after a block has been accepted.
Reached(p, n) == Max({heap_end, p + n})

\* The memset that follows a call which returned a block.
LEMMA AcceptFacts ==
    ASSUME TypeOK, NEW id \in Ids, NEW p, NEW n, Good(id, p, n),
           NEW m, m \in [Addr -> Value], Accept(id, p, n, m)
    PROVE  /\ Recorded(id, p, n) /\ EndReaches(p, n, Reached(p, n))
           /\ mem' \in [Addr -> Value]
           /\ \A a \in Addr \ Span(p, n) : mem'[a] = m[a]
  <1>1. Recorded(id, p, n)
    BY DEF Accept, Recorded
  <1>2. EndReaches(p, n, Reached(p, n))
    <2>1. heap_end' = Reached(p, n)
      BY DEF Accept, Reached
    <2>. QED BY <2>1, EndGrows DEF EndReaches, Reached
  <1>3. mem' = [a \in Addr |-> IF a \in Span(p, n) THEN Fill[id] ELSE m[a]]
    BY DEF Accept, memset, Span
  <1>4. Fill[id] \in Value
    BY DEF Value
  <1>. QED BY <1>1, <1>2, <1>3, <1>4

\* An id without a block cannot have been spoiled, nor one whose payload is right.
LEMMA NotSpoiled ==
    ASSUME IInv, NEW id \in Ids,
           \/ blocks[id].ptr = NULL
           \/ verify_payload(mem, blocks[id].ptr, blocks[id].size, id)
    PROVE  id \notin spoiled
  <1>1. SUFFICES ASSUME id \in spoiled
                 PROVE  FALSE
    OBVIOUS
  <1>2. PICK a \in Bytes(blocks[id]) : mem[a] # Fill[id]
    BY <1>1 DEF IInv, SpoiledIsBad
  <1>3. CASE blocks[id].ptr = NULL
    BY <1>2, <1>3, AllApart DEF IInv, NullIsEmpty
  <1>4. CASE verify_payload(mem, blocks[id].ptr, blocks[id].size, id)
    BY <1>2, <1>4 DEF verify_payload, Bytes
  <1>. QED BY <1>3, <1>4

LEMMA FailIInv ==
    ASSUME IInv, Fail
    PROVE  IInv'
  BY DEF Fail, tally, IInv, TypeOK, BlocksApart, NullIsEmpty, SpoiledIsBad, Counted,
         SpoilingIsFound, Held, Bytes, Addr, NULL

LEMMA AllocIInv ==
    ASSUME IInv, NEW id \in Ids, NEW n \in Sizes, Alloc(id, n)
    PROVE  IInv'
  <1>1. CASE Fail
    BY <1>1, FailIInv
  <1>2. ASSUME NEW p \in Answers, NEW m \in Spoilt(mem),
               ~(p = NULL /\ n # 0), verify_block(p, n, blocks),
               Accept(id, p, n, m), cur_size' = cur_size + n,
               spoiled' = (spoiled \ Forgotten(id)) \cup Hit(m, id),
               twice' = (twice \/ blocks[id].ptr # NULL), Validated
        PROVE  IInv'
    <2>1. TypeOK /\ NullIsEmpty /\ n \in Nat
      BY HarnessAssumption DEF IInv
    <2>2. Good(id, p, n)
      BY <1>2, <2>1, VerifiedIsGood
    <2>3. OnlySpoilt(m, p, n)
      BY <2>1, SpoiltMemory DEF TypeOK, Value
    <2>4. /\ Recorded(id, p, n) /\ EndReaches(p, n, Reached(p, n))
          /\ mem' \in [Addr -> Value]
          /\ \A a \in Addr \ Span(p, n) : mem'[a] = m[a]
      <3>1. m \in [Addr -> Value]
        BY <2>3 DEF OnlySpoilt
      <3>2. Accept(id, p, n, m) /\ TypeOK
        BY <1>2, <2>1
      <3>. QED BY <3>1, <3>2, <2>2, AcceptFacts
    <2>5. id \notin spoiled \ Forgotten(id)
      BY NotSpoiled DEF Forgotten
    <2>6. Added(id, n)
      <3>1. cur_size \in Nat /\ blocks[id].size \in Nat
        BY <2>1 DEF TypeOK
      <3>2. ~twice' => ~twice /\ blocks[id].size = 0
        BY <1>2, <2>1 DEF NullIsEmpty
      <3>. QED BY <1>2, <2>1, <3>1, <3>2 DEF Added
    <2>7. twice' \in BOOLEAN
      BY <1>2
    <2>8. Passed(id, p, n, m, Reached(p, n), spoiled \ Forgotten(id))
      BY <1>2, <2>2, <2>3, <2>4, <2>5, <2>6, <2>7 DEF Passed
    <2>. QED BY <2>8, PassedIInv
  <1>. QED BY <1>1, <1>2 DEF Alloc

LEMMA ReallocIInv ==
    ASSUME IInv, NEW id \in Ids, NEW n \in Sizes, Realloc(id, n)
    PROVE  IInv'
  <1>1. CASE Fail
    BY <1>1, FailIInv
  <1>2. ASSUME verify_payload(mem, blocks[id].ptr, blocks[id].size, id),
               NEW p \in Answers, NEW moved \in Moved(blocks[id], p, n), NEW m \in Spoilt(moved),
               ~(p = NULL /\ n # 0), verify_block(p, n, [blocks EXCEPT ![id].size = 0]),
               Accept(id, p, n, m), cur_size' = cur_size + (n - blocks[id].size),
               spoiled' = spoiled \cup Hit(m, id), twice' = twice, Validated
        PROVE  IInv'
    <2>1. TypeOK /\ NullIsEmpty /\ n \in Nat
      BY HarnessAssumption DEF IInv
    <2>2. Good(id, p, n)
      <3>1. \A i \in Ids \ {id} : [blocks EXCEPT ![id].size = 0][i] = blocks[i]
        BY <2>1 DEF TypeOK
      <3>. QED BY <1>2, <2>1, <3>1, VerifiedIsGood
    <2>3. OnlySpoilt(m, p, n)
      <3>1. p \in Nat /\ blocks[id].size \in Nat
        BY <2>1, <2>2, SegmentFacts DEF Good, TypeOK
      <3>2. moved \in [Addr -> Value] /\ \A a \in Addr \ Span(p, n) : moved[a] = mem[a]
        BY <2>1, <3>1, MovedMemory
      <3>. QED BY <3>2, SpoiltMemory
    <2>4. /\ Recorded(id, p, n) /\ EndReaches(p, n, Reached(p, n))
          /\ mem' \in [Addr -> Value]
          /\ \A a \in Addr \ Span(p, n) : mem'[a] = m[a]
      <3>1. m \in [Addr -> Value]
        BY <2>3 DEF OnlySpoilt
      <3>2. Accept(id, p, n, m) /\ TypeOK
        BY <1>2, <2>1
      <3>. QED BY <3>1, <3>2, <2>2, AcceptFacts
    <2>5. id \notin spoiled
      BY <1>2, NotSpoiled
    <2>6. Added(id, n)
      <3>1. cur_size \in Nat /\ blocks[id].size \in Nat
        BY <2>1 DEF TypeOK
      <3>. QED BY <1>2, <2>1, <3>1 DEF Added
    <2>7. twice' \in BOOLEAN
      BY <1>2, <2>1 DEF TypeOK
    <2>8. Passed(id, p, n, m, Reached(p, n), spoiled)
      BY <1>2, <2>2, <2>3, <2>4, <2>5, <2>6, <2>7 DEF Passed
    <2>. QED BY <2>8, PassedIInv
  <1>. QED BY <1>1, <1>2 DEF Realloc

LEMMA FreeIInv ==
    ASSUME IInv, NEW id \in Ids, FreeBlock(id)
    PROVE  IInv'
  <1>1. CASE Fail
    BY <1>1, FailIInv
  <1>2. ASSUME verify_payload(mem, blocks[id].ptr, blocks[id].size, id),
               NEW m \in Spoilt(mem), mem' = m, spoiled' = spoiled \cup Hit(m, id),
               Recorded(id, NULL, 0), cur_size' = cur_size - blocks[id].size,
               heap_end' = heap_end, twice' = twice, Validated
        PROVE  IInv'
    <2>1. TypeOK
      BY DEF IInv
    <2>2. Span(NULL, 0) = {}
      BY DEF Span, NULL
    <2>3. Good(id, NULL, 0)
      BY <2>2 DEF Good, Span, Ptr
    <2>4. OnlySpoilt(m, NULL, 0)
      BY <2>1, SpoiltMemory DEF TypeOK, Value
    <2>5. id \notin spoiled
      BY <1>2, NotSpoiled
    <2>6. EndReaches(NULL, 0, heap_end)
      <3>1. heap_end \in Start .. End /\ heap_end \in Nat
        BY <2>1, SegmentFacts DEF TypeOK
      <3>. QED BY <1>2, <3>1 DEF EndReaches, NULL
    <2>7. Added(id, 0)
      <3>1. cur_size \in Nat /\ blocks[id].size \in Nat
        BY <2>1 DEF TypeOK
      <3>. QED BY <1>2, <3>1 DEF Added
    <2>8. twice' \in BOOLEAN
      BY <1>2, <2>1 DEF TypeOK
    <2>9. Passed(id, NULL, 0, m, heap_end, spoiled)
      BY <1>2, <2>3, <2>4, <2>5, <2>6, <2>7, <2>8 DEF Passed, OnlySpoilt
    <2>. QED BY <2>9, PassedIInv
  <1>. QED BY <1>1, <1>2 DEF FreeBlock, Recorded

LEMMA ExitIInv ==
    ASSUME IInv, Exit
    PROVE  IInv'
  <1>1. /\ UNCHANGED <<mem, blocks, cur_size, peak_size, heap_end, spoiled, twice>>
        /\ pc' \in {"success", "failed"}
    BY DEF Exit, tally
  <1>2. SpoilingIsFound'
    <2>1. ASSUME pc' = "success"
          PROVE  spoiled' = {}
      <3>1. \A i \in Ids : verify_payload(mem, blocks[i].ptr, blocks[i].size, i)
        BY <2>1 DEF Exit
      <3>2. \A i \in Ids : i \notin spoiled
        BY <3>1, NotSpoiled
      <3>. QED BY <1>1, <3>2 DEF IInv, TypeOK
    <2>. QED BY <2>1 DEF SpoilingIsFound
  <1>. QED BY <1>1, <1>2 DEF IInv, TypeOK, BlocksApart, NullIsEmpty, SpoiledIsBad, Counted,
                             Held, Bytes, Addr, NULL

LEMMA InitIInv ==
    ASSUME Init
    PROVE  IInv
  <1>1. \A i \in Ids : blocks[i] = [ptr |-> NULL, size |-> 0]
    BY DEF Init
  <1>2. \A i \in Ids : Bytes(blocks[i]) = {}
    BY <1>1 DEF Bytes, NULL
  <1>3. Held = {} /\ Cardinality(Held) = 0
    BY <1>2, FS_EmptySet DEF Held
  <1>4. TypeOK
    <2>1. Start \in Start .. End /\ 0 \in Nat
      BY SegmentFacts
    <2>2. mem \in [Addr -> Value]
      BY DEF Init, Value
    <2>3. blocks \in [Ids -> [ptr : Ptr, size : Nat]]
      BY <2>1 DEF Init, Ptr
    <2>. QED BY <2>1, <2>2, <2>3 DEF Init, TypeOK, Ptr, Value
  <1>5. BlocksApart /\ NullIsEmpty /\ SpoiledIsBad /\ SpoilingIsFound
    BY <1>1 DEF Init, BlocksApart, NullIsEmpty, SpoiledIsBad, SpoilingIsFound
  <1>6. Counted
    BY <1>3, SegmentFacts DEF Init, Counted
  <1>. QED BY <1>4, <1>5, <1>6 DEF IInv

LEMMA NextScriptIInv ==
    ASSUME NextScript
    PROVE  IInv'
  <1>1. \A i \in Ids : blocks'[i] = [ptr |-> NULL, size |-> 0]
    BY DEF NextScript
  <1>2. \A i \in Ids : Bytes(blocks'[i]) = {}
    BY <1>1 DEF Bytes, NULL
  <1>3. Held' = {} /\ Cardinality({}) = 0
    BY <1>2, FS_EmptySet DEF Held, Bytes
  <1>4. TypeOK'
    <2>1. Start \in Start .. End /\ 0 \in Nat
      BY SegmentFacts
    <2>2. mem' \in [Addr -> Value]
      BY DEF NextScript, Value
    <2>3. blocks' \in [Ids -> [ptr : Ptr, size : Nat]]
      BY <2>1 DEF NextScript, Ptr
    <2>. QED BY <2>1, <2>2, <2>3 DEF NextScript, TypeOK, Ptr, Value, Addr, NULL
  <1>5. BlocksApart' /\ NullIsEmpty' /\ SpoiledIsBad' /\ SpoilingIsFound'
    BY <1>1 DEF NextScript, BlocksApart, NullIsEmpty, SpoiledIsBad, SpoilingIsFound, NULL
  <1>6. Counted'
    BY <1>3, SegmentFacts DEF NextScript, Counted
  <1>. QED BY <1>4, <1>5, <1>6 DEF IInv

LEMMA StutterIInv ==
    ASSUME IInv, UNCHANGED vars
    PROVE  IInv'
  BY DEF vars, IInv, TypeOK, BlocksApart, NullIsEmpty, SpoiledIsBad, Counted,
         SpoilingIsFound, Held, Bytes, Addr, NULL

\* A block that is seen to overlap one that is not empty shares a byte with it.
LEMMA OverlapShares ==
    ASSUME NEW p \in Int, NEW n \in Nat, n # 0, NEW b \in [ptr : Nat, size : Nat],
           b.size # 0, Overlaps(p, p + n, b)
    PROVE  Bytes(b) \cap Span(p, n) # {}
  <1>. DEFINE q == b.ptr
              k == b.size
  <1>1. q \in Nat /\ k \in Nat /\ k # 0
    OBVIOUS
  <1>2. \/ p >= q /\ p < q + k
        \/ p + n > q /\ p + n < q + k
        \/ p < q /\ p + n >= q + k
    BY DEF Overlaps
  <1>3. \E a \in Int : q <= a /\ a <= q + k - 1 /\ p <= a /\ a <= p + n - 1
    <2>. HIDE DEF q, k
    <2>1. CASE p >= q /\ p < q + k
      <3>1. q <= p /\ p <= q + k - 1 /\ p <= p /\ p <= p + n - 1
        BY <1>1, <2>1
      <3>. QED BY <3>1
    <2>2. CASE p + n > q /\ p + n < q + k
      <3>. DEFINE a == p + n - 1
      <3>1. a \in Int /\ q <= a /\ a <= q + k - 1 /\ p <= a /\ a <= p + n - 1
        BY <1>1, <2>2
      <3>. QED BY <3>1
    <2>3. CASE p < q /\ p + n >= q + k
      <3>1. q \in Int /\ q <= q /\ q <= q + k - 1 /\ p <= q /\ q <= p + n - 1
        BY <1>1, <2>3
      <3>. QED BY <3>1
    <2>. QED BY <1>2, <2>1, <2>2, <2>3
  <1>. QED BY <1>1, <1>3 DEF Bytes, Span

LEMMA GoodAccepted ==
    ASSUME TypeOK
    PROVE  GoodBlocksAccepted
  <1>1. ASSUME NEW p \in Answers, NEW n \in Sizes \ {0},
               p % ALIGNMENT = 0, Bytes([ptr |-> p, size |-> n]) \subseteq Addr,
               \A i \in Ids : Bytes([ptr |-> p, size |-> n]) \cap Bytes(blocks[i]) = {}
        PROVE  verify_block(p, n, blocks)
    <2>1. p \in Int /\ n \in Nat /\ n # 0 /\ Start \in Nat /\ End \in Nat
      BY SegmentFacts, HarnessAssumption DEF Answers, NULL
    <2>2. Span(p, n) \subseteq Addr /\ \A i \in Ids : Span(p, n) \cap Bytes(blocks[i]) = {}
      BY <1>1 DEF Bytes, Span
    <2>3. p \in Span(p, n) /\ p + n - 1 \in Span(p, n)
      BY <2>1 DEF Span
    <2>4. p >= Start /\ p + n <= End
      <3>1. p \in Addr /\ p + n - 1 \in Addr
        BY <2>2, <2>3
      <3>. QED BY <2>1, <3>1 DEF Addr
    <2>5. ASSUME NEW i \in Ids
          PROVE  \/ blocks[i].ptr = NULL \/ blocks[i].size = 0
                 \/ ~Overlaps(p, p + n, blocks[i])
      <3>1. blocks[i] \in [ptr : Nat, size : Nat]
        BY SegmentFacts DEF TypeOK, Ptr
      <3>. QED BY <2>1, <2>2, <3>1, OverlapShares
    <2>. QED BY <1>1, <2>4, <2>5 DEF verify_block
  <1>. QED BY <1>1 DEF GoodBlocksAccepted

-----------------------------------------------------------------------------
(* The theorems.                                                           *)

\* The table, the totals and the spoiled blocks stay as described by IInv
\* through every request of a script and from one script to the next
\* (eval_correctness, test_scripts).
THEOREM Invariance == Spec => []IInv
  <1>1. Init => IInv
    BY InitIInv
  <1>2. IInv /\ [Next]_vars => IInv'
    <2>1. ASSUME IInv, Next
          PROVE  IInv'
      <3>1. CASE \E id \in Ids, n \in Sizes : Alloc(id, n) \/ Realloc(id, n)
        BY <2>1, <3>1, AllocIInv, ReallocIInv
      <3>2. CASE \E id \in Ids : FreeBlock(id)
        BY <2>1, <3>2, FreeIInv
      <3>3. CASE Exit
        BY <2>1, <3>3, ExitIInv
      <3>4. CASE NextScript
        BY <3>4, NextScriptIInv
      <3>. QED BY <2>1, <3>1, <3>2, <3>3, <3>4 DEF Next
    <2>. QED BY <2>1, StutterIInv
  <1>. QED BY <1>1, <1>2, PTL DEF Spec

\* Whatever the allocator answers, the blocks that the harness has recorded are
\* aligned, inside the segment and apart (verify_block).
THEOREM TableHolds == Spec => []TableSound
  <1>1. IInv => TableSound
    BY DEF IInv, TableSound
  <1>. QED BY <1>1, Invariance, PTL

\* No good block is refused, and no script in which a live block was written to
\* ends in success (verify_block, verify_payload).
THEOREM VerdictsHold == Spec => []VerdictsRight
  <1>1. IInv => VerdictsRight
    BY GoodAccepted DEF IInv, VerdictsRight
  <1>. QED BY <1>1, Invariance, PTL

\* The totals from which test_scripts reports the utilization are those of the
\* blocks held, unless the script allocates an id twice.
THEOREM UtilizationHolds == Spec => []Utilization
  <1>1. IInv => Utilization
    BY DEF IInv, Counted, Utilization
  <1>. QED BY <1>1, Invariance, PTL

-----------------------------------------------------------------------------
(* The segment the scripts run in, for an address space of any size.  All    *)
(* calls of init_heap_segment ask for the same size, as those of             *)
(* test_harness.c do (line 162).                                             *)

OneSize == \E n : SegmentSizes = {n}

SegmentIInv == /\ SegmentTypeOK /\ SegmentIsAll
               /\ segment_start \in Page => segment_size \in SegmentSizes

LEMMA PageFacts ==
    NULL_PAGE \notin Page /\ MAP_FAILED \notin Page /\ NULL_PAGE # MAP_FAILED
  BY SegmentAssumption DEF NULL_PAGE, MAP_FAILED, Page

\* The discarded pages are exactly those of the segment.
LEMMA DiscardedFacts ==
    ASSUME OneSize, SegmentIInv, NEW n \in SegmentSizes, Discards(n)
    PROVE  /\ Discarded(n) \in [Page -> {"none", "other"}]
           /\ \A p \in Page : owner[p] = "other" => Discarded(n)[p] = "other"
  <1>1. ~Aborted /\ owner \in [Page -> {"none", "heap", "other"}]
    BY DEF Discards, SegmentIInv, SegmentTypeOK
  <1>2. CASE segment_start = NULL_PAGE
    BY <1>1, <1>2 DEF Discarded, SegmentIInv, SegmentIsAll
  <1>3. CASE segment_start # NULL_PAGE
    <2>1. segment_start \in Page /\ segment_size = n
      BY <1>1, <1>3 DEF SegmentIInv, SegmentTypeOK, Aborted, OneSize
    <2>2. {p \in Page : owner[p] = "heap"} = Pages(segment_start, n)
      BY <1>1, <1>3, <2>1 DEF SegmentIInv, SegmentIsAll
    <2>3. Discarded(n) = [p \in Page |-> IF p \in Pages(segment_start, n) THEN "none"
                                         ELSE owner[p]]
      BY <1>3 DEF Discarded, munmap
    <2>. QED BY <1>1, <2>2, <2>3
  <1>. QED BY <1>2, <1>3

LEMMA ChoiceFacts ==
    ASSUME NEW o, NEW n \in Nat, NEW s \in mmap_choices(o, n)
    PROVE  /\ n > 0 /\ s \in Page /\ Pages(s, n) \subseteq Page
           /\ \A p \in Pages(s, n) : o[p] = "none"
  BY DEF mmap_choices

LEMMA ReserveKeeps ==
    ASSUME OneSize, SegmentIInv, NEW n \in SegmentSizes, Reserve(n)
    PROVE  SegmentIInv' /\ \A p \in Page : owner[p] = "other" => owner'[p] = "other"
  <1>1. PICK s \in mmap_choices(Discarded(n), n) :
            /\ segment_start' = s
            /\ owner' = [p \in Page |-> IF p \in Pages(s, n) THEN "heap" ELSE Discarded(n)[p]]
    BY DEF Reserve
  <1>2. n \in Nat /\ segment_size' = n /\ Discards(n)
    BY SegmentAssumption DEF Reserve
  <1>3. /\ n > 0 /\ s \in Page /\ Pages(s, n) \subseteq Page
        /\ \A p \in Pages(s, n) : Discarded(n)[p] = "none"
    BY <1>2, ChoiceFacts
  <1>4. /\ Discarded(n) \in [Page -> {"none", "other"}]
        /\ \A p \in Page : owner[p] = "other" => Discarded(n)[p] = "other"
    BY <1>2, DiscardedFacts
  <1>5. SegmentTypeOK'
    BY <1>1, <1>2, <1>3, <1>4 DEF SegmentTypeOK
  <1>6. SegmentIsAll'
    <2>1. {p \in Page : owner'[p] = "heap"} = Pages(s, n)
      BY <1>1, <1>3, <1>4
    <2>. QED BY <1>1, <1>2, <1>3, <2>1, PageFacts DEF SegmentIsAll
  <1>. QED BY <1>1, <1>2, <1>3, <1>4, <1>5, <1>6 DEF SegmentIInv

LEMMA ReserveFailsKeeps ==
    ASSUME OneSize, SegmentIInv, NEW n \in SegmentSizes, ReserveFails(n)
    PROVE  SegmentIInv' /\ \A p \in Page : owner[p] = "other" => owner'[p] = "other"
  <1>1. /\ Discarded(n) \in [Page -> {"none", "other"}]
        /\ \A p \in Page : owner[p] = "other" => Discarded(n)[p] = "other"
    BY DiscardedFacts DEF ReserveFails
  <1>2. /\ owner' = Discarded(n) /\ segment_start' = MAP_FAILED /\ segment_size' = 0
    BY DEF ReserveFails
  <1>. QED BY <1>1, <1>2, PageFacts DEF SegmentIInv, SegmentTypeOK, SegmentIsAll, Aborted

LEMMA OtherMapsKeeps ==
    ASSUME SegmentIInv, NEW p \in Page, OtherMaps(p)
    PROVE  SegmentIInv'
  <1>1. /\ ~Aborted /\ owner[p] # "heap" /\ owner \in [Page -> {"none", "heap", "other"}]
        /\ owner' = [owner EXCEPT ![p] = IF @ = "none" THEN "other" ELSE "none"]
        /\ segment_start' = segment_start /\ segment_size' = segment_size
    BY DEF SegmentIInv, SegmentTypeOK, OtherMaps
  <1>2. {q \in Page : owner'[q] = "heap"} = {q \in Page : owner[q] = "heap"}
    BY <1>1
  <1>3. SegmentTypeOK'
    BY <1>1 DEF SegmentIInv, SegmentTypeOK
  <1>4. SegmentIsAll'
    BY <1>1, <1>2 DEF SegmentIInv, SegmentIsAll, Aborted
  <1>. QED BY <1>1, <1>3, <1>4 DEF SegmentIInv

LEMMA SegmentInitHolds == SegmentInit => SegmentIInv
  BY PageFacts DEF SegmentInit, SegmentIInv, SegmentTypeOK, SegmentIsAll, NULL_PAGE, MAP_FAILED

LEMMA SegmentNextKeeps == OneSize /\ SegmentIInv /\ [SegmentNext]_segment_vars => SegmentIInv'
  <1>. SUFFICES ASSUME OneSize, SegmentIInv, [SegmentNext]_segment_vars PROVE SegmentIInv'
    OBVIOUS
  <1>1. ASSUME UNCHANGED segment_vars PROVE SegmentIInv'
    BY <1>1 DEF segment_vars, SegmentIInv, SegmentTypeOK, SegmentIsAll, Aborted
  <1>. QED BY <1>1, ReserveKeeps, ReserveFailsKeeps, OtherMapsKeeps DEF SegmentNext, DiscardFails

\* With one size, the pages mapped for the heap are always exactly those of
\* the current segment (init_heap_segment).
THEOREM OneSegment == OneSize => (SegmentSpec => []SegmentSound)
  <1>. SUFFICES ASSUME OneSize PROVE SegmentSpec => []SegmentSound
    OBVIOUS
  <1>1. SegmentIInv /\ [SegmentNext]_segment_vars => SegmentIInv'
    BY SegmentNextKeeps
  <1>2. SegmentIInv => SegmentSound
    BY DEF SegmentIInv, SegmentSound
  <1>. QED BY <1>1, <1>2, SegmentInitHolds, PTL DEF SegmentSpec

\* With one size, init_heap_segment never unmaps or maps over a page of the
\* rest of the process.
THEOREM OthersSafe == OneSize => (SegmentSpec => OthersKept)
  <1>. SUFFICES ASSUME OneSize PROVE SegmentSpec => OthersKept
    OBVIOUS
  <1>1. SegmentIInv /\ [SegmentNext]_segment_vars => SegmentIInv'
    BY SegmentNextKeeps
  <1>2. SegmentIInv /\ [SegmentNext]_segment_vars =>
           [\A p \in {q \in Page : owner[q] = "other"} :
                owner'[p] # "other" => OtherMaps(p)]_segment_vars
    <2>. SUFFICES ASSUME SegmentIInv, SegmentNext,
                         NEW p \in Page, owner[p] = "other", owner'[p] # "other"
                  PROVE  OtherMaps(p)
      OBVIOUS
    <2>1. CASE \E n \in SegmentSizes : Reserve(n) \/ ReserveFails(n)
      BY <2>1, ReserveKeeps, ReserveFailsKeeps
    <2>2. CASE \E n \in SegmentSizes : DiscardFails(n)
      BY <2>2 DEF DiscardFails, segment_vars
    <2>3. CASE \E q \in Page : OtherMaps(q)
      <3>1. PICK q \in Page : OtherMaps(q)
        BY <2>3
      <3>2. owner \in [Page -> {"none", "heap", "other"}]
        BY DEF SegmentIInv, SegmentTypeOK
      <3>3. p = q
        BY <3>1, <3>2 DEF OtherMaps
      <3>. QED BY <3>1, <3>3
    <2>. QED BY <2>1, <2>2, <2>3 DEF SegmentNext
  <1>. QED BY <1>1, <1>2, SegmentInitHolds, PTL DEF SegmentSpec, OthersKept
=============================================================================
