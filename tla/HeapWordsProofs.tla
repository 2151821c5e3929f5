-------------------------- MODULE HeapWordsProofs --------------------------
(***************************************************************************)
(* Facts about words, tiled segments and ownership, for both allocators    *)
(* that lay their heaps out as HeapWords says.                             *)
(***************************************************************************)
EXTENDS HeapWords, FiniteSetsExt, TLAPS, FiniteSetTheorems, WellFoundedInduction

-----------------------------------------------------------------------------
(* Arithmetic of words, sizes and addresses.                               *)

LEMMA WordFacts ==
    ASSUME NEW w \in Int
    PROVE  /\ Masked(w) \in Int /\ Masked(w) % 8 = 0
           /\ Status(w) \in 0..7
           /\ w = Masked(w) + Status(w)
           /\ w \div 8 \in Int /\ w \div 8 = Masked(w) \div 8
           /\ Masked(w) = 8 * (w \div 8)
           /\ SetUsed(w) \in Int
           /\ Status(w) \in {0, 1} => /\ SetUsed(w) = Masked(w) + 1
                                      /\ Masked(SetUsed(w)) = Masked(w)
                                      /\ Status(SetUsed(w)) = 1
           /\ Status(Masked(w)) = 0 /\ Masked(Masked(w)) = Masked(w)
  BY DEF Masked, Status, SetUsed

LEMMA MinFacts ==
    ASSUME NEW a \in Nat, NEW b \in Nat
    PROVE  /\ Min({a, b}) \in Nat /\ Min({a, b}) <= a /\ Min({a, b}) <= b
           /\ Min({a, b}) = a \/ Min({a, b}) = b
  <1>1. \E x \in {a, b} : \A y \in {a, b} : x <= y
    BY SMT
  <1>. QED BY <1>1 DEF Min

LEMMA AddrFacts ==
    /\ SegStart \in Nat \ {0}
    /\ SegEnd \in Nat /\ SegEnd >= SegStart + 3
    /\ NULL \notin Addr /\ NULL = 0
    /\ \A a \in Addr : a \in Nat /\ SegStart <= a /\ a < SegEnd
    /\ \A a \in Int : SegStart <= a /\ a < SegEnd => a \in Addr
  BY HeapAssumption DEF SegEnd, Addr, HEADER_SIZE, NULL

LEMMA WordsFacts ==
    ASSUME NEW n \in Nat
    PROVE  /\ Words(n) \in Nat /\ n <= 8 * Words(n)
           /\ n = 0 => Words(n) = 0
           /\ n > 0 => Words(n) > 0
           /\ \A k \in Int : n <= 8 * k => Words(n) <= k
           /\ \A m \in Nat : m <= n => Words(m) <= Words(n)
  <1>1. Words(n) = (((n + 7) \div 8) * 8) \div 8
    BY DEF Words, roundup, HEADER_SIZE
  <1>2. \A m \in Nat : Words(m) = (m + 7) \div 8
    BY DEF Words, roundup, HEADER_SIZE
  <1>. QED BY <1>2

-----------------------------------------------------------------------------
(* The tiling of the segment.                                              *)

Sound(h) == h.mem \in [Addr -> Int] /\ h.hdrs \subseteq Addr /\ Tiled(h)

\* What the header at p says, in words: the block is p .. NextOf(h, p) - 1.
LEMMA SoundHeader ==
    ASSUME NEW h, Sound(h), NEW p \in h.hdrs
    PROVE  /\ p \in Int /\ p \in Addr /\ h.mem[p] \in Int
           /\ SizeAt(h, p) \in Int /\ NextOf(h, p) \in Int
           /\ SizeAt(h, p) = 8 * (NextOf(h, p) - p - 1)
           /\ SizeAt(h, p) >= 8 /\ NextOf(h, p) >= p + 2
           /\ NextOf(h, p) \in h.hdrs \/ NextOf(h, p) = SegEnd
           /\ NextOf(h, p) <= SegEnd
           /\ p + 1 \in Addr
           /\ Status(h.mem[p]) \in {0, 1}
           /\ h.mem[p] = SizeAt(h, p) + Status(h.mem[p])
  <1>1. p \in Addr /\ h.mem \in [Addr -> Int] /\ h.hdrs \subseteq Addr
    BY DEF Sound
  <1>2. p \in Int /\ h.mem[p] \in Int /\ p >= SegStart /\ p < SegEnd
    BY <1>1, AddrFacts
  <1>. DEFINE w == h.mem[p]
  <1>3. /\ SizeAt(h, p) = Masked(w) /\ NextOf(h, p) = p + w \div 8 + 1
        /\ Masked(w) >= 8 /\ Status(w) \in {0, 1}
        /\ NextOf(h, p) \in h.hdrs \cup {SegEnd}
    BY DEF Sound, Tiled, SizeAt, NextOf, HEADER_SIZE, StatusFree, StatusUsed
  <1>4. /\ Masked(w) \in Int /\ Masked(w) = 8 * (w \div 8) /\ w = Masked(w) + Status(w)
        /\ w \div 8 \in Int
    BY <1>2, WordFacts
  <1>5. NextOf(h, p) \in Int /\ NextOf(h, p) <= SegEnd
    BY <1>1, <1>3, AddrFacts
  <1>. HIDE DEF w
  <1>6. NextOf(h, p) >= p + 2 /\ SizeAt(h, p) = 8 * (NextOf(h, p) - p - 1)
    BY <1>2, <1>3, <1>4
  <1>7. p + 1 \in Addr
    BY <1>2, <1>5, <1>6, AddrFacts
  <1>. QED BY <1>1, <1>2, <1>3, <1>4, <1>5, <1>6, <1>7 DEF w

\* Two blocks never overlap.
LEMMA SoundApart ==
    ASSUME NEW h, Sound(h), NEW p \in h.hdrs, NEW q \in h.hdrs, p # q
    PROVE  q >= NextOf(h, p) \/ p >= NextOf(h, q)
  <1>1. p \in Int /\ q \in Int
    BY SoundHeader
  <1>. QED BY <1>1 DEF Sound, Tiled

LEMMA SoundCount ==
    ASSUME NEW h, Sound(h)
    PROVE  IsFiniteSet(h.hdrs) /\ h.nheaders = Cardinality(h.hdrs)
  <1>1. h.hdrs \subseteq SegStart .. SegEnd
    BY AddrFacts DEF Sound
  <1>2. IsFiniteSet(SegStart .. SegEnd)
    BY AddrFacts, FS_Interval
  <1>. QED BY <1>1, <1>2, FS_Subset DEF Sound, Tiled

\* Rewriting headers without moving a boundary keeps the tiling.
LEMMA SoundMark ==
    ASSUME NEW h, Sound(h), NEW g, g.mem \in [Addr -> Int],
           g.hdrs = h.hdrs, g.nheaders = h.nheaders,
           \A q \in h.hdrs : /\ SizeAt(g, q) = SizeAt(h, q)
                             /\ Status(g.mem[q]) \in {0, 1}
    PROVE  Sound(g) /\ \A q \in h.hdrs : NextOf(g, q) = NextOf(h, q)
  <1>1. ASSUME NEW q \in h.hdrs PROVE NextOf(g, q) = NextOf(h, q)
    <2>1. q \in Addr /\ g.mem[q] \in Int /\ h.mem[q] \in Int
      BY DEF Sound
    <2>2. g.mem[q] \div 8 = Masked(g.mem[q]) \div 8 /\ h.mem[q] \div 8 = Masked(h.mem[q]) \div 8
      BY <2>1, WordFacts
    <2>. QED BY <2>2 DEF NextOf, SizeAt, HEADER_SIZE
  <1>. QED BY <1>1 DEF Sound, Tiled, StatusFree, StatusUsed

\* The boundary that a split adds.
LEMMA SoundSplit ==
    ASSUME NEW h, Sound(h), NEW g, g.mem \in [Addr -> Int], g.hdrs \subseteq Addr,
           NEW p \in h.hdrs, NEW size \in Nat, size % 8 = 0, size >= 8,
           SizeAt(h, p) - size - 8 >= 8,
           NEW new, new = p + size \div 8 + 1,
           g.hdrs = h.hdrs \cup {new}, g.nheaders = h.nheaders + 1,
           SizeAt(g, p) = size, Status(g.mem[p]) \in {0, 1},
           SizeAt(g, new) = SizeAt(h, p) - size - 8, Status(g.mem[new]) \in {0, 1},
           \A q \in h.hdrs \ {p} : g.mem[q] = h.mem[q]
    PROVE  /\ Sound(g) /\ new \notin h.hdrs
           /\ NextOf(g, p) = new /\ NextOf(g, new) = NextOf(h, p)
           /\ \A q \in h.hdrs \ {p} : NextOf(g, q) = NextOf(h, q)
  <1>. DEFINE k == size \div 8
              e == NextOf(h, p)
  <1>1. k \in Int /\ size = 8 * k /\ k >= 1 /\ new = p + k + 1
    OBVIOUS
  <1>2. /\ p \in Int /\ e \in Int /\ SizeAt(h, p) = 8 * (e - p - 1)
        /\ e \in h.hdrs \/ e = SegEnd
        /\ e <= SegEnd
    BY SoundHeader
  <1>. HIDE DEF k, e
  <1>3. new \in Int /\ new >= p + 2 /\ e >= new + 2 /\ SizeAt(g, new) = 8 * (e - new - 1)
    BY <1>1, <1>2
  <1>4. new \in Addr /\ p \in Addr
    BY DEF Sound
  <1>5. ASSUME NEW q \in Addr, NEW j \in Int, SizeAt(g, q) = 8 * j
        PROVE  NextOf(g, q) = q + j + 1
    <2>1. g.mem[q] \in Int
      BY DEF Sound
    <2>2. g.mem[q] \div 8 \in Int /\ SizeAt(g, q) = 8 * (g.mem[q] \div 8)
      BY <2>1, WordFacts DEF SizeAt
    <2>3. g.mem[q] \div 8 = j
      BY <2>2, <1>5
    <2>. QED BY <2>3 DEF NextOf, HEADER_SIZE
  <1>6. NextOf(g, p) = new
    BY <1>1, <1>4, <1>5
  <1>7. NextOf(g, new) = e
    <2>1. e - new - 1 \in Int
      BY <1>2, <1>3
    <2>2. NextOf(g, new) = new + (e - new - 1) + 1
      BY <1>3, <1>4, <1>5, <2>1
    <2>. QED BY <2>2, <1>2, <1>3
  <1>8. \A q \in h.hdrs \ {p} : NextOf(g, q) = NextOf(h, q) /\ SizeAt(g, q) = SizeAt(h, q)
    BY DEF NextOf, SizeAt
  <1>9. ASSUME NEW q \in h.hdrs, q # p
        PROVE  /\ q \in Int /\ NextOf(h, q) \in Int /\ NextOf(h, q) >= q + 2
               /\ q >= e \/ p >= NextOf(h, q)
    BY <1>9, SoundHeader, SoundApart DEF e
  <1>10. new \notin h.hdrs
    BY <1>2, <1>3, <1>9
  <1>11. g.nheaders = Cardinality(g.hdrs)
    <2>1. IsFiniteSet(h.hdrs) /\ h.nheaders = Cardinality(h.hdrs)
      BY SoundCount
    <2>2. Cardinality(h.hdrs \cup {new}) = Cardinality(h.hdrs) + 1
      BY <2>1, <1>10, FS_AddElement
    <2>. QED BY <2>1, <2>2
  <1>12. ASSUME NEW q \in g.hdrs, NEW r \in g.hdrs, r > q
         PROVE  r >= NextOf(g, q)
    <2>1. CASE q = p
      BY <2>1, <1>2, <1>3, <1>6, <1>9, <1>12
    <2>2. CASE q = new
      BY <2>2, <1>2, <1>3, <1>7, <1>9, <1>12
    <2>3. CASE q \in h.hdrs /\ q # p
      <3>1. CASE r = new
        BY <2>3, <3>1, <1>2, <1>3, <1>8, <1>9, <1>12
      <3>2. CASE r \in h.hdrs
        BY <2>3, <3>2, <1>8, <1>12 DEF Sound, Tiled
      <3>. QED BY <3>1, <3>2
    <2>. QED BY <2>1, <2>2, <2>3
  <1>13. ASSUME NEW q \in g.hdrs
         PROVE  /\ Status(g.mem[q]) \in {0, 1} /\ SizeAt(g, q) >= 8
                /\ NextOf(g, q) \in g.hdrs \cup {SegEnd}
    <2>1. CASE q = p
      BY <2>1, <1>6
    <2>2. CASE q = new
      BY <2>2, <1>2, <1>7
    <2>3. CASE q \in h.hdrs /\ q # p
      BY <2>3, <1>8, SoundHeader
    <2>. QED BY <2>1, <2>2, <2>3
  <1>14. SegStart \in g.hdrs
    BY DEF Sound, Tiled
  <1>15. Sound(g)
    BY <1>11, <1>12, <1>13, <1>14 DEF Sound, Tiled, StatusFree, StatusUsed, HEADER_SIZE
  <1>. QED BY <1>6, <1>7, <1>8, <1>10, <1>15 DEF e

-----------------------------------------------------------------------------
(* Blocks and their owners.                                                *)

Block    == [ptr : Addr \cup {NULL}, size : Nat]
LiveType == [Ids -> Block]

\* The used block at u is the same, header and payload, in h and in g.
Kept(h, g, u) ==
    /\ SizeAt(g, u) = SizeAt(h, u) /\ NextOf(g, u) = NextOf(h, u)
    /\ \A a \in u .. (NextOf(h, u) - 1) : g.mem[a] = h.mem[a]

\* From h to g the used block at old, if there is one, is replaced by the
\* blocks in new, and every other used block stays as it is.
Handover(h, g, old, new) ==
    /\ UsedHdrs(g) = (UsedHdrs(h) \ {old}) \cup new
    /\ new \cap (UsedHdrs(h) \ {old}) = {}
    /\ \A u \in UsedHdrs(h) \ {old} : Kept(h, g, u)

LEMMA KeptTrans ==
    ASSUME NEW h, NEW g, NEW f, NEW u, Kept(h, g, u), Kept(g, f, u)
    PROVE  Kept(h, f, u)
  BY DEF Kept

LEMMA SoundHeld ==
    ASSUME NEW h, Sound(h), NEW lv \in LiveType, Owned(h, lv),
           NEW id \in Ids
    PROVE  /\ lv[id].ptr \in Int /\ lv[id].size \in Nat /\ Words(lv[id].size) \in Nat
           /\ lv[id].ptr = NULL => /\ lv[id].size = 0 /\ lv[id] = NoBlock
                                   /\ lv[id].ptr - 1 \notin h.hdrs
           /\ lv[id].ptr # NULL =>
                 /\ lv[id].ptr - 1 \in UsedHdrs(h) /\ lv[id].ptr - 1 \in h.hdrs
                 /\ lv[id].ptr + Words(lv[id].size) <= NextOf(h, lv[id].ptr - 1)
                 /\ lv[id].size <= SizeAt(h, lv[id].ptr - 1)
  <1>. DEFINE ptr == lv[id].ptr  size == lv[id].size
  <1>1. /\ lv[id] \in [ptr : Addr \cup {NULL}, size : Nat]
        /\ ptr \in Int /\ size \in Nat
    <2>1. lv[id] \in [ptr : Addr \cup {NULL}, size : Nat]
      BY DEF LiveType, Block
    <2>2. ptr \in Addr \cup {NULL} /\ size \in Nat
      BY <2>1
    <2>. QED BY <2>1, <2>2, AddrFacts
  <1>2. CASE ptr = NULL
    <2>1. size = 0
      BY <1>2 DEF Owned
    <2>2. lv[id] = NoBlock
      BY <1>1, <1>2, <2>1 DEF NoBlock
    <2>3. ptr - 1 \notin h.hdrs
      BY <1>1, <1>2, AddrFacts DEF Sound
    <2>. QED BY <1>1, <1>2, <2>1, <2>2, <2>3, WordsFacts
  <1>3. CASE ptr # NULL
    <2>1. ptr - 1 \in UsedHdrs(h) /\ size <= SizeAt(h, ptr - 1)
      BY <1>3 DEF Owned
    <2>2. ptr - 1 \in h.hdrs
      BY <2>1 DEF UsedHdrs
    <2>. DEFINE next == NextOf(h, ptr - 1)
    <2>3. SizeAt(h, ptr - 1) = 8 * (next - (ptr - 1) - 1) /\ next \in Int
      BY <2>2, SoundHeader
    <2>. HIDE DEF next, ptr, size
    <2>4. size <= 8 * (next - ptr) /\ next - ptr \in Int
      BY <1>1, <2>1, <2>3
    <2>5. Words(size) <= next - ptr /\ Words(size) \in Nat
      BY <1>1, <2>4, WordsFacts
    <2>6. ptr + Words(size) <= next
      BY <1>1, <2>3, <2>5
    <2>. QED BY <1>1, <1>3, <2>1, <2>2, <2>5, <2>6 DEF next, ptr, size
  <1>. QED BY <1>2, <1>3

\* Between lv and lv2 only the block of id changes: it becomes b.
Assigns(lv, lv2, id, b) == lv2 = [lv EXCEPT ![id] = b]

NewHeader(b) == IF b.ptr = NULL THEN {} ELSE {b.ptr - 1}

\* A handover for id keeps the ownership, and the words of every other id.
LEMMA SoundChange ==
    ASSUME NEW h, Sound(h), NEW lv \in LiveType, Owned(h, lv),
           NEW id \in Ids, NEW b \in Block,
           NEW g,
           Handover(h, g, lv[id].ptr - 1, NewHeader(b)),
           b.ptr = NULL => b.size = 0,
           b.ptr # NULL => b.size <= SizeAt(g, b.ptr - 1),
           NEW lv2, Assigns(lv, lv2, id, b)
    PROVE  /\ lv2 \in LiveType /\ Owned(g, lv2)
           /\ \A j \in Ids \ {id} :
                 /\ lv2[j] = lv[j]
                 /\ \A k \in 0 .. (Words(lv[j].size) - 1) :
                       g.mem[lv[j].ptr + k] = h.mem[lv[j].ptr + k]
  <1>. DEFINE old  == lv[id].ptr - 1
              Held(l) == {i \in Ids : l[i].ptr # NULL}
              new  == NewHeader(b)
  <1>. USE DEF NewHeader
  <1>1. /\ lv2 \in LiveType /\ lv2[id] = b /\ b.ptr \in Int
        /\ \A j \in Ids \ {id} : lv2[j] = lv[j]
    <2>1. b.ptr \in Addr \cup {NULL}
      BY DEF Block
    <2>. QED BY <2>1, AddrFacts DEF LiveType, Assigns, Block
  <1>2. \A j \in Ids : lv[j].ptr \in Int
    BY SoundHeld
  <1>3. \A j \in Held(lv) : lv[j].ptr - 1 \in UsedHdrs(h)
    BY SoundHeld
  <1>4. \A j \in Held(lv) \ {id} : lv[j].ptr - 1 \in UsedHdrs(h) \ {old}
    <2>1. ASSUME NEW j \in Held(lv), j # id, lv[j].ptr - 1 = old PROVE FALSE
      <3>1. lv[j].ptr = lv[id].ptr
        BY <1>2, <2>1
      <3>. QED BY <2>1, <3>1 DEF Owned
    <2>. QED BY <2>1, <1>3
  <1>5. UsedHdrs(h) \ {old} = {lv[j].ptr - 1 : j \in Held(lv) \ {id}}
    <2>1. UsedHdrs(h) = {lv[j].ptr - 1 : j \in Held(lv)}
      BY DEF Owned
    <2>. QED BY <2>1, <1>4
  <1>6. /\ UsedHdrs(g) = (UsedHdrs(h) \ {old}) \cup new
        /\ new \cap (UsedHdrs(h) \ {old}) = {}
        /\ \A u \in UsedHdrs(h) \ {old} : Kept(h, g, u)
    BY DEF Handover
  <1>. HIDE DEF old
  <1>7. UsedHdrs(g) = {lv2[j].ptr - 1 : j \in Held(lv2)}
    <2>1. {lv2[j].ptr - 1 : j \in Held(lv2)}
            = {lv[j].ptr - 1 : j \in Held(lv) \ {id}} \cup new
      BY <1>1
    <2>. QED BY <2>1, <1>5, <1>6
  <1>8. ASSUME NEW i \in Held(lv2), NEW j \in Held(lv2), lv2[i].ptr = lv2[j].ptr
        PROVE  i = j
    <2>1. CASE i # id /\ j # id
      BY <1>1, <1>8, <2>1 DEF Owned
    <2>2. ASSUME NEW k \in Held(lv2) \ {id}, lv2[k].ptr = b.ptr, b.ptr # NULL PROVE FALSE
      <3>1. k \in Held(lv) \ {id} /\ lv[k].ptr = b.ptr
        BY <1>1, <2>2
      <3>2. b.ptr - 1 \in UsedHdrs(h) \ {old}
        BY <1>4, <3>1
      <3>. QED BY <1>6, <2>2, <3>2
    <2>. QED BY <1>1, <1>8, <2>1, <2>2
  <1>9. \A j \in Held(lv2) : lv2[j].size <= SizeAt(g, lv2[j].ptr - 1)
    <2>1. ASSUME NEW j \in Held(lv2), j # id
          PROVE  lv2[j].size <= SizeAt(g, lv2[j].ptr - 1)
      <3>1. j \in Held(lv) \ {id} /\ lv2[j] = lv[j]
        BY <1>1, <2>1
      <3>2. SizeAt(g, lv[j].ptr - 1) = SizeAt(h, lv[j].ptr - 1)
        BY <1>4, <1>6, <3>1 DEF Kept
      <3>3. lv[j].size <= SizeAt(h, lv[j].ptr - 1)
        BY <3>1 DEF Owned
      <3>. QED BY <3>1, <3>2, <3>3
    <2>. QED BY <1>1, <2>1
  <1>10. \A j \in Ids \ Held(lv2) : lv2[j].size = 0
    BY <1>1 DEF Owned
  <1>11. ASSUME NEW j \in Ids \ {id}, NEW k \in 0 .. (Words(lv[j].size) - 1)
         PROVE  g.mem[lv[j].ptr + k] = h.mem[lv[j].ptr + k]
    <2>. DEFINE u == lv[j].ptr - 1
    <2>1. /\ Words(lv[j].size) \in Nat /\ lv[j].ptr \in Int /\ lv[j].ptr # NULL
      <3>1. k \in Int /\ 0 <= k /\ k <= Words(lv[j].size) - 1
        BY SoundHeld
      <3>2. lv[j].ptr # NULL
        BY <3>1, SoundHeld, WordsFacts
      <3>. QED BY <3>2, SoundHeld
    <2>2. u \in UsedHdrs(h) \ {old} /\ u \in h.hdrs
      BY <1>4, <2>1, SoundHeld
    <2>3. lv[j].ptr + Words(lv[j].size) <= NextOf(h, u) /\ NextOf(h, u) \in Int
      BY <2>1, <2>2, SoundHeld, SoundHeader
    <2>. DEFINE n == Words(lv[j].size)  q == lv[j].ptr  e == NextOf(h, u)
    <2>4. n \in Nat /\ q \in Int /\ e \in Int /\ q + n <= e /\ u = q - 1 /\ k \in 0 .. (n - 1)
      BY <2>1, <2>3
    <2>5. q + k \in u .. (e - 1)
      <3>. HIDE DEF n, q, e, u
      <3>. QED BY <2>4
    <2>. QED BY <2>2, <2>5, <1>6 DEF Kept
  <1>12. Owned(g, lv2)
    BY <1>7, <1>8, <1>9, <1>10 DEF Owned
  <1>. QED BY <1>1, <1>11, <1>12

-----------------------------------------------------------------------------
(* Writes that stay inside one block.                                      *)

\* What happens within the block at p leaves the other used blocks alone.
LEMMA SoundFrame ==
    ASSUME NEW h, Sound(h), NEW p \in h.hdrs, NEW g,
           \A a \in Addr : a < p \/ a >= NextOf(h, p) => g.mem[a] = h.mem[a]
    PROVE  \A u \in UsedHdrs(h) \ {p} : Kept(h, g, u)
  <1>. SUFFICES ASSUME NEW u \in UsedHdrs(h), u # p
                PROVE  Kept(h, g, u)
    OBVIOUS
  <1>. DEFINE e == NextOf(h, p)  f == NextOf(h, u)
  <1>1. /\ u \in h.hdrs /\ u \in Int /\ f \in Int /\ f >= u + 2 /\ f <= SegEnd /\ u \in Addr
        /\ p \in Int /\ e \in Int /\ e >= p + 2
    BY SoundHeader DEF UsedHdrs
  <1>2. u >= e \/ p >= f
    BY <1>1, SoundApart
  <1>3. ASSUME NEW a \in u .. (f - 1) PROVE g.mem[a] = h.mem[a]
    <2>. HIDE DEF e, f
    <2>1. a \in Int /\ u <= a /\ a < f
      BY <1>1
    <2>2. a \in Addr
      BY <1>1, <2>1, AddrFacts
    <2>3. a < p \/ a >= e
      BY <1>1, <1>2, <2>1
    <2>. QED BY <2>2, <2>3 DEF e
  <1>4. g.mem[u] = h.mem[u]
    <2>. HIDE DEF e, f
    <2>1. u \in u .. (f - 1)
      BY <1>1
    <2>. QED BY <1>3, <2>1
  <1>. QED BY <1>3, <1>4 DEF Kept, SizeAt, NextOf

\* From h to g only n bytes of memory, from the address after p on, are written.
Overwrites(h, g, p, n) ==
    /\ g.hdrs = h.hdrs /\ g.nheaders = h.nheaders /\ g.mem \in [Addr -> Int]
    /\ \A a \in Addr : a \notin (p + 1) .. (p + Words(n)) => g.mem[a] = h.mem[a]

LEMMA SoundWrite ==
    ASSUME NEW h, Sound(h), NEW p \in UsedHdrs(h), NEW n \in Nat, n <= SizeAt(h, p),
           NEW g, Overwrites(h, g, p, n)
    PROVE  /\ Sound(g) /\ UsedHdrs(g) = UsedHdrs(h) /\ FreeHdrs(g) = FreeHdrs(h)
           /\ \A q \in h.hdrs : SizeAt(g, q) = SizeAt(h, q) /\ NextOf(g, q) = NextOf(h, q)
           /\ p \in Int /\ Words(n) \in Nat /\ p + Words(n) < NextOf(h, p)
           /\ \A k \in 0 .. (Words(n) - 1) : p + 1 + k \in Addr
           /\ \A u \in UsedHdrs(h) \ {p} : Kept(h, g, u)
  <1>. DEFINE e == NextOf(h, p)
  <1>1. /\ p \in h.hdrs /\ p \in Int /\ e \in Int /\ SizeAt(h, p) = 8 * (e - p - 1)
        /\ e <= SegEnd /\ p \in Addr
    BY SoundHeader DEF UsedHdrs
  <1>2. Words(n) \in Nat /\ p + Words(n) < e
    <2>1. n <= 8 * (e - p - 1) /\ e - p - 1 \in Int
      BY <1>1
    <2>2. Words(n) \in Nat /\ Words(n) <= e - p - 1
      BY <2>1, WordsFacts
    <2>. HIDE DEF e
    <2>. QED BY <1>1, <2>2
  <1>. HIDE DEF e
  <1>3. ASSUME NEW a \in Addr, a <= p \/ a >= e PROVE g.mem[a] = h.mem[a]
    <2>1. a \in Int
      BY AddrFacts
    <2>2. a \notin (p + 1) .. (p + Words(n))
      BY <1>1, <1>2, <1>3, <2>1
    <2>. QED BY <2>2 DEF Overwrites
  <1>4. ASSUME NEW q \in h.hdrs PROVE g.mem[q] = h.mem[q]
    <2>1. q \in Addr /\ q \in Int /\ NextOf(h, q) \in Int /\ NextOf(h, q) >= q + 2
      BY SoundHeader
    <2>2. q = p \/ q >= e \/ p >= NextOf(h, q)
      BY <1>1, SoundApart DEF e
    <2>3. q <= p \/ q >= e
      BY <1>1, <2>1, <2>2
    <2>. QED BY <1>3, <2>1, <2>3
  <1>5. \A q \in h.hdrs : SizeAt(g, q) = SizeAt(h, q) /\ Status(g.mem[q]) \in {0, 1}
    BY <1>4, SoundHeader DEF SizeAt
  <1>6. g.mem \in [Addr -> Int] /\ g.hdrs = h.hdrs /\ g.nheaders = h.nheaders
    BY DEF Overwrites
  <1>7. Sound(g) /\ \A q \in h.hdrs : NextOf(g, q) = NextOf(h, q)
    BY <1>5, <1>6, SoundMark
  <1>8. UsedHdrs(g) = UsedHdrs(h) /\ FreeHdrs(g) = FreeHdrs(h)
    BY <1>4, <1>6 DEF UsedHdrs, FreeHdrs
  <1>9. \A u \in UsedHdrs(h) \ {p} : Kept(h, g, u)
    <2>1. \A a \in Addr : a < p \/ a >= NextOf(h, p) => g.mem[a] = h.mem[a]
      <3>1. \A a \in Addr : a < p => a <= p
        BY <1>1, AddrFacts
      <3>. QED BY <1>3, <3>1 DEF e
    <2>. QED BY <1>1, <2>1, SoundFrame
  <1>10. ASSUME NEW k \in 0 .. (Words(n) - 1) PROVE p + 1 + k \in Addr
    BY <1>1, <1>2, AddrFacts
  <1>. QED BY <1>1, <1>2, <1>5, <1>7, <1>8, <1>9, <1>10 DEF e

\* n bytes are copied from the block at old to the block at p.
Copies(h, g, p, old, n) ==
    /\ g.hdrs = h.hdrs /\ g.nheaders = h.nheaders
    /\ g.mem = [a \in Addr |-> IF a \in (p + 1) .. ((p + 1) + Words(n) - 1)
                               THEN h.mem[(old + 1) + (a - (p + 1))] ELSE h.mem[a]]

LEMMA SoundCopy ==
    ASSUME NEW h, Sound(h), NEW p \in UsedHdrs(h), NEW old \in UsedHdrs(h),
           NEW n \in Nat, n <= SizeAt(h, p), n <= SizeAt(h, old),
           NEW g, Copies(h, g, p, old, n)
    PROVE  /\ Overwrites(h, g, p, n)
           /\ \A k \in 0 .. (Words(n) - 1) : g.mem[p + 1 + k] = h.mem[old + 1 + k]
  <1>. DEFINE e == NextOf(h, old)  w == Words(n)
  <1>1. /\ old \in Int /\ e \in Int /\ e <= SegEnd /\ old \in Addr
        /\ SizeAt(h, old) = 8 * (e - old - 1)
        /\ h.mem \in [Addr -> Int]
    BY SoundHeader DEF UsedHdrs, Sound
  <1>2. /\ p \in Int /\ p \in Addr /\ NextOf(h, p) \in Int /\ NextOf(h, p) <= SegEnd
        /\ SizeAt(h, p) = 8 * (NextOf(h, p) - p - 1)
    BY SoundHeader DEF UsedHdrs
  <1>3. w \in Nat /\ w <= e - old - 1
    <2>1. n <= 8 * (e - old - 1) /\ e - old - 1 \in Int
      BY <1>1
    <2>. QED BY <2>1, WordsFacts
  <1>4. w <= NextOf(h, p) - p - 1
    <2>1. n <= 8 * (NextOf(h, p) - p - 1) /\ NextOf(h, p) - p - 1 \in Int
      BY <1>2
    <2>. QED BY <2>1, WordsFacts
  <1>. HIDE DEF e, w
  <1>5. \A k \in 0 .. (w - 1) : old + 1 + k \in Addr /\ p + 1 + k \in Addr
    BY <1>1, <1>2, <1>3, <1>4, AddrFacts
  <1>6. ASSUME NEW a \in Addr, a \in (p + 1) .. ((p + 1) + w - 1)
        PROVE  (old + 1) + (a - (p + 1)) \in Addr
    <2>1. a - (p + 1) \in 0 .. (w - 1)
      BY <1>2, <1>3, <1>6
    <2>. QED BY <1>5, <2>1
  <1>7. (p + 1) + w - 1 = p + w
    BY <1>2, <1>3
  <1>8. g.mem \in [Addr -> Int]
    BY <1>1, <1>6 DEF Copies, w
  <1>9. Overwrites(h, g, p, n)
    BY <1>7, <1>8 DEF Copies, Overwrites, w
  <1>10. ASSUME NEW k \in 0 .. (w - 1) PROVE g.mem[p + 1 + k] = h.mem[old + 1 + k]
    <2>1. /\ p + 1 + k \in (p + 1) .. ((p + 1) + w - 1)
          /\ (old + 1) + ((p + 1 + k) - (p + 1)) = old + 1 + k
      BY <1>1, <1>2, <1>3
    <2>2. p + 1 + k \in Addr
      BY <1>5
    <2>. QED BY <2>1, <2>2 DEF Copies, w
  <1>. QED BY <1>9, <1>10 DEF w

-----------------------------------------------------------------------------
(* Induction, for the loops of the heap checkers.                           *)

LEMMA LeastNatural ==
    ASSUME NEW T, T \subseteq Nat, T # {}
    PROVE  \E x \in T : \A y \in T : x <= y
  <1>1. PICK x \in T : \A y \in T : ~ (<<y, x>> \in OpToRel(<, Nat))
    BY NatLessThanWellFounded, WFMin
  <1>2. \A y \in T : ~(y < x)
    BY <1>1 DEF OpToRel
  <1>. QED BY <1>2

LEMMA IntervalInduction ==
    ASSUME NEW n \in Nat, NEW S, 0 \in S, \A i \in 0 .. (n - 1) : i \in S => i + 1 \in S
    PROVE  0 .. n \subseteq S
  <1>. DEFINE T == {i \in 0 .. n : i \notin S}
  <1>1. SUFFICES ASSUME T # {}
                 PROVE  FALSE
    OBVIOUS
  <1>2. PICK x \in T : \A y \in T : x <= y
    <2>1. T \subseteq Nat
      OBVIOUS
    <2>. HIDE DEF T
    <2>. QED BY <1>1, <2>1, LeastNatural
  <1>3. x \in 1 .. n /\ x - 1 \in 0 .. (n - 1) /\ x - 1 \notin T
    BY <1>2
  <1>4. x = (x - 1) + 1
    BY <1>3
  <1>. QED BY <1>2, <1>3, <1>4

\* f[i] is what i applications of step make of base, for i up to n.
Iterates(n, D, base, step, f) ==
    /\ f \in [0 .. n -> D]
    /\ f[0] = base
    /\ \A i \in 0 .. (n - 1) : f[i + 1] = step[f[i]]

\* A function defined by recursion on the number of steps exists.
LEMMA IterationExists ==
    ASSUME NEW n \in Nat, NEW D, NEW base \in D, NEW step \in [D -> D]
    PROVE  \E f : Iterates(n, D, base, step, f)
  <1>. DEFINE Upto(k, f) == f[0] = base /\ \A i \in 0 .. (k - 1) : f[i + 1] = step[f[i]]
              S == {k \in Nat : \E f \in [0 .. k -> D] : Upto(k, f)}
  <1>1. 0 \in S
    <2>1. [i \in 0 .. 0 |-> base] \in [0 .. 0 -> D] /\ Upto(0, [i \in 0 .. 0 |-> base])
      OBVIOUS
    <2>. QED BY <2>1
  <1>2. ASSUME NEW k \in 0 .. (n - 1), k \in S
        PROVE  k + 1 \in S
    <2>1. PICK f \in [0 .. k -> D] : Upto(k, f)
      BY <1>2
    <2>. DEFINE g == [i \in 0 .. (k + 1) |-> IF i = k + 1 THEN step[f[k]] ELSE f[i]]
    <2>2. k \in Nat /\ f[k] \in D
      OBVIOUS
    <2>3. g \in [0 .. (k + 1) -> D]
      BY <2>2
    <2>4. g[0] = base
      BY <2>1, <2>2
    <2>5. ASSUME NEW i \in 0 .. k
          PROVE  g[i + 1] = step[g[i]]
      <3>1. CASE i = k
        BY <2>2, <3>1
      <3>2. CASE i # k
        <4>1. i \in 0 .. (k - 1) /\ i + 1 \in 0 .. k /\ i + 1 # k + 1 /\ i # k + 1
          BY <2>2, <3>2
        <4>. QED BY <2>1, <2>2, <4>1
      <3>. QED BY <3>1, <3>2
    <2>6. Upto(k + 1, g)
      <3>1. (k + 1) - 1 = k
        BY <2>2
      <3>. HIDE DEF g
      <3>. QED BY <2>4, <2>5, <3>1
    <2>. HIDE DEF g, Upto
    <2>. QED BY <2>2, <2>3, <2>6
  <1>3. 0 .. n \subseteq S
    <2>. HIDE DEF S
    <2>. QED BY <1>1, <1>2, IntervalInduction
  <1>4. PICK f \in [0 .. n -> D] : Upto(n, f)
    <2>1. n \in S
      BY <1>3
    <2>. HIDE DEF Upto
    <2>. QED BY <2>1
  <1>. QED BY <1>4 DEF Iterates

-----------------------------------------------------------------------------
(* The loops over the headers count those they leave behind.                *)

Before(h, p) == {q \in h.hdrs : q < p}

LEMMA BeforeFacts ==
    ASSUME NEW h, Sound(h), NEW p \in h.hdrs
    PROVE  /\ IsFiniteSet(Before(h, p)) /\ Cardinality(Before(h, p)) \in Nat
           /\ p \notin Before(h, p)
           /\ Cardinality(Before(h, p) \cup {p}) = Cardinality(Before(h, p)) + 1
  <1>1. p \in Int
    BY SoundHeader
  <1>2. IsFiniteSet(h.hdrs) /\ Before(h, p) \subseteq h.hdrs
    BY SoundCount DEF Before
  <1>3. IsFiniteSet(Before(h, p))
    BY <1>2, FS_Subset
  <1>4. p \notin Before(h, p)
    BY <1>1 DEF Before
  <1>. QED BY <1>3, <1>4, FS_CardinalityType, FS_AddElement

LEMMA BeforeFirst ==
    ASSUME NEW h, Sound(h)
    PROVE  SegStart \in h.hdrs /\ Before(h, SegStart) = {}
  BY AddrFacts DEF Sound, Tiled, Before

\* The loop is at the last block when the count says so.
LEMMA BeforeLast ==
    ASSUME NEW h, Sound(h), NEW p \in h.hdrs,
           Cardinality(Before(h, p)) = h.nheaders - 1
    PROVE  \A q \in h.hdrs : q < p \/ q = p
  <1>. DEFINE T == Before(h, p) \cup {p}
  <1>1. IsFiniteSet(h.hdrs) /\ h.nheaders = Cardinality(h.hdrs)
    BY SoundCount
  <1>2. T \subseteq h.hdrs
    BY DEF Before
  <1>3. Cardinality(T) = Cardinality(Before(h, p)) + 1 /\ Cardinality(Before(h, p)) \in Nat
    BY BeforeFacts
  <1>4. Cardinality(h.hdrs) \in Nat
    BY <1>1, FS_CardinalityType
  <1>5. Cardinality(T) = Cardinality(h.hdrs)
    <2>. HIDE DEF T
    <2>. QED BY <1>1, <1>3, <1>4
  <1>6. h.hdrs = T
    <2>. HIDE DEF T
    <2>. QED BY <1>1, <1>2, <1>5, FS_Subset
  <1>. QED BY <1>6 DEF Before

\* One step of such a loop has one more header behind it.
LEMMA BeforeStep ==
    ASSUME NEW h, Sound(h), NEW p \in h.hdrs
    PROVE  /\ Before(h, NextOf(h, p)) = Before(h, p) \cup {p}
           /\ Cardinality(Before(h, NextOf(h, p))) = Cardinality(Before(h, p)) + 1
  <1>. DEFINE e == NextOf(h, p)
  <1>1. p \in Int /\ e \in Int /\ e >= p + 2 /\ \A q \in h.hdrs : q \in Int
    BY SoundHeader
  <1>2. \A q \in h.hdrs : q > p => q >= e
    BY DEF Sound, Tiled
  <1>. HIDE DEF e
  <1>3. \A q \in h.hdrs : q < e <=> q < p \/ q = p
    BY <1>1, <1>2
  <1>4. Before(h, e) = Before(h, p) \cup {p}
    BY <1>3 DEF Before
  <1>. QED BY <1>4, BeforeFacts DEF e

\* All headers lie before the end of the segment.
LEMMA BeforeEnd ==
    ASSUME NEW h, Sound(h)
    PROVE  /\ Before(h, SegEnd) = h.hdrs
           /\ \A p \in h.hdrs : Cardinality(Before(h, p)) < h.nheaders
  <1>1. \A q \in h.hdrs : q < SegEnd
    BY SoundHeader, AddrFacts
  <1>2. Before(h, SegEnd) = h.hdrs
    BY <1>1 DEF Before
  <1>3. ASSUME NEW p \in h.hdrs
        PROVE  Cardinality(Before(h, p)) < h.nheaders
    <2>1. Before(h, p) \cup {p} \subseteq h.hdrs
      BY DEF Before
    <2>2. /\ Cardinality(Before(h, p) \cup {p}) = Cardinality(Before(h, p)) + 1
          /\ Cardinality(Before(h, p)) \in Nat
      BY BeforeFacts
    <2>3. Cardinality(Before(h, p) \cup {p}) <= Cardinality(h.hdrs)
      BY <2>1, SoundCount, FS_Subset
    <2>4. Cardinality(h.hdrs) \in Nat /\ h.nheaders = Cardinality(h.hdrs)
      BY SoundCount, FS_CardinalityType
    <2>. QED BY <2>2, <2>3, <2>4
  <1>. QED BY <1>2, <1>3

\* Unless the loop is there the next block exists.
LEMMA BeforeNext ==
    ASSUME NEW h, Sound(h), NEW p \in h.hdrs,
           Cardinality(Before(h, p)) # h.nheaders - 1
    PROVE  /\ NextOf(h, p) \in h.hdrs
           /\ Before(h, NextOf(h, p)) = Before(h, p) \cup {p}
           /\ Cardinality(Before(h, NextOf(h, p))) = Cardinality(Before(h, p)) + 1
  <1>1. NextOf(h, p) # SegEnd
    <2>1. /\ Cardinality(Before(h, NextOf(h, p))) = Cardinality(Before(h, p)) + 1
          /\ Cardinality(Before(h, p)) \in Nat
      BY BeforeStep, BeforeFacts
    <2>2. Cardinality(Before(h, SegEnd)) = h.nheaders
      BY BeforeEnd, SoundCount
    <2>. QED BY <2>1, <2>2
  <1>. QED BY <1>1, BeforeStep, SoundHeader

\* A loop that goes from header to header stands on a new one until it has
\* passed them all, and then at the end of the segment: c[i] is where it stands
\* after i steps.
LEMMA HeaderLoop ==
    ASSUME NEW h, Sound(h), NEW c, c[0] = SegStart,
           \A i \in 0 .. (h.nheaders - 1) : c[i] \in h.hdrs => c[i + 1] = NextOf(h, c[i])
    PROVE  /\ h.nheaders \in Nat
           /\ \A i \in 0 .. (h.nheaders - 1) : c[i] \in h.hdrs
           /\ c[h.nheaders] = SegEnd
  <1>. DEFINE n == h.nheaders
              S == {i \in 0 .. n : /\ c[i] \in h.hdrs \cup {SegEnd}
                                   /\ Cardinality(Before(h, c[i])) = i}
  <1>1. n \in Nat /\ n = Cardinality(Before(h, SegEnd))
    BY SoundCount, FS_CardinalityType, BeforeEnd
  <1>2. 0 \in S
    BY <1>1, BeforeFirst, FS_EmptySet
  <1>3. ASSUME NEW i \in 0 .. (n - 1), i \in S
        PROVE  c[i] \in h.hdrs /\ i + 1 \in S
    <2>1. i \in Int /\ i # n /\ i + 1 \in 0 .. n
      BY <1>1
    <2>2. c[i] \in h.hdrs
      BY <1>1, <1>3, <2>1
    <2>3. c[i + 1] = NextOf(h, c[i])
      BY <2>2
    <2>. QED BY <1>3, <2>1, <2>2, <2>3, BeforeStep, SoundHeader
  <1>4. 0 .. n \subseteq S
    <2>. HIDE DEF S, n
    <2>. QED BY <1>1, <1>2, <1>3, IntervalInduction
  <1>5. c[n] \in h.hdrs \cup {SegEnd} /\ Cardinality(Before(h, c[n])) = n
    BY <1>1, <1>4
  <1>6. c[n] \notin h.hdrs
    <2>1. \A p \in h.hdrs : Cardinality(Before(h, p)) # n
      BY <1>1, BeforeEnd
    <2>. QED BY <1>5, <2>1
  <1>. QED BY <1>1, <1>3, <1>4, <1>5, <1>6

=============================================================================
