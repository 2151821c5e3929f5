-------------------------- MODULE ImplicitHeapProofs --------------------------
(***************************************************************************)
(* Theorems about ImplicitHeap, for every segment size, every set of       *)
(* identifiers and every set of request sizes.                             *)
(***************************************************************************)
EXTENDS ImplicitHeap, HeapWordsProofs, TLAPS, FiniteSetTheorems

LEMMA RoundupFacts ==
    ASSUME NEW n \in Nat
    PROVE  /\ roundup(n, ALIGNMENT) \in Nat
           /\ roundup(n, ALIGNMENT) >= n
           /\ roundup(n, ALIGNMENT) % 8 = 0
           /\ n > 0 => roundup(n, ALIGNMENT) >= 8
  BY DEF roundup, ALIGNMENT

-----------------------------------------------------------------------------
(* The operations on a whole heap.                                         *)

HeapOK(h) == h \in HeapType /\ Tiled(h)

LEMMA HeapSound ==
    ASSUME NEW h, HeapOK(h) PROVE Sound(h)
  BY DEF HeapOK, HeapType, Sound

\* The heap that myinit leaves, whatever the segment held.
LEMMA MyInit ==
    ASSUME NEW m \in [Addr -> Int], NEW g, g = myinit(m)
    PROVE  HeapOK(g) /\ UsedHdrs(g) = {}
  <1>. DEFINE w == HeapSize - 8
  <1>1. /\ SegStart \in Nat \ {0} /\ HeapSize \in Nat /\ HeapSize % 8 = 0 /\ HeapSize >= 24
        /\ SegEnd = SegStart + HeapSize \div 8
    BY HeapAssumption DEF HEADER_SIZE, SegEnd
  <1>2. SegStart \in Addr
    BY <1>1, AddrFacts
  <1>3. /\ w \in Int /\ w % 8 = 0 /\ Masked(w) = w /\ Status(w) = 0 /\ w >= 8
        /\ SegStart + w \div 8 + 1 = SegEnd
    BY <1>1 DEF Masked, Status
  <1>. HIDE DEF w
  <1>4. /\ g.mem \in [Addr -> Int] /\ g.mem[SegStart] = w
        /\ g.nheaders = 1 /\ g.hdrs = {SegStart}
    BY <1>2, <1>3 DEF myinit, w, HEADER_SIZE
  <1>5. g \in HeapType
    <2>1. g = [mem |-> g.mem, nheaders |-> g.nheaders, hdrs |-> g.hdrs]
      BY DEF myinit
    <2>2. g.nheaders \in Nat /\ g.hdrs \subseteq Addr
      BY <1>2, <1>4
    <2>. QED BY <1>4, <2>1, <2>2 DEF HeapType
  <1>6. SizeAt(g, SegStart) = w /\ NextOf(g, SegStart) = SegEnd
    BY <1>3, <1>4 DEF SizeAt, NextOf, HEADER_SIZE
  <1>7. Tiled(g)
    <2>1. Cardinality(g.hdrs) = 1
      BY <1>4, FS_Singleton
    <2>. QED BY <1>1, <1>3, <1>4, <1>6, <2>1 DEF Tiled, StatusFree, StatusUsed, HEADER_SIZE
  <1>8. UsedHdrs(g) = {}
    BY <1>3, <1>4 DEF UsedHdrs, StatusUsed
  <1>. QED BY <1>5, <1>7, <1>8 DEF HeapOK

\* mymalloc hands out the free block at p.
LEMMA Place ==
    ASSUME NEW h, HeapOK(h), NEW p \in FreeHdrs(h),
           NEW needed \in Nat, needed % 8 = 0, needed >= 8, needed <= SizeAt(h, p),
           NEW g, g = place(h, p, needed)
    PROVE  /\ HeapOK(g) /\ SizeAt(g, p) >= needed /\ p \in Int /\ p + 1 \in Addr
           /\ UsedHdrs(g) = UsedHdrs(h) \cup {p} /\ p \notin UsedHdrs(h)
           /\ \A u \in UsedHdrs(h) : Kept(h, g, u)
  <1>. DEFINE size == SizeAt(h, p)
              e    == NextOf(h, p)
              rest == p + needed \div 8 + 1
  <1>1. /\ Sound(h) /\ p \in h.hdrs /\ p \notin UsedHdrs(h) /\ Status(h.mem[p]) = 0
        /\ h.mem \in [Addr -> Int] /\ h \in HeapType
    BY HeapSound DEF FreeHdrs, UsedHdrs, StatusFree, StatusUsed, HeapOK, HeapType
  <1>2. /\ p \in Int /\ p \in Addr /\ p + 1 \in Addr /\ h.mem[p] \in Int
        /\ size \in Int /\ e \in Int /\ e <= SegEnd
        /\ size = 8 * (e - p - 1) /\ size >= 8 /\ h.mem[p] = size
    BY <1>1, SoundHeader
  <1>3. CASE needed >= size - 8
    <2>1. /\ g = [h EXCEPT !.mem = g.mem] /\ g.hdrs = h.hdrs /\ g.nheaders = h.nheaders
          /\ g.mem = [h.mem EXCEPT ![p] = SetUsed(h.mem[p])]
      BY <1>1, <1>3 DEF place, HEADER_SIZE, HeapType
    <2>2. SetUsed(h.mem[p]) \in Int /\ Status(SetUsed(h.mem[p])) = 1
          /\ Masked(SetUsed(h.mem[p])) = Masked(h.mem[p])
      BY <1>1, <1>2, WordFacts
    <2>3. /\ g.mem \in [Addr -> Int] /\ g \in HeapType
          /\ Status(g.mem[p]) = 1 /\ SizeAt(g, p) = size
          /\ \A a \in Addr : a # p => g.mem[a] = h.mem[a]
      BY <1>1, <1>2, <2>1, <2>2 DEF HeapType, SizeAt
    <2>4. \A q \in h.hdrs : SizeAt(g, q) = SizeAt(h, q) /\ Status(g.mem[q]) \in {0, 1}
      BY <1>1, <2>3, SoundHeader DEF SizeAt
    <2>5. Sound(g) /\ \A q \in h.hdrs : NextOf(g, q) = NextOf(h, q)
      <3>1. g.hdrs = h.hdrs /\ g.nheaders = h.nheaders
        BY <2>1
      <3>2. g.mem \in [Addr -> Int]
        BY <2>3
      <3>. HIDE DEF size, e, rest
      <3>. QED BY <1>1, <2>4, <3>1, <3>2, SoundMark
    <2>6. UsedHdrs(g) = UsedHdrs(h) \cup {p}
      BY <1>1, <2>1, <2>3 DEF UsedHdrs, StatusUsed, HeapType
    <2>7. \A a \in Addr : a < p \/ a >= e => g.mem[a] = h.mem[a]
      <3>1. e > p
        <4>. HIDE DEF e, size
        <4>. QED BY <1>2
      <3>2. \A a \in Addr : a < p \/ a >= e => a # p
        BY <1>2, <3>1, AddrFacts
      <3>. QED BY <2>3, <3>2
    <2>8. \A u \in UsedHdrs(h) \ {p} : Kept(h, g, u)
      BY <1>1, <2>7, SoundFrame
    <2>. QED BY <1>1, <1>2, <2>3, <2>5, <2>6, <2>8 DEF HeapOK, Sound
  <1>4. CASE ~(needed >= size - 8)
    <2>1. g = [mem      |-> [h.mem EXCEPT ![p] = SetUsed(needed), ![rest] = size - 8 - needed],
               nheaders |-> h.nheaders + 1, hdrs |-> h.hdrs \cup {rest}]
      BY <1>4 DEF place, HEADER_SIZE
    <2>2. /\ SetUsed(needed) = needed + 1 /\ SetUsed(needed) \in Int
          /\ Masked(SetUsed(needed)) = needed /\ Status(SetUsed(needed)) = 1
      BY DEF SetUsed, Masked, Status
    <2>. HIDE DEF size, e
    <2>3. size % 8 = 0 /\ size - needed - 8 >= 8 /\ (size - 8 - needed) % 8 = 0
      BY <1>2, <1>4
    <2>4. Masked(size - 8 - needed) = size - 8 - needed /\ Status(size - 8 - needed) = 0
          /\ size - 8 - needed \in Int
      BY <1>2, <2>3 DEF Masked, Status
    <2>5. rest \in Int /\ rest >= p + 2 /\ rest < e
      BY <1>2, <2>3
    <2>. HIDE DEF rest
    <2>6. rest \in Addr /\ rest # p
      BY <1>2, <2>5, AddrFacts
    <2>7. /\ g.mem \in [Addr -> Int] /\ g.hdrs = h.hdrs \cup {rest}
          /\ g.nheaders = h.nheaders + 1
          /\ g.mem[p] = SetUsed(needed) /\ g.mem[rest] = size - 8 - needed
          /\ \A a \in Addr : a # p /\ a # rest => g.mem[a] = h.mem[a]
      BY <1>1, <1>2, <2>1, <2>2, <2>4, <2>6
    <2>8. g \in HeapType
      <3>1. g = [mem |-> g.mem, nheaders |-> g.nheaders, hdrs |-> g.hdrs]
        BY <2>1
      <3>2. g.nheaders \in Nat /\ g.hdrs \subseteq Addr
        BY <1>1, <2>6, <2>7 DEF HeapType
      <3>. QED BY <2>7, <3>1, <3>2 DEF HeapType
    <2>9. \A a \in Addr : a < p \/ a >= e => g.mem[a] = h.mem[a]
      <3>1. \A a \in Addr : a < p \/ a >= e => a # p /\ a # rest
        BY <1>2, <2>5, AddrFacts
      <3>. QED BY <2>7, <3>1
    <2>10. \A q \in h.hdrs \ {p} : g.mem[q] = h.mem[q] /\ q # rest
      <3>1. ASSUME NEW q \in h.hdrs, q # p PROVE q < p \/ q >= e
        <4>1. q \in Int /\ NextOf(h, q) \in Int /\ NextOf(h, q) >= q + 2
          BY <1>1, SoundHeader
        <4>2. q >= e \/ p >= NextOf(h, q)
          BY <1>1, <3>1, SoundApart DEF e
        <4>. QED BY <1>2, <4>1, <4>2
      <3>2. h.hdrs \subseteq Addr
        BY <1>1 DEF Sound
      <3>3. ASSUME NEW q \in h.hdrs \ {p} PROVE q # rest
        BY <2>5, <3>1, <3>3, <1>2, <3>2, AddrFacts
      <3>. QED BY <2>9, <3>1, <3>2, <3>3
    <2>11. /\ SizeAt(g, p) = needed /\ Status(g.mem[p]) = 1
           /\ SizeAt(g, rest) = SizeAt(h, p) - needed - 8 /\ Status(g.mem[rest]) = 0
      BY <1>2, <2>2, <2>4, <2>7 DEF SizeAt, size
    <2>12. Sound(g)
      <3>1. SizeAt(h, p) - needed - 8 >= 8
        BY <2>3 DEF size
      <3>2. Status(g.mem[p]) \in {0, 1} /\ Status(g.mem[rest]) \in {0, 1}
        BY <2>11
      <3>3. g.hdrs \subseteq Addr /\ \A q \in h.hdrs \ {p} : g.mem[q] = h.mem[q]
        BY <2>8, <2>10 DEF HeapType
      <3>4. rest = p + needed \div 8 + 1
        BY DEF rest
      <3>. QED BY <1>1, <2>7, <2>11, <3>1, <3>2, <3>3, <3>4, SoundSplit
    <2>13. UsedHdrs(g) = UsedHdrs(h) \cup {p}
      BY <1>1, <2>7, <2>10, <2>11 DEF UsedHdrs, StatusUsed
    <2>14. \A u \in UsedHdrs(h) \ {p} : Kept(h, g, u)
      BY <1>1, <2>9, SoundFrame DEF e
    <2>. QED BY <1>1, <1>2, <2>8, <2>11, <2>12, <2>13, <2>14 DEF HeapOK, Sound
  <1>. QED BY <1>3, <1>4

LEMMA MyFree ==
    ASSUME NEW h, HeapOK(h), NEW p \in UsedHdrs(h), NEW ptr, ptr # NULL, p = ptr - 1,
           NEW g, g = myfree(h, ptr)
    PROVE  /\ HeapOK(g) /\ UsedHdrs(g) = UsedHdrs(h) \ {p}
           /\ \A u \in UsedHdrs(h) \ {p} : Kept(h, g, u)
  <1>1. /\ Sound(h) /\ p \in h.hdrs /\ h.mem \in [Addr -> Int] /\ h \in HeapType
        /\ h.hdrs \subseteq Addr
    BY HeapSound DEF UsedHdrs, HeapOK, HeapType
  <1>2. p \in Int /\ p \in Addr /\ h.mem[p] \in Int /\ NextOf(h, p) \in Int
        /\ NextOf(h, p) >= p + 2
    BY <1>1, SoundHeader
  <1>3. /\ g.hdrs = h.hdrs /\ g.nheaders = h.nheaders
        /\ g.mem = [h.mem EXCEPT ![p] = Masked(h.mem[p])]
        /\ g = [h EXCEPT !.mem = g.mem]
    BY <1>1 DEF myfree, HeapType
  <1>4. Masked(h.mem[p]) \in Int /\ Status(Masked(h.mem[p])) = 0
        /\ Masked(Masked(h.mem[p])) = Masked(h.mem[p])
    BY <1>2, WordFacts
  <1>5. /\ g.mem \in [Addr -> Int] /\ g \in HeapType
        /\ Status(g.mem[p]) = 0 /\ SizeAt(g, p) = SizeAt(h, p)
        /\ \A a \in Addr : a # p => g.mem[a] = h.mem[a]
    BY <1>1, <1>2, <1>3, <1>4 DEF HeapType, SizeAt
  <1>6. \A q \in h.hdrs : SizeAt(g, q) = SizeAt(h, q) /\ Status(g.mem[q]) \in {0, 1}
    BY <1>1, <1>5, SoundHeader DEF SizeAt
  <1>7. Sound(g)
    BY <1>1, <1>3, <1>5, <1>6, SoundMark
  <1>8. UsedHdrs(g) = UsedHdrs(h) \ {p}
    BY <1>1, <1>3, <1>5 DEF UsedHdrs, StatusUsed
  <1>9. \A a \in Addr : a < p \/ a >= NextOf(h, p) => g.mem[a] = h.mem[a]
    <2>1. \A a \in Addr : a < p \/ a >= NextOf(h, p) => a # p
      BY <1>2, AddrFacts
    <2>. QED BY <1>5, <2>1
  <1>10. \A u \in UsedHdrs(h) \ {p} : Kept(h, g, u)
    BY <1>1, <1>9, SoundFrame
  <1>. QED BY <1>5, <1>7, <1>8, <1>10 DEF HeapOK, Sound

\* myrealloc's move: a new block, the copy, and the old block freed.
Moves(h, g, p, needed, old, n) ==
    g = myfree(memcpy(place(h, p, needed), p + 1, old + 1, n), old + 1)

\* The first n bytes of the block at p in g are those of the one at old in h.
SameWords(h, g, old, p, n) ==
    \A k \in 0 .. (Words(n) - 1) : g.mem[p + 1 + k] = h.mem[old + 1 + k]

LEMMA MoveHandover ==
    ASSUME NEW h, HeapOK(h), NEW p \in FreeHdrs(h), NEW old \in UsedHdrs(h),
           NEW needed \in Nat, needed % 8 = 0, needed >= 8, needed <= SizeAt(h, p),
           NEW n \in Nat, n <= needed, n <= SizeAt(h, old),
           NEW g, Moves(h, g, p, needed, old, n)
    PROVE  /\ HeapOK(g) /\ Handover(h, g, old, {p}) /\ SizeAt(g, p) >= needed
           /\ SameWords(h, g, old, p, n)
  <1>. DEFINE h1 == place(h, p, needed)
              h2 == memcpy(h1, p + 1, old + 1, n)
  <1>1. /\ HeapOK(h1) /\ SizeAt(h1, p) >= needed /\ p \in Int
        /\ UsedHdrs(h1) = UsedHdrs(h) \cup {p} /\ p \notin UsedHdrs(h)
        /\ \A u \in UsedHdrs(h) : Kept(h, h1, u)
    BY Place
  <1>2. p \in UsedHdrs(h1) /\ old \in UsedHdrs(h1) /\ p # old
    BY <1>1
  <1>3. /\ g = myfree(h2, old + 1)
        /\ h2 = [h1 EXCEPT !.mem = [a \in Addr |-> IF a \in (p + 1) .. ((p + 1) + Words(n) - 1)
                               THEN h1.mem[(old + 1) + (a - (p + 1))] ELSE h1.mem[a]]]
    BY DEF memcpy, Moves
  <1>. HIDE DEF h1
  <1>4. Copies(h1, h2, p, old, n)
    BY <1>1, <1>3 DEF Copies, HeapOK, HeapType
  <1>5. h2 = [h1 EXCEPT !.mem = h2.mem]
    BY <1>1, <1>3 DEF HeapOK, HeapType
  <1>. HIDE DEF h2
  <1>6. Kept(h, h1, old) /\ SizeAt(h1, old) = SizeAt(h, old)
    BY <1>1 DEF Kept
  <1>7. /\ SizeAt(h1, p) \in Int /\ old \in Int /\ old \in Addr
        /\ NextOf(h, old) \in Int /\ NextOf(h, old) <= SegEnd
    BY <1>1, <1>2, HeapSound, SoundHeader DEF UsedHdrs
  <1>8. n <= SizeAt(h1, p) /\ n <= SizeAt(h1, old) /\ Sound(h1)
    BY <1>1, <1>6, <1>7, HeapSound
  <1>9. /\ Overwrites(h1, h2, p, n)
        /\ \A k \in 0 .. (Words(n) - 1) : h2.mem[p + 1 + k] = h1.mem[old + 1 + k]
    BY <1>2, <1>4, <1>8, SoundCopy
  <1>10. /\ Sound(h2) /\ UsedHdrs(h2) = UsedHdrs(h1)
         /\ SizeAt(h2, p) = SizeAt(h1, p) /\ NextOf(h2, p) = NextOf(h1, p)
         /\ Words(n) \in Nat /\ p + Words(n) < NextOf(h1, p) /\ NextOf(h1, p) \in Int
         /\ \A u \in UsedHdrs(h1) \ {p} : Kept(h1, h2, u)
    <2>1. p \in h1.hdrs
      BY <1>2 DEF UsedHdrs
    <2>. QED BY <1>2, <1>8, <1>9, <2>1, SoundWrite, SoundHeader
  <1>11. HeapOK(h2)
    BY <1>1, <1>5, <1>10 DEF HeapOK, HeapType, Sound
  <1>12. /\ HeapOK(g) /\ UsedHdrs(g) = UsedHdrs(h2) \ {old}
         /\ \A u \in UsedHdrs(h2) \ {old} : Kept(h2, g, u)
    <2>1. old + 1 # NULL /\ old = (old + 1) - 1
      BY <1>7, AddrFacts
    <2>. QED BY <1>2, <1>3, <1>10, <1>11, <2>1, MyFree DEF h2
  <1>13. ASSUME NEW u \in UsedHdrs(h) \ {old} PROVE Kept(h, g, u)
    <2>1. Kept(h, h1, u) /\ Kept(h1, h2, u) /\ Kept(h2, g, u)
      BY <1>1, <1>10, <1>12
    <2>2. Kept(h, h2, u)
      BY <2>1, KeptTrans
    <2>. QED BY <2>1, <2>2, KeptTrans
  <1>14. Kept(h2, g, p)
    BY <1>2, <1>10, <1>12
  <1>15. SizeAt(g, p) >= needed
    BY <1>1, <1>10, <1>14 DEF Kept
  <1>16. ASSUME NEW k \in 0 .. (Words(n) - 1)
         PROVE  g.mem[p + 1 + k] = h.mem[old + 1 + k]
    <2>. DEFINE e == NextOf(h1, p)  f == NextOf(h, old)
    <2>1. p + 1 + k \in p .. (e - 1)
      <3>1. e \in Int /\ p + Words(n) < e
        BY <1>10
      <3>. HIDE DEF e
      <3>. QED BY <1>1, <1>10, <3>1
    <2>2. g.mem[p + 1 + k] = h2.mem[p + 1 + k]
      BY <1>10, <1>14, <2>1 DEF Kept
    <2>3. old + 1 + k \in old .. (f - 1)
      <3>1. f \in Int /\ n <= SizeAt(h, old) /\ SizeAt(h, old) = 8 * (f - old - 1)
        BY <1>7, HeapSound, SoundHeader DEF UsedHdrs
      <3>. HIDE DEF f
      <3>2. n <= 8 * (f - old - 1) /\ f - old - 1 \in Int
        BY <1>7, <3>1
      <3>3. Words(n) <= f - old - 1
        BY <3>2, WordsFacts
      <3>. QED BY <1>7, <1>10, <3>1, <3>3
    <2>4. h1.mem[old + 1 + k] = h.mem[old + 1 + k]
      BY <1>6, <2>3 DEF Kept
    <2>. QED BY <1>9, <2>2, <2>4
  <1>. QED BY <1>1, <1>10, <1>12, <1>13, <1>15, <1>16 DEF Handover, SameWords

\* The client's memset of its block, the one at p.
Fills(h, g, p, w, n) == g = memset(h, p + 1, w, n)
Holds(g, p, w, n) == \A a \in (p + 1) .. (p + Words(n)) : g.mem[a] = w

LEMMA FillHandover ==
    ASSUME NEW h, HeapOK(h), NEW p \in UsedHdrs(h), NEW n \in Nat, n <= SizeAt(h, p),
           NEW w \in Int, NEW g, Fills(h, g, p, w, n)
    PROVE  /\ HeapOK(g) /\ Handover(h, g, p, {p})
           /\ SizeAt(g, p) = SizeAt(h, p)
           /\ Holds(g, p, w, n)
  <1>. DEFINE ptr == p + 1
              m == [a \in Addr |-> IF a \in ptr .. (ptr + Words(n) - 1)
                                   THEN w ELSE h.mem[a]]
  <1>1. /\ g = [h EXCEPT !.mem = m] /\ p \in Int /\ Words(n) \in Nat /\ Sound(h)
        /\ p \in h.hdrs
    BY WordsFacts, SoundHeader, HeapSound DEF memset, Fills, UsedHdrs
  <1>2. ptr + Words(n) - 1 = p + Words(n)
    BY <1>1
  <1>3. m \in [Addr -> Int]
    BY DEF HeapOK, HeapType
  <1>4. \A a \in Addr : a \notin (p + 1) .. (p + Words(n)) => m[a] = h.mem[a]
    BY <1>1, <1>2
  <1>5. \A a \in Addr : a \in (p + 1) .. (p + Words(n)) => m[a] = w
    BY <1>1, <1>2
  <1>. HIDE DEF m
  <1>6. g.mem = m /\ g.hdrs = h.hdrs /\ g.nheaders = h.nheaders /\ g \in HeapType
    BY <1>1, <1>3 DEF HeapOK, HeapType
  <1>7. Overwrites(h, g, p, n)
    BY <1>3, <1>4, <1>6 DEF Overwrites
  <1>8. /\ Sound(g) /\ UsedHdrs(g) = UsedHdrs(h) /\ SizeAt(g, p) = SizeAt(h, p)
        /\ \A k \in 0 .. (Words(n) - 1) : p + 1 + k \in Addr
        /\ \A u \in UsedHdrs(h) \ {p} : Kept(h, g, u)
    BY <1>1, <1>7, SoundWrite
  <1>9. ASSUME NEW a \in (p + 1) .. (p + Words(n)) PROVE g.mem[a] = w
    <2>1. a - (p + 1) \in 0 .. (Words(n) - 1) /\ p + 1 + (a - (p + 1)) = a
      BY <1>1
    <2>2. a \in Addr
      BY <1>8, <2>1
    <2>. QED BY <1>5, <1>6, <2>2
  <1>. QED BY <1>6, <1>8, <1>9 DEF Holds, HeapOK, Sound, Handover

-----------------------------------------------------------------------------
(* The inductive invariant.  The tiling is inductive only together with the *)
(* ownership of the used blocks, through whose pointers myfree reaches its  *)
(* header, and with the locals of the loop: that cur is a header, and that  *)
(* i counts the headers before it, is what ends the loop at the segment's.  *)

IInv == /\ TypeOK /\ HeapOK(heap)
        /\ LiveBlocks /\ CallInProgress /\ PayloadIntact

CallType == [id : Ids \cup {NoId}, size : Nat, need : Nat, i : Nat,
             cur : Addr \cup {NULL}, old_size : Nat, keep : Nat]

LEMMA InitIInv == Init => IInv
  <1>. SUFFICES ASSUME Init PROVE IInv
    OBVIOUS
  <1>. USE DEF Init
  <1>1. HeapOK(heap) /\ UsedHdrs(heap) = {}
    BY MyInit DEF ZeroMem
  <1>2. \A j \in Ids : live[j] = NoBlock /\ live[j].ptr = NULL /\ live[j].size = 0
    BY DEF NoBlock
  <1>3. TypeOK
    <2>1. live \in LiveType
      BY DEF LiveType, Block, NoBlock
    <2>2. call \in CallType
      BY DEF NoCall, CallType
    <2>. QED BY <1>1, <2>1, <2>2 DEF TypeOK, HeapOK, LiveType, Block, CallType
  <1>4. LiveBlocks
    BY <1>1, <1>2 DEF LiveBlocks, Owned
  <1>5. CallInProgress
    BY DEF CallInProgress
  <1>6. PayloadIntact
    <2>1. Words(0) = 0
      BY WordsFacts
    <2>. QED BY <1>2, <2>1 DEF PayloadIntact
  <1>. QED BY <1>1, <1>3, <1>4, <1>5, <1>6 DEF IInv

\* A step that moves only the locals of a call.
LEMMA LocalStep ==
    ASSUME IInv, UNCHANGED <<heap, live>>, pc # "fill",
           pc' \in {"idle", "find", "failed", "crashed"},
           call' \in CallType, CallInProgress'
    PROVE  IInv'
  <1>1. TypeOK'
    BY DEF IInv, TypeOK, CallType
  <1>2. HeapOK(heap)' /\ LiveBlocks'
    BY DEF IInv, LiveBlocks
  <1>3. PayloadIntact'
    BY DEF IInv, PayloadIntact
  <1>. QED BY <1>1, <1>2, <1>3 DEF IInv

\* What the client holds, in any state of the invariant.
LEMMA ClientFacts ==
    ASSUME IInv
    PROVE  /\ live \in LiveType /\ HeapOK(heap) /\ Sound(heap) /\ Owned(heap, live)
           /\ heap.mem \in [Addr -> Int] /\ heap.nheaders \in Nat
           /\ call \in CallType
  <1>1. HeapOK(heap) /\ heap \in HeapType
    BY DEF IInv, HeapOK
  <1>. QED BY <1>1, HeapSound DEF IInv, TypeOK, LiveType, Block, LiveBlocks, CallType, HeapType

\* A step that returns the block of size bytes at ptr to the client.
LEMMA ReturnStep ==
    ASSUME IInv, pc # "fill", NEW id \in Ids,
           NEW ptr \in Addr, NEW size \in Nat, NEW keep \in Nat, keep <= size,
           Return(id, ptr, size, keep),
           HeapOK(heap'), Handover(heap, heap', live[id].ptr - 1, {ptr - 1}),
           size <= SizeAt(heap', ptr - 1),
           \A k \in 0 .. (Words(keep) - 1) : heap'.mem[ptr + k] = Fill[id]
    PROVE  IInv'
  <1>. DEFINE b == [ptr |-> ptr, size |-> size]
  <1>1. /\ live' = [live EXCEPT ![id] = b] /\ pc' = "fill"
        /\ call' = [NoCall EXCEPT !.id = id, !.keep = keep]
    BY DEF Return
  <1>2. live \in LiveType /\ Sound(heap) /\ Owned(heap, live)
    BY ClientFacts
  <1>3. b \in Block /\ b.ptr = ptr /\ b.size = size /\ ptr # NULL
    BY AddrFacts DEF Block
  <1>. HIDE DEF b
  <1>4. /\ live' \in LiveType /\ Owned(heap', live')
        /\ \A j \in Ids \ {id} :
              /\ live'[j] = live[j]
              /\ \A k \in 0 .. (Words(live[j].size) - 1) :
                    heap'.mem[live[j].ptr + k] = heap.mem[live[j].ptr + k]
    <2>1. Handover(heap, heap', live[id].ptr - 1, NewHeader(b))
      BY <1>3 DEF NewHeader
    <2>2. b.ptr = NULL => b.size = 0
      BY <1>3
    <2>3. b.ptr # NULL => b.size <= SizeAt(heap', b.ptr - 1)
      BY <1>3
    <2>4. Assigns(live, live', id, b)
      BY <1>1 DEF Assigns
    <2>. QED BY <1>2, <1>3, <2>1, <2>2, <2>3, <2>4, SoundChange
  <1>5. live'[id] = b
    BY <1>1, <1>2 DEF LiveType
  <1>6. call' \in CallType /\ call'.id = id /\ call'.keep = keep
    BY <1>1 DEF NoCall, CallType
  <1>7. TypeOK'
    BY <1>1, <1>4, <1>6 DEF TypeOK, HeapOK, LiveType, Block, CallType
  <1>8. CallInProgress'
    BY <1>1, <1>3, <1>5, <1>6 DEF CallInProgress
  <1>9. PayloadIntact'
    <2>1. ASSUME NEW j \in Ids \ {id}
          PROVE  \A k \in 0 .. (Words(live'[j].size) - 1) :
                    heap'.mem[live'[j].ptr + k] = Fill[j]
      <3>1. \A k \in 0 .. (Words(live[j].size) - 1) : heap.mem[live[j].ptr + k] = Fill[j]
        BY DEF IInv, PayloadIntact
      <3>. QED BY <1>4, <3>1
    <2>. QED BY <1>1, <1>3, <1>5, <1>6, <2>1 DEF PayloadIntact
  <1>10. LiveBlocks'
    BY <1>4 DEF LiveBlocks
  <1>. QED BY <1>7, <1>8, <1>9, <1>10 DEF IInv

\* The request of the call in progress, and where its loop stands.
LEMMA CallFacts ==
    ASSUME IInv, pc = "find"
    PROVE  /\ call.id \in Ids /\ call.i \in Nat /\ call.i = Cardinality(Before(heap, call.cur))
           /\ call.size \in Nat /\ call.size > 0 /\ call.size < MaxRequest
           /\ call.keep \in Nat /\ call.old_size \in Nat
           /\ call.need = roundup(call.size, ALIGNMENT)
           /\ call.need \in Nat /\ call.need >= call.size /\ call.need % 8 = 0
           /\ call.need >= 8
           /\ call.cur \in heap.hdrs
           /\ \A p \in FreeHdrs(heap) : p < call.cur => SizeAt(heap, p) < call.need
  <1>1. call.size \in Nat /\ call.keep \in Nat /\ call.old_size \in Nat /\ call.i \in Nat
    BY ClientFacts DEF CallType
  <1>2. /\ call.id \in Ids /\ call.size > 0 /\ call.size < MaxRequest
        /\ call.need = roundup(call.size, ALIGNMENT)
        /\ call.cur \in heap.hdrs
        /\ call.i = Cardinality(Before(heap, call.cur))
        /\ \A p \in FreeHdrs(heap) : p < call.cur => SizeAt(heap, p) < call.need
    BY DEF IInv, CallInProgress, Before
  <1>. QED BY <1>1, <1>2, RoundupFacts

\* The block a realloc moves away from.
LEMMA OwnerFacts ==
    ASSUME IInv, pc = "find", live[call.id].ptr # NULL,
           NEW p, p = live[call.id].ptr - 1
    PROVE  /\ p \in UsedHdrs(heap) /\ p \in Int /\ live[call.id].ptr = p + 1
           /\ SizeAt(heap, p) \in Nat /\ call.old_size = SizeAt(heap, p)
           /\ call.keep <= call.size /\ call.keep <= call.old_size
           /\ call.keep = Min({call.size, live[call.id].size})
           /\ \A k \in 0 .. (Words(call.keep) - 1) : heap.mem[p + 1 + k] = Fill[call.id]
  <1>1. /\ live[call.id].ptr \in Int /\ live[call.id].size \in Nat /\ p \in UsedHdrs(heap)
        /\ p \in heap.hdrs /\ live[call.id].size <= SizeAt(heap, p)
    BY CallFacts, ClientFacts, SoundHeld
  <1>2. /\ call.old_size = SizeAt(heap, p)
        /\ call.keep = Min({call.size, live[call.id].size})
    BY DEF IInv, CallInProgress
  <1>3. SizeAt(heap, p) \in Nat /\ p \in Int
    BY <1>1, ClientFacts, SoundHeader
  <1>4. call.keep <= call.size /\ call.keep <= live[call.id].size /\ call.keep \in Nat
    BY <1>1, <1>2, CallFacts, MinFacts
  <1>5. live[call.id].ptr = p + 1 /\ call.keep <= call.old_size
    BY <1>1, <1>2, <1>3, <1>4
  <1>6. \A k \in 0 .. (Words(live[call.id].size) - 1) :
           heap.mem[live[call.id].ptr + k] = Fill[call.id]
    BY CallFacts DEF IInv, PayloadIntact
  <1>7. \A k \in 0 .. (Words(call.keep) - 1) : heap.mem[p + 1 + k] = Fill[call.id]
    <2>1. /\ Words(call.keep) <= Words(live[call.id].size)
          /\ Words(call.keep) \in Nat /\ Words(live[call.id].size) \in Nat
      BY <1>1, <1>4, WordsFacts
    <2>2. \A k \in 0 .. (Words(call.keep) - 1) : k \in 0 .. (Words(live[call.id].size) - 1)
      BY <2>1
    <2>. QED BY <1>5, <1>6, <2>2
  <1>. QED BY <1>1, <1>2, <1>3, <1>4, <1>5, <1>7

\* When the loop has passed over the last block, nothing fits.
LEMMA SearchEnd ==
    ASSUME IInv, FindFail
    PROVE  NoFit
  <1>1. pc = "find" /\ ~Hit /\ call.i = heap.nheaders - 1
    BY DEF FindFail
  <1>2. \A q \in heap.hdrs : q < call.cur \/ q = call.cur
    BY <1>1, CallFacts, ClientFacts, BeforeLast
  <1>3. ASSUME NEW p \in FreeHdrs(heap) PROVE SizeAt(heap, p) < call.need
    <2>1. /\ p \in heap.hdrs /\ Status(heap.mem[p]) = StatusFree
          /\ SizeAt(heap, p) \in Int /\ call.need \in Nat
      BY <1>1, CallFacts, ClientFacts, SoundHeader DEF FreeHdrs
    <2>2. CASE p < call.cur
      BY <1>1, <2>2, CallFacts
    <2>3. CASE p = call.cur
      BY <1>1, <2>1, <2>3 DEF Hit
    <2>. QED BY <1>2, <2>1, <2>2, <2>3
  <1>. QED BY <1>3 DEF NoFit

\* A hit is a free block, and of those that are large enough the first.
LEMMA SearchHit ==
    ASSUME IInv, Hit
    PROVE  /\ pc = "find" /\ call.cur \in FreeHdrs(heap) /\ call.cur \in Int
           /\ call.cur + 1 \in Addr /\ call.need <= SizeAt(heap, call.cur)
           /\ \A p \in FreeHdrs(heap) : SizeAt(heap, p) >= call.need => call.cur <= p
  <1>1. /\ pc = "find" /\ Status(heap.mem[call.cur]) = StatusFree
        /\ SizeAt(heap, call.cur) >= call.need
    BY DEF Hit
  <1>2. call.cur \in heap.hdrs /\ call.need \in Nat
    BY <1>1, CallFacts
  <1>3. call.cur \in Int /\ call.cur + 1 \in Addr /\ SizeAt(heap, call.cur) \in Int
    BY <1>2, ClientFacts, SoundHeader
  <1>4. ASSUME NEW p \in FreeHdrs(heap), SizeAt(heap, p) >= call.need PROVE call.cur <= p
    <2>1. p \in Int /\ SizeAt(heap, p) \in Int
      BY ClientFacts, SoundHeader DEF FreeHdrs
    <2>2. ~(p < call.cur)
      BY <1>1, <1>2, <1>4, <2>1, CallFacts
    <2>. QED BY <1>3, <2>1, <2>2
  <1>. QED BY <1>1, <1>2, <1>3, <1>4 DEF FreeHdrs

-----------------------------------------------------------------------------
(* One lemma per action.                                                    *)

\* The loop starts on the first block, with nothing before it.
LEMMA EnterIInv ==
    ASSUME IInv, pc = "idle", NEW id \in Ids, NEW n \in Nat, n > 0,
           NEW old_size \in Nat, NEW keep \in Nat,
           Enter(id, n, old_size, keep),
           live[id].ptr # NULL => /\ old_size = SizeAt(heap, live[id].ptr - 1)
                                  /\ keep = Min({n, live[id].size})
    PROVE  IInv'
  <1>1. /\ heap' = heap /\ live' = live
        /\ pc' = IF n < MaxRequest THEN "find" ELSE Denied(id)
        /\ call' = [id |-> id, size |-> n, need |-> roundup(n, ALIGNMENT), i |-> 0,
                    cur |-> SegStart, old_size |-> old_size, keep |-> keep]
    BY DEF Enter
  <1>2. SegStart \in heap.hdrs /\ Before(heap, SegStart) = {} /\ SegStart \in Addr
    BY ClientFacts, BeforeFirst, SoundHeader
  <1>3. /\ call' \in CallType /\ call'.id = id /\ call'.size = n /\ call'.i = 0
        /\ call'.need = roundup(n, ALIGNMENT) /\ call'.cur = SegStart
        /\ call'.old_size = old_size /\ call'.keep = keep
    BY <1>1, <1>2, RoundupFacts DEF CallType
  <1>4. Denied(id) \in {"failed", "crashed"}
    BY DEF Denied
  <1>5. /\ {q \in heap'.hdrs : q < call'.cur} = {} /\ Cardinality({}) = 0
        /\ \A p \in FreeHdrs(heap') : ~(p < call'.cur)
    BY <1>1, <1>2, <1>3, FS_EmptySet DEF Before, FreeHdrs
  <1>6. CallInProgress'
    <2>1. CASE n < MaxRequest
      BY <1>1, <1>2, <1>3, <1>5, <2>1 DEF CallInProgress
    <2>2. CASE ~(n < MaxRequest)
      <3>1. call'.size >= MaxRequest
        BY <1>3, <2>2, HeapAssumption
      <3>. QED BY <1>1, <1>4, <2>2, <3>1 DEF CallInProgress
    <2>. QED BY <2>1, <2>2
  <1>. QED BY <1>1, <1>3, <1>4, <1>6, LocalStep

LEMMA MallocIInv ==
    ASSUME IInv, NEW id \in Ids, NEW n \in Requests, Malloc(id, n)
    PROVE  IInv'
  <1>1. /\ pc = "idle" /\ n > 0 /\ n \in Nat /\ live[id].ptr = NULL /\ Enter(id, n, 0, 0)
    BY HeapAssumption DEF Malloc
  <1>. QED BY <1>1, EnterIInv

LEMMA ReallocIInv ==
    ASSUME IInv, NEW id \in Ids, NEW n \in Requests, Realloc(id, n)
    PROVE  IInv'
  <1>. DEFINE old == SizeAt(heap, live[id].ptr - 1)  keep == Min({n, live[id].size})
  <1>1. /\ pc = "idle" /\ n > 0 /\ n \in Nat /\ live[id].ptr # NULL
        /\ Enter(id, n, old, keep)
    BY HeapAssumption DEF Realloc
  <1>2. live[id].ptr - 1 \in heap.hdrs /\ live[id].size \in Nat
    BY <1>1, ClientFacts, SoundHeld
  <1>3. old \in Nat
    <2>1. old \in Int /\ old >= 8
      BY <1>2, ClientFacts, SoundHeader
    <2>. QED BY <2>1
  <1>4. keep \in Nat
    BY <1>1, <1>2, MinFacts
  <1>. QED BY <1>1, <1>3, <1>4, EnterIInv

LEMMA FindNextIInv ==
    ASSUME IInv, FindNext
    PROVE  IInv'
  <1>. DEFINE cur == call.cur  next == NextOf(heap, cur)
  <1>1. /\ pc = "find" /\ ~Hit /\ call.i # heap.nheaders - 1
        /\ call' = [call EXCEPT !.i = call.i + 1, !.cur = next]
        /\ heap' = heap /\ live' = live /\ pc' = pc
    BY DEF FindNext
  <1>2. /\ cur \in heap.hdrs /\ call.i = Cardinality(Before(heap, cur)) /\ call.i \in Nat
        /\ call \in CallType /\ Sound(heap)
    BY <1>1, CallFacts, ClientFacts
  <1>3. /\ next \in heap.hdrs /\ Before(heap, next) = Before(heap, cur) \cup {cur}
        /\ Cardinality(Before(heap, next)) = call.i + 1
    BY <1>1, <1>2, BeforeNext
  <1>4. next \in Addr
    BY <1>2, <1>3, SoundHeader
  <1>. HIDE DEF cur, next
  <1>5. /\ call' \in CallType /\ call'.cur = next /\ call'.i = call.i + 1
        /\ call'.id = call.id /\ call'.size = call.size /\ call'.need = call.need
        /\ call'.old_size = call.old_size /\ call'.keep = call.keep
    <2>1. call.i + 1 \in Nat /\ next \in Addr \cup {NULL}
      BY <1>2, <1>4
    <2>2. call' = [id |-> call.id, size |-> call.size, need |-> call.need, i |-> call.i + 1,
                   cur |-> next, old_size |-> call.old_size, keep |-> call.keep]
      BY <1>1, <1>2 DEF CallType
    <2>. QED BY <1>2, <2>1, <2>2 DEF CallType
  <1>6. ASSUME NEW p \in FreeHdrs(heap), p < next PROVE SizeAt(heap, p) < call.need
    <2>1. /\ p \in heap.hdrs /\ Status(heap.mem[p]) = StatusFree
          /\ SizeAt(heap, p) \in Int /\ call.need \in Nat
      BY <1>1, <1>2, CallFacts, SoundHeader DEF FreeHdrs
    <2>2. p < cur \/ p = cur
      BY <1>3, <1>6, <2>1 DEF Before
    <2>3. CASE p < cur
      BY <1>1, <2>3, CallFacts DEF cur
    <2>4. CASE p = cur
      BY <1>1, <2>1, <2>4 DEF Hit, cur
    <2>. QED BY <2>2, <2>3, <2>4
  <1>7. CallInProgress'
    <2>1. CallInProgress
      BY DEF IInv
    <2>2. call'.i = Cardinality({q \in heap'.hdrs : q < call'.cur})
      BY <1>1, <1>3, <1>5 DEF Before
    <2>3. \A p \in FreeHdrs(heap') : p < call'.cur => SizeAt(heap', p) < call'.need
      BY <1>1, <1>5, <1>6
    <2>. QED BY <1>1, <1>3, <1>5, <2>1, <2>2, <2>3 DEF CallInProgress
  <1>. QED BY <1>1, <1>5, <1>7, LocalStep

LEMMA FindFailIInv ==
    ASSUME IInv, FindFail
    PROVE  IInv'
  <1>1. /\ pc = "find" /\ pc' \in {"failed", "crashed"}
        /\ heap' = heap /\ live' = live /\ call' = call
    BY DEF FindFail, Denied
  <1>2. NoFit'
    BY <1>1, SearchEnd DEF NoFit
  <1>3. CallInProgress'
    BY <1>1, <1>2 DEF CallInProgress
  <1>. QED BY <1>1, <1>3, ClientFacts, LocalStep

LEMMA MallocFitIInv ==
    ASSUME IInv, MallocFit
    PROVE  IInv'
  <1>. DEFINE id == call.id  p == call.cur  n == call.need
  <1>1. /\ Hit /\ live[id].ptr = NULL /\ heap' = place(heap, p, n)
        /\ Return(id, p + 1, call.size, 0)
    BY DEF MallocFit
  <1>2. /\ pc = "find" /\ p \in FreeHdrs(heap) /\ p \in Int /\ p + 1 \in Addr
        /\ n <= SizeAt(heap, p) /\ HeapOK(heap)
    BY <1>1, SearchHit, ClientFacts
  <1>3. /\ id \in Ids /\ n \in Nat /\ n % 8 = 0 /\ n >= 8 /\ n >= call.size
        /\ call.size \in Nat
    BY <1>2, CallFacts
  <1>4. live[id].ptr - 1 \notin UsedHdrs(heap)
    BY <1>1, <1>3, ClientFacts, SoundHeld DEF UsedHdrs
  <1>. HIDE DEF id, p, n
  <1>5. /\ HeapOK(heap') /\ SizeAt(heap', p) >= n
        /\ UsedHdrs(heap') = UsedHdrs(heap) \cup {p} /\ p \notin UsedHdrs(heap)
        /\ \A u \in UsedHdrs(heap) : Kept(heap, heap', u)
    BY <1>1, <1>2, <1>3, Place
  <1>6. Handover(heap, heap', live[id].ptr - 1, {p})
    BY <1>4, <1>5 DEF Handover
  <1>7. SizeAt(heap', p) \in Int
    <2>1. p \in heap'.hdrs
      BY <1>5 DEF UsedHdrs
    <2>. QED BY <1>5, <2>1, HeapSound, SoundHeader
  <1>8. /\ pc # "fill" /\ Handover(heap, heap', live[id].ptr - 1, {(p + 1) - 1})
        /\ call.size <= SizeAt(heap', (p + 1) - 1)
        /\ 0 \in Nat /\ 0 <= call.size
    <2>1. (p + 1) - 1 = p /\ 0 \in Nat /\ 0 <= call.size
      BY <1>2, <1>3
    <2>2. call.size <= SizeAt(heap', p)
      BY <1>3, <1>5, <1>7
    <2>3. pc # "fill"
      BY <1>2
    <2>. QED BY <1>6, <2>1, <2>2, <2>3
  <1>9. \A k \in 0 .. (Words(0) - 1) : heap'.mem[(p + 1) + k] = Fill[id]
    <2>1. 0 .. (Words(0) - 1) = {}
      BY WordsFacts
    <2>. QED BY <2>1
  <1>. QED BY <1>1, <1>2, <1>3, <1>5, <1>8, <1>9, ReturnStep

LEMMA ReallocMoveIInv ==
    ASSUME IInv, ReallocMove
    PROVE  IInv'
  <1>. DEFINE id == call.id  p == call.cur  n == call.need  old == live[id].ptr - 1
              len == Min({call.size, call.old_size})
  <1>1. /\ Hit /\ live[id].ptr # NULL
        /\ heap' = myfree(memcpy(place(heap, p, n), p + 1, live[id].ptr, len), live[id].ptr)
        /\ Return(id, p + 1, call.size, call.keep)
    BY DEF ReallocMove
  <1>2. /\ pc = "find" /\ p \in FreeHdrs(heap) /\ p \in Int /\ p + 1 \in Addr
        /\ n <= SizeAt(heap, p) /\ HeapOK(heap)
    BY <1>1, SearchHit, ClientFacts
  <1>3. /\ id \in Ids /\ n \in Nat /\ n % 8 = 0 /\ n >= 8 /\ n >= call.size
        /\ call.size \in Nat /\ call.keep \in Nat /\ call.old_size \in Nat
    BY <1>2, CallFacts
  <1>4. /\ old \in UsedHdrs(heap) /\ live[id].ptr = old + 1
        /\ SizeAt(heap, old) \in Nat /\ call.old_size = SizeAt(heap, old)
        /\ call.keep <= call.size /\ call.keep <= call.old_size
    BY <1>1, <1>2, OwnerFacts
  <1>kept. \A k \in 0 .. (Words(call.keep) - 1) : heap.mem[old + 1 + k] = Fill[id]
    BY <1>1, <1>2, OwnerFacts
  <1>5. /\ len \in Nat /\ len <= call.size /\ len <= call.old_size
        /\ len = call.size \/ len = call.old_size
    BY <1>3, MinFacts
  <1>. HIDE DEF id, p, n, old, len
  <1>6. /\ len <= n /\ len <= SizeAt(heap, old) /\ call.keep <= len
    BY <1>3, <1>4, <1>5
  <1>7. Moves(heap, heap', p, n, old, len)
    BY <1>1, <1>4 DEF Moves
  <1>8. /\ HeapOK(heap') /\ Handover(heap, heap', old, {p}) /\ SizeAt(heap', p) >= n
        /\ \A k \in 0 .. (Words(len) - 1) : heap'.mem[p + 1 + k] = heap.mem[old + 1 + k]
    <2>1. HeapOK(heap) /\ p \in FreeHdrs(heap) /\ old \in UsedHdrs(heap)
      BY <1>2, <1>4
    <2>2. n \in Nat /\ n % 8 = 0 /\ n >= 8 /\ n <= SizeAt(heap, p)
      BY <1>2, <1>3
    <2>3. len \in Nat
      BY <1>5
    <2>4. /\ HeapOK(heap') /\ Handover(heap, heap', old, {p}) /\ SizeAt(heap', p) >= n
          /\ SameWords(heap, heap', old, p, len)
      BY <1>6, <1>7, <2>1, <2>2, <2>3, MoveHandover
    <2>. QED BY <2>4 DEF SameWords
  <1>9. \A k \in 0 .. (Words(call.keep) - 1) : heap'.mem[p + 1 + k] = Fill[id]
    <2>1. /\ Words(call.keep) \in Nat /\ Words(len) \in Nat
          /\ Words(call.keep) <= Words(len)
      BY <1>3, <1>5, <1>6, WordsFacts
    <2>2. \A k \in 0 .. (Words(call.keep) - 1) : k \in 0 .. (Words(len) - 1)
      BY <2>1
    <2>. QED BY <1>kept, <1>8, <2>2
  <1>10. call.size <= SizeAt(heap', p)
    <2>1. p \in heap'.hdrs
      BY <1>8 DEF UsedHdrs, Handover
    <2>2. SizeAt(heap', p) \in Int
      BY <1>8, <2>1, HeapSound, SoundHeader
    <2>. QED BY <1>3, <1>8, <2>2
  <1>11. /\ pc # "fill" /\ Handover(heap, heap', live[id].ptr - 1, {(p + 1) - 1})
         /\ call.size <= SizeAt(heap', (p + 1) - 1)
    <2>1. (p + 1) - 1 = p
      BY <1>2
    <2>. QED BY <1>2, <1>8, <1>10, <2>1 DEF old
  <1>. QED BY <1>1, <1>2, <1>3, <1>4, <1>8, <1>9, <1>11, ReturnStep

\* A step that changes the heap inside the block of id, and no block's owner.
LEMMA SameOwner ==
    ASSUME IInv, NEW id \in Ids, live[id].ptr # NULL,
           NEW p, p = live[id].ptr - 1,
           HeapOK(heap'), Handover(heap, heap', p, {p}),
           live' = live, live[id].size <= SizeAt(heap', p)
    PROVE  /\ LiveBlocks'
           /\ \A j \in Ids \ {id} : \A k \in 0 .. (Words(live[j].size) - 1) :
                 heap'.mem[live[j].ptr + k] = heap.mem[live[j].ptr + k]
  <1>1. live \in LiveType /\ Sound(heap) /\ Owned(heap, live)
    BY ClientFacts
  <1>. DEFINE b == live[id]
  <1>2. b \in Block /\ NewHeader(b) = {p} /\ b.ptr # NULL
    BY <1>1 DEF NewHeader, LiveType
  <1>3. live' = [live EXCEPT ![id] = b]
    BY <1>1 DEF LiveType
  <1>4. /\ Assigns(live, live', id, b)
        /\ Handover(heap, heap', live[id].ptr - 1, NewHeader(b))
        /\ b.ptr # NULL => b.size <= SizeAt(heap', b.ptr - 1)
    BY <1>2, <1>3 DEF Assigns
  <1>. HIDE DEF b
  <1>5. /\ Owned(heap', live')
        /\ \A j \in Ids \ {id} : \A k \in 0 .. (Words(live[j].size) - 1) :
              heap'.mem[live[j].ptr + k] = heap.mem[live[j].ptr + k]
    BY <1>1, <1>2, <1>4, SoundChange DEF b
  <1>. QED BY <1>5 DEF LiveBlocks

LEMMA FreeIInv ==
    ASSUME IInv, NEW id \in Ids, Free(id)
    PROVE  IInv'
  <1>. DEFINE ptr == live[id].ptr  p == ptr - 1
  <1>1. /\ pc = "idle" /\ heap' = myfree(heap, ptr)
        /\ live' = [live EXCEPT ![id] = NoBlock] /\ pc' = pc /\ call' = call
    BY DEF Free
  <1>2. /\ live \in LiveType /\ HeapOK(heap) /\ Sound(heap) /\ Owned(heap, live)
        /\ ptr \in Int
    BY ClientFacts, SoundHeld
  <1>3. NoBlock \in Block /\ NoBlock.ptr = NULL /\ NoBlock.size = 0 /\ NewHeader(NoBlock) = {}
    BY DEF NoBlock, Block, NewHeader
  <1>4. HeapOK(heap') /\ Handover(heap, heap', p, {})
    <2>1. CASE ptr = NULL
      <3>1. heap' = heap /\ p \notin UsedHdrs(heap)
        BY <1>1, <1>2, <2>1, SoundHeld DEF myfree, UsedHdrs
      <3>2. \A u \in UsedHdrs(heap) : Kept(heap, heap', u)
        BY <3>1 DEF Kept
      <3>. QED BY <1>2, <3>1, <3>2 DEF Handover
    <2>2. CASE ptr # NULL
      <3>1. p \in UsedHdrs(heap)
        BY <1>2, <2>2, SoundHeld
      <3>2. p = ptr - 1
        OBVIOUS
      <3>. HIDE DEF ptr, p
      <3>3. /\ HeapOK(heap') /\ UsedHdrs(heap') = UsedHdrs(heap) \ {p}
            /\ \A u \in UsedHdrs(heap) \ {p} : Kept(heap, heap', u)
        BY <1>1, <1>2, <2>2, <3>1, <3>2, MyFree
      <3>. QED BY <3>3 DEF Handover
    <2>. QED BY <2>1, <2>2
  <1>5. /\ Assigns(live, live', id, NoBlock)
        /\ Handover(heap, heap', live[id].ptr - 1, NewHeader(NoBlock))
    BY <1>1, <1>3, <1>4 DEF Assigns
  <1>6. /\ live' \in LiveType /\ Owned(heap', live')
        /\ \A j \in Ids \ {id} :
              /\ live'[j] = live[j]
              /\ \A k \in 0 .. (Words(live[j].size) - 1) :
                    heap'.mem[live[j].ptr + k] = heap.mem[live[j].ptr + k]
    <2>. DEFINE b == NoBlock
    <2>1. /\ b \in Block
          /\ b.ptr = NULL => b.size = 0
          /\ b.ptr # NULL => b.size <= SizeAt(heap', b.ptr - 1)
      BY <1>3
    <2>2. Handover(heap, heap', live[id].ptr - 1, NewHeader(b)) /\ Assigns(live, live', id, b)
      BY <1>5
    <2>. HIDE DEF b, ptr, p
    <2>. QED BY <1>2, <1>4, <2>1, <2>2, SoundChange
  <1>7. TypeOK'
    BY <1>1, <1>4, <1>6 DEF IInv, TypeOK, HeapOK, LiveType, Block
  <1>8. CallInProgress'
    BY <1>1 DEF IInv, CallInProgress
  <1>9. PayloadIntact'
    <2>1. live'[id].size = 0 /\ Words(0) = 0
      BY <1>1, <1>2, <1>3, WordsFacts DEF LiveType
    <2>2. ASSUME NEW j \in Ids \ {id}
          PROVE  \A k \in 0 .. (Words(live'[j].size) - 1) :
                    heap'.mem[live'[j].ptr + k] = Fill[j]
      <3>1. \A k \in 0 .. (Words(live[j].size) - 1) : heap.mem[live[j].ptr + k] = Fill[j]
        BY <1>1 DEF IInv, PayloadIntact
      <3>. QED BY <1>6, <3>1
    <2>. QED BY <1>1, <2>1, <2>2 DEF PayloadIntact
  <1>. QED BY <1>4, <1>6, <1>7, <1>8, <1>9 DEF IInv, LiveBlocks

LEMMA ClientFillIInv ==
    ASSUME IInv, ClientFill
    PROVE  IInv'
  <1>. DEFINE id == call.id  ptr == live[id].ptr  p == ptr - 1  n == live[id].size
              w == Fill[id]
  <1>1. /\ pc = "fill" /\ heap' = memset(heap, ptr, w, n)
        /\ pc' = "idle" /\ call' = NoCall /\ live' = live
    BY DEF ClientFill
  <1>2. id \in Ids /\ ptr # NULL
    BY <1>1 DEF IInv, CallInProgress
  <1>3. /\ HeapOK(heap) /\ ptr \in Int /\ n \in Nat /\ p \in UsedHdrs(heap)
        /\ n <= SizeAt(heap, p) /\ p = ptr - 1 /\ w \in Int
    BY <1>2, ClientFacts, SoundHeld, HeapAssumption
  <1>. HIDE DEF id, ptr, n, p, w
  <1>4. /\ HeapOK(heap') /\ Handover(heap, heap', p, {p})
        /\ SizeAt(heap', p) = SizeAt(heap, p)
        /\ \A k \in 0 .. (Words(n) - 1) : heap'.mem[ptr + k] = w
    <2>1. Fills(heap, heap', p, w, n) /\ ptr = p + 1
      <3>1. ptr = p + 1
        BY <1>3
      <3>. QED BY <1>1, <3>1 DEF Fills
    <2>2. /\ HeapOK(heap') /\ Handover(heap, heap', p, {p})
          /\ SizeAt(heap', p) = SizeAt(heap, p)
          /\ Holds(heap', p, w, n)
      BY <1>3, <2>1, FillHandover
    <2>3. \A k \in 0 .. (Words(n) - 1) : ptr + k \in (p + 1) .. (p + Words(n))
      BY <1>3, <2>1, WordsFacts
    <2>. QED BY <2>1, <2>2, <2>3 DEF Holds
  <1>5. /\ LiveBlocks'
        /\ \A j \in Ids \ {id} : \A k \in 0 .. (Words(live[j].size) - 1) :
              heap'.mem[live[j].ptr + k] = heap.mem[live[j].ptr + k]
    <2>1. live[id].ptr # NULL /\ p = live[id].ptr - 1 /\ live[id].size <= SizeAt(heap', p)
      BY <1>2, <1>3, <1>4 DEF p, ptr, n
    <2>. QED BY <1>1, <1>2, <1>4, <2>1, SameOwner
  <1>6. TypeOK'
    <2>1. call' \in CallType
      BY <1>1 DEF NoCall, CallType
    <2>. QED BY <1>1, <1>4, <2>1 DEF IInv, TypeOK, HeapOK, CallType
  <1>7. CallInProgress'
    BY <1>1 DEF CallInProgress
  <1>8. PayloadIntact'
    <2>1. ASSUME NEW j \in Ids \ {id}
          PROVE  \A k \in 0 .. (Words(live[j].size) - 1) :
                    heap'.mem[live[j].ptr + k] = Fill[j]
      <3>1. \A k \in 0 .. (Words(live[j].size) - 1) : heap.mem[live[j].ptr + k] = Fill[j]
        BY DEF IInv, PayloadIntact, id
      <3>. QED BY <1>5, <3>1
    <2>. QED BY <1>1, <1>2, <1>4, <2>1 DEF PayloadIntact, id, ptr, n, w
  <1>. QED BY <1>4, <1>5, <1>6, <1>7, <1>8 DEF IInv

LEMMA RestartIInv ==
    ASSUME IInv, Restart
    PROVE  IInv'
  <1>1. /\ pc = "idle" /\ pc' = pc /\ call' = call
        /\ live' = [j \in Ids |-> NoBlock]
    BY DEF Restart
  <1>2. HeapOK(heap') /\ UsedHdrs(heap') = {}
    <2>1. PICK m \in {ZeroMem, heap.mem} : heap' = myinit(m)
      BY DEF Restart
    <2>2. m \in [Addr -> Int]
      BY <2>1, ClientFacts DEF ZeroMem
    <2>. QED BY <2>1, <2>2, MyInit
  <1>3. \A j \in Ids : live'[j] = NoBlock /\ live'[j].ptr = NULL /\ live'[j].size = 0
    BY <1>1 DEF NoBlock
  <1>4. TypeOK'
    <2>1. live' \in LiveType
      BY <1>1 DEF LiveType, Block, NoBlock
    <2>. QED BY <1>1, <1>2, <2>1 DEF IInv, TypeOK, HeapOK, LiveType, Block
  <1>5. LiveBlocks'
    BY <1>2, <1>3 DEF LiveBlocks, Owned
  <1>6. CallInProgress'
    BY <1>1 DEF CallInProgress
  <1>7. PayloadIntact'
    <2>1. Words(0) = 0
      BY WordsFacts
    <2>. QED BY <1>1, <1>3, <2>1 DEF PayloadIntact
  <1>. QED BY <1>2, <1>4, <1>5, <1>6, <1>7 DEF IInv

LEMMA SeesNullIInv ==
    ASSUME IInv, ClientSeesNull
    PROVE  IInv'
  <1>1. call' \in CallType
    BY DEF ClientSeesNull, NoCall, CallType
  <1>2. CallInProgress'
    BY DEF ClientSeesNull, CallInProgress
  <1>. QED BY <1>1, <1>2, LocalStep DEF ClientSeesNull

LEMMA StutterIInv ==
    ASSUME IInv, UNCHANGED vars
    PROVE  IInv'
  <1>1. heap' = heap /\ live' = live /\ pc' = pc /\ call' = call
    BY DEF vars
  <1>. QED BY <1>1 DEF IInv, TypeOK, LiveBlocks, CallInProgress, NoFit, PayloadIntact

LEMMA NextIInv == IInv /\ [Next]_vars => IInv'
  <1>. SUFFICES ASSUME IInv, [Next]_vars PROVE IInv'
    OBVIOUS
  <1>1. ASSUME NEW id \in Ids, NEW n \in Requests, Malloc(id, n) PROVE IInv'
    BY <1>1, MallocIInv
  <1>2. ASSUME NEW id \in Ids, NEW n \in Requests, Realloc(id, n) PROVE IInv'
    BY <1>2, ReallocIInv
  <1>3. ASSUME NEW id \in Ids, MallocZero(id) PROVE IInv'
    BY <1>3, StutterIInv DEF MallocZero
  <1>4. ASSUME NEW id \in Ids, Free(id) PROVE IInv'
    BY <1>4, FreeIInv
  <1>5. CASE ClientFill
    BY <1>5, ClientFillIInv
  <1>6. CASE ClientSeesNull
    BY <1>6, SeesNullIInv
  <1>7. CASE Restart
    BY <1>7, RestartIInv
  <1>8. CASE FindNext
    BY <1>8, FindNextIInv
  <1>9. CASE FindFail
    BY <1>9, FindFailIInv
  <1>10. CASE MallocFit
    BY <1>10, MallocFitIInv
  <1>11. CASE ReallocMove
    BY <1>11, ReallocMoveIInv
  <1>12. CASE UNCHANGED vars
    BY <1>12, StutterIInv
  <1>. QED BY <1>1, <1>2, <1>3, <1>4, <1>5, <1>6, <1>7, <1>8, <1>9, <1>10, <1>11, <1>12
           DEF Next, ClientStep, CallStep

\* Every reachable state satisfies the inductive invariant.
THEOREM Invariance == Spec => []IInv
  BY InitIInv, NextIInv, PTL DEF Spec

-----------------------------------------------------------------------------
(* The safety properties of ImplicitHeap.                                   *)

\* Between any two steps, in the middle of a search too, the variables have
\* their types, the headers tile the segment, the used blocks are the client's
\* and the locals mean what they should (mymalloc, myrealloc).
THEOREM StateHolds == Spec => []StateSound
  <1>1. IInv => StateSound
    BY DEF IInv, HeapOK, Tiling, StateSound
  <1>. QED BY <1>1, Invariance, PTL

\* Whatever sequence of requests, the headers cut the segment into blocks
\* without gap or overlap, and nheaders counts them.
THEOREM StructureSound == Spec => []Tiling
  <1>1. IInv => Tiling
    BY DEF IInv, HeapOK, Tiling
  <1>. QED BY <1>1, Invariance, PTL

\* The used blocks are exactly those the client holds, and big enough.
THEOREM BlocksOwned == Spec => []LiveBlocks
  <1>1. IInv => LiveBlocks
    BY DEF IInv
  <1>. QED BY <1>1, Invariance, PTL

\* No call changes a payload word it must keep: what the client wrote is there
\* until the client frees the block or writes it again.
THEOREM PayloadKept == Spec => []PayloadIntact
  <1>1. IInv => PayloadIntact
    BY DEF IInv
  <1>. QED BY <1>1, Invariance, PTL

\* The loop of mymalloc stands on a header and counts the ones behind it, the
\* old size of a realloc stays current, and a NULL means that nothing fits.
THEOREM LocalsSound == Spec => []CallInProgress
  <1>1. IInv => CallInProgress
    BY DEF IInv
  <1>. QED BY <1>1, Invariance, PTL

\* mymalloc takes the first free block that is large enough, and returns NULL
\* only if there is none.
THEOREM FirstFitHolds == Spec => FirstFit
  <1>. DEFINE Fair == (pc = "find" /\ pc' # "find")
                => \A p \in FreeHdrs(heap) : SizeAt(heap, p) >= call.need
                     => pc' = "fill" /\ live'[call.id].ptr - 1 <= p
  <1>1. IInv /\ [Next]_vars => [Fair]_vars
    <2>. SUFFICES ASSUME IInv, Next, pc = "find", pc' # "find",
                         NEW p \in FreeHdrs(heap), SizeAt(heap, p) >= call.need
                  PROVE  pc' = "fill" /\ live'[call.id].ptr - 1 <= p
      OBVIOUS
    <2>1. call.id \in Ids /\ live \in LiveType /\ call.need \in Nat
          /\ SizeAt(heap, p) \in Int
      BY CallFacts, ClientFacts, SoundHeader DEF FreeHdrs
    <2>2. FindFail \/ MallocFit \/ ReallocMove
      BY DEF Next, ClientStep, CallStep, Malloc, MallocZero, Realloc, Free, FindNext,
             ClientFill, ClientSeesNull, Restart, Return, Enter, vars
    <2>3. ~FindFail
      BY <2>1, SearchEnd DEF NoFit
    <2>4. Hit /\ pc' = "fill" /\ live'[call.id].ptr = call.cur + 1
      BY <2>1, <2>2, <2>3 DEF MallocFit, ReallocMove, Return, LiveType
    <2>5. call.cur \in Int /\ call.cur <= p
      BY <2>4, SearchHit
    <2>6. (call.cur + 1) - 1 = call.cur
      BY <2>5
    <2>. QED BY <2>4, <2>5, <2>6
  <1>2. IInv /\ [Next]_vars => IInv'
    BY NextIInv
  <1>. QED BY <1>1, <1>2, Invariance, PTL DEF Spec, FirstFit

-----------------------------------------------------------------------------
(* ImplicitHeap implements Allocator.  Except between a call's return and   *)
(* the client's memset a block's words are its fill, so the refinement      *)
(* follows from the invariant before and after each step.                   *)

WordsOf(h, b) == [k \in 0 .. (Words(b.size) - 1) |-> h.mem[b.ptr + k]]
Data == [j \in Ids |-> WordsOf(heap, live[j])]

LEMMA DataIsFill ==
    ASSUME IInv, NEW j \in Ids, pc # "fill" \/ call.id # j
    PROVE  Data[j] = [k \in 0 .. (Words(live[j].size) - 1) |-> Fill[j]]
  <1>1. \A k \in 0 .. (Words(live[j].size) - 1) : heap.mem[live[j].ptr + k] = Fill[j]
    BY DEF IInv, PayloadIntact
  <1>. QED BY <1>1 DEF Data, WordsOf

\* The extent of a held block lies between its header and the next.
LEMMA ExtentFacts ==
    ASSUME NEW h, Sound(h), NEW lv \in LiveType, Owned(h, lv), NEW j \in Ids,
           NEW a \in A!Extent(lv[j]), NEW p, p = lv[j].ptr - 1
    PROVE  /\ lv[j].ptr # NULL /\ lv[j].ptr = p + 1
           /\ p \in h.hdrs /\ p \in Int /\ a \in Int /\ a > p
           /\ NextOf(h, p) \in Int /\ a < NextOf(h, p)
  <1>1. lv[j].ptr \in Int /\ lv[j].size \in Nat /\ Words(lv[j].size) \in Nat
    BY SoundHeld
  <1>2. A!Words(lv[j].size) = Words(lv[j].size)
    BY <1>1 DEF A!Words, Words, roundup, HEADER_SIZE
  <1>3. lv[j].ptr # NULL /\ a \in lv[j].ptr .. (lv[j].ptr + Words(lv[j].size) - 1)
    BY <1>2 DEF A!Extent, NULL
  <1>4. p \in h.hdrs /\ lv[j].ptr + Words(lv[j].size) <= NextOf(h, p)
    BY <1>3, SoundHeld
  <1>5. NextOf(h, p) \in Int /\ p \in Int
    BY <1>4, SoundHeader
  <1>. QED BY <1>1, <1>3, <1>4, <1>5

\* The client's blocks are inside the segment and apart.
LEMMA PlacedWell ==
    ASSUME NEW h, Sound(h), NEW lv \in LiveType, Owned(h, lv)
    PROVE  A!WellPlaced(lv)
  <1>. SUFFICES ASSUME NEW i \in Ids
                PROVE  /\ A!Extent(lv[i]) \subseteq Addr
                       /\ \A j \in Ids \ {i} : A!Extent(lv[i]) \cap A!Extent(lv[j]) = {}
    BY DEF A!WellPlaced
  <1>. DEFINE p == lv[i].ptr - 1
  <1>1. ASSUME NEW a \in A!Extent(lv[i]) PROVE a \in Addr
    <2>1. /\ p \in h.hdrs /\ p \in Int /\ a \in Int /\ a > p
          /\ NextOf(h, p) \in Int /\ a < NextOf(h, p)
      BY <1>1, ExtentFacts
    <2>2. p \in Addr /\ NextOf(h, p) <= SegEnd
      BY <2>1, SoundHeader
    <2>. HIDE DEF p
    <2>. QED BY <2>1, <2>2, AddrFacts
  <1>2. ASSUME NEW j \in Ids \ {i}, NEW a \in A!Extent(lv[i]), a \in A!Extent(lv[j])
        PROVE  FALSE
    <2>. DEFINE q == lv[j].ptr - 1
    <2>1. /\ lv[i].ptr # NULL /\ lv[i].ptr = p + 1 /\ p \in h.hdrs /\ p \in Int
          /\ a \in Int /\ a > p /\ NextOf(h, p) \in Int /\ a < NextOf(h, p)
      BY <1>2, ExtentFacts
    <2>2. /\ lv[j].ptr # NULL /\ lv[j].ptr = q + 1 /\ q \in h.hdrs /\ q \in Int
          /\ a > q /\ NextOf(h, q) \in Int /\ a < NextOf(h, q)
      BY <1>2, ExtentFacts
    <2>. HIDE DEF p, q
    <2>3. p # q
      BY <1>2, <2>1, <2>2 DEF Owned
    <2>4. q >= NextOf(h, p) \/ p >= NextOf(h, q)
      BY <2>1, <2>2, <2>3, SoundApart
    <2>. QED BY <2>1, <2>2, <2>4
  <1>. QED BY <1>1, <1>2

\* A step for id alone.
LEMMA OthersSame ==
    ASSUME IInv, IInv', NEW id \in Ids,
           pc # "fill" \/ call.id = id, pc' # "fill" \/ call'.id = id,
           \A j \in Ids \ {id} : live'[j] = live[j]
    PROVE  A!OnlyFor(id)
  <1>1. ASSUME NEW j \in Ids \ {id} PROVE Data'[j] = Data[j]
    <2>1. Data[j] = [k \in 0 .. (Words(live[j].size) - 1) |-> Fill[j]]
      BY DataIsFill
    <2>2. \A k \in 0 .. (Words(live'[j].size) - 1) : heap'.mem[live'[j].ptr + k] = Fill[j]
      BY DEF IInv, PayloadIntact
    <2>3. Data'[j] = [k \in 0 .. (Words(live'[j].size) - 1) |-> Fill[j]]
      BY <2>2 DEF Data, WordsOf
    <2>. QED BY <2>1, <2>3
  <1>. QED BY <1>1 DEF A!OnlyFor, Data, WordsOf

\* A step that returns a block: a resize keeps the first words.
LEMMA ReturnRefines ==
    ASSUME IInv, IInv', pc # "fill", NEW id \in Ids, NEW ptr, NEW size \in Nat, NEW keep,
           ptr # NULL, Return(id, ptr, size, keep),
           live[id].ptr # NULL => keep = Min({size, live[id].size})
    PROVE  A!Next
  <1>1. /\ live \in LiveType /\ pc' = "fill" /\ call'.id = id /\ call'.keep = keep
        /\ live'[id].ptr = ptr /\ live'[id].size = size
        /\ \A j \in Ids \ {id} : live'[j] = live[j]
    BY ClientFacts DEF Return, LiveType, NoCall
  <1>2. A!OnlyFor(id)
    BY <1>1, OthersSame
  <1>3. A!WellPlaced(live')
    <2>1. Sound(heap') /\ live' \in LiveType /\ Owned(heap', live')
      BY HeapSound DEF IInv, LiveBlocks, TypeOK, LiveType, Block
    <2>. QED BY <2>1, PlacedWell
  <1>4. CASE live[id].ptr = NULL
    BY <1>1, <1>2, <1>3, <1>4 DEF A!Next, A!Allocate, NULL
  <1>5. CASE live[id].ptr # NULL
    <2>. DEFINE old == live[id].size
    <2>1. old \in Nat
      BY <1>1 DEF LiveType, Block
    <2>2. keep \in Nat /\ (keep = size \/ keep = old)
      BY <1>5, <2>1, MinFacts
    <2>3. A!Span(live[id]) = 0 .. (Words(old) - 1) /\ A!Span(live'[id]) = 0 .. (Words(size) - 1)
      BY <1>1, <2>1 DEF A!Span, A!Words, Words, roundup, HEADER_SIZE
    <2>4. ASSUME NEW k \in A!Span(live[id]) \cap A!Span(live'[id])
          PROVE  Data'[id][k] = Data[id][k]
      <3>1. k \in 0 .. (Words(old) - 1) /\ k \in 0 .. (Words(size) - 1)
        BY <2>3, <2>4
      <3>2. k \in 0 .. (Words(keep) - 1)
        BY <2>2, <3>1
      <3>3. heap'.mem[ptr + k] = Fill[id]
        BY <1>1, <3>2 DEF IInv, PayloadIntact
      <3>4. heap.mem[live[id].ptr + k] = Fill[id]
        BY <3>1 DEF IInv, PayloadIntact
      <3>. QED BY <1>1, <3>1, <3>3, <3>4 DEF Data, WordsOf
    <2>5. A!Resize(id)
      BY <1>1, <1>2, <1>3, <1>5, <2>4 DEF A!Resize, Data, WordsOf, NULL
    <2>. QED BY <2>5 DEF A!Next
  <1>. QED BY <1>4, <1>5

LEMMA NextRefines ==
    ASSUME IInv, IInv', [Next]_vars
    PROVE  [A!Next]_(A!bvars)
  <1>. USE DEF A!bvars
  <1>1. live \in LiveType
    BY ClientFacts
  <1>2. ASSUME UNCHANGED <<heap, live>> PROVE UNCHANGED A!bvars
    BY <1>2
  <1>3. ASSUME NEW id \in Ids, NEW n \in Requests, Malloc(id, n) \/ Realloc(id, n)
        PROVE  UNCHANGED A!bvars
    BY <1>2, <1>3 DEF Malloc, Realloc, Enter
  <1>4. ASSUME NEW id \in Ids, MallocZero(id) PROVE UNCHANGED A!bvars
    BY <1>2, <1>4 DEF MallocZero, vars
  <1>5. ASSUME FindNext \/ FindFail \/ ClientSeesNull PROVE UNCHANGED A!bvars
    BY <1>2, <1>5 DEF FindNext, FindFail, ClientSeesNull
  <1>6. ASSUME NEW id \in Ids, Free(id) PROVE A!Next \/ UNCHANGED A!bvars
    <2>1. /\ live' = [live EXCEPT ![id] = NoBlock] /\ pc = "idle" /\ pc' = "idle"
          /\ heap' = myfree(heap, live[id].ptr)
      BY <1>6 DEF Free
    <2>2. CASE live[id].ptr = NULL
      <3>1. live[id] = NoBlock
        BY <2>2, ClientFacts, SoundHeld
      <3>2. live' = live /\ heap' = heap
        BY <1>1, <2>1, <2>2, <3>1 DEF LiveType, myfree
      <3>. QED BY <1>2, <3>2
    <2>3. CASE live[id].ptr # NULL
      <3>1. live'[id] = NoBlock /\ \A j \in Ids \ {id} : live'[j] = live[j]
        BY <1>1, <2>1 DEF LiveType
      <3>2. A!OnlyFor(id)
        BY <2>1, <3>1, OthersSame
      <3>3. A!Release(id)
        BY <2>3, <3>1, <3>2 DEF A!Release, A!NoBlock, NoBlock, NULL
      <3>. QED BY <3>3 DEF A!Next
    <2>. QED BY <2>2, <2>3
  <1>7. ASSUME ClientFill PROVE A!Next
    <2>1. /\ pc = "fill" /\ pc' = "idle" /\ live' = live
          /\ call.id \in Ids /\ live[call.id].ptr # NULL
      BY <1>7 DEF ClientFill, IInv, CallInProgress
    <2>2. PICK id \in Ids : id = call.id
      BY <2>1
    <2>3. A!OnlyFor(id)
      BY <2>1, <2>2, OthersSame
    <2>4. Data'[id] = [k \in 0 .. (Words(live[id].size) - 1) |-> Fill[id]]
      <3>1. \A k \in 0 .. (Words(live'[id].size) - 1) : heap'.mem[live'[id].ptr + k] = Fill[id]
        BY <2>1, <2>2 DEF IInv, PayloadIntact
      <3>. QED BY <2>1, <2>2, <3>1 DEF Data, WordsOf
    <2>5. A!Span(live[id]) = 0 .. (Words(live[id].size) - 1)
      <3>1. live[id].size \in Nat
        BY <1>1 DEF LiveType, Block
      <3>. QED BY <3>1 DEF A!Span, A!Words, Words, roundup, HEADER_SIZE
    <2>6. A!Write(id)
      BY <2>1, <2>2, <2>3, <2>4, <2>5 DEF A!Write, Data, WordsOf, NULL
    <2>. QED BY <2>6 DEF A!Next
  <1>8. ASSUME Restart PROVE A!Next
    BY <1>8 DEF Restart, A!Next, A!Reset, A!NoBlock, NoBlock, NULL
  <1>9. ASSUME MallocFit \/ ReallocMove PROVE A!Next
    <2>1. Hit
      BY <1>9 DEF MallocFit, ReallocMove
    <2>2. /\ pc = "find" /\ call.id \in Ids /\ call.size \in Nat /\ call.cur + 1 # NULL
      BY <2>1, SearchHit, CallFacts, AddrFacts
    <2>3. CASE MallocFit
      <3>1. live[call.id].ptr = NULL /\ Return(call.id, call.cur + 1, call.size, 0)
        BY <2>3 DEF MallocFit
      <3>. QED BY <2>2, <3>1, ReturnRefines
    <2>4. CASE ReallocMove
      <3>1. /\ live[call.id].ptr # NULL
            /\ Return(call.id, call.cur + 1, call.size, call.keep)
        BY <2>4 DEF ReallocMove
      <3>2. call.keep = Min({call.size, live[call.id].size})
        BY <2>2, <3>1 DEF IInv, CallInProgress
      <3>. QED BY <2>2, <3>1, <3>2, ReturnRefines
    <2>. QED BY <1>9, <2>3, <2>4
  <1>10. ASSUME UNCHANGED vars PROVE UNCHANGED A!bvars
    BY <1>2, <1>10 DEF vars
  <1>. HIDE DEF A!bvars
  <1>. QED BY <1>3, <1>4, <1>5, <1>6, <1>7, <1>8, <1>9, <1>10
           DEF Next, ClientStep, CallStep

\* Seen through the client's pointers and the words behind them, the implicit
\* heap is an Allocator: blocks stay apart and inside the segment, a call
\* touches no other block's words, and realloc keeps the common prefix.
THEOREM Refinement == Spec => ImplementsAllocator
  <1>1. Init => A!Init
    <2>. SUFFICES ASSUME Init PROVE A!Init
      OBVIOUS
    <2>1. live = [j \in Ids |-> A!NoBlock]
      BY DEF Init, NoBlock, A!NoBlock, NULL
    <2>2. \A j \in Ids : live[j].size = 0 /\ Words(live[j].size) = 0
      BY WordsFacts DEF Init, NoBlock
    <2>3. 0 .. (0 - 1) = {}
      OBVIOUS
    <2>4. Data = [j \in Ids |-> [k \in {} |-> 0]]
      BY <2>2, <2>3 DEF Data, WordsOf
    <2>. QED BY <2>1, <2>4 DEF A!Init, Data, WordsOf
  <1>2. IInv /\ IInv' /\ [Next]_vars => [A!Next]_(A!bvars)
    BY NextRefines
  <1>3. IInv /\ [Next]_vars => IInv'
    BY NextIInv
  <1>. QED BY <1>1, <1>2, <1>3, InitIInv, PTL DEF Spec, ImplementsAllocator, A!Spec

-----------------------------------------------------------------------------
(* The heap checker.                                                        *)

\* The loop of validate_heap, as a function from the number of blocks passed.
Walks(h, W) ==
    W = [i \in 0 .. h.nheaders |->
            IF i = 0 THEN [cur |-> SegStart, sum |-> 0]
            ELSE LET w == W[i - 1]
                 IN  [cur |-> NextOf(h, w.cur),
                      sum |-> w.sum + HEADER_SIZE + SizeAt(h, w.cur)]]

LEMMA WalkFacts ==
    ASSUME NEW h, Sound(h), NEW W, Walks(h, W)
    PROVE  /\ W[0] = [cur |-> SegStart, sum |-> 0]
           /\ \A i \in 0 .. (h.nheaders - 1) :
                 W[i + 1] = [cur |-> NextOf(h, W[i].cur),
                             sum |-> W[i].sum + HEADER_SIZE + SizeAt(h, W[i].cur)]
  <1>1. h.nheaders \in Nat
    BY SoundCount, FS_CardinalityType
  <1>2. 0 \in 0 .. h.nheaders
    BY <1>1
  <1>3. ASSUME NEW i \in 0 .. (h.nheaders - 1)
        PROVE  i + 1 \in 0 .. h.nheaders /\ i + 1 # 0 /\ (i + 1) - 1 = i
    BY <1>1
  <1>. QED BY <1>2, <1>3 DEF Walks

\* The loop never reads a word that is not a header, and adds up the segment.
LEMMA WalkAddsUp ==
    ASSUME NEW h, Sound(h), NEW W, Walks(h, W)
    PROVE  W[h.nheaders].sum = HeapSize
  <1>. DEFINE n == h.nheaders
              c == [i \in 0 .. n |-> W[i].cur]
              S == {i \in 0 .. n : W[i].sum = 8 * (W[i].cur - SegStart)}
  <1>1. n \in Nat
    BY SoundCount, FS_CardinalityType
  <1>2. /\ \A i \in 0 .. (n - 1) : c[i] \in h.hdrs
        /\ c[n] = SegEnd
    <2>1. c[0] = SegStart
      BY <1>1, WalkFacts
    <2>2. \A i \in 0 .. (n - 1) : c[i + 1] = NextOf(h, c[i])
      <3>1. \A i \in 0 .. (n - 1) : i \in 0 .. n /\ i + 1 \in 0 .. n
        BY <1>1
      <3>2. ASSUME NEW i \in 0 .. (n - 1) PROVE W[i + 1].cur = NextOf(h, W[i].cur)
        <4>1. W[i + 1] = [cur |-> NextOf(h, W[i].cur),
                          sum |-> W[i].sum + HEADER_SIZE + SizeAt(h, W[i].cur)]
          BY WalkFacts
        <4>. QED BY <4>1
      <3>3. \A i \in 0 .. (n - 1) : c[i] = W[i].cur /\ c[i + 1] = W[i + 1].cur
        BY <3>1
      <3>. HIDE DEF c
      <3>. QED BY <3>2, <3>3
    <2>. HIDE DEF c
    <2>. QED BY <2>1, <2>2, HeaderLoop
  <1>3. 0 \in S
    BY <1>1, WalkFacts, AddrFacts
  <1>4. ASSUME NEW i \in 0 .. (n - 1), i \in S
        PROVE  i + 1 \in S
    <2>. DEFINE p == W[i].cur  e == NextOf(h, p)  s == W[i].sum  z == SizeAt(h, p)
    <2>1. p \in h.hdrs /\ i \in 0 .. n /\ i + 1 \in 0 .. n
      BY <1>1, <1>2
    <2>2. p \in Int /\ e \in Int /\ z = 8 * (e - p - 1)
      BY <2>1, SoundHeader
    <2>3. s = 8 * (p - SegStart)
      BY <1>4
    <2>4. W[i + 1] = [cur |-> e, sum |-> s + 8 + z]
      BY WalkFacts DEF HEADER_SIZE
    <2>. HIDE DEF p, e, s, z
    <2>5. s + 8 + z = 8 * (e - SegStart)
      BY <2>2, <2>3, AddrFacts
    <2>. QED BY <2>1, <2>4, <2>5
  <1>5. n \in S
    <2>. HIDE DEF S, n
    <2>1. 0 .. n \subseteq S
      BY <1>1, <1>3, <1>4, IntervalInduction
    <2>. QED BY <1>1, <2>1
  <1>6. W[n].sum = 8 * (SegEnd - SegStart)
    BY <1>1, <1>2, <1>5
  <1>7. 8 * (SegEnd - SegStart) = HeapSize
    BY HeapAssumption DEF SegEnd, HEADER_SIZE
  <1>. QED BY <1>6, <1>7

LEMMA WalkExists ==
    ASSUME NEW h, Sound(h)
    PROVE  \E W : Walks(h, W)
  <1>. DEFINE n == h.nheaders
              D == [cur : h.hdrs \cup {SegEnd}, sum : Int]
              base == [cur |-> SegStart, sum |-> 0]
              next(w) == [cur |-> NextOf(h, w.cur),
                          sum |-> w.sum + HEADER_SIZE + SizeAt(h, w.cur)]
              step == [w \in D |-> IF w.cur \in h.hdrs THEN next(w) ELSE w]
  <1>1. n \in Nat
    BY SoundCount, FS_CardinalityType
  <1>2. base \in D
    BY BeforeFirst
  <1>3. step \in [D -> D]
    <2>1. ASSUME NEW w \in D, w.cur \in h.hdrs PROVE next(w) \in D
      BY <2>1, SoundHeader DEF HEADER_SIZE
    <2>. HIDE DEF next, D
    <2>. QED BY <2>1
  <1>4. PICK f : Iterates(n, D, base, step, f)
    <2>. HIDE DEF n, D, base, step
    <2>. QED BY <1>1, <1>2, <1>3, IterationExists
  <1>5. /\ f \in [0 .. n -> D] /\ f[0] = base
        /\ \A i \in 0 .. (n - 1) : f[i + 1] = step[f[i]]
    BY <1>4 DEF Iterates
  <1>. DEFINE c == [i \in 0 .. n |-> f[i].cur]
  <1>6. \A i \in 0 .. (n - 1) : i \in 0 .. n /\ i + 1 \in 0 .. n /\ f[i] \in D
    BY <1>1, <1>5
  <1>7. \A i \in 0 .. (n - 1) : f[i].cur \in h.hdrs => f[i + 1] = next(f[i])
    <2>. HIDE DEF next, D
    <2>. QED BY <1>5, <1>6
  <1>8. \A i \in 0 .. (n - 1) : f[i].cur \in h.hdrs
    <2>1. c[0] = SegStart
      BY <1>1, <1>5
    <2>2. \A i \in 0 .. (n - 1) : c[i] \in h.hdrs => c[i + 1] = NextOf(h, c[i])
      <3>1. \A i \in 0 .. (n - 1) : c[i] = f[i].cur /\ c[i + 1] = f[i + 1].cur
        BY <1>6
      <3>2. ASSUME NEW i \in 0 .. (n - 1), f[i].cur \in h.hdrs
            PROVE  f[i + 1].cur = NextOf(h, f[i].cur)
        <4>1. f[i + 1] = next(f[i])
          BY <1>7, <3>2
        <4>. QED BY <4>1
      <3>. HIDE DEF c
      <3>. QED BY <3>1, <3>2
    <2>3. \A i \in 0 .. (n - 1) : c[i] \in h.hdrs
      <3>. HIDE DEF c
      <3>. QED BY <2>1, <2>2, HeaderLoop
    <2>. QED BY <1>6, <2>3
  <1>9. \A i \in 0 .. n : f[i] = IF i = 0 THEN base ELSE next(f[i - 1])
    <2>1. ASSUME NEW i \in 0 .. n, i # 0
          PROVE  i - 1 \in 0 .. (n - 1) /\ (i - 1) + 1 = i
      BY <1>1, <2>1
    <2>. HIDE DEF next, base
    <2>. QED BY <1>5, <1>7, <1>8, <2>1
  <1>10. f = [i \in 0 .. n |-> IF i = 0 THEN base ELSE next(f[i - 1])]
    <2>. HIDE DEF next, base, D
    <2>. QED BY <1>5, <1>9
  <1>11. Walks(h, f)
    BY <1>10 DEF Walks
  <1>. QED BY <1>11

LEMMA CheckerAcceptsSound ==
    ASSUME NEW h, Sound(h)
    PROVE  validate_heap(h)
  <1>. DEFINE walk[i \in 0 .. h.nheaders] ==
                  IF i = 0 THEN [cur |-> SegStart, sum |-> 0]
                  ELSE LET w == walk[i - 1]
                       IN  [cur |-> NextOf(h, w.cur),
                            sum |-> w.sum + HEADER_SIZE + SizeAt(h, w.cur)]
  <1>1. Walks(h, walk)
    BY WalkExists, Zenon DEF Walks
  <1>2. walk[h.nheaders].sum = HeapSize
    <2>. HIDE DEF walk
    <2>. QED BY <1>1, WalkAddsUp
  <1>. QED BY <1>2 DEF validate_heap

\* validate_heap accepts the heap of every state, so it does whenever the
\* harness calls it between two requests: its loop finds the segment's size.
THEOREM CheckerHolds == Spec => []CheckerAccepts
  <1>1. IInv => CheckerAccepts
    BY HeapSound, CheckerAcceptsSound DEF CheckerAccepts, IInv
  <1>. QED BY <1>1, Invariance, PTL
=============================================================================
