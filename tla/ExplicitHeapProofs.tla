------------------------- MODULE ExplicitHeapProofs -------------------------
(***************************************************************************)
(* Theorems about ExplicitHeap, for every segment size, every set of       *)
(* identifiers and every set of request sizes.                             *)
(***************************************************************************)
EXTENDS ExplicitHeap, HeapWordsProofs, TLAPS, FiniteSetTheorems, SequenceTheorems

-----------------------------------------------------------------------------
(* Rounding.                                                               *)

LEMMA RoundupFacts ==
    ASSUME NEW n \in Nat
    PROVE  /\ roundup(n, ALIGNMENT_16) \in Nat
           /\ roundup(n, ALIGNMENT_16) >= n
           /\ roundup(n, ALIGNMENT_16) % 8 = 0
           /\ n > 0 => roundup(n, ALIGNMENT_16) >= 16
           /\ Words(n) \in Nat
           /\ \A s \in Nat : n <= s /\ s % 8 = 0 => Words(n) <= s \div 8
           /\ n % 8 = 0 => Words(n) = n \div 8
  BY DEF roundup, ALIGNMENT_16, Words, HEADER_SIZE

-----------------------------------------------------------------------------
(* The free list.                                                          *)

\* Three words at every address of S: room for a header and two links, with
\* no two overlapping.
Spaced(S) == \A p \in S : /\ p \in Addr /\ p + 2 \in Addr
                         /\ \A q \in S : p = q \/ q >= p + 3 \/ p >= q + 3

LEMMA RoomFacts ==
    ASSUME NEW p \in Addr, p + 2 \in Addr
    PROVE  p \in Int /\ p + 1 \in Addr
  BY AddrFacts

LEMMA RangeFacts ==
    ASSUME NEW S, NEW L \in Seq(S)
    PROVE  /\ \A i \in 1..Len(L) : L[i] \in Range(L) /\ L[i] \in S
           /\ \A x \in Range(L) : \E i \in 1..Len(L) : x = L[i]
           /\ Range(L) \subseteq S
           /\ Len(L) \in Nat
  BY DEF Range

LEMMA ConsFacts ==
    ASSUME NEW S, NEW L \in Seq(S), NEW p \in S
    PROVE  /\ <<p>> \o L \in Seq(S) /\ Len(<<p>> \o L) = Len(L) + 1
           /\ (<<p>> \o L)[1] = p
           /\ \A i \in 2..(Len(L) + 1) : (<<p>> \o L)[i] = L[i - 1]
           /\ Range(<<p>> \o L) = Range(L) \cup {p}
  <1>. DEFINE K == <<p>> \o L
              n == Len(L)
  <1>1. <<p>> \in Seq(S) /\ Len(<<p>>) = 1 /\ <<p>>[1] = p /\ n \in Nat
    OBVIOUS
  <1>2. /\ K \in Seq(S) /\ Len(K) = n + 1
        /\ \A i \in 1..(n + 1) : K[i] = IF i <= 1 THEN p ELSE L[i - 1]
    BY <1>1, ConcatProperties
  <1>3. DOMAIN K = 1..(n + 1) /\ DOMAIN L = 1..n
    BY <1>1, <1>2
  <1>. HIDE DEF K, n
  <1>4. K[1] = p /\ \A i \in 2..(n + 1) : K[i] = L[i - 1]
    BY <1>1, <1>2
  <1>5. \A i \in 1..n : K[i + 1] = L[i] /\ i + 1 \in 1..(n + 1)
    BY <1>1, <1>2
  <1>6. Range(K) = Range(L) \cup {p}
    <2>1. ASSUME NEW x \in Range(K) PROVE x \in Range(L) \cup {p}
      <3>1. PICK i \in 1..(n + 1) : x = K[i]
        BY <1>2, RangeFacts
      <3>2. i # 1 => i - 1 \in 1..n
        BY <1>1
      <3>. QED BY <3>1, <3>2, <1>1, <1>4, RangeFacts DEF n
    <2>2. ASSUME NEW x \in Range(L) PROVE x \in Range(K)
      <3>1. PICK i \in 1..n : x = L[i]
        BY RangeFacts DEF n
      <3>. QED BY <3>1, <1>2, <1>5, RangeFacts
    <2>3. p \in Range(K)
      <3>1. 1 \in 1..(n + 1)
        BY <1>1
      <3>. QED BY <3>1, <1>2, <1>4, RangeFacts
    <2>. QED BY <2>1, <2>2, <2>3
  <1>. QED BY <1>2, <1>4, <1>6 DEF K, n

LEMMA RemoveAtFacts ==
    ASSUME NEW S, NEW L \in Seq(S), NEW i \in 1..Len(L)
    PROVE  /\ RemoveAt(L, i) \in Seq(S)
           /\ Len(RemoveAt(L, i)) = Len(L) - 1
           /\ \A j \in 1..(Len(L) - 1) :
                 RemoveAt(L, i)[j] = IF j < i THEN L[j] ELSE L[j + 1]
  <1>. DEFINE n == Len(L)
              a == SubSeq(L, 1, i - 1)
              b == SubSeq(L, i + 1, n)
  <1>1. n \in Nat /\ i \in Int /\ 1 <= i /\ i <= n /\ \A j \in 1..n : L[j] \in S
    OBVIOUS
  <1>2. /\ a \in Seq(S) /\ Len(a) = i - 1
        /\ \A j \in 1..(i - 1) : a[j] = L[j]
    OBVIOUS
  <1>3. /\ b \in Seq(S) /\ Len(b) = n - i
        /\ \A j \in 1..(n - i) : b[j] = L[i + j]
    OBVIOUS
  <1>. HIDE DEF a, b, n
  <1>4. /\ a \o b \in Seq(S)
        /\ Len(a \o b) = Len(a) + Len(b)
        /\ \A j \in 1..(Len(a) + Len(b)) :
              (a \o b)[j] = IF j <= Len(a) THEN a[j] ELSE b[j - Len(a)]
    BY <1>2, <1>3, ConcatProperties
  <1>5. Len(a \o b) = n - 1
    BY <1>1, <1>2, <1>3, <1>4
  <1>6. ASSUME NEW j \in 1..(n - 1)
        PROVE  (a \o b)[j] = IF j < i THEN L[j] ELSE L[j + 1]
    <2>1. CASE j < i
      BY <2>1, <1>1, <1>2, <1>3, <1>4
    <2>2. CASE ~(j < i)
      <3>1. j - (i - 1) \in 1..(n - i) /\ i + (j - (i - 1)) = j + 1
        BY <2>2, <1>1
      <3>. QED BY <2>2, <3>1, <1>1, <1>2, <1>3, <1>4
    <2>. QED BY <2>1, <2>2
  <1>. QED BY <1>4, <1>5, <1>6 DEF RemoveAt, a, b, n

LEMMA PositionFacts ==
    ASSUME NEW S, NEW L \in Seq(S), NEW p \in Range(L)
    PROVE  PositionIn(L, p) \in 1..Len(L) /\ L[PositionIn(L, p)] = p
  BY DEF PositionIn, Range

\* add_free_block puts p in front of a well linked list, and writes nothing
\* but link words of the list.
LEMMA AddFreeBlock ==
    ASSUME NEW h \in HeapType, Linked(h),
           NEW p \in Addr, p \notin Range(h.flist), Spaced(Range(h.flist) \cup {p}),
           Status(h.mem[p]) = StatusFree,
           NEW g, g = add_free_block(h, p)
    PROVE  /\ g \in HeapType /\ Linked(g)
           /\ Range(g.flist) = Range(h.flist) \cup {p}
           /\ g.hdrs = h.hdrs /\ g.nheaders = h.nheaders
           /\ \A a \in Addr : (\A q \in Range(g.flist) : a # q + 1 /\ a # q + 2)
                              => g.mem[a] = h.mem[a]
  <1>. DEFINE L == h.flist  n == Len(L)  m0 == h.mem  f == h.ffh
              K == <<p>> \o L
  <1>1. /\ L \in Seq(Addr) /\ n \in Nat /\ m0 \in [Addr -> Int]
    BY DEF HeapType
  <1>2. \A i \in 1..n : L[i] \in Range(L) /\ L[i] \in Addr
    BY <1>1, RangeFacts
  <1>3. /\ K \in Seq(Addr) /\ Len(K) = n + 1 /\ K[1] = p
        /\ \A i \in 2..(n + 1) : K[i] = L[i - 1]
        /\ Range(K) = Range(L) \cup {p}
    BY <1>1, ConsFacts
  <1>4. p + 2 \in Addr /\ p + 1 \in Addr /\ p \in Int
    BY AddrFacts, RoomFacts DEF Spaced
  <1>5. Masked(m0[p]) = m0[p] /\ m0[p] \in Int
    BY <1>1, WordFacts DEF StatusFree
  <1>6. NULL \in Int /\ NULL \notin Addr
    BY AddrFacts
  <1>7. \A i \in 1..n : /\ L[i] \in Int /\ L[i] + 2 \in Addr /\ L[i] + 1 \in Addr
                        /\ L[i] >= p + 3 \/ p >= L[i] + 3
                        /\ \A j \in 1..n : j = i \/ L[i] >= L[j] + 3 \/ L[j] >= L[i] + 3
    <2>1. ASSUME NEW i \in 1..n
          PROVE  /\ L[i] \in Int /\ L[i] + 2 \in Addr
                 /\ L[i] >= p + 3 \/ p >= L[i] + 3
      BY <1>2, AddrFacts DEF Spaced
    <2>2. ASSUME NEW i \in 1..n, NEW j \in 1..n, i # j
          PROVE  L[i] >= L[j] + 3 \/ L[j] >= L[i] + 3
      <3>1. L[i] # L[j]
        BY <2>2 DEF Linked
      <3>. QED BY <3>1, <1>2 DEF Spaced
    <2>. QED BY <2>1, <2>2, <1>2, RoomFacts
  <1>8. /\ f = IF n = 0 THEN NULL ELSE L[1]
        /\ \A i \in 1..n : /\ m0[L[i] + 1] = IF i = 1 THEN NULL ELSE L[i - 1]
                           /\ m0[L[i] + 2] = IF i = n THEN NULL ELSE L[i + 1]
        /\ \A i, j \in 1..n : L[i] = L[j] => i = j
        /\ h.nfreeheaders = n
    BY DEF Linked
  <1>9. CASE f = NULL
    <2>1. n = 0
      BY <1>1, <1>2, <1>6, <1>8, <1>9
    <2>2. L = <<>> /\ K = <<p>>
      <3>1. L = <<>>
        BY <2>1, <1>1, EmptySeq
      <3>2. <<p>> \in Seq(Addr)
        OBVIOUS
      <3>. QED BY <3>1, <3>2, ConcatEmptySeq
    <2>. DEFINE m == [m0 EXCEPT ![p + 1] = NULL, ![p + 2] = NULL]
    <2>3. g = [h EXCEPT !.mem = m, !.ffh = p, !.nfreeheaders = 1, !.flist = K]
      <3>1. g = [h EXCEPT !.mem = m, !.ffh = p, !.nfreeheaders = 1, !.flist = <<p>>]
        BY <1>9 DEF add_free_block
      <3>. QED BY <3>1, <2>2
    <2>4. /\ g.mem = m /\ g.ffh = p /\ g.nfreeheaders = 1 /\ g.flist = K
          /\ g.hdrs = h.hdrs /\ g.nheaders = h.nheaders
      BY <2>3 DEF HeapType
    <2>. HIDE DEF L, n, m0, f, K
    <2>5. /\ m \in [Addr -> Int] /\ m[p + 1] = NULL /\ m[p + 2] = NULL
          /\ \A a \in Addr : a # p + 1 /\ a # p + 2 => m[a] = m0[a]
      BY <1>1, <1>4, <1>6
    <2>. HIDE DEF m
    <2>6. g \in HeapType
      <3>1. K \in Seq(Addr) /\ 1 \in Nat
        BY <1>3
      <3>. QED BY <2>3, <2>5, <3>1 DEF HeapType
    <2>7. Linked(g)
      BY <2>2, <2>4, <2>5 DEF Linked
    <2>. QED BY <2>2, <2>4, <2>5, <2>6, <2>7, <1>3 DEF L, m0
  <1>10. CASE f # NULL
    <2>1. n >= 1 /\ f = L[1]
      BY <1>8, <1>10, <1>1
    <2>. DEFINE m1 == [m0 EXCEPT ![f + 1] = p, ![p + 1] = NULL, ![p + 2] = f]
                m  == [m1 EXCEPT ![p] = Masked(m1[p])]
    <2>2. g = [h EXCEPT !.mem = m, !.ffh = p, !.nfreeheaders = h.nfreeheaders + 1,
                        !.flist = K]
      BY <1>10 DEF add_free_block
    <2>3. /\ g.mem = m /\ g.ffh = p /\ g.nfreeheaders = n + 1 /\ g.flist = K
          /\ g.hdrs = h.hdrs /\ g.nheaders = h.nheaders
      BY <2>2, <1>8 DEF HeapType
    <2>. HIDE DEF L, n, m0, f, K
    <2>4. f \in Int /\ f \in Addr /\ f + 1 \in Addr /\ f + 2 \in Addr
          /\ (f >= p + 3 \/ p >= f + 3)
      <3>1. 1 \in 1..n
        BY <2>1, <1>1
      <3>. QED BY <3>1, <2>1, <1>2, <1>7
    <2>5. /\ m1 \in [Addr -> Int] /\ m1[f + 1] = p /\ m1[p + 1] = NULL /\ m1[p + 2] = f
          /\ \A a \in Addr : a # f + 1 /\ a # p + 1 /\ a # p + 2 => m1[a] = m0[a]
      BY <1>1, <1>4, <1>6, <2>4
    <2>. HIDE DEF m1
    <2>6. m1[p] = m0[p]
      BY <2>4, <2>5, <1>4
    <2>7. m = m1
      BY <2>5, <2>6, <1>5
    <2>. HIDE DEF m
    <2>8. g \in HeapType
      <3>1. h.nfreeheaders + 1 \in Nat
        BY DEF HeapType
      <3>. QED BY <2>2, <2>5, <2>7, <1>3, <3>1 DEF HeapType
    <2>9. ASSUME NEW i \in 1..(n + 1)
          PROVE  /\ m[K[i] + 1] = IF i = 1 THEN NULL ELSE K[i - 1]
                 /\ m[K[i] + 2] = IF i = n + 1 THEN NULL ELSE K[i + 1]
      <3>1. CASE i = 1
        <4>1. K[2] = L[1]
          BY <1>3, <2>1, <1>1
        <4>. QED BY <3>1, <4>1, <1>3, <2>1, <2>5, <2>7, <1>1
      <3>2. CASE i # 1
        <4>. DEFINE k == i - 1
        <4>1. k \in 1..n /\ i = k + 1 /\ k \in Int /\ (k = n <=> i = n + 1)
          BY <3>2, <1>1
        <4>2. K[i] = L[k] /\ (k < n => K[i + 1] = L[k + 1]) /\ (k > 1 => K[i - 1] = L[k - 1])
          BY <4>1, <1>3, <1>1, SMTT(60)
        <4>8. /\ k # 1 => L[k] >= f + 3 \/ f >= L[k] + 3
              /\ k = 1 => L[k] = f
              /\ L[k] >= p + 3 \/ p >= L[k] + 3
              /\ L[k] \in Int /\ L[k] + 1 \in Addr /\ L[k] + 2 \in Addr
          <5>1. 1 \in 1..n
            BY <2>1, <1>1
          <5>. QED BY <5>1, <4>1, <1>7, <2>1
        <4>3. m[L[k] + 2] = m0[L[k] + 2]
          <5>1. L[k] + 2 # f + 1 /\ L[k] + 2 # p + 1 /\ L[k] + 2 # p + 2
            BY <4>8, <2>4, <1>4
          <5>. QED BY <4>1, <5>1, <1>7, <2>5, <2>7
        <4>4. m[L[k] + 1] = IF k = 1 THEN p ELSE m0[L[k] + 1]
          <5>1. CASE k = 1
            BY <5>1, <2>1, <2>5, <2>7
          <5>2. CASE k # 1
            <6>1. L[k] + 1 # f + 1 /\ L[k] + 1 # p + 1 /\ L[k] + 1 # p + 2
              BY <5>2, <4>8, <2>4, <1>4
            <6>. QED BY <5>2, <4>1, <6>1, <1>7, <2>5, <2>7
          <5>. QED BY <5>1, <5>2
        <4>5. /\ m0[L[k] + 1] = IF k = 1 THEN NULL ELSE L[k - 1]
              /\ m0[L[k] + 2] = IF k = n THEN NULL ELSE L[k + 1]
          BY <4>1, <1>8
        <4>. HIDE DEF k
        <4>6. m[K[i] + 2] = IF i = n + 1 THEN NULL ELSE K[i + 1]
          BY <4>1, <4>2, <4>3, <4>5, <1>1
        <4>7. m[K[i] + 1] = K[i - 1]
          <5>1. k = 1 => K[i - 1] = p
            BY <4>1, <1>3
          <5>. QED BY <4>1, <4>2, <4>4, <4>5, <5>1
        <4>. QED BY <3>2, <4>6, <4>7
      <3>. QED BY <3>1, <3>2
    <2>10. ASSUME NEW i \in 1..(n + 1), NEW j \in 1..(n + 1), K[i] = K[j]
           PROVE  i = j
      <3>1. ASSUME NEW k \in 2..(n + 1) PROVE K[k] # p /\ k - 1 \in 1..n /\ K[k] = L[k - 1]
        <4>1. k - 1 \in 1..n /\ K[k] = L[k - 1]
          BY <1>1, <1>3
        <4>. QED BY <4>1, <1>7, <1>4
      <3>. QED BY <2>10, <3>1, <1>3, <1>8, <1>1
    <2>11. Linked(g)
      <3>1. n + 1 # 0 /\ Len(K) = n + 1 /\ K[1] = p
        BY <1>1, <1>3
      <3>. QED BY <2>3, <2>9, <2>10, <3>1 DEF Linked
    <2>12. ASSUME NEW a \in Addr, \A q \in Range(g.flist) : a # q + 1 /\ a # q + 2
           PROVE  g.mem[a] = m0[a]
      <3>1. f \in Range(K) /\ p \in Range(K)
        BY <1>3, <1>2, <2>1, <1>1
      <3>. QED BY <2>12, <3>1, <2>3, <2>5, <2>7
    <2>. QED BY <2>3, <2>8, <2>11, <2>12, <1>3 DEF L, m0
  <1>. QED BY <1>9, <1>10

\* remove_free_block takes p out of a well linked list and marks it used, and
\* writes nothing else but link words of the blocks that stay.
LEMMA RemoveFreeBlock ==
    ASSUME NEW h \in HeapType, Linked(h), Spaced(Range(h.flist)),
           NEW p \in Range(h.flist),
           NEW g, g = remove_free_block(h, p)
    PROVE  /\ g \in HeapType /\ Linked(g)
           /\ Range(g.flist) = Range(h.flist) \ {p}
           /\ g.hdrs = h.hdrs /\ g.nheaders = h.nheaders
           /\ g.mem[p] = SetUsed(h.mem[p])
           /\ \A a \in Addr : a # p /\ (\A q \in Range(g.flist) : a # q + 1 /\ a # q + 2)
                              => g.mem[a] = h.mem[a]
  <1>. DEFINE L == h.flist  n == Len(L)  m0 == h.mem  k == PositionIn(L, p)
              R == RemoveAt(L, k)
              prev == m0[p + 1]
              next == m0[p + 2]
              m == IF h.nfreeheaders = 1 THEN m0
                   ELSE IF prev = NULL   THEN [m0 EXCEPT ![next + 1] = NULL]
                   ELSE IF next = NULL   THEN [m0 EXCEPT ![prev + 2] = NULL]
                   ELSE [m0 EXCEPT ![prev + 2] = next, ![next + 1] = prev]
              mm == [m EXCEPT ![p] = SetUsed(m[p])]
              front == IF h.nfreeheaders = 1 THEN NULL ELSE IF prev = NULL THEN next ELSE h.ffh
  <1>1. L \in Seq(Addr) /\ n \in Nat /\ m0 \in [Addr -> Int]
    BY DEF HeapType
  <1>2. k \in 1..n /\ L[k] = p /\ n >= 1 /\ k \in Int
    <2>1. k \in 1..n /\ L[k] = p
      BY <1>1, PositionFacts
    <2>. HIDE DEF k, n
    <2>. QED BY <2>1, <1>1
  <1>3. \A i \in 1..n : L[i] \in Range(L) /\ L[i] \in Addr
    BY <1>1, RangeFacts
  <1>4. /\ R \in Seq(Addr) /\ Len(R) = n - 1
        /\ \A j \in 1..(n - 1) : R[j] = IF j < k THEN L[j] ELSE L[j + 1]
    BY <1>1, <1>2, RemoveAtFacts
  <1>5. NULL \in Int /\ NULL \notin Addr
    BY AddrFacts
  <1>6. /\ h.ffh = IF n = 0 THEN NULL ELSE L[1]
        /\ \A i \in 1..n : /\ m0[L[i] + 1] = IF i = 1 THEN NULL ELSE L[i - 1]
                           /\ m0[L[i] + 2] = IF i = n THEN NULL ELSE L[i + 1]
        /\ \A i, j \in 1..n : L[i] = L[j] => i = j
        /\ h.nfreeheaders = n
    BY DEF Linked
  <1>7. \A i \in 1..n : /\ L[i] \in Int /\ L[i] + 1 \in Addr /\ L[i] + 2 \in Addr
                        /\ \A j \in 1..n : j = i \/ L[i] >= L[j] + 3 \/ L[j] >= L[i] + 3
    <2>1. ASSUME NEW i \in 1..n
          PROVE  L[i] \in Int /\ L[i] + 2 \in Addr
      BY <1>3, AddrFacts DEF Spaced
    <2>2. ASSUME NEW i \in 1..n, NEW j \in 1..n, i # j
          PROVE  L[i] >= L[j] + 3 \/ L[j] >= L[i] + 3
      <3>1. L[i] # L[j]
        BY <2>2 DEF Linked
      <3>. QED BY <3>1, <1>3 DEF Spaced
    <2>. QED BY <2>1, <2>2, <1>3, RoomFacts
  <1>8. /\ prev = IF k = 1 THEN NULL ELSE L[k - 1]
        /\ next = IF k = n THEN NULL ELSE L[k + 1]
    BY <1>2, <1>6
  <1>9. g = [h EXCEPT !.mem = mm, !.ffh = front, !.nfreeheaders = h.nfreeheaders - 1,
                      !.flist = R]
    BY DEF remove_free_block
  <1>10. /\ g.mem = mm /\ g.ffh = front /\ g.nfreeheaders = n - 1 /\ g.flist = R
         /\ g.hdrs = h.hdrs /\ g.nheaders = h.nheaders
    BY <1>6, <1>9 DEF HeapType
  <1>11. m = IF n = 1 THEN m0
             ELSE IF prev = NULL THEN [m0 EXCEPT ![next + 1] = NULL]
             ELSE IF next = NULL THEN [m0 EXCEPT ![prev + 2] = NULL]
             ELSE [m0 EXCEPT ![prev + 2] = next, ![next + 1] = prev]
    BY <1>6
  <1>12. front = IF n = 1 THEN NULL ELSE IF prev = NULL THEN next ELSE L[1]
    BY <1>2, <1>6
  <1>. HIDE DEF L, n, m0, k, R, m, prev, next, front
  <1>13. /\ k # 1 => /\ k - 1 \in 1..n /\ prev = L[k - 1] /\ prev # NULL
                     /\ prev \in Int /\ prev + 2 \in Addr /\ prev \in Addr
                     /\ (prev >= p + 3 \/ p >= prev + 3)
         /\ k # n => /\ k + 1 \in 1..n /\ next = L[k + 1] /\ next # NULL
                     /\ next \in Int /\ next + 1 \in Addr /\ next \in Addr
                     /\ (next >= p + 3 \/ p >= next + 3)
         /\ k = 1 => prev = NULL
         /\ k = n => next = NULL
         /\ p \in Int /\ p \in Addr
    <2>1. ASSUME k # 1 PROVE k - 1 \in 1..n /\ k - 1 # k
      BY <2>1, <1>1, <1>2
    <2>2. ASSUME k # n PROVE k + 1 \in 1..n /\ k + 1 # k
      BY <2>2, <1>1, <1>2
    <2>. QED BY <2>1, <2>2, <1>2, <1>3, <1>5, <1>7, <1>8
  <1>14. /\ m \in [Addr -> Int]
         /\ \A a \in Addr : m[a] = IF k # n /\ a = next + 1 THEN prev
                                   ELSE IF k # 1 /\ a = prev + 2 THEN next
                                   ELSE m0[a]
    <2>1. CASE n = 1
      <3>1. k = 1 /\ m = m0
        BY <2>1, <1>1, <1>2, <1>11
      <3>. QED BY <2>1, <3>1, <1>1
    <2>2. CASE n # 1 /\ k = 1
      <3>1. k # n /\ prev = NULL /\ m = [m0 EXCEPT ![next + 1] = NULL]
        BY <2>2, <1>11, <1>13
      <3>. QED BY <2>2, <3>1, <1>1, <1>5
    <2>3. CASE n # 1 /\ k = n
      <3>1. k # 1 /\ next = NULL /\ m = [m0 EXCEPT ![prev + 2] = NULL]
        BY <2>3, <1>11, <1>13
      <3>. QED BY <2>3, <3>1, <1>1, <1>5
    <2>4. CASE k # 1 /\ k # n
      <3>1. n # 1 /\ prev # NULL /\ next # NULL
        BY <2>4, <1>1, <1>2, <1>13
      <3>2. m = [m0 EXCEPT ![prev + 2] = next, ![next + 1] = prev]
        BY <3>1, <1>11
      <3>3. prev \in Int /\ next \in Int /\ prev + 2 # next + 1
        <4>1. prev >= next + 3 \/ next >= prev + 3
          <5>1. k - 1 # k + 1
            BY <1>2
          <5>. QED BY <5>1, <2>4, <1>7, <1>13
        <4>. QED BY <4>1, <2>4, <1>13
      <3>. QED BY <2>4, <3>2, <3>3, <1>1
    <2>. QED BY <2>1, <2>2, <2>3, <2>4
  <1>15. m[p] = m0[p]
    BY <1>13, <1>14
  <1>16. /\ mm \in [Addr -> Int] /\ mm[p] = SetUsed(m0[p])
         /\ \A a \in Addr : a # p => mm[a] = m[a]
    <2>1. SetUsed(m0[p]) \in Int
      BY <1>1, <1>13, WordFacts
    <2>. QED BY <2>1, <1>13, <1>14, <1>15
  <1>. HIDE DEF mm
  <1>17. front \in Addr \cup {NULL} /\ n - 1 \in Nat
    <2>1. L[1] \in Addr
      <3>1. 1 \in 1..n
        BY <1>1, <1>2
      <3>. QED BY <3>1, <1>3
    <2>. QED BY <2>1, <1>1, <1>2, <1>12, <1>13
  <1>18. g \in HeapType
    BY <1>4, <1>6, <1>9, <1>16, <1>17, ZenonT(60) DEF HeapType
  <1>19. Range(R) = Range(L) \ {p}
    <2>1. ASSUME NEW x \in Range(R) PROVE x \in Range(L) \ {p}
      <3>1. PICK j \in 1..(n - 1) : x = R[j]
        BY <1>4, RangeFacts
      <3>2. \E i \in 1..n : i # k /\ x = L[i]
        <4>1. j \in 1..n /\ j + 1 \in 1..n /\ j \in Int
          BY <1>1
        <4>2. CASE j < k
          BY <4>1, <4>2, <3>1, <1>4, <1>2
        <4>3. CASE ~(j < k)
          BY <4>1, <4>3, <3>1, <1>4, <1>2
        <4>. QED BY <4>2, <4>3
      <3>. QED BY <3>2, <1>2, <1>3, <1>6
    <2>2. ASSUME NEW x \in Range(L) \ {p} PROVE x \in Range(R)
      <3>1. PICK i \in 1..n : x = L[i]
        BY <1>1, RangeFacts DEF n
      <3>2. i # k /\ i \in Int
        BY <3>1, <1>2, <1>1
      <3>3. \E j \in 1..(n - 1) : x = R[j]
        <4>1. CASE i < k
          <5>1. i \in 1..(n - 1)
            BY <4>1, <1>1, <1>2
          <5>. QED BY <4>1, <5>1, <3>1, <1>4
        <4>2. CASE i > k
          <5>1. i - 1 \in 1..(n - 1) /\ ~(i - 1 < k) /\ (i - 1) + 1 = i
            BY <4>2, <1>1, <1>2
          <5>. QED BY <5>1, <3>1, <1>4
        <4>. QED BY <4>1, <4>2, <3>2, <1>2
      <3>. QED BY <3>3, <1>4, RangeFacts
    <2>. QED BY <2>1, <2>2
  <1>20. ASSUME NEW i \in 1..n, i # k
         PROVE  /\ mm[L[i] + 1] = IF i = k + 1 THEN prev ELSE m0[L[i] + 1]
                /\ mm[L[i] + 2] = IF i = k - 1 THEN next ELSE m0[L[i] + 2]
    <2>1. /\ L[i] \in Int /\ L[i] + 1 \in Addr /\ L[i] + 2 \in Addr
          /\ L[i] >= p + 3 \/ p >= L[i] + 3
      BY <1>20, <1>2, <1>7
    <2>2. /\ k # n => L[i] = next \/ L[i] >= next + 3 \/ next >= L[i] + 3
          /\ k # n => (L[i] = next <=> i = k + 1)
          /\ k # 1 => L[i] = prev \/ L[i] >= prev + 3 \/ prev >= L[i] + 3
          /\ k # 1 => (L[i] = prev <=> i = k - 1)
      BY <1>6, <1>7, <1>13
    <2>3. i = k + 1 => k # n
      BY <1>1, <1>2
    <2>4. i = k - 1 => k # 1
      BY <1>1, <1>2
    <2>5. mm[L[i] + 1] = m[L[i] + 1] /\ mm[L[i] + 2] = m[L[i] + 2]
      BY <2>1, <1>13, <1>16
    <2>6. m[L[i] + 1] = IF i = k + 1 THEN prev ELSE m0[L[i] + 1]
      BY <2>1, <2>2, <2>3, <1>13, <1>14
    <2>7. m[L[i] + 2] = IF i = k - 1 THEN next ELSE m0[L[i] + 2]
      BY <2>1, <2>2, <2>4, <1>13, <1>14
    <2>. QED BY <2>5, <2>6, <2>7
  <1>21. ASSUME NEW j \in 1..(n - 1)
         PROVE  /\ mm[R[j] + 1] = IF j = 1 THEN NULL ELSE R[j - 1]
                /\ mm[R[j] + 2] = IF j = n - 1 THEN NULL ELSE R[j + 1]
    <2>1. CASE j < k
      <3>1. j \in 1..n /\ j # k /\ R[j] = L[j] /\ j # k + 1 /\ j \in Int
        BY <2>1, <1>1, <1>2, <1>4
      <3>2. mm[R[j] + 1] = m0[L[j] + 1] /\ (j # 1 => R[j - 1] = L[j - 1])
        BY <2>1, <3>1, <1>20, <1>1, <1>2, <1>4
      <3>3. CASE j = k - 1
        <4>1. mm[R[j] + 2] = next
          BY <3>1, <3>3, <1>20
        <4>2. j # n - 1 => R[j + 1] = L[k + 1] /\ k # n
          <5>1. ASSUME j # n - 1
                PROVE  j + 1 \in 1..(n - 1) /\ ~(j + 1 < k) /\ (j + 1) + 1 = k + 1 /\ k # n
            BY <5>1, <3>1, <3>3, <1>1, <1>2
          <5>. QED BY <5>1, <1>4
        <4>3. j = n - 1 => k = n
          BY <3>3, <1>1, <1>2
        <4>. QED BY <3>1, <3>2, <4>1, <4>2, <4>3, <1>6, <1>13
      <3>4. CASE j # k - 1
        <4>1. mm[R[j] + 2] = m0[L[j] + 2] /\ j # n /\ j # n - 1 /\ R[j + 1] = L[j + 1]
          BY <2>1, <3>1, <3>4, <1>20, <1>1, <1>2, <1>4
        <4>. QED BY <3>1, <3>2, <4>1, <1>6
      <3>. QED BY <3>3, <3>4
    <2>2. CASE ~(j < k)
      <3>. DEFINE i == j + 1
      <3>1. i \in 1..n /\ i # k /\ R[j] = L[i] /\ i # k - 1 /\ i \in Int /\ i # 1
            /\ i - 1 = j /\ (i = n <=> j = n - 1) /\ (i = k + 1 <=> j = k)
        BY <2>2, <1>1, <1>2, <1>4
      <3>2. mm[R[j] + 2] = m0[L[i] + 2] /\ (j # n - 1 => R[j + 1] = L[i + 1])
        BY <2>2, <3>1, <1>20, <1>1, <1>2, <1>4
      <3>. HIDE DEF i
      <3>3. CASE j = k
        <4>1. mm[R[j] + 1] = prev
          BY <3>1, <3>3, <1>20
        <4>2. j # 1 => R[j - 1] = L[k - 1]
          <5>1. j # 1 => j - 1 \in 1..(n - 1) /\ j - 1 < k /\ j - 1 = k - 1
            BY <3>3, <1>1, <1>2
          <5>. QED BY <5>1, <1>4
        <4>. QED BY <3>1, <3>2, <3>3, <4>1, <4>2, <1>6, <1>13
      <3>4. CASE j # k
        <4>1. mm[R[j] + 1] = m0[L[i] + 1] /\ j # 1 /\ R[j - 1] = L[i - 1]
          <5>1. /\ j # 1 /\ j - 1 \in 1..(n - 1) /\ ~(j - 1 < k)
                /\ (j - 1) + 1 = i - 1 /\ i # k + 1
            <6>1. j \in Int /\ k \in Int /\ n \in Int /\ j <= n - 1 /\ j > k /\ k >= 1
              BY <2>2, <3>4, <1>1, <1>2
            <6>2. j # 1 /\ j - 1 \in 1..(n - 1) /\ ~(j - 1 < k) /\ (j - 1) + 1 = j
              BY <6>1
            <6>. QED BY <6>2, <3>1, <3>4
          <5>. QED BY <5>1, <3>1, <1>20, <1>4
        <4>. QED BY <3>1, <3>2, <4>1, <1>6
      <3>. QED BY <3>3, <3>4
    <2>. QED BY <2>1, <2>2
  <1>22. ASSUME NEW i \in 1..(n - 1), NEW j \in 1..(n - 1), R[i] = R[j]
         PROVE  i = j
    <2>1. i \in 1..n /\ i + 1 \in 1..n /\ j \in 1..n /\ j + 1 \in 1..n
      BY <1>1
    <2>. DEFINE ii == IF i < k THEN i ELSE i + 1
                jj == IF j < k THEN j ELSE j + 1
    <2>2. ii \in 1..n /\ jj \in 1..n
      BY <2>1
    <2>3. L[ii] = L[jj]
      BY <1>22, <1>4
    <2>4. ii = jj
      BY <2>2, <2>3, <1>6
    <2>5. i \in Int /\ j \in Int /\ k \in Int
      BY <2>1, <1>2
    <2>. QED BY <2>4, <2>5
  <1>23. front = IF n - 1 = 0 THEN NULL ELSE R[1]
    <2>1. CASE n = 1
      BY <2>1, <1>12
    <2>2. CASE n # 1
      <3>1. 1 \in 1..(n - 1) /\ n - 1 # 0
        BY <2>2, <1>1, <1>2
      <3>2. R[1] = IF k = 1 THEN L[2] ELSE L[1]
        BY <3>1, <1>4, <1>2
      <3>3. k = 1 => next = L[2]
        BY <2>2, <1>13
      <3>. QED BY <2>2, <3>1, <3>2, <3>3, <1>12, <1>13
    <2>. QED BY <2>1, <2>2
  <1>24. Linked(g)
    <2>1. /\ g.ffh = IF Len(g.flist) = 0 THEN NULL ELSE g.flist[1]
          /\ g.nfreeheaders = Len(g.flist)
      BY <1>4, <1>10, <1>23
    <2>2. \A j \in 1..Len(g.flist) :
             /\ g.mem[g.flist[j] + 1] = IF j = 1 THEN NULL ELSE g.flist[j - 1]
             /\ g.mem[g.flist[j] + 2] = IF j = Len(g.flist) THEN NULL ELSE g.flist[j + 1]
      BY <1>4, <1>10, <1>21
    <2>3. \A i, j \in 1..Len(g.flist) : g.flist[i] = g.flist[j] => i = j
      BY <1>4, <1>10, <1>22
    <2>. QED BY <2>1, <2>2, <2>3 DEF Linked
  <1>25. ASSUME NEW a \in Addr, a # p,
                \A q \in Range(g.flist) : a # q + 1 /\ a # q + 2
         PROVE  g.mem[a] = m0[a]
    <2>1. (k # n => next \in Range(R)) /\ (k # 1 => prev \in Range(R))
      BY <1>3, <1>13, <1>19, <1>6, <1>2
    <2>. QED BY <1>25, <2>1, <1>10, <1>14, <1>16
  <1>. QED BY <1>10, <1>16, <1>18, <1>19, <1>24, <1>25 DEF L, m0

-----------------------------------------------------------------------------
(* The tiling of the segment.                                              *)

LEMMA TilesSound ==
    ASSUME NEW h \in HeapType, Tiles(h)
    PROVE  Sound(h) /\ \A p \in h.hdrs : SizeAt(h, p) >= 16
  <1>1. h.mem \in [Addr -> Int] /\ h.hdrs \subseteq Addr
    BY DEF HeapType
  <1>. QED BY <1>1 DEF Tiles, Sound, ALIGNMENT_16

\* What the header at p says, in words: the block is p .. NextOf(h, p) - 1.
LEMMA HeaderFacts ==
    ASSUME NEW h \in HeapType, Tiles(h), NEW p \in h.hdrs
    PROVE  /\ p \in Int /\ p \in Addr /\ h.mem[p] \in Int
           /\ SizeAt(h, p) \in Int /\ NextOf(h, p) \in Int
           /\ SizeAt(h, p) = 8 * (NextOf(h, p) - p - 1)
           /\ SizeAt(h, p) >= 16 /\ NextOf(h, p) >= p + 3
           /\ NextOf(h, p) \in h.hdrs \/ NextOf(h, p) = SegEnd
           /\ NextOf(h, p) <= SegEnd
           /\ p + 1 \in Addr /\ p + 2 \in Addr
           /\ Status(h.mem[p]) \in {0, 1}
           /\ h.mem[p] = SizeAt(h, p) + Status(h.mem[p])
  <1>1. Sound(h) /\ SizeAt(h, p) >= 16
    BY TilesSound
  <1>2. /\ p \in Int /\ p \in Addr /\ h.mem[p] \in Int
        /\ SizeAt(h, p) \in Int /\ NextOf(h, p) \in Int
        /\ SizeAt(h, p) = 8 * (NextOf(h, p) - p - 1)
        /\ NextOf(h, p) \in h.hdrs \/ NextOf(h, p) = SegEnd
        /\ NextOf(h, p) <= SegEnd
        /\ Status(h.mem[p]) \in {0, 1}
        /\ h.mem[p] = SizeAt(h, p) + Status(h.mem[p])
    BY <1>1, SoundHeader
  <1>3. NextOf(h, p) >= p + 3
    BY <1>1, <1>2
  <1>4. p + 1 \in Addr /\ p + 2 \in Addr
    BY <1>2, <1>3, AddrFacts
  <1>. QED BY <1>1, <1>2, <1>3, <1>4

\* Two blocks never overlap.
LEMMA Apart ==
    ASSUME NEW h \in HeapType, Tiles(h), NEW p \in h.hdrs, NEW q \in h.hdrs, p # q
    PROVE  q >= NextOf(h, p) \/ p >= NextOf(h, q)
  BY TilesSound, SoundApart

LEMMA HeadersSpaced ==
    ASSUME NEW h \in HeapType, Tiles(h)
    PROVE  Spaced(h.hdrs) /\ IsFiniteSet(h.hdrs) /\ h.nheaders = Cardinality(h.hdrs)
  <1>1. ASSUME NEW p \in h.hdrs PROVE p \in Addr /\ p + 2 \in Addr
    BY HeaderFacts
  <1>2. ASSUME NEW p \in h.hdrs, NEW q \in h.hdrs
        PROVE  p = q \/ q >= p + 3 \/ p >= q + 3
    <2>1. CASE p # q
      BY <2>1, Apart, HeaderFacts
    <2>. QED BY <2>1
  <1>3. IsFiniteSet(h.hdrs) /\ h.nheaders = Cardinality(h.hdrs)
    BY TilesSound, SoundCount
  <1>. QED BY <1>1, <1>2, <1>3 DEF Spaced

\* Rewriting headers without moving a boundary keeps the tiling.
LEMMA TilesMark ==
    ASSUME NEW h \in HeapType, Tiles(h), NEW g \in HeapType,
           g.hdrs = h.hdrs, g.nheaders = h.nheaders,
           \A q \in h.hdrs : /\ SizeAt(g, q) = SizeAt(h, q)
                             /\ Status(g.mem[q]) \in {0, 1}
    PROVE  Tiles(g) /\ \A q \in h.hdrs : NextOf(g, q) = NextOf(h, q)
  <1>1. g.mem \in [Addr -> Int]
    BY DEF HeapType
  <1>2. Sound(g) /\ \A q \in h.hdrs : NextOf(g, q) = NextOf(h, q)
    BY <1>1, TilesSound, SoundMark
  <1>. QED BY <1>2, TilesSound DEF Sound, Tiles, ALIGNMENT_16

\* The boundary that a split adds.
LEMMA TilesSplit ==
    ASSUME NEW h \in HeapType, Tiles(h), NEW g \in HeapType,
           NEW p \in h.hdrs, NEW size \in Nat, size % 8 = 0, size >= 16,
           SizeAt(h, p) - size - 8 >= 16,
           NEW new, new = p + size \div 8 + 1,
           g.hdrs = h.hdrs \cup {new}, g.nheaders = h.nheaders + 1,
           SizeAt(g, p) = size, Status(g.mem[p]) \in {0, 1},
           SizeAt(g, new) = SizeAt(h, p) - size - 8, Status(g.mem[new]) \in {0, 1},
           \A q \in h.hdrs \ {p} : g.mem[q] = h.mem[q]
    PROVE  /\ Tiles(g) /\ new \notin h.hdrs
           /\ NextOf(g, p) = new /\ NextOf(g, new) = NextOf(h, p)
           /\ \A q \in h.hdrs \ {p} : NextOf(g, q) = NextOf(h, q)
  <1>1. g.mem \in [Addr -> Int] /\ g.hdrs \subseteq Addr
    BY DEF HeapType
  <1>2. Sound(h) /\ \A q \in h.hdrs : SizeAt(h, q) >= 16
    BY TilesSound
  <1>3. size >= 8 /\ SizeAt(h, p) - size - 8 >= 8
    BY HeaderFacts
  <1>4. /\ Sound(g) /\ new \notin h.hdrs
        /\ NextOf(g, p) = new /\ NextOf(g, new) = NextOf(h, p)
        /\ \A q \in h.hdrs \ {p} : NextOf(g, q) = NextOf(h, q)
    BY <1>1, <1>2, <1>3, SoundSplit
  <1>5. \A q \in h.hdrs \ {p} : SizeAt(g, q) = SizeAt(h, q)
    BY DEF SizeAt
  <1>6. \A q \in g.hdrs : SizeAt(g, q) >= ALIGNMENT_16
    BY <1>2, <1>5 DEF ALIGNMENT_16
  <1>. QED BY <1>4, <1>6 DEF Sound, Tiles

\* The boundary that a merge removes.
LEMMA TilesMerge ==
    ASSUME NEW h \in HeapType, Tiles(h), NEW g \in HeapType,
           NEW p \in h.hdrs, NEW next, next = NextOf(h, p), next \in h.hdrs,
           g.hdrs = h.hdrs \ {next}, g.nheaders = h.nheaders - 1,
           SizeAt(g, p) = SizeAt(h, p) + SizeAt(h, next) + 8,
           Status(g.mem[p]) \in {0, 1},
           \A q \in h.hdrs \ {p, next} : g.mem[q] = h.mem[q]
    PROVE  /\ Tiles(g)
           /\ NextOf(g, p) = NextOf(h, next)
           /\ \A q \in h.hdrs \ {p, next} : NextOf(g, q) = NextOf(h, q)
  <1>. DEFINE e == NextOf(h, next)
  <1>1. /\ p \in Int /\ p \in Addr /\ next \in Int /\ next >= p + 3
        /\ SizeAt(h, p) = 8 * (next - p - 1) /\ SizeAt(h, p) >= 16
    BY HeaderFacts
  <1>2. /\ e \in Int /\ e >= next + 3 /\ SizeAt(h, next) = 8 * (e - next - 1)
        /\ e \in h.hdrs \/ e = SegEnd
        /\ SizeAt(h, next) >= 16 /\ e <= SegEnd
    BY HeaderFacts
  <1>. HIDE DEF e
  <1>3. SizeAt(g, p) = 8 * (e - p - 1) /\ SizeAt(g, p) >= 16
    BY <1>1, <1>2
  <1>4. NextOf(g, p) = e
    <2>1. g.mem[p] \in Int
      BY <1>1 DEF HeapType
    <2>2. g.mem[p] \div 8 \in Int /\ SizeAt(g, p) = 8 * (g.mem[p] \div 8)
      BY <2>1, WordFacts DEF SizeAt
    <2>3. g.mem[p] \div 8 = e - p - 1
      BY <2>2, <1>1, <1>2, <1>3
    <2>. QED BY <2>3, <1>1, <1>2 DEF NextOf, HEADER_SIZE
  <1>5. \A q \in h.hdrs \ {p, next} : NextOf(g, q) = NextOf(h, q) /\ SizeAt(g, q) = SizeAt(h, q)
    BY DEF NextOf, SizeAt
  <1>6. ASSUME NEW q \in h.hdrs, q # next
        PROVE  /\ q \in Int /\ NextOf(h, q) \in Int
               /\ q >= e \/ next >= NextOf(h, q)
               /\ SizeAt(h, q) >= 16 /\ SizeAt(h, q) >= 8 /\ Status(h.mem[q]) \in {0, 1}
               /\ NextOf(h, q) \in h.hdrs \/ NextOf(h, q) = SegEnd
    BY <1>6, HeaderFacts, Apart DEF e
  <1>7. ASSUME NEW q \in h.hdrs, q # next, q # p PROVE NextOf(h, q) # next
    <2>1. q \in Int /\ NextOf(h, q) \in Int /\ NextOf(h, q) >= q + 3
      BY HeaderFacts
    <2>2. q >= next \/ p >= NextOf(h, q)
      BY <1>7, Apart
    <2>. QED BY <2>1, <2>2, <1>1
  <1>8. g.nheaders = Cardinality(g.hdrs)
    BY HeadersSpaced, FS_RemoveElement
  <1>9. e # next /\ p # next
    BY <1>1, <1>2
  <1>10. ASSUME NEW q \in g.hdrs
         PROVE  /\ Status(g.mem[q]) \in {0, 1} /\ SizeAt(g, q) >= 16 /\ SizeAt(g, q) >= 8
                /\ NextOf(g, q) \in g.hdrs \cup {SegEnd}
    <2>1. CASE q = p
      BY <2>1, <1>1, <1>2, <1>3, <1>4, <1>9
    <2>2. CASE q # p
      BY <2>2, <1>5, <1>6, <1>7
    <2>. QED BY <2>1, <2>2
  <1>11. ASSUME NEW q \in g.hdrs, NEW r \in g.hdrs, r > q
         PROVE  r >= NextOf(g, q)
    <2>1. CASE q = p
      <3>1. r \in Int /\ (r >= e \/ next >= NextOf(h, r)) /\ r >= next
        BY <2>1, <1>6, <1>11 DEF Tiles, Tiled
      <3>2. NextOf(h, r) \in Int /\ NextOf(h, r) >= r + 3
        BY HeaderFacts
      <3>. QED BY <2>1, <3>1, <3>2, <1>1, <1>2, <1>4
    <2>2. CASE q # p
      BY <2>2, <1>5, <1>11 DEF Tiles, Tiled
    <2>. QED BY <2>1, <2>2
  <1>12. SegStart \in g.hdrs
    <2>1. SegStart \in h.hdrs
      BY DEF Tiles, Tiled
    <2>2. SegStart # next
      BY <1>1, AddrFacts
    <2>. QED BY <2>1, <2>2
  <1>13. Tiles(g)
    BY <1>8, <1>10, <1>11, <1>12 DEF Tiles, Tiled, StatusFree, StatusUsed, ALIGNMENT_16, HEADER_SIZE
  <1>. QED BY <1>4, <1>5, <1>13 DEF e

-----------------------------------------------------------------------------
(* The operations on a whole heap.                                         *)

HeapOK(h) == /\ h \in HeapType /\ Tiles(h) /\ Linked(h)
             /\ Range(h.flist) = FreeHdrs(h)

LEMMA HeapSound ==
    ASSUME NEW h, HeapOK(h) PROVE Sound(h)
  BY TilesSound DEF HeapOK

\* The word a lies outside the block at p and outside every free block.
Clear(h, p, a) ==
    \A q \in FreeHdrs(h) \cup {p} : a < q \/ a >= NextOf(h, q)

LEMMA LinkedFrame ==
    ASSUME NEW h \in HeapType, Linked(h), NEW g \in HeapType,
           g.flist = h.flist, g.ffh = h.ffh, g.nfreeheaders = h.nfreeheaders,
           \A q \in Range(h.flist) : /\ g.mem[q + 1] = h.mem[q + 1]
                                     /\ g.mem[q + 2] = h.mem[q + 2]
    PROVE  Linked(g)
  <1>1. h.flist \in Seq(Addr)
    BY DEF HeapType
  <1>2. \A i \in 1..Len(h.flist) : h.flist[i] \in Range(h.flist)
    BY <1>1, RangeFacts
  <1>. QED BY <1>2 DEF Linked

\* Putting the one unlisted free block on the list completes a heap.
LEMMA ReleaseBlock ==
    ASSUME NEW h \in HeapType, Tiles(h), Linked(h), NEW p \in h.hdrs,
           p \notin Range(h.flist), FreeHdrs(h) = Range(h.flist) \cup {p},
           NEW g, g = add_free_block(h, p)
    PROVE  /\ HeapOK(g) /\ g.hdrs = h.hdrs
           /\ \A q \in h.hdrs : g.mem[q] = h.mem[q]
           /\ \A a \in Addr : (\A q \in FreeHdrs(h) : a # q + 1 /\ a # q + 2)
                              => g.mem[a] = h.mem[a]
  <1>1. Spaced(h.hdrs) /\ Range(h.flist) \cup {p} \subseteq h.hdrs
    BY HeadersSpaced DEF FreeHdrs
  <1>2. Spaced(Range(h.flist) \cup {p}) /\ p \in Addr
    BY <1>1 DEF Spaced
  <1>3. Status(h.mem[p]) = StatusFree
    BY DEF FreeHdrs
  <1>4. /\ g \in HeapType /\ Linked(g)
        /\ Range(g.flist) = Range(h.flist) \cup {p}
        /\ g.hdrs = h.hdrs /\ g.nheaders = h.nheaders
        /\ \A a \in Addr : (\A q \in Range(g.flist) : a # q + 1 /\ a # q + 2)
                           => g.mem[a] = h.mem[a]
    BY <1>2, <1>3, AddFreeBlock
  <1>5. ASSUME NEW q \in h.hdrs PROVE g.mem[q] = h.mem[q]
    <2>1. ASSUME NEW r \in Range(g.flist) PROVE q # r + 1 /\ q # r + 2
      <3>1. r \in h.hdrs /\ q \in Int /\ r \in Int
        BY <1>1, <1>4, HeaderFacts
      <3>2. q = r \/ q >= r + 3 \/ r >= q + 3
        BY <3>1, <1>1 DEF Spaced
      <3>. QED BY <3>1, <3>2
    <2>2. q \in Addr
      BY <1>1 DEF Spaced
    <2>. QED BY <2>1, <2>2, <1>4
  <1>6. Tiles(g)
    BY <1>4, <1>5, TilesMark, HeaderFacts DEF SizeAt
  <1>7. FreeHdrs(g) = FreeHdrs(h)
    BY <1>4, <1>5 DEF FreeHdrs
  <1>. QED BY <1>4, <1>5, <1>6, <1>7 DEF HeapOK

\* Taking a listed block off the list leaves every other header alone.
LEMMA TakeBlock ==
    ASSUME NEW h \in HeapType, Tiles(h), Linked(h),
           Range(h.flist) \subseteq h.hdrs, NEW p \in Range(h.flist),
           NEW g, g = remove_free_block(h, p)
    PROVE  /\ g \in HeapType /\ Tiles(g) /\ Linked(g)
           /\ Range(g.flist) = Range(h.flist) \ {p}
           /\ g.hdrs = h.hdrs /\ g.nheaders = h.nheaders
           /\ SizeAt(g, p) = SizeAt(h, p) /\ Status(g.mem[p]) = StatusUsed
           /\ \A q \in h.hdrs \ {p} : g.mem[q] = h.mem[q]
           /\ \A q \in h.hdrs : NextOf(g, q) = NextOf(h, q)
           /\ \A a \in Addr : a # p /\ (\A q \in Range(g.flist) : a # q + 1 /\ a # q + 2)
                              => g.mem[a] = h.mem[a]
  <1>1. Spaced(h.hdrs)
    BY HeadersSpaced
  <1>2. Spaced(Range(h.flist))
    BY <1>1 DEF Spaced
  <1>3. /\ g \in HeapType /\ Linked(g)
        /\ Range(g.flist) = Range(h.flist) \ {p}
        /\ g.hdrs = h.hdrs /\ g.nheaders = h.nheaders
        /\ g.mem[p] = SetUsed(h.mem[p])
        /\ \A a \in Addr : a # p /\ (\A q \in Range(g.flist) : a # q + 1 /\ a # q + 2)
                           => g.mem[a] = h.mem[a]
    BY <1>2, RemoveFreeBlock
  <1>4. ASSUME NEW q \in h.hdrs, q # p PROVE g.mem[q] = h.mem[q]
    <2>1. ASSUME NEW r \in Range(g.flist) PROVE q # r + 1 /\ q # r + 2
      <3>1. r \in h.hdrs /\ q \in Int /\ r \in Int
        BY <1>3, HeaderFacts
      <3>2. q = r \/ q >= r + 3 \/ r >= q + 3
        BY <3>1, <1>1 DEF Spaced
      <3>. QED BY <3>1, <3>2
    <2>2. q \in Addr
      BY <1>1 DEF Spaced
    <2>. QED BY <2>1, <2>2, <1>3, <1>4
  <1>5. Status(g.mem[p]) = 1 /\ SizeAt(g, p) = SizeAt(h, p)
    <2>1. h.mem[p] \in Int /\ Status(h.mem[p]) \in {0, 1}
      BY HeaderFacts
    <2>. QED BY <2>1, <1>3, WordFacts DEF SizeAt
  <1>6. \A q \in h.hdrs : /\ SizeAt(g, q) = SizeAt(h, q)
                          /\ Status(g.mem[q]) \in {0, 1}
    BY <1>4, <1>5, HeaderFacts DEF SizeAt
  <1>7. Tiles(g) /\ \A q \in h.hdrs : NextOf(g, q) = NextOf(h, q)
    BY <1>3, <1>6, TilesMark
  <1>. QED BY <1>3, <1>4, <1>5, <1>7 DEF StatusUsed

\* The two headers that a split writes.
LEMMA Cut ==
    ASSUME NEW h, HeapOK(h), NEW p \in h.hdrs,
           NEW size \in Nat, size % 8 = 0, size >= 16,
           SizeAt(h, p) - size - 8 >= 16,
           NEW new, new = p + size \div 8 + 1,
           NEW c, c = cut(h, p, size)
    PROVE  /\ c \in HeapType /\ Tiles(c) /\ Linked(c)
           /\ c.flist = h.flist /\ c.hdrs = h.hdrs \cup {new}
           /\ SizeAt(c, p) = size /\ Status(c.mem[p]) = StatusUsed
           /\ Status(c.mem[new]) = StatusFree
           /\ new \in Int /\ new >= p + 3 /\ NextOf(h, p) >= new + 3 /\ new \notin h.hdrs
           /\ NextOf(c, p) = new /\ NextOf(c, new) = NextOf(h, p)
           /\ \A q \in h.hdrs \ {p} : NextOf(c, q) = NextOf(h, q)
           /\ \A a \in Addr : a # p /\ a # new => c.mem[a] = h.mem[a]
  <1>. DEFINE k == size \div 8
              e == NextOf(h, p)
              rest == SizeAt(h, p) - size - 8
              m == [[h.mem EXCEPT ![new] = Masked(rest)] EXCEPT ![p] = SetUsed(size)]
  <1>1. h \in HeapType /\ Tiles(h) /\ Linked(h) /\ Range(h.flist) = FreeHdrs(h)
    BY DEF HeapOK
  <1>2. k \in Int /\ size = 8 * k /\ k >= 2 /\ new = p + k + 1
    OBVIOUS
  <1>3. /\ p \in Int /\ p \in Addr /\ e \in Int /\ SizeAt(h, p) = 8 * (e - p - 1)
        /\ e <= SegEnd /\ SizeAt(h, p) \in Int
    BY <1>1, HeaderFacts
  <1>4. /\ c = [h EXCEPT !.mem = m, !.nheaders = h.nheaders + 1, !.hdrs = h.hdrs \cup {new}]
        /\ c.mem = m /\ c.nheaders = h.nheaders + 1 /\ c.hdrs = h.hdrs \cup {new}
        /\ c.flist = h.flist /\ c.ffh = h.ffh /\ c.nfreeheaders = h.nfreeheaders
    <2>. DEFINE h0 == [h EXCEPT !.nheaders = @ + 1, !.hdrs = @ \cup {new}]
                h1 == [h0 EXCEPT !.mem[new] = Masked(rest)]
                h2 == [h1 EXCEPT !.mem[p] = SetUsed(size)]
    <2>1. c = h2
      BY DEF cut, change_header, StatusFree, StatusUsed, HEADER_SIZE
    <2>. HIDE DEF rest
    <2>2. /\ h0 = [h EXCEPT !.nheaders = h.nheaders + 1, !.hdrs = h.hdrs \cup {new}]
          /\ h0.mem = h.mem
      BY <1>1 DEF HeapType
    <2>3. h1 = [h EXCEPT !.mem = [h.mem EXCEPT ![new] = Masked(rest)],
                         !.nheaders = h.nheaders + 1, !.hdrs = h.hdrs \cup {new}]
      BY <1>1, <2>2 DEF HeapType
    <2>4. h2 = [h EXCEPT !.mem = m, !.nheaders = h.nheaders + 1, !.hdrs = h.hdrs \cup {new}]
      BY <1>1, <2>3 DEF HeapType
    <2>. HIDE DEF h0, h1, h2, m
    <2>. QED BY <1>1, <2>1, <2>4 DEF HeapType
  <1>. HIDE DEF k, e
  <1>5. new \in Int /\ new >= p + 3 /\ e >= new + 3 /\ rest \in Int /\ rest = 8 * (e - new - 1)
    BY <1>2, <1>3
  <1>6. new \in Addr /\ new # p
    BY <1>3, <1>5, AddrFacts
  <1>7. /\ Masked(rest) = rest /\ Status(rest) = 0 /\ rest \in Int
        /\ Masked(size) = size /\ SetUsed(size) \in Int
        /\ Masked(SetUsed(size)) = size /\ Status(SetUsed(size)) = 1
    <2>1. rest % 8 = 0
      BY <1>3, <1>5
    <2>2. Status(size) = 0 /\ Status(rest) = 0
      BY <2>1 DEF Status
    <2>. QED BY <2>2, <1>5, WordFacts
  <1>. HIDE DEF rest
  <1>8. h.mem \in [Addr -> Int] /\ h.hdrs \subseteq Addr /\ h.nheaders + 1 \in Nat
    BY <1>1 DEF HeapType
  <1>9. /\ m \in [Addr -> Int] /\ m[p] = SetUsed(size) /\ m[new] = rest
        /\ \A a \in Addr : a # p /\ a # new => m[a] = h.mem[a]
    BY <1>3, <1>6, <1>7, <1>8
  <1>. HIDE DEF m
  <1>10. c \in HeapType
    BY <1>1, <1>4, <1>6, <1>8, <1>9 DEF HeapType
  <1>11. /\ SizeAt(c, p) = size /\ Status(c.mem[p]) = 1
         /\ SizeAt(c, new) = SizeAt(h, p) - size - 8 /\ Status(c.mem[new]) = 0
    BY <1>4, <1>7, <1>9 DEF SizeAt, rest
  <1>12. \A q \in h.hdrs : q # new
    <2>1. ASSUME NEW q \in h.hdrs PROVE q # new
      <3>1. CASE q = p
        BY <3>1, <1>6
      <3>2. CASE q # p
        <4>1. q >= e \/ p >= NextOf(h, q)
          BY <3>2, <1>1, Apart DEF e
        <4>2. q \in Int /\ NextOf(h, q) \in Int /\ NextOf(h, q) >= q + 3
          BY <1>1, HeaderFacts
        <4>. QED BY <4>1, <4>2, <1>3, <1>5
      <3>. QED BY <3>1, <3>2
    <2>. QED BY <2>1
  <1>13. \A q \in h.hdrs \ {p} : c.mem[q] = h.mem[q]
    BY <1>4, <1>8, <1>9, <1>12
  <1>14. /\ Tiles(c) /\ NextOf(c, p) = new /\ NextOf(c, new) = e
         /\ \A q \in h.hdrs \ {p} : NextOf(c, q) = NextOf(h, q)
    <2>1. Status(c.mem[p]) \in {0, 1} /\ Status(c.mem[new]) \in {0, 1}
      BY <1>11
    <2>2. c.hdrs = h.hdrs \cup {new} /\ c.nheaders = h.nheaders + 1
      BY <1>4
    <2>3. SizeAt(c, p) = size /\ SizeAt(c, new) = SizeAt(h, p) - size - 8
      BY <1>11
    <2>4. /\ Tiles(c) /\ NextOf(c, p) = new /\ NextOf(c, new) = NextOf(h, p)
          /\ \A q \in h.hdrs \ {p} : NextOf(c, q) = NextOf(h, q)
      BY <1>1, <1>10, <1>13, <2>1, <2>2, <2>3, TilesSplit
    <2>. QED BY <2>4 DEF e
  <1>15. Linked(c)
    <2>1. ASSUME NEW q \in Range(h.flist)
          PROVE  c.mem[q + 1] = h.mem[q + 1] /\ c.mem[q + 2] = h.mem[q + 2]
      <3>1. q \in h.hdrs
        BY <1>1 DEF FreeHdrs
      <3>2. /\ q \in Int /\ q + 1 \in Addr /\ q + 2 \in Addr
            /\ NextOf(h, q) \in Int /\ NextOf(h, q) >= q + 3
        BY <1>1, <3>1, HeaderFacts
      <3>3. q # p => q >= e \/ p >= NextOf(h, q)
        BY <1>1, <3>1, Apart DEF e
      <3>4. q + 1 # p /\ q + 1 # new /\ q + 2 # p /\ q + 2 # new
        BY <3>2, <3>3, <1>3, <1>5
      <3>. QED BY <3>2, <3>4, <1>4, <1>9
    <2>. QED BY <1>1, <1>4, <1>10, <2>1, LinkedFrame
  <1>. QED BY <1>4, <1>5, <1>9, <1>10, <1>11, <1>12, <1>14, <1>15 DEF e, StatusUsed, StatusFree

\* Words outside the free blocks and the block at p are no header or link of
\* any block an operation on p writes to.
LEMMA ClearFacts ==
    ASSUME NEW h, HeapOK(h), NEW p \in h.hdrs, NEW a \in Addr, Clear(h, p, a)
    PROVE  /\ a \in Int
           /\ a < p \/ a >= NextOf(h, p)
           /\ \A q \in FreeHdrs(h) : a # q /\ a # q + 1 /\ a # q + 2
  <1>1. ASSUME NEW q \in FreeHdrs(h) PROVE a # q /\ a # q + 1 /\ a # q + 2
    <2>1. q \in Int /\ NextOf(h, q) \in Int /\ NextOf(h, q) >= q + 3
      BY HeaderFacts DEF HeapOK, FreeHdrs
    <2>2. a < q \/ a >= NextOf(h, q)
      BY DEF Clear
    <2>. QED BY <2>1, <2>2, AddrFacts
  <1>. QED BY <1>1, AddrFacts DEF Clear

\* A used block is clear of an operation on another block.
LEMMA UsedIsClear ==
    ASSUME NEW h, HeapOK(h), NEW p \in h.hdrs, NEW u \in UsedHdrs(h), u # p,
           NEW a \in u .. (NextOf(h, u) - 1)
    PROVE  a \in Addr /\ Clear(h, p, a)
  <1>1. u \in h.hdrs /\ u \notin FreeHdrs(h)
    BY DEF UsedHdrs, FreeHdrs, StatusUsed, StatusFree
  <1>2. /\ u \in Int /\ u \in Addr /\ NextOf(h, u) \in Int /\ NextOf(h, u) <= SegEnd
    BY <1>1, HeaderFacts DEF HeapOK
  <1>3. a \in Int /\ a >= u /\ a < NextOf(h, u)
    BY <1>2
  <1>4. ASSUME NEW q \in h.hdrs, q # u PROVE a < q \/ a >= NextOf(h, q)
    <2>1. q \in Int /\ NextOf(h, q) \in Int
      BY HeaderFacts DEF HeapOK
    <2>2. q >= NextOf(h, u) \/ u >= NextOf(h, q)
      BY <1>1, <1>4, Apart DEF HeapOK
    <2>. QED BY <2>1, <2>2, <1>2, <1>3
  <1>5. a \in Addr
    BY <1>2, <1>3, AddrFacts
  <1>. QED BY <1>1, <1>4, <1>5 DEF Clear, FreeHdrs

LEMMA SplitFree ==
    ASSUME NEW h, HeapOK(h), NEW p \in FreeHdrs(h),
           NEW size \in Nat, size % 8 = 0, size >= 16,
           SizeAt(h, p) - size - 8 >= 16,
           NEW g, g = split_block(h, p, size)
    PROVE  /\ HeapOK(g) /\ UsedHdrs(g) = UsedHdrs(h) \cup {p}
           /\ SizeAt(g, p) = size
           /\ \A a \in Addr : Clear(h, p, a) => g.mem[a] = h.mem[a]
  <1>. DEFINE new == p + size \div 8 + 1
              c == cut(h, p, size)
              r == remove_free_block(c, p)
  <1>1. p \in h.hdrs /\ h \in HeapType /\ Tiles(h) /\ Range(h.flist) = FreeHdrs(h)
    BY DEF FreeHdrs, HeapOK
  <1>2. /\ c \in HeapType /\ Tiles(c) /\ Linked(c)
        /\ c.flist = h.flist /\ c.hdrs = h.hdrs \cup {new}
        /\ SizeAt(c, p) = size /\ Status(c.mem[p]) = StatusUsed
        /\ Status(c.mem[new]) = StatusFree
        /\ new \in Int /\ new >= p + 3 /\ NextOf(h, p) >= new + 3 /\ new \notin h.hdrs
        /\ \A a \in Addr : a # p /\ a # new => c.mem[a] = h.mem[a]
    BY <1>1, Cut
  <1>3. g = add_free_block(r, new)
    BY DEF split_block, HEADER_SIZE
  <1>. HIDE DEF c, new
  <1>4. Range(c.flist) \subseteq c.hdrs /\ p \in Range(c.flist)
    BY <1>1, <1>2 DEF FreeHdrs
  <1>5. /\ r \in HeapType /\ Tiles(r) /\ Linked(r)
        /\ Range(r.flist) = Range(c.flist) \ {p}
        /\ r.hdrs = c.hdrs
        /\ SizeAt(r, p) = SizeAt(c, p) /\ Status(r.mem[p]) = StatusUsed
        /\ \A q \in c.hdrs \ {p} : r.mem[q] = c.mem[q]
        /\ \A a \in Addr : a # p /\ (\A q \in Range(r.flist) : a # q + 1 /\ a # q + 2)
                           => r.mem[a] = c.mem[a]
    BY <1>2, <1>4, TakeBlock
  <1>. HIDE DEF r
  <1>6. \A q \in h.hdrs \ {p} : q \in Addr /\ q # new /\ r.mem[q] = h.mem[q]
    BY <1>1, <1>2, <1>5 DEF HeapType
  <1>7. FreeHdrs(r) = Range(r.flist) \cup {new} /\ new \notin Range(r.flist)
    <2>1. new # p /\ new \in r.hdrs /\ Status(r.mem[new]) = StatusFree
      BY <1>1, <1>2, <1>5
    <2>. QED BY <2>1, <1>1, <1>2, <1>5, <1>6 DEF FreeHdrs, StatusUsed, StatusFree
  <1>8. /\ HeapOK(g) /\ g.hdrs = r.hdrs
        /\ \A q \in r.hdrs : g.mem[q] = r.mem[q]
        /\ \A a \in Addr : (\A q \in FreeHdrs(r) : a # q + 1 /\ a # q + 2)
                           => g.mem[a] = r.mem[a]
    <2>1. new \in r.hdrs
      BY <1>2, <1>5
    <2>. QED BY <2>1, <1>3, <1>5, <1>7, ReleaseBlock
  <1>9. UsedHdrs(g) = UsedHdrs(h) \cup {p}
    <2>1. \A q \in h.hdrs \ {p} : g.mem[q] = h.mem[q]
      BY <1>2, <1>5, <1>6, <1>8
    <2>2. Status(g.mem[p]) = StatusUsed /\ Status(g.mem[new]) = StatusFree
      BY <1>1, <1>2, <1>5, <1>7, <1>8 DEF FreeHdrs
    <2>. QED BY <2>1, <2>2, <1>1, <1>2, <1>5, <1>8 DEF UsedHdrs, StatusUsed, StatusFree
  <1>10. SizeAt(g, p) = size
    BY <1>1, <1>2, <1>5, <1>8 DEF SizeAt
  <1>11. ASSUME NEW a \in Addr, Clear(h, p, a) PROVE g.mem[a] = h.mem[a]
    <2>1. /\ a \in Int /\ (a < p \/ a >= NextOf(h, p))
          /\ \A q \in FreeHdrs(h) : a # q /\ a # q + 1 /\ a # q + 2
      BY <1>1, <1>11, ClearFacts
    <2>2. p \in Int /\ NextOf(h, p) \in Int
      BY <1>1, HeaderFacts
    <2>3. a # p /\ a # new /\ a # new + 1 /\ a # new + 2
      BY <2>1, <2>2, <1>2
    <2>4. Range(r.flist) \subseteq FreeHdrs(h)
      BY <1>1, <1>2, <1>5
    <2>. QED BY <2>1, <2>3, <2>4, <1>2, <1>5, <1>7, <1>8
  <1>. QED BY <1>8, <1>9, <1>10, <1>11

LEMMA SplitUsed ==
    ASSUME NEW h, HeapOK(h), NEW p \in UsedHdrs(h),
           NEW size \in Nat, size % 8 = 0, size >= 16,
           SizeAt(h, p) - size - 8 >= 16,
           NEW g, g = split_block_r(h, p, size)
    PROVE  /\ HeapOK(g) /\ UsedHdrs(g) = UsedHdrs(h)
           /\ SizeAt(g, p) = size
           /\ \A a \in (p + 1) .. (p + size \div 8) : a \in Addr /\ g.mem[a] = h.mem[a]
           /\ \A a \in Addr : Clear(h, p, a) => g.mem[a] = h.mem[a]
  <1>. DEFINE new == p + size \div 8 + 1
              c == cut(h, p, size)
  <1>1. /\ p \in h.hdrs /\ h \in HeapType /\ Tiles(h) /\ Range(h.flist) = FreeHdrs(h)
        /\ p \notin FreeHdrs(h)
    BY DEF UsedHdrs, FreeHdrs, HeapOK, StatusUsed, StatusFree
  <1>2. /\ c \in HeapType /\ Tiles(c) /\ Linked(c)
        /\ c.flist = h.flist /\ c.hdrs = h.hdrs \cup {new}
        /\ SizeAt(c, p) = size /\ Status(c.mem[p]) = StatusUsed
        /\ Status(c.mem[new]) = StatusFree
        /\ new \in Int /\ new >= p + 3 /\ NextOf(h, p) >= new + 3 /\ new \notin h.hdrs
        /\ \A a \in Addr : a # p /\ a # new => c.mem[a] = h.mem[a]
    BY <1>1, Cut
  <1>3. g = add_free_block(c, new)
    BY DEF split_block_r, HEADER_SIZE
  <1>4. p + size \div 8 = new - 1
    <2>1. p \in Int /\ size \div 8 \in Int
      BY <1>1, HeaderFacts
    <2>. QED BY <2>1
  <1>. HIDE DEF c, new
  <1>5. \A q \in h.hdrs \ {p} : q \in Addr /\ q # new /\ c.mem[q] = h.mem[q]
    BY <1>1, <1>2 DEF HeapType
  <1>6. FreeHdrs(c) = Range(c.flist) \cup {new} /\ new \notin Range(c.flist)
    BY <1>1, <1>2, <1>5 DEF FreeHdrs, StatusUsed, StatusFree
  <1>7. /\ HeapOK(g) /\ g.hdrs = c.hdrs
        /\ \A q \in c.hdrs : g.mem[q] = c.mem[q]
        /\ \A a \in Addr : (\A q \in FreeHdrs(c) : a # q + 1 /\ a # q + 2)
                           => g.mem[a] = c.mem[a]
    <2>1. new \in c.hdrs
      BY <1>2
    <2>. QED BY <2>1, <1>2, <1>3, <1>6, ReleaseBlock
  <1>8. UsedHdrs(g) = UsedHdrs(h)
    <2>1. \A q \in h.hdrs \ {p} : g.mem[q] = h.mem[q]
      BY <1>2, <1>5, <1>7
    <2>2. Status(g.mem[p]) = StatusUsed /\ Status(g.mem[new]) = StatusFree
      BY <1>1, <1>2, <1>7
    <2>3. Status(h.mem[p]) = StatusUsed
      BY DEF UsedHdrs
    <2>. QED BY <2>1, <2>2, <2>3, <1>1, <1>2, <1>7 DEF UsedHdrs, StatusUsed, StatusFree
  <1>9. SizeAt(g, p) = size
    BY <1>1, <1>2, <1>7 DEF SizeAt
  <1>10. p \in Int /\ p \in Addr /\ NextOf(h, p) \in Int /\ NextOf(h, p) <= SegEnd
    BY <1>1, HeaderFacts
  <1>11. ASSUME NEW a \in Addr, a # p, a # new, a # new + 1, a # new + 2,
                \A q \in FreeHdrs(h) : a # q + 1 /\ a # q + 2
         PROVE  g.mem[a] = h.mem[a]
    <2>1. \A q \in FreeHdrs(c) : a # q + 1 /\ a # q + 2
      BY <1>11, <1>6, <1>1, <1>2
    <2>. QED BY <2>1, <1>11, <1>2, <1>7
  <1>12. ASSUME NEW a \in Addr, Clear(h, p, a) PROVE g.mem[a] = h.mem[a]
    <2>1. /\ a \in Int /\ (a < p \/ a >= NextOf(h, p))
          /\ \A q \in FreeHdrs(h) : a # q /\ a # q + 1 /\ a # q + 2
      BY <1>1, <1>12, ClearFacts
    <2>2. a # p /\ a # new /\ a # new + 1 /\ a # new + 2
      BY <2>1, <1>2, <1>10
    <2>. QED BY <2>1, <2>2, <1>11
  <1>13. ASSUME NEW a \in (p + 1) .. (new - 1) PROVE a \in Addr /\ g.mem[a] = h.mem[a]
    <2>1. a \in Int /\ a > p /\ a < new /\ a < NextOf(h, p)
      BY <1>2, <1>10
    <2>2. a \in Addr
      BY <2>1, <1>10, AddrFacts
    <2>3. ASSUME NEW q \in FreeHdrs(h) PROVE a # q + 1 /\ a # q + 2
      <3>1. q \in h.hdrs /\ q # p
        BY <1>1 DEF FreeHdrs
      <3>2. q \in Int /\ NextOf(h, q) \in Int /\ NextOf(h, q) >= q + 3
        BY <1>1, <3>1, HeaderFacts
      <3>3. q >= NextOf(h, p) \/ p >= NextOf(h, q)
        BY <1>1, <3>1, Apart
      <3>. QED BY <2>1, <3>2, <3>3, <1>10
    <2>4. a # p /\ a # new /\ a # new + 1 /\ a # new + 2
      BY <2>1, <1>2, <1>10
    <2>. QED BY <2>2, <2>3, <2>4, <1>11
  <1>. QED BY <1>4, <1>7, <1>8, <1>9, <1>12, <1>13

\* What can_col tells about the right neighbour.
LEMMA CanCol ==
    ASSUME NEW h, HeapOK(h), NEW p \in h.hdrs
    PROVE  /\ can_col(h, p) => NextOf(h, p) \in FreeHdrs(h)
           /\ ~can_col(h, p) => NextOf(h, p) = SegEnd \/ NextOf(h, p) \in UsedHdrs(h)
  <1>. DEFINE e == NextOf(h, p)
  <1>1. e \in Int /\ (e \in h.hdrs \/ e = SegEnd) /\ e <= SegEnd
    BY HeaderFacts DEF HeapOK
  <1>2. ASSUME e \in h.hdrs PROVE e <= SegEnd - 3 /\ Status(h.mem[e]) \in {0, 1}
    <2>1. e + 2 \in Addr
      BY <1>2, HeaderFacts DEF HeapOK
    <2>. QED BY <1>1, <1>2, <2>1, AddrFacts, HeaderFacts DEF HeapOK
  <1>3. can_col(h, p) <=> e <= SegEnd - 3 /\ Status(h.mem[e]) = 0
    BY DEF can_col, ALIGNMENT_16, HEADER_SIZE, StatusFree
  <1>4. SegEnd \in Int
    BY AddrFacts
  <1>. HIDE DEF e
  <1>5. can_col(h, p) => e \in FreeHdrs(h)
    <2>1. e <= SegEnd - 3 => e # SegEnd
      BY <1>1, <1>4
    <2>. QED BY <2>1, <1>1, <1>3 DEF FreeHdrs, StatusFree
  <1>6. ~can_col(h, p) => e = SegEnd \/ e \in UsedHdrs(h)
    BY <1>1, <1>2, <1>3 DEF UsedHdrs, StatusUsed
  <1>. QED BY <1>5, <1>6 DEF e

\* The right neighbour disappears into p; its list entry goes with it.
LEMMA AbsorbRight ==
    ASSUME NEW h, HeapOK(h), NEW p \in h.hdrs, p \notin FreeHdrs(h),
           NEW next, next = NextOf(h, p), next \in FreeHdrs(h),
           NEW status \in {StatusFree, StatusUsed},
           NEW g, g = absorb(h, p, status)
    PROVE  /\ g \in HeapType /\ Tiles(g) /\ Linked(g)
           /\ Range(g.flist) = FreeHdrs(h) \ {next}
           /\ g.hdrs = h.hdrs \ {next}
           /\ SizeAt(g, p) = SizeAt(h, p) + SizeAt(h, next) + 8
           /\ SizeAt(h, next) >= 16 /\ SizeAt(h, next) \in Int
           /\ Status(g.mem[p]) = status
           /\ NextOf(g, p) = NextOf(h, next)
           /\ \A q \in h.hdrs \ {p, next} : g.mem[q] = h.mem[q]
           /\ \A a \in Addr : /\ a # p /\ a # next
                              /\ \A q \in FreeHdrs(h) \ {next} : a # q + 1 /\ a # q + 2
                              => g.mem[a] = h.mem[a]
  <1>. DEFINE r == remove_free_block(h, next)
              total == SizeAt(h, p) + h.mem[next] + 8
              word == IF status = StatusUsed THEN SetUsed(total) ELSE Masked(total)
              m == [r.mem EXCEPT ![p] = word]
  <1>1. /\ h \in HeapType /\ Tiles(h) /\ Linked(h) /\ Range(h.flist) = FreeHdrs(h)
        /\ next \in h.hdrs /\ Range(h.flist) \subseteq h.hdrs /\ Status(h.mem[next]) = 0
    BY DEF HeapOK, FreeHdrs, StatusFree
  <1>2. /\ r \in HeapType /\ Tiles(r) /\ Linked(r)
        /\ Range(r.flist) = FreeHdrs(h) \ {next}
        /\ r.hdrs = h.hdrs /\ r.nheaders = h.nheaders
        /\ \A q \in h.hdrs \ {next} : r.mem[q] = h.mem[q]
        /\ \A a \in Addr : a # next /\ (\A q \in FreeHdrs(h) \ {next} : a # q + 1 /\ a # q + 2)
                           => r.mem[a] = h.mem[a]
    BY <1>1, TakeBlock
  <1>3. /\ p \in Int /\ p \in Addr /\ SizeAt(h, p) \in Int
        /\ SizeAt(h, p) = 8 * (next - p - 1) /\ next >= p + 3
    BY <1>1, HeaderFacts
  <1>4. /\ next \in Int /\ SizeAt(h, next) \in Int /\ NextOf(h, next) \in Int
        /\ SizeAt(h, next) = 8 * (NextOf(h, next) - next - 1)
        /\ h.mem[next] = SizeAt(h, next) /\ SizeAt(h, next) >= 16
    <2>1. h.mem[next] = SizeAt(h, next) + 0 /\ SizeAt(h, next) \in Int
      BY <1>1, HeaderFacts
    <2>. QED BY <2>1, <1>1, HeaderFacts
  <1>5. /\ total \in Int /\ total % 8 = 0 /\ total = SizeAt(h, p) + SizeAt(h, next) + 8
    <2>. DEFINE j == NextOf(h, next) - p - 1
    <2>1. total = 8 * j /\ j \in Int
      BY <1>3, <1>4
    <2>2. (8 * j) % 8 = 0 /\ 8 * j \in Int
      <3>. HIDE DEF j
      <3>. QED BY <2>1
    <2>. QED BY <2>1, <2>2, <1>4
  <1>6. g = [[r EXCEPT !.nheaders = @ - 1, !.hdrs = @ \ {next}] EXCEPT !.mem[p] = word]
    BY DEF absorb, change_header, HEADER_SIZE
  <1>. HIDE DEF r, word, total
  <1>7. /\ g = [r EXCEPT !.mem = m, !.nheaders = r.nheaders - 1, !.hdrs = r.hdrs \ {next}]
        /\ g.mem = m /\ g.nheaders = h.nheaders - 1 /\ g.hdrs = h.hdrs \ {next}
        /\ g.flist = r.flist /\ g.ffh = r.ffh /\ g.nfreeheaders = r.nfreeheaders
    BY <1>2, <1>6, ZenonT(60) DEF HeapType
  <1>8. word \in Int /\ Masked(word) = total /\ Status(word) = status
    <2>1. Status(total) = 0 /\ Masked(total) = total
      BY <1>5, WordFacts DEF Status
    <2>. QED BY <2>1, <1>5, WordFacts DEF word, StatusFree, StatusUsed
  <1>9. /\ r.mem \in [Addr -> Int] /\ m \in [Addr -> Int] /\ m[p] = word
        /\ \A a \in Addr : a # p => m[a] = r.mem[a]
    BY <1>2, <1>3, <1>8 DEF HeapType
  <1>. HIDE DEF m
  <1>10. g.nheaders \in Nat
    <2>1. IsFiniteSet(h.hdrs \ {next}) /\ g.nheaders = Cardinality(h.hdrs \ {next})
      BY <1>1, <1>7, HeadersSpaced, FS_RemoveElement
    <2>. QED BY <2>1, FS_CardinalityType
  <1>11. g \in HeapType
    <2>1. r.hdrs \ {next} \subseteq Addr /\ r.nheaders - 1 \in Nat
      BY <1>2, <1>7, <1>10 DEF HeapType
    <2>. QED BY <2>1, <1>2, <1>7, <1>9 DEF HeapType
  <1>12. SizeAt(g, p) = total /\ Status(g.mem[p]) = status
    BY <1>7, <1>8, <1>9 DEF SizeAt
  <1>13. \A q \in h.hdrs \ {p, next} : g.mem[q] = h.mem[q]
    <2>1. h.hdrs \subseteq Addr
      BY <1>1 DEF HeapType
    <2>. QED BY <2>1, <1>2, <1>7, <1>9
  <1>14. Tiles(g) /\ NextOf(g, p) = NextOf(h, next)
    <2>1. SizeAt(g, p) = SizeAt(h, p) + SizeAt(h, next) + 8
      BY <1>5, <1>12
    <2>2. Status(g.mem[p]) \in {0, 1}
      BY <1>12 DEF StatusFree, StatusUsed
    <2>3. g.hdrs = h.hdrs \ {next} /\ g.nheaders = h.nheaders - 1
      BY <1>7
    <2>. QED BY <2>1, <2>2, <2>3, <1>1, <1>11, <1>13, TilesMerge
  <1>15. Linked(g)
    <2>1. ASSUME NEW q \in Range(r.flist)
          PROVE  g.mem[q + 1] = r.mem[q + 1] /\ g.mem[q + 2] = r.mem[q + 2]
      <3>1. q \in h.hdrs /\ q # p
        BY <1>1, <1>2
      <3>2. q \in Int /\ q + 1 \in Addr /\ q + 2 \in Addr
        BY <1>1, <3>1, HeaderFacts
      <3>3. q >= p + 3 \/ p >= q + 3
        BY <1>1, <3>1, HeadersSpaced DEF Spaced
      <3>. QED BY <3>2, <3>3, <1>3, <1>7, <1>9
    <2>. QED BY <2>1, <1>2, <1>7, <1>11, LinkedFrame
  <1>. QED BY <1>2, <1>4, <1>5, <1>7, <1>9, <1>11, <1>12, <1>13, <1>14, <1>15

\* col_r keeps the heap in order while p grows; the words of p stay.
LEMMA ColR ==
    ASSUME NEW h, HeapOK(h), NEW p \in UsedHdrs(h), can_col(h, p),
           NEW g, g = col_r(h, p)
    PROVE  /\ HeapOK(g) /\ UsedHdrs(g) = UsedHdrs(h)
           /\ SizeAt(g, p) > SizeAt(h, p)
           /\ \A a \in (p + 1) .. (NextOf(h, p) - 1) : a \in Addr /\ g.mem[a] = h.mem[a]
           /\ \A a \in Addr : Clear(h, p, a) => g.mem[a] = h.mem[a]
  <1>. DEFINE next == NextOf(h, p)
  <1>1. /\ p \in h.hdrs /\ p \notin FreeHdrs(h) /\ Status(h.mem[p]) = StatusUsed
        /\ h \in HeapType /\ Tiles(h)
    BY DEF UsedHdrs, FreeHdrs, StatusUsed, StatusFree, HeapOK
  <1>2. next \in FreeHdrs(h)
    BY <1>1, CanCol
  <1>3. /\ g \in HeapType /\ Tiles(g) /\ Linked(g)
        /\ Range(g.flist) = FreeHdrs(h) \ {next}
        /\ g.hdrs = h.hdrs \ {next}
        /\ SizeAt(g, p) = SizeAt(h, p) + SizeAt(h, next) + 8
        /\ SizeAt(h, next) >= 16 /\ SizeAt(h, next) \in Int
        /\ Status(g.mem[p]) = StatusUsed
        /\ \A q \in h.hdrs \ {p, next} : g.mem[q] = h.mem[q]
        /\ \A a \in Addr : /\ a # p /\ a # next
                           /\ \A q \in FreeHdrs(h) \ {next} : a # q + 1 /\ a # q + 2
                           => g.mem[a] = h.mem[a]
    <2>1. g = absorb(h, p, StatusUsed) /\ StatusUsed \in {StatusFree, StatusUsed}
      BY DEF col_r
    <2>. QED BY <2>1, <1>1, <1>2, AbsorbRight
  <1>4. /\ p \in Int /\ p \in Addr /\ next \in Int /\ next <= SegEnd /\ next >= p + 3
        /\ SizeAt(h, p) \in Int
    BY <1>1, HeaderFacts
  <1>5. next \in h.hdrs /\ Status(h.mem[next]) = StatusFree /\ next # p
    BY <1>2, <1>4 DEF FreeHdrs
  <1>. HIDE DEF next
  <1>6. HeapOK(g)
    <2>1. FreeHdrs(g) = FreeHdrs(h) \ {next}
      BY <1>1, <1>3, <1>5 DEF FreeHdrs, StatusUsed, StatusFree
    <2>. QED BY <2>1, <1>3 DEF HeapOK
  <1>7. UsedHdrs(g) = UsedHdrs(h)
    BY <1>1, <1>3, <1>5 DEF UsedHdrs, StatusUsed, StatusFree
  <1>8. SizeAt(g, p) > SizeAt(h, p)
    BY <1>3, <1>4
  <1>9. ASSUME NEW a \in Addr, Clear(h, p, a) PROVE g.mem[a] = h.mem[a]
    <2>1. /\ a \in Int /\ (a < p \/ a >= next)
          /\ \A q \in FreeHdrs(h) : a # q /\ a # q + 1 /\ a # q + 2
      BY <1>1, <1>9, ClearFacts DEF next
    <2>2. a # p /\ a # next
      BY <2>1, <1>2, <1>4
    <2>. QED BY <2>1, <2>2, <1>3
  <1>10. ASSUME NEW a \in (p + 1) .. (next - 1) PROVE a \in Addr /\ g.mem[a] = h.mem[a]
    <2>1. a \in Int /\ a > p /\ a < next
      BY <1>4
    <2>2. a \in Addr
      BY <2>1, <1>4, AddrFacts
    <2>3. ASSUME NEW q \in FreeHdrs(h) PROVE a # q + 1 /\ a # q + 2
      <3>1. q \in h.hdrs /\ q # p
        BY <1>1 DEF FreeHdrs
      <3>2. q \in Int /\ NextOf(h, q) \in Int /\ NextOf(h, q) >= q + 3
        BY <1>1, <3>1, HeaderFacts
      <3>3. q >= next \/ p >= NextOf(h, q)
        BY <1>1, <3>1, Apart DEF next
      <3>. QED BY <2>1, <3>2, <3>3, <1>4
    <2>4. a # p /\ a # next
      BY <2>1, <1>4
    <2>. QED BY <2>2, <2>3, <2>4, <1>3
  <1>. QED BY <1>6, <1>7, <1>8, <1>9, <1>10 DEF next

\* A header rewritten with the size it had: no boundary moves, no link changes.
LEMMA Remark ==
    ASSUME NEW h, HeapOK(h), NEW p \in h.hdrs,
           NEW status \in {StatusFree, StatusUsed},
           NEW g, g = change_header(h, p, SizeAt(h, p), status)
    PROVE  /\ g \in HeapType /\ Tiles(g) /\ Linked(g)
           /\ g.flist = h.flist /\ g.hdrs = h.hdrs
           /\ Status(g.mem[p]) = status /\ SizeAt(g, p) = SizeAt(h, p)
           /\ \A a \in Addr : a # p => g.mem[a] = h.mem[a]
  <1>. DEFINE word == IF status = StatusUsed THEN SetUsed(SizeAt(h, p))
                                            ELSE Masked(SizeAt(h, p))
              m == [h.mem EXCEPT ![p] = word]
  <1>1. h \in HeapType /\ Tiles(h) /\ Linked(h) /\ Range(h.flist) = FreeHdrs(h)
    BY DEF HeapOK
  <1>2. p \in Int /\ p \in Addr /\ h.mem[p] \in Int
    BY <1>1, HeaderFacts
  <1>3. word \in Int /\ Masked(word) = SizeAt(h, p) /\ Status(word) = status
    <2>1. SizeAt(h, p) \in Int /\ Status(SizeAt(h, p)) = 0 /\ Masked(SizeAt(h, p)) = SizeAt(h, p)
      BY <1>2, WordFacts DEF SizeAt
    <2>. QED BY <2>1, WordFacts DEF StatusFree, StatusUsed
  <1>4. g = [h EXCEPT !.mem[p] = word]
    BY DEF change_header
  <1>. HIDE DEF word
  <1>5. /\ g = [h EXCEPT !.mem = m] /\ g.mem = m
        /\ g.nheaders = h.nheaders /\ g.hdrs = h.hdrs
        /\ g.flist = h.flist /\ g.ffh = h.ffh /\ g.nfreeheaders = h.nfreeheaders
    BY <1>1, <1>4 DEF HeapType
  <1>6. /\ m \in [Addr -> Int] /\ m[p] = word
        /\ \A a \in Addr : a # p => m[a] = h.mem[a]
    BY <1>1, <1>2, <1>3 DEF HeapType
  <1>. HIDE DEF m
  <1>7. g \in HeapType
    BY <1>1, <1>5, <1>6 DEF HeapType
  <1>8. Status(g.mem[p]) = status /\ SizeAt(g, p) = SizeAt(h, p)
    BY <1>3, <1>5, <1>6 DEF SizeAt
  <1>9. Tiles(g)
    <2>1. ASSUME NEW q \in h.hdrs
          PROVE  SizeAt(g, q) = SizeAt(h, q) /\ Status(g.mem[q]) \in {0, 1}
      <3>1. CASE q = p
        BY <3>1, <1>8 DEF StatusFree, StatusUsed
      <3>2. CASE q # p
        <4>1. q \in Addr /\ Status(h.mem[q]) \in {0, 1}
          BY <1>1, HeaderFacts
        <4>. QED BY <3>2, <4>1, <1>5, <1>6 DEF SizeAt
      <3>. QED BY <3>1, <3>2
    <2>. QED BY <2>1, <1>1, <1>5, <1>7, TilesMark
  <1>10. Linked(g)
    <2>1. ASSUME NEW q \in Range(h.flist)
          PROVE  g.mem[q + 1] = h.mem[q + 1] /\ g.mem[q + 2] = h.mem[q + 2]
      <3>1. q \in h.hdrs
        BY <1>1 DEF FreeHdrs
      <3>2. q \in Int /\ q + 1 \in Addr /\ q + 2 \in Addr
        BY <1>1, <3>1, HeaderFacts
      <3>3. q = p \/ q >= p + 3 \/ p >= q + 3
        BY <1>1, <3>1, HeadersSpaced DEF Spaced
      <3>. QED BY <3>2, <3>3, <1>2, <1>5, <1>6
    <2>. QED BY <2>1, <1>1, <1>5, <1>7, LinkedFrame
  <1>. QED BY <1>5, <1>6, <1>7, <1>8, <1>9, <1>10

\* myfree gives exactly the block of ptr back, merged or not.
LEMMA MyFree ==
    ASSUME NEW h, HeapOK(h), NEW ptr, ptr # NULL,
           NEW p, p = ptr - 1, p \in UsedHdrs(h),
           NEW g, g = myfree(h, ptr)
    PROVE  /\ HeapOK(g) /\ UsedHdrs(g) = UsedHdrs(h) \ {p}
           /\ \A a \in Addr : Clear(h, p, a) => g.mem[a] = h.mem[a]
  <1>. DEFINE next == NextOf(h, p)
  <1>1. /\ p \in h.hdrs /\ p \notin FreeHdrs(h)
        /\ h \in HeapType /\ Tiles(h) /\ Range(h.flist) = FreeHdrs(h)
    BY DEF UsedHdrs, FreeHdrs, StatusUsed, StatusFree, HeapOK
  <1>2. h.hdrs \subseteq Addr /\ p \in Int /\ next \in Int /\ next >= p + 3
    BY <1>1, HeaderFacts DEF HeapType
  <1>3. \A a \in Addr : Clear(h, p, a) =>
            /\ a # p /\ a # p + 1 /\ a # p + 2
            /\ \A q \in FreeHdrs(h) : a # q /\ a # q + 1 /\ a # q + 2
    <2>1. ASSUME NEW a \in Addr, Clear(h, p, a)
          PROVE  /\ a # p /\ a # p + 1 /\ a # p + 2
                 /\ \A q \in FreeHdrs(h) : a # q /\ a # q + 1 /\ a # q + 2
      <3>1. /\ a \in Int /\ (a < p \/ a >= next)
            /\ \A q \in FreeHdrs(h) : a # q /\ a # q + 1 /\ a # q + 2
        BY <1>1, <2>1, ClearFacts
      <3>. QED BY <3>1, <1>2
    <2>. QED BY <2>1
  <1>4. CASE can_col(h, p)
    <2>. DEFINE r == absorb(h, p, StatusFree)
    <2>1. next \in FreeHdrs(h)
      BY <1>1, <1>4, CanCol
    <2>2. /\ r \in HeapType /\ Tiles(r) /\ Linked(r)
          /\ Range(r.flist) = FreeHdrs(h) \ {next}
          /\ r.hdrs = h.hdrs \ {next}
          /\ Status(r.mem[p]) = StatusFree
          /\ \A q \in h.hdrs \ {p, next} : r.mem[q] = h.mem[q]
          /\ \A a \in Addr : /\ a # p /\ a # next
                             /\ \A q \in FreeHdrs(h) \ {next} : a # q + 1 /\ a # q + 2
                             => r.mem[a] = h.mem[a]
      BY <1>1, <2>1, AbsorbRight
    <2>3. g = add_free_block(r, p)
      BY <1>4 DEF myfree, col
    <2>. HIDE DEF r, next
    <2>4. /\ next # p /\ p \in r.hdrs /\ p \notin Range(r.flist)
          /\ FreeHdrs(r) = Range(r.flist) \cup {p}
      BY <1>1, <1>2, <2>1, <2>2 DEF FreeHdrs
    <2>5. /\ HeapOK(g) /\ g.hdrs = r.hdrs
          /\ \A q \in r.hdrs : g.mem[q] = r.mem[q]
          /\ \A a \in Addr : (\A q \in FreeHdrs(r) : a # q + 1 /\ a # q + 2)
                             => g.mem[a] = r.mem[a]
      BY <2>2, <2>3, <2>4, ReleaseBlock
    <2>6. UsedHdrs(g) = UsedHdrs(h) \ {p}
      BY <2>1, <2>2, <2>4, <2>5 DEF UsedHdrs, FreeHdrs, StatusUsed, StatusFree
    <2>7. ASSUME NEW a \in Addr, Clear(h, p, a) PROVE g.mem[a] = h.mem[a]
      <3>1. a # next
        BY <1>3, <2>1, <2>7
      <3>. QED BY <3>1, <1>3, <2>2, <2>4, <2>5, <2>7
    <2>. QED BY <2>5, <2>6, <2>7
  <1>5. CASE ~can_col(h, p)
    <2>. DEFINE r == change_header(h, p, SizeAt(h, p), StatusFree)
    <2>1. /\ r \in HeapType /\ Tiles(r) /\ Linked(r)
          /\ r.flist = h.flist /\ r.hdrs = h.hdrs
          /\ Status(r.mem[p]) = StatusFree
          /\ \A a \in Addr : a # p => r.mem[a] = h.mem[a]
      BY <1>1, Remark
    <2>2. g = add_free_block(r, p)
      BY <1>5 DEF myfree
    <2>. HIDE DEF r, next
    <2>3. FreeHdrs(r) = Range(r.flist) \cup {p}
      BY <1>1, <1>2, <2>1 DEF FreeHdrs
    <2>4. /\ HeapOK(g) /\ g.hdrs = r.hdrs
          /\ \A q \in r.hdrs : g.mem[q] = r.mem[q]
          /\ \A a \in Addr : (\A q \in FreeHdrs(r) : a # q + 1 /\ a # q + 2)
                             => g.mem[a] = r.mem[a]
      BY <1>1, <2>1, <2>2, <2>3, ReleaseBlock
    <2>5. UsedHdrs(g) = UsedHdrs(h) \ {p}
      BY <1>1, <1>2, <2>1, <2>4 DEF UsedHdrs, StatusUsed, StatusFree
    <2>6. ASSUME NEW a \in Addr, Clear(h, p, a) PROVE g.mem[a] = h.mem[a]
      BY <1>1, <1>3, <2>1, <2>3, <2>4, <2>6
    <2>. QED BY <2>4, <2>5, <2>6
  <1>. QED BY <1>4, <1>5

\* mymalloc, once the search has found p, hands out p and nothing else.
LEMMA Place ==
    ASSUME NEW h, HeapOK(h), NEW p \in FreeHdrs(h),
           NEW needed \in Nat, needed % 8 = 0, needed >= 16, needed <= SizeAt(h, p),
           NEW g, g = place(h, p, needed)
    PROVE  /\ HeapOK(g) /\ UsedHdrs(g) = UsedHdrs(h) \cup {p}
           /\ SizeAt(g, p) >= needed
           /\ \A a \in Addr : Clear(h, p, a) => g.mem[a] = h.mem[a]
  <1>1. /\ p \in h.hdrs /\ h \in HeapType /\ Tiles(h)
        /\ Range(h.flist) = FreeHdrs(h)
        /\ Status(h.mem[p]) = 0
    BY DEF FreeHdrs, StatusFree, HeapOK
  <1>2. p \in Int /\ SizeAt(h, p) \in Int /\ h.mem[p] = SizeAt(h, p) + 0
    BY <1>1, HeaderFacts
  <1>3. CASE need_split(h, p, needed)
    <2>1. SizeAt(h, p) - needed - 8 >= 16
      BY <1>2, <1>3 DEF need_split, ALIGNMENT_16, HEADER_SIZE
    <2>2. g = split_block(h, p, needed)
      BY <1>3 DEF place
    <2>3. /\ HeapOK(g) /\ UsedHdrs(g) = UsedHdrs(h) \cup {p} /\ SizeAt(g, p) = needed
          /\ \A a \in Addr : Clear(h, p, a) => g.mem[a] = h.mem[a]
      BY <2>1, <2>2, SplitFree
    <2>. QED BY <2>3
  <1>4. CASE ~need_split(h, p, needed)
    <2>. DEFINE r == change_header(h, p, SizeAt(h, p), StatusUsed)
    <2>1. /\ r \in HeapType /\ Tiles(r) /\ Linked(r)
          /\ r.flist = h.flist /\ r.hdrs = h.hdrs
          /\ Status(r.mem[p]) = StatusUsed /\ SizeAt(r, p) = SizeAt(h, p)
          /\ \A a \in Addr : a # p => r.mem[a] = h.mem[a]
      BY <1>1, Remark
    <2>2. g = remove_free_block(r, p)
      BY <1>4 DEF place
    <2>. HIDE DEF r
    <2>3. Range(r.flist) \subseteq r.hdrs /\ p \in Range(r.flist)
      BY <1>1, <2>1 DEF FreeHdrs
    <2>4. /\ g \in HeapType /\ Tiles(g) /\ Linked(g)
          /\ Range(g.flist) = Range(r.flist) \ {p}
          /\ g.hdrs = r.hdrs
          /\ SizeAt(g, p) = SizeAt(r, p) /\ Status(g.mem[p]) = StatusUsed
          /\ \A q \in r.hdrs \ {p} : g.mem[q] = r.mem[q]
          /\ \A a \in Addr : a # p /\ (\A q \in Range(g.flist) : a # q + 1 /\ a # q + 2)
                             => g.mem[a] = r.mem[a]
      BY <2>1, <2>2, <2>3, TakeBlock
    <2>5. \A q \in h.hdrs \ {p} : g.mem[q] = h.mem[q]
      <3>1. h.hdrs \subseteq Addr
        BY <1>1 DEF HeapType
      <3>. QED BY <3>1, <2>1, <2>4
    <2>6. HeapOK(g)
      <3>1. FreeHdrs(g) = FreeHdrs(h) \ {p}
        BY <1>1, <2>1, <2>4, <2>5 DEF FreeHdrs, StatusUsed, StatusFree
      <3>. QED BY <3>1, <1>1, <2>1, <2>4 DEF HeapOK
    <2>7. UsedHdrs(g) = UsedHdrs(h) \cup {p}
      BY <1>1, <2>1, <2>4, <2>5 DEF UsedHdrs
    <2>8. ASSUME NEW a \in Addr, Clear(h, p, a) PROVE g.mem[a] = h.mem[a]
      <3>1. \A q \in FreeHdrs(h) : a # q /\ a # q + 1 /\ a # q + 2
        BY <1>1, <2>8, ClearFacts
      <3>. QED BY <3>1, <1>1, <2>1, <2>4
    <2>. QED BY <1>2, <2>1, <2>4, <2>6, <2>7, <2>8
  <1>. QED BY <1>3, <1>4

\* myrealloc's shrink keeps the first new_size bytes of the block.
LEMMA FitInPlace ==
    ASSUME NEW h, HeapOK(h), NEW p \in UsedHdrs(h),
           NEW size \in Nat, size % 8 = 0, size >= 16, size <= SizeAt(h, p),
           NEW g, g = fit_in_place(h, p, size)
    PROVE  /\ HeapOK(g) /\ UsedHdrs(g) = UsedHdrs(h)
           /\ SizeAt(g, p) >= size
           /\ \A a \in (p + 1) .. (p + size \div 8) : a \in Addr /\ g.mem[a] = h.mem[a]
           /\ \A a \in Addr : Clear(h, p, a) => g.mem[a] = h.mem[a]
  <1>1. p \in h.hdrs /\ h \in HeapType /\ Tiles(h) /\ Status(h.mem[p]) = 1
    BY DEF UsedHdrs, StatusUsed, HeapOK
  <1>2. /\ p \in Int /\ p \in Addr /\ NextOf(h, p) \in Int /\ NextOf(h, p) <= SegEnd
        /\ SizeAt(h, p) \in Int /\ SizeAt(h, p) = 8 * (NextOf(h, p) - p - 1)
        /\ h.mem[p] = SizeAt(h, p) + 1
    BY <1>1, HeaderFacts
  <1>3. size \div 8 \in Int /\ size = 8 * (size \div 8)
    OBVIOUS
  <1>4. CASE need_split(h, p, size)
    <2>1. SizeAt(h, p) - size - 8 >= 16
      <3>. DEFINE k == size \div 8  e == NextOf(h, p)
      <3>1. SizeAt(h, p) + 1 - size >= 24
        BY <1>2, <1>4 DEF need_split, ALIGNMENT_16, HEADER_SIZE
      <3>2. k \in Int /\ e \in Int /\ size = 8 * k /\ SizeAt(h, p) = 8 * (e - p - 1)
        BY <1>2, <1>3
      <3>. HIDE DEF k, e
      <3>. QED BY <3>1, <3>2, <1>2
    <2>2. g = split_block_r(h, p, size)
      BY <1>4 DEF fit_in_place
    <2>3. /\ HeapOK(g) /\ UsedHdrs(g) = UsedHdrs(h) /\ SizeAt(g, p) = size
          /\ \A a \in (p + 1) .. (p + size \div 8) : a \in Addr /\ g.mem[a] = h.mem[a]
          /\ \A a \in Addr : Clear(h, p, a) => g.mem[a] = h.mem[a]
      BY <2>1, <2>2, SplitUsed
    <2>. QED BY <2>3
  <1>5. CASE ~need_split(h, p, size)
    <2>1. g = h
      BY <1>5 DEF fit_in_place
    <2>2. ASSUME NEW a \in (p + 1) .. (p + size \div 8) PROVE a \in Addr
      <3>. DEFINE k == size \div 8  e == NextOf(h, p)
      <3>1. k \in Int /\ size = 8 * k /\ e \in Int /\ e <= SegEnd /\ SizeAt(h, p) = 8 * (e - p - 1)
        BY <1>2, <1>3
      <3>. HIDE DEF e
      <3>2. a \in Int /\ p < a /\ a <= p + k
        BY <1>2, <3>1
      <3>. HIDE DEF k
      <3>3. a < e
        BY <1>2, <3>1, <3>2
      <3>. QED BY <1>2, <3>1, <3>2, <3>3, AddrFacts
    <2>. QED BY <1>2, <2>1, <2>2
  <1>. QED BY <1>4, <1>5

\* Writes to the payload of a used block leave every structure alone.
LEMMA PayloadWrite ==
    ASSUME NEW h, HeapOK(h), NEW p \in UsedHdrs(h),
           NEW m \in [Addr -> Int],
           \A a \in Addr : a \notin (p + 1) .. (NextOf(h, p) - 1) => m[a] = h.mem[a],
           NEW g, g = [h EXCEPT !.mem = m]
    PROVE  /\ HeapOK(g) /\ UsedHdrs(g) = UsedHdrs(h) /\ FreeHdrs(g) = FreeHdrs(h)
           /\ g.mem = m /\ g.hdrs = h.hdrs
           /\ \A q \in h.hdrs : /\ SizeAt(g, q) = SizeAt(h, q) /\ NextOf(g, q) = NextOf(h, q)
                                /\ m[q] = h.mem[q]
  <1>. DEFINE next == NextOf(h, p)
  <1>1. /\ p \in h.hdrs /\ p \notin FreeHdrs(h)
        /\ h \in HeapType /\ Tiles(h) /\ Linked(h) /\ Range(h.flist) = FreeHdrs(h)
    BY DEF UsedHdrs, FreeHdrs, StatusUsed, StatusFree, HeapOK
  <1>2. p \in Int /\ next \in Int
    BY <1>1, HeaderFacts
  <1>3. /\ g.mem = m /\ g.hdrs = h.hdrs /\ g.nheaders = h.nheaders
        /\ g.flist = h.flist /\ g.ffh = h.ffh /\ g.nfreeheaders = h.nfreeheaders
        /\ g \in HeapType
    BY <1>1 DEF HeapType
  <1>. HIDE DEF next
  <1>4. ASSUME NEW q \in h.hdrs
        PROVE  /\ m[q] = h.mem[q]
               /\ q # p => m[q + 1] = h.mem[q + 1] /\ m[q + 2] = h.mem[q + 2]
    <2>1. /\ q \in Int /\ q \in Addr /\ q + 1 \in Addr /\ q + 2 \in Addr
          /\ NextOf(h, q) \in Int /\ NextOf(h, q) >= q + 3
      BY <1>1, HeaderFacts
    <2>2. q # p => q >= next \/ p >= NextOf(h, q)
      BY <1>1, Apart DEF next
    <2>3. q \notin (p + 1) .. (next - 1)
      BY <2>1, <2>2, <1>2
    <2>4. q # p => q + 1 \notin (p + 1) .. (next - 1) /\ q + 2 \notin (p + 1) .. (next - 1)
      BY <2>1, <2>2, <1>2
    <2>. QED BY <2>1, <2>3, <2>4 DEF next
  <1>5. \A q \in h.hdrs : SizeAt(g, q) = SizeAt(h, q) /\ NextOf(g, q) = NextOf(h, q)
    BY <1>3, <1>4 DEF SizeAt, NextOf
  <1>6. UsedHdrs(g) = UsedHdrs(h) /\ FreeHdrs(g) = FreeHdrs(h)
    BY <1>3, <1>4 DEF UsedHdrs, FreeHdrs
  <1>7. Tiles(g)
    <2>1. \A q \in h.hdrs : SizeAt(g, q) = SizeAt(h, q) /\ Status(g.mem[q]) \in {0, 1}
      BY <1>1, <1>3, <1>4, <1>5, HeaderFacts
    <2>. QED BY <2>1, <1>1, <1>3, TilesMark
  <1>8. Linked(g)
    <2>1. \A q \in Range(h.flist) : g.mem[q + 1] = h.mem[q + 1] /\ g.mem[q + 2] = h.mem[q + 2]
      BY <1>1, <1>3, <1>4 DEF FreeHdrs
    <2>. QED BY <2>1, <1>1, <1>3, LinkedFrame
  <1>9. HeapOK(g)
    BY <1>1, <1>3, <1>6, <1>7, <1>8 DEF HeapOK
  <1>. QED BY <1>3, <1>4, <1>5, <1>6, <1>9

-----------------------------------------------------------------------------
(* Blocks and their owners.                                                *)

\* The frame of an operation on the block at p keeps the other used blocks.
LEMMA FrameKeeps ==
    ASSUME NEW h, HeapOK(h), NEW p \in h.hdrs, NEW g,
           \A a \in Addr : Clear(h, p, a) => g.mem[a] = h.mem[a]
    PROVE  \A u \in UsedHdrs(h) \ {p} : Kept(h, g, u)
  <1>. SUFFICES ASSUME NEW u \in UsedHdrs(h), u # p
                PROVE  Kept(h, g, u)
    OBVIOUS
  <1>1. \A a \in u .. (NextOf(h, u) - 1) : g.mem[a] = h.mem[a]
    BY UsedIsClear
  <1>2. u \in Int /\ NextOf(h, u) \in Int /\ NextOf(h, u) >= u + 3
    BY HeaderFacts DEF HeapOK, UsedHdrs
  <1>3. g.mem[u] = h.mem[u]
    BY <1>1, <1>2
  <1>. QED BY <1>1, <1>3 DEF Kept, SizeAt, NextOf

LEMMA HeldFacts ==
    ASSUME NEW h, HeapOK(h), NEW lv \in LiveType, Owned(h, lv),
           NEW id \in Ids
    PROVE  /\ lv[id].ptr \in Int /\ lv[id].size \in Nat /\ Words(lv[id].size) \in Nat
           /\ lv[id].ptr = NULL => /\ lv[id].size = 0 /\ lv[id] = NoBlock
                                   /\ lv[id].ptr - 1 \notin h.hdrs
           /\ lv[id].ptr # NULL =>
                 /\ lv[id].ptr - 1 \in UsedHdrs(h) /\ lv[id].ptr - 1 \in h.hdrs
                 /\ lv[id].ptr + Words(lv[id].size) <= NextOf(h, lv[id].ptr - 1)
                 /\ lv[id].size <= SizeAt(h, lv[id].ptr - 1)
  <1>1. Sound(h)
    BY TilesSound DEF HeapOK
  <1>. QED BY <1>1, SoundHeld

\* The calls that end in the client's favour, as handovers.
LEMMA PlaceHandover ==
    ASSUME NEW h, HeapOK(h), NEW p \in FreeHdrs(h),
           NEW needed \in Nat, needed % 8 = 0, needed >= 16, needed <= SizeAt(h, p),
           NEW g, g = place(h, p, needed),
           NEW old, old \notin UsedHdrs(h)
    PROVE  /\ HeapOK(g) /\ Handover(h, g, old, {p}) /\ SizeAt(g, p) >= needed
           /\ UsedHdrs(g) = UsedHdrs(h) \cup {p}
           /\ \A u \in UsedHdrs(h) : Kept(h, g, u)
  <1>1. p \in h.hdrs /\ p \notin UsedHdrs(h)
    BY DEF FreeHdrs, UsedHdrs, StatusFree, StatusUsed
  <1>2. /\ HeapOK(g) /\ UsedHdrs(g) = UsedHdrs(h) \cup {p} /\ SizeAt(g, p) >= needed
        /\ \A a \in Addr : Clear(h, p, a) => g.mem[a] = h.mem[a]
    BY Place
  <1>3. \A u \in UsedHdrs(h) \ {p} : Kept(h, g, u)
    BY <1>1, <1>2, FrameKeeps
  <1>4. \A u \in UsedHdrs(h) : Kept(h, g, u)
    BY <1>1, <1>3
  <1>. QED BY <1>1, <1>2, <1>4 DEF Handover

LEMMA FreeHandover ==
    ASSUME NEW h, HeapOK(h), NEW p \in UsedHdrs(h), NEW ptr, ptr # NULL, p = ptr - 1,
           NEW g, g = myfree(h, ptr)
    PROVE  /\ HeapOK(g) /\ Handover(h, g, p, {})
           /\ UsedHdrs(g) = UsedHdrs(h) \ {p}
           /\ \A u \in UsedHdrs(h) \ {p} : Kept(h, g, u)
  <1>1. /\ HeapOK(g) /\ UsedHdrs(g) = UsedHdrs(h) \ {p}
        /\ \A a \in Addr : Clear(h, p, a) => g.mem[a] = h.mem[a]
    BY MyFree
  <1>2. p \in h.hdrs
    BY DEF UsedHdrs
  <1>3. \A u \in UsedHdrs(h) \ {p} : Kept(h, g, u)
    BY <1>1, <1>2, FrameKeeps
  <1>. QED BY <1>1, <1>3 DEF Handover

LEMMA FitHandover ==
    ASSUME NEW h, HeapOK(h), NEW p \in UsedHdrs(h),
           NEW size \in Nat, size % 8 = 0, size >= 16, size <= SizeAt(h, p),
           NEW g, g = fit_in_place(h, p, size)
    PROVE  /\ HeapOK(g) /\ Handover(h, g, p, {p}) /\ SizeAt(g, p) >= size
           /\ \A a \in (p + 1) .. (p + size \div 8) : g.mem[a] = h.mem[a]
  <1>1. /\ HeapOK(g) /\ UsedHdrs(g) = UsedHdrs(h) /\ SizeAt(g, p) >= size
        /\ \A a \in (p + 1) .. (p + size \div 8) : a \in Addr /\ g.mem[a] = h.mem[a]
        /\ \A a \in Addr : Clear(h, p, a) => g.mem[a] = h.mem[a]
    BY FitInPlace
  <1>2. p \in h.hdrs
    BY DEF UsedHdrs
  <1>3. \A u \in UsedHdrs(h) \ {p} : Kept(h, g, u)
    BY <1>1, <1>2, FrameKeeps
  <1>. QED BY <1>1, <1>3 DEF Handover

LEMMA GrowHandover ==
    ASSUME NEW h, HeapOK(h), NEW p \in UsedHdrs(h), can_col(h, p),
           NEW g, g = col_r(h, p)
    PROVE  /\ HeapOK(g) /\ Handover(h, g, p, {p}) /\ SizeAt(g, p) > SizeAt(h, p)
           /\ \A a \in (p + 1) .. (NextOf(h, p) - 1) : g.mem[a] = h.mem[a]
  <1>1. /\ HeapOK(g) /\ UsedHdrs(g) = UsedHdrs(h) /\ SizeAt(g, p) > SizeAt(h, p)
        /\ \A a \in (p + 1) .. (NextOf(h, p) - 1) : a \in Addr /\ g.mem[a] = h.mem[a]
        /\ \A a \in Addr : Clear(h, p, a) => g.mem[a] = h.mem[a]
    BY ColR
  <1>2. p \in h.hdrs
    BY DEF UsedHdrs
  <1>3. \A u \in UsedHdrs(h) \ {p} : Kept(h, g, u)
    BY <1>1, <1>2, FrameKeeps
  <1>. QED BY <1>1, <1>3 DEF Handover

\* From h to g only n bytes of memory, from the address after p on, are written.
Writes(h, g, p, n) ==
    /\ g = [h EXCEPT !.mem = g.mem]
    /\ g.mem \in [Addr -> Int]
    /\ \A a \in Addr : a \notin (p + 1) .. (p + Words(n)) => g.mem[a] = h.mem[a]

\* A write inside the payload of the block at p.
LEMMA WriteHandover ==
    ASSUME NEW h, HeapOK(h), NEW p \in UsedHdrs(h), NEW n \in Nat, n <= SizeAt(h, p),
           NEW g, Writes(h, g, p, n)
    PROVE  /\ HeapOK(g) /\ Handover(h, g, p, {p}) /\ UsedHdrs(g) = UsedHdrs(h)
           /\ SizeAt(g, p) = SizeAt(h, p)
           /\ \A k \in 0 .. (Words(n) - 1) : p + 1 + k \in Addr
           /\ \A u \in UsedHdrs(h) \ {p} : Kept(h, g, u)
  <1>. DEFINE next == NextOf(h, p)
              m    == g.mem
  <1>1. p \in h.hdrs
    BY DEF UsedHdrs
  <1>2. /\ p \in Int /\ next \in Int /\ SizeAt(h, p) = 8 * (next - p - 1)
        /\ next <= SegEnd /\ p \in Addr
    BY <1>1, HeaderFacts DEF HeapOK
  <1>3. Words(n) \in Nat /\ p + Words(n) <= next - 1
    <2>1. n <= 8 * (next - p - 1) /\ next - p - 1 \in Int
      BY <1>2
    <2>2. Words(n) \in Nat /\ Words(n) <= next - p - 1
      BY <2>1, WordsFacts
    <2>. HIDE DEF next
    <2>. QED BY <1>2, <2>2
  <1>. HIDE DEF next
  <1>4. \A a \in Addr : a \notin (p + 1) .. (next - 1) => m[a] = h.mem[a]
    <2>1. \A a \in (p + 1) .. (p + Words(n)) : a \in (p + 1) .. (next - 1)
      BY <1>2, <1>3
    <2>. QED BY <2>1 DEF Writes
  <1>5. /\ HeapOK(g) /\ UsedHdrs(g) = UsedHdrs(h) /\ g.mem = m
        /\ \A q \in h.hdrs : SizeAt(g, q) = SizeAt(h, q) /\ NextOf(g, q) = NextOf(h, q)
    BY <1>4, PayloadWrite DEF next, Writes
  <1>6. ASSUME NEW u \in UsedHdrs(h) \ {p} PROVE Kept(h, g, u)
    <2>1. u \in h.hdrs
      BY DEF UsedHdrs
    <2>2. /\ u \in Int /\ NextOf(h, u) \in Int /\ NextOf(h, u) <= SegEnd /\ u \in Addr
      BY <2>1, HeaderFacts DEF HeapOK
    <2>3. u >= next \/ p >= NextOf(h, u)
      BY <1>1, <2>1, Apart DEF next, HeapOK
    <2>4. ASSUME NEW a \in u .. (NextOf(h, u) - 1)
          PROVE  a \in Addr /\ a \notin (p + 1) .. (next - 1)
      <3>1. a \in Int /\ u <= a /\ a < NextOf(h, u)
        BY <2>2
      <3>2. a < p + 1 \/ a >= next
        BY <1>2, <2>2, <2>3, <3>1
      <3>. QED BY <1>2, <2>2, <3>1, <3>2, AddrFacts
    <2>. QED BY <1>4, <1>5, <2>1, <2>4 DEF Kept
  <1>7. ASSUME NEW k \in 0 .. (Words(n) - 1) PROVE p + 1 + k \in Addr
    BY <1>2, <1>3, AddrFacts
  <1>. QED BY <1>1, <1>5, <1>6, <1>7 DEF Handover

\* myrealloc's move: a new block, the copy, and the old block freed.
LEMMA MoveHandover ==
    ASSUME NEW h, HeapOK(h), NEW p \in FreeHdrs(h), NEW old \in UsedHdrs(h),
           NEW needed \in Nat, needed % 8 = 0, needed >= 16, needed <= SizeAt(h, p),
           NEW n \in Nat, n <= needed, n <= SizeAt(h, old),
           NEW g, g = myfree(memcpy(place(h, p, needed), p + 1, old + 1, n), old + 1)
    PROVE  /\ HeapOK(g) /\ Handover(h, g, old, {p}) /\ SizeAt(g, p) >= needed
           /\ \A k \in 0 .. (Words(n) - 1) : g.mem[p + 1 + k] = h.mem[old + 1 + k]
  <1>. DEFINE h1 == place(h, p, needed)
              h2 == memcpy(h1, p + 1, old + 1, n)
              m  == [a \in Addr |-> IF a \in (p + 1) .. ((p + 1) + Words(n) - 1)
                                    THEN h1.mem[(old + 1) + (a - (p + 1))] ELSE h1.mem[a]]
  <1>1. /\ old \in h.hdrs /\ p \in h.hdrs /\ p \notin UsedHdrs(h) /\ p # old
    BY DEF UsedHdrs, FreeHdrs, StatusFree, StatusUsed
  <1>2. /\ HeapOK(h1) /\ SizeAt(h1, p) >= needed
        /\ UsedHdrs(h1) = UsedHdrs(h) \cup {p}
        /\ \A u \in UsedHdrs(h) : Kept(h, h1, u)
    BY <1>1, PlaceHandover
  <1>3. p \in h1.hdrs /\ old \in h1.hdrs /\ old \in UsedHdrs(h1) /\ p \in UsedHdrs(h1)
    BY <1>2 DEF UsedHdrs
  <1>4. /\ p \in Int /\ old \in Int /\ NextOf(h, old) \in Int /\ Words(n) \in Nat
        /\ SizeAt(h1, p) \in Int /\ NextOf(h, old) <= SegEnd /\ old \in Addr
        /\ old + Words(n) < NextOf(h, old) /\ h1.mem \in [Addr -> Int]
    <2>1. /\ p \in Int /\ old \in Int /\ NextOf(h, old) \in Int /\ NextOf(h, old) <= SegEnd
          /\ SizeAt(h, old) = 8 * (NextOf(h, old) - old - 1) /\ old \in Addr
      BY <1>1, HeaderFacts DEF HeapOK
    <2>2. SizeAt(h1, p) \in Int
      BY <1>2, <1>3, HeaderFacts DEF HeapOK
    <2>. DEFINE e == NextOf(h, old)
    <2>3. n <= 8 * (e - old - 1) /\ e - old - 1 \in Int
      BY <2>1
    <2>4. Words(n) <= e - old - 1 /\ Words(n) \in Nat
      BY <2>3, WordsFacts
    <2>5. old + Words(n) < e
      <3>. HIDE DEF e
      <3>. QED BY <2>1, <2>4 DEF e
    <2>. QED BY <2>1, <2>2, <2>4, <2>5, <1>2 DEF HeapOK, HeapType
  <1>5. g = myfree(h2, old + 1) /\ h2 = [h1 EXCEPT !.mem = m]
    BY DEF memcpy
  <1>. HIDE DEF h1
  <1>6. \A k \in 0 .. (Words(n) - 1) : old + 1 + k \in Addr /\ h1.mem[old + 1 + k] = h.mem[old + 1 + k]
    <2>1. ASSUME NEW k \in 0 .. (Words(n) - 1)
          PROVE  old + 1 + k \in Addr /\ old + 1 + k \in old .. (NextOf(h, old) - 1)
      BY <1>4, AddrFacts
    <2>2. Kept(h, h1, old)
      BY <1>2
    <2>. QED BY <2>1, <2>2 DEF Kept
  <1>7. /\ h2.mem = m /\ m \in [Addr -> Int]
        /\ \A a \in Addr : a \notin (p + 1) .. (p + Words(n)) => m[a] = h1.mem[a]
    <2>1. ASSUME NEW a \in Addr, a \in (p + 1) .. ((p + 1) + Words(n) - 1)
          PROVE  (old + 1) + (a - (p + 1)) \in Addr
      <3>1. a - (p + 1) \in 0 .. (Words(n) - 1)
        BY <1>4, <2>1
      <3>. QED BY <1>6, <3>1
    <2>2. (p + 1) + Words(n) - 1 = p + Words(n)
      BY <1>4
    <2>3. m \in [Addr -> Int]
      BY <1>4, <2>1
    <2>4. h2.mem = m
      BY <1>2, <1>5 DEF HeapOK, HeapType
    <2>. QED BY <2>2, <2>3, <2>4
  <1>8. n <= SizeAt(h1, p)
    BY <1>2, <1>4
  <1>. HIDE DEF m, h2
  <1>9. /\ HeapOK(h2) /\ UsedHdrs(h2) = UsedHdrs(h1) /\ SizeAt(h2, p) = SizeAt(h1, p)
        /\ h2.mem = m
        /\ \A k \in 0 .. (Words(n) - 1) : p + 1 + k \in Addr
        /\ \A u \in UsedHdrs(h1) \ {p} : Kept(h1, h2, u)
    <2>1. Writes(h1, h2, p, n)
      BY <1>5, <1>7 DEF Writes
    <2>2. /\ HeapOK(h2) /\ UsedHdrs(h2) = UsedHdrs(h1) /\ SizeAt(h2, p) = SizeAt(h1, p)
          /\ \A k \in 0 .. (Words(n) - 1) : p + 1 + k \in Addr
          /\ \A u \in UsedHdrs(h1) \ {p} : Kept(h1, h2, u)
      BY <1>2, <1>3, <1>8, <2>1, WriteHandover
    <2>. QED BY <1>7, <2>2
  <1>10. /\ HeapOK(g) /\ UsedHdrs(g) = UsedHdrs(h2) \ {old}
         /\ \A u \in UsedHdrs(h2) \ {old} : Kept(h2, g, u)
    <2>1. old + 1 # NULL /\ old = (old + 1) - 1
      BY <1>4, AddrFacts
    <2>. QED BY <1>3, <1>5, <1>9, <2>1, FreeHandover
  <1>11. ASSUME NEW u \in UsedHdrs(h) \ {old} PROVE Kept(h, g, u)
    <2>1. Kept(h, h1, u) /\ Kept(h1, h2, u) /\ Kept(h2, g, u)
      BY <1>1, <1>2, <1>9, <1>10
    <2>2. Kept(h, h2, u)
      BY <2>1, KeptTrans
    <2>. QED BY <2>1, <2>2, KeptTrans
  <1>12. Kept(h2, g, p)
    BY <1>1, <1>3, <1>9, <1>10
  <1>13. SizeAt(g, p) >= needed
    BY <1>2, <1>9, <1>12 DEF Kept
  <1>14. ASSUME NEW k \in 0 .. (Words(n) - 1)
         PROVE  g.mem[p + 1 + k] = h.mem[old + 1 + k]
    <2>1. /\ NextOf(h2, p) \in Int /\ SizeAt(h2, p) = 8 * (NextOf(h2, p) - p - 1)
      BY <1>3, <1>9, HeaderFacts DEF HeapOK, UsedHdrs
    <2>. DEFINE e == NextOf(h2, p)
    <2>2. n <= 8 * (e - p - 1) /\ e - p - 1 \in Int
      BY <1>4, <1>8, <1>9, <2>1
    <2>3. Words(n) <= e - p - 1
      BY <2>2, WordsFacts
    <2>4. p + 1 + k \in p .. (e - 1)
      <3>. HIDE DEF e
      <3>. QED BY <1>4, <2>1, <2>3 DEF e
    <2>5. g.mem[p + 1 + k] = m[p + 1 + k]
      BY <1>9, <1>12, <2>4 DEF Kept
    <2>6. /\ p + 1 + k \in (p + 1) .. ((p + 1) + Words(n) - 1)
          /\ (old + 1) + ((p + 1 + k) - (p + 1)) = old + 1 + k
      BY <1>4
    <2>7. m[p + 1 + k] = h1.mem[old + 1 + k]
      BY <1>9, <2>6 DEF m
    <2>. QED BY <1>6, <2>5, <2>7
  <1>. QED BY <1>1, <1>2, <1>9, <1>10, <1>11, <1>13, <1>14 DEF Handover

\* The client's memset of its block, the one at p.
Fills(h, g, p, w, n) == g = memset(h, p + 1, w, n)
Holds(g, p, w, n) == \A a \in (p + 1) .. (p + Words(n)) : g.mem[a] = w

LEMMA FillHandover ==
    ASSUME NEW h, HeapOK(h), NEW p \in UsedHdrs(h), NEW n \in Nat, n <= SizeAt(h, p),
           NEW w \in Int, NEW g, Fills(h, g, p, w, n)
    PROVE  /\ HeapOK(g) /\ Handover(h, g, p, {p})
           /\ SizeAt(g, p) = SizeAt(h, p)
           /\ Holds(g, p, w, n)
  <1>. DEFINE ptr == p + 1
              m == [a \in Addr |-> IF a \in ptr .. (ptr + Words(n) - 1)
                                   THEN w ELSE h.mem[a]]
  <1>1. g = [h EXCEPT !.mem = m] /\ ptr = p + 1 /\ p \in Int /\ Words(n) \in Nat
    BY WordsFacts, HeaderFacts DEF memset, Fills, HeapOK, UsedHdrs
  <1>2. ptr + Words(n) - 1 = p + Words(n)
    BY <1>1
  <1>3. m \in [Addr -> Int]
    BY DEF HeapOK, HeapType
  <1>4. \A a \in Addr : a \notin (p + 1) .. (p + Words(n)) => m[a] = h.mem[a]
    BY <1>1, <1>2
  <1>. HIDE DEF m
  <1>5. /\ HeapOK(g) /\ Handover(h, g, p, {p})
        /\ SizeAt(g, p) = SizeAt(h, p) /\ g.mem = m
        /\ \A k \in 0 .. (Words(n) - 1) : p + 1 + k \in Addr
    <2>1. g.mem = m
      BY <1>1 DEF HeapOK, HeapType
    <2>2. Writes(h, g, p, n)
      BY <1>1, <1>3, <1>4, <2>1 DEF Writes
    <2>3. /\ HeapOK(g) /\ Handover(h, g, p, {p}) /\ UsedHdrs(g) = UsedHdrs(h)
          /\ SizeAt(g, p) = SizeAt(h, p)
          /\ \A k \in 0 .. (Words(n) - 1) : p + 1 + k \in Addr
      BY <2>2, WriteHandover
    <2>. QED BY <2>1, <2>3
  <1>6. ASSUME NEW a \in (p + 1) .. (p + Words(n)) PROVE g.mem[a] = w
    <2>1. a - (p + 1) \in 0 .. (Words(n) - 1) /\ p + 1 + (a - (p + 1)) = a
      BY <1>1
    <2>2. a \in Addr /\ a \in ptr .. (ptr + Words(n) - 1)
      BY <1>1, <1>2, <1>5, <2>1
    <2>. QED BY <1>5, <2>2 DEF m
  <1>. QED BY <1>5, <1>6 DEF Holds

\* The heap that myinit leaves, whatever the segment held.
LEMMA MyInit ==
    ASSUME NEW m \in [Addr -> Int], NEW g, g = myinit(m)
    PROVE  HeapOK(g) /\ UsedHdrs(g) = {}
  <1>1. /\ SegStart \in Nat \ {0} /\ HeapSize \in Nat /\ HeapSize % 8 = 0 /\ HeapSize >= 24
        /\ SegEnd = SegStart + HeapSize \div 8
    BY HeapAssumption DEF HEADER_SIZE, SegEnd
  <1>. DEFINE w == HeapSize - 8
  <1>2. SegStart \in Addr /\ SegStart + 1 \in Addr /\ SegStart + 2 \in Addr
    BY <1>1, AddrFacts
  <1>3. /\ w \in Nat /\ w % 8 = 0 /\ Masked(w) = w /\ Status(w) = 0 /\ w >= 16
        /\ SegStart + w \div 8 + 1 = SegEnd
    BY <1>1 DEF Masked, Status
  <1>. HIDE DEF w
  <1>4. /\ g.mem \in [Addr -> Int] /\ g.mem[SegStart] = w
        /\ g.mem[SegStart + 1] = NULL /\ g.mem[SegStart + 2] = NULL
        /\ g.ffh = SegStart /\ g.nheaders = 1 /\ g.nfreeheaders = 1
        /\ g.hdrs = {SegStart} /\ g.flist = <<SegStart>>
    BY <1>1, <1>2, <1>3 DEF myinit, w, HEADER_SIZE, NULL
  <1>5. g \in HeapType
    <2>1. g.flist \in Seq(Addr)
      BY <1>2, <1>4
    <2>2. g = [mem |-> g.mem, ffh |-> g.ffh, nheaders |-> g.nheaders,
               nfreeheaders |-> g.nfreeheaders, hdrs |-> g.hdrs, flist |-> g.flist]
      BY DEF myinit
    <2>3. g.ffh \in Addr /\ g.nheaders \in Nat /\ g.nfreeheaders \in Nat /\ g.hdrs \subseteq Addr
      BY <1>2, <1>4
    <2>. QED BY <1>4, <2>1, <2>2, <2>3 DEF HeapType
  <1>6. SizeAt(g, SegStart) = w /\ NextOf(g, SegStart) = SegEnd
    BY <1>3, <1>4 DEF SizeAt, NextOf, HEADER_SIZE
  <1>7. Tiles(g)
    <2>1. Cardinality(g.hdrs) = 1
      BY <1>4, FS_Singleton
    <2>. QED BY <1>1, <1>3, <1>4, <1>6, <2>1
         DEF Tiles, Tiled, StatusFree, StatusUsed, ALIGNMENT_16, HEADER_SIZE
  <1>8. Linked(g)
    <2>1. Len(g.flist) = 1 /\ g.flist[1] = SegStart
      BY <1>4
    <2>. QED BY <1>4, <2>1 DEF Linked
  <1>9. Range(g.flist) = {SegStart} /\ FreeHdrs(g) = {SegStart} /\ UsedHdrs(g) = {}
    BY <1>3, <1>4 DEF Range, FreeHdrs, UsedHdrs, StatusFree, StatusUsed
  <1>. QED BY <1>5, <1>7, <1>8, <1>9 DEF HeapOK

-----------------------------------------------------------------------------
(* The inductive invariant.  The heap's own structure is inductive only     *)
(* together with the ownership of the used blocks (free and realloc reach   *)
(* them through the client's pointers) and with the locals of a call that   *)
(* has given up control between two steps.                                  *)

IInv == /\ TypeOK /\ HeapOK(heap)
        /\ LiveBlocks /\ CallInProgress /\ PayloadIntact

LEMMA InitIInv == Init => IInv
  <1>. SUFFICES ASSUME Init PROVE IInv
    OBVIOUS
  <1>. USE DEF Init
  <1>1. HeapOK(heap) /\ UsedHdrs(heap) = {}
    BY MyInit DEF ZeroMem
  <1>2. \A i \in Ids : live[i] = NoBlock /\ live[i].ptr = NULL /\ live[i].size = 0
    BY DEF NoBlock
  <1>3. TypeOK
    <2>1. live \in LiveType
      BY DEF LiveType, Block, NoBlock
    <2>2. call \in [id : Ids \cup {NoId}, size : Nat, need : Nat,
                    cur : Addr \cup {NULL}, old_size : Nat, keep : Nat]
      BY DEF NoCall
    <2>. QED BY <1>1, <2>1, <2>2 DEF TypeOK, HeapOK, LiveType, Block
  <1>4. LiveBlocks
    BY <1>1, <1>2 DEF LiveBlocks, Owned
  <1>5. CallInProgress
    BY DEF CallInProgress
  <1>6. PayloadIntact
    <2>1. Words(0) = 0
      BY WordsFacts
    <2>. QED BY <1>2, <2>1 DEF PayloadIntact
  <1>. QED BY <1>1, <1>3, <1>4, <1>5, <1>6 DEF IInv

\* A step inside a call that moves only the locals.
LEMMA LocalStep ==
    ASSUME IInv, UNCHANGED <<heap, live>>, pc # "fill", pc' \in {"idle", "find", "absorb", "crashed"},
           call' \in [id : Ids \cup {NoId}, size : Nat, need : Nat,
                      cur : Addr \cup {NULL}, old_size : Nat, keep : Nat],
           CallInProgress'
    PROVE  IInv'
  <1>1. TypeOK'
    BY DEF IInv, TypeOK
  <1>2. HeapOK(heap)' /\ LiveBlocks'
    BY DEF IInv, LiveBlocks
  <1>3. PayloadIntact'
    BY DEF IInv, PayloadIntact
  <1>. QED BY <1>1, <1>2, <1>3 DEF IInv

\* A step that returns the block b to the client.
LEMMA ReturnStep ==
    ASSUME IInv, pc # "fill", NEW id \in Ids,
           NEW ptr \in Addr, NEW size \in Nat, NEW keep \in Nat, keep <= size,
           Return(id, ptr, size, keep),
           HeapOK(heap'), Handover(heap, heap', live[id].ptr - 1, {ptr - 1}),
           size <= SizeAt(heap', ptr - 1),
           \A k \in 0 .. (Words(keep) - 1) : heap'.mem[ptr + k] = Fill[id]
    PROVE  IInv'
  <1>. DEFINE b == [ptr |-> ptr, size |-> size]
  <1>1. /\ live' = [live EXCEPT ![id] = b] /\ pc' = "fill"
        /\ call' = [NoCall EXCEPT !.id = id, !.keep = keep]
    BY DEF Return
  <1>2. live \in LiveType /\ HeapOK(heap) /\ Owned(heap, live)
    BY DEF IInv, TypeOK, LiveType, Block, LiveBlocks
  <1>3. /\ b \in Block /\ b.ptr = ptr /\ b.size = size
        /\ ptr # NULL
    BY AddrFacts DEF Block
  <1>. HIDE DEF b
  <1>4. /\ live' \in LiveType /\ Owned(heap', live')
        /\ \A j \in Ids \ {id} :
              /\ live'[j] = live[j]
              /\ \A k \in 0 .. (Words(live[j].size) - 1) :
                    heap'.mem[live[j].ptr + k] = heap.mem[live[j].ptr + k]
    <2>1. Handover(heap, heap', live[id].ptr - 1, NewHeader(b))
      BY <1>3 DEF NewHeader
    <2>2. b.ptr = NULL => b.size = 0
      BY <1>3
    <2>3. b.ptr # NULL => b.size <= SizeAt(heap', b.ptr - 1)
      BY <1>3
    <2>4. Assigns(live, live', id, b)
      BY <1>1 DEF Assigns
    <2>5. Sound(heap)
      BY <1>2, HeapSound
    <2>. QED BY <1>2, <1>3, <2>1, <2>2, <2>3, <2>4, <2>5, SoundChange
  <1>5. live'[id] = b
    BY <1>1, <1>2 DEF LiveType, Block
  <1>6. /\ call' \in [id : Ids \cup {NoId}, size : Nat, need : Nat,
                      cur : Addr \cup {NULL}, old_size : Nat, keep : Nat]
        /\ call'.id = id /\ call'.keep = keep
    BY <1>1 DEF NoCall
  <1>7. TypeOK'
    BY <1>1, <1>4, <1>6 DEF TypeOK, HeapOK, LiveType, Block
  <1>8. CallInProgress'
    BY <1>1, <1>3, <1>5, <1>6 DEF CallInProgress
  <1>9. PayloadIntact'
    <2>1. ASSUME NEW j \in Ids \ {id}
          PROVE  \A k \in 0 .. (Words(live'[j].size) - 1) :
                    heap'.mem[live'[j].ptr + k] = Fill[j]
      <3>1. \A k \in 0 .. (Words(live[j].size) - 1) : heap.mem[live[j].ptr + k] = Fill[j]
        BY DEF IInv, PayloadIntact
      <3>. QED BY <1>4, <3>1
    <2>. QED BY <1>1, <1>3, <1>5, <1>6, <2>1 DEF PayloadIntact
  <1>10. LiveBlocks'
    BY <1>4 DEF LiveBlocks
  <1>. QED BY <1>7, <1>8, <1>9, <1>10 DEF IInv

CallType == [id : Ids \cup {NoId}, size : Nat, need : Nat,
             cur : Addr \cup {NULL}, old_size : Nat, keep : Nat]

\* Where the locals of a call point.
LEMMA CallFacts ==
    ASSUME IInv, pc \in {"find", "absorb"}
    PROVE  /\ call \in CallType /\ call.id \in Ids
           /\ call.size \in Nat /\ call.size > 0 /\ call.keep \in Nat
           /\ call.need = roundup(call.size, ALIGNMENT_16)
           /\ call.need \in Nat /\ call.need >= call.size /\ call.need % 8 = 0
           /\ call.need >= 16
           /\ live \in LiveType /\ HeapOK(heap) /\ Owned(heap, live)
  <1>1. call \in CallType
    BY DEF IInv, TypeOK, CallType
  <1>2. call.size \in Nat /\ call.keep \in Nat
    BY <1>1 DEF CallType
  <1>3. /\ call.id \in Ids /\ call.size > 0
        /\ call.need = roundup(call.size, ALIGNMENT_16)
    BY DEF IInv, CallInProgress
  <1>4. live \in LiveType /\ HeapOK(heap) /\ Owned(heap, live)
    BY DEF IInv, TypeOK, LiveType, Block, LiveBlocks
  <1>. QED BY <1>1, <1>2, <1>3, <1>4, RoundupFacts

\* The block a realloc works on.
LEMMA OwnerFacts ==
    ASSUME IInv, pc \in {"find", "absorb"}, live[call.id].ptr # NULL,
           NEW p, p = live[call.id].ptr - 1
    PROVE  /\ p \in UsedHdrs(heap) /\ p \in Int /\ live[call.id].ptr = p + 1
           /\ SizeAt(heap, p) \in Int /\ SizeAt(heap, p) < call.need
           /\ call.old_size \in Nat /\ call.old_size <= SizeAt(heap, p)
           /\ call.keep <= call.size /\ call.keep <= live[call.id].size
           /\ live[call.id].size <= call.old_size /\ live[call.id].size \in Nat
           /\ Words(call.keep) <= Words(live[call.id].size)
           /\ Words(call.keep) <= Words(call.old_size)
           /\ p + 1 + Words(live[call.id].size) <= NextOf(heap, p)
           /\ \A k \in 0 .. (Words(call.keep) - 1) : heap.mem[p + 1 + k] = Fill[call.id]
  <1>1. /\ live[call.id].ptr \in Int /\ live[call.id].size \in Nat /\ p \in UsedHdrs(heap)
        /\ p \in heap.hdrs
        /\ live[call.id].ptr + Words(live[call.id].size) <= NextOf(heap, p)
    BY CallFacts, HeldFacts
  <1>2. /\ SizeAt(heap, p) < call.need /\ call.old_size <= SizeAt(heap, p)
        /\ live[call.id].size <= call.old_size
        /\ call.keep = Min({call.size, live[call.id].size})
    BY DEF IInv, CallInProgress
  <1>3. SizeAt(heap, p) \in Int /\ p \in Int
    BY <1>1, CallFacts, HeaderFacts DEF HeapOK
  <1>4. call.keep <= call.size /\ call.keep <= live[call.id].size /\ call.keep \in Nat
    BY <1>1, <1>2, CallFacts, MinFacts
  <1>5. call.old_size \in Nat
    BY CallFacts DEF CallType
  <1>6. /\ Words(call.keep) <= Words(live[call.id].size)
        /\ Words(call.keep) \in Nat /\ Words(live[call.id].size) \in Nat
    BY <1>1, <1>4, WordsFacts
  <1>7. Words(call.keep) <= Words(call.old_size)
    <2>1. call.keep <= call.old_size
      BY <1>1, <1>2, <1>4, <1>5
    <2>. QED BY <2>1, <1>4, <1>5, WordsFacts
  <1>8. \A k \in 0 .. (Words(live[call.id].size) - 1) :
           heap.mem[live[call.id].ptr + k] = Fill[call.id]
    BY CallFacts DEF IInv, PayloadIntact
  <1>9. live[call.id].ptr = p + 1
    BY <1>1
  <1>10. \A k \in 0 .. (Words(call.keep) - 1) : heap.mem[p + 1 + k] = Fill[call.id]
    <2>1. \A k \in 0 .. (Words(call.keep) - 1) : k \in 0 .. (Words(live[call.id].size) - 1)
      BY <1>6
    <2>. QED BY <1>8, <1>9, <2>1
  <1>. QED BY <1>1, <1>2, <1>3, <1>4, <1>5, <1>6, <1>7, <1>9, <1>10

\* Where the search of find_free_block stands.
LEMMA SearchFacts ==
    ASSUME IInv, pc = "find"
    PROVE  /\ call.cur # NULL => call.cur \in FreeHdrs(heap)
           /\ call.cur = NULL => \A p \in FreeHdrs(heap) : SizeAt(heap, p) < call.need
  <1>. DEFINE L == heap.flist
  <1>1. L \in Seq(Addr) /\ Range(L) = FreeHdrs(heap)
    BY DEF IInv, HeapOK, HeapType
  <1>2. PICK k \in 1 .. (Len(L) + 1) :
           /\ call.cur = IF k = Len(L) + 1 THEN NULL ELSE L[k]
           /\ \A i \in 1 .. (k - 1) : SizeAt(heap, L[i]) < call.need
    BY DEF IInv, CallInProgress
  <1>3. Len(L) \in Nat /\ \A i \in 1 .. Len(L) : L[i] \in Range(L) /\ L[i] # NULL
    BY <1>1, RangeFacts, AddrFacts
  <1>. HIDE DEF L
  <1>4. ASSUME call.cur # NULL PROVE call.cur \in FreeHdrs(heap)
    BY <1>1, <1>2, <1>3, <1>4
  <1>5. ASSUME call.cur = NULL, NEW p \in FreeHdrs(heap)
        PROVE  SizeAt(heap, p) < call.need
    <2>1. k = Len(L) + 1
      BY <1>2, <1>3, <1>5
    <2>2. PICK i \in 1 .. Len(L) : p = L[i]
      BY <1>1, RangeFacts
    <2>. QED BY <1>2, <1>3, <2>1, <2>2
  <1>. QED BY <1>4, <1>5

-----------------------------------------------------------------------------
(* One lemma per action.                                                   *)

LEMMA IdleFacts ==
    ASSUME IInv, NEW id \in Ids
    PROVE  live \in LiveType /\ HeapOK(heap) /\ Owned(heap, live) /\ live[id] \in Block
  BY DEF IInv, TypeOK, LiveType, Block, LiveBlocks

\* A search starts on the first block of the list.
LEMMA SearchStart ==
    ASSUME HeapOK(heap), UNCHANGED heap, call'.cur = heap.ffh
    PROVE  \E k \in 1 .. (Len(heap'.flist) + 1) :
              /\ call'.cur = IF k = Len(heap'.flist) + 1 THEN NULL ELSE heap'.flist[k]
              /\ \A i \in 1 .. (k - 1) : SizeAt(heap', heap'.flist[i]) < call'.need
  <1>. DEFINE L == heap.flist
  <1>1. L \in Seq(Addr) /\ Len(L) \in Nat
    BY DEF HeapOK, HeapType
  <1>2. call'.cur = IF 1 = Len(L) + 1 THEN NULL ELSE L[1]
    BY <1>1 DEF HeapOK, Linked
  <1>. HIDE DEF L
  <1>3. 1 \in 1 .. (Len(L) + 1) /\ 1 .. (1 - 1) = {}
    BY <1>1
  <1>. QED BY <1>2, <1>3 DEF L

LEMMA MallocIInv ==
    ASSUME IInv, NEW id \in Ids, NEW n \in Requests, Malloc(id, n)
    PROVE  IInv'
  <1>. USE DEF Malloc
  <1>1. n \in Nat /\ roundup(n, ALIGNMENT_16) \in Nat
    BY HeapAssumption, RoundupFacts
  <1>2. heap.ffh \in Addr \cup {NULL} /\ HeapOK(heap)
    BY DEF IInv, HeapOK, HeapType
  <1>3. /\ call' \in CallType /\ call'.id = id /\ call'.size = n
        /\ call'.need = roundup(n, ALIGNMENT_16) /\ call'.cur = heap.ffh
    BY <1>1, <1>2 DEF NoCall, CallType
  <1>4. CallInProgress'
    BY <1>1, <1>2, <1>3, SearchStart DEF CallInProgress
  <1>. QED BY <1>3, <1>4, LocalStep DEF CallType

LEMMA ReallocGrowIInv ==
    ASSUME IInv, NEW id \in Ids, NEW n \in Requests, ReallocGrow(id, n)
    PROVE  IInv'
  <1>. USE DEF ReallocGrow
  <1>. DEFINE p == live[id].ptr - 1
  <1>1. n \in Nat /\ n > 0 /\ roundup(n, ALIGNMENT_16) \in Nat
    BY HeapAssumption, RoundupFacts
  <1>2. /\ p \in UsedHdrs(heap) /\ p \in heap.hdrs /\ live[id].size <= SizeAt(heap, p)
        /\ live[id].size \in Nat
    BY IdleFacts, HeldFacts
  <1>3. p \in Addr /\ SizeAt(heap, p) \in Nat /\ SizeAt(heap, p) % 8 = 0
    <2>1. p \in Addr /\ SizeAt(heap, p) \in Int /\ SizeAt(heap, p) >= 16 /\ heap.mem[p] \in Int
      BY <1>2, IdleFacts, HeaderFacts DEF HeapOK
    <2>2. SizeAt(heap, p) % 8 = 0
      BY <2>1, WordFacts DEF SizeAt
    <2>. QED BY <2>1, <2>2
  <1>4. Min({n, live[id].size}) \in Nat
    BY <1>1, <1>2, MinFacts
  <1>5. /\ call' \in CallType /\ call'.id = id /\ call'.size = n
        /\ call'.need = roundup(n, ALIGNMENT_16) /\ call'.cur = p
        /\ call'.old_size = SizeAt(heap, p) /\ call'.keep = Min({n, live[id].size})
    BY <1>1, <1>3, <1>4 DEF CallType
  <1>6. call'.need > SizeAt(heap, p) /\ pc' = "absorb" /\ heap' = heap /\ live' = live
    BY <1>5
  <1>. HIDE DEF ReallocGrow
  <1>7. CallInProgress'
    <2>1. /\ SizeAt(heap, p) < call'.need /\ call'.old_size <= SizeAt(heap, p)
          /\ call'.old_size % HEADER_SIZE = 0
      BY <1>1, <1>3, <1>5, <1>6 DEF HEADER_SIZE
    <2>2. live[id].ptr # NULL
      BY DEF ReallocGrow
    <2>. QED BY <1>1, <1>2, <1>5, <1>6, <2>1, <2>2 DEF CallInProgress
  <1>. QED BY <1>5, <1>6, <1>7, LocalStep DEF CallType, ReallocGrow

LEMMA AbsorbEndIInv ==
    ASSUME IInv, AbsorbEnd
    PROVE  IInv'
  <1>. USE DEF AbsorbEnd
  <1>1. call \in CallType /\ heap.ffh \in Addr \cup {NULL} /\ HeapOK(heap)
    BY CallFacts DEF HeapOK, HeapType
  <1>2. CASE call.need > MaxRequest
    <2>1. call' \in CallType
      BY <1>2 DEF NoCall, CallType
    <2>2. CallInProgress'
      BY <1>2 DEF CallInProgress
    <2>. QED BY <1>2, <2>1, <2>2, LocalStep DEF CallType
  <1>3. CASE ~(call.need > MaxRequest)
    <2>1. /\ call' \in CallType /\ call'.cur = heap.ffh /\ pc' = "find"
          /\ call'.id = call.id /\ call'.size = call.size /\ call'.need = call.need
          /\ call'.old_size = call.old_size /\ call'.keep = call.keep
      BY <1>1, <1>3 DEF CallType
    <2>2. CallInProgress'
      <3>1. ~can_col(heap, live[call.id].ptr - 1)
        BY DEF IInv, CallInProgress
      <3>2. CallInProgress
        BY DEF IInv
      <3>. QED BY <1>1, <2>1, <3>1, <3>2, SearchStart DEF CallInProgress
    <2>. QED BY <2>1, <2>2, LocalStep DEF CallType
  <1>. QED BY <1>2, <1>3

LEMMA FindNextIInv ==
    ASSUME IInv, FindNext
    PROVE  IInv'
  <1>. USE DEF FindNext
  <1>. DEFINE L == heap.flist
  <1>1. /\ L \in Seq(Addr) /\ Range(L) = FreeHdrs(heap) /\ Len(L) \in Nat
        /\ call \in CallType /\ heap.mem \in [Addr -> Int]
    BY CallFacts DEF HeapOK, HeapType
  <1>2. PICK k \in 1 .. (Len(L) + 1) :
           /\ call.cur = IF k = Len(L) + 1 THEN NULL ELSE L[k]
           /\ \A i \in 1 .. (k - 1) : SizeAt(heap, L[i]) < call.need
    BY DEF IInv, CallInProgress
  <1>3. k \in 1 .. Len(L) /\ call.cur = L[k]
    <2>. HIDE DEF L
    <2>. QED BY <1>1, <1>2
  <1>4. heap.mem[call.cur + 2] = IF k = Len(L) THEN NULL ELSE L[k + 1]
    BY <1>3, CallFacts DEF HeapOK, Linked
  <1>5. heap.mem[call.cur + 2] \in Addr \cup {NULL}
    <2>1. k # Len(L) => L[k + 1] \in Addr
      BY <1>1, <1>3
    <2>. QED BY <1>4, <2>1
  <1>6. /\ call' \in CallType /\ call'.cur = heap.mem[call.cur + 2]
        /\ call'.id = call.id /\ call'.size = call.size /\ call'.need = call.need
        /\ call'.old_size = call.old_size /\ call'.keep = call.keep
    BY <1>1, <1>5 DEF CallType
  <1>7. \E k2 \in 1 .. (Len(L) + 1) :
           /\ call'.cur = IF k2 = Len(L) + 1 THEN NULL ELSE L[k2]
           /\ \A i \in 1 .. (k2 - 1) : SizeAt(heap, L[i]) < call'.need
    <2>1. SizeAt(heap, L[k]) < call'.need
      BY <1>3, <1>6
    <2>. HIDE DEF L
    <2>2. call'.cur = IF k + 1 = Len(L) + 1 THEN NULL ELSE L[k + 1]
      BY <1>1, <1>3, <1>4, <1>6
    <2>3. \A i \in 1 .. ((k + 1) - 1) : i = k \/ i \in 1 .. (k - 1)
      BY <1>3
    <2>4. k + 1 \in 1 .. (Len(L) + 1)
      BY <1>1, <1>3
    <2>. QED BY <1>2, <1>6, <2>1, <2>2, <2>3, <2>4
  <1>8. CallInProgress'
    BY <1>6, <1>7 DEF CallInProgress, IInv
  <1>. QED BY <1>6, <1>8, LocalStep DEF CallType

LEMMA FindFailIInv ==
    ASSUME IInv, FindFail
    PROVE  IInv'
  <1>1. call' \in CallType
    BY DEF FindFail, NoCall, CallType
  <1>2. CallInProgress'
    BY DEF FindFail, CallInProgress
  <1>3. UNCHANGED <<heap, live>> /\ pc # "fill" /\ pc' \in {"idle", "find", "absorb", "crashed"}
    BY DEF FindFail
  <1>. QED BY <1>1, <1>2, <1>3, LocalStep DEF CallType

LEMMA MallocFitIInv ==
    ASSUME IInv, MallocFit
    PROVE  IInv'
  <1>. DEFINE id == call.id  p == call.cur  n == call.need
  <1>1. /\ pc = "find" /\ p # NULL /\ SizeAt(heap, p) >= n /\ live[id].ptr = NULL
        /\ heap' = place(heap, p, n)
        /\ Return(id, p + 1, call.size, 0)
    BY DEF MallocFit, Fits
  <1>2. p \in FreeHdrs(heap) /\ HeapOK(heap) /\ id \in Ids
    BY <1>1, SearchFacts, CallFacts
  <1>3. p \in heap.hdrs /\ live[id].ptr - 1 \notin UsedHdrs(heap)
    BY <1>1, <1>2, CallFacts, HeldFacts DEF FreeHdrs, UsedHdrs
  <1>4. /\ p \in Int /\ p + 1 \in Addr /\ (p + 1) - 1 = p /\ SizeAt(heap, p) \in Int
    BY <1>2, <1>3, HeaderFacts DEF HeapOK
  <1>5. n \in Nat /\ n % 8 = 0 /\ n >= 16 /\ n <= SizeAt(heap, p) /\ n >= call.size
        /\ call.size \in Nat
    BY <1>1, <1>4, CallFacts
  <1>6. /\ HeapOK(heap') /\ Handover(heap, heap', live[id].ptr - 1, {p})
        /\ SizeAt(heap', p) >= n /\ UsedHdrs(heap') = UsedHdrs(heap) \cup {p}
    BY <1>1, <1>2, <1>3, <1>5, PlaceHandover, ZenonT(60)
  <1>7. SizeAt(heap', p) \in Int
    <2>1. p \in heap'.hdrs
      BY <1>6 DEF UsedHdrs
    <2>. QED BY <1>6, <2>1, HeaderFacts DEF HeapOK
  <1>8. call.size <= SizeAt(heap', p)
    BY <1>5, <1>6, <1>7
  <1>9. 0 .. (Words(0) - 1) = {}
    BY WordsFacts
  <1>. HIDE DEF id, p, n
  <1>10. /\ pc # "fill" /\ Handover(heap, heap', live[id].ptr - 1, {(p + 1) - 1})
         /\ call.size <= SizeAt(heap', (p + 1) - 1)
         /\ 0 \in Nat /\ 0 <= call.size
         /\ \A k \in 0 .. (Words(0) - 1) : heap'.mem[(p + 1) + k] = Fill[id]
    BY <1>1, <1>4, <1>5, <1>6, <1>8, <1>9
  <1>. QED BY <1>1, <1>2, <1>4, <1>5, <1>6, <1>10, ReturnStep

LEMMA ReallocMoveIInv ==
    ASSUME IInv, ReallocMove
    PROVE  IInv'
  <1>. DEFINE id == call.id  p == call.cur  n == call.need
              old == live[id].ptr - 1
  <1>1. /\ pc = "find" /\ p # NULL /\ SizeAt(heap, p) >= n /\ live[id].ptr # NULL
        /\ heap' = myfree(memcpy(place(heap, p, n), p + 1, live[id].ptr, call.old_size),
                          live[id].ptr)
        /\ Return(id, p + 1, call.size, call.keep)
    BY DEF ReallocMove, Fits
  <1>2. p \in FreeHdrs(heap) /\ HeapOK(heap) /\ id \in Ids
    BY <1>1, SearchFacts, CallFacts
  <1>3. p \in heap.hdrs
    BY <1>2 DEF FreeHdrs
  <1>4. /\ p \in Int /\ p + 1 \in Addr /\ (p + 1) - 1 = p /\ SizeAt(heap, p) \in Int
    BY <1>2, <1>3, HeaderFacts DEF HeapOK
  <1>5. n \in Nat /\ n % 8 = 0 /\ n >= 16 /\ n <= SizeAt(heap, p) /\ n >= call.size
        /\ call.size \in Nat /\ call.keep \in Nat
    BY <1>1, <1>4, CallFacts
  <1>6. /\ old \in UsedHdrs(heap) /\ live[id].ptr = old + 1
        /\ SizeAt(heap, old) \in Int /\ SizeAt(heap, old) < n
        /\ call.old_size \in Nat /\ call.old_size <= SizeAt(heap, old)
        /\ call.keep <= call.size
        /\ Words(call.keep) <= Words(call.old_size)
        /\ \A k \in 0 .. (Words(call.keep) - 1) : heap.mem[old + 1 + k] = Fill[id]
    BY <1>1, OwnerFacts
  <1>. HIDE DEF id, p, n, old
  <1>7. call.old_size <= n
    BY <1>5, <1>6
  <1>8. heap' = myfree(memcpy(place(heap, p, n), p + 1, old + 1, call.old_size), old + 1)
    BY <1>1, <1>6
  <1>9. /\ HeapOK(heap') /\ Handover(heap, heap', old, {p}) /\ SizeAt(heap', p) >= n
        /\ \A k \in 0 .. (Words(call.old_size) - 1) :
              heap'.mem[p + 1 + k] = heap.mem[old + 1 + k]
    BY <1>2, <1>5, <1>6, <1>7, <1>8, MoveHandover
  <1>10. \A k \in 0 .. (Words(call.keep) - 1) : heap'.mem[p + 1 + k] = Fill[id]
    <2>1. Words(call.keep) \in Nat /\ Words(call.old_size) \in Nat
      BY <1>5, <1>6, WordsFacts
    <2>2. \A k \in 0 .. (Words(call.keep) - 1) : k \in 0 .. (Words(call.old_size) - 1)
      BY <1>6, <2>1
    <2>. QED BY <1>6, <1>9, <2>2
  <1>11. call.size <= SizeAt(heap', p)
    <2>1. p \in heap'.hdrs
      BY <1>9 DEF UsedHdrs, Handover
    <2>2. SizeAt(heap', p) \in Int
      BY <1>9, <2>1, HeaderFacts DEF HeapOK
    <2>. QED BY <1>5, <1>9, <2>2
  <1>12. pc # "fill" /\ Handover(heap, heap', live[id].ptr - 1, {(p + 1) - 1})
    BY <1>1, <1>4, <1>9 DEF old
  <1>. QED BY <1>1, <1>2, <1>4, <1>5, <1>6, <1>9, <1>10, <1>11, <1>12, ReturnStep

LEMMA ReallocInPlaceIInv ==
    ASSUME IInv, NEW id \in Ids, NEW n \in Requests, ReallocInPlace(id, n)
    PROVE  IInv'
  <1>. DEFINE p == live[id].ptr - 1  need == roundup(n, ALIGNMENT_16)
              keep == Min({n, live[id].size})
  <1>1. /\ pc = "idle" /\ live[id].ptr # NULL /\ n > 0 /\ need <= SizeAt(heap, p)
        /\ heap' = fit_in_place(heap, p, need)
        /\ Return(id, live[id].ptr, n, keep)
    BY DEF ReallocInPlace
  <1>2. n \in Nat /\ need \in Nat /\ need % 8 = 0 /\ need >= 16 /\ need >= n
    BY <1>1, HeapAssumption, RoundupFacts
  <1>3. /\ p \in UsedHdrs(heap) /\ p \in heap.hdrs /\ HeapOK(heap)
        /\ live[id].size \in Nat /\ live[id].ptr \in Int /\ live[id].ptr \in Addr
    <2>1. live[id].ptr \in Addr
      BY <1>1, IdleFacts DEF Block
    <2>. QED BY <1>1, <2>1, IdleFacts, HeldFacts
  <1>4. p \in Int /\ live[id].ptr = p + 1
    BY <1>3
  <1>5. /\ keep \in Nat /\ keep <= n /\ keep <= live[id].size
    BY <1>2, <1>3, MinFacts
  <1>6. \A k \in 0 .. (Words(live[id].size) - 1) : heap.mem[live[id].ptr + k] = Fill[id]
    BY <1>1 DEF IInv, PayloadIntact
  <1>. HIDE DEF p, need, keep
  <1>7. /\ HeapOK(heap') /\ Handover(heap, heap', p, {p}) /\ SizeAt(heap', p) >= need
        /\ \A a \in (p + 1) .. (p + need \div 8) : heap'.mem[a] = heap.mem[a]
    BY <1>1, <1>2, <1>3, FitHandover
  <1>8. n <= SizeAt(heap', p)
    <2>1. p \in heap'.hdrs
      BY <1>7 DEF UsedHdrs, Handover
    <2>2. SizeAt(heap', p) \in Int
      BY <1>7, <2>1, HeaderFacts DEF HeapOK
    <2>. QED BY <1>2, <1>7, <2>2
  <1>9. ASSUME NEW k \in 0 .. (Words(keep) - 1) PROVE heap'.mem[live[id].ptr + k] = Fill[id]
    <2>1. Words(keep) \in Nat /\ Words(keep) <= Words(live[id].size)
          /\ Words(live[id].size) \in Nat
      BY <1>3, <1>5, WordsFacts
    <2>2. Words(keep) <= need \div 8
      <3>1. keep <= 8 * (need \div 8) /\ need \div 8 \in Int
        BY <1>2, <1>5
      <3>. QED BY <1>5, <3>1, WordsFacts
    <2>3. k \in 0 .. (Words(live[id].size) - 1)
      BY <2>1
    <2>4. p + 1 + k \in (p + 1) .. (p + need \div 8)
      <3>. DEFINE q == need \div 8
      <3>1. q \in Int /\ Words(keep) <= q
        BY <1>2, <2>2
      <3>. HIDE DEF q
      <3>2. p + 1 + k \in (p + 1) .. (p + q)
        BY <1>4, <2>1, <3>1
      <3>. QED BY <3>2 DEF q
    <2>. QED BY <1>4, <1>6, <1>7, <2>3, <2>4
  <1>10. Handover(heap, heap', live[id].ptr - 1, {live[id].ptr - 1})
         /\ n <= SizeAt(heap', live[id].ptr - 1)
    BY <1>7, <1>8 DEF p
  <1>. QED BY <1>1, <1>2, <1>3, <1>5, <1>7, <1>9, <1>10, ReturnStep

\* Two handovers of one block.
LEMMA HandoverTrans ==
    ASSUME NEW h, NEW g, NEW f, NEW p \in UsedHdrs(h),
           Handover(h, g, p, {p}), Handover(g, f, p, {p})
    PROVE  Handover(h, f, p, {p})
  <1>1. UsedHdrs(g) = UsedHdrs(h) /\ UsedHdrs(f) = UsedHdrs(h)
    BY DEF Handover
  <1>2. \A u \in UsedHdrs(h) \ {p} : Kept(h, f, u)
    BY <1>1, KeptTrans DEF Handover
  <1>. QED BY <1>1, <1>2 DEF Handover

\* A step that changes the heap inside the block of id, and no block's owner.
LEMMA SameOwner ==
    ASSUME IInv, NEW id \in Ids, live[id].ptr # NULL,
           NEW p, p = live[id].ptr - 1,
           HeapOK(heap'), Handover(heap, heap', p, {p}),
           live' = live, live[id].size <= SizeAt(heap', p)
    PROVE  /\ LiveBlocks'
           /\ \A j \in Ids \ {id} : \A k \in 0 .. (Words(live[j].size) - 1) :
                 heap'.mem[live[j].ptr + k] = heap.mem[live[j].ptr + k]
  <1>1. /\ live \in LiveType /\ HeapOK(heap) /\ Owned(heap, live)
        /\ live[id] \in Block
    BY IdleFacts
  <1>. DEFINE b == live[id]
  <1>2. NewHeader(b) = {p} /\ b.ptr # NULL
    BY DEF NewHeader
  <1>3. live' = [live EXCEPT ![id] = b]
    BY <1>1 DEF LiveType
  <1>4. /\ Assigns(live, live', id, b)
        /\ Handover(heap, heap', live[id].ptr - 1, NewHeader(b))
        /\ b.ptr # NULL => b.size <= SizeAt(heap', b.ptr - 1)
    BY <1>2, <1>3 DEF Assigns
  <1>. HIDE DEF b
  <1>. Sound(heap)
    BY <1>1, HeapSound
  <1>5. /\ Owned(heap', live')
        /\ \A j \in Ids \ {id} : \A k \in 0 .. (Words(live[j].size) - 1) :
              heap'.mem[live[j].ptr + k] = heap.mem[live[j].ptr + k]
    BY <1>1, <1>2, <1>4, SoundChange DEF b
  <1>. QED BY <1>5 DEF LiveBlocks

LEMMA AbsorbIInv ==
    ASSUME IInv, Absorb
    PROVE  IInv'
  <1>. DEFINE id == call.id  p == call.cur  n == call.need
              grown == col_r(heap, p)
  <1>1. /\ pc = "absorb" /\ can_col(heap, p) /\ live[id].ptr # NULL
        /\ p = live[id].ptr - 1
    BY DEF Absorb, IInv, CallInProgress
  <1>2. /\ id \in Ids /\ HeapOK(heap) /\ live \in LiveType /\ Owned(heap, live)
        /\ call \in CallType /\ call.size \in Nat /\ call.size > 0 /\ call.keep \in Nat
        /\ n = roundup(call.size, ALIGNMENT_16)
        /\ n \in Nat /\ n >= call.size /\ n % 8 = 0 /\ n >= 16
    BY <1>1, CallFacts
  <1>3. /\ p \in UsedHdrs(heap) /\ p \in Int /\ live[id].ptr = p + 1
        /\ SizeAt(heap, p) \in Int /\ SizeAt(heap, p) < n
        /\ call.old_size \in Nat /\ call.old_size <= SizeAt(heap, p)
        /\ call.keep <= call.size
        /\ live[id].size <= call.old_size /\ live[id].size \in Nat
        /\ Words(call.keep) <= Words(live[id].size)
        /\ p + 1 + Words(live[id].size) <= NextOf(heap, p)
        /\ \A k \in 0 .. (Words(call.keep) - 1) : heap.mem[p + 1 + k] = Fill[id]
    BY <1>1, OwnerFacts
  <1>4. /\ HeapOK(grown) /\ Handover(heap, grown, p, {p})
        /\ SizeAt(grown, p) > SizeAt(heap, p)
        /\ \A a \in (p + 1) .. (NextOf(heap, p) - 1) : grown.mem[a] = heap.mem[a]
    BY <1>1, <1>2, <1>3, GrowHandover
  <1>5. p \in UsedHdrs(grown) /\ SizeAt(grown, p) \in Int
    <2>1. p \in UsedHdrs(grown) /\ p \in grown.hdrs
      BY <1>4 DEF Handover, UsedHdrs
    <2>. QED BY <1>4, <2>1, HeaderFacts DEF HeapOK
  <1>6. Words(live[id].size) \in Nat /\ Words(call.keep) \in Nat /\ NextOf(heap, p) \in Int
    <2>1. p \in heap.hdrs
      BY <1>3 DEF UsedHdrs
    <2>. QED BY <1>2, <1>3, <2>1, WordsFacts, HeaderFacts DEF HeapOK
  <1>7. \A k \in 0 .. (Words(live[id].size) - 1) : grown.mem[p + 1 + k] = heap.mem[p + 1 + k]
    <2>1. ASSUME NEW k \in 0 .. (Words(live[id].size) - 1)
          PROVE  p + 1 + k \in (p + 1) .. (NextOf(heap, p) - 1)
      BY <1>3, <1>6
    <2>. QED BY <1>4, <2>1
  <1>8. CASE n > SizeAt(grown, p)
    <2>1. heap' = grown /\ UNCHANGED <<live, pc, call>>
      BY <1>5, <1>8, <1>2 DEF Absorb
    <2>2. live[id].size <= SizeAt(grown, p) /\ call.old_size <= SizeAt(grown, p)
      BY <1>3, <1>4, <1>5
    <2>. HIDE DEF grown
    <2>3. /\ LiveBlocks'
          /\ \A j \in Ids \ {id} : \A k \in 0 .. (Words(live[j].size) - 1) :
                heap'.mem[live[j].ptr + k] = heap.mem[live[j].ptr + k]
      BY <1>1, <1>2, <1>4, <2>1, <2>2, SameOwner
    <2>4. \A k \in 0 .. (Words(live[id].size) - 1) :
             heap'.mem[live[id].ptr + k] = heap.mem[live[id].ptr + k]
      BY <1>3, <1>7, <2>1
    <2>5. PayloadIntact'
      <3>1. ASSUME NEW j \in Ids, NEW k \in 0 .. (Words(live[j].size) - 1)
            PROVE  heap'.mem[live[j].ptr + k] = Fill[j]
        <4>1. heap.mem[live[j].ptr + k] = Fill[j]
          BY <1>1 DEF IInv, PayloadIntact
        <4>. QED BY <2>3, <2>4, <4>1
      <3>. QED BY <1>1, <2>1, <3>1 DEF PayloadIntact
    <2>6. TypeOK'
      BY <1>4, <2>1 DEF IInv, TypeOK, HeapOK
    <2>7. CallInProgress'
      <3>1. SizeAt(heap', live'[call'.id].ptr - 1) < call'.need
            /\ call'.old_size <= SizeAt(heap', live'[call'.id].ptr - 1)
        BY <1>1, <1>8, <2>1, <2>2
      <3>. QED BY <1>1, <2>1, <3>1 DEF IInv, CallInProgress
    <2>. QED BY <1>4, <2>1, <2>3, <2>5, <2>6, <2>7 DEF IInv
  <1>9. CASE n <= SizeAt(grown, p)
    <2>1. /\ heap' = fit_in_place(grown, p, n)
          /\ Return(id, p + 1, call.size, call.keep)
      BY <1>5, <1>9, <1>2 DEF Absorb
    <2>. HIDE DEF grown
    <2>2. /\ HeapOK(heap') /\ Handover(grown, heap', p, {p}) /\ SizeAt(heap', p) >= n
          /\ \A a \in (p + 1) .. (p + n \div 8) : heap'.mem[a] = grown.mem[a]
      BY <1>2, <1>4, <1>5, <1>9, <2>1, FitHandover
    <2>3. Handover(heap, heap', p, {p})
      BY <1>3, <1>4, <2>2, HandoverTrans
    <2>4. call.size <= SizeAt(heap', p)
      <3>1. p \in heap'.hdrs
        BY <2>2 DEF UsedHdrs, Handover
      <3>2. SizeAt(heap', p) \in Int
        BY <2>2, <3>1, HeaderFacts DEF HeapOK
      <3>. QED BY <1>2, <2>2, <3>2
    <2>5. ASSUME NEW k \in 0 .. (Words(call.keep) - 1)
          PROVE  heap'.mem[(p + 1) + k] = Fill[id]
      <3>1. Words(call.keep) <= n \div 8
        <4>1. call.keep <= 8 * (n \div 8) /\ n \div 8 \in Int
          BY <1>2, <1>3
        <4>. QED BY <1>2, <4>1, WordsFacts
      <3>2. k \in 0 .. (Words(live[id].size) - 1)
        BY <1>3, <1>6
      <3>3. p + 1 + k \in (p + 1) .. (p + n \div 8)
        <4>. DEFINE q == n \div 8
        <4>1. q \in Int /\ Words(call.keep) <= q
          BY <1>2, <3>1
        <4>. HIDE DEF q
        <4>2. p + 1 + k \in (p + 1) .. (p + q)
          BY <1>3, <1>6, <4>1
        <4>. QED BY <4>2 DEF q
      <3>. QED BY <1>3, <1>7, <2>2, <3>2, <3>3
    <2>6. p + 1 \in Addr /\ (p + 1) - 1 = p
      <3>1. p \in heap.hdrs
        BY <1>3 DEF UsedHdrs
      <3>. QED BY <1>2, <1>3, <3>1, HeaderFacts DEF HeapOK
    <2>7. /\ pc # "fill" /\ Handover(heap, heap', live[id].ptr - 1, {(p + 1) - 1})
          /\ call.size <= SizeAt(heap', (p + 1) - 1)
      BY <1>1, <2>3, <2>4, <2>6
    <2>. HIDE DEF id, p, n
    <2>. QED BY <1>2, <1>3, <2>1, <2>2, <2>5, <2>6, <2>7, ReturnStep
  <1>. QED BY <1>2, <1>5, <1>8, <1>9

LEMMA FreeIInv ==
    ASSUME IInv, NEW id \in Ids, Free(id)
    PROVE  IInv'
  <1>. DEFINE ptr == live[id].ptr  p == ptr - 1
  <1>1. /\ pc = "idle" /\ heap' = myfree(heap, ptr)
        /\ live' = [live EXCEPT ![id] = NoBlock] /\ pc' = pc /\ call' = call
    BY DEF Free
  <1>2. /\ live \in LiveType /\ HeapOK(heap) /\ Owned(heap, live) /\ ptr \in Int
    BY IdleFacts, HeldFacts
  <1>3. NoBlock \in Block /\ NoBlock.ptr = NULL /\ NoBlock.size = 0 /\ NewHeader(NoBlock) = {}
    BY DEF NoBlock, Block, NewHeader
  <1>4. HeapOK(heap') /\ Handover(heap, heap', p, {})
    <2>1. CASE ptr = NULL
      <3>1. heap' = heap /\ p \notin UsedHdrs(heap)
        BY <1>1, <1>2, <2>1, HeldFacts DEF myfree, UsedHdrs
      <3>2. \A u \in UsedHdrs(heap) : Kept(heap, heap', u)
        BY <3>1 DEF Kept
      <3>. QED BY <1>2, <3>1, <3>2 DEF Handover
    <2>2. CASE ptr # NULL
      <3>1. p \in UsedHdrs(heap)
        BY <1>2, <2>2, HeldFacts
      <3>. QED BY <1>1, <1>2, <2>2, <3>1, FreeHandover
    <2>. QED BY <2>1, <2>2
  <1>5. /\ Assigns(live, live', id, NoBlock)
        /\ Handover(heap, heap', live[id].ptr - 1, NewHeader(NoBlock))
    BY <1>1, <1>3, <1>4 DEF Assigns
  <1>6. /\ live' \in LiveType /\ Owned(heap', live')
        /\ \A j \in Ids \ {id} :
              /\ live'[j] = live[j]
              /\ \A k \in 0 .. (Words(live[j].size) - 1) :
                    heap'.mem[live[j].ptr + k] = heap.mem[live[j].ptr + k]
    <2>1. /\ NoBlock.ptr = NULL => NoBlock.size = 0
          /\ NoBlock.ptr # NULL => NoBlock.size <= SizeAt(heap', NoBlock.ptr - 1)
      BY <1>3
    <2>2. NoBlock \in Block
      BY <1>3
    <2>. Sound(heap)
      BY <1>2, HeapSound
    <2>. DEFINE b == NoBlock
    <2>. HIDE DEF b, ptr, p
    <2>. QED BY <1>2, <1>4, <1>5, <2>1, <2>2, SoundChange
  <1>7. TypeOK'
    BY <1>1, <1>4, <1>6 DEF IInv, TypeOK, HeapOK, LiveType, Block
  <1>8. CallInProgress'
    BY <1>1 DEF IInv, CallInProgress
  <1>9. PayloadIntact'
    <2>1. live'[id].size = 0 /\ Words(0) = 0
      BY <1>1, <1>2, <1>3, WordsFacts DEF LiveType
    <2>2. ASSUME NEW j \in Ids \ {id}
          PROVE  \A k \in 0 .. (Words(live'[j].size) - 1) :
                    heap'.mem[live'[j].ptr + k] = Fill[j]
      <3>1. \A k \in 0 .. (Words(live[j].size) - 1) : heap.mem[live[j].ptr + k] = Fill[j]
        BY <1>1 DEF IInv, PayloadIntact
      <3>. QED BY <1>6, <3>1
    <2>. QED BY <1>1, <2>1, <2>2 DEF PayloadIntact
  <1>. QED BY <1>4, <1>6, <1>7, <1>8, <1>9 DEF IInv, LiveBlocks

LEMMA ClientFillIInv ==
    ASSUME IInv, ClientFill
    PROVE  IInv'
  <1>. DEFINE id == call.id  ptr == live[id].ptr  p == ptr - 1  n == live[id].size
  <1>1. /\ pc = "fill" /\ heap' = memset(heap, ptr, Fill[id], n)
        /\ pc' = "idle" /\ call' = NoCall /\ live' = live
    BY DEF ClientFill
  <1>2. id \in Ids /\ ptr # NULL
    BY <1>1 DEF IInv, CallInProgress
  <1>3. /\ live \in LiveType /\ HeapOK(heap) /\ Owned(heap, live)
        /\ ptr \in Int /\ n \in Nat /\ p \in UsedHdrs(heap) /\ n <= SizeAt(heap, p)
        /\ p = ptr - 1
    BY <1>2, IdleFacts, HeldFacts
  <1>4. Fill[id] \in Int
    BY <1>2, HeapAssumption
  <1>. HIDE DEF id, ptr, n, p
  <1>5. /\ HeapOK(heap') /\ Handover(heap, heap', p, {p})
        /\ SizeAt(heap', p) = SizeAt(heap, p)
        /\ \A k \in 0 .. (Words(n) - 1) : heap'.mem[ptr + k] = Fill[id]
    <2>. DEFINE w == Fill[id]
    <2>1. w \in Int /\ Fills(heap, heap', p, w, n) /\ ptr = p + 1
      <3>1. ptr = p + 1
        BY <1>3
      <3>. QED BY <1>1, <1>4, <3>1 DEF Fills
    <2>. HIDE DEF w
    <2>2. /\ HeapOK(heap') /\ Handover(heap, heap', p, {p})
          /\ SizeAt(heap', p) = SizeAt(heap, p)
          /\ Holds(heap', p, w, n)
      BY <1>3, <2>1, FillHandover
    <2>3. \A k \in 0 .. (Words(n) - 1) : ptr + k \in (p + 1) .. (p + Words(n))
      BY <1>3, <2>1, WordsFacts
    <2>. QED BY <2>1, <2>2, <2>3 DEF w, Holds
  <1>6. /\ LiveBlocks'
        /\ \A j \in Ids \ {id} : \A k \in 0 .. (Words(live[j].size) - 1) :
              heap'.mem[live[j].ptr + k] = heap.mem[live[j].ptr + k]
    <2>1. live[id].ptr # NULL /\ p = live[id].ptr - 1 /\ live[id].size <= SizeAt(heap', p)
      BY <1>2, <1>3, <1>5 DEF p, ptr, n
    <2>. QED BY <1>1, <1>2, <1>5, <2>1, SameOwner
  <1>7. TypeOK'
    <2>1. call' \in CallType
      BY <1>1 DEF NoCall, CallType
    <2>. QED BY <1>1, <1>5, <2>1 DEF IInv, TypeOK, HeapOK, CallType
  <1>8. CallInProgress'
    BY <1>1 DEF CallInProgress
  <1>9. PayloadIntact'
    <2>1. ASSUME NEW j \in Ids \ {id}
          PROVE  \A k \in 0 .. (Words(live[j].size) - 1) :
                    heap'.mem[live[j].ptr + k] = Fill[j]
      <3>1. \A k \in 0 .. (Words(live[j].size) - 1) : heap.mem[live[j].ptr + k] = Fill[j]
        BY DEF IInv, PayloadIntact, id
      <3>. QED BY <1>6, <3>1
    <2>. QED BY <1>1, <1>2, <1>5, <2>1 DEF PayloadIntact, id, ptr, n
  <1>. QED BY <1>5, <1>6, <1>7, <1>8, <1>9 DEF IInv

LEMMA RestartIInv ==
    ASSUME IInv, Restart
    PROVE  IInv'
  <1>1. /\ pc = "idle" /\ pc' = pc /\ call' = call
        /\ live' = [i \in Ids |-> NoBlock]
    BY DEF Restart
  <1>2. HeapOK(heap') /\ UsedHdrs(heap') = {}
    <2>1. heap.mem \in [Addr -> Int]
      BY DEF IInv, HeapOK, HeapType
    <2>2. PICK m \in {ZeroMem, heap.mem} : heap' = myinit(m)
      BY DEF Restart
    <2>3. m \in [Addr -> Int]
      BY <2>1, <2>2 DEF ZeroMem
    <2>. QED BY <2>2, <2>3, MyInit
  <1>3. \A i \in Ids : live'[i] = NoBlock /\ live'[i].ptr = NULL /\ live'[i].size = 0
    BY <1>1 DEF NoBlock
  <1>4. TypeOK'
    <2>1. live' \in LiveType
      BY <1>1 DEF LiveType, Block, NoBlock
    <2>. QED BY <1>1, <1>2, <2>1 DEF IInv, TypeOK, HeapOK, LiveType, Block
  <1>5. LiveBlocks'
    BY <1>2, <1>3 DEF LiveBlocks, Owned
  <1>6. CallInProgress'
    BY <1>1 DEF CallInProgress
  <1>7. PayloadIntact'
    <2>1. Words(0) = 0
      BY WordsFacts
    <2>. QED BY <1>1, <1>3, <2>1 DEF PayloadIntact
  <1>. QED BY <1>2, <1>4, <1>5, <1>6, <1>7 DEF IInv

LEMMA StutterIInv ==
    ASSUME IInv, UNCHANGED vars
    PROVE  IInv'
  <1>1. heap' = heap /\ live' = live /\ pc' = pc /\ call' = call
    BY DEF vars
  <1>. QED BY <1>1 DEF IInv, TypeOK, LiveBlocks, CallInProgress, PayloadIntact

LEMMA NextIInv == IInv /\ [Next]_vars => IInv'
  <1>. SUFFICES ASSUME IInv, [Next]_vars PROVE IInv'
    OBVIOUS
  <1>1. ASSUME NEW id \in Ids, NEW n \in Requests, Malloc(id, n) PROVE IInv'
    BY <1>1, MallocIInv
  <1>2. ASSUME NEW id \in Ids, NEW n \in Requests, MallocReject(id, n) PROVE IInv'
    BY <1>2, StutterIInv DEF MallocReject
  <1>3. ASSUME NEW id \in Ids, NEW n \in Requests, ReallocInPlace(id, n) PROVE IInv'
    BY <1>3, ReallocInPlaceIInv
  <1>4. ASSUME NEW id \in Ids, NEW n \in Requests, ReallocGrow(id, n) PROVE IInv'
    BY <1>4, ReallocGrowIInv
  <1>5. ASSUME NEW id \in Ids, Free(id) PROVE IInv'
    BY <1>5, FreeIInv
  <1>6. CASE ClientFill
    BY <1>6, ClientFillIInv
  <1>7. CASE Restart
    BY <1>7, RestartIInv
  <1>8. CASE Absorb
    BY <1>8, AbsorbIInv
  <1>9. CASE AbsorbEnd
    BY <1>9, AbsorbEndIInv
  <1>10. CASE FindNext
    BY <1>10, FindNextIInv
  <1>11. CASE MallocFit
    BY <1>11, MallocFitIInv
  <1>12. CASE ReallocMove
    BY <1>12, ReallocMoveIInv
  <1>13. CASE FindFail
    BY <1>13, FindFailIInv
  <1>14. CASE UNCHANGED vars
    BY <1>14, StutterIInv
  <1>. QED BY <1>1, <1>2, <1>3, <1>4, <1>5, <1>6, <1>7, <1>8, <1>9, <1>10, <1>11, <1>12,
              <1>13, <1>14 DEF Next, ClientStep, CallStep

\* Every reachable state satisfies the inductive invariant.
THEOREM Invariance == Spec => []IInv
  BY InitIInv, NextIInv, PTL DEF Spec

-----------------------------------------------------------------------------
(* The safety properties of ExplicitHeap.                                   *)

\* Between any two steps, in the middle of a search or of a resize too, the
\* variables have their types, the used blocks are the client's and the locals
\* mean what they should (mymalloc, myrealloc).
THEOREM StateHolds == Spec => []StateSound
  <1>1. IInv => StateSound
    BY DEF IInv, StateSound
  <1>. QED BY <1>1, Invariance, PTL

\* Whatever sequence of requests, the headers tile the segment, the free list
\* is a sound doubly linked list, and it holds the free blocks and no other.
THEOREM StructureSound == Spec => []HeapStructure
  <1>1. IInv => HeapStructure
    BY DEF IInv, HeapOK, HeapStructure, Tiling, FreeList, FreeBits
  <1>. QED BY <1>1, Invariance, PTL

\* The used blocks are exactly those the client holds, and big enough.
THEOREM BlocksOwned == Spec => []LiveBlocks
  <1>1. IInv => LiveBlocks
    BY DEF IInv
  <1>. QED BY <1>1, Invariance, PTL

\* No call changes a payload word it must keep: what the client wrote is there
\* until the client frees the block or writes it again.
THEOREM PayloadKept == Spec => []PayloadIntact
  <1>1. IInv => PayloadIntact
    BY DEF IInv
  <1>. QED BY <1>1, Invariance, PTL

\* The locals of the searches and of the absorbing loop mean what they should.
THEOREM LocalsSound == Spec => []CallInProgress
  <1>1. IInv => CallInProgress
    BY DEF IInv
  <1>. QED BY <1>1, Invariance, PTL

\* mymalloc reports failure only when no free block would do.
THEOREM SearchComplete == Spec => FailsOnlyIfNoFit
  <1>. DEFINE Failed == pc = "find" /\ pc' \in {"idle", "crashed"}
              AllSmall == \A p \in FreeHdrs(heap) : SizeAt(heap, p) < call.need
  <1>1. IInv /\ [Next]_vars => [Failed => AllSmall]_vars
    <2>. SUFFICES ASSUME IInv, Next, Failed PROVE AllSmall
      OBVIOUS
    <2>1. FindFail
      BY DEF Next, ClientStep, CallStep, Malloc, MallocReject, Free, ReallocInPlace,
             ReallocGrow, Absorb, AbsorbEnd, FindNext, MallocFit, ReallocMove,
             ClientFill, Restart, Return, vars
    <2>. QED BY <2>1, SearchFacts DEF FindFail
  <1>2. IInv /\ [Next]_vars => IInv'
    BY NextIInv
  <1>. QED BY <1>1, <1>2, Invariance, PTL DEF Spec, FailsOnlyIfNoFit

\* myrealloc gives up a block's place only when the block is boxed in.
THEOREM MovesJustified == Spec => MovesOnlyWhenBoxedIn
  <1>. DEFINE Moved(id) == live[id].ptr # NULL /\ live'[id].ptr \notin {NULL, live[id].ptr}
              Boxed(p)  == \/ NextOf(heap, p) = SegEnd
                           \/ Status(heap.mem[NextOf(heap, p)]) = StatusUsed
              Justified == \A id \in Ids :
                  LET p == live[id].ptr - 1
                  IN  Moved(id) => /\ Boxed(p)
                                   /\ SizeAt(heap, p) < roundup(live'[id].size, ALIGNMENT_16)
  <1>1. IInv /\ [Next]_vars => [Justified]_vars
    <2>. SUFFICES ASSUME IInv, Next, NEW id \in Ids, Moved(id)
                  PROVE  /\ Boxed(live[id].ptr - 1)
                         /\ SizeAt(heap, live[id].ptr - 1)
                              < roundup(live'[id].size, ALIGNMENT_16)
      OBVIOUS
    <2>1. live \in LiveType
      BY IdleFacts
    <2>2. ReallocMove /\ id = call.id
      <3>1. ASSUME NEW i \in Ids, NEW ptr, NEW size, NEW keep, Return(i, ptr, size, keep)
            PROVE  live'[i].ptr = ptr /\ (id # i => live'[id] = live[id])
        BY <2>1, <3>1 DEF Return, LiveType
      <3>2. ASSUME NEW i \in Ids, NEW n \in Requests, ReallocInPlace(i, n) PROVE FALSE
        <4>1. Return(i, live[i].ptr, n, Min({n, live[i].size}))
          BY <3>2 DEF ReallocInPlace
        <4>. QED BY <3>1, <4>1
      <3>3. ASSUME Absorb PROVE FALSE
        <4>1. pc = "absorb" /\ call.cur = live[call.id].ptr - 1 /\ call.id \in Ids
          BY <3>3 DEF Absorb, IInv, CallInProgress
        <4>2. live[call.id].ptr \in Int
          BY <2>1, <4>1, IdleFacts, HeldFacts
        <4>3. call.cur + 1 = live[call.id].ptr
          BY <4>1, <4>2
        <4>4. live' = live \/ Return(call.id, call.cur + 1, call.size, call.keep)
          BY <3>3 DEF Absorb
        <4>. QED BY <3>1, <4>1, <4>3, <4>4
      <3>4. ASSUME MallocFit PROVE FALSE
        <4>1. live[call.id].ptr = NULL /\ call.id \in Ids
              /\ Return(call.id, call.cur + 1, call.size, 0)
          BY <3>4, CallFacts DEF MallocFit, Fits
        <4>. QED BY <3>1, <4>1
      <3>5. ASSUME NEW i \in Ids, Free(i) PROVE FALSE
        <4>1. live' = [live EXCEPT ![i] = NoBlock] /\ NoBlock.ptr = NULL
          BY <3>5 DEF Free, NoBlock
        <4>. QED BY <2>1, <4>1 DEF LiveType
      <3>6. ASSUME Restart PROVE FALSE
        BY <3>6 DEF Restart, NoBlock
      <3>7. ReallocMove
        BY <3>2, <3>3, <3>4, <3>5, <3>6
           DEF Next, ClientStep, CallStep, Malloc, MallocReject,
               ReallocGrow, AbsorbEnd, FindNext, FindFail, ClientFill, vars
      <3>8. call.id \in Ids /\ Return(call.id, call.cur + 1, call.size, call.keep)
        BY <3>7, CallFacts DEF ReallocMove, Fits
      <3>. QED BY <3>1, <3>7, <3>8
    <2>3. /\ pc = "find" /\ live'[id].size = call.size
          /\ call.need = roundup(call.size, ALIGNMENT_16)
          /\ SizeAt(heap, live[id].ptr - 1) < call.need
          /\ ~can_col(heap, live[id].ptr - 1)
      <3>1. pc = "find" /\ Return(id, call.cur + 1, call.size, call.keep)
        BY <2>2 DEF ReallocMove, Fits
      <3>2. live'[id].size = call.size
        BY <2>1, <3>1 DEF Return, LiveType
      <3>. QED BY <2>2, <3>1, <3>2 DEF IInv, CallInProgress
    <2>4. live[id].ptr - 1 \in heap.hdrs /\ HeapOK(heap)
      BY IdleFacts, HeldFacts
    <2>5. Boxed(live[id].ptr - 1)
      BY <2>3, <2>4, CanCol DEF UsedHdrs
    <2>. QED BY <2>3, <2>5
  <1>2. IInv /\ [Next]_vars => IInv'
    BY NextIInv
  <1>. QED BY <1>1, <1>2, Invariance, PTL DEF Spec, MovesOnlyWhenBoxedIn

-----------------------------------------------------------------------------
(* ExplicitHeap implements Allocator.  In every state but the one between   *)
(* a call's return and the client's memset a block's words are its fill, so *)
(* the refinement follows from the invariant before and after each step.    *)

WordsOf(h, b) == [k \in 0 .. (Words(b.size) - 1) |-> h.mem[b.ptr + k]]
Data == [i \in Ids |-> WordsOf(heap, live[i])]

LEMMA DataIsFill ==
    ASSUME IInv, NEW j \in Ids, pc # "fill" \/ call.id # j
    PROVE  Data[j] = [k \in 0 .. (Words(live[j].size) - 1) |-> Fill[j]]
  <1>1. \A k \in 0 .. (Words(live[j].size) - 1) : heap.mem[live[j].ptr + k] = Fill[j]
    BY DEF IInv, PayloadIntact
  <1>. QED BY <1>1 DEF Data, WordsOf

\* The client's blocks are inside the segment and apart.
LEMMA PlacedWell ==
    ASSUME NEW h, HeapOK(h), NEW lv \in LiveType, Owned(h, lv)
    PROVE  A!WellPlaced(lv)
  <1>. SUFFICES ASSUME NEW i \in Ids
                PROVE  /\ A!Extent(lv[i]) \subseteq Addr
                       /\ \A j \in Ids \ {i} : A!Extent(lv[i]) \cap A!Extent(lv[j]) = {}
    BY DEF A!WellPlaced
  <1>1. ASSUME NEW j \in Ids, NEW a \in A!Extent(lv[j])
        PROVE  /\ lv[j].ptr # NULL /\ a \in Int /\ a >= lv[j].ptr
               /\ lv[j].ptr - 1 \in h.hdrs /\ lv[j].ptr \in Int
               /\ a < NextOf(h, lv[j].ptr - 1)
    <2>1. lv[j].ptr \in Int /\ lv[j].size \in Nat /\ Words(lv[j].size) \in Nat
      BY HeldFacts
    <2>2. A!Words(lv[j].size) = Words(lv[j].size)
      BY <2>1 DEF A!Words, Words, roundup, HEADER_SIZE
    <2>3. lv[j].ptr # NULL /\ a \in lv[j].ptr .. (lv[j].ptr + Words(lv[j].size) - 1)
      BY <2>2 DEF A!Extent, NULL
    <2>4. /\ lv[j].ptr - 1 \in h.hdrs
          /\ lv[j].ptr + Words(lv[j].size) <= NextOf(h, lv[j].ptr - 1)
      BY <2>3, HeldFacts
    <2>5. NextOf(h, lv[j].ptr - 1) \in Int
      BY <2>4, HeaderFacts DEF HeapOK
    <2>. QED BY <2>1, <2>3, <2>4, <2>5
  <1>2. ASSUME NEW a \in A!Extent(lv[i]) PROVE a \in Addr
    <2>. DEFINE p == lv[i].ptr - 1
    <2>1. p \in Addr /\ NextOf(h, p) <= SegEnd /\ NextOf(h, p) \in Int /\ p \in Int
      BY <1>1, <1>2, HeaderFacts DEF HeapOK
    <2>2. a \in Int /\ a >= p /\ a < NextOf(h, p)
      BY <1>1, <1>2
    <2>. HIDE DEF p
    <2>. QED BY <2>1, <2>2, AddrFacts
  <1>3. ASSUME NEW j \in Ids \ {i}, NEW a \in A!Extent(lv[i]), a \in A!Extent(lv[j])
        PROVE  FALSE
    <2>. DEFINE p == lv[i].ptr - 1  q == lv[j].ptr - 1
    <2>1. /\ p \in h.hdrs /\ q \in h.hdrs /\ a >= p + 1 /\ a >= q + 1
          /\ a < NextOf(h, p) /\ a < NextOf(h, q) /\ a \in Int /\ p \in Int /\ q \in Int
          /\ lv[i].ptr = p + 1 /\ lv[j].ptr = q + 1
          /\ lv[i].ptr # NULL /\ lv[j].ptr # NULL
      <3>1. /\ lv[i].ptr # NULL /\ a \in Int /\ a >= lv[i].ptr /\ p \in h.hdrs
            /\ lv[i].ptr \in Int /\ a < NextOf(h, p)
        BY <1>1, <1>3
      <3>2. /\ lv[j].ptr # NULL /\ a >= lv[j].ptr /\ q \in h.hdrs
            /\ lv[j].ptr \in Int /\ a < NextOf(h, q)
        BY <1>1, <1>3
      <3>3. lv[i].ptr = p + 1 /\ lv[j].ptr = q + 1 /\ p \in Int /\ q \in Int
        BY <3>1, <3>2
      <3>. HIDE DEF p, q
      <3>. QED BY <3>1, <3>2, <3>3
    <2>2. p # q
      BY <1>3, <2>1 DEF Owned
    <2>. HIDE DEF p, q
    <2>3. q >= NextOf(h, p) \/ p >= NextOf(h, q)
      BY <2>1, <2>2, Apart DEF HeapOK
    <2>4. NextOf(h, p) \in Int /\ NextOf(h, q) \in Int
      BY <2>1, HeaderFacts DEF HeapOK
    <2>. QED BY <2>1, <2>3, <2>4
  <1>. QED BY <1>2, <1>3

\* A step for id alone.
LEMMA OthersSame ==
    ASSUME IInv, IInv', NEW id \in Ids,
           pc # "fill" \/ call.id = id, pc' # "fill" \/ call'.id = id,
           \A j \in Ids \ {id} : live'[j] = live[j]
    PROVE  A!OnlyFor(id)
  <1>1. ASSUME NEW j \in Ids \ {id} PROVE Data'[j] = Data[j]
    <2>1. Data[j] = [k \in 0 .. (Words(live[j].size) - 1) |-> Fill[j]]
      BY DataIsFill
    <2>2. \A k \in 0 .. (Words(live'[j].size) - 1) : heap'.mem[live'[j].ptr + k] = Fill[j]
      BY DEF IInv, PayloadIntact
    <2>3. Data'[j] = [k \in 0 .. (Words(live'[j].size) - 1) |-> Fill[j]]
      BY <2>2 DEF Data, WordsOf
    <2>. QED BY <2>1, <2>3
  <1>. QED BY <1>1 DEF A!OnlyFor, Data, WordsOf

\* A step that returns a block: a resize keeps the first words.
LEMMA ReturnRefines ==
    ASSUME IInv, IInv', pc # "fill", NEW id \in Ids, NEW ptr, NEW size \in Nat, NEW keep,
           ptr # NULL, Return(id, ptr, size, keep),
           live[id].ptr # NULL => keep = Min({size, live[id].size})
    PROVE  A!Next
  <1>1. /\ live \in LiveType /\ pc' = "fill" /\ call'.id = id /\ call'.keep = keep
        /\ live'[id].ptr = ptr /\ live'[id].size = size
        /\ \A j \in Ids \ {id} : live'[j] = live[j]
    BY IdleFacts DEF Return, LiveType, NoCall
  <1>2. A!OnlyFor(id)
    BY <1>1, OthersSame
  <1>3. A!WellPlaced(live')
    <2>1. HeapOK(heap') /\ live' \in LiveType /\ Owned(heap', live')
      BY DEF IInv, LiveBlocks, TypeOK, LiveType, Block
    <2>. QED BY <2>1, PlacedWell
  <1>4. CASE live[id].ptr = NULL
    BY <1>1, <1>2, <1>3, <1>4 DEF A!Next, A!Allocate, NULL
  <1>5. CASE live[id].ptr # NULL
    <2>. DEFINE old == live[id].size
    <2>1. old \in Nat
      BY IdleFacts DEF Block
    <2>2. keep \in Nat /\ (keep = size \/ keep = old)
      BY <1>5, <2>1, MinFacts
    <2>3. A!Span(live[id]) = 0 .. (Words(old) - 1) /\ A!Span(live'[id]) = 0 .. (Words(size) - 1)
      BY <1>1, <2>1 DEF A!Span, A!Words, Words, roundup, HEADER_SIZE
    <2>4. ASSUME NEW k \in A!Span(live[id]) \cap A!Span(live'[id])
          PROVE  Data'[id][k] = Data[id][k]
      <3>1. k \in 0 .. (Words(old) - 1) /\ k \in 0 .. (Words(size) - 1)
        BY <2>3, <2>4
      <3>2. k \in 0 .. (Words(keep) - 1)
        BY <2>2, <3>1
      <3>3. heap'.mem[ptr + k] = Fill[id]
        BY <1>1, <3>2 DEF IInv, PayloadIntact
      <3>4. heap.mem[live[id].ptr + k] = Fill[id]
        BY <3>1 DEF IInv, PayloadIntact
      <3>. QED BY <1>1, <3>1, <3>3, <3>4 DEF Data, WordsOf
    <2>5. A!Resize(id)
      BY <1>1, <1>2, <1>3, <1>5, <2>4 DEF A!Resize, Data, WordsOf, NULL
    <2>. QED BY <2>5 DEF A!Next
  <1>. QED BY <1>4, <1>5

LEMMA NextRefines ==
    ASSUME IInv, IInv', [Next]_vars
    PROVE  [A!Next]_(A!bvars)
  <1>. USE DEF A!bvars
  <1>1. live \in LiveType
    BY DEF IInv, TypeOK, LiveType, Block
  <1>2. ASSUME UNCHANGED <<heap, live>> PROVE UNCHANGED A!bvars
    BY <1>2
  <1>3. ASSUME NEW id \in Ids, NEW n \in Requests,
               \/ Malloc(id, n) \/ MallocReject(id, n) \/ ReallocGrow(id, n)
        PROVE  UNCHANGED A!bvars
    BY <1>2, <1>3 DEF Malloc, MallocReject, ReallocGrow, vars
  <1>4. ASSUME AbsorbEnd \/ FindNext \/ FindFail PROVE UNCHANGED A!bvars
    BY <1>2, <1>4 DEF AbsorbEnd, FindNext, FindFail
  <1>5. ASSUME NEW id \in Ids, NEW n \in Requests, ReallocInPlace(id, n)
        PROVE  A!Next
    <2>1. /\ pc # "fill" /\ live[id].ptr # NULL
          /\ Return(id, live[id].ptr, n, Min({n, live[id].size}))
      BY <1>5 DEF ReallocInPlace
    <2>2. n \in Nat
      BY HeapAssumption
    <2>. QED BY <2>1, <2>2, ReturnRefines
  <1>6. ASSUME NEW id \in Ids, Free(id) PROVE A!Next \/ UNCHANGED A!bvars
    <2>1. /\ live' = [live EXCEPT ![id] = NoBlock] /\ pc = "idle" /\ pc' = "idle"
          /\ heap' = myfree(heap, live[id].ptr)
      BY <1>6 DEF Free
    <2>2. CASE live[id].ptr = NULL
      <3>1. live[id] = NoBlock
        BY <2>2, IdleFacts, HeldFacts
      <3>2. live' = live /\ heap' = heap
        BY <1>1, <2>1, <2>2, <3>1 DEF LiveType, myfree
      <3>. QED BY <1>2, <3>2
    <2>3. CASE live[id].ptr # NULL
      <3>1. live'[id] = NoBlock /\ \A j \in Ids \ {id} : live'[j] = live[j]
        BY <1>1, <2>1 DEF LiveType
      <3>2. A!OnlyFor(id)
        BY <2>1, <3>1, OthersSame
      <3>3. A!Release(id)
        BY <2>3, <3>1, <3>2 DEF A!Release, A!NoBlock, NoBlock, NULL
      <3>. QED BY <3>3 DEF A!Next
    <2>. QED BY <2>2, <2>3
  <1>7. ASSUME ClientFill PROVE A!Next
    <2>1. /\ pc = "fill" /\ pc' = "idle" /\ live' = live
          /\ call.id \in Ids /\ live[call.id].ptr # NULL
      BY <1>7 DEF ClientFill, IInv, CallInProgress
    <2>2. PICK id \in Ids : id = call.id
      BY <2>1
    <2>3. A!OnlyFor(id)
      BY <2>1, <2>2, OthersSame
    <2>4. Data'[id] = [k \in 0 .. (Words(live[id].size) - 1) |-> Fill[id]]
      <3>1. \A k \in 0 .. (Words(live'[id].size) - 1) : heap'.mem[live'[id].ptr + k] = Fill[id]
        BY <2>1, <2>2 DEF IInv, PayloadIntact
      <3>. QED BY <2>1, <2>2, <3>1 DEF Data, WordsOf
    <2>5. A!Span(live[id]) = 0 .. (Words(live[id].size) - 1)
      <3>1. live[id].size \in Nat
        BY <2>2, IdleFacts DEF Block
      <3>. QED BY <3>1 DEF A!Span, A!Words, Words, roundup, HEADER_SIZE
    <2>6. A!Write(id)
      BY <2>1, <2>2, <2>3, <2>4, <2>5 DEF A!Write, Data, WordsOf, NULL
    <2>. QED BY <2>2, <2>6 DEF A!Next
  <1>8. ASSUME Restart PROVE A!Next
    BY <1>8 DEF Restart, A!Next, A!Reset, A!NoBlock, NoBlock, NULL
  <1>9. ASSUME Absorb PROVE A!Next \/ UNCHANGED A!bvars
    <2>1. /\ pc = "absorb" /\ call.id \in Ids /\ live[call.id].ptr # NULL
          /\ call.cur = live[call.id].ptr - 1 /\ call.size \in Nat
          /\ call.keep = Min({call.size, live[call.id].size})
      BY <1>9, CallFacts DEF Absorb, IInv, CallInProgress
    <2>2. CASE UNCHANGED <<live, pc, call>>
      <3>1. ASSUME NEW j \in Ids PROVE Data'[j] = Data[j]
        <4>1. Data[j] = [k \in 0 .. (Words(live[j].size) - 1) |-> Fill[j]]
          BY <2>1, DataIsFill
        <4>2. \A k \in 0 .. (Words(live'[j].size) - 1) : heap'.mem[live'[j].ptr + k] = Fill[j]
          BY <2>1, <2>2 DEF IInv, PayloadIntact
        <4>. QED BY <2>2, <4>1, <4>2 DEF Data, WordsOf
      <3>2. Data' = Data
        BY <3>1 DEF Data
      <3>. QED BY <2>2, <3>2 DEF Data, WordsOf
    <2>3. CASE Return(call.id, call.cur + 1, call.size, call.keep)
      <3>1. call.cur + 1 # NULL
        <4>1. live[call.id].ptr \in Int
          BY <2>1, IdleFacts, HeldFacts
        <4>2. call.cur + 1 = live[call.id].ptr
          BY <2>1, <4>1
        <4>. QED BY <2>1, <4>2
      <3>. QED BY <2>1, <2>3, <3>1, ReturnRefines
    <2>. QED BY <1>9, <2>2, <2>3 DEF Absorb
  <1>10. ASSUME MallocFit \/ ReallocMove PROVE A!Next
    <2>1. /\ pc = "find" /\ call.cur # NULL /\ call.id \in Ids /\ call.size \in Nat
      BY <1>10, CallFacts DEF MallocFit, ReallocMove, Fits
    <2>2. call.cur + 1 # NULL
      <3>1. call.cur \in FreeHdrs(heap) /\ HeapOK(heap)
        BY <2>1, SearchFacts, CallFacts
      <3>2. call.cur + 1 \in Addr
        BY <3>1, HeaderFacts DEF HeapOK, FreeHdrs
      <3>. QED BY <3>2, AddrFacts
    <2>3. CASE MallocFit
      <3>1. live[call.id].ptr = NULL /\ Return(call.id, call.cur + 1, call.size, 0)
        BY <2>3 DEF MallocFit
      <3>. QED BY <2>1, <2>2, <3>1, ReturnRefines
    <2>4. CASE ReallocMove
      <3>1. /\ live[call.id].ptr # NULL
            /\ Return(call.id, call.cur + 1, call.size, call.keep)
        BY <2>4 DEF ReallocMove
      <3>2. call.keep = Min({call.size, live[call.id].size})
        BY <2>1, <3>1 DEF IInv, CallInProgress
      <3>. QED BY <2>1, <2>2, <3>1, <3>2, ReturnRefines
    <2>. QED BY <1>10, <2>3, <2>4
  <1>11. ASSUME UNCHANGED vars PROVE UNCHANGED A!bvars
    BY <1>2, <1>11 DEF vars
  <1>. HIDE DEF A!bvars
  <1>. QED BY <1>3, <1>4, <1>5, <1>6, <1>7, <1>8, <1>9, <1>10, <1>11
           DEF Next, ClientStep, CallStep

\* Seen through the client's pointers and the words behind them, the explicit
\* heap is an Allocator: blocks stay apart and inside the segment, a call
\* touches no other block's words, and realloc keeps the common prefix.
THEOREM Refinement == Spec => ImplementsAllocator
  <1>1. Init => A!Init
    <2>. SUFFICES ASSUME Init PROVE A!Init
      OBVIOUS
    <2>1. live = [i \in Ids |-> A!NoBlock]
      BY DEF Init, NoBlock, A!NoBlock, NULL
    <2>2. \A i \in Ids : live[i].size = 0 /\ Words(live[i].size) = 0
      BY WordsFacts DEF Init, NoBlock
    <2>3. 0 .. (0 - 1) = {}
      OBVIOUS
    <2>4. Data = [i \in Ids |-> [k \in {} |-> 0]]
      BY <2>2, <2>3 DEF Data, WordsOf
    <2>. QED BY <2>1, <2>4 DEF A!Init, Data, WordsOf
  <1>2. IInv /\ IInv' /\ [Next]_vars => [A!Next]_(A!bvars)
    BY NextRefines
  <1>3. IInv /\ [Next]_vars => IInv'
    BY NextIInv
  <1>. QED BY <1>1, <1>2, <1>3, InitIInv, PTL DEF Spec, ImplementsAllocator, A!Spec

-----------------------------------------------------------------------------
(* The heap checker.                                                        *)

\* The header the loop over the headers goes to is the next one.
LEMMA Advance ==
    ASSUME NEW h, Sound(h), NEW p \in h.hdrs
    PROVE  p + SizeAt(h, p) \div HEADER_SIZE + 1 = NextOf(h, p)
  <1>. DEFINE e == NextOf(h, p)  z == SizeAt(h, p)
  <1>1. p \in Int /\ e \in Int /\ z = 8 * (e - p - 1)
    BY SoundHeader
  <1>. HIDE DEF e, z
  <1>2. z \div 8 = e - p - 1
    BY <1>1
  <1>3. p + z \div 8 + 1 = e
    BY <1>1, <1>2
  <1>. QED BY <1>3 DEF HEADER_SIZE, e, z

\* One more block passed.
Passed(h, w) ==
    [cur   |-> w.cur + SizeAt(h, w.cur) \div HEADER_SIZE + 1,
     sum   |-> w.sum + HEADER_SIZE + SizeAt(h, w.cur),
     nfree |-> w.nfree + IF Status(h.mem[w.cur]) = StatusFree THEN 1 ELSE 0]

\* The loop over the headers, as a function from the number of blocks passed.
Walks(h, W) ==
    W = [i \in 0 .. h.nheaders |->
            IF i = 0 THEN [cur |-> SegStart, sum |-> 0, nfree |-> 0]
            ELSE Passed(h, W[i - 1])]

LEMMA WalkExists ==
    ASSUME NEW h, Sound(h)
    PROVE  \E W : Walks(h, W)
  <1>. DEFINE n == h.nheaders
              D == [cur : h.hdrs \cup {SegEnd}, sum : Int, nfree : Int]
              base == [cur |-> SegStart, sum |-> 0, nfree |-> 0]
              step == [w \in D |-> IF w.cur \in h.hdrs THEN Passed(h, w) ELSE w]
  <1>1. n \in Nat
    BY SoundCount, FS_CardinalityType
  <1>2. base \in D
    BY BeforeFirst
  <1>3. step \in [D -> D]
    <2>1. ASSUME NEW w \in D, w.cur \in h.hdrs PROVE Passed(h, w) \in D
      <3>1. /\ NextOf(h, w.cur) \in h.hdrs \cup {SegEnd} /\ SizeAt(h, w.cur) \in Int
            /\ w.sum \in Int /\ w.nfree \in Int
        BY <2>1, SoundHeader
      <3>2. /\ w.sum + HEADER_SIZE + SizeAt(h, w.cur) \in Int
            /\ w.nfree + (IF Status(h.mem[w.cur]) = StatusFree THEN 1 ELSE 0) \in Int
        BY <3>1 DEF HEADER_SIZE
      <3>. QED BY <2>1, <3>1, <3>2, Advance DEF Passed
    <2>. HIDE DEF D
    <2>. QED BY <2>1
  <1>4. PICK f : Iterates(n, D, base, step, f)
    <2>. HIDE DEF n, D, base, step
    <2>. QED BY <1>1, <1>2, <1>3, IterationExists
  <1>5. /\ f \in [0 .. n -> D] /\ f[0] = base
        /\ \A i \in 0 .. (n - 1) : f[i + 1] = step[f[i]]
    BY <1>4 DEF Iterates
  <1>. DEFINE c == [i \in 0 .. n |-> f[i].cur]
  <1>6. \A i \in 0 .. (n - 1) : i \in 0 .. n /\ i + 1 \in 0 .. n /\ f[i] \in D
    BY <1>1, <1>5
  <1>7. \A i \in 0 .. (n - 1) : f[i].cur \in h.hdrs => f[i + 1] = Passed(h, f[i])
    <2>. HIDE DEF D
    <2>. QED BY <1>5, <1>6
  <1>8. \A i \in 0 .. (n - 1) : f[i].cur \in h.hdrs
    <2>1. c[0] = SegStart
      BY <1>1, <1>5
    <2>2. \A i \in 0 .. (n - 1) : c[i] \in h.hdrs => c[i + 1] = NextOf(h, c[i])
      <3>1. \A i \in 0 .. (n - 1) : c[i] = f[i].cur /\ c[i + 1] = f[i + 1].cur
        BY <1>6
      <3>2. ASSUME NEW i \in 0 .. (n - 1), f[i].cur \in h.hdrs
            PROVE  f[i + 1].cur = NextOf(h, f[i].cur)
        <4>1. f[i + 1] = Passed(h, f[i])
          BY <1>7, <3>2
        <4>. QED BY <3>2, <4>1, Advance DEF Passed
      <3>. HIDE DEF c
      <3>. QED BY <3>1, <3>2
    <2>3. \A i \in 0 .. (n - 1) : c[i] \in h.hdrs
      <3>. HIDE DEF c
      <3>. QED BY <2>1, <2>2, HeaderLoop
    <2>. QED BY <1>6, <2>3
  <1>9. \A i \in 0 .. n : f[i] = IF i = 0 THEN base ELSE Passed(h, f[i - 1])
    <2>1. ASSUME NEW i \in 0 .. n, i # 0
          PROVE  i - 1 \in 0 .. (n - 1) /\ (i - 1) + 1 = i
      BY <1>1, <2>1
    <2>. HIDE DEF base
    <2>. QED BY <1>5, <1>7, <1>8, <2>1
  <1>10. f = [i \in 0 .. n |-> IF i = 0 THEN base ELSE Passed(h, f[i - 1])]
    <2>. HIDE DEF base, D
    <2>. QED BY <1>5, <1>9
  <1>. QED BY <1>10 DEF Walks

\* The free headers that lie before p.
FreeBefore(h, p) == {q \in Before(h, p) : Status(h.mem[q]) = StatusFree}

LEMMA FreeBeforeStep ==
    ASSUME NEW h, Sound(h), NEW p \in h.hdrs
    PROVE  /\ Cardinality(FreeBefore(h, p)) \in Nat
           /\ Cardinality(FreeBefore(h, NextOf(h, p)))
                = Cardinality(FreeBefore(h, p))
                    + IF Status(h.mem[p]) = StatusFree THEN 1 ELSE 0
  <1>1. IsFiniteSet(FreeBefore(h, p)) /\ p \notin FreeBefore(h, p)
    <2>1. FreeBefore(h, p) \subseteq Before(h, p)
      BY DEF FreeBefore
    <2>. QED BY <2>1, BeforeFacts, FS_Subset
  <1>2. Cardinality(FreeBefore(h, p)) \in Nat
    BY <1>1, FS_CardinalityType
  <1>3. FreeBefore(h, NextOf(h, p))
          = FreeBefore(h, p) \cup IF Status(h.mem[p]) = StatusFree THEN {p} ELSE {}
    BY BeforeStep DEF FreeBefore
  <1>4. CASE Status(h.mem[p]) = StatusFree
    <2>1. FreeBefore(h, NextOf(h, p)) = FreeBefore(h, p) \cup {p}
      BY <1>3, <1>4
    <2>. QED BY <1>1, <1>2, <1>4, <2>1, FS_AddElement
  <1>5. CASE Status(h.mem[p]) # StatusFree
    <2>1. FreeBefore(h, NextOf(h, p)) = FreeBefore(h, p)
      BY <1>3, <1>5
    <2>. QED BY <1>2, <1>5, <2>1
  <1>. QED BY <1>4, <1>5

\* The loop over the headers never reads a word that is not a header, adds up
\* the segment and counts the free blocks.
LEMMA WalkAddsUp ==
    ASSUME NEW h, Sound(h), NEW W, Walks(h, W)
    PROVE  W[h.nheaders].sum = HeapSize /\ W[h.nheaders].nfree = Cardinality(FreeHdrs(h))
  <1>. DEFINE n == h.nheaders
              c == [i \in 0 .. n |-> W[i].cur]
              S == {i \in 0 .. n : /\ W[i].sum = 8 * (W[i].cur - SegStart)
                                   /\ W[i].nfree = Cardinality(FreeBefore(h, W[i].cur))}
  <1>1. n \in Nat
    BY SoundCount, FS_CardinalityType
  <1>2. /\ \A i \in 0 .. (n - 1) : i \in 0 .. n /\ i + 1 \in 0 .. n
        /\ W[0] = [cur |-> SegStart, sum |-> 0, nfree |-> 0]
        /\ \A i \in 0 .. (n - 1) : W[i + 1] = Passed(h, W[i])
    <2>1. 0 \in 0 .. n
      BY <1>1
    <2>2. ASSUME NEW i \in 0 .. (n - 1)
          PROVE  i \in 0 .. n /\ i + 1 \in 0 .. n /\ i + 1 # 0 /\ (i + 1) - 1 = i
      BY <1>1
    <2>. QED BY <2>1, <2>2 DEF Walks
  <1>3. /\ \A i \in 0 .. (n - 1) : c[i] \in h.hdrs
        /\ c[n] = SegEnd
    <2>1. c[0] = SegStart
      BY <1>1, <1>2
    <2>2. ASSUME NEW i \in 0 .. (n - 1), c[i] \in h.hdrs
          PROVE  c[i + 1] = NextOf(h, c[i])
      <3>1. c[i] = W[i].cur /\ c[i + 1] = W[i + 1].cur
        BY <1>2
      <3>2. W[i + 1].cur = W[i].cur + SizeAt(h, W[i].cur) \div HEADER_SIZE + 1
        <4>1. W[i + 1] = Passed(h, W[i])
          BY <1>2
        <4>. QED BY <4>1 DEF Passed
      <3>. HIDE DEF c
      <3>. QED BY <2>2, <3>1, <3>2, Advance
    <2>. HIDE DEF c
    <2>. QED BY <2>1, <2>2, HeaderLoop
  <1>4. 0 \in S
    <2>1. FreeBefore(h, SegStart) = {}
      BY BeforeFirst DEF FreeBefore
    <2>2. /\ W[0].cur = SegStart /\ W[0].sum = 0 /\ W[0].nfree = 0
          /\ 0 \in 0 .. n /\ 0 = 8 * (SegStart - SegStart)
      BY <1>1, <1>2, AddrFacts
    <2>. QED BY <2>1, <2>2, FS_EmptySet
  <1>5. ASSUME NEW i \in 0 .. (n - 1), i \in S
        PROVE  i + 1 \in S
    <2>. DEFINE p == W[i].cur  e == NextOf(h, p)  s == W[i].sum  z == SizeAt(h, p)
    <2>1. p \in h.hdrs /\ i + 1 \in 0 .. n
      BY <1>2, <1>3
    <2>2. p \in Int /\ e \in Int /\ z = 8 * (e - p - 1)
      BY <2>1, SoundHeader
    <2>3. s = 8 * (p - SegStart) /\ W[i].nfree = Cardinality(FreeBefore(h, p))
      BY <1>5
    <2>4. /\ W[i + 1].cur = e /\ W[i + 1].sum = s + 8 + z
          /\ W[i + 1].nfree = W[i].nfree + IF Status(h.mem[p]) = StatusFree THEN 1 ELSE 0
      <3>1. W[i + 1] = Passed(h, W[i])
        BY <1>2
      <3>2. p + SizeAt(h, p) \div HEADER_SIZE + 1 = e
        BY <2>1, Advance
      <3>. QED BY <3>1, <3>2 DEF Passed, HEADER_SIZE
    <2>5. W[i + 1].nfree = Cardinality(FreeBefore(h, e))
      BY <2>1, <2>3, <2>4, FreeBeforeStep
    <2>. HIDE DEF p, e, s, z
    <2>6. s + 8 + z = 8 * (e - SegStart)
      BY <2>2, <2>3, AddrFacts
    <2>. QED BY <2>1, <2>4, <2>5, <2>6
  <1>6. n \in S
    <2>. HIDE DEF S, n
    <2>1. 0 .. n \subseteq S
      BY <1>1, <1>4, <1>5, IntervalInduction
    <2>. QED BY <1>1, <2>1
  <1>7. W[n].cur = SegEnd
    BY <1>1, <1>3
  <1>8. 8 * (SegEnd - SegStart) = HeapSize
    BY HeapAssumption DEF SegEnd, HEADER_SIZE
  <1>9. FreeBefore(h, SegEnd) = FreeHdrs(h)
    BY BeforeEnd DEF FreeBefore, FreeHdrs
  <1>. QED BY <1>6, <1>7, <1>8, <1>9

\* The list has as many blocks as there are free headers.
LEMMA FreeCount ==
    ASSUME NEW h, HeapOK(h)
    PROVE  /\ h.nfreeheaders = Cardinality(FreeHdrs(h))
           /\ h.nfreeheaders = Len(h.flist) /\ Len(h.flist) \in Nat
  <1>. DEFINE L == h.flist
              n == Len(L)
  <1>1. L \in Seq(Addr) /\ Range(L) = FreeHdrs(h) /\ h.nfreeheaders = n
        /\ \A i, j \in 1..n : L[i] = L[j] => i = j
    BY DEF HeapOK, HeapType, Linked
  <1>2. n \in Nat /\ DOMAIN L = 1..n /\ L \in [1..n -> Range(L)]
    BY <1>1 DEF Range
  <1>. HIDE DEF L, n
  <1>3. L \in Injection(1..n, Range(L))
    BY <1>1, <1>2 DEF Injection, IsInjective
  <1>4. L \in Surjection(1..n, Range(L))
    BY <1>2 DEF Surjection, Range
  <1>5. ExistsBijection(1..n, Range(L))
    BY <1>3, <1>4 DEF ExistsBijection, Bijection
  <1>6. Cardinality(Range(L)) = n
    BY <1>2, <1>5, FS_CountingElements
  <1>. QED BY <1>1, <1>2, <1>6 DEF L, n

\* Following the next links from ffh runs through the free list.
LEMMA ListWalkFollows ==
    ASSUME NEW h, HeapOK(h), NEW n \in Nat, n < h.nfreeheaders
    PROVE  ListWalk(h, n) = h.flist[n + 1]
  <1>. DEFINE Follows(N) == N = [i \in 0 .. n |-> IF i = 0 THEN h.ffh ELSE h.mem[N[i - 1] + 2]]
              f == [i \in 0 .. n |-> h.flist[i + 1]]
              node[i \in 0 .. n] == IF i = 0 THEN h.ffh ELSE h.mem[node[i - 1] + 2]
  <1>1. /\ Len(h.flist) \in Nat /\ n < Len(h.flist) /\ h.ffh = h.flist[1]
        /\ \A i \in 1 .. n : h.mem[h.flist[i] + 2] = h.flist[i + 1]
    <2>1. Len(h.flist) \in Nat /\ h.nfreeheaders = Len(h.flist) /\ Linked(h)
      BY FreeCount DEF HeapOK
    <2>2. \A i \in 1 .. n : i \in 1 .. Len(h.flist) /\ i # Len(h.flist)
      BY <2>1
    <2>. QED BY <2>1, <2>2 DEF Linked
  <1>2. \E N : Follows(N)
    <2>1. ASSUME NEW i \in 0 .. n
          PROVE  f[i] = IF i = 0 THEN h.ffh ELSE h.mem[f[i - 1] + 2]
      <3>1. CASE i = 0
        BY <1>1, <3>1
      <3>2. CASE i # 0
        <4>1. i \in 1 .. n /\ i - 1 \in 0 .. n /\ (i - 1) + 1 = i
          BY <3>2
        <4>. QED BY <1>1, <3>2, <4>1
      <3>. QED BY <3>1, <3>2
    <2>2. f = [i \in 0 .. n |-> f[i]]
      OBVIOUS
    <2>. HIDE DEF f
    <2>3. Follows(f)
      BY <2>1, <2>2
    <2>. HIDE DEF Follows
    <2>. QED BY <2>3
  <1>3. Follows(node)
    BY <1>2, Zenon
  <1>. HIDE DEF node
  <1>. DEFINE S == {i \in 0 .. n : node[i] = h.flist[i + 1]}
  <1>4. 0 \in S
    BY <1>1, <1>3
  <1>5. ASSUME NEW i \in 0 .. (n - 1), i \in S
        PROVE  i + 1 \in S
    <2>1. i + 1 \in 1 .. n /\ i + 1 \in 0 .. n /\ (i + 1) - 1 = i
      OBVIOUS
    <2>2. node[i + 1] = h.mem[node[i] + 2]
      BY <1>3, <2>1
    <2>. QED BY <1>1, <1>5, <2>1, <2>2
  <1>6. node[n] = h.flist[n + 1]
    <2>1. 0 .. n \subseteq S
      <3>. HIDE DEF S
      <3>. QED BY <1>4, <1>5, IntervalInduction
    <2>. QED BY <2>1
  <1>7. ListWalk(h, n) = node[n]
    BY Zenon DEF ListWalk, node
  <1>. QED BY <1>6, <1>7

LEMMA CheckerAcceptsSound ==
    ASSUME NEW h, HeapOK(h)
    PROVE  validate_heap(h)
  <1>. DEFINE walk[i \in 0 .. h.nheaders] ==
                  IF i = 0 THEN [cur |-> SegStart, sum |-> 0, nfree |-> 0]
                  ELSE LET w == walk[i - 1]
                       IN  [cur   |-> w.cur + SizeAt(h, w.cur) \div HEADER_SIZE + 1,
                            sum   |-> w.sum + HEADER_SIZE + SizeAt(h, w.cur),
                            nfree |-> w.nfree + IF Status(h.mem[w.cur]) = StatusFree
                                                THEN 1 ELSE 0]
  <1>1. Sound(h)
    BY HeapSound
  <1>2. Walks(h, walk)
    <2>. DEFINE Loops(W) ==
            W = [i \in 0 .. h.nheaders |->
                   IF i = 0 THEN [cur |-> SegStart, sum |-> 0, nfree |-> 0]
                   ELSE LET w == W[i - 1]
                        IN  [cur   |-> w.cur + SizeAt(h, w.cur) \div HEADER_SIZE + 1,
                             sum   |-> w.sum + HEADER_SIZE + SizeAt(h, w.cur),
                             nfree |-> w.nfree + IF Status(h.mem[w.cur]) = StatusFree
                                                 THEN 1 ELSE 0]]
    <2>1. \A W : Walks(h, W) <=> Loops(W)
      BY Zenon DEF Walks, Passed
    <2>2. \E W : Loops(W)
      BY <1>1, <2>1, WalkExists
    <2>3. Loops(walk)
      BY <2>2, Zenon
    <2>. HIDE DEF walk, Loops
    <2>. QED BY <2>1, <2>3
  <1>3. HeaderWalk(h) = walk[h.nheaders]
    BY Zenon DEF HeaderWalk
  <1>. HIDE DEF walk
  <1>4. HeaderWalk(h).sum = HeapSize /\ HeaderWalk(h).nfree = h.nfreeheaders
    BY <1>1, <1>2, <1>3, WalkAddsUp, FreeCount
  <1>5. ASSUME h.nfreeheaders > 0
        PROVE  h.mem[ListWalk(h, h.nfreeheaders - 1) + 2] = NULL
    <2>. DEFINE n == h.nfreeheaders
    <2>1. n \in Nat /\ n = Len(h.flist) /\ n - 1 \in Nat /\ n - 1 < n /\ (n - 1) + 1 = n
          /\ n \in 1 .. n
      BY <1>5, FreeCount
    <2>2. ListWalk(h, n - 1) = h.flist[n]
      <3>1. ListWalk(h, n - 1) = h.flist[(n - 1) + 1]
        BY <2>1, ListWalkFollows
      <3>. QED BY <2>1, <3>1
    <2>3. h.mem[h.flist[n] + 2] = NULL
      BY <2>1 DEF HeapOK, Linked
    <2>. QED BY <2>2, <2>3
  <1>. QED BY <1>4, <1>5 DEF validate_heap

\* validate_heap accepts the heap of every state, so it does whenever the
\* harness calls it between two requests: its loops find the segment's size,
\* as many free blocks as the list counts, and NULL behind the last of them.
THEOREM CheckerHolds == Spec => []CheckerAccepts
  <1>1. IInv => CheckerAccepts
    BY CheckerAcceptsSound DEF CheckerAccepts, IInv
  <1>. QED BY <1>1, Invariance, PTL
=============================================================================
