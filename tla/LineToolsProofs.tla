--------------------------- MODULE LineToolsProofs ---------------------------
(***************************************************************************)
(* Theorems about LineTools, for files and scripts of any length, every    *)
(* size of the buffers and tables, and every number given to mytail.       *)
(***************************************************************************)
EXTENDS LineTools, TLAPS, FiniteSetTheorems, SequenceTheorems, WellFoundedInduction

Cell == Char \cup {NL, Blank, Hash} \cup Request

\* How far fgets has come, and where the lines end that the program has dealt
\* with: while read_line works on a line, before that line.
Pos  == Len(file) - Len(rest)
Told == IF pc = "grow" THEN Pos - Len(buf) ELSE Pos
Seen == Lines(SubSeq(file, 1, Told))

\* A line of f begins behind a.
Boundary(f, a) == a = 0 \/ f[a] = NL

\* r is what is left of f behind p.
RestOf(f, p, r) ==
    /\ p \in Nat /\ p <= Len(f) /\ r \in Seq(Cell)
    /\ r = SubSeq(f, p + 1, Len(f)) /\ Len(r) = Len(f) - p

\* read_line works on the line of f that begins behind a, and has come to p: the
\* buffer b holds what is between, and is full unless the line has been read to
\* its end.
ReadingOn(f, a, p, b, size, k) ==
    /\ a \in Nat /\ p \in Nat /\ a < p /\ p <= Len(f)
    /\ b = SubSeq(f, a + 1, p)
    /\ Boundary(f, a)
    /\ \A i \in (a + 1) .. (p - 1) : f[i] # NL
    /\ size \in Nat /\ size >= 2 /\ k \in Nat
    /\ p - a <= size - k
    /\ p - a = size - k \/ f[p] = NL \/ p = Len(f)

Reading == ReadingOn(file, Told, Pos, buf, old_size, cumulative_factor)

\* What fgets has left unread is the end of the file, the programs of assign3
\* take it line by line, and what nobody has written is only ever used when
\* nothing is left.
ReadInv ==
    /\ file \in Seq(Cell) /\ RestOf(file, Pos, rest)
    /\ pc \in {"main", "read", "grow", "eof", "done", "error"}
    /\ prog \in {"mycat", "mytail", "myuniq", "parse_script"}
    /\ unwritten \in BOOLEAN
    /\ pc = "main" => rest = file
    /\ pc \in {"grow", "eof"} => prog # "parse_script"
    /\ pc \in {"eof", "done"} => rest = <<>>
    /\ unwritten => rest = <<>> /\ file # <<>> /\ Last(file) # NL
    /\ prog = "parse_script" => ~unwritten
    /\ pc = "grow" /\ ~unwritten => Reading
    /\ prog # "parse_script" /\ rest # <<>> => Boundary(file, Told)

-----------------------------------------------------------------------------
(* What each program has made of the lines L it has dealt with.             *)

\* mycat has printed o, and numbered u of them.
Catted(L, o, u) ==
    /\ o \in Seq([number : Nat \cup {NULL}, text : Seq(Cell)]) /\ Len(o) = Len(L)
    /\ \A k \in DOMAIN L :
          /\ o[k].text = L[k]
          /\ o[k].number = IF L[k] = <<>> THEN NULL
                           ELSE Cardinality({j \in 1 .. k : L[j] # <<>>})
    /\ u = Cardinality({j \in 1 .. Len(L) : L[j] # <<>>})

\* mytail has the last m of them in the ring a.
Ringed(L, a, u, m) ==
    /\ u = Len(L) /\ m \in Nat \ {0}
    /\ DOMAIN a = 0 .. (m - 1)
    /\ \A k \in 1 .. u : k > u - m => a[(k - 1) % m] = L[k]

FirstPlaces(L) == {k \in DOMAIN L : \A j \in 1 .. (k - 1) : L[j] # L[k]}
Times(L, x)    == Cardinality({k \in DOMAIN L : L[k] = x})
CountsOf(L) ==
    LET first == Ascending({k \in DOMAIN L : \A j \in 1 .. (k - 1) : L[j] # L[k]})
    IN  [m \in DOMAIN first |->
            [txt   |-> L[first[m]],
             count |-> Cardinality({k \in DOMAIN L : L[k] = L[first[m]]})]]

\* myuniq has the first u entries of table a in use, one for each kind.
Counted(L, a, u) ==
    LET first == Ascending(FirstPlaces(L))
    IN  /\ u = Len(first)
        /\ \E d \in Nat : u <= d /\ DOMAIN a = 0 .. (d - 1)
        /\ \A m \in 1 .. u : a[m - 1] = [txt |-> L[first[m]], count |-> Times(L, L[first[m]])]
        /\ \A i \in DOMAIN a : i >= u => a[i] = [txt |-> NULL, count |-> 0]

KeptPlaces(L) == {k \in DOMAIN L : ~Skipped(L[k])}
AllShort(L)   == \A k \in DOMAIN L : Len(L[k]) + 1 < MAX_SCRIPT_LINE_LEN

\* parse_script has the first u operations of a from the lines that are requests.
Listed(L, a, u, line) ==
    LET kept == Ascending(KeptPlaces(L))
    IN  /\ line = Len(L) /\ u = Len(kept)
        /\ \A i \in 1 .. u :
              LET r == FirstMark(L[kept[i]])
              IN  a[i - 1] = [op |-> op(r), id |-> r.id, size |-> r.size, lineno |-> kept[i]]

\* No id is larger than the largest seen.
Ranged(a, u, top) ==
    /\ u \in Nat /\ top \in Nat
    /\ \E d \in Nat : u <= d /\ DOMAIN a = 0 .. (d - 1)
    /\ \A i \in 0 .. (u - 1) : a[i].id \in 0 .. top

Working == pc \in {"read", "grow", "eof"}

ToolInv ==
    /\ pc = "main" => used = 0 /\ out = <<>> /\ array = [j \in {} |-> NULL]
                       /\ maxid = 0 /\ lineno = 0
    /\ prog = "mytail" => n \in Int
    /\ Working /\ ~unwritten =>
         /\ prog = "mycat"  => Catted(Seen, out, used)
         /\ prog = "mytail" => Ringed(Seen, array, used, n)
         /\ prog = "myuniq" => Counted(Seen, array, used)
    /\ prog = "parse_script" /\ pc \in {"main", "read", "done"} =>
         /\ Ranged(array, used, maxid)
         /\ AllShort(Lines(file)) =>
               /\ Boundary(file, Pos) \/ rest = <<>>
               /\ Listed(Seen, array, used, lineno)
         /\ pc = "done" => n = maxid + 1

IInv == ReadInv /\ ToolInv /\ Printed

-----------------------------------------------------------------------------
(* Numbers in increasing order.                                             *)

AtMost(S, m) == {l \in S : l <= m}
Rank(S, m)   == Cardinality(AtMost(S, m))

\* The ranks of the numbers in a finite set are 1, 2, ... in their order.
LEMMA RankFacts ==
    ASSUME NEW S, S \subseteq Nat, IsFiniteSet(S)
    PROVE  /\ Cardinality(S) \in Nat
           /\ \A m \in S : Rank(S, m) \in 1 .. Cardinality(S)
           /\ \A m, k \in S : m < k => Rank(S, m) < Rank(S, k)
           /\ \A m, k \in S : Rank(S, m) = Rank(S, k) => m = k
  <1>1. Cardinality(S) \in Nat
    BY FS_CardinalityType
  <1>2. ASSUME NEW m \in S
        PROVE  /\ IsFiniteSet(AtMost(S, m)) /\ m \in AtMost(S, m)
               /\ Rank(S, m) \in Nat /\ Rank(S, m) <= Cardinality(S) /\ Rank(S, m) # 0
    <2>1. AtMost(S, m) \subseteq S /\ m \in AtMost(S, m)
      BY DEF AtMost
    <2>2. IsFiniteSet(AtMost(S, m)) /\ Cardinality(AtMost(S, m)) <= Cardinality(S)
      BY <2>1, FS_Subset
    <2>. QED BY <2>1, <2>2, FS_CardinalityType, FS_EmptySet DEF Rank
  <1>3. ASSUME NEW m \in S, NEW k \in S, m < k
        PROVE  Rank(S, m) < Rank(S, k)
    <2>1. AtMost(S, m) \cup {k} \subseteq AtMost(S, k) /\ k \notin AtMost(S, m)
      <3>1. m \in Nat /\ k \in Nat /\ \A l \in S : l \in Nat
        OBVIOUS
      <3>2. \A l \in S : l <= m => l <= k
        BY <1>3, <3>1
      <3>3. k <= k /\ ~(k <= m)
        BY <1>3, <3>1
      <3>. QED BY <3>2, <3>3 DEF AtMost
    <2>2. Cardinality(AtMost(S, m) \cup {k}) = Cardinality(AtMost(S, m)) + 1
      BY <1>2, <2>1, FS_AddElement
    <2>3. Cardinality(AtMost(S, m) \cup {k}) <= Cardinality(AtMost(S, k))
      BY <1>2, <2>1, FS_Subset
    <2>4. Rank(S, m) \in Nat /\ Rank(S, k) \in Nat
      BY <1>2
    <2>. QED BY <2>2, <2>3, <2>4 DEF Rank
  <1>4. ASSUME NEW m \in S, NEW k \in S, Rank(S, m) = Rank(S, k)
        PROVE  m = k
    <2>1. m \in Nat /\ k \in Nat /\ Rank(S, m) \in Nat /\ Rank(S, k) \in Nat
      BY <1>2
    <2>2. ~(m < k) /\ ~(k < m)
      BY <1>3, <1>4, <2>1
    <2>. QED BY <2>1, <2>2
  <1>. QED BY <1>1, <1>2, <1>3, <1>4

\* Ascending enumerates its set by rank.
LEMMA AscendingFacts ==
    ASSUME NEW S, S \subseteq Nat, IsFiniteSet(S)
    PROVE  /\ Ascending(S) \in Seq(S) /\ Len(Ascending(S)) = Cardinality(S)
           /\ DOMAIN Ascending(S) = 1 .. Cardinality(S)
           /\ \A k \in 1 .. Cardinality(S) : /\ Ascending(S)[k] \in S
                                            /\ Rank(S, Ascending(S)[k]) = k
           /\ \A m \in S : Rank(S, m) \in 1 .. Cardinality(S) /\ Ascending(S)[Rank(S, m)] = m
  <1>. DEFINE len == Cardinality(S)
              f == [m \in S |-> Rank(S, m)]
  <1>1. len \in Nat /\ \A m \in S : Rank(S, m) \in 1 .. len
    BY RankFacts
  <1>. HIDE DEF len
  <1>2. f \in Injection(S, 1 .. len)
    BY <1>1, RankFacts DEF Injection, IsInjective
  <1>3. IsFiniteSet(1 .. len) /\ Cardinality(1 .. len) = len
    BY <1>1, FS_Interval
  <1>4. f \in Surjection(S, 1 .. len)
    <2>. HIDE DEF f
    <2>. QED BY <1>2, <1>3, FS_Injection DEF len
  <1>5. ASSUME NEW k \in 1 .. len
        PROVE  Ascending(S)[k] \in S /\ Rank(S, Ascending(S)[k]) = k
    <2>1. \E m \in S : Rank(S, m) = k
      BY <1>4 DEF Surjection
    <2>2. Ascending(S)[k] = CHOOSE m \in S : Rank(S, m) = k
      BY DEF Ascending, Rank, AtMost, len
    <2>. QED BY <2>1, <2>2
  <1>6. DOMAIN Ascending(S) = 1 .. len
    BY DEF Ascending, len
  <1>7. Ascending(S) \in [1 .. len -> S]
    <2>. DEFINE q == [k \in 1 .. len |-> CHOOSE m \in S : Cardinality({l \in S : l <= m}) = k]
    <2>1. Ascending(S) = q
      BY DEF Ascending, len
    <2>2. \A k \in 1 .. len : q[k] \in S
      BY <1>5, <2>1
    <2>3. q \in [1 .. len -> S]
      BY <2>2
    <2>. QED BY <2>1, <2>3
  <1>8. Ascending(S) \in Seq(S) /\ Len(Ascending(S)) = len
    BY <1>1, <1>7
  <1>9. ASSUME NEW m \in S
        PROVE  Ascending(S)[Rank(S, m)] = m
    <2>1. Rank(S, m) \in 1 .. len
      BY <1>1
    <2>. QED BY <1>5, <2>1, RankFacts
  <1>. QED BY <1>1, <1>5, <1>6, <1>8, <1>9 DEF len

\* Nothing is enumerated by nothing.
LEMMA AscendingEmpty == Ascending({}) = <<>>
  <1>1. Cardinality({}) = 0 /\ 1 .. 0 = {}
    BY FS_EmptySet
  <1>2. Ascending({}) = [k \in 1 .. 0 |-> CHOOSE m \in {} : Cardinality({l \in {} : l <= m}) = k]
    BY <1>1 DEF Ascending
  <1>. QED BY <1>1, <1>2

\* A number larger than all in the set comes last.
LEMMA AscendingAppend ==
    ASSUME NEW S, S \subseteq Nat, IsFiniteSet(S), NEW x \in Nat, \A l \in S : l < x
    PROVE  /\ Ascending(S \cup {x}) = Append(Ascending(S), x)
           /\ Cardinality(S \cup {x}) = Cardinality(S) + 1 /\ IsFiniteSet(S \cup {x})
  <1>. DEFINE T == S \cup {x}
              len == Cardinality(S)
              q == Ascending(S)
              r == Ascending(T)
  <1>1. T \subseteq Nat /\ IsFiniteSet(T) /\ Cardinality(T) = len + 1 /\ len \in Nat
    <2>1. x \notin S
      OBVIOUS
    <2>. QED BY <2>1, FS_AddElement, FS_CardinalityType
  <1>2. \A l \in S : Rank(T, l) = Rank(S, l)
    <2>1. \A l \in S : AtMost(T, l) = AtMost(S, l)
      BY DEF AtMost
    <2>. QED BY <2>1 DEF Rank
  <1>3. Rank(T, x) = len + 1
    <2>1. AtMost(T, x) = T
      <3>1. \A l \in S : l \in Nat /\ l < x
        OBVIOUS
      <3>2. \A l \in T : l <= x
        BY <3>1
      <3>. QED BY <3>2 DEF AtMost
    <2>. QED BY <1>1, <2>1 DEF Rank
  <1>4. /\ q \in Seq(S) /\ Len(q) = len /\ DOMAIN q = 1 .. len
        /\ \A k \in 1 .. len : q[k] \in S /\ Rank(S, q[k]) = k
    BY AscendingFacts
  <1>. HIDE DEF T, q, len
  <1>5. /\ r \in Seq(T) /\ Len(r) = len + 1
        /\ \A k \in 1 .. (len + 1) : r[k] \in T /\ Rank(T, r[k]) = k
    BY <1>1, AscendingFacts
  <1>. HIDE DEF r
  <1>6. \A k \in 1 .. len : r[k] = q[k]
    <2>. SUFFICES ASSUME NEW k \in 1 .. len PROVE r[k] = q[k]
      OBVIOUS
    <2>1. q[k] \in S /\ Rank(S, q[k]) = k
      BY <1>4
    <2>2. q[k] \in T /\ Rank(T, q[k]) = k
      BY <1>2, <2>1 DEF T
    <2>3. k \in 1 .. (len + 1)
      BY <1>1
    <2>4. r[k] \in T /\ Rank(T, r[k]) = k
      BY <1>5, <2>3
    <2>. QED BY <1>1, <2>2, <2>4, RankFacts
  <1>7. r[len + 1] = x
    <2>1. len + 1 \in 1 .. (len + 1) /\ x \in T
      BY <1>1 DEF T
    <2>. QED BY <1>1, <1>3, <1>5, <2>1, RankFacts
  <1>8. /\ Append(q, x) \in Seq(T) /\ Len(Append(q, x)) = len + 1
        /\ \A k \in 1 .. (len + 1) : Append(q, x)[k] = IF k = len + 1 THEN x ELSE q[k]
    <2>1. q \in Seq(T) /\ x \in T
      BY <1>4 DEF T
    <2>. QED BY <1>1, <1>4, <2>1
  <1>9. \A k \in 1 .. (len + 1) : r[k] = Append(q, x)[k]
    <2>1. \A k \in 1 .. (len + 1) : k = len + 1 \/ k \in 1 .. len
      BY <1>1
    <2>. QED BY <1>6, <1>7, <1>8, <2>1
  <1>10. r = Append(q, x)
    BY <1>5, <1>8, <1>9, SeqEqual
  <1>. QED BY <1>1, <1>10 DEF T, q, r, len
-----------------------------------------------------------------------------
(* The least of some numbers, and calls of fgets.                           *)

\* A set of naturals that is not empty has a least element.
LEMMA LeastNatural ==
    ASSUME NEW S, S \subseteq Nat, S # {}
    PROVE  \E m \in S : \A k \in S : m <= k
  <1>1. PICK m \in S : \A k \in S : ~(<<k, m>> \in OpToRel(<, Nat))
    BY NatLessThanWellFounded, WFMin
  <1>2. ASSUME NEW k \in S PROVE m <= k
    <2>1. m \in Nat /\ k \in Nat
      OBVIOUS
    <2>2. ~(k < m)
      BY <1>1, <2>1 DEF OpToRel
    <2>. QED BY <2>1, <2>2
  <1>. QED BY <1>2

\* Min is that element.
LEMMA MinFacts ==
    ASSUME NEW S, S \subseteq Nat, S # {}
    PROVE  Min(S) \in S /\ \A k \in S : Min(S) <= k
  BY LeastNatural DEF Min

\* fgets stores something, ends at the first newline if not before it, and
\* otherwise stops only when the buffer is full or the file at its end.
LEMMA ChunkFacts ==
    ASSUME NEW f \in Seq(Cell), f # <<>>, NEW size \in Nat, size >= 2
    PROVE  \E c \in 1 .. Len(f) :
              /\ Chunk(f, size) = SubSeq(f, 1, c) /\ Len(Chunk(f, size)) = c
              /\ Behind(f, size) = SubSeq(f, c + 1, Len(f))
              /\ c <= size - 1
              /\ \A i \in 1 .. (c - 1) : f[i] # NL
              /\ f[c] = NL \/ c = size - 1 \/ c = Len(f)
  <1>. DEFINE S == {i \in 1 .. Len(f) : f[i] = NL \/ i = size - 1 \/ i = Len(f)}
              c == Min(S)
  <1>1. Len(f) \in Nat /\ Len(f) >= 1
    OBVIOUS
  <1>2. S \subseteq Nat /\ Len(f) \in S
    BY <1>1
  <1>3. c \in S /\ \A k \in S : c <= k
    <2>. HIDE DEF S
    <2>. QED BY <1>2, MinFacts
  <1>4. Chunk(f, size) = SubSeq(f, 1, c)
    BY DEF Chunk
  <1>. HIDE DEF c
  <1>5. c \in 1 .. Len(f) /\ (f[c] = NL \/ c = size - 1 \/ c = Len(f))
    BY <1>3
  <1>6. \A i \in 1 .. (c - 1) : f[i] # NL
    <2>. SUFFICES ASSUME NEW i \in 1 .. (c - 1), f[i] = NL PROVE FALSE
      OBVIOUS
    <2>1. i \in S
      BY <1>1, <1>5
    <2>2. c <= i
      BY <1>3, <2>1
    <2>. QED BY <1>1, <1>5, <2>2
  <1>7. c <= size - 1
    <2>1. CASE size - 1 <= Len(f)
      <3>1. size - 1 \in S
        BY <1>1, <2>1
      <3>. QED BY <1>3, <3>1
    <2>2. CASE ~(size - 1 <= Len(f))
      BY <1>1, <1>5, <2>2
    <2>. QED BY <2>1, <2>2
  <1>8. Len(Chunk(f, size)) = c
    BY <1>1, <1>4, <1>5
  <1>. QED BY <1>4, <1>5, <1>6, <1>7, <1>8 DEF Behind

-----------------------------------------------------------------------------
(* The lines of a file.                                                     *)

EndsOf(f) == {i \in 1 .. Len(f) : f[i] = NL \/ i = Len(f)}

\* A part of a part of a sequence is a part of it.
LEMMA PartOfPart ==
    ASSUME NEW T, NEW f \in Seq(T), NEW a \in Nat, NEW b \in Nat, a <= b, b <= Len(f),
           NEW i \in Nat, NEW j \in Nat, 1 <= i, j <= b - a
    PROVE  SubSeq(SubSeq(f, a + 1, b), i, j) = SubSeq(f, a + i, a + j)
  <1>. DEFINE g == SubSeq(f, a + 1, b)
              s == SubSeq(g, i, j)
              t == SubSeq(f, a + i, a + j)
  <1>1. g \in Seq(T) /\ Len(g) = b - a /\ \A k \in 1 .. (b - a) : g[k] = f[a + k]
    OBVIOUS
  <1>. HIDE DEF g
  <1>2. CASE j < i
    <2>1. s = <<>> /\ t = <<>>
      BY <1>1, <1>2
    <2>. QED BY <2>1 DEF g
  <1>3. CASE i <= j
    <2>. DEFINE m == j - i + 1
    <2>1. m \in Nat /\ s \in Seq(T) /\ Len(s) = m /\ \A k \in 1 .. m : s[k] = g[i + k - 1]
      BY <1>1, <1>3
    <2>2. t \in Seq(T) /\ Len(t) = m /\ \A k \in 1 .. m : t[k] = f[a + i + k - 1]
      BY <1>3
    <2>. HIDE DEF s, t
    <2>3. \A k \in 1 .. m : s[k] = t[k]
      <3>. SUFFICES ASSUME NEW k \in 1 .. m PROVE s[k] = t[k]
        OBVIOUS
      <3>1. i + k - 1 \in 1 .. (b - a)
        BY <1>3
      <3>2. g[i + k - 1] = f[a + (i + k - 1)]
        BY <1>1, <3>1
      <3>3. a + (i + k - 1) = a + i + k - 1
        OBVIOUS
      <3>. QED BY <2>1, <2>2, <3>2, <3>3
    <2>4. s = t
      <3>. HIDE DEF m
      <3>. QED BY <2>1, <2>2, <2>3, SeqEqual
    <2>. QED BY <2>4 DEF s, t, g
  <1>. QED BY <1>2, <1>3

\* Where the kth line begins, and its text, newline and all.
StartOf(f, k) == IF k = 1 THEN 1 ELSE Ascending(EndsOf(f))[k - 1] + 1
TextOf(f, k)  == SubSeq(f, StartOf(f, k), Ascending(EndsOf(f))[k])

\* The ends of the lines are finitely many numbers.
LEMMA EndsFacts ==
    ASSUME NEW f \in Seq(Cell)
    PROVE  /\ EndsOf(f) \subseteq 1 .. Len(f)
           /\ EndsOf(f) \subseteq Nat /\ IsFiniteSet(EndsOf(f))
           /\ Cardinality(EndsOf(f)) \in Nat
  <1>1. EndsOf(f) \subseteq 1 .. Len(f) /\ Len(f) \in Nat
    BY DEF EndsOf
  <1>2. IsFiniteSet(1 .. Len(f)) /\ 1 .. Len(f) \subseteq Nat
    BY <1>1, FS_Interval
  <1>3. EndsOf(f) \subseteq Nat /\ IsFiniteSet(EndsOf(f))
    <2>. HIDE DEF EndsOf
    <2>. QED BY <1>1, <1>2, FS_Subset
  <1>. QED BY <1>1, <1>3, FS_CardinalityType

\* A string loses at most its last cell.
LEMMA ChompFacts ==
    ASSUME NEW s \in Seq(Cell)
    PROVE  Chomp(s) \in Seq(Cell) /\ Len(Chomp(s)) <= Len(s) /\ Len(s) <= Len(Chomp(s)) + 1
  BY DEF Chomp, Front, Last

\* The lines are sequences of cells, one for each end.
LEMMA LinesFacts ==
    ASSUME NEW f \in Seq(Cell)
    PROVE  /\ Lines(f) \in Seq(Seq(Cell))
           /\ Len(Lines(f)) = Cardinality(EndsOf(f))
           /\ \A k \in 1 .. Cardinality(EndsOf(f)) :
                Lines(f)[k] = Chomp(TextOf(f, k)) /\ TextOf(f, k) \in Seq(Cell)
  <1>. DEFINE end == Ascending(EndsOf(f))
              len == Cardinality(EndsOf(f))
              q   == [k \in 1 .. len |-> Chomp(TextOf(f, k))]
  <1>1. /\ end \in Seq(EndsOf(f)) /\ Len(end) = len /\ DOMAIN end = 1 .. len /\ len \in Nat
        /\ \A k \in 1 .. len : end[k] \in EndsOf(f)
    BY EndsFacts, AscendingFacts
  <1>2. Lines(f) = [k \in DOMAIN end |-> Chomp(TextOf(f, k))]
    BY Zenon DEF Lines, EndsOf, TextOf, StartOf
  <1>3. Lines(f) = q
    BY <1>1, <1>2
  <1>4. \A k \in 1 .. len : TextOf(f, k) \in Seq(Cell)
    <2>. HIDE DEF end, len
    <2>. SUFFICES ASSUME NEW k \in 1 .. len PROVE TextOf(f, k) \in Seq(Cell)
      OBVIOUS
    <2>1. end[k] \in 1 .. Len(f)
      BY <1>1, EndsFacts
    <2>2. StartOf(f, k) \in Nat \ {0}
      <3>1. CASE k = 1
        BY <3>1 DEF StartOf
      <3>2. CASE k # 1
        <4>1. k - 1 \in 1 .. len
          BY <1>1, <3>2
        <4>2. end[k - 1] \in 1 .. Len(f)
          BY <1>1, <4>1, EndsFacts
        <4>. QED BY <3>2, <4>2 DEF StartOf, end
      <3>. QED BY <3>1, <3>2
    <2>3. SubSeq(f, StartOf(f, k), end[k]) \in Seq(Cell)
      <3>. DEFINE b == StartOf(f, k)
                  e == end[k]
      <3>. HIDE DEF b, e
      <3>1. b \in Nat \ {0} /\ e \in 1 .. Len(f)
        BY <2>1, <2>2 DEF b, e
      <3>2. SubSeq(f, b, e) \in Seq(Cell)
        BY <3>1
      <3>. QED BY <3>2 DEF b, e
    <2>. QED BY <2>3 DEF TextOf, end
  <1>5. \A k \in 1 .. len : Chomp(TextOf(f, k)) \in Seq(Cell)
    BY <1>4, ChompFacts
  <1>. HIDE DEF len
  <1>6. q \in Seq(Seq(Cell)) /\ Len(q) = len
    BY <1>1, <1>5
  <1>. QED BY <1>3, <1>4, <1>6 DEF len
\* From where a line begins to its end it is one of the lines.
LEMMA LineAt ==
    ASSUME NEW f \in Seq(Cell), NEW p \in Nat, NEW e \in EndsOf(f), p < e, Boundary(f, p),
           \A i \in (p + 1) .. (e - 1) : f[i] # NL
    PROVE  /\ Rank(EndsOf(f), e) \in 1 .. Cardinality(EndsOf(f))
           /\ TextOf(f, Rank(EndsOf(f), e)) = SubSeq(f, p + 1, e)
  <1>. DEFINE E == EndsOf(f)
              k == Rank(E, e)
  <1>1. /\ E \subseteq 1 .. Len(f) /\ E \subseteq Nat /\ IsFiniteSet(E)
        /\ Cardinality(E) \in Nat /\ e \in E /\ e \in 1 .. Len(f)
    BY EndsFacts
  <1>2. /\ k \in 1 .. Cardinality(E) /\ Ascending(E)[k] = e
        /\ \A m \in E : Rank(E, m) \in 1 .. Cardinality(E) /\ Ascending(E)[Rank(E, m)] = m
    <2>. HIDE DEF E
    <2>. QED BY <1>1, AscendingFacts
  <1>3. \A l \in E : l <= e => l <= p \/ l = e
    <2>. SUFFICES ASSUME NEW l \in E, l <= e, ~(l <= p), l # e PROVE FALSE
      OBVIOUS
    <2>1. l \in (p + 1) .. (e - 1) /\ l # Len(f)
      BY <1>1
    <2>2. f[l] # NL
      BY <2>1
    <2>. QED BY <2>1, <2>2 DEF EndsOf
  <1>4. StartOf(f, k) = p + 1
    <2>1. CASE p = 0
      <3>1. AtMost(E, e) = {e}
        <4>1. \A l \in E : l <= e <=> l = e
          <5>. SUFFICES ASSUME NEW l \in E PROVE l <= e <=> l = e
            OBVIOUS
          <5>1. l \in Nat /\ l >= 1 /\ e \in Nat
            BY <1>1
          <5>. QED BY <1>3, <2>1, <5>1
        <4>. HIDE DEF E
        <4>. QED BY <1>1, <4>1 DEF AtMost
      <3>2. k = 1
        <4>. HIDE DEF E
        <4>. QED BY <3>1, FS_Singleton DEF Rank
      <3>. QED BY <2>1, <3>2 DEF StartOf
    <2>2. CASE p # 0
      <3>1. p \in E
        BY <1>1, <2>2 DEF Boundary, EndsOf
      <3>2. AtMost(E, e) = AtMost(E, p) \cup {e} /\ e \notin AtMost(E, p)
        <4>1. \A l \in E : l <= e <=> l <= p \/ l = e
          <5>. SUFFICES ASSUME NEW l \in E PROVE l <= e <=> l <= p \/ l = e
            OBVIOUS
          <5>1. l \in Nat /\ e \in Nat
            BY <1>1
          <5>. QED BY <1>3, <5>1
        <4>2. ~(e <= p)
          BY <1>1
        <4>. HIDE DEF E
        <4>. QED BY <1>1, <4>1, <4>2 DEF AtMost
      <3>3. IsFiniteSet(AtMost(E, p))
        <4>. HIDE DEF E
        <4>1. AtMost(E, p) \subseteq E
          BY DEF AtMost
        <4>. QED BY <1>1, <4>1, FS_Subset
      <3>4. k = Rank(E, p) + 1
        <4>. HIDE DEF E
        <4>. QED BY <3>2, <3>3, FS_AddElement DEF Rank
      <3>5. k # 1 /\ k - 1 = Rank(E, p) /\ Ascending(E)[k - 1] = p
        <4>. HIDE DEF E
        <4>1. Rank(E, p) \in Nat /\ Rank(E, p) # 0 /\ Ascending(E)[Rank(E, p)] = p
          BY <1>1, <1>2, <3>1
        <4>2. k - 1 = Rank(E, p)
          BY <3>4, <4>1
        <4>. QED BY <3>4, <4>1, <4>2
      <3>. QED BY <3>5 DEF StartOf
    <2>. QED BY <2>1, <2>2
  <1>. QED BY <1>2, <1>4 DEF TextOf

\* Behind a boundary one more line of the file is one more line.
LEMMA LinesAppend ==
    ASSUME NEW f \in Seq(Cell), NEW a \in Nat, NEW b \in Nat, a < b, b <= Len(f),
           Boundary(f, a), \A i \in (a + 1) .. (b - 1) : f[i] # NL
    PROVE  Lines(SubSeq(f, 1, b)) = Append(Lines(SubSeq(f, 1, a)), Chomp(SubSeq(f, a + 1, b)))
  <1>. DEFINE g == SubSeq(f, 1, a)
              h == SubSeq(f, 1, b)
              len == Cardinality(EndsOf(g))
              x == Chomp(SubSeq(f, a + 1, b))
  <1>1. /\ g \in Seq(Cell) /\ Len(g) = a /\ \A i \in 1 .. a : g[i] = f[i]
        /\ h \in Seq(Cell) /\ Len(h) = b /\ \A i \in 1 .. b : h[i] = f[i]
    OBVIOUS
  <1>2. SubSeq(h, a + 1, b) = SubSeq(f, a + 1, b)
    <2>1. SubSeq(SubSeq(f, 0 + 1, b), a + 1, b) = SubSeq(f, 0 + (a + 1), 0 + b)
      BY PartOfPart
    <2>. QED BY <2>1
  <1>3. \A i, j \in Nat : 1 <= i /\ j <= a => SubSeq(h, i, j) = SubSeq(g, i, j)
    <2>. SUFFICES ASSUME NEW i \in Nat, NEW j \in Nat, 1 <= i, j <= a
                  PROVE  SubSeq(h, i, j) = SubSeq(g, i, j)
      OBVIOUS
    <2>1. SubSeq(SubSeq(f, 0 + 1, b), i, j) = SubSeq(f, 0 + i, 0 + j)
      BY PartOfPart
    <2>2. SubSeq(SubSeq(f, 0 + 1, a), i, j) = SubSeq(f, 0 + i, 0 + j)
      BY PartOfPart
    <2>. QED BY <2>1, <2>2
  <1>4. SubSeq(f, a + 1, b) \in Seq(Cell)
    OBVIOUS
  <1>. HIDE DEF g, h
  <1>5. EndsOf(h) = EndsOf(g) \cup {b}
    <2>1. \A i \in EndsOf(h) : i \in EndsOf(g) \/ i = b
      <3>. SUFFICES ASSUME NEW i \in EndsOf(h), i # b PROVE i \in EndsOf(g)
        OBVIOUS
      <3>1. i \in 1 .. b /\ f[i] = NL
        BY <1>1 DEF EndsOf
      <3>2. i \in 1 .. a
        BY <3>1
      <3>. QED BY <1>1, <3>1, <3>2 DEF EndsOf
    <2>2. \A i \in EndsOf(g) : i \in EndsOf(h)
      <3>. SUFFICES ASSUME NEW i \in EndsOf(g) PROVE i \in EndsOf(h)
        OBVIOUS
      <3>1. i \in 1 .. a /\ (g[i] = NL \/ i = a)
        BY <1>1 DEF EndsOf
      <3>2. i \in 1 .. b /\ f[i] = NL
        BY <1>1, <3>1 DEF Boundary
      <3>. QED BY <1>1, <3>2 DEF EndsOf
    <2>3. b \in EndsOf(h)
      BY <1>1 DEF EndsOf
    <2>. QED BY <2>1, <2>2, <2>3
  <1>6. /\ EndsOf(g) \subseteq 1 .. a /\ EndsOf(g) \subseteq Nat /\ IsFiniteSet(EndsOf(g))
        /\ len \in Nat
    BY <1>1, EndsFacts
  <1>7. \A l \in EndsOf(g) : l < b
    BY <1>6
  <1>8. /\ Ascending(EndsOf(h)) = Append(Ascending(EndsOf(g)), b)
        /\ Cardinality(EndsOf(h)) = len + 1
    BY <1>5, <1>6, <1>7, AscendingAppend
  <1>9. /\ Ascending(EndsOf(g)) \in Seq(EndsOf(g)) /\ Len(Ascending(EndsOf(g))) = len
        /\ \A k \in 1 .. len : Ascending(EndsOf(g))[k] \in 1 .. a
    BY <1>6, AscendingFacts
  <1>10. /\ \A k \in 1 .. len : Ascending(EndsOf(h))[k] = Ascending(EndsOf(g))[k]
         /\ Ascending(EndsOf(h))[len + 1] = b
    <2>. DEFINE q == Ascending(EndsOf(g))
    <2>. HIDE DEF q, len
    <2>1. /\ \A k \in 1 .. len : Append(q, b)[k] = q[k]
          /\ Append(q, b)[len + 1] = b
      BY <1>6, <1>9, SMTT(30) DEF q
    <2>. QED BY <1>8, <2>1 DEF q
  <1>11. /\ Lines(g) \in Seq(Seq(Cell)) /\ Len(Lines(g)) = len
         /\ \A k \in 1 .. len : Lines(g)[k] = Chomp(TextOf(g, k))
         /\ Lines(h) \in Seq(Seq(Cell)) /\ Len(Lines(h)) = len + 1
         /\ \A k \in 1 .. (len + 1) : Lines(h)[k] = Chomp(TextOf(h, k))
    BY <1>1, <1>8, LinesFacts
  <1>12. \A k \in 1 .. len : TextOf(h, k) = TextOf(g, k)
    <2>. SUFFICES ASSUME NEW k \in 1 .. len PROVE TextOf(h, k) = TextOf(g, k)
      OBVIOUS
    <2>. DEFINE s == StartOf(g, k)
                e == Ascending(EndsOf(g))[k]
    <2>1. s \in Nat /\ 1 <= s /\ StartOf(h, k) = s
      <3>1. CASE k = 1
        BY <3>1 DEF StartOf
      <3>2. CASE k # 1
        <4>1. k - 1 \in 1 .. len
          BY <1>6, <3>2
        <4>2. /\ Ascending(EndsOf(g))[k - 1] \in 1 .. a
              /\ Ascending(EndsOf(h))[k - 1] = Ascending(EndsOf(g))[k - 1]
          BY <1>9, <1>10, <4>1
        <4>. QED BY <3>2, <4>2 DEF StartOf
      <3>. QED BY <3>1, <3>2
    <2>2. e \in Nat /\ e <= a /\ Ascending(EndsOf(h))[k] = e
      BY <1>9, <1>10
    <2>. HIDE DEF s, e
    <2>3. SubSeq(h, s, e) = SubSeq(g, s, e)
      BY <1>3, <2>1, <2>2
    <2>. QED BY <2>1, <2>2, <2>3 DEF TextOf, s, e
  <1>13. TextOf(h, len + 1) = SubSeq(f, a + 1, b)
    <2>1. b \in EndsOf(h) /\ EndsOf(h) \subseteq Nat /\ IsFiniteSet(EndsOf(h))
      BY <1>1, <1>5, EndsFacts
    <2>2. Rank(EndsOf(h), b) = len + 1
      <3>1. len + 1 \in 1 .. Cardinality(EndsOf(h))
        BY <1>6, <1>8
      <3>. QED BY <1>10, <2>1, <3>1, AscendingFacts
    <2>3. Boundary(h, a) /\ \A i \in (a + 1) .. (b - 1) : h[i] # NL
      BY <1>1, SMTT(30) DEF Boundary
    <2>4. TextOf(h, Rank(EndsOf(h), b)) = SubSeq(h, a + 1, b)
      BY <1>1, <2>1, <2>3, LineAt
    <2>. QED BY <1>2, <2>2, <2>4
  <1>14. x \in Seq(Cell)
    BY <1>4, ChompFacts
  <1>15. \A k \in 1 .. (len + 1) : Lines(h)[k] = Append(Lines(g), x)[k]
    <2>. DEFINE q == Lines(g)
    <2>. HIDE DEF len, q
    <2>1. /\ \A k \in 1 .. len : Append(q, x)[k] = q[k]
          /\ Append(q, x)[len + 1] = x
      BY <1>6, <1>11 DEF q
    <2>2. Lines(h)[len + 1] = x
      <3>1. len + 1 \in 1 .. (len + 1)
        BY <1>6
      <3>2. Lines(h)[len + 1] = Chomp(TextOf(h, len + 1))
        BY <1>11, <3>1
      <3>. QED BY <1>13, <3>2
    <2>3. \A k \in 1 .. len : Lines(h)[k] = q[k]
      BY <1>6, <1>11, <1>12 DEF q
    <2>4. \A k \in 1 .. (len + 1) : k \in 1 .. len \/ k = len + 1
      BY <1>6
    <2>. QED BY <2>1, <2>2, <2>3, <2>4 DEF q
  <1>16. Lines(h) = Append(Lines(g), x)
    <2>1. Append(Lines(g), x) \in Seq(Seq(Cell)) /\ Len(Append(Lines(g), x)) = len + 1
      BY <1>11, <1>14
    <2>. HIDE DEF len, x
    <2>. QED BY <1>11, <1>15, <2>1, SeqEqual
  <1>. QED BY <1>16 DEF g, h
-----------------------------------------------------------------------------
(* read_line.                                                               *)

\* What is behind the first p cells of a file of length l.
LEMMA BehindFacts ==
    ASSUME NEW f \in Seq(Cell), NEW l \in Nat, l = Len(f), NEW p \in Nat, NEW c \in Nat, p + c <= l
    PROVE  /\ \A i \in 1 .. (l - p) : SubSeq(f, p + 1, l)[i] = f[p + i]
           /\ SubSeq(SubSeq(f, p + 1, l), 1, c) = SubSeq(f, p + 1, p + c)
           /\ SubSeq(SubSeq(f, p + 1, l), c + 1, l - p) = SubSeq(f, p + c + 1, l)
           /\ SubSeq(f, p + c + 1, l) \in Seq(Cell)
           /\ Len(SubSeq(f, p + c + 1, l)) = l - (p + c)
  <1>1. \A i \in 1 .. (l - p) : SubSeq(f, p + 1, l)[i] = f[p + i]
    OBVIOUS
  <1>2. SubSeq(SubSeq(f, p + 1, l), 1, c) = SubSeq(f, p + 1, p + c)
    <2>1. 1 \in Nat /\ 1 <= 1 /\ p <= l /\ l <= Len(f) /\ c <= l - p
      OBVIOUS
    <2>. QED BY <2>1, PartOfPart
  <1>3. SubSeq(SubSeq(f, p + 1, l), c + 1, l - p) = SubSeq(f, p + c + 1, l)
    <2>. DEFINE i == c + 1
                j == l - p
    <2>1. /\ i \in Nat /\ j \in Nat /\ 1 <= i /\ p <= l /\ l <= Len(f) /\ j <= l - p
          /\ p + i = p + c + 1 /\ p + j = l
      OBVIOUS
    <2>. HIDE DEF i, j
    <2>2. SubSeq(SubSeq(f, p + 1, l), i, j) = SubSeq(f, p + i, p + j)
      BY <2>1, PartOfPart
    <2>3. SubSeq(SubSeq(f, p + 1, l), i, j) = SubSeq(f, p + c + 1, l)
      BY <2>1, <2>2
    <2>. QED BY <2>3 DEF i, j
  <1>4. /\ SubSeq(f, p + c + 1, l) \in Seq(Cell)
        /\ Len(SubSeq(f, p + c + 1, l)) = l - (p + c)
    OBVIOUS
  <1>. QED BY <1>1, <1>2, <1>3, <1>4

\* A call of fgets takes the cells of f from p to q.
TakenTo(f, p, q, r, size) ==
    /\ q \in Nat /\ p < q /\ q <= Len(f) /\ q - p <= size - 1
    /\ Chunk(r, size) = SubSeq(f, p + 1, q)
    /\ RestOf(f, q, Behind(r, size))
    /\ \A i \in (p + 1) .. (q - 1) : f[i] # NL
    /\ f[q] = NL \/ q - p = size - 1 \/ q = Len(f)

\* That it takes cells of the file is so whatever of it is left, unless nothing is.
LEMMA TakenFacts ==
    ASSUME NEW f \in Seq(Cell), NEW p, NEW r, RestOf(f, p, r), r # <<>>,
           NEW size \in Nat, size >= 2
    PROVE  \E q \in Nat : TakenTo(f, p, q, r, size)
  <1>. DEFINE l == Len(f)
  <1>0. /\ l \in Nat /\ p \in Nat /\ p <= l /\ r \in Seq(Cell) /\ l = Len(f)
        /\ r = SubSeq(f, p + 1, l) /\ Len(r) = l - p
    BY DEF RestOf
  <1>. HIDE DEF l
  <1>1. PICK c \in 1 .. Len(r) :
              /\ Chunk(r, size) = SubSeq(r, 1, c) /\ Len(Chunk(r, size)) = c
              /\ Behind(r, size) = SubSeq(r, c + 1, Len(r))
              /\ c <= size - 1
              /\ \A i \in 1 .. (c - 1) : r[i] # NL
              /\ r[c] = NL \/ c = size - 1 \/ c = Len(r)
    BY <1>0, ChunkFacts
  <1>. DEFINE j == l - p
  <1>2. j \in Nat /\ Len(r) = j /\ c \in 1 .. j /\ c \in Nat \ {0} /\ p + c <= l /\ p + j = l
    BY <1>0, <1>1
  <1>3. /\ \A i \in 1 .. j : r[i] = f[p + i]
        /\ SubSeq(r, 1, c) = SubSeq(f, p + 1, p + c)
        /\ SubSeq(r, c + 1, j) = SubSeq(f, p + c + 1, l)
        /\ SubSeq(f, p + c + 1, l) \in Seq(Cell)
        /\ Len(SubSeq(f, p + c + 1, l)) = l - (p + c)
    <2>1. /\ \A i \in 1 .. (l - p) : SubSeq(f, p + 1, l)[i] = f[p + i]
          /\ SubSeq(SubSeq(f, p + 1, l), 1, c) = SubSeq(f, p + 1, p + c)
          /\ SubSeq(SubSeq(f, p + 1, l), c + 1, l - p) = SubSeq(f, p + c + 1, l)
          /\ SubSeq(f, p + c + 1, l) \in Seq(Cell)
          /\ Len(SubSeq(f, p + c + 1, l)) = l - (p + c)
      BY <1>0, <1>2, BehindFacts
    <2>2. r = SubSeq(f, p + 1, l)
      BY <1>0
    <2>. QED BY <2>1, <2>2, Zenon
  <1>. HIDE DEF j
  <1>4. /\ Chunk(r, size) = SubSeq(r, 1, c) /\ Len(Chunk(r, size)) = c
        /\ Behind(r, size) = SubSeq(r, c + 1, j)
        /\ c <= size - 1
        /\ \A i \in 1 .. (c - 1) : r[i] # NL
        /\ r[c] = NL \/ c = size - 1 \/ c = j
    BY <1>1, <1>2
  <1>5. \A i \in (p + 1) .. (p + c - 1) : f[i] # NL
    <2>. SUFFICES ASSUME NEW i \in (p + 1) .. (p + c - 1), NEW k, k = i - p PROVE f[i] # NL
      OBVIOUS
    <2>1. k \in 1 .. (c - 1) /\ k \in 1 .. j /\ p + k = i
      BY <1>0, <1>2
    <2>2. r[k] # NL /\ r[k] = f[p + k]
      BY <1>3, <1>4, <2>1
    <2>. QED BY <2>1, <2>2
  <1>6. f[p + c] = NL \/ c = size - 1 \/ p + c = l
    <2>1. c = j => p + c = l
      BY <1>2
    <2>2. r[c] = f[p + c]
      BY <1>2, <1>3
    <2>. QED BY <1>4, <2>1, <2>2
  <1>. DEFINE q == p + c
  <1>7. q \in Nat /\ p < q /\ q <= l /\ q - p = c /\ p + c + 1 = q + 1
    BY <1>0, <1>2
  <1>8. SubSeq(f, p + c + 1, l) = SubSeq(f, q + 1, l) /\ l - (p + c) = l - q
    OBVIOUS
  <1>. DEFINE b == Behind(r, size)
              t == Chunk(r, size)
  <1>9. /\ t = SubSeq(f, p + 1, q)
        /\ b = SubSeq(f, q + 1, l) /\ b \in Seq(Cell) /\ Len(b) = l - q
        /\ \A i \in (p + 1) .. (q - 1) : f[i] # NL
        /\ f[q] = NL \/ c = size - 1 \/ q = l
    <2>1. t = SubSeq(f, p + 1, q) /\ b = SubSeq(f, q + 1, l)
      BY <1>3, <1>4, <1>8
    <2>2. b \in Seq(Cell) /\ Len(b) = l - q
      BY <1>3, <1>4, <1>8
    <2>3. \A i \in (p + 1) .. (q - 1) : f[i] # NL
      <3>1. p + c - 1 = q - 1
        BY <1>0, <1>2
      <3>. HIDE DEF q
      <3>. QED BY <1>5, <3>1
    <2>4. f[q] = NL \/ c = size - 1 \/ q = l
      BY <1>6
    <2>. HIDE DEF q, b, t
    <2>. QED BY <2>1, <2>2, <2>3, <2>4
  <1>. HIDE DEF q, b, t
  <1>10. RestOf(f, q, b)
    BY <1>7, <1>9 DEF RestOf, l
  <1>11. TakenTo(f, p, q, r, size)
    <2>1. q - p <= size - 1 /\ (f[q] = NL \/ q - p = size - 1 \/ q = Len(f))
      BY <1>4, <1>7, <1>9 DEF l
    <2>. QED BY <1>7, <1>9, <1>10, <2>1 DEF TakenTo, b, t, l
  <1>. QED BY <1>7, <1>11

\* Of two parts of a sequence that follow each other.
LEMMA PartsJoin ==
    ASSUME NEW T, NEW f \in Seq(T), NEW a \in Nat, NEW p \in Nat, NEW b \in Nat,
           a <= p, p <= b, b <= Len(f)
    PROVE  SubSeq(f, a + 1, p) \o SubSeq(f, p + 1, b) = SubSeq(f, a + 1, b)
  <1>. DEFINE m == a + 1
  <1>1. m \in 1 .. (Len(f) + 1) /\ p \in (m - 1) .. Len(f) /\ b \in p .. Len(f)
    OBVIOUS
  <1>. HIDE DEF m
  <1>2. SubSeq(f, m, p) \o SubSeq(f, p + 1, b) = SubSeq(f, m, b)
    BY <1>1, ConcatAdjacentSubSeq
  <1>. QED BY <1>2 DEF m

\* At first nothing is read.
LEMMA InitRead == Init => ReadInv
  <1>. SUFFICES ASSUME Init PROVE ReadInv
    OBVIOUS
  <1>1. file \in Seq(Cell) /\ prog \in {"mycat", "mytail", "myuniq", "parse_script"}
    <2>2. Seq(Char \cup {NL}) \subseteq Seq(Cell)
      BY DEF Cell
    <2>3. Seq(Char \cup {NL, Blank, Hash} \cup Request) \subseteq Seq(Cell)
      BY DEF Cell
    <2>4. file \in Files \/ file \in Scripts
      BY DEF Init
    <2>. QED BY <2>2, <2>3, <2>4, InputAssumption DEF Init
  <1>2. rest = file /\ pc = "main" /\ unwritten = FALSE
    BY DEF Init
  <1>3. Pos = 0 /\ Told = 0
    BY <1>1, <1>2 DEF Pos, Told
  <1>4. RestOf(file, Pos, rest)
    <2>1. SubSeq(file, 1, Len(file)) = file /\ Len(file) \in Nat
      BY <1>1
    <2>. QED BY <1>1, <1>2, <1>3, <2>1 DEF RestOf
  <1>5. Boundary(file, Told)
    BY <1>3 DEF Boundary
  <1>. QED BY <1>1, <1>2, <1>4, <1>5 DEF ReadInv

\* The buffer that is being read holds the cells it should.
LEMMA ReadingFacts ==
    ASSUME NEW f \in Seq(Cell), NEW a, NEW p, NEW b, NEW size, NEW k,
           ReadingOn(f, a, p, b, size, k)
    PROVE  b \in Seq(Cell) /\ Len(b) = p - a /\ Last(b) = f[p] /\ b # <<>>
  <1>. DEFINE len == p - a
  <1>1. len \in Nat \ {0} /\ a + len = p /\ len \in 1 .. len
    BY DEF ReadingOn
  <1>2. b \in Seq(Cell) /\ Len(b) = len /\ \A i \in 1 .. len : b[i] = f[a + i]
    <2>1. a \in Nat /\ p \in Nat /\ a < p /\ p <= Len(f) /\ b = SubSeq(f, a + 1, p)
      BY DEF ReadingOn
    <2>2. \A i \in (a + 1) .. p : f[i] \in Cell
      <3>. SUFFICES ASSUME NEW i \in (a + 1) .. p PROVE f[i] \in Cell
        OBVIOUS
      <3>1. i \in 1 .. Len(f)
        BY <2>1
      <3>. QED BY <3>1
    <2>3. a + 1 \in Int /\ p \in Int
      BY <2>1
    <2>4. /\ b \in Seq(Cell)
          /\ Len(b) = IF a + 1 <= p THEN p - (a + 1) + 1 ELSE 0
          /\ \A i \in 1 .. (p - (a + 1) + 1) : b[i] = f[a + 1 + i - 1]
      BY <2>1, <2>2, <2>3, SubSeqProperties
    <2>. QED BY <2>1, <2>4
  <1>. HIDE DEF len
  <1>3. Last(b) = f[p]
    BY <1>1, <1>2 DEF Last
  <1>4. b # <<>>
    BY <1>1, <1>2
  <1>. QED BY <1>2, <1>3, <1>4 DEF len

\* The first call of fgets for a line begins it.
LEMMA StartsReading ==
    ASSUME NEW f \in Seq(Cell), NEW p, NEW r, NEW q, NEW size \in Nat, size >= 2,
           p \in Nat, Boundary(f, p), TakenTo(f, p, q, r, size)
    PROVE  ReadingOn(f, p, q, Chunk(r, size), size, 1)
  BY DEF TakenTo, ReadingOn

\* A full buffer without a newline goes on with the line.
LEMMA GoesOnReading ==
    ASSUME NEW f \in Seq(Cell), NEW p, NEW r, NEW q, NEW a, NEW b, NEW size, NEW k,
           TakenTo(f, p, q, r, size),
           ReadingOn(f, a, p, b, size, k), Len(b) = size - k, Last(b) # NL
    PROVE  ReadingOn(f, a, q, b \o Chunk(r, size), 2 * size, k + 1)
  <1>1. /\ size \in Nat /\ size >= 2 /\ a \in Nat /\ a < p /\ k \in Nat /\ p \in Nat
        /\ b = SubSeq(f, a + 1, p) /\ p - a = size - k /\ f[p] # NL
        /\ \A i \in (a + 1) .. (p - 1) : f[i] # NL
        /\ Boundary(f, a)
    BY ReadingFacts DEF ReadingOn
  <1>2. /\ q \in Nat /\ p < q /\ q <= Len(f) /\ q - p <= size - 1
        /\ Chunk(r, size) = SubSeq(f, p + 1, q)
        /\ \A i \in (p + 1) .. (q - 1) : f[i] # NL
        /\ f[q] = NL \/ q - p = size - 1 \/ q = Len(f)
    BY DEF TakenTo
  <1>3. b \o Chunk(r, size) = SubSeq(f, a + 1, q)
    <2>1. a <= p /\ p <= q
      BY <1>1, <1>2
    <2>2. SubSeq(f, a + 1, p) \o SubSeq(f, p + 1, q) = SubSeq(f, a + 1, q)
      <3>. HIDE DEF Cell
      <3>. QED BY <1>1, <1>2, <2>1, PartsJoin
    <2>. QED BY <1>1, <1>2, <2>2
  <1>4. \A i \in (a + 1) .. (q - 1) : f[i] # NL
    <2>. SUFFICES ASSUME NEW i \in (a + 1) .. (q - 1) PROVE f[i] # NL
      OBVIOUS
    <2>1. i \in (a + 1) .. (p - 1) \/ i = p \/ i \in (p + 1) .. (q - 1)
      BY <1>1, <1>2
    <2>. QED BY <1>1, <1>2, <2>1
  <1>. DEFINE twice == 2 * size
              more  == k + 1
              text  == b \o Chunk(r, size)
  <1>5. /\ twice \in Nat /\ twice >= 2 /\ more \in Nat
        /\ q - a <= twice - more
        /\ q - p = size - 1 => q - a = twice - more
    BY <1>1, <1>2
  <1>6. text = SubSeq(f, a + 1, q) /\ a < q
    BY <1>1, <1>2, <1>3
  <1>. HIDE DEF twice, more, text
  <1>7. ReadingOn(f, a, q, text, twice, more)
    BY <1>1, <1>2, <1>4, <1>5, <1>6 DEF ReadingOn
  <1>. QED BY <1>7 DEF twice, more, text

\* What ReadInv says when read_line may go on.
LEMMA ReadMeans ==
    ReadInv => /\ file \in Seq(Cell) /\ RestOf(file, Pos, rest) /\ Pos \in Nat
               /\ Len(file) \in Nat /\ Len(rest) \in Nat /\ Len(rest) = Len(file) - Pos
               /\ rest = <<>> <=> Pos = Len(file)
  <1>. SUFFICES ASSUME ReadInv
                PROVE  /\ file \in Seq(Cell) /\ RestOf(file, Pos, rest) /\ Pos \in Nat
                       /\ Len(file) \in Nat /\ Len(rest) \in Nat /\ Len(rest) = Len(file) - Pos
                       /\ rest = <<>> <=> Pos = Len(file)
    OBVIOUS
  <1>1. file \in Seq(Cell) /\ RestOf(file, Pos, rest)
    BY DEF ReadInv
  <1>2. /\ Pos \in Nat /\ Pos <= Len(file) /\ rest \in Seq(Cell)
        /\ Len(rest) = Len(file) - Pos
    BY <1>1 DEF RestOf
  <1>3. Len(file) \in Nat /\ Len(rest) \in Nat
    BY <1>1, <1>2
  <1>4. rest = <<>> <=> Len(rest) = 0
    BY <1>2
  <1>5. rest = <<>> <=> Pos = Len(file)
    <2>. HIDE DEF Pos
    <2>. QED BY <1>2, <1>3, <1>4
  <1>. QED BY <1>1, <1>2, <1>3, <1>5

\* fgets has stored what TakenTo says, and comes to q.
LEMMA PosAfter ==
    ASSUME NEW f \in Seq(Cell), NEW p, NEW q, NEW r, NEW size, TakenTo(f, p, q, r, size)
    PROVE  Len(f) - Len(Behind(r, size)) = q /\ RestOf(f, q, Behind(r, size))
  <1>1. /\ q \in Nat /\ q <= Len(f) /\ Len(f) \in Nat
        /\ RestOf(f, q, Behind(r, size)) /\ Len(Behind(r, size)) = Len(f) - q
    BY DEF TakenTo, RestOf
  <1>2. Len(f) - (Len(f) - q) = q
    BY <1>1
  <1>. QED BY <1>1, <1>2

\* The first call of fgets for a line.
LEMMA FirstReadKeepsRead == ReadInv /\ FirstRead => ReadInv' /\ Told' = Told
  <1>. SUFFICES ASSUME ReadInv, FirstRead PROVE ReadInv' /\ Told' = Told
    OBVIOUS
  <1>1. CASE rest = <<>>
    <2>1. pc' = "eof" /\ UNCHANGED <<prog, file, rest, buf, old_size, cumulative_factor, unwritten>>
      BY <1>1 DEF FirstRead, reader, input
    <2>2. Told' = Told
      BY <2>1 DEF Told, Pos, FirstRead
    <2>. QED BY <1>1, <2>1, <2>2 DEF ReadInv, FirstRead, Pos
  <1>2. CASE rest # <<>>
    <2>1. /\ file \in Seq(Cell) /\ RestOf(file, Pos, rest) /\ Pos \in Nat
          /\ unwritten = FALSE /\ Boundary(file, Pos) /\ pc = "read"
          /\ prog # "parse_script" /\ prog \in {"mycat", "mytail", "myuniq", "parse_script"}
      BY <1>2, ReadMeans DEF ReadInv, FirstRead, Told
    <2>2. /\ buf' = Chunk(rest, MINIMUM_SIZE) /\ rest' = Behind(rest, MINIMUM_SIZE)
          /\ old_size' = MINIMUM_SIZE /\ cumulative_factor' = 1
          /\ pc' = "grow" /\ unwritten' = unwritten /\ prog' = prog /\ file' = file
      BY <1>2 DEF FirstRead, input
    <2>3. MINIMUM_SIZE \in Nat /\ MINIMUM_SIZE >= 2
      BY SizesAssumption
    <2>4. PICK q \in Nat : TakenTo(file, Pos, q, rest, MINIMUM_SIZE)
      BY <1>2, <2>1, <2>3, TakenFacts
    <2>5. ReadingOn(file, Pos, q, buf', MINIMUM_SIZE, 1)
      BY <2>1, <2>2, <2>3, <2>4, StartsReading
    <2>6. Len(buf') = q - Pos
      BY <2>1, <2>5, ReadingFacts
    <2>7. Pos' = q /\ RestOf(file, q, rest')
      BY <2>1, <2>2, <2>4, PosAfter DEF Pos
    <2>8. Told' = Pos
      <3>1. Told' = Pos' - Len(buf')
        BY <2>2 DEF Told
      <3>2. q - (q - Pos) = Pos
        BY <2>1
      <3>. QED BY <2>6, <2>7, <3>1, <3>2
    <2>9. Reading'
      BY <2>2, <2>5, <2>7, <2>8 DEF Reading
    <2>10. Told = Pos
      BY <2>1 DEF Told
    <2>. QED BY <2>1, <2>2, <2>7, <2>8, <2>9, <2>10 DEF ReadInv
  <1>. QED BY <1>1, <1>2

\* The calls of fgets after it.
LEMMA GrowKeepsRead == ReadInv /\ Grow => ReadInv' /\ (~unwritten' => Told' = Told)
  <1>. SUFFICES ASSUME ReadInv, Grow PROVE ReadInv' /\ (~unwritten' => Told' = Told)
    OBVIOUS
  <1>1. /\ file \in Seq(Cell) /\ RestOf(file, Pos, rest) /\ Pos \in Nat
        /\ pc = "grow" /\ prog # "parse_script"
        /\ prog \in {"mycat", "mytail", "myuniq", "parse_script"}
        /\ unwritten \in BOOLEAN
    BY ReadMeans DEF ReadInv, Grow
  <1>2. pc' = pc /\ prog' = prog /\ file' = file
    BY DEF Grow, input
  <1>3. CASE rest = <<>>
    <2>1. rest' = rest /\ unwritten' = TRUE
      BY <1>3 DEF Grow
    <2>2. file # <<>> /\ Last(file) # NL
      <3>1. CASE unwritten
        BY <3>1 DEF ReadInv
      <3>2. CASE ~unwritten
        <4>1. Reading /\ Last(buf) # NL
          BY <1>1, <3>2 DEF ReadInv, Grow, Full
        <4>2. Pos = Len(file) /\ Last(buf) = file[Pos] /\ Told < Pos /\ Told \in Nat
          <5>1. Last(buf) = file[Pos]
            BY <1>1, <4>1, ReadingFacts DEF Reading
          <5>2. Pos = Len(file)
            BY <1>3, ReadMeans
          <5>. QED BY <4>1, <5>1, <5>2 DEF Reading, ReadingOn
        <4>. QED BY <1>1, <4>1, <4>2 DEF Last
      <3>. QED BY <1>1, <3>1, <3>2
    <2>3. Pos' = Pos
      BY <1>2, <2>1 DEF Pos
    <2>. QED BY <1>1, <1>2, <1>3, <2>1, <2>2, <2>3 DEF ReadInv
  <1>4. CASE rest # <<>>
    <2>1. unwritten = FALSE /\ Reading /\ Boundary(file, Told)
      BY <1>1, <1>4 DEF ReadInv
    <2>2. /\ buf' = buf \o Chunk(rest, old_size) /\ rest' = Behind(rest, old_size)
          /\ old_size' = 2 * old_size /\ cumulative_factor' = cumulative_factor + 1
          /\ unwritten' = unwritten
          /\ Len(buf) = old_size - cumulative_factor /\ Last(buf) # NL
      BY <1>4 DEF Grow, Full
    <2>3. old_size \in Nat /\ old_size >= 2 /\ Told \in Nat
      BY <2>1 DEF Reading, ReadingOn
    <2>4. PICK q \in Nat : TakenTo(file, Pos, q, rest, old_size)
      BY <1>1, <1>4, <2>3, TakenFacts
    <2>5. ReadingOn(file, Told, q, buf', old_size', cumulative_factor')
      <3>1. ReadingOn(file, Told, q, buf \o Chunk(rest, old_size), 2 * old_size, cumulative_factor + 1)
        BY <1>1, <2>1, <2>2, <2>4, GoesOnReading DEF Reading
      <3>. QED BY <2>2, <3>1
    <2>6. Len(buf') = q - Told
      BY <1>1, <2>5, ReadingFacts
    <2>7. Pos' = q /\ RestOf(file, q, rest')
      BY <1>1, <1>2, <2>2, <2>4, PosAfter DEF Pos
    <2>8. Told' = Told
      <3>1. Told' = Pos' - Len(buf')
        BY <1>1, <1>2 DEF Told
      <3>2. q - (q - Told) = Told
        BY <2>3
      <3>. QED BY <2>6, <2>7, <3>1, <3>2
    <2>9. Reading'
      BY <1>2, <2>5, <2>7, <2>8 DEF Reading
    <2>. QED BY <1>1, <1>2, <2>1, <2>2, <2>7, <2>8, <2>9 DEF ReadInv
  <1>. QED BY <1>3, <1>4

\* read_line returns: the line has been read to its end, and not beyond.
LEMMA LineRead ==
    ASSUME ReadInv, pc = "grow", ~Full, ~unwritten
    PROVE  /\ file[Pos] = NL \/ rest = <<>>
           /\ Lines(SubSeq(file, 1, Pos)) = Append(Lines(SubSeq(file, 1, Told)), Line)
           /\ Line \in Seq(Cell) /\ Told \in Nat /\ Told < Pos
  <1>1. Reading /\ file \in Seq(Cell) /\ (rest = <<>> <=> Pos = Len(file))
    BY ReadMeans DEF ReadInv
  <1>2. /\ buf \in Seq(Cell) /\ Len(buf) = Pos - Told /\ Last(buf) = file[Pos]
    BY <1>1, ReadingFacts DEF Reading
  <1>3. /\ Told \in Nat /\ Pos \in Nat /\ Told < Pos /\ Pos <= Len(file)
        /\ buf = SubSeq(file, Told + 1, Pos) /\ Boundary(file, Told)
        /\ \A i \in (Told + 1) .. (Pos - 1) : file[i] # NL
        /\ Pos - Told = old_size - cumulative_factor \/ file[Pos] = NL \/ Pos = Len(file)
    BY <1>1 DEF Reading, ReadingOn
  <1>4. file[Pos] = NL \/ rest = <<>>
    BY <1>1, <1>2, <1>3 DEF Full
  <1>5. Lines(SubSeq(file, 1, Pos)) = Append(Lines(SubSeq(file, 1, Told)), Chomp(SubSeq(file, Told + 1, Pos)))
    BY <1>1, <1>3, LinesAppend
  <1>6. Line \in Seq(Cell)
    BY <1>2, ChompFacts DEF Line
  <1>. QED BY <1>3, <1>4, <1>5, <1>6 DEF Line

\* A line goes to the program.
LEMMA ReturnedKeepsRead ==
    ASSUME NEW p, ReadInv, Returned(p)
    PROVE  ReadInv' /\ pc = "grow" /\ ~Full /\ pc' = "read" /\ Pos' = Pos /\ Told' = Pos
  <1>1. /\ pc = "grow" /\ ~Full /\ pc' = "read"
        /\ UNCHANGED <<prog, file, rest, unwritten>>
    BY DEF Returned, input, reader
  <1>2. Pos' = Pos /\ Told' = Pos
    BY <1>1 DEF Pos, Told
  <1>3. rest # <<>> => Boundary(file, Pos)
    <2>. SUFFICES ASSUME rest # <<>> PROVE Boundary(file, Pos)
      OBVIOUS
    <2>1. ~unwritten
      BY DEF ReadInv
    <2>. QED BY <1>1, <2>1, LineRead DEF Boundary
  <1>4. ReadInv'
    BY <1>1, <1>2, <1>3 DEF ReadInv
  <1>. QED BY <1>1, <1>2, <1>4

\* The end of the file is found.
LEMMA AtEndKeepsRead ==
    ASSUME NEW p, ReadInv, AtEnd(p)
    PROVE  ReadInv' /\ Pos' = Pos /\ Told' = Told
  <1>1. pc = "eof" /\ pc' = "done" /\ UNCHANGED <<prog, file, rest, unwritten>>
    BY DEF AtEnd, input, reader
  <1>2. Pos' = Pos /\ Told' = Told
    BY <1>1 DEF Pos, Told
  <1>. QED BY <1>1, <1>2 DEF ReadInv

\* A program opens its file, or fails to.
LEMMA OpensKeepsRead ==
    ASSUME ReadInv, pc = "main", pc' \in {"read", "error"}, UNCHANGED <<prog, file, rest, unwritten>>
    PROVE  ReadInv' /\ Pos' = 0 /\ Told' = 0
  <1>1. rest = file /\ Len(file) \in Nat
    BY ReadMeans DEF ReadInv
  <1>2. Pos = 0
    BY <1>1 DEF Pos
  <1>3. Pos' = Pos /\ Told' = Pos
    BY DEF Pos, Told
  <1>. QED BY <1>2, <1>3 DEF ReadInv, Boundary

\* parse_script's call of fgets.
LEMMA ScriptTakes ==
    ASSUME ReadInv, prog = "parse_script", pc = "read", rest # <<>>,
           rest' = Behind(rest, MAX_SCRIPT_LINE_LEN), file' = file
    PROVE  \E q \in Nat : /\ TakenTo(file, Pos, q, rest, MAX_SCRIPT_LINE_LEN)
                          /\ Pos' = q /\ RestOf(file, q, rest')
  <1>1. file \in Seq(Cell) /\ RestOf(file, Pos, rest)
    BY ReadMeans
  <1>2. MAX_SCRIPT_LINE_LEN \in Nat /\ MAX_SCRIPT_LINE_LEN >= 2
    BY SizesAssumption
  <1>3. PICK q \in Nat : TakenTo(file, Pos, q, rest, MAX_SCRIPT_LINE_LEN)
    BY <1>1, <1>2, TakenFacts
  <1>4. Pos' = q /\ RestOf(file, q, rest')
    BY <1>1, <1>3, PosAfter DEF Pos
  <1>. QED BY <1>3, <1>4

\* A line of a script is skipped or read, well formed or not.
LEMMA ScriptKeepsRead == ReadInv /\ (ScriptSkip \/ ScriptLine \/ ScriptEnd) => ReadInv'
  <1>1. ASSUME ReadInv, prog = "parse_script", pc = "read", rest # <<>>,
               rest' = Behind(rest, MAX_SCRIPT_LINE_LEN),
               UNCHANGED <<prog, file, unwritten>>, pc' \in {"read", "error"}
        PROVE  ReadInv'
    <2>1. PICK q \in Nat : /\ TakenTo(file, Pos, q, rest, MAX_SCRIPT_LINE_LEN)
                           /\ Pos' = q /\ RestOf(file, q, rest')
      BY <1>1, ScriptTakes
    <2>2. unwritten = FALSE
      BY <1>1 DEF ReadInv
    <2>. QED BY <1>1, <2>1, <2>2 DEF ReadInv
  <1>2. ReadInv /\ ScriptSkip => ReadInv'
    BY <1>1 DEF ScriptSkip, input, reader
  <1>3. ReadInv /\ ScriptLine => ReadInv'
    <2>. SUFFICES ASSUME ReadInv, ScriptLine PROVE ReadInv'
      OBVIOUS
    <2>1. /\ prog = "parse_script" /\ pc = "read" /\ rest # <<>>
          /\ rest' = Behind(rest, MAX_SCRIPT_LINE_LEN)
          /\ UNCHANGED <<prog, file, unwritten>> /\ pc' \in {"read", "error"}
      BY DEF ScriptLine, input, reader
    <2>. QED BY <1>1, <2>1
  <1>4. ReadInv /\ ScriptEnd => ReadInv'
    <2>. SUFFICES ASSUME ReadInv, ScriptEnd PROVE ReadInv'
      OBVIOUS
    <2>1. /\ prog = "parse_script" /\ rest = <<>> /\ pc' \in {"done", "error"}
          /\ UNCHANGED <<prog, file, rest, unwritten>>
      BY DEF ScriptEnd, input, reader
    <2>2. Pos' = Pos
      BY <2>1 DEF Pos
    <2>. QED BY <2>1, <2>2 DEF ReadInv
  <1>. QED BY <1>2, <1>3, <1>4

\* No step disturbs it.
LEMMA NextRead == ReadInv /\ [Next]_vars => ReadInv'
  <1>. SUFFICES ASSUME ReadInv, [Next]_vars PROVE ReadInv'
    OBVIOUS
  <1>1. CASE FirstRead
    BY <1>1, FirstReadKeepsRead
  <1>2. CASE Grow
    BY <1>2, GrowKeepsRead
  <1>3. CASE CatLine \/ TailLine \/ UniqLine
    BY <1>3, ReturnedKeepsRead DEF CatLine, TailLine, UniqLine
  <1>4. CASE CatEnd \/ TailEnd \/ UniqEnd
    BY <1>4, AtEndKeepsRead DEF CatEnd, TailEnd, UniqEnd
  <1>5. CASE CatMain \/ TailMain \/ UniqMain \/ ScriptMain
    <2>1. pc = "main" /\ pc' \in {"read", "error"} /\ UNCHANGED <<prog, file, rest, unwritten>>
      BY <1>5 DEF CatMain, TailMain, UniqMain, ScriptMain, Opens, input, reader
    <2>. QED BY <2>1, OpensKeepsRead
  <1>6. CASE ScriptSkip \/ ScriptLine \/ ScriptEnd
    BY <1>6, ScriptKeepsRead
  <1>7. CASE Exit \/ UNCHANGED vars
    <2>1. UNCHANGED <<prog, file, rest, buf, old_size, cumulative_factor, pc, unwritten>>
      BY <1>7 DEF Exit, vars
    <2>2. Pos' = Pos /\ Told' = Told
      BY <2>1 DEF Pos, Told
    <2>3. Reading' <=> Reading
      BY <2>1, <2>2 DEF Reading
    <2>. QED BY <2>1, <2>2, <2>3 DEF ReadInv
  <1>. QED BY <1>1, <1>2, <1>3, <1>4, <1>5, <1>6, <1>7 DEF Next

\* What fgets has left is always the end of the file, and read_line's buffer the
\* beginning of one of its lines.
THEOREM ReadRight == Spec => []ReadInv
  <1>. QED BY InitRead, NextRead, PTL DEF Spec

\* read_line returns whole lines, one after the other, however often its buffer has
\* grown, except for the last line of a file without a newline at its end, where it
\* may have used memory that fgets did not write (util.c, read_line).
THEOREM WholeLineHolds == Spec => []WholeLineUnlessCutOff
  <1>1. ReadInv => WholeLineUnlessCutOff
    <2>. SUFFICES ASSUME ReadInv PROVE WholeLineUnlessCutOff
      OBVIOUS
    <2>1. unwritten => rest = <<>> /\ Last(file) # NL
      BY DEF ReadInv
    <2>2. ASSUME ~unwritten, pc = "grow", ~Full
          PROVE  Line = Last(Lines(consumed)) /\ (Last(consumed) = NL \/ rest = <<>>)
      <3>1. /\ file[Pos] = NL \/ rest = <<>>
            /\ Lines(SubSeq(file, 1, Pos)) = Append(Lines(SubSeq(file, 1, Told)), Line)
            /\ Line \in Seq(Cell) /\ Told \in Nat /\ Told < Pos
        BY <2>2, LineRead
      <3>2. file \in Seq(Cell) /\ Pos \in Nat /\ Pos <= Len(file) /\ consumed = SubSeq(file, 1, Pos)
        BY ReadMeans DEF RestOf, consumed, Pos
      <3>3. Last(consumed) = file[Pos]
        <4>. HIDE DEF Pos, Told, Cell
        <4>1. Pos \in 1 .. Pos
          BY <3>1, <3>2
        <4>2. Len(consumed) = Pos /\ consumed[Pos] = file[Pos]
          BY <3>2, <4>1
        <4>. QED BY <4>2 DEF Last
      <3>4. Lines(SubSeq(file, 1, Told)) \in Seq(Seq(Cell))
        <4>1. SubSeq(file, 1, Told) \in Seq(Cell)
          BY <3>1, <3>2
        <4>. QED BY <4>1, LinesFacts
      <3>5. Line = Last(Append(Lines(SubSeq(file, 1, Told)), Line))
        <4>. DEFINE L == Lines(SubSeq(file, 1, Told))
        <4>. HIDE DEF L
        <4>1. Line = Last(Append(L, Line))
          BY <3>1, <3>4 DEF Last, L
        <4>. QED BY <4>1 DEF L
      <3>. QED BY <3>1, <3>2, <3>3, <3>5
    <2>. QED BY <2>1, <2>2 DEF WholeLineUnlessCutOff, WholeLine
  <1>. QED BY <1>1, ReadRight, PTL
-----------------------------------------------------------------------------
(* mycat.                                                                   *)

Filled(L, k) == {j \in 1 .. k : L[j] # <<>>}

\* Before the first line nothing is printed.
LEMMA CattedEmpty == Catted(<<>>, <<>>, 0)
  <1>1. {j \in 1 .. Len(<<>>) : <<>>[j] # <<>>} = {}
    OBVIOUS
  <1>2. Cardinality({j \in 1 .. Len(<<>>) : <<>>[j] # <<>>}) = 0
    BY <1>1, FS_EmptySet, Zenon
  <1>3. Len(<<>>) = 0 /\ <<>> \in Seq([number : Nat \cup {NULL}, text : Seq(Cell)])
        /\ \A k \in DOMAIN <<>> : FALSE
    OBVIOUS
  <1>. QED BY <1>2, <1>3 DEF Catted

\* A line more is numbered if it is not empty.
LEMMA CattedAppend ==
    ASSUME NEW L \in Seq(Seq(Cell)), NEW o, NEW u, NEW x \in Seq(Cell), Catted(L, o, u)
    PROVE  Catted(Append(L, x),
                  Append(o, [number |-> IF x = <<>> THEN NULL ELSE u + 1, text |-> x]),
                  IF x = <<>> THEN u ELSE u + 1)
  <1>. DEFINE R == [number : Nat \cup {NULL}, text : Seq(Cell)]
              len == Len(L)
              M == Append(L, x)
              e == [number |-> IF x = <<>> THEN NULL ELSE u + 1, text |-> x]
              p == Append(o, e)
              v == IF x = <<>> THEN u ELSE u + 1
  <1>1. /\ len \in Nat /\ M \in Seq(Seq(Cell)) /\ Len(M) = len + 1 /\ DOMAIN M = 1 .. (len + 1)
        /\ \A k \in 1 .. len : M[k] = L[k]
        /\ M[len + 1] = x
    OBVIOUS
  <1>2. \A k \in 1 .. len : Filled(M, k) = Filled(L, k)
    BY <1>1 DEF Filled
  <1>3. IsFiniteSet(Filled(L, len)) /\ len + 1 \notin Filled(L, len)
    <2>1. Filled(L, len) \subseteq 1 .. len /\ len + 1 \notin 1 .. len
      BY <1>1 DEF Filled
    <2>2. IsFiniteSet(1 .. len)
      <3>1. len \in Int /\ 1 \in Int
        BY <1>1
      <3>. HIDE DEF len
      <3>. QED BY <3>1, FS_Interval
    <2>. QED BY <2>1, <2>2, FS_Subset
  <1>4. Filled(M, len + 1) = IF x = <<>> THEN Filled(L, len) ELSE Filled(L, len) \cup {len + 1}
    <2>1. \A k \in 1 .. (len + 1) : k \in 1 .. len \/ k = len + 1
      BY <1>1
    <2>2. 1 .. len \subseteq 1 .. (len + 1) /\ len + 1 \in 1 .. (len + 1)
      BY <1>1
    <2>. HIDE DEF M, len
    <2>3. CASE x = <<>>
      <3>1. \A k \in 1 .. (len + 1) : M[k] # <<>> <=> k \in 1 .. len /\ L[k] # <<>>
        BY <1>1, <2>1, <2>3
      <3>. QED BY <2>2, <2>3, <3>1 DEF Filled
    <2>4. CASE x # <<>>
      <3>1. \A k \in 1 .. (len + 1) : M[k] # <<>> <=> (k \in 1 .. len /\ L[k] # <<>>) \/ k = len + 1
        BY <1>1, <2>1, <2>4
      <3>. QED BY <2>2, <2>4, <3>1 DEF Filled
    <2>. QED BY <2>3, <2>4
  <1>5. u = Cardinality(Filled(L, len)) /\ u \in Nat
    BY <1>3, FS_CardinalityType DEF Catted, Filled
  <1>6. Cardinality(Filled(M, len + 1)) = v
    <2>1. CASE x = <<>>
      BY <1>4, <1>5, <2>1
    <2>2. CASE x # <<>>
      <3>1. Cardinality(Filled(L, len) \cup {len + 1}) = u + 1
        BY <1>3, <1>5, FS_AddElement
      <3>. QED BY <1>4, <2>2, <3>1
    <2>. QED BY <2>1, <2>2
  <1>7. o \in Seq(R) /\ Len(o) = len /\ e \in R
    BY <1>5 DEF Catted
  <1>. HIDE DEF R, e, M, len
  <1>8. p \in Seq(R) /\ Len(p) = len + 1 /\ (\A k \in 1 .. len : p[k] = o[k]) /\ p[len + 1] = e
    BY <1>7, AppendProperties
  <1>9. \A k \in 1 .. (len + 1) :
           /\ p[k].text = M[k]
           /\ p[k].number = IF M[k] = <<>> THEN NULL ELSE Cardinality(Filled(M, k))
    <2>. SUFFICES ASSUME NEW k \in 1 .. (len + 1)
                  PROVE  /\ p[k].text = M[k]
                         /\ p[k].number = IF M[k] = <<>> THEN NULL ELSE Cardinality(Filled(M, k))
      OBVIOUS
    <2>1. CASE k \in 1 .. len
      <3>1. DOMAIN L = 1 .. len
        BY DEF len
      <3>2. /\ o[k].text = L[k]
            /\ o[k].number = IF L[k] = <<>> THEN NULL ELSE Cardinality(Filled(L, k))
        BY <2>1, <3>1 DEF Catted, Filled
      <3>3. M[k] = L[k] /\ Filled(M, k) = Filled(L, k) /\ p[k] = o[k]
        BY <1>1, <1>2, <1>8, <2>1
      <3>. HIDE DEF p
      <3>4. p[k].text = M[k]
        BY <3>2, <3>3
      <3>5. p[k].number = IF M[k] = <<>> THEN NULL ELSE Cardinality(Filled(M, k))
        BY <3>2, <3>3
      <3>. QED BY <3>4, <3>5
    <2>2. CASE k = len + 1
      <3>1. e.text = x /\ e.number = IF x = <<>> THEN NULL ELSE v
        BY DEF e
      <3>. HIDE DEF p
      <3>. QED BY <1>1, <1>6, <1>8, <2>2, <3>1
    <2>3. k \in 1 .. len \/ k = len + 1
      <3>1. len \in Nat
        BY <1>1
      <3>. QED BY <3>1
    <2>. QED BY <2>1, <2>2, <2>3, Zenon
  <1>10. Catted(M, p, v)
    <2>. HIDE DEF p, v
    <2>. QED BY <1>1, <1>6, <1>8, <1>9 DEF Catted, Filled, R
  <1>. QED BY <1>10 DEF M, e

-----------------------------------------------------------------------------
(* mytail.                                                                  *)

\* A remainder is determined.
LEMMA OneRemainder ==
    ASSUME NEW m \in Nat \ {0}, NEW c \in Int, NEW d \in Int,
           NEW r \in 0 .. (m - 1), NEW t \in 0 .. (m - 1), (m * c) + r = (m * d) + t
    PROVE  r = t
  <1>. DEFINE e == m * (d - c)
  <1>1. e = (m * d) - (m * c) /\ e \in Int
    OBVIOUS
  <1>2. m * d \in Int /\ m * c \in Int
    OBVIOUS
  <1>3. d - c <= -1 => e <= -m
    OBVIOUS
  <1>4. d - c >= 1 => e >= m
    OBVIOUS
  <1>5. d - c = 0 => e = 0
    OBVIOUS
  <1>6. d - c <= -1 \/ d - c >= 1 \/ d - c = 0
    OBVIOUS
  <1>. DEFINE md == m * d
              mc == m * c
  <1>. HIDE DEF e, md, mc
  <1>7. e = r - t
    <2>1. mc + r = md + t /\ e = md - mc /\ mc \in Int /\ md \in Int
      BY <1>1, <1>2 DEF md, mc
    <2>. QED BY <2>1
  <1>. QED BY <1>1, <1>3, <1>4, <1>5, <1>6, <1>7

\* What division leaves.
LEMMA Division ==
    ASSUME NEW m \in Nat \ {0}, NEW i \in Nat
    PROVE  /\ i % m \in 0 .. (m - 1)
           /\ \E c \in Int : i = (m * c) + (i % m)
  <1>1. i % m \in 0 .. (m - 1)
    OBVIOUS
  <1>2. i \div m \in Int /\ i = (m * (i \div m)) + (i % m)
    OBVIOUS
  <1>. QED BY <1>1, <1>2

\* A number less than m is itself modulo m, and going once round changes nothing.
LEMMA ModRound ==
    ASSUME NEW m \in Nat \ {0}, NEW i \in Nat
    PROVE  (i < m => i % m = i) /\ (i + m) % m = i % m
  <1>1. PICK c \in Int : i = (m * c) + (i % m)
    BY Division
  <1>2. i % m \in 0 .. (m - 1) /\ (i + m) % m \in 0 .. (m - 1) /\ i + m \in Nat
    BY Division
  <1>3. PICK d \in Int : i + m = (m * d) + ((i + m) % m)
    BY <1>2, Division
  <1>4. i < m => i % m = i
    <2>1. (m * 0) + i = (m * c) + (i % m)
      BY <1>1
    <2>2. i < m => i \in 0 .. (m - 1)
      OBVIOUS
    <2>. QED BY <1>2, <2>1, <2>2, OneRemainder
  <1>5. (i + m) % m = i % m
    <2>. DEFINE r == i % m
                t == (i + m) % m
    <2>1. (m * (c + 1)) + r = (m * d) + t
      <3>1. m * (c + 1) = (m * c) + m
        OBVIOUS
      <3>. DEFINE mc == m * c
                  md == m * d
                  mm == m * (c + 1)
      <3>2. mc \in Int /\ md \in Int /\ r \in Int /\ t \in Int
        BY <1>2
      <3>3. mm = mc + m /\ i = mc + r /\ i + m = md + t
        BY <1>1, <1>3, <3>1
      <3>. HIDE DEF mc, md, mm, r, t
      <3>4. mm + r = md + t
        BY <3>2, <3>3
      <3>. QED BY <3>4 DEF mm, md
    <2>2. r \in 0 .. (m - 1) /\ t \in 0 .. (m - 1) /\ c + 1 \in Int
      BY <1>2
    <2>. HIDE DEF r, t
    <2>3. t = r
      BY <2>1, <2>2, OneRemainder
    <2>. QED BY <2>3 DEF r, t
  <1>. QED BY <1>4, <1>5

\* Numbers less than m apart are different modulo m.
LEMMA ModApart ==
    ASSUME NEW m \in Nat \ {0}, NEW i \in Nat, NEW j \in Nat, i < j, j < i + m
    PROVE  i % m # j % m
  <1>. SUFFICES ASSUME i % m = j % m PROVE FALSE
    OBVIOUS
  <1>. DEFINE r == i % m
  <1>1. PICK c \in Int : i = (m * c) + r
    BY Division
  <1>2. PICK d \in Int : j = (m * d) + r
    BY Division
  <1>3. r \in Int
    BY Division
  <1>. DEFINE e == m * (d - c)
              md == m * d
              mc == m * c
  <1>4. e = md - mc /\ e \in Int /\ md \in Int /\ mc \in Int
    OBVIOUS
  <1>5. /\ d - c <= 0 => e <= 0
        /\ d - c >= 1 => e >= m
        /\ d - c <= 0 \/ d - c >= 1
    OBVIOUS
  <1>. HIDE DEF e, md, mc, r
  <1>6. i = mc + r /\ j = md + r
    BY <1>1, <1>2 DEF mc, md
  <1>7. e > 0 /\ e < m
    BY <1>3, <1>4, <1>6
  <1>. QED BY <1>4, <1>5, <1>7
\* A line more takes the place of the one m lines before it.
LEMMA RingedAppend ==
    ASSUME NEW L \in Seq(Seq(Cell)), NEW a, NEW u, NEW m, NEW x \in Seq(Cell), Ringed(L, a, u, m)
    PROVE  Ringed(Append(L, x), [a EXCEPT ![u % m] = x], u + 1, m)
  <1>. DEFINE M == Append(L, x)
              b == [a EXCEPT ![u % m] = x]
  <1>1. /\ u = Len(L) /\ m \in Nat \ {0} /\ u \in Nat /\ DOMAIN a = 0 .. (m - 1)
        /\ \A k \in 1 .. u : k > u - m => a[(k - 1) % m] = L[k]
    BY DEF Ringed
  <1>2. /\ Len(M) = u + 1 /\ M[u + 1] = x
        /\ \A k \in 1 .. u : M[k] = L[k]
    BY <1>1
  <1>3. u % m \in DOMAIN a
    BY <1>1, Division
  <1>4. DOMAIN b = 0 .. (m - 1) /\ b[u % m] = x /\ \A i \in DOMAIN a : i # u % m => b[i] = a[i]
    BY <1>1, <1>3
  <1>. HIDE DEF M, b
  <1>5. ASSUME NEW k \in 1 .. (u + 1), k > (u + 1) - m
        PROVE  b[(k - 1) % m] = M[k]
    <2>1. CASE k = u + 1
      <3>1. k - 1 = u
        BY <1>1, <2>1
      <3>. QED BY <1>2, <1>4, <2>1, <3>1
    <2>2. CASE k # u + 1
      <3>. DEFINE i == k - 1
      <3>1. k \in 1 .. u /\ k > u - m /\ i \in Nat /\ i < u /\ u < i + m
        BY <1>1, <1>5, <2>2
      <3>2. a[i % m] = L[k]
        BY <1>1, <3>1
      <3>. HIDE DEF i
      <3>3. i % m # u % m /\ i % m \in DOMAIN a
        BY <1>1, <3>1, ModApart, Division
      <3>4. b[i % m] = a[i % m] /\ M[k] = L[k]
        BY <1>2, <1>4, <3>1, <3>3
      <3>5. b[i % m] = M[k]
        BY <3>2, <3>4
      <3>. QED BY <3>5 DEF i
    <2>. QED BY <2>1, <2>2
  <1>6. u + 1 = Len(M)
    BY <1>2
  <1>7. Ringed(M, b, u + 1, m)
    <2>. DEFINE v == u + 1
    <2>1. \A k \in 1 .. v : k > v - m => b[(k - 1) % m] = M[k]
      BY <1>5
    <2>2. v = Len(M)
      BY <1>6
    <2>. HIDE DEF v
    <2>3. Ringed(M, b, v, m)
      BY <1>1, <1>4, <2>1, <2>2 DEF Ringed
    <2>. QED BY <2>3 DEF v
  <1>. QED BY <1>7 DEF M, b

\* The last lines, in their order, are what the ring holds from where it would go on.
LEMMA RingedOut ==
    ASSUME NEW L \in Seq(Seq(Cell)), NEW a, NEW u, NEW m, Ringed(L, a, u, m),
           NEW h, h = IF u < m THEN u ELSE m
    PROVE  [i \in 1 .. h |-> a[(u + i - 1) % h]] = SubSeq(L, Max({0, Len(L) - m}) + 1, Len(L))
  <1>. DEFINE o == [i \in 1 .. h |-> a[(u + i - 1) % h]]
              z == u - h
              q == SubSeq(L, z + 1, u)
  <1>1. /\ u = Len(L) /\ m \in Nat \ {0} /\ u \in Nat /\ DOMAIN a = 0 .. (m - 1)
        /\ \A k \in 1 .. u : k > u - m => a[(k - 1) % m] = L[k]
    BY DEF Ringed
  <1>2. h \in Nat /\ z \in Nat /\ z + h = u /\ h <= m /\ h <= u /\ z >= u - m
        /\ (u < m => z = 0) /\ (~(u < m) => z = u - m /\ h = m)
    BY <1>1
  <1>3. Max({0, Len(L) - m}) = z
    <2>1. z \in {0, Len(L) - m} /\ \A k \in {0, Len(L) - m} : k <= z
      BY <1>1, <1>2
    <2>2. \A k \in {0, Len(L) - m} : k \in Int
      BY <1>1
    <2>. DEFINE S == {0, Len(L) - m}
    <2>. HIDE DEF S, z
    <2>3. z \in S /\ (\A k \in S : k <= z) /\ \A k \in S : k \in Int
      BY <2>1, <2>2 DEF S
    <2>4. \A w \in S : (\A k \in S : w >= k) => w = z
      BY <2>3
    <2>5. \A k \in S : z >= k
      BY <2>3
    <2>6. Max(S) = z
      BY <2>3, <2>4, <2>5 DEF Max
    <2>. QED BY <2>6 DEF S
  <1>4. q \in Seq(Seq(Cell)) /\ Len(q) = h /\ \A i \in 1 .. h : q[i] = L[z + i]
    <2>. HIDE DEF z
    <2>1. z + 1 \in Nat \ {0} /\ u <= Len(L)
      BY <1>1, <1>2
    <2>. QED BY <1>1, <1>2, <2>1
  <1>5. ASSUME NEW i \in 1 .. h
        PROVE  a[(u + i - 1) % h] = L[z + i]
    <2>. DEFINE k == z + i
    <2>. HIDE DEF z
    <2>1. k \in 1 .. u /\ k > u - m /\ h \in Nat \ {0}
      BY <1>1, <1>2
    <2>2. a[(k - 1) % m] = L[k]
      BY <1>1, <2>1
    <2>3. (u + i - 1) % h = (k - 1) % m
      <3>1. CASE u < m
        <4>. DEFINE j == i - 1
        <4>1. j \in Nat /\ j < h /\ u + i - 1 = j + h /\ k - 1 = j /\ j < m
          BY <1>1, <1>2, <3>1
        <4>. HIDE DEF j, k
        <4>2. (j + h) % h = j /\ j % m = j
          BY <1>1, <2>1, <4>1, ModRound
        <4>. QED BY <4>1, <4>2
      <3>2. CASE ~(u < m)
        <4>. DEFINE j == k - 1
        <4>0. z + m = u /\ h = m /\ z \in Nat /\ m \in Nat /\ i \in Nat /\ i >= 1
          BY <1>1, <1>2, <3>2
        <4>1. j \in Nat /\ u + i - 1 = j + m /\ h = m
          BY <4>0
        <4>. HIDE DEF j
        <4>2. (j + m) % m = j % m
          BY <1>1, <4>1, ModRound
        <4>. QED BY <4>1, <4>2 DEF j
      <3>. QED BY <3>1, <3>2
    <2>. QED BY <2>2, <2>3
  <1>6. o = q
    <2>. HIDE DEF q, z
    <2>1. \A i \in 1 .. h : o[i] = q[i]
      BY <1>4, <1>5
    <2>2. DOMAIN o = 1 .. h /\ DOMAIN q = 1 .. h
      BY <1>4
    <2>3. q = [i \in 1 .. h |-> q[i]]
      BY <1>4
    <2>. QED BY <2>1, <2>3
  <1>. QED BY <1>1, <1>3, <1>6
-----------------------------------------------------------------------------
(* myuniq.                                                                  *)

\* Where a line first appears.
LEMMA FirstPlacesFacts ==
    ASSUME NEW L \in Seq(Seq(Cell))
    PROVE  /\ FirstPlaces(L) \subseteq Nat /\ FirstPlaces(L) \subseteq 1 .. Len(L)
           /\ IsFiniteSet(FirstPlaces(L))
           /\ \A k \in 1 .. Len(L) : \E j \in FirstPlaces(L) : L[j] = L[k]
  <1>. DEFINE len == Len(L)
  <1>1. len \in Nat /\ DOMAIN L = 1 .. len
    OBVIOUS
  <1>2. FirstPlaces(L) = {k \in 1 .. len : \A j \in 1 .. (k - 1) : L[j] # L[k]}
    BY <1>1 DEF FirstPlaces
  <1>. HIDE DEF len
  <1>3. FirstPlaces(L) \subseteq 1 .. len /\ FirstPlaces(L) \subseteq Nat
    BY <1>1, <1>2
  <1>4. IsFiniteSet(1 .. len)
    <2>1. len \in Int /\ 1 \in Int
      BY <1>1
    <2>. QED BY <2>1, FS_Interval
  <1>5. IsFiniteSet(FirstPlaces(L))
    BY <1>3, <1>4, FS_Subset
  <1>6. ASSUME NEW k \in 1 .. len
        PROVE  \E j \in FirstPlaces(L) : L[j] = L[k]
    <2>. DEFINE S == {j \in 1 .. len : L[j] = L[k]}
    <2>1. S \subseteq Nat /\ S # {}
      <3>1. 1 .. len \subseteq Nat /\ k \in S
        BY <1>1
      <3>. QED BY <3>1
    <2>. HIDE DEF S
    <2>2. PICK j \in S : \A i \in S : j <= i
      BY <2>1, LeastNatural
    <2>3. j \in 1 .. len /\ L[j] = L[k]
      BY <2>2 DEF S
    <2>4. \A i \in 1 .. (j - 1) : L[i] # L[j]
      <3>. SUFFICES ASSUME NEW i \in 1 .. (j - 1), L[i] = L[j] PROVE FALSE
        OBVIOUS
      <3>1. i \in 1 .. len /\ ~(j <= i)
        BY <1>1, <2>3
      <3>2. i \in S
        BY <2>3, <3>1 DEF S
      <3>. QED BY <2>2, <3>1, <3>2
    <2>. QED BY <1>2, <2>3, <2>4
  <1>. QED BY <1>3, <1>5, <1>6 DEF len

\* How a line more changes that.
LEMMA FirstPlacesAppend ==
    ASSUME NEW L \in Seq(Seq(Cell)), NEW x \in Seq(Cell)
    PROVE  FirstPlaces(Append(L, x)) =
              FirstPlaces(L) \cup {k \in {Len(L) + 1} : \A j \in 1 .. Len(L) : L[j] # x}
  <1>. DEFINE len == Len(L)
              M == Append(L, x)
  <1>1. /\ len \in Nat /\ DOMAIN L = 1 .. len /\ DOMAIN M = 1 .. (len + 1)
        /\ \A k \in 1 .. len : M[k] = L[k]
        /\ M[len + 1] = x
    OBVIOUS
  <1>2. FirstPlaces(L) = {k \in 1 .. len : \A j \in 1 .. (k - 1) : L[j] # L[k]}
    BY <1>1 DEF FirstPlaces
  <1>3. FirstPlaces(M) = {k \in 1 .. (len + 1) : \A j \in 1 .. (k - 1) : M[j] # M[k]}
    BY <1>1 DEF FirstPlaces
  <1>. HIDE DEF len, M
  <1>4. \A k \in 1 .. (len + 1) : k \in 1 .. len \/ k = len + 1
    BY <1>1
  <1>5. \A k \in 1 .. len : k \in 1 .. (len + 1) /\ \A j \in 1 .. (k - 1) : j \in 1 .. len
    BY <1>1
  <1>6. len + 1 \in 1 .. (len + 1) /\ (len + 1) - 1 = len
    BY <1>1
  <1>7. ASSUME NEW k \in FirstPlaces(M)
        PROVE  k \in FirstPlaces(L) \/ (k = len + 1 /\ \A j \in 1 .. len : L[j] # x)
    <2>1. CASE k \in 1 .. len
      BY <1>1, <1>2, <1>3, <1>5, <2>1
    <2>2. CASE k = len + 1
      BY <1>1, <1>3, <1>6, <2>2
    <2>3. k \in 1 .. (len + 1)
      BY <1>3
    <2>. QED BY <1>4, <2>1, <2>2, <2>3, Zenon
  <1>8. ASSUME NEW k \in FirstPlaces(L)
        PROVE  k \in FirstPlaces(M)
    <2>1. k \in 1 .. len /\ \A j \in 1 .. (k - 1) : L[j] # L[k]
      BY <1>2
    <2>. QED BY <1>1, <1>3, <1>5, <2>1
  <1>9. ASSUME \A j \in 1 .. len : L[j] # x
        PROVE  len + 1 \in FirstPlaces(M)
    <2>1. \A j \in 1 .. ((len + 1) - 1) : M[j] # M[len + 1]
      BY <1>1, <1>6, <1>9
    <2>. QED BY <1>3, <1>6, <2>1
  <1>. QED BY <1>7, <1>8, <1>9 DEF len, M

\* How often a line appears, and what a line more changes in that.
LEMMA TimesFacts ==
    ASSUME NEW L \in Seq(Seq(Cell)), NEW x \in Seq(Cell), NEW y
    PROVE  /\ Times(L, y) \in Nat
           /\ (\E k \in 1 .. Len(L) : L[k] = y) => Times(L, y) # 0
           /\ (\A k \in 1 .. Len(L) : L[k] # y) => Times(L, y) = 0
           /\ Times(Append(L, x), y) = IF x = y THEN Times(L, y) + 1 ELSE Times(L, y)
  <1>. DEFINE len == Len(L)
              M == Append(L, x)
              S == {k \in 1 .. len : L[k] = y}
  <1>1. /\ len \in Nat /\ DOMAIN L = 1 .. len /\ DOMAIN M = 1 .. (len + 1)
        /\ \A k \in 1 .. len : M[k] = L[k]
        /\ M[len + 1] = x
    OBVIOUS
  <1>. HIDE DEF len, M
  <1>2. IsFiniteSet(S) /\ len + 1 \notin S
    <2>1. len \in Int /\ 1 \in Int
      BY <1>1
    <2>2. IsFiniteSet(1 .. len)
      BY <2>1, FS_Interval
    <2>3. S \subseteq 1 .. len /\ len + 1 \notin 1 .. len
      BY <1>1
    <2>. HIDE DEF S
    <2>. QED BY <2>2, <2>3, FS_Subset
  <1>3. Times(L, y) = Cardinality(S) /\ Cardinality(S) \in Nat
    BY <1>1, <1>2, FS_CardinalityType DEF Times
  <1>4. (Cardinality(S) = 0) <=> (S = {})
    BY <1>2, FS_EmptySet
  <1>5. \A k \in 1 .. (len + 1) : k \in 1 .. len \/ k = len + 1
    BY <1>1
  <1>6. 1 .. len \subseteq 1 .. (len + 1) /\ len + 1 \in 1 .. (len + 1)
    BY <1>1
  <1>7. {k \in DOMAIN M : M[k] = y} = IF x = y THEN S \cup {len + 1} ELSE S
    <2>1. CASE x = y
      <3>1. \A k \in 1 .. (len + 1) : M[k] = y <=> k \in S \/ k = len + 1
        BY <1>1, <1>2, <1>5, <2>1
      <3>. QED BY <1>1, <1>6, <2>1, <3>1
    <2>2. CASE x # y
      <3>1. \A k \in 1 .. (len + 1) : M[k] = y <=> k \in S
        BY <1>1, <1>2, <1>5, <2>2
      <3>. QED BY <1>1, <1>6, <2>2, <3>1
    <2>. QED BY <2>1, <2>2
  <1>8. Times(M, y) = IF x = y THEN Times(L, y) + 1 ELSE Times(L, y)
    <2>1. CASE x = y
      <3>1. Cardinality(S \cup {len + 1}) = Cardinality(S) + 1
        BY <1>2, FS_AddElement
      <3>. QED BY <1>3, <1>7, <2>1, <3>1 DEF Times
    <2>2. CASE x # y
      BY <1>3, <1>7, <2>2 DEF Times
    <2>. QED BY <2>1, <2>2
  <1>9. (\E k \in 1 .. len : L[k] = y) <=> S # {}
    OBVIOUS
  <1>10. ((\E k \in 1 .. len : L[k] = y) => Times(L, y) # 0)
         /\ ((\A k \in 1 .. len : L[k] # y) => Times(L, y) = 0)
    <2>. HIDE DEF S
    <2>. QED BY <1>3, <1>4, <1>9, Zenon
  <1>. QED BY <1>3, <1>8, <1>10 DEF len, M
\* What Counted says of the entries, one by one.
LEMMA CountedMeans ==
    ASSUME NEW L \in Seq(Seq(Cell)), NEW a, NEW u
    PROVE  LET first == Ascending(FirstPlaces(L))
           IN  /\ first \in Seq(FirstPlaces(L)) /\ Len(first) \in Nat
               /\ \A m \in 1 .. Len(first) : first[m] \in 1 .. Len(L)
               /\ \A j \in FirstPlaces(L) : \E m \in 1 .. Len(first) : first[m] = j
               /\ Counted(L, a, u) <=>
                     /\ u = Len(first)
                     /\ \E d \in Nat : u <= d /\ DOMAIN a = 0 .. (d - 1)
                     /\ \A m \in 1 .. u :
                          a[m - 1] = [txt |-> L[first[m]], count |-> Times(L, L[first[m]])]
                     /\ \A i \in DOMAIN a : i >= u => a[i] = [txt |-> NULL, count |-> 0]
  <1>. DEFINE S == FirstPlaces(L)
              first == Ascending(S)
  <1>1. S \subseteq Nat /\ S \subseteq 1 .. Len(L) /\ IsFiniteSet(S)
    BY FirstPlacesFacts
  <1>. HIDE DEF S
  <1>2. /\ first \in Seq(S) /\ Len(first) = Cardinality(S) /\ Cardinality(S) \in Nat
        /\ \A k \in 1 .. Cardinality(S) : first[k] \in S
        /\ \A m \in S : Rank(S, m) \in 1 .. Cardinality(S) /\ first[Rank(S, m)] = m
    BY <1>1, AscendingFacts, FS_CardinalityType
  <1>3. \A m \in 1 .. Len(first) : first[m] \in 1 .. Len(L)
    BY <1>1, <1>2
  <1>. HIDE DEF first
  <1>. QED BY <1>2, <1>3, Zenon DEF Counted, S, first

\* A table in which nothing is counted yet.
LEMMA CountedEmpty ==
    ASSUME NEW a, NEW d \in Nat, DOMAIN a = 0 .. (d - 1),
           \A i \in DOMAIN a : a[i] = [txt |-> NULL, count |-> 0]
    PROVE  Counted(<<>>, a, 0)
  <1>1. FirstPlaces(<<>>) = {}
    BY DEF FirstPlaces
  <1>2. Ascending(FirstPlaces(<<>>)) = <<>>
    BY <1>1, AscendingEmpty
  <1>3. Len(<<>>) = 0 /\ 1 .. 0 = {}
    OBVIOUS
  <1>4. \E e \in Nat : 0 <= e /\ DOMAIN a = 0 .. (e - 1)
    OBVIOUS
  <1>. QED BY <1>2, <1>3, <1>4 DEF Counted

\* The table grows when it is full, and what it counts does not change.
LEMMA CountedRoomy ==
    ASSUME NEW L, Counted(L, array, used), used \in Nat
    PROVE  Counted(L, Roomy(array), used) /\ used \in DOMAIN Roomy(array)
  <1>. DEFINE first == Ascending(FirstPlaces(L))
  <1>1. PICK d \in Nat : used <= d /\ DOMAIN array = 0 .. (d - 1)
    BY DEF Counted
  <1>2. CASE used \in DOMAIN array
    BY <1>2 DEF Roomy
  <1>3. CASE used \notin DOMAIN array
    <2>1. used = d
      BY <1>1, <1>3
    <2>. DEFINE more == Unused(ESTIMATE, used)
                b    == [i \in DOMAIN array \cup DOMAIN more |->
                            IF i \in DOMAIN array THEN array[i] ELSE more[i]]
                e    == d + ESTIMATE
    <2>2. Roomy(array) = b
      BY <1>3 DEF Roomy
    <2>3. ESTIMATE \in Nat \ {0}
      BY SizesAssumption
    <2>4. /\ DOMAIN more = d .. (d + ESTIMATE - 1)
          /\ \A i \in DOMAIN more : more[i] = [txt |-> NULL, count |-> 0]
      BY <2>1 DEF Unused
    <2>. HIDE DEF more
    <2>5. e \in Nat /\ used <= e /\ DOMAIN b = 0 .. (e - 1) /\ used \in DOMAIN b
      BY <1>1, <2>1, <2>3, <2>4
    <2>6. /\ \A i \in DOMAIN array : b[i] = array[i]
          /\ \A i \in DOMAIN b : i >= used => b[i] = [txt |-> NULL, count |-> 0]
      BY <1>1, <2>1, <2>4
    <2>. HIDE DEF b, e
    <2>7. \A m \in 1 .. used : b[m - 1] = array[m - 1]
      BY <1>1, <2>6
    <2>8. Counted(L, b, used)
      BY <2>5, <2>6, <2>7 DEF Counted
    <2>. QED BY <2>2, <2>5, <2>8
  <1>. QED BY <1>2, <1>3

\* A line that has an entry is counted there.
LEMMA CountedFound ==
    ASSUME NEW L \in Seq(Seq(Cell)), NEW a, NEW u, NEW x \in Seq(Cell), Counted(L, a, u),
           NEW F, F = {i \in 0 .. (u - 1) : a[i].txt = x}, F # {}
    PROVE  Counted(Append(L, x),
                   [i \in DOMAIN a |-> IF i \in F THEN [a[i] EXCEPT !.count = @ + 1] ELSE a[i]], u)
  <1>. DEFINE len == Len(L)
              M == Append(L, x)
              first == Ascending(FirstPlaces(L))
              b == [i \in DOMAIN a |-> IF i \in F THEN [a[i] EXCEPT !.count = @ + 1] ELSE a[i]]
  <1>1. /\ len \in Nat /\ \A k \in 1 .. len : M[k] = L[k]
        /\ M \in Seq(Seq(Cell))
    OBVIOUS
  <1>2. /\ Len(first) \in Nat /\ \A m \in 1 .. Len(first) : first[m] \in 1 .. len
        /\ u = Len(first)
        /\ \A m \in 1 .. u :
              a[m - 1] = [txt |-> L[first[m]], count |-> Times(L, L[first[m]])]
        /\ \A i \in DOMAIN a : i >= u => a[i] = [txt |-> NULL, count |-> 0]
    BY CountedMeans
  <1>3. PICK d \in Nat : u <= d /\ DOMAIN a = 0 .. (d - 1)
    BY CountedMeans
  <1>. HIDE DEF M, first, len
  <1>4. \E j \in 1 .. len : L[j] = x
    <2>1. PICK i \in F : TRUE
      OBVIOUS
    <2>2. i \in 0 .. (u - 1) /\ a[i].txt = x
      BY <2>1
    <2>. DEFINE m == i + 1
    <2>3. m \in 1 .. u /\ m - 1 = i /\ m \in 1 .. Len(first)
      BY <1>2, <2>2
    <2>. HIDE DEF m
    <2>4. a[i] = [txt |-> L[first[m]], count |-> Times(L, L[first[m]])]
      BY <1>2, <2>3
    <2>5. L[first[m]] = x
      BY <2>2, <2>4
    <2>. QED BY <1>2, <2>3, <2>5
  <1>5. FirstPlaces(M) = FirstPlaces(L)
    <2>1. {k \in {Len(L) + 1} : \A j \in 1 .. Len(L) : L[j] # x} = {}
      BY <1>4 DEF len
    <2>2. FirstPlaces(M) =
              FirstPlaces(L) \cup {k \in {Len(L) + 1} : \A j \in 1 .. Len(L) : L[j] # x}
      BY FirstPlacesAppend DEF M
    <2>. QED BY <2>1, <2>2
  <1>6. ASSUME NEW m \in 1 .. u
        PROVE  b[m - 1] = [txt |-> M[first[m]], count |-> Times(M, M[first[m]])]
    <2>. DEFINE y == L[first[m]]
                i == m - 1
    <2>1. m \in 1 .. Len(first) /\ i \in 0 .. (u - 1) /\ i \in DOMAIN a
      BY <1>2, <1>3
    <2>2. M[first[m]] = y
      BY <1>1, <1>2, <2>1
    <2>3. a[i] = [txt |-> y, count |-> Times(L, y)]
      BY <1>2
    <2>4. Times(M, y) = IF x = y THEN Times(L, y) + 1 ELSE Times(L, y)
      BY TimesFacts DEF M
    <2>5. i \in F <=> y = x
      BY <2>1, <2>3
    <2>. HIDE DEF y, i
    <2>6. b[i] = [txt |-> y, count |-> Times(M, y)]
      <3>1. CASE y = x
        <4>1. b[i] = [a[i] EXCEPT !.count = @ + 1]
          BY <2>1, <2>5, <3>1
        <4>. HIDE DEF b
        <4>. QED BY <2>3, <2>4, <3>1, <4>1
      <3>2. CASE y # x
        <4>1. b[i] = a[i]
          BY <2>1, <2>5, <3>2
        <4>. HIDE DEF b
        <4>. QED BY <2>3, <2>4, <3>2, <4>1
      <3>. QED BY <3>1, <3>2
    <2>. HIDE DEF b
    <2>. QED BY <2>2, <2>6 DEF i
  <1>7. ASSUME NEW i \in DOMAIN b, i >= u
        PROVE  b[i] = [txt |-> NULL, count |-> 0]
    <2>1. i \in DOMAIN a /\ i \notin F
      BY <1>2, <1>3, <1>7
    <2>2. b[i] = a[i]
      BY <2>1
    <2>. HIDE DEF b
    <2>. QED BY <1>2, <1>7, <2>1, <2>2
  <1>8. DOMAIN b = 0 .. (d - 1)
    BY <1>3
  <1>9. Counted(M, b, u)
    <2>. HIDE DEF b
    <2>. QED BY <1>2, <1>3, <1>5, <1>6, <1>7, <1>8 DEF Counted, first
  <1>. QED BY <1>9 DEF M
\* A line that has none gets the next.
LEMMA CountedNew ==
    ASSUME NEW L \in Seq(Seq(Cell)), NEW a, NEW u, NEW x \in Seq(Cell), Counted(L, a, u),
           \A i \in 0 .. (u - 1) : a[i].txt # x, u \in DOMAIN a
    PROVE  Counted(Append(L, x),
                   [a EXCEPT ![u] = [txt |-> x, count |-> @.count + 1]], u + 1)
  <1>. DEFINE len == Len(L)
              M == Append(L, x)
              first == Ascending(FirstPlaces(L))
              next  == Ascending(FirstPlaces(M))
              b == [a EXCEPT ![u] = [txt |-> x, count |-> @.count + 1]]
              v == u + 1
  <1>1. /\ len \in Nat /\ \A k \in 1 .. len : M[k] = L[k]
        /\ M \in Seq(Seq(Cell)) /\ M[len + 1] = x
    OBVIOUS
  <1>2. /\ first \in Seq(FirstPlaces(L))
        /\ Len(first) \in Nat /\ \A m \in 1 .. Len(first) : first[m] \in 1 .. len
        /\ u = Len(first)
        /\ \A j \in FirstPlaces(L) : \E m \in 1 .. Len(first) : first[m] = j
        /\ \A m \in 1 .. u :
              a[m - 1] = [txt |-> L[first[m]], count |-> Times(L, L[first[m]])]
        /\ \A i \in DOMAIN a : i >= u => a[i] = [txt |-> NULL, count |-> 0]
    BY CountedMeans
  <1>3. PICK d \in Nat : u <= d /\ DOMAIN a = 0 .. (d - 1)
    BY Zenon DEF Counted
  <1>. HIDE DEF M, first, len
  <1>4. \A m \in 1 .. u : L[first[m]] # x
    <2>. SUFFICES ASSUME NEW m \in 1 .. u PROVE L[first[m]] # x
      OBVIOUS
    <2>. DEFINE i == m - 1
    <2>1. a[i] = [txt |-> L[first[m]], count |-> Times(L, L[first[m]])]
      BY <1>2, Zenon
    <2>2. i \in 0 .. (u - 1)
      BY <1>2
    <2>. HIDE DEF i
    <2>3. a[i].txt = L[first[m]]
      BY <2>1
    <2>. QED BY <2>2, <2>3
  <1>5. \A k \in 1 .. len : L[k] # x
    <2>. SUFFICES ASSUME NEW k \in 1 .. len PROVE L[k] # x
      OBVIOUS
    <2>1. PICK j \in FirstPlaces(L) : L[j] = L[k]
      BY FirstPlacesFacts DEF len
    <2>2. PICK m \in 1 .. u : first[m] = j
      BY <1>2
    <2>. QED BY <1>4, <2>1, <2>2
  <1>6. FirstPlaces(M) = FirstPlaces(L) \cup {len + 1}
    <2>1. {k \in {Len(L) + 1} : \A j \in 1 .. Len(L) : L[j] # x} = {Len(L) + 1}
      BY <1>5 DEF len
    <2>2. FirstPlaces(M) =
              FirstPlaces(L) \cup {k \in {Len(L) + 1} : \A j \in 1 .. Len(L) : L[j] # x}
      BY FirstPlacesAppend DEF M
    <2>. QED BY <2>1, <2>2 DEF len
  <1>7. next = Append(first, len + 1)
    <2>1. FirstPlaces(L) \subseteq Nat /\ IsFiniteSet(FirstPlaces(L)) /\ FirstPlaces(L) \subseteq 1 .. len
      BY FirstPlacesFacts DEF len
    <2>2. len + 1 \in Nat /\ \A l \in FirstPlaces(L) : l < len + 1
      BY <1>1, <2>1
    <2>3. Ascending(FirstPlaces(L) \cup {len + 1}) = Append(Ascending(FirstPlaces(L)), len + 1)
      BY <2>1, <2>2, AscendingAppend
    <2>. QED BY <1>6, <2>3 DEF first
  <1>8. Len(next) = v /\ next[v] = len + 1 /\ \A m \in 1 .. u : next[m] = first[m]
    BY <1>2, <1>7
  <1>. HIDE DEF next
  <1>9. DOMAIN b = 0 .. (d - 1) /\ v <= d /\ v \in Nat
    BY <1>2, <1>3
  <1>10. /\ b[u] = [txt |-> x, count |-> a[u].count + 1]
         /\ \A i \in DOMAIN a : i # u => b[i] = a[i]
    OBVIOUS
  <1>11. a[u].count = 0
    <2>1. u >= u
      BY <1>2
    <2>2. a[u] = [txt |-> NULL, count |-> 0]
      BY <1>2, <2>1
    <2>. QED BY <2>2
  <1>. HIDE DEF b, v
  <1>12. ASSUME NEW m \in 1 .. v
         PROVE  b[m - 1] = [txt |-> M[next[m]], count |-> Times(M, M[next[m]])]
    <2>1. m \in 1 .. u \/ m = v
      BY <1>2 DEF v
    <2>2. CASE m \in 1 .. u
      <3>. DEFINE y == L[first[m]]
                  i == m - 1
      <3>1. i \in DOMAIN a /\ i # u
        BY <1>2, <1>3, <2>2
      <3>2. a[i] = [txt |-> y, count |-> Times(L, y)]
        BY <1>2, <2>2
      <3>3. M[next[m]] = y
        BY <1>1, <1>2, <1>8, <2>2
      <3>4. Times(M, y) = Times(L, y)
        <4>1. x # y
          BY <1>4, <2>2
        <4>2. Times(M, y) = IF x = y THEN Times(L, y) + 1 ELSE Times(L, y)
          BY TimesFacts DEF M
        <4>. QED BY <4>1, <4>2
      <3>. HIDE DEF y, i
      <3>5. b[i] = [txt |-> M[next[m]], count |-> Times(M, M[next[m]])]
        BY <1>10, <3>1, <3>2, <3>3, <3>4
      <3>. QED BY <3>5 DEF i
    <2>3. CASE m = v
      <3>1. M[next[m]] = x
        BY <1>1, <1>8, <2>3
      <3>2. Times(M, x) = 1
        <4>1. Times(L, x) = 0
          BY <1>5, TimesFacts DEF len
        <4>2. Times(M, x) = IF x = x THEN Times(L, x) + 1 ELSE Times(L, x)
          BY TimesFacts DEF M
        <4>. QED BY <4>1, <4>2
      <3>3. m - 1 = u
        BY <1>2, <2>3 DEF v
      <3>. QED BY <1>10, <1>11, <3>1, <3>2, <3>3
    <2>. QED BY <2>1, <2>2, <2>3
  <1>13. ASSUME NEW i \in DOMAIN b, i >= v
         PROVE  b[i] = [txt |-> NULL, count |-> 0]
    <2>1. i \in DOMAIN a /\ i # u /\ i >= u
      BY <1>2, <1>3, <1>9, <1>13 DEF v
    <2>. QED BY <1>2, <1>10, <2>1
  <1>14. Counted(M, b, v)
    <2>1. /\ v = Len(next)
          /\ \E e \in Nat : v <= e /\ DOMAIN b = 0 .. (e - 1)
          /\ \A m \in 1 .. v :
                b[m - 1] = [txt |-> M[next[m]], count |-> Times(M, M[next[m]])]
          /\ \A i \in DOMAIN b : i >= v => b[i] = [txt |-> NULL, count |-> 0]
      BY <1>8, <1>9, <1>12, <1>13
    <2>. QED BY <2>1 DEF Counted, next
  <1>. QED BY <1>14 DEF M, b, v

\* The entries up to the first without a count are those in use.
LEMMA CountedOut ==
    ASSUME NEW L \in Seq(Seq(Cell)), NEW a, NEW u, Counted(L, a, u),
           NEW m, m = Min({Cardinality(DOMAIN a)} \cup {i \in DOMAIN a : a[i].count = 0})
    PROVE  LET first == Ascending(FirstPlaces(L))
           IN  [i \in 1 .. m |-> a[i - 1]]
                  = [k \in DOMAIN first |-> [txt |-> L[first[k]], count |-> Times(L, L[first[k]])]]
  <1>. DEFINE first == Ascending(FirstPlaces(L))
              S == {Cardinality(DOMAIN a)} \cup {i \in DOMAIN a : a[i].count = 0}
  <1>1. /\ first \in Seq(FirstPlaces(L))
        /\ Len(first) \in Nat /\ \A k \in 1 .. Len(first) : first[k] \in 1 .. Len(L)
        /\ u = Len(first)
        /\ \A k \in 1 .. u :
              a[k - 1] = [txt |-> L[first[k]], count |-> Times(L, L[first[k]])]
        /\ \A i \in DOMAIN a : i >= u => a[i] = [txt |-> NULL, count |-> 0]
    BY CountedMeans
  <1>2. PICK d \in Nat : u <= d /\ DOMAIN a = 0 .. (d - 1)
    BY CountedMeans
  <1>. HIDE DEF first
  <1>3. Cardinality(DOMAIN a) = d
    <2>1. 0 \in Int /\ d - 1 \in Int
      OBVIOUS
    <2>2. Cardinality(0 .. (d - 1)) = IF 0 > d - 1 THEN 0 ELSE (d - 1) - 0 + 1
      BY <2>1, FS_Interval
    <2>. QED BY <1>2, <2>2
  <1>4. \A k \in 1 .. u : Times(L, L[first[k]]) # 0
    <2>. SUFFICES ASSUME NEW k \in 1 .. u PROVE Times(L, L[first[k]]) # 0
      OBVIOUS
    <2>1. \E j \in 1 .. Len(L) : L[j] = L[first[k]]
      BY <1>1
    <2>2. <<>> \in Seq(Cell)
      OBVIOUS
    <2>. QED BY <2>1, <2>2, TimesFacts
  <1>5. \A i \in 0 .. (u - 1) : a[i].count # 0
    <2>. SUFFICES ASSUME NEW i \in 0 .. (u - 1) PROVE a[i].count # 0
      OBVIOUS
    <2>. DEFINE k == i + 1
    <2>1. k \in 1 .. u /\ k - 1 = i
      BY <1>1
    <2>. HIDE DEF k
    <2>2. a[i] = [txt |-> L[first[k]], count |-> Times(L, L[first[k]])]
      BY <1>1, <2>1
    <2>. QED BY <1>4, <2>1, <2>2
  <1>6. S \subseteq Nat /\ S # {}
    BY <1>2, <1>3
  <1>7. m \in S /\ \A k \in S : m <= k
    <2>. HIDE DEF S
    <2>1. m = Min(S)
      BY DEF S
    <2>. QED BY <1>6, <2>1, MinFacts
  <1>8. m = u
    <2>1. m >= u
      <3>1. CASE m = d
        BY <1>2, <3>1
      <3>2. CASE m \in DOMAIN a /\ a[m].count = 0
        BY <1>1, <1>2, <1>5, <3>2
      <3>. QED BY <1>3, <1>7, <3>1, <3>2
    <2>2. u \in S
      <3>1. CASE u = d
        BY <1>3, <3>1
      <3>2. CASE u # d
        <4>1. u \in DOMAIN a /\ u >= u
          BY <1>1, <1>2, <3>2
        <4>2. a[u] = [txt |-> NULL, count |-> 0]
          BY <1>1, <4>1
        <4>. QED BY <4>1, <4>2
      <3>. QED BY <3>1, <3>2
    <2>3. m <= u
      <3>. HIDE DEF S
      <3>. QED BY <1>7, <2>2
    <2>4. m \in Nat /\ u \in Nat
      <3>. HIDE DEF S
      <3>. QED BY <1>1, <1>6, <1>7
    <2>. QED BY <2>1, <2>3, <2>4
  <1>9. DOMAIN first = 1 .. u
    BY <1>1
  <1>10. [i \in 1 .. u |-> a[i - 1]]
            = [k \in 1 .. u |-> [txt |-> L[first[k]], count |-> Times(L, L[first[k]])]]
    BY <1>1
  <1>. QED BY <1>8, <1>9, <1>10 DEF first
-----------------------------------------------------------------------------
(* parse_script.                                                            *)

\* Which lines are requests, and how a line more changes that.
LEMMA KeptPlacesFacts ==
    ASSUME NEW L \in Seq(Seq(Cell)), NEW x \in Seq(Cell)
    PROVE  /\ KeptPlaces(L) \subseteq Nat /\ KeptPlaces(L) \subseteq 1 .. Len(L)
           /\ IsFiniteSet(KeptPlaces(L))
           /\ KeptPlaces(Append(L, x)) =
                 IF Skipped(x) THEN KeptPlaces(L) ELSE KeptPlaces(L) \cup {Len(L) + 1}
  <1>. DEFINE len == Len(L)
              M == Append(L, x)
  <1>1. /\ len \in Nat /\ DOMAIN L = 1 .. len /\ DOMAIN M = 1 .. (len + 1)
        /\ \A k \in 1 .. len : M[k] = L[k]
        /\ M[len + 1] = x
    OBVIOUS
  <1>2. /\ KeptPlaces(L) = {k \in 1 .. len : ~Skipped(L[k])}
        /\ KeptPlaces(M) = {k \in 1 .. (len + 1) : ~Skipped(M[k])}
    BY <1>1 DEF KeptPlaces
  <1>. HIDE DEF len, M
  <1>3. KeptPlaces(L) \subseteq 1 .. len /\ KeptPlaces(L) \subseteq Nat
    BY <1>1, <1>2
  <1>4. IsFiniteSet(KeptPlaces(L))
    <2>1. len \in Int /\ 1 \in Int
      BY <1>1
    <2>2. IsFiniteSet(1 .. len)
      BY <2>1, FS_Interval
    <2>. QED BY <1>3, <2>2, FS_Subset
  <1>5. \A k \in 1 .. (len + 1) : k \in 1 .. len \/ k = len + 1
    BY <1>1
  <1>6. 1 .. len \subseteq 1 .. (len + 1) /\ len + 1 \in 1 .. (len + 1) /\ len + 1 \notin 1 .. len
    BY <1>1
  <1>7. KeptPlaces(M) = IF Skipped(x) THEN KeptPlaces(L) ELSE KeptPlaces(L) \cup {len + 1}
    <2>1. CASE Skipped(x)
      <3>1. \A k \in 1 .. (len + 1) : ~Skipped(M[k]) <=> k \in 1 .. len /\ ~Skipped(L[k])
        BY <1>1, <1>5, <1>6, <2>1
      <3>. QED BY <1>2, <1>6, <2>1, <3>1
    <2>2. CASE ~Skipped(x)
      <3>1. \A k \in 1 .. (len + 1) : ~Skipped(M[k]) <=> (k \in 1 .. len /\ ~Skipped(L[k])) \/ k = len + 1
        BY <1>1, <1>5, <1>6, <2>2
      <3>. QED BY <1>2, <1>6, <2>2, <3>1
    <2>. QED BY <2>1, <2>2
  <1>. QED BY <1>3, <1>4, <1>7 DEF len, M

\* The operation that request x, on line k, becomes.
Entry(x, k) == [op |-> op(FirstMark(x)), id |-> FirstMark(x).id, size |-> FirstMark(x).size,
                lineno |-> k]

\* What Listed says of the operations, one by one.
LEMMA ListedMeans ==
    ASSUME NEW L, NEW a, NEW u, NEW line
    PROVE  LET kept == Ascending(KeptPlaces(L))
           IN  Listed(L, a, u, line) <=>
                  /\ line = Len(L) /\ u = Len(kept)
                  /\ \A i \in 1 .. u : a[i - 1] = Entry(L[kept[i]], kept[i])
  BY Zenon DEF Listed, Entry

\* Before the first line there is no operation.
LEMMA ListedEmpty ==
    ASSUME NEW a
    PROVE  Listed(<<>>, a, 0, 0)
  <1>1. KeptPlaces(<<>>) = {}
    BY DEF KeptPlaces
  <1>2. Ascending(KeptPlaces(<<>>)) = <<>>
    BY <1>1, AscendingEmpty
  <1>3. Len(<<>>) = 0 /\ 1 .. 0 = {}
    OBVIOUS
  <1>. QED BY <1>2, <1>3 DEF Listed

\* A line is skipped, or becomes the next operation.
LEMMA ListedAppend ==
    ASSUME NEW L \in Seq(Seq(Cell)), NEW a, NEW u, NEW line, NEW x \in Seq(Cell),
           NEW b, Listed(L, a, u, line), \A i \in 0 .. (u - 1) : b[i] = a[i]
    PROVE  /\ line \in Nat /\ u \in Nat
           /\ Skipped(x) => Listed(Append(L, x), b, u, line + 1)
           /\ ~Skipped(x) /\ b[u] = Entry(x, line + 1) => Listed(Append(L, x), b, u + 1, line + 1)
  <1>. DEFINE len == Len(L)
              M == Append(L, x)
              S == KeptPlaces(L)
              T == KeptPlaces(M)
              kept == Ascending(S)
              more == Ascending(T)
              v == u + 1
  <1>1. /\ len \in Nat /\ \A k \in 1 .. len : M[k] = L[k]
        /\ M[len + 1] = x /\ Len(M) = len + 1
    OBVIOUS
  <1>2. S \subseteq Nat /\ S \subseteq 1 .. len /\ IsFiniteSet(S)
    BY KeptPlacesFacts
  <1>3. T = IF Skipped(x) THEN S ELSE S \cup {len + 1}
    BY KeptPlacesFacts
  <1>4. line = len /\ u = Len(kept) /\ \A i \in 1 .. u : a[i - 1] = Entry(L[kept[i]], kept[i])
    BY ListedMeans
  <1>. HIDE DEF len, M, S, T
  <1>5. kept \in Seq(S) /\ Len(kept) \in Nat /\ \A i \in 1 .. u : kept[i] \in 1 .. len
    <2>1. /\ kept \in Seq(S) /\ Len(kept) = Cardinality(S) /\ Cardinality(S) \in Nat
          /\ \A k \in 1 .. Cardinality(S) : kept[k] \in S
      BY <1>2, AscendingFacts, FS_CardinalityType
    <2>. HIDE DEF kept
    <2>2. \A i \in 1 .. u : kept[i] \in S
      BY <1>4, <2>1
    <2>. QED BY <1>2, <2>1, <2>2
  <1>. HIDE DEF kept
  <1>6. \A i \in 1 .. u : b[i - 1] = Entry(M[kept[i]], kept[i])
    <2>. SUFFICES ASSUME NEW i \in 1 .. u PROVE b[i - 1] = Entry(M[kept[i]], kept[i])
      OBVIOUS
    <2>1. i - 1 \in 0 .. (u - 1)
      BY <1>4, <1>5
    <2>2. b[i - 1] = a[i - 1] /\ M[kept[i]] = L[kept[i]]
      BY <1>1, <1>5, <2>1
    <2>. QED BY <1>4, <2>2
  <1>7. ASSUME Skipped(x) PROVE Listed(M, b, u, len + 1)
    <2>1. Ascending(T) = kept
      BY <1>3, <1>7 DEF kept
    <2>. QED BY <1>1, <1>4, <1>6, <2>1, ListedMeans DEF T
  <1>8. ASSUME ~Skipped(x), b[u] = Entry(x, len + 1) PROVE Listed(M, b, v, len + 1)
    <2>1. more = Append(kept, len + 1)
      <3>1. len + 1 \in Nat /\ \A l \in S : l < len + 1
        BY <1>1, <1>2
      <3>2. Ascending(S \cup {len + 1}) = Append(Ascending(S), len + 1)
        BY <1>2, <3>1, AscendingAppend
      <3>. QED BY <1>3, <1>8, <3>2 DEF kept
    <2>2. Len(more) = v /\ more[v] = len + 1 /\ \A i \in 1 .. u : more[i] = kept[i]
      BY <1>4, <1>5, <2>1
    <2>. HIDE DEF more
    <2>3. ASSUME NEW i \in 1 .. v PROVE b[i - 1] = Entry(M[more[i]], more[i])
      <3>1. i \in 1 .. u \/ i = v
        BY <1>4, <1>5
      <3>2. CASE i \in 1 .. u
        BY <1>6, <2>2, <3>2
      <3>3. CASE i = v
        <4>1. i - 1 = u
          BY <1>4, <1>5, <3>3
        <4>. QED BY <1>1, <1>8, <2>2, <3>3, <4>1
      <3>. QED BY <3>1, <3>2, <3>3
    <2>. HIDE DEF v
    <2>4. \A i \in 1 .. v : b[i - 1] = Entry(M[more[i]], more[i])
      BY <2>3
    <2>. QED BY <1>1, <2>2, <2>4, ListedMeans DEF more, T
  <1>. QED BY <1>1, <1>4, <1>5, <1>7, <1>8 DEF M

\* The array with an operation more, larger if it was full.
Grown(a, u, e) ==
    [i \in DOMAIN a \cup (IF u \in DOMAIN a THEN {} ELSE u .. (u + OPS_RESIZE_AMOUNT - 1)) |->
        CASE i = u -> e
          [] i \in DOMAIN a \ {u} -> a[i]
          [] OTHER -> NULL]

\* b holds what a held, and e behind that.
HoldsMore(b, a, u, e) == b[u] = e /\ \A i \in 0 .. (u - 1) : b[i] = a[i]

\* It does, and the operation's id is within the range.
LEMMA RangedAppend ==
    ASSUME NEW a, NEW u, NEW top, Ranged(a, u, top), NEW e, e.id \in Nat
    PROVE  /\ Ranged(Grown(a, u, e), u + 1, Max({top, e.id}))
           /\ HoldsMore(Grown(a, u, e), a, u, e)
  <1>. DEFINE b == Grown(a, u, e)
  <1>1. u \in Nat /\ top \in Nat /\ \A i \in 0 .. (u - 1) : a[i].id \in 0 .. top
    BY DEF Ranged
  <1>2. PICK d \in Nat : u <= d /\ DOMAIN a = 0 .. (d - 1)
    BY DEF Ranged
  <1>3. OPS_RESIZE_AMOUNT \in Nat \ {0}
    BY SizesAssumption
  <1>4. \E c \in Nat : u + 1 <= c /\ DOMAIN b = 0 .. (c - 1)
    <2>. USE DEF Grown
    <2>1. CASE u \in DOMAIN a
      BY <1>1, <1>2, <2>1
    <2>2. CASE u \notin DOMAIN a
      <3>. DEFINE c == d + OPS_RESIZE_AMOUNT
      <3>1. u = d
        BY <1>1, <1>2, <2>2
      <3>2. c \in Nat /\ u + 1 <= c /\ DOMAIN b = 0 .. (c - 1)
        BY <1>2, <1>3, <2>2, <3>1
      <3>. QED BY <3>2
    <2>. QED BY <2>1, <2>2
  <1>5. u \in DOMAIN b /\ \A i \in 0 .. (u - 1) : i \in DOMAIN b /\ i \in DOMAIN a /\ i # u
    <2>. HIDE DEF b
    <2>. QED BY <1>1, <1>2, <1>4
  <1>6. b[u] = e /\ \A i \in 0 .. (u - 1) : b[i] = a[i]
    <2>1. \A i \in DOMAIN b :
             b[i] = CASE i = u -> e [] i \in DOMAIN a \ {u} -> a[i] [] OTHER -> NULL
      BY DEF Grown
    <2>2. b[u] = e
      BY <1>5, <2>1
    <2>3. ASSUME NEW i \in 0 .. (u - 1) PROVE b[i] = a[i]
      <3>1. i \in DOMAIN b /\ i \in DOMAIN a /\ i # u
        BY <1>5
      <3>2. b[i] = CASE i = u -> e [] i \in DOMAIN a \ {u} -> a[i] [] OTHER -> NULL
        BY <2>1, <3>1
      <3>. QED BY <3>1, <3>2
    <2>. QED BY <2>2, <2>3
  <1>7. Max({top, e.id}) \in Nat /\ top <= Max({top, e.id}) /\ e.id <= Max({top, e.id})
    <2>. DEFINE S == {top, e.id}
    <2>1. \E x \in S : \A y \in S : x >= y
      BY <1>1
    <2>2. Max(S) \in S /\ \A y \in S : Max(S) >= y
      BY <2>1 DEF Max
    <2>3. S \subseteq Nat /\ top \in S /\ e.id \in S
      BY <1>1
    <2>. HIDE DEF S
    <2>4. Max(S) \in Nat /\ Max(S) >= top /\ Max(S) >= e.id
      BY <2>2, <2>3
    <2>. QED BY <1>1, <2>4 DEF S
  <1>. DEFINE m == Max({top, e.id})
              v == u + 1
  <1>. HIDE DEF m
  <1>8. \A i \in 0 .. (v - 1) : b[i].id \in 0 .. m
    <2>. SUFFICES ASSUME NEW i \in 0 .. (v - 1) PROVE b[i].id \in 0 .. m
      OBVIOUS
    <2>1. i = u \/ i \in 0 .. (u - 1)
      BY <1>1
    <2>2. CASE i = u
      BY <1>6, <1>7, <2>2 DEF m
    <2>3. CASE i \in 0 .. (u - 1)
      <3>1. a[i].id \in 0 .. top
        BY <1>1, <2>3
      <3>2. b[i] = a[i]
        BY <1>6, <2>3
      <3>. QED BY <1>1, <1>7, <3>1, <3>2 DEF m
    <2>. QED BY <2>1, <2>2, <2>3
  <1>9. v \in Nat /\ m \in Nat
    BY <1>1, <1>7 DEF m
  <1>. HIDE DEF v
  <1>10. Ranged(b, v, m)
    <2>1. \E c \in Nat : v <= c /\ DOMAIN b = 0 .. (c - 1)
      BY <1>4 DEF v
    <2>. QED BY <1>8, <1>9, <2>1 DEF Ranged
  <1>11. HoldsMore(b, a, u, e)
    BY <1>6 DEF HoldsMore
  <1>. QED BY <1>10, <1>11 DEF v, m
\* A line that is not too long is taken whole, and by one call of fgets.
LEMMA LineTaken ==
    ASSUME NEW f \in Seq(Cell), NEW p, NEW q, NEW r, TakenTo(f, p, q, r, MAX_SCRIPT_LINE_LEN),
           p \in Nat, Boundary(f, p), AllShort(Lines(f))
    PROVE  /\ f[q] = NL \/ q = Len(f)
           /\ Lines(SubSeq(f, 1, q)) = Append(Lines(SubSeq(f, 1, p)), Chomp(Chunk(r, MAX_SCRIPT_LINE_LEN)))
  <1>1. /\ q \in Nat /\ p < q /\ q <= Len(f) /\ Len(f) \in Nat
        /\ Chunk(r, MAX_SCRIPT_LINE_LEN) = SubSeq(f, p + 1, q)
        /\ \A i \in (p + 1) .. (q - 1) : f[i] # NL
        /\ f[q] = NL \/ q - p = MAX_SCRIPT_LINE_LEN - 1 \/ q = Len(f)
    BY DEF TakenTo
  <1>2. ASSUME q - p = MAX_SCRIPT_LINE_LEN - 1, f[q] # NL, q # Len(f)
        PROVE  FALSE
    <2>. DEFINE S == {i \in EndsOf(f) : q < i}
    <2>1. EndsOf(f) \subseteq 1 .. Len(f) /\ EndsOf(f) \subseteq Nat
      BY EndsFacts
    <2>2. Len(f) \in S
      BY <1>1, <1>2 DEF EndsOf
    <2>3. S \subseteq Nat /\ S # {}
      BY <2>1, <2>2
    <2>4. PICK e \in S : \A k \in S : e <= k
      <3>. HIDE DEF S
      <3>. QED BY <2>3, LeastNatural
    <2>5. e \in EndsOf(f) /\ e \in 1 .. Len(f) /\ q < e
      BY <2>1, <2>4
    <2>6. \A i \in (p + 1) .. (e - 1) : f[i] # NL
      <3>. SUFFICES ASSUME NEW i \in (p + 1) .. (e - 1), f[i] = NL PROVE FALSE
        OBVIOUS
      <3>1. i \in (p + 1) .. (q - 1) \/ i = q \/ (q < i /\ i \in 1 .. Len(f) /\ ~(e <= i))
        BY <1>1, <2>5
      <3>2. q < i /\ i \in 1 .. Len(f) /\ ~(e <= i)
        BY <1>1, <1>2, <3>1
      <3>3. i \in S
        BY <3>2 DEF EndsOf
      <3>. QED BY <2>4, <3>2, <3>3
    <2>. DEFINE k == Rank(EndsOf(f), e)
    <2>7. k \in 1 .. Cardinality(EndsOf(f)) /\ TextOf(f, k) = SubSeq(f, p + 1, e)
      <3>1. p < e
        BY <1>1, <2>5
      <3>. QED BY <2>5, <2>6, <3>1, LineAt
    <2>. HIDE DEF k
    <2>8. Lines(f)[k] = Chomp(SubSeq(f, p + 1, e)) /\ k \in DOMAIN Lines(f)
      <3>1. Lines(f)[k] = Chomp(TextOf(f, k))
        BY <2>7, LinesFacts
      <3>2. Lines(f) \in Seq(Seq(Cell)) /\ Len(Lines(f)) = Cardinality(EndsOf(f))
        BY LinesFacts
      <3>3. DOMAIN Lines(f) = 1 .. Cardinality(EndsOf(f))
        BY <3>2
      <3>. QED BY <2>7, <3>1, <3>3
    <2>9. SubSeq(f, p + 1, e) \in Seq(Cell) /\ Len(SubSeq(f, p + 1, e)) = e - p
      BY <1>1, <2>5
    <2>10. Len(Lines(f)[k]) \in Nat /\ e - p <= Len(Lines(f)[k]) + 1
      <3>. DEFINE t == SubSeq(f, p + 1, e)
      <3>. HIDE DEF t
      <3>1. t \in Seq(Cell) /\ Len(t) = e - p /\ Lines(f)[k] = Chomp(t)
        BY <2>8, <2>9 DEF t
      <3>2. Chomp(t) \in Seq(Cell) /\ Len(t) <= Len(Chomp(t)) + 1
        BY <3>1, ChompFacts
      <3>3. Len(Chomp(t)) \in Nat
        BY <3>2
      <3>. QED BY <3>1, <3>2, <3>3
    <2>11. Len(Lines(f)[k]) + 1 < MAX_SCRIPT_LINE_LEN
      BY <2>8 DEF AllShort
    <2>12. MAX_SCRIPT_LINE_LEN \in Nat
      BY SizesAssumption
    <2>. QED BY <1>1, <1>2, <2>5, <2>10, <2>11, <2>12
  <1>3. Lines(SubSeq(f, 1, q)) = Append(Lines(SubSeq(f, 1, p)), Chomp(SubSeq(f, p + 1, q)))
    BY <1>1, LinesAppend
  <1>. QED BY <1>1, <1>2, <1>3

-----------------------------------------------------------------------------
(* The programs.                                                            *)

\* Nothing has been read, and no line seen.
LEMMA NothingSeen ==
    ASSUME NEW f \in Seq(Cell)
    PROVE  Lines(SubSeq(f, 1, 0)) = <<>>
  <1>1. SubSeq(f, 1, 0) = <<>> /\ <<>> \in Seq(Cell)
    OBVIOUS
  <1>2. EndsOf(<<>>) = {}
    BY DEF EndsOf
  <1>3. Lines(<<>>) \in Seq(Seq(Cell)) /\ Len(Lines(<<>>)) = 0
    BY <1>1, <1>2, LinesFacts, FS_EmptySet
  <1>4. Lines(<<>>) = <<>>
    BY <1>3, EmptySeq
  <1>. QED BY <1>1, <1>4, Zenon

\* The lines seen are lines.
LEMMA SeenLines ==
    ASSUME ReadInv
    PROVE  /\ pc # "grow" => Lines(SubSeq(file, 1, Pos)) \in Seq(Seq(Cell))
           /\ pc = "grow" /\ ~unwritten => Seen \in Seq(Seq(Cell))
           /\ Lines(file) \in Seq(Seq(Cell)) /\ SubSeq(file, 1, Len(file)) = file
  <1>1. file \in Seq(Cell) /\ Pos \in Nat /\ Pos <= Len(file)
    BY ReadMeans DEF RestOf
  <1>2. SubSeq(file, 1, Pos) \in Seq(Cell) /\ SubSeq(file, 1, Len(file)) = file
    BY <1>1
  <1>3. ASSUME pc = "grow", ~unwritten PROVE SubSeq(file, 1, Told) \in Seq(Cell)
    <2>1. Told \in Nat /\ Told <= Pos
      BY <1>3 DEF ReadInv, Reading, ReadingOn
    <2>. QED BY <1>1, <2>1
  <1>. QED BY <1>1, <1>2, <1>3, LinesFacts DEF Seen

\* Before anything is read.
LEMMA InitTool == Init => ToolInv
  <1>. SUFFICES ASSUME Init PROVE ToolInv
    OBVIOUS
  <1>1. ReadInv
    BY InitRead
  <1>2. /\ pc = "main" /\ used = 0 /\ out = <<>> /\ array = [j \in {} |-> NULL]
        /\ maxid = 0 /\ lineno = 0 /\ rest = file
    BY DEF Init
  <1>3. prog = "mytail" => n \in Int
    BY InputAssumption DEF Init
  <1>4. Pos = 0 /\ Told = 0
    BY <1>1, <1>2, ReadMeans DEF Pos, Told
  <1>5. Seen = <<>>
    BY <1>1, <1>4, NothingSeen DEF Seen, ReadInv
  <1>6. Ranged(array, used, maxid)
    <2>1. DOMAIN array = 0 .. (0 - 1)
      BY <1>2
    <2>. QED BY <1>2, <2>1 DEF Ranged
  <1>7. Listed(Seen, array, used, lineno) /\ Boundary(file, Pos)
    BY <1>2, <1>4, <1>5, ListedEmpty DEF Boundary
  <1>. QED BY <1>2, <1>3, <1>6, <1>7 DEF ToolInv, Working

\* Reading does not concern the programs.
LEMMA ReadingKeepsTool == ReadInv /\ ToolInv /\ (FirstRead \/ Grow) => ToolInv'
  <1>. SUFFICES ASSUME ReadInv, ToolInv, FirstRead \/ Grow PROVE ToolInv'
    OBVIOUS
  <1>1. /\ UNCHANGED <<prog, file, n, array, used, lineno, maxid, out>>
        /\ pc \in {"read", "grow"} /\ pc' \in {"eof", "grow"} /\ prog # "parse_script"
    BY DEF FirstRead, Grow, input, parser, reader, ReadInv
  <1>2. ~unwritten' => ~unwritten /\ Told' = Told
    <2>1. ~unwritten' => Told' = Told
      BY FirstReadKeepsRead, GrowKeepsRead
    <2>2. ~unwritten' => ~unwritten
      BY DEF FirstRead, Grow, reader, ReadInv
    <2>. QED BY <2>1, <2>2
  <1>3. ~unwritten' => Seen' = Seen
    BY <1>1, <1>2 DEF Seen
  <1>. QED BY <1>1, <1>2, <1>3 DEF ToolInv, Working

\* The programs begin with nothing printed, an empty ring, or an empty table.
LEMMA MainKeepsTool ==
    ReadInv /\ ToolInv /\ (CatMain \/ TailMain \/ UniqMain \/ ScriptMain) => ToolInv'
  <1>. SUFFICES ASSUME ReadInv, ToolInv, CatMain \/ TailMain \/ UniqMain \/ ScriptMain
                PROVE  ToolInv'
    OBVIOUS
  <1>1. /\ pc = "main" /\ pc' \in {"read", "error"}
        /\ UNCHANGED <<prog, file, rest, n, used, lineno, maxid, out, unwritten>>
    BY DEF CatMain, TailMain, UniqMain, ScriptMain, Opens, input, reader, parser
  <1>2. ReadInv' /\ Pos' = 0 /\ Told' = 0 /\ file \in Seq(Cell)
    BY <1>1, OpensKeepsRead, ReadMeans
  <1>3. Seen' = <<>>
    <2>1. Seen' = Lines(SubSeq(file, 1, 0))
      BY <1>1, <1>2 DEF Seen
    <2>. QED BY <1>2, <2>1, NothingSeen
  <1>4. used = 0 /\ out = <<>> /\ array = [j \in {} |-> NULL] /\ maxid = 0 /\ lineno = 0
    BY <1>1 DEF ToolInv
  <1>5. CASE CatMain
    <2>1. prog = "mycat" /\ Catted(Seen', out', used')
      BY <1>1, <1>3, <1>4, <1>5, CattedEmpty DEF CatMain, Opens
    <2>. QED BY <1>1, <2>1 DEF ToolInv
  <1>6. CASE TailMain
    <2>1. prog = "mytail" /\ (n \in Int) /\ array' = [i \in 0 .. (n - 1) |-> NULL]
      BY <1>6 DEF TailMain, Opens, array_of_strings, ToolInv
    <2>2. ASSUME pc' = "read" PROVE Ringed(<<>>, array', 0, n)
      <3>1. n \in 1 .. MAX_NUM_LINES
        BY <1>6, <2>2 DEF TailMain, InRange
      <3>2. n \in Nat \ {0}
        BY <3>1, SizesAssumption
      <3>3. Len(<<>>) = 0 /\ 1 .. 0 = {} /\ DOMAIN array' = 0 .. (n - 1)
        BY <2>1
      <3>. QED BY <3>2, <3>3 DEF Ringed
    <2>3. pc' = "read" => Ringed(Seen', array', used', n')
      BY <1>1, <1>3, <1>4, <2>2
    <2>. QED BY <1>1, <2>1, <2>3 DEF ToolInv, Working
  <1>7. CASE UniqMain
    <2>1. prog = "myuniq" /\ array' = Unused(ESTIMATE, 0)
      BY <1>7 DEF UniqMain, Opens
    <2>2. Counted(<<>>, array', 0)
      <3>. DEFINE a == Unused(ESTIMATE, 0)
      <3>1. ESTIMATE \in Nat
        BY SizesAssumption
      <3>2. DOMAIN a = 0 .. (ESTIMATE - 1) /\ \A i \in DOMAIN a : a[i] = [txt |-> NULL, count |-> 0]
        BY <3>1 DEF Unused
      <3>. HIDE DEF a
      <3>3. Counted(<<>>, a, 0)
        BY <3>1, <3>2, CountedEmpty
      <3>. QED BY <2>1, <3>3 DEF a
    <2>3. Counted(Seen', array', used')
      BY <1>1, <1>3, <1>4, <2>2
    <2>. QED BY <1>1, <2>1, <2>3 DEF ToolInv
  <1>8. CASE ScriptMain
    <2>1. prog = "parse_script" /\ array' = array
      BY <1>8 DEF ScriptMain, Opens
    <2>2. Ranged(array', used', maxid')
      BY <1>1, <2>1 DEF ToolInv
    <2>3. Listed(Seen', array', used', lineno') /\ Boundary(file', Pos')
      BY <1>1, <1>2, <1>3, <1>4, ListedEmpty DEF Boundary
    <2>. QED BY <1>1, <2>1, <2>2, <2>3 DEF ToolInv
  <1>. QED BY <1>5, <1>6, <1>7, <1>8

\* Each program does with a line what the line calls for.
LEMMA LineKeepsTool == ReadInv /\ ToolInv /\ (CatLine \/ TailLine \/ UniqLine) => ToolInv'
  <1>. SUFFICES ASSUME ReadInv, ToolInv, CatLine \/ TailLine \/ UniqLine
                PROVE  ToolInv'
    OBVIOUS
  <1>1. /\ pc = "grow" /\ ~Full /\ pc' = "read" /\ Told' = Pos
        /\ UNCHANGED <<prog, file, rest, n, lineno, maxid, unwritten>>
    <2>1. /\ pc = "grow" /\ ~Full /\ pc' = "read"
          /\ UNCHANGED <<prog, file, rest, n, lineno, maxid, unwritten>>
      BY DEF CatLine, TailLine, UniqLine, Returned, input, reader, parser
    <2>2. Told' = Pos
      BY ReturnedKeepsRead DEF CatLine, TailLine, UniqLine
    <2>. QED BY <2>1, <2>2
  <1>2. n \in Int \/ prog # "mytail"
    BY DEF ToolInv
  <1>3. CASE unwritten
    BY <1>1, <1>2, <1>3 DEF ToolInv, Working, ReadInv
  <1>4. CASE ~unwritten
    <2>. DEFINE L == Seen
                x == Line
    <2>1. L \in Seq(Seq(Cell)) /\ x \in Seq(Cell)
      BY <1>1, <1>4, SeenLines, LineRead
    <2>2. Seen' = Append(L, x)
      <3>1. Lines(SubSeq(file, 1, Pos)) = Append(L, x)
        BY <1>1, <1>4, LineRead DEF Seen
      <3>2. Seen' = Lines(SubSeq(file, 1, Pos))
        BY <1>1 DEF Seen
      <3>. QED BY <3>1, <3>2
    <2>3. /\ prog = "mycat"  => Catted(L, out, used)
          /\ prog = "mytail" => Ringed(L, array, used, n)
          /\ prog = "myuniq" => Counted(L, array, used)
      BY <1>1, <1>4 DEF ToolInv, Working
    <2>4. CASE CatLine
      <3>1. prog = "mycat"
        BY <2>4 DEF CatLine, Returned
      <3>. DEFINE e == [number |-> IF x = <<>> THEN NULL ELSE used + 1, text |-> x]
                  v == IF x = <<>> THEN used ELSE used + 1
      <3>2. out' = Append(out, e) /\ used' = v
        <4>1. CASE x = <<>>
          <5>1. out' = Append(out, [number |-> NULL, text |-> x]) /\ used' = used
            BY <2>4, <4>1 DEF CatLine
          <5>. QED BY <4>1, <5>1, Zenon
        <4>2. CASE x # <<>>
          <5>1. out' = Append(out, [number |-> used + 1, text |-> x]) /\ used' = used + 1
            BY <2>4, <4>2 DEF CatLine
          <5>. QED BY <4>2, <5>1, Zenon
        <4>. QED BY <4>1, <4>2
      <3>. HIDE DEF L, x
      <3>3. Catted(Append(L, x), Append(out, e), v)
        BY <2>1, <2>3, <3>1, CattedAppend
      <3>4. Catted(Seen', out', used')
        BY <2>2, <3>2, <3>3, Zenon
      <3>. QED BY <1>1, <3>1, <3>4 DEF ToolInv
    <2>5. CASE TailLine
      <3>1. /\ prog = "mytail" /\ array' = [array EXCEPT ![used % n] = x]
            /\ used' = used + 1
        BY <2>5 DEF TailLine, Returned
      <3>. HIDE DEF L, x
      <3>2. Ringed(Append(L, x), [array EXCEPT ![used % n] = x], used + 1, n)
        BY <2>1, <2>3, <3>1, RingedAppend
      <3>3. Ringed(Seen', array', used', n')
        BY <1>1, <2>2, <3>1, <3>2, Zenon
      <3>. QED BY <1>1, <1>2, <3>1, <3>3 DEF ToolInv
    <2>6. CASE UniqLine
      <3>. DEFINE a == Roomy(array)
                  F == {i \in 0 .. (used - 1) : a[i].txt = x}
      <3>1. prog = "myuniq"
        BY <2>6 DEF UniqLine, Returned
      <3>2. used \in Nat
        <4>. HIDE DEF L
        <4>. QED BY <2>1, <2>3, <3>1, CountedMeans
      <3>3. Counted(L, a, used) /\ used \in DOMAIN a
        <4>. HIDE DEF L
        <4>. QED BY <2>3, <3>1, <3>2, CountedRoomy
      <3>4. CASE F = {}
        <4>1. /\ array' = [a EXCEPT ![used] = [txt |-> x, count |-> @.count + 1]]
              /\ used' = used + 1
          BY <2>6, <3>4 DEF UniqLine
        <4>2. \A i \in 0 .. (used - 1) : a[i].txt # x
          BY <3>4
        <4>. HIDE DEF L, x, a
        <4>3. Counted(Append(L, x), [a EXCEPT ![used] = [txt |-> x, count |-> @.count + 1]], used + 1)
          BY <2>1, <3>3, <4>2, CountedNew
        <4>4. Counted(Seen', array', used')
          BY <2>2, <4>1, <4>3, Zenon
        <4>. QED BY <1>1, <3>1, <4>4 DEF ToolInv
      <3>5. CASE F # {}
        <4>1. /\ array' = [i \in DOMAIN a |->
                              IF i \in F THEN [a[i] EXCEPT !.count = @ + 1] ELSE a[i]]
              /\ used' = used
          BY <2>6, <3>5 DEF UniqLine
        <4>2. F = {i \in 0 .. (used - 1) : a[i].txt = x}
          OBVIOUS
        <4>. HIDE DEF L, x, a, F
        <4>3. Counted(Append(L, x),
                      [i \in DOMAIN a |-> IF i \in F THEN [a[i] EXCEPT !.count = @ + 1] ELSE a[i]],
                      used)
          BY <2>1, <3>3, <3>5, <4>2, CountedFound
        <4>4. Counted(Seen', array', used')
          BY <2>2, <4>1, <4>3, Zenon
        <4>. QED BY <1>1, <3>1, <4>4 DEF ToolInv
      <3>. QED BY <3>4, <3>5
    <2>. QED BY <2>4, <2>5, <2>6
  <1>. QED BY <1>3, <1>4

\* parse_script skips a line, or reads an operation from it.
LEMMA ScriptKeepsTool == ReadInv /\ ToolInv /\ (ScriptSkip \/ ScriptLine) => ToolInv'
  <1>. SUFFICES ASSUME ReadInv, ToolInv, ScriptSkip \/ ScriptLine PROVE ToolInv'
    OBVIOUS
  <1>1. /\ prog = "parse_script" /\ pc = "read" /\ rest # <<>>
        /\ rest' = Behind(rest, MAX_SCRIPT_LINE_LEN) /\ lineno' = lineno + 1
        /\ UNCHANGED <<prog, file, n, out>> /\ pc' \in {"read", "error"}
    BY DEF ScriptSkip, ScriptLine, input
  <1>2. PICK q \in Nat : /\ TakenTo(file, Pos, q, rest, MAX_SCRIPT_LINE_LEN)
                         /\ Pos' = q /\ RestOf(file, q, rest')
    BY <1>1, ScriptTakes
  <1>3. file \in Seq(Cell) /\ Pos \in Nat /\ Told = Pos
    BY <1>1, ReadMeans DEF Told
  <1>4. Ranged(array, used, maxid)
    BY <1>1 DEF ToolInv
  <1>. DEFINE x == buffer
  <1>5. x \in Seq(Cell)
    <2>1. Chunk(rest, MAX_SCRIPT_LINE_LEN) = SubSeq(file, Pos + 1, q) /\ q <= Len(file)
      BY <1>2 DEF TakenTo
    <2>2. SubSeq(file, Pos + 1, q) \in Seq(Cell)
      BY <1>2, <1>3, <2>1
    <2>. QED BY <2>1, <2>2, ChompFacts DEF buffer
  <1>6. ASSUME AllShort(Lines(file))
        PROVE  /\ Boundary(file', Pos') \/ rest' = <<>>
               /\ pc' = "read" => Seen' = Append(Seen, x)
               /\ Listed(Seen, array, used, lineno) /\ Seen \in Seq(Seq(Cell))
    <2>1. Boundary(file, Pos) /\ Listed(Seen, array, used, lineno)
      BY <1>1, <1>6 DEF ToolInv
    <2>2. /\ file[q] = NL \/ q = Len(file)
          /\ Lines(SubSeq(file, 1, q)) = Append(Lines(SubSeq(file, 1, Pos)), x)
      BY <1>2, <1>3, <1>6, <2>1, LineTaken DEF buffer
    <2>3. q = Len(file) => rest' = <<>>
      BY <1>2, <1>3 DEF RestOf
    <2>4. Seen = Lines(SubSeq(file, 1, Pos)) /\ Seen \in Seq(Seq(Cell))
      BY <1>1, <1>3, SeenLines DEF Seen
    <2>5. pc' = "read" => Seen' = Lines(SubSeq(file, 1, q))
      <3>. SUFFICES ASSUME pc' = "read" PROVE Seen' = Lines(SubSeq(file, 1, q))
        OBVIOUS
      <3>1. Told' = q
        BY <1>2 DEF Told
      <3>. QED BY <1>1, <3>1 DEF Seen
    <2>6. Boundary(file', Pos') \/ rest' = <<>>
      BY <1>1, <1>2, <2>2, <2>3 DEF Boundary
    <2>. QED BY <2>1, <2>2, <2>4, <2>5, <2>6
  <1>7. CASE ScriptSkip
    <2>1. pc' = "read" /\ UNCHANGED <<array, used, maxid>> /\ Skipped(x)
      BY <1>1, <1>7 DEF ScriptSkip
    <2>2. AllShort(Lines(file)) => Listed(Seen', array', used', lineno')
      <3>. SUFFICES ASSUME AllShort(Lines(file)) PROVE Listed(Seen', array', used', lineno')
        OBVIOUS
      <3>1. /\ Seen' = Append(Seen, x) /\ Seen \in Seq(Seq(Cell))
            /\ Listed(Seen, array, used, lineno)
        BY <1>6, <2>1
      <3>. DEFINE L == Seen
      <3>. HIDE DEF L, x
      <3>2. Listed(Append(L, x), array, used, lineno + 1)
        BY <1>5, <2>1, <3>1, ListedAppend DEF L
      <3>. QED BY <1>1, <2>1, <3>1, <3>2, Zenon DEF L
    <2>3. Ranged(array', used', maxid')
      BY <1>4, <2>1
    <2>. QED BY <1>1, <1>6, <2>1, <2>2, <2>3 DEF ToolInv, Working
  <1>8. CASE ScriptLine /\ Malformed(FirstMark(x))
    <2>1. pc' = "error"
      BY <1>8 DEF ScriptLine
    <2>. QED BY <1>1, <2>1 DEF ToolInv, Working
  <1>9. CASE ScriptLine /\ ~Malformed(FirstMark(x))
    <2>. DEFINE r == FirstMark(x)
                e == Parsed(r)
                b == Grown(array, used, e)
    <2>1. /\ array' = b /\ maxid' = Max({maxid, r.id}) /\ used' = used + 1 /\ pc' = "read"
          /\ ~Skipped(x)
      BY <1>1, <1>9 DEF ScriptLine, Grown
    <2>2. e = Entry(x, lineno + 1) /\ e.id = r.id /\ e.id \in Nat
      <3>1. e = Entry(x, lineno + 1) /\ e.id = r.id
        BY DEF Parsed, Entry
      <3>2. r \in Request /\ ~(r.id < 0)
        BY <1>9 DEF Malformed
      <3>3. r.id \in Int
        BY <3>2, InputAssumption
      <3>. QED BY <3>1, <3>2, <3>3
    <2>. HIDE DEF x, e
    <2>3. /\ Ranged(b, used + 1, Max({maxid, e.id}))
          /\ b[used] = e /\ \A i \in 0 .. (used - 1) : b[i] = array[i]
      <3>1. e.id \in Nat
        BY <2>2
      <3>2. Ranged(Grown(array, used, e), used + 1, Max({maxid, e.id}))
        BY <1>4, <3>1, RangedAppend
      <3>3. HoldsMore(Grown(array, used, e), array, used, e)
        BY <1>4, <3>1, RangedAppend
      <3>4. HoldsMore(b, array, used, e)
        BY <3>3
      <3>. HIDE DEF b
      <3>5. b[used] = e /\ \A i \in 0 .. (used - 1) : b[i] = array[i]
        BY <3>4, Zenon DEF HoldsMore
      <3>. QED BY <3>2, <3>5 DEF b
    <2>. HIDE DEF b
    <2>4. Ranged(array', used', maxid')
      BY <2>1, <2>2, <2>3
    <2>5. AllShort(Lines(file)) => Listed(Seen', array', used', lineno')
      <3>. SUFFICES ASSUME AllShort(Lines(file)) PROVE Listed(Seen', array', used', lineno')
        OBVIOUS
      <3>1. /\ Seen' = Append(Seen, x) /\ Seen \in Seq(Seq(Cell))
            /\ Listed(Seen, array, used, lineno)
        BY <1>6, <2>1
      <3>. DEFINE L == Seen
      <3>. HIDE DEF L
      <3>2. Listed(Append(L, x), b, used + 1, lineno + 1)
        BY <1>5, <2>1, <2>2, <2>3, <3>1, ListedAppend DEF L
      <3>. QED BY <1>1, <2>1, <3>1, <3>2, Zenon DEF L
    <2>. QED BY <1>1, <1>6, <2>1, <2>4, <2>5 DEF ToolInv
  <1>. QED BY <1>7, <1>8, <1>9
\* The programs of assign3 end with what they have seen.
LEMMA EndKeepsTool ==
    ReadInv /\ ToolInv /\ (CatEnd \/ TailEnd \/ UniqEnd \/ ScriptEnd \/ Exit \/ UNCHANGED vars)
       => ToolInv'
  <1>. SUFFICES ASSUME ReadInv, ToolInv,
                       CatEnd \/ TailEnd \/ UniqEnd \/ ScriptEnd \/ Exit \/ UNCHANGED vars
                PROVE  ToolInv'
    OBVIOUS
  <1>1. CASE CatEnd \/ TailEnd \/ UniqEnd
    <2>1. /\ pc' = "done" /\ pc = "eof" /\ prog # "parse_script"
          /\ UNCHANGED <<prog, n>>
      BY <1>1 DEF CatEnd, TailEnd, UniqEnd, AtEnd, input
    <2>. QED BY <2>1 DEF ToolInv, Working
  <1>2. CASE ScriptEnd
    <2>1. /\ prog = "parse_script" /\ pc = "read" /\ pc' \in {"done", "error"} /\ rest = <<>>
          /\ UNCHANGED <<prog, file, rest, array, used, lineno, maxid>>
          /\ n' = IF maxid = INT_MAX THEN -INT_MAX - 1 ELSE maxid + 1
          /\ pc' = "done" => ~(n' < 0)
      BY <1>2 DEF ScriptEnd, input, parser
    <2>2. Told' = Told /\ Seen' = Seen
      <3>1. Told' = Told
        BY <2>1 DEF Told, Pos
      <3>. QED BY <2>1, <3>1 DEF Seen
    <2>3. Ranged(array, used, maxid) /\ maxid \in Nat /\ INT_MAX \in Nat
      BY <2>1, SizesAssumption DEF ToolInv, Ranged
    <2>4. pc' = "done" => n' = maxid + 1
      BY <2>1, <2>3
    <2>. QED BY <2>1, <2>2, <2>3, <2>4 DEF ToolInv, Working
  <1>3. CASE Exit \/ UNCHANGED vars
    <2>1. UNCHANGED vars
      BY <1>3 DEF Exit
    <2>2. Pos' = Pos /\ Seen' = Seen /\ Working' = Working
      BY <2>1 DEF vars, Pos, Told, Seen, Working
    <2>. QED BY <2>1, <2>2 DEF vars, ToolInv
  <1>. QED BY <1>1, <1>2, <1>3

\* No step disturbs it.
LEMMA NextTool == ReadInv /\ ToolInv /\ [Next]_vars => ToolInv'
  BY ReadingKeepsTool, MainKeepsTool, LineKeepsTool, ScriptKeepsTool, EndKeepsTool DEF Next

\* What each program has printed when it ends.
LEMMA EndsPrinted == ReadInv /\ ToolInv /\ (CatEnd \/ TailEnd \/ UniqEnd) => Printed'
  <1>. SUFFICES ASSUME ReadInv, ToolInv, CatEnd \/ TailEnd \/ UniqEnd PROVE Printed'
    OBVIOUS
  <1>1. /\ pc = "eof" /\ pc' = "done" /\ UNCHANGED <<prog, file, rest, n, used, unwritten>>
    BY DEF CatEnd, TailEnd, UniqEnd, AtEnd, input, reader
  <1>. DEFINE L == Lines(file)
  <1>2. Seen = L /\ L \in Seq(Seq(Cell))
    <2>1. rest = <<>> /\ Told = Pos
      BY <1>1 DEF ReadInv, Told
    <2>2. Pos = Len(file)
      BY <2>1, ReadMeans
    <2>. QED BY <2>1, <2>2, SeenLines DEF Seen
  <1>3. Working
    BY <1>1 DEF Working
  <1>4. Lines(file') = L
    BY <1>1
  <1>. HIDE DEF L
  <1>5. CASE CatEnd
    <2>1. prog = "mycat" /\ out' = out
      BY <1>5 DEF CatEnd, AtEnd
    <2>2. ~unwritten => Catted(L, out, used)
      BY <1>2, <1>3, <2>1 DEF ToolInv
    <2>3. ~unwritten =>
            /\ Len(out) = Len(L)
            /\ \A k \in DOMAIN L :
                  /\ out[k].text = L[k]
                  /\ out[k].number = IF L[k] = <<>> THEN NULL
                                     ELSE Cardinality({j \in 1 .. k : L[j] # <<>>})
      BY <2>2, Zenon DEF Catted
    <2>4. Numbered'
      BY <1>1, <1>4, <2>1, <2>3 DEF Numbered
    <2>5. LastLines' /\ LineCounts'
      BY <1>1, <2>1 DEF LastLines, LineCounts
    <2>. QED BY <2>4, <2>5 DEF Printed
  <1>6. CASE TailEnd
    <2>. DEFINE m == IF used < n THEN used ELSE n
                o == [i \in 1 .. m |-> array[(used + i - 1) % m]]
    <2>1. prog = "mytail" /\ out' = o
      BY <1>6 DEF TailEnd, AtEnd
    <2>2. ~unwritten => Ringed(L, array, used, n)
      BY <1>2, <1>3, <2>1 DEF ToolInv
    <2>3. ~unwritten => o = SubSeq(L, Max({0, Len(L) - n}) + 1, Len(L))
      BY <1>2, <2>2, RingedOut
    <2>. HIDE DEF o
    <2>4. LastLines'
      BY <1>1, <1>4, <2>1, <2>3 DEF LastLines
    <2>5. Numbered' /\ LineCounts'
      BY <1>1, <2>1 DEF Numbered, LineCounts
    <2>. QED BY <2>4, <2>5 DEF Printed
  <1>7. CASE UniqEnd
    <2>. DEFINE m == Min({Cardinality(DOMAIN array)} \cup {i \in DOMAIN array : array[i].count = 0})
                o == [i \in 1 .. m |-> array[i - 1]]
                first == Ascending(FirstPlaces(L))
                w == [k \in DOMAIN first |-> [txt |-> L[first[k]], count |-> Times(L, L[first[k]])]]
    <2>1. prog = "myuniq" /\ out' = o
      BY <1>7 DEF UniqEnd, AtEnd
    <2>2. ~unwritten => Counted(L, array, used)
      BY <1>2, <1>3, <2>1 DEF ToolInv
    <2>3. ~unwritten => o = w
      BY <1>2, <2>2, CountedOut
    <2>. HIDE DEF o
    <2>4. CountsOf(L) = w
      BY Zenon DEF CountsOf, FirstPlaces, Times
    <2>. HIDE DEF w
    <2>5. ~unwritten' => out' = CountsOf(Lines(file'))
      BY <1>1, <1>4, <2>1, <2>3, <2>4
    <2>6. LineCounts'
      BY <2>5, Zenon DEF LineCounts, CountsOf
    <2>7. Numbered' /\ LastLines'
      BY <1>1, <2>1 DEF Numbered, LastLines
    <2>. QED BY <2>6, <2>7 DEF Printed
  <1>. QED BY <1>5, <1>6, <1>7

\* Before the end nothing is said of what is printed, and after it nothing changes.
LEMMA NextPrinted == ReadInv /\ ToolInv /\ Printed /\ [Next]_vars => Printed'
  <1>. SUFFICES ASSUME ReadInv, ToolInv, Printed, [Next]_vars PROVE Printed'
    OBVIOUS
  <1>1. CASE CatEnd \/ TailEnd \/ UniqEnd
    BY <1>1, EndsPrinted
  <1>2. CASE Exit \/ UNCHANGED vars
    <2>1. UNCHANGED vars
      BY <1>2 DEF Exit
    <2>2. /\ pc' = pc /\ prog' = prog /\ unwritten' = unwritten
          /\ out' = out /\ n' = n /\ Lines(file') = Lines(file)
      BY <2>1 DEF vars
    <2>3. Numbered'
      BY <2>2, Zenon DEF Printed, Numbered
    <2>4. LastLines'
      BY <2>2, Zenon DEF Printed, LastLines
    <2>5. LineCounts'
      <3>1. pc = "done" /\ prog = "myuniq" /\ ~unwritten => out = CountsOf(Lines(file))
        BY Zenon DEF Printed, LineCounts, CountsOf
      <3>2. pc' = "done" /\ prog' = "myuniq" /\ ~unwritten' => out' = CountsOf(Lines(file'))
        BY <2>2, <3>1
      <3>. QED BY <3>2, Zenon DEF LineCounts, CountsOf
    <2>. QED BY <2>3, <2>4, <2>5 DEF Printed
  <1>3. CASE ScriptEnd
    BY <1>3 DEF ScriptEnd, input, Printed, Numbered, LastLines, LineCounts
  <1>4. CASE FirstRead \/ Grow \/ CatMain \/ CatLine \/ TailMain \/ TailLine \/ UniqMain
             \/ UniqLine \/ ScriptMain \/ ScriptSkip \/ ScriptLine
    <2>1. pc' # "done"
      <3>1. CASE FirstRead \/ Grow
        BY <3>1 DEF FirstRead, Grow
      <3>2. CASE CatMain \/ TailMain \/ UniqMain \/ ScriptMain
        BY <3>2 DEF CatMain, TailMain, UniqMain, ScriptMain, Opens
      <3>3. CASE CatLine \/ TailLine \/ UniqLine
        BY <3>3 DEF CatLine, TailLine, UniqLine, Returned
      <3>4. CASE ScriptSkip \/ ScriptLine
        BY <3>4 DEF ScriptSkip, ScriptLine
      <3>. QED BY <1>4, <3>1, <3>2, <3>3, <3>4
    <2>. QED BY <2>1 DEF Printed, Numbered, LastLines, LineCounts
  <1>. QED BY <1>1, <1>2, <1>3, <1>4 DEF Next

\* What the programs have made of the lines read so far, the lines numbered, the ring,
\* the table and the operations, is what should be made of them.
THEOREM ToolsRight == Spec => []IInv
  <1>1. Init => IInv
    <2>1. Init => pc # "done"
      BY DEF Init
    <2>2. Init => Printed
      BY <2>1 DEF Printed, Numbered, LastLines, LineCounts
    <2>. QED BY <2>2, InitRead, InitTool DEF IInv
  <1>2. IInv /\ [Next]_vars => IInv'
    BY NextRead, NextTool, NextPrinted DEF IInv
  <1>. QED BY <1>1, <1>2, PTL DEF Spec

\* mycat prints every line and numbers those that are not empty, mytail the last n
\* lines in their order, and myuniq every line once with the number of times it appears
\* (mycat.c, mytail.c, myuniq.c).
THEOREM PrintedHolds == Spec => []Printed
  <1>1. IInv => Printed
    BY DEF IInv
  <1>. QED BY <1>1, ToolsRight, PTL

\* The operations of a script are its requests in their order, each with the number of
\* its line, and every id is within the table (parse_script).
THEOREM RequestsHold == Spec => []RequestsRight
  <1>1. IInv => RequestsRight
    <2>. SUFFICES ASSUME ReadInv, ToolInv, pc = "done", prog = "parse_script"
                  PROVE  LET L    == Lines(file)
                             kept == Ascending({k \in DOMAIN L : ~Skipped(L[k])})
                         IN  /\ \A i \in 0 .. (used - 1) : array[i].id \in 0 .. (n - 1)
                             /\ (\A k \in DOMAIN L : Len(L[k]) + 1 < MAX_SCRIPT_LINE_LEN) =>
                                   /\ used = Len(kept)
                                   /\ \A i \in 1 .. used :
                                         LET r == FirstMark(L[kept[i]])
                                         IN  array[i - 1] = [op |-> op(r), id |-> r.id,
                                                             size |-> r.size, lineno |-> kept[i]]
      BY DEF RequestsRight, IInv
    <2>1. Ranged(array, used, maxid) /\ n = maxid + 1
      BY DEF ToolInv
    <2>2. \A i \in 0 .. (used - 1) : array[i].id \in 0 .. (n - 1)
      <3>1. maxid \in Nat /\ n - 1 = maxid
        BY <2>1 DEF Ranged
      <3>. QED BY <2>1, <3>1 DEF Ranged
    <2>3. Seen = Lines(file)
      <3>1. rest = <<>> /\ Told = Pos
        BY DEF ReadInv, Told
      <3>2. Pos = Len(file)
        BY <3>1, ReadMeans
      <3>. QED BY <3>1, <3>2, SeenLines DEF Seen
    <2>4. AllShort(Lines(file)) => Listed(Lines(file), array, used, lineno)
      BY <2>3 DEF ToolInv
    <2>. QED BY <2>2, <2>4, Zenon DEF AllShort, Listed, KeptPlaces
  <1>. QED BY <1>1, ToolsRight, PTL
=============================================================================
