-------------------------- MODULE BinaryInsertProofs --------------------------
(***************************************************************************)
(* Proofs about BinaryInsert, for files of any length and any comparison.  *)
(***************************************************************************)
EXTENDS BinaryInsert, TLAPS

\* Every line inserted so far compares equal to an element of the array.
Covered ==
    \A m \in 1 .. i : \E j \in 0 .. (nelem - 1) :
        cmp[uniq_array[j]] = cmp[str_array[m]]

\* RoomEnough is not inductive: with no element free the test for growing, which
\* asks for exactly one, would fail.  One is free between any two lines.
SpareRoom == RoomEnough /\ size_used < size_limit

IInv == /\ TypeOK /\ SpareRoom /\ Sorted /\ SearchRange /\ FirstOfEachKind /\ Covered
        /\ pc \in {"getopt", "read"} => nelem = 0 /\ i = 0

\* What the insertion of key makes of the ordered elements.
LEMMA OpenedFacts ==
    ASSUME IInv, Insert
    PROVE  /\ nelem \in Room /\ base \in 0 .. nelem /\ key \in Line
           /\ uniq_array' \in [Room -> Line \cup {NoLine}]
           /\ uniq_array'[base] = key
           /\ \A j \in 0 .. (base - 1) : uniq_array'[j] = uniq_array[j]
           /\ \A j \in (base + 1) .. nelem : uniq_array'[j] = uniq_array[j - 1]
  <1>1. /\ nelem \in Nat /\ base \in Nat /\ i \in Nat /\ size_used \in Nat
        /\ nelem <= i /\ i < size_used /\ str_array \in Seq(Line)
        /\ uniq_array \in [Room -> Line \cup {NoLine}]
    BY DEF IInv, TypeOK, SpareRoom, RoomEnough, Insert, size_used
  <1>2. base + 0 <= nelem
    BY DEF IInv, SearchRange, Insert
  <1>3. key \in Line
    BY <1>1 DEF key, size_used
  <1>4. uniq_array' = [j \in Room |-> CASE j = base -> key
                          [] j \in (base + 1) .. (base + (nelem - base)) -> uniq_array[j - 1]
                          [] OTHER -> uniq_array[j]]
    BY DEF Insert, Opened
  <1>5. nelem \in Room /\ base \in 0 .. nelem /\ base \in Room
    BY <1>1, <1>2 DEF Room
  <1>6. base + (nelem - base) = nelem
    BY <1>1
  <1>7. /\ \A j \in 0 .. (base - 1) : j \in Room /\ j # base /\ j \notin (base + 1) .. nelem
        /\ \A j \in (base + 1) .. nelem : j \in Room /\ j # base /\ j - 1 \in Room
    BY <1>1, <1>2 DEF Room
  <1>. QED BY <1>1, <1>3, <1>4, <1>5, <1>6, <1>7

LEMMA InsertIInv ==
    ASSUME IInv, Insert
    PROVE  IInv'
  <1>. DEFINE A == uniq_array'
              R(x) == cmp[x]
  <1>1. /\ nelem \in Nat /\ base \in Nat /\ i \in Nat /\ size_used \in Nat
        /\ nelem <= i /\ i < size_used /\ str_array \in Seq(Line) /\ size_limit \in Nat
        /\ nremain = 0 /\ size_used < size_limit
        /\ cmp \in [Line -> Int] /\ uniq
    BY DEF IInv, TypeOK, SpareRoom, RoomEnough, Insert, size_used
  <1>2. /\ base \in 0 .. nelem /\ key \in Line /\ A[base] = key
        /\ A \in [Room -> Line \cup {NoLine}]
        /\ \A j \in 0 .. (base - 1) : A[j] = uniq_array[j]
        /\ \A j \in (base + 1) .. nelem : A[j] = uniq_array[j - 1]
    BY OpenedFacts
  <1>3. /\ pc' = "next" /\ i' = i + 1 /\ nelem' = nelem + 1
        /\ str_array' = str_array /\ size_limit' = size_limit
        /\ base' = base /\ nremain' = nremain /\ cmp' = cmp /\ uniq' = uniq
    BY DEF Insert, Return, args
  <1>4. /\ \A j \in 0 .. (nelem - 1) : uniq_array[j] \in Line /\ cmp[uniq_array[j]] \in Int
        /\ cmp[key] \in Int
        /\ \A j, k \in 0 .. (nelem - 1) :
              k < j => cmp[uniq_array[k]] < cmp[uniq_array[j]]
        /\ \A j \in 0 .. (base - 1) : cmp[uniq_array[j]] < cmp[key]
        /\ \A j \in base .. (nelem - 1) : cmp[key] < cmp[uniq_array[j]]
    <2>1. \A j \in 0 .. (nelem - 1) : uniq_array[j] \in Line /\ cmp[uniq_array[j]] \in Int
      BY DEF IInv, TypeOK, Sorted
    <2>2. \A j, k \in 0 .. (nelem - 1) : k < j => k \in 0 .. (j - 1)
      BY <1>1
    <2>3. /\ \A j \in 0 .. (base - 1) : cmp[uniq_array[j]] < cmp[key]
          /\ \A j \in (base + 0) .. (nelem - 1) : cmp[key] < cmp[uniq_array[j]]
      BY DEF IInv, SearchRange, Insert
    <2>. QED BY <1>1, <1>2, <2>1, <2>2, <2>3 DEF IInv, TypeOK, Sorted
  <1>5. ASSUME NEW j \in 0 .. nelem
        PROVE  \/ j < base /\ j \in 0 .. (base - 1) /\ j \in 0 .. (nelem - 1) /\ A[j] = uniq_array[j]
               \/ j = base /\ A[j] = key
               \/ j > base /\ j - 1 \in 0 .. (nelem - 1) /\ j - 1 \in base .. (nelem - 1)
                     /\ A[j] = uniq_array[j - 1]
    BY <1>1, <1>2
  <1>6. TypeOK'
    BY <1>1, <1>2, <1>3 DEF TypeOK, Room, size_used
  <1>7. SpareRoom'
    BY <1>1, <1>3 DEF SpareRoom, RoomEnough, size_used
  <1>8. Sorted'
    <2>1. ASSUME NEW j \in 0 .. nelem PROVE A[j] \in Line
      BY <1>2, <1>4, <1>5
    <2>2. ASSUME NEW j \in 0 .. nelem, NEW k \in 0 .. (j - 1)
          PROVE  cmp[A[k]] < cmp[A[j]]
      <3>1. k \in 0 .. nelem /\ k < j /\ k \in Int /\ j \in Int
        BY <1>1
      <3>2. CASE j < base
        BY <3>1, <3>2, <1>1, <1>4, <1>5
      <3>3. CASE j = base
        BY <3>1, <3>3, <1>1, <1>4, <1>5
      <3>4. CASE j > base /\ k < base
        <4>1. A[j] = uniq_array[j - 1] /\ A[k] = uniq_array[k]
          BY <3>1, <3>4, <1>1, <1>5
        <4>2. j - 1 \in 0 .. (nelem - 1) /\ k \in 0 .. (nelem - 1) /\ k < j - 1
          BY <3>1, <3>4, <1>1
        <4>. QED BY <4>1, <4>2, <1>4
      <3>5. CASE j > base /\ k = base
        BY <3>1, <3>5, <1>1, <1>4, <1>5
      <3>6. CASE j > base /\ k > base
        <4>1. A[j] = uniq_array[j - 1] /\ A[k] = uniq_array[k - 1]
          BY <3>1, <3>6, <1>1, <1>5
        <4>2. j - 1 \in 0 .. (nelem - 1) /\ k - 1 \in 0 .. (nelem - 1) /\ k - 1 < j - 1
          BY <3>1, <3>6, <1>1
        <4>. QED BY <4>1, <4>2, <1>4
      <3>. QED BY <3>1, <3>2, <3>3, <3>4, <3>5, <3>6, <1>1
    <2>3. (nelem + 1) - 1 = nelem
      BY <1>1
    <2>. QED BY <1>3, <2>1, <2>2, <2>3 DEF Sorted
  <1>9. SearchRange'
    BY <1>3 DEF SearchRange
  <1>10. str_array[i + 1] = key /\ (nelem + 1) - 1 = nelem
    BY <1>1 DEF key
  \* The elements are those there were, and key.
  <1>11. ASSUME NEW x
         PROVE  (\E j \in 0 .. nelem : A[j] = x)
                    <=> x = key \/ \E j \in 0 .. (nelem - 1) : uniq_array[j] = x
    <2>1. ASSUME NEW j \in 0 .. nelem, A[j] = x
          PROVE  x = key \/ \E l \in 0 .. (nelem - 1) : uniq_array[l] = x
      BY <2>1, <1>5
    <2>2. ASSUME NEW j \in 0 .. (nelem - 1), uniq_array[j] = x
          PROVE  \E l \in 0 .. nelem : A[l] = x
      <3>1. CASE j < base
        BY <3>1, <2>2, <1>1, <1>2, SMTT(30)
      <3>2. CASE j >= base
        <4>1. j + 1 \in (base + 1) .. nelem /\ j + 1 \in 0 .. nelem /\ (j + 1) - 1 = j
          BY <3>2, <1>1
        <4>2. A[j + 1] = x
          BY <4>1, <2>2, <1>2
        <4>. QED BY <4>1, <4>2
      <3>. QED BY <3>1, <3>2, <1>1
    <2>. QED BY <2>1, <2>2, <1>2
  <1>12. Covered'
    <2>1. ASSUME NEW m \in 1 .. (i + 1)
          PROVE  \E j \in 0 .. nelem : cmp[A[j]] = cmp[str_array[m]]
      <3>1. CASE m = i + 1
        BY <3>1, <1>2, <1>10
      <3>2. CASE m # i + 1
        <4>1. m \in 1 .. i
          BY <3>2, <1>1
        <4>2. PICK j \in 0 .. (nelem - 1) : cmp[uniq_array[j]] = cmp[str_array[m]]
          BY <4>1 DEF IInv, Covered
        <4>3. PICK l \in 0 .. nelem : A[l] = uniq_array[j]
          BY <1>11
        <4>. QED BY <4>2, <4>3
      <3>. QED BY <3>1, <3>2
    <2>. QED BY <2>1, <1>3, <1>10 DEF Covered
  \* key is the first of its kind: a line before it that compares equal would
  \* be covered by an element that does.
  <1>13. \A k \in 1 .. i : cmp[str_array[k]] # cmp[key]
    <2>1. ASSUME NEW k \in 1 .. i, cmp[str_array[k]] = cmp[key]
          PROVE  FALSE
      <3>1. PICK j \in 0 .. (nelem - 1) : cmp[uniq_array[j]] = cmp[key]
        BY <2>1 DEF IInv, Covered
      <3>2. j \in 0 .. (base - 1) \/ j \in base .. (nelem - 1)
        BY <1>1
      <3>. QED BY <3>1, <3>2, <1>4
    <2>. QED BY <2>1
  <1>14. FirstOfEachKind'
    <2>. DEFINE First(m, line) == /\ str_array[m] = line
                                  /\ \A k \in 1 .. (m - 1) : cmp[str_array[k]] # cmp[line]
    <2>1. ASSUME NEW line \in Line
          PROVE  (\E m \in 1 .. (i + 1) : First(m, line))
                     <=> line = key \/ \E m \in 1 .. i : First(m, line)
      <3>1. First(i + 1, key)
        <4>1. (i + 1) - 1 = i
          BY <1>1
        <4>. QED BY <4>1, <1>10, <1>13
      <3>2. \A m \in 1 .. (i + 1) : m \in 1 .. i \/ m = i + 1
        BY <1>1
      <3>3. i + 1 \in 1 .. (i + 1) /\ \A m \in 1 .. i : m \in 1 .. (i + 1)
        BY <1>1
      <3>4. First(i + 1, line) => line = key
        BY <1>10
      <3>. HIDE DEF First
      <3>. QED BY <3>1, <3>2, <3>3, <3>4
    <2>2. ASSUME NEW line \in Line
          PROVE  (\E j \in 0 .. (nelem - 1) : uniq_array[j] = line)
                     <=> \E m \in 1 .. i : First(m, line)
      BY DEF IInv, FirstOfEachKind
    <2>3. ASSUME NEW line \in Line
          PROVE  (\E j \in 0 .. nelem : A[j] = line) <=> \E m \in 1 .. (i + 1) : First(m, line)
      <3>. HIDE DEF First, A
      <3>. QED BY <2>1, <2>2, <1>11
    <2>. QED BY <2>3, <1>3, <1>10 DEF FirstOfEachKind
  <1>. QED BY <1>3, <1>6, <1>7, <1>8, <1>9, <1>12, <1>14 DEF IInv

-----------------------------------------------------------------------------
(* The other steps.                                                        *)

LEMMA InitIInv == Init => IInv
  <1>. SUFFICES ASSUME Init PROVE IInv
    OBVIOUS
  <1>1. Len(<<>>) = 0 /\ <<>> \in Seq(Line)
    OBVIOUS
  <1>2. TypeOK
    BY <1>1, LinesAssumption DEF Init, TypeOK
  <1>3. SpareRoom
    BY <1>1, LinesAssumption DEF Init, SpareRoom, RoomEnough, size_used
  <1>4. Sorted /\ SearchRange /\ FirstOfEachKind /\ Covered
    BY DEF Init, Sorted, SearchRange, FirstOfEachKind, Covered
  <1>. QED BY <1>2, <1>3, <1>4 DEF Init, IInv

LEMMA ReadLineIInv ==
    ASSUME IInv, NEW line \in Line, ReadLine(line)
    PROVE  IInv'
  <1>1. /\ str_array \in Seq(Line) /\ size_limit \in Nat /\ size_used < size_limit
        /\ nelem = 0 /\ i = 0 /\ pc = "read" /\ size_used \in Nat
        /\ cmp \in [Line -> Int] /\ uniq \in BOOLEAN /\ base \in Nat /\ nremain \in Nat
        /\ uniq_array \in [{} -> Line \cup {NoLine}]
    BY DEF IInv, TypeOK, SpareRoom, RoomEnough, ReadLine, size_used
  <1>2. /\ str_array' = Append(str_array, line) /\ size_limit' = Grown
        /\ UNCHANGED <<uniq_array, nelem, i, base, nremain, pc>> /\ cmp' = cmp /\ uniq' = uniq
    BY DEF ReadLine, args
  <1>3. str_array' \in Seq(Line) /\ size_used' = size_used + 1
    BY <1>1, <1>2 DEF size_used
  <1>4. Grown \in Nat /\ size_used + 1 < Grown
    BY <1>1, LinesAssumption DEF Grown
  <1>5. TypeOK'
    BY <1>1, <1>2, <1>3, <1>4 DEF TypeOK
  <1>6. SpareRoom'
    BY <1>1, <1>2, <1>3, <1>4 DEF SpareRoom, RoomEnough
  <1>7. Sorted' /\ SearchRange' /\ FirstOfEachKind' /\ Covered'
    BY <1>1, <1>2 DEF Sorted, SearchRange, FirstOfEachKind, Covered
  <1>. QED BY <1>1, <1>2, <1>5, <1>6, <1>7 DEF IInv

LEMMA EndOfFileIInv ==
    ASSUME IInv, EndOfFile
    PROVE  IInv'
  <1>1. /\ pc = "read" /\ pc' = "next" /\ nelem = 0 /\ i = 0 /\ uniq
        /\ uniq_array' = [j \in Room |-> NoLine]
        /\ UNCHANGED <<str_array, size_limit, nelem, i, base, nremain>> /\ cmp' = cmp /\ uniq' = uniq
    BY DEF IInv, EndOfFile, args
  <1>2. TypeOK' /\ SpareRoom'
    BY <1>1 DEF IInv, TypeOK, SpareRoom, RoomEnough, Room, size_used
  <1>3. Sorted' /\ SearchRange' /\ FirstOfEachKind' /\ Covered'
    BY <1>1 DEF Sorted, SearchRange, FirstOfEachKind, Covered
  <1>. QED BY <1>1, <1>2, <1>3 DEF IInv

LEMMA CallIInv ==
    ASSUME IInv, Call
    PROVE  IInv'
  <1>1. /\ pc = "next" /\ i < size_used /\ pc' = "search" /\ base' = 0 /\ nremain' = nelem
        /\ UNCHANGED <<str_array, size_limit, uniq_array, nelem, i>> /\ cmp' = cmp /\ uniq' = uniq
    BY DEF Call, args
  <1>2. nelem \in Nat
    BY DEF IInv, TypeOK
  <1>3. TypeOK' /\ SpareRoom'
    BY <1>1 DEF IInv, TypeOK, SpareRoom, RoomEnough, Room, size_used
  <1>4. Sorted' /\ FirstOfEachKind' /\ Covered'
    BY <1>1 DEF IInv, Sorted, FirstOfEachKind, Covered
  <1>5. SearchRange'
    BY <1>1, <1>2 DEF SearchRange
  <1>. QED BY <1>1, <1>3, <1>4, <1>5 DEF IInv

\* The middle of a range that is not empty is an element in use.
LEMMA MiddleFacts ==
    ASSUME IInv, pc = "search", nremain # 0
    PROVE  /\ middle \in 0 .. (nelem - 1) /\ base <= middle /\ middle < base + nremain
           /\ base + nremain <= nelem
           /\ key \in Line /\ uniq_array[middle] \in Line
           /\ cmp[key] \in Int /\ cmp[uniq_array[middle]] \in Int
           /\ i \in Nat /\ i + 1 \in 1 .. Len(str_array)
           /\ nelem \in Nat /\ base \in Nat /\ nremain \in Nat
  <1>1. /\ nelem \in Nat /\ base \in Nat /\ nremain \in Nat /\ i \in Nat
        /\ i < Len(str_array) /\ str_array \in Seq(Line) /\ base + nremain <= nelem
    BY DEF IInv, TypeOK, SpareRoom, RoomEnough, SearchRange, size_used
  <1>2. nremain \div 2 \in Nat /\ nremain \div 2 < nremain
    BY <1>1
  <1>3. middle \in 0 .. (nelem - 1) /\ base <= middle /\ middle < base + nremain
    BY <1>1, <1>2 DEF middle
  <1>4. i + 1 \in 1 .. Len(str_array) /\ key \in Line
    BY <1>1 DEF key
  <1>5. uniq_array[middle] \in Line
    BY <1>3 DEF IInv, Sorted
  <1>. QED BY <1>1, <1>3, <1>4, <1>5 DEF IInv, TypeOK

LEMMA FoundIInv ==
    ASSUME IInv, Found
    PROVE  IInv'
  <1>1. /\ pc = "search" /\ nremain # 0 /\ sign = 0 /\ pc' = "next" /\ i' = i + 1
        /\ UNCHANGED <<str_array, size_limit, uniq_array, nelem, base, nremain>> /\ cmp' = cmp /\ uniq' = uniq
    BY DEF Found, Return, args
  <1>2. /\ middle \in 0 .. (nelem - 1) /\ cmp[uniq_array[middle]] = cmp[key]
        /\ uniq_array[middle] \in Line /\ i \in Nat /\ key = str_array[i + 1]
    BY <1>1, MiddleFacts, SMTT(30) DEF sign, key
  <1>3. TypeOK' /\ SpareRoom'
    BY <1>1, <1>2, SMTT(30) DEF IInv, TypeOK, SpareRoom, RoomEnough, Room, size_used
  <1>4. Sorted' /\ SearchRange'
    BY <1>1 DEF IInv, Sorted, SearchRange
  <1>5. \A m \in 1 .. (i + 1) : m \in 1 .. i \/ m = i + 1
    BY <1>2
  <1>6. Covered'
    BY <1>1, <1>2, <1>5 DEF IInv, Covered
  \* A line read before compares equal to key.
  <1>7. PICK k \in 1 .. i : cmp[str_array[k]] = cmp[key]
    BY <1>2 DEF IInv, FirstOfEachKind
  <1>8. FirstOfEachKind'
    <2>. DEFINE First(m, line) == /\ str_array[m] = line
                                  /\ \A l \in 1 .. (m - 1) : cmp[str_array[l]] # cmp[line]
    <2>1. ASSUME NEW line, First(i + 1, line) PROVE FALSE
      <3>1. line = key /\ k \in 1 .. ((i + 1) - 1)
        BY <2>1, <1>2
      <3>. QED BY <2>1, <3>1, <1>7
    <2>2. ASSUME NEW line \in Line
          PROVE  (\E m \in 1 .. (i + 1) : First(m, line)) <=> \E m \in 1 .. i : First(m, line)
      <3>1. \A m \in 1 .. i : m \in 1 .. (i + 1)
        BY <1>2
      <3>. HIDE DEF First
      <3>. QED BY <2>1, <3>1, <1>5
    <2>3. ASSUME NEW line \in Line
          PROVE  (\E j \in 0 .. (nelem - 1) : uniq_array[j] = line)
                     <=> \E m \in 1 .. i : First(m, line)
      BY DEF IInv, FirstOfEachKind
    <2>4. ASSUME NEW line \in Line
          PROVE  (\E j \in 0 .. (nelem - 1) : uniq_array[j] = line)
                     <=> \E m \in 1 .. (i + 1) : First(m, line)
      <3>. HIDE DEF First
      <3>. QED BY <2>2, <2>3
    <2>. QED BY <2>4, <1>1 DEF FirstOfEachKind
  <1>. QED BY <1>1, <1>3, <1>4, <1>6, <1>8 DEF IInv

LEMMA MoveRightIInv ==
    ASSUME IInv, MoveRight
    PROVE  IInv'
  <1>1. /\ pc = "search" /\ nremain # 0 /\ sign > 0
        /\ base' = middle + 1 /\ nremain' = (nremain - 1) \div 2
        /\ UNCHANGED <<str_array, size_limit, uniq_array, nelem, i, pc>> /\ cmp' = cmp /\ uniq' = uniq
    BY DEF MoveRight, args
  <1>2. /\ middle \in 0 .. (nelem - 1) /\ cmp[uniq_array[middle]] < cmp[key]
        /\ base + nremain <= nelem
        /\ nelem \in Nat /\ base \in Nat /\ nremain \in Nat
        /\ cmp[key] \in Int /\ cmp[uniq_array[middle]] \in Int
    <2>1. /\ middle \in 0 .. (nelem - 1) /\ base + nremain <= nelem
          /\ nelem \in Nat /\ base \in Nat /\ nremain \in Nat
          /\ cmp[key] \in Int /\ cmp[uniq_array[middle]] \in Int
      BY <1>1, MiddleFacts
    <2>2. cmp[key] - cmp[uniq_array[middle]] > 0
      BY <1>1 DEF sign
    <2>3. ASSUME NEW a \in Int, NEW b \in Int, a - b > 0
          PROVE  b < a
      BY <2>3
    <2>4. cmp[uniq_array[middle]] < cmp[key]
      BY <2>1, <2>2, <2>3
    <2>. QED BY <2>1, <2>4
  <1>3. base' + nremain' = base + nremain /\ base' \in Nat /\ nremain' \in Nat
    <2>. DEFINE half == nremain \div 2
                rest == (nremain - 1) \div 2
    <2>1. half \in Nat /\ rest \in Nat /\ half + 1 + rest = nremain
      <3>1. nremain \in Nat /\ nremain # 0
        BY <1>1, <1>2
      <3>. QED BY <3>1, SMTT(30)
    <2>2. base' = base + half + 1 /\ nremain' = rest
      BY <1>1 DEF middle
    <2>. HIDE DEF half, rest
    <2>. QED BY <1>2, <2>1, <2>2
  <1>4. TypeOK' /\ SpareRoom'
    BY <1>1, <1>3 DEF IInv, TypeOK, SpareRoom, RoomEnough, Room, size_used
  <1>5. Sorted' /\ FirstOfEachKind' /\ Covered'
    BY <1>1 DEF IInv, Sorted, FirstOfEachKind, Covered
  <1>6. ASSUME NEW j \in 0 .. (base' - 1)
        PROVE  cmp[uniq_array[j]] < cmp[key]
    <2>1. j \in 0 .. (nelem - 1) /\ (j = middle \/ j \in 0 .. (middle - 1))
      BY <1>1, <1>2
    <2>2. CASE j = middle
      BY <2>2, <1>2
    <2>3. CASE j \in 0 .. (middle - 1)
      <3>1. cmp[uniq_array[j]] < cmp[uniq_array[middle]]
        BY <2>3, <1>2 DEF IInv, Sorted
      <3>2. cmp[uniq_array[j]] \in Int
        BY <2>1 DEF IInv, TypeOK, Sorted
      <3>. QED BY <3>1, <3>2, <1>2
    <2>. QED BY <2>1, <2>2, <2>3
  <1>7. SearchRange'
    <2>1. \A j \in (base + nremain) .. (nelem - 1) : cmp[key] < cmp[uniq_array[j]]
      BY <1>1 DEF IInv, SearchRange
    <2>2. key' = key
      BY <1>1 DEF key
    <2>. QED BY <1>1, <1>2, <1>3, <1>6, <2>1, <2>2 DEF SearchRange
  <1>. QED BY <1>1, <1>4, <1>5, <1>7 DEF IInv

LEMMA MoveLeftIInv ==
    ASSUME IInv, MoveLeft
    PROVE  IInv'
  <1>1. /\ pc = "search" /\ nremain # 0 /\ sign < 0
        /\ nremain' = nremain \div 2
        /\ UNCHANGED <<str_array, size_limit, uniq_array, nelem, i, base, pc>> /\ cmp' = cmp /\ uniq' = uniq
    BY DEF MoveLeft, args
  <1>2. /\ middle \in 0 .. (nelem - 1) /\ cmp[key] < cmp[uniq_array[middle]]
        /\ middle < base + nremain /\ base + nremain <= nelem
        /\ nelem \in Nat /\ base \in Nat /\ nremain \in Nat
        /\ cmp[key] \in Int /\ cmp[uniq_array[middle]] \in Int
    <2>1. /\ middle \in 0 .. (nelem - 1) /\ middle < base + nremain /\ base + nremain <= nelem
          /\ nelem \in Nat /\ base \in Nat /\ nremain \in Nat
          /\ cmp[key] \in Int /\ cmp[uniq_array[middle]] \in Int
      BY <1>1, MiddleFacts
    <2>2. cmp[key] - cmp[uniq_array[middle]] < 0
      BY <1>1 DEF sign
    <2>3. ASSUME NEW a \in Int, NEW b \in Int, a - b < 0
          PROVE  a < b
      BY <2>3
    <2>4. cmp[key] < cmp[uniq_array[middle]]
      BY <2>1, <2>2, <2>3
    <2>. QED BY <2>1, <2>4
  <1>3. base' + nremain' = middle /\ nremain' \in Nat
    BY <1>1, <1>2 DEF middle
  <1>4. TypeOK' /\ SpareRoom'
    BY <1>1, <1>3 DEF IInv, TypeOK, SpareRoom, RoomEnough, Room, size_used
  <1>5. Sorted' /\ FirstOfEachKind' /\ Covered'
    BY <1>1 DEF IInv, Sorted, FirstOfEachKind, Covered
  <1>6. ASSUME NEW j \in middle .. (nelem - 1)
        PROVE  cmp[key] < cmp[uniq_array[j]]
    <2>1. j \in 0 .. (nelem - 1) /\ (j = middle \/ middle \in 0 .. (j - 1))
      BY <1>2
    <2>2. CASE j = middle
      BY <2>2, <1>2
    <2>3. CASE middle \in 0 .. (j - 1)
      <3>1. cmp[uniq_array[middle]] < cmp[uniq_array[j]]
        BY <2>1, <2>3 DEF IInv, Sorted
      <3>2. cmp[uniq_array[j]] \in Int
        BY <2>1 DEF IInv, TypeOK, Sorted
      <3>. QED BY <3>1, <3>2, <1>2
    <2>. QED BY <2>1, <2>2, <2>3
  <1>7. SearchRange'
    <2>1. \A j \in 0 .. (base - 1) : cmp[uniq_array[j]] < cmp[key]
      BY <1>1 DEF IInv, SearchRange
    <2>2. key' = key
      BY <1>1 DEF key
    <2>. QED BY <1>1, <1>2, <1>3, <1>6, <2>1, <2>2 DEF SearchRange
  <1>. QED BY <1>1, <1>4, <1>5, <1>7 DEF IInv

LEMMA OptionsIInv ==
    ASSUME IInv, Getopt \/ Open
    PROVE  IInv'
  <1>1. /\ pc = "getopt" /\ pc' \in {"getopt", "read", "exit"} /\ nelem = 0 /\ i = 0
        /\ UNCHANGED <<str_array, size_limit, uniq_array, nelem, i, base, nremain>>
    BY DEF IInv, Getopt, Open, arrays
  <1>2. cmp' \in [Line -> Int] /\ uniq' \in BOOLEAN
    BY LinesAssumption DEF IInv, TypeOK, Getopt, Open, args
  <1>3. /\ TypeOK /\ SpareRoom /\ uniq_array \in [{} -> Line \cup {NoLine}]
    BY <1>1 DEF IInv, TypeOK
  <1>4. TypeOK'
    BY <1>1, <1>2, <1>3 DEF TypeOK
  <1>5. SpareRoom'
    BY <1>1, <1>3 DEF SpareRoom, RoomEnough, size_used
  <1>6. Sorted' /\ SearchRange' /\ FirstOfEachKind' /\ Covered'
    BY <1>1 DEF Sorted, SearchRange, FirstOfEachKind, Covered
  <1>. QED BY <1>1, <1>4, <1>5, <1>6 DEF IInv

\* The lines as qsort leaves them are as many lines.
LEMMA SortedLines ==
    ASSUME NEW q \in Qsorted(str_array), str_array \in Seq(Line)
    PROVE  q \in Seq(Line) /\ Len(q) = Len(str_array)
  <1>1. q \in [DOMAIN str_array -> Range(str_array)]
    BY DEF Qsorted
  <1>2. /\ DOMAIN str_array = 1 .. Len(str_array) /\ Len(str_array) \in Nat
        /\ Range(str_array) \subseteq Line
    BY DEF Range
  <1>3. q \in [1 .. Len(str_array) -> Line]
    BY <1>1, <1>2
  <1>. QED BY <1>2, <1>3

LEMMA EndOfFileSortIInv ==
    ASSUME IInv, EndOfFileSort
    PROVE  IInv'
  <1>1. /\ pc = "read" /\ pc' = "done" /\ nelem = 0 /\ i = 0 /\ ~uniq
        /\ str_array' \in Qsorted(str_array)
        /\ UNCHANGED <<size_limit, uniq_array, nelem, i, base, nremain>> /\ cmp' = cmp /\ uniq' = uniq
    BY DEF IInv, EndOfFileSort, args
  <1>2. /\ TypeOK /\ SpareRoom
    BY DEF IInv
  <1>3. str_array' \in Seq(Line) /\ Len(str_array') = Len(str_array)
    BY <1>1, <1>2, SortedLines DEF TypeOK
  <1>4. TypeOK'
    BY <1>1, <1>2, <1>3 DEF TypeOK
  <1>5. SpareRoom'
    BY <1>1, <1>2, <1>3 DEF SpareRoom, RoomEnough, size_used
  <1>6. Sorted' /\ SearchRange' /\ FirstOfEachKind' /\ Covered'
    BY <1>1 DEF Sorted, SearchRange, FirstOfEachKind, Covered
  <1>. QED BY <1>1, <1>4, <1>5, <1>6 DEF IInv

\* The last line inserted, or nothing done at all.
LEMMA FinishIInv ==
    ASSUME IInv, Finish \/ UNCHANGED vars
    PROVE  IInv'
  <1>1. /\ UNCHANGED <<str_array, size_limit, uniq_array, nelem, i, base, nremain, cmp, uniq>>
        /\ (pc = "next" /\ pc' = "done") \/ pc' = pc
    BY DEF Finish, vars, args, arrays
  <1>2. TypeOK' /\ SpareRoom'
    BY <1>1 DEF IInv, TypeOK, SpareRoom, RoomEnough, Room, size_used
  <1>3. Sorted' /\ FirstOfEachKind' /\ Covered'
    BY <1>1 DEF IInv, Sorted, FirstOfEachKind, Covered
  <1>4. SearchRange'
    BY <1>1 DEF IInv, SearchRange, key
  <1>. QED BY <1>1, <1>2, <1>3, <1>4 DEF IInv

LEMMA NextIInv == IInv /\ [Next]_vars => IInv'
  BY ReadLineIInv, OptionsIInv, EndOfFileIInv, EndOfFileSortIInv, CallIInv, FoundIInv,
     MoveRightIInv, MoveLeftIInv, InsertIInv, FinishIInv DEF Next, binsert

\* The inductive invariant holds in every reachable state.
THEOREM Invariance == Spec => []IInv
  BY InitIInv, NextIInv, PTL DEF Spec

\* No array is written out of its room, and both have room for what sort_lines
\* and binsert write to them, whatever the options.
THEOREM ArraysNeverLeft == Spec => []ArraysSound
  BY Invariance, PTL DEF IInv, SpareRoom, ArraysSound

\* binsert keeps the array in strictly increasing order, its loop's range always
\* holds the place of the key, and the array holds the first line of every kind
\* inserted so far and no other, for every comparison.
THEOREM InsertRight == Spec => []InsertSound
  BY Invariance, PTL DEF IInv, InsertSound

\* The range of binsert's loop always holds the place of the key.
THEOREM RangeRight == Spec => []SearchRange
  BY Invariance, PTL DEF IInv

\* The array holds the first line of every kind inserted so far, no other.
THEOREM UniqueLinesKept == Spec => []FirstOfEachKind
  BY Invariance, PTL DEF IInv

-----------------------------------------------------------------------------
(* What is printed.                                                         *)

\* The places of option o among those given, the last -l or -n, the comparison
\* it asks for, and the direction: the terms of Output.
Given(o) == {k \in DOMAIN argv : argv[k] = o}
LastCmp  == {k \in Given("l") \cup Given("n") : \A l \in Given("l") \cup Given("n") : l <= k}
Rank     == IF LastCmp = {} THEN cmp_pstr
            ELSE IF LastCmp \subseteq Given("l") THEN cmp_pstr_len ELSE cmp_pstr_numeric
Way      == IF Given("r") = {} THEN 1 ELSE 0 - 1

\* The options read so far, and no other, have been obeyed: the comparison is
\* that of the last -l or -n among them.
OptionsRead ==
    LET seen(o) == {k \in 1 .. optind : argv[k] = o}
        none(k) == \A l \in (k + 1) .. optind : argv[l] \notin {"l", "n"}
    IN  /\ argv \in Seq(STRING) /\ optind \in 0 .. Len(argv)
        /\ reverse = (seen("r") # {}) /\ uniq = (seen("u") # {})
        /\ \/ none(0) /\ cmp = cmp_pstr
           \/ \E k \in seen("l") : none(k) /\ cmp = cmp_pstr_len
           \/ \E k \in seen("n") : none(k) /\ cmp = cmp_pstr_numeric
        /\ pc \notin {"getopt", "exit"} => optind = Len(argv)

OInv == OptionsRead /\ Output

LEMMA InitOInv == Init => OInv
  <1>. SUFFICES ASSUME Init PROVE OInv
    OBVIOUS
  <1>1. argv \in Seq(STRING) /\ optind = 0 /\ Len(argv) \in Nat
    BY LinesAssumption DEF Init
  <1>2. /\ \A o : {k \in 1 .. optind : argv[k] = o} = {}
        /\ \A k \in (0 + 1) .. optind : FALSE
    BY <1>1
  <1>3. /\ reverse = FALSE /\ uniq = FALSE /\ cmp = cmp_pstr /\ pc = "getopt"
    BY DEF Init
  <1>4. /\ reverse = ({k \in 1 .. optind : argv[k] = "r"} # {})
        /\ uniq = ({k \in 1 .. optind : argv[k] = "u"} # {})
    BY <1>2, <1>3, Zenon
  <1>5. \A k \in (0 + 1) .. optind : argv[k] \notin {"l", "n"}
    BY <1>2
  <1>6. optind \in 0 .. Len(argv) /\ pc = "getopt"
    BY <1>1, <1>3
  <1>7. OptionsRead
    BY <1>1, <1>3, <1>4, <1>5, <1>6 DEF OptionsRead
  <1>. QED BY <1>3, <1>7 DEF OInv, Output

LEMMA GetoptRead ==
    ASSUME OptionsRead, Getopt
    PROVE  OptionsRead'
  <1>. DEFINE opt == argv[optind + 1]
              n == optind
  <1>1. /\ argv' = argv /\ argv \in Seq(STRING) /\ Len(argv) \in Nat
        /\ n \in Nat /\ n < Len(argv) /\ optind' = n + 1
        /\ pc' \in {"getopt", "exit"}
    BY DEF OptionsRead, Getopt
  <1>2. reverse' = (reverse \/ opt = "r") /\ uniq' = (uniq \/ opt = "u")
    BY DEF Getopt
  <1>3. \A S : S \subseteq 1 .. (n + 1) <=> S \ {n + 1} \subseteq 1 .. n
    BY <1>1
  <1>4. \A o : {k \in 1 .. (n + 1) : argv[k] = o} # {}
                 <=> {k \in 1 .. n : argv[k] = o} # {} \/ opt = o
    <2>1. 1 .. (n + 1) = (1 .. n) \cup {n + 1}
      BY <1>1
    <2>. QED BY <2>1
  <1>5. /\ reverse = ({k \in 1 .. n : argv[k] = "r"} # {})
        /\ uniq = ({k \in 1 .. n : argv[k] = "u"} # {})
    BY DEF OptionsRead
  <1>6. /\ reverse' = ({k \in 1 .. (n + 1) : argv[k] = "r"} # {})
        /\ uniq' = ({k \in 1 .. (n + 1) : argv[k] = "u"} # {})
    BY <1>2, <1>4, <1>5, Zenon
  <1>. DEFINE none(k, m) == \A l \in (k + 1) .. m : argv[l] \notin {"l", "n"}
              Chosen(m, c) ==
                 \/ none(0, m) /\ c = cmp_pstr
                 \/ \E k \in {k \in 1 .. m : argv[k] = "l"} : none(k, m) /\ c = cmp_pstr_len
                 \/ \E k \in {k \in 1 .. m : argv[k] = "n"} : none(k, m) /\ c = cmp_pstr_numeric
  <1>7. Chosen(n, cmp)
    BY DEF OptionsRead
  <1>8. Chosen(n + 1, cmp')
    <2>1. CASE opt = "l"
      <3>1. cmp' = cmp_pstr_len
        BY <2>1 DEF Getopt
      <3>2. n + 1 \in {k \in 1 .. (n + 1) : argv[k] = "l"} /\ none(n + 1, n + 1)
        BY <1>1, <2>1
      <3>. QED BY <3>1, <3>2
    <2>2. CASE opt = "n"
      <3>1. cmp' = cmp_pstr_numeric
        BY <2>2 DEF Getopt
      <3>2. n + 1 \in {k \in 1 .. (n + 1) : argv[k] = "n"} /\ none(n + 1, n + 1)
        BY <1>1, <2>2
      <3>. QED BY <3>1, <3>2
    <2>3. CASE opt \notin {"l", "n"}
      <3>1. cmp' = cmp
        BY <2>3 DEF Getopt
      <3>2. \A k \in 0 .. n : none(k, n) => none(k, n + 1)
        <4>1. \A k \in 0 .. n : \A l \in (k + 1) .. (n + 1) : l \in (k + 1) .. n \/ l = n + 1
          BY <1>1
        <4>. QED BY <2>3, <4>1
      <3>3. \A k \in 1 .. n : k \in 0 .. n /\ k \in 1 .. (n + 1)
        BY <1>1
      <3>4. 0 \in 0 .. n
        BY <1>1
      <3>. HIDE DEF none, n
      <3>. QED BY <1>7, <3>1, <3>2, <3>3, <3>4
    <2>. QED BY <2>1, <2>2, <2>3
  <1>. QED BY <1>1, <1>6, <1>8 DEF OptionsRead

LEMMA OptionsReadNext ==
    ASSUME OptionsRead, [Next]_vars
    PROVE  OptionsRead'
  <1>1. CASE Getopt
    BY <1>1, GetoptRead
  <1>2. CASE Open
    BY <1>2 DEF OptionsRead, Open, args
  <1>3. CASE ~Getopt /\ ~Open
    <2>1. UNCHANGED args /\ (pc \in {"getopt", "exit"} => pc' = pc)
      BY <1>3 DEF Next, ReadLine, EndOfFile, EndOfFileSort, Call, Finish, binsert, Found,
                  MoveRight, MoveLeft, Insert, Return, vars
    <2>. QED BY <2>1 DEF OptionsRead, args
  <1>. QED BY <1>1, <1>2, <1>3

\* Once the options are all read they have been obeyed.
LEMMA OptionsObeyed ==
    ASSUME OptionsRead, pc \notin {"getopt", "exit"}
    PROVE  /\ cmp = Rank /\ reverse = (Given("r") # {}) /\ uniq = (Given("u") # {})
           /\ Way \in Int /\ Way = IF reverse THEN 0 - 1 ELSE 1
  <1>. DEFINE n == Len(argv)
              none(k) == \A l \in (k + 1) .. n : argv[l] \notin {"l", "n"}
  <1>1. /\ optind = n /\ n \in Nat /\ DOMAIN argv = 1 .. n
        /\ reverse = (Given("r") # {}) /\ uniq = (Given("u") # {})
        /\ \/ none(0) /\ cmp = cmp_pstr
           \/ \E k \in Given("l") : none(k) /\ cmp = cmp_pstr_len
           \/ \E k \in Given("n") : none(k) /\ cmp = cmp_pstr_numeric
    BY DEF OptionsRead, Given
  <1>. HIDE DEF n
  <1>2. ASSUME NEW k \in Given("l") \cup Given("n"), none(k)
        PROVE  LastCmp = {k}
    <2>1. \A l \in Given("l") \cup Given("n") : l \in 1 .. n /\ argv[l] \in {"l", "n"}
      BY <1>1 DEF Given
    <2>2. \A l \in Given("l") \cup Given("n") : l \notin (k + 1) .. n
      BY <1>2, <2>1
    <2>3. \A l \in Given("l") \cup Given("n") : l \in Int /\ l <= k
      BY <1>1, <2>1, <2>2
    <2>4. \A l \in Given("l") \cup Given("n") : k <= l => l = k
      BY <2>3
    <2>. QED BY <2>3, <2>4 DEF LastCmp
  <1>3. ASSUME none(0) /\ cmp = cmp_pstr
        PROVE  cmp = Rank
    <2>1. \A k \in 1 .. n : k \in (0 + 1) .. n
      BY <1>1
    <2>2. Given("l") \cup Given("n") = {}
      BY <1>1, <1>3, <2>1 DEF Given
    <2>. QED BY <1>3, <2>2 DEF LastCmp, Rank
  <1>4. ASSUME \E k \in Given("l") : none(k) /\ cmp = cmp_pstr_len
        PROVE  cmp = Rank
    <2>1. \E k \in Given("l") : LastCmp = {k} /\ cmp = cmp_pstr_len
      BY <1>2, <1>4
    <2>. QED BY <2>1 DEF Rank
  <1>5. ASSUME \E k \in Given("n") : none(k) /\ cmp = cmp_pstr_numeric
        PROVE  cmp = Rank
    <2>1. \E k \in Given("n") : LastCmp = {k} /\ cmp = cmp_pstr_numeric
      BY <1>2, <1>5
    <2>2. Given("n") \cap Given("l") = {}
      BY DEF Given
    <2>. QED BY <2>1, <2>2 DEF Rank
  <1>6. cmp = Rank
    BY <1>1, <1>3, <1>4, <1>5
  <1>7. Way \in Int /\ Way = IF reverse THEN 0 - 1 ELSE 1
    <2>1. reverse <=> Given("r") # {}
      BY <1>1
    <2>. QED BY <2>1 DEF Way
  <1>. QED BY <1>1, <1>6, <1>7

\* No element of a is followed by one that r ranks before it, or by one it ranks
\* the same; the elements of a, and the first of each kind.
Directed(a, r, way) == \A k \in 2 .. Len(a) : way * r[a[k - 1]] <= way * r[a[k]]

LEMMA DirectedUp ==
    ASSUME NEW a, NEW r,
           \A k \in 2 .. Len(a) : r[a[k - 1]] \in Int /\ r[a[k]] \in Int,
           \A k \in 2 .. Len(a) : r[a[k - 1]] <= r[a[k]]
    PROVE  Directed(a, r, 1)
  <1>. SUFFICES ASSUME NEW k \in 2 .. Len(a) PROVE 1 * r[a[k - 1]] <= 1 * r[a[k]]
    BY DEF Directed
  <1>. DEFINE x == r[a[k - 1]]
              y == r[a[k]]
  <1>1. x \in Int /\ y \in Int /\ x <= y
    OBVIOUS
  <1>. HIDE DEF x, y
  <1>2. 1 * x <= 1 * y
    BY <1>1
  <1>. QED BY <1>2 DEF x, y
Distinct(a, r) == \A k \in 2 .. Len(a) : r[a[k - 1]] # r[a[k]]
Elements(a)    == {a[k] : k \in DOMAIN a}
Firsts(a, r)   == {a[k] : k \in {k \in DOMAIN a : \A l \in 1 .. (k - 1) : r[a[l]] # r[a[k]]}}

\* print_helper keeps the lines and their number, and turns their order round
\* when it is to.
LEMMA PrintedOrder ==
    ASSUME NEW a \in Seq(Line), NEW r \in [Line -> Int],
           reverse \in BOOLEAN, NEW way, way = IF reverse THEN 0 - 1 ELSE 1,
           Directed(a, r, 1), NEW o, o = print_helper(a)
    PROVE  /\ Len(o) = Len(a) /\ Elements(o) = Elements(a) /\ Directed(o, r, way)
           /\ Distinct(a, r) => Distinct(o, r)
  <1>. USE DEF Directed, Distinct, Elements
  <1>. DEFINE n == Len(a)
  <1>1. n \in Nat /\ DOMAIN a = 1 .. n /\ \A k \in 1 .. n : a[k] \in Line /\ r[a[k]] \in Int
    OBVIOUS
  <1>2. \A k \in 2 .. n : k \in 1 .. n /\ k - 1 \in 1 .. n
    BY <1>1
  <1>3. CASE ~reverse
    <2>1. o = a /\ way = 1
      BY <1>3 DEF print_helper
    <2>. QED BY <2>1
  <1>4. CASE reverse
    <2>1. o = [k \in 1 .. n |-> a[n + 1 - k]] /\ way = 0 - 1
      BY <1>1, <1>4 DEF print_helper
    <2>. HIDE DEF n
    <2>2. \A k \in 1 .. n : n + 1 - k \in 1 .. n /\ n + 1 - (n + 1 - k) = k
      BY <1>1
    <2>3. o \in Seq(Line) /\ Len(o) = n /\ DOMAIN o = 1 .. n
      BY <1>1, <2>1, <2>2
    <2>4. {o[k] : k \in 1 .. n} = {a[k] : k \in 1 .. n}
      <3>1. \A k \in 1 .. n : o[k] = a[n + 1 - k] /\ o[n + 1 - k] = a[k]
        BY <2>1, <2>2
      <3>. QED BY <2>2, <3>1, SMTT(30)
    <2>5. ASSUME NEW k \in 2 .. n
          PROVE  /\ n + 2 - k \in 2 .. n
                 /\ o[k] = a[(n + 2 - k) - 1] /\ o[k - 1] = a[n + 2 - k]
      <3>1. n + 2 - k \in 2 .. n /\ n + 1 - k = (n + 2 - k) - 1 /\ n + 1 - (k - 1) = n + 2 - k
        BY <1>1
      <3>. QED BY <1>2, <2>1, <3>1
    <2>6. ASSUME NEW k \in 2 .. n
          PROVE  /\ way * r[o[k - 1]] <= way * r[o[k]]
                 /\ (\A m \in 2 .. n : r[a[m - 1]] # r[a[m]]) => r[o[k - 1]] # r[o[k]]
      <3>. DEFINE x == r[o[k - 1]]  y == r[o[k]]
      <3>1. y <= x /\ x \in Int /\ y \in Int
        <4>1. y = r[a[(n + 2 - k) - 1]] /\ x = r[a[n + 2 - k]] /\ n + 2 - k \in 2 .. n
          BY <2>5
        <4>2. 1 * y <= 1 * x
          BY <4>1 DEF n
        <4>3. x \in Int /\ y \in Int
          BY <1>1, <1>2, <4>1
        <4>. HIDE DEF x, y
        <4>. QED BY <4>2, <4>3
      <3>2. way * x <= way * y
        <4>. HIDE DEF x, y
        <4>. QED BY <2>1, <3>1
      <3>3. ASSUME \A m \in 2 .. n : r[a[m - 1]] # r[a[m]]
            PROVE  r[o[k - 1]] # r[o[k]]
        <4>1. r[a[(n + 2 - k) - 1]] # r[a[n + 2 - k]]
          BY <2>5, <3>3
        <4>. QED BY <2>5, <4>1
      <3>. QED BY <3>2, <3>3
    <2>. QED BY <1>1, <2>3, <2>4, <2>6 DEF n
  <1>. QED BY <1>3, <1>4

\* Output, with its terms named.
Asked ==
    pc = "done" =>
       /\ Directed(out, Rank, Way)
       /\ IF Given("u") = {} THEN Len(out) = size_used
          ELSE Distinct(out, Rank) /\ Elements(out) = Firsts(str_array, Rank)

LEMMA OutputMeans == (Output <=> Asked) /\ (Output' <=> Asked')
  BY Zenon DEF Output, Asked, Way, Rank, LastCmp, Given, Directed, Distinct, Elements, Firsts

LEMMA EndOfFileSortOutput ==
    ASSUME IInv, OptionsRead, EndOfFileSort
    PROVE  Output'
  <1>1. /\ pc = "read" /\ ~uniq /\ UNCHANGED args
        /\ str_array' \in Qsorted(str_array) /\ out' = print_helper(str_array')
        /\ str_array \in Seq(Line) /\ cmp \in [Line -> Int]
    BY DEF IInv, TypeOK, EndOfFileSort
  <1>2. str_array' \in Seq(Line) /\ Len(str_array') = Len(str_array)
    BY <1>1, SortedLines
  <1>3. Directed(str_array', cmp, 1)
    <2>1. \A k \in 2 .. Len(str_array') : cmp[str_array'[k - 1]] <= cmp[str_array'[k]]
      BY <1>1, <1>2 DEF Qsorted
    <2>2. \A k \in 2 .. Len(str_array') :
             cmp[str_array'[k - 1]] \in Int /\ cmp[str_array'[k]] \in Int
      BY <1>1, <1>2
    <2>. QED BY <2>1, <2>2, DirectedUp
  <1>4. /\ cmp = Rank /\ Given("u") = {} /\ reverse \in BOOLEAN
        /\ Way = IF reverse THEN 0 - 1 ELSE 1
    BY <1>1, OptionsObeyed
  <1>5. Len(out') = Len(str_array') /\ Directed(out', Rank, Way)
    BY <1>1, <1>2, <1>3, <1>4, PrintedOrder
  <1>6. Way' = Way /\ Rank' = Rank /\ Given("u")' = Given("u")
    BY <1>1 DEF args, Way, Rank, LastCmp, Given
  <1>7. Asked'
    BY <1>4, <1>5, <1>6 DEF Asked, size_used
  <1>. QED BY <1>7, OutputMeans

LEMMA FinishOutput ==
    ASSUME IInv, OptionsRead, Finish
    PROVE  Output'
  <1>. DEFINE a == [k \in 1 .. nelem |-> uniq_array[k - 1]]
  <1>1. /\ pc = "next" /\ uniq /\ UNCHANGED args /\ UNCHANGED str_array
        /\ out' = print_helper(a) /\ i = Len(str_array) /\ nelem \in Nat
        /\ str_array \in Seq(Line) /\ cmp \in [Line -> Int]
    BY DEF IInv, TypeOK, Finish, arrays, size_used
  <1>2. \A j \in 0 .. (nelem - 1) : uniq_array[j] \in Line
    BY DEF IInv, Sorted
  <1>3. a \in Seq(Line) /\ Len(a) = nelem /\ DOMAIN a = 1 .. nelem
    BY <1>1, <1>2
  <1>4. Directed(a, cmp, 1) /\ Distinct(a, cmp)
    <2>1. ASSUME NEW k \in 2 .. nelem
          PROVE  /\ k - 1 \in 0 .. (nelem - 1) /\ k - 2 \in 0 .. ((k - 1) - 1)
                 /\ k - 2 \in 0 .. (nelem - 1)
                 /\ a[k] = uniq_array[k - 1] /\ a[k - 1] = uniq_array[k - 2]
      BY <1>1
    <2>2. ASSUME NEW k \in 2 .. nelem
          PROVE  /\ cmp[a[k - 1]] < cmp[a[k]]
                 /\ cmp[a[k - 1]] \in Int /\ cmp[a[k]] \in Int
      BY <1>1, <1>2, <2>1 DEF IInv, Sorted
    <2>. HIDE DEF a
    <2>. QED BY <1>3, <2>2 DEF Directed, Distinct
  <1>5. Elements(a) = Firsts(str_array, cmp)
    <2>1. \A j \in 0 .. (nelem - 1) : j + 1 \in 1 .. nelem /\ (j + 1) - 1 = j
      BY <1>1
    <2>2. \A k \in 1 .. nelem : k - 1 \in 0 .. (nelem - 1)
      BY <1>1
    <2>3. Elements(a) = {uniq_array[j] : j \in 0 .. (nelem - 1)}
      BY <1>3, <2>1, <2>2 DEF Elements
    <2>4. \A line \in Line :
             (\E j \in 0 .. (nelem - 1) : uniq_array[j] = line) <=> line \in Firsts(str_array, cmp)
      <3>1. DOMAIN str_array = 1 .. i
        BY <1>1
      <3>. QED BY <3>1 DEF IInv, FirstOfEachKind, Firsts
    <2>5. Firsts(str_array, cmp) \subseteq Line
      BY <1>1 DEF Firsts
    <2>. HIDE DEF a
    <2>. QED BY <1>2, <2>3, <2>4, <2>5
  <1>6. /\ cmp = Rank /\ Given("u") # {} /\ reverse \in BOOLEAN
        /\ Way = IF reverse THEN 0 - 1 ELSE 1
    BY <1>1, OptionsObeyed
  <1>7. /\ Directed(out', Rank, Way) /\ Distinct(out', Rank)
        /\ Elements(out') = Firsts(str_array, Rank)
    <2>. HIDE DEF a
    <2>. QED BY <1>1, <1>3, <1>4, <1>5, <1>6, PrintedOrder
  <1>8. Way' = Way /\ Rank' = Rank /\ Given("u")' = Given("u")
    BY <1>1 DEF args, Way, Rank, LastCmp, Given
  <1>9. Asked'
    BY <1>1, <1>6, <1>7, <1>8 DEF Asked
  <1>. QED BY <1>9, OutputMeans

LEMMA NextOInv == IInv /\ OInv /\ [Next]_vars => OInv'
  <1>. SUFFICES ASSUME IInv, OInv, [Next]_vars
                PROVE  OInv'
    OBVIOUS
  <1>1. OptionsRead /\ OptionsRead' /\ Output
    BY OptionsReadNext DEF OInv
  <1>2. CASE EndOfFileSort
    BY <1>1, <1>2, EndOfFileSortOutput DEF OInv
  <1>3. CASE Finish
    BY <1>1, <1>3, FinishOutput DEF OInv
  <1>4. CASE ~EndOfFileSort /\ ~Finish
    <2>1. UNCHANGED vars \/ pc' # "done"
      BY <1>4 DEF Next, ReadLine, Getopt, Open, EndOfFile, Call, binsert, Found,
                  MoveRight, MoveLeft, Insert, Return
    <2>2. CASE UNCHANGED vars
      <3>1. UNCHANGED <<argv, str_array, out, pc>>
        BY <2>2 DEF vars, args, arrays
      <3>2. Way' = Way /\ Rank' = Rank /\ Given("u")' = Given("u")
        BY <3>1 DEF Way, Rank, LastCmp, Given
      <3>3. Asked'
        BY <1>1, <3>1, <3>2, OutputMeans DEF Asked, size_used
      <3>. QED BY <1>1, <3>3, OutputMeans DEF OInv
    <2>3. CASE pc' # "done"
      BY <1>1, <2>3 DEF OInv, Output
    <2>. QED BY <2>1, <2>2, <2>3
  <1>. QED BY <1>2, <1>3, <1>4

\* What mysort prints is what its options ask for, in whatever order they stand:
\* the lines in the order of the last comparison given, turned round by -r, and
\* with -u the first line of each kind and no other.
THEOREM OutputRight == Spec => []Output
  <1>1. IInv /\ OInv /\ [Next]_vars => OInv'
    BY NextOInv
  <1>2. OInv => Output
    BY DEF OInv
  <1>. QED BY <1>1, <1>2, InitOInv, Invariance, PTL DEF Spec
=============================================================================
