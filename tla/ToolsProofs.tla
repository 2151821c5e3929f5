----------------------------- MODULE ToolsProofs -----------------------------
(***************************************************************************)
(* Proofs about the programs of Strings, Words and Arrays, for every       *)
(* command line they may be started with.                                  *)
(*                                                                         *)
(* A behaviour is that of one program, and arg never changes: the fields   *)
(* that arg has tell which program it is, and each has an invariant of its *)
(* own.                                                                    *)
(***************************************************************************)
EXTENDS Arrays, FiniteSetTheorems, SequenceTheorems, WellFoundedInduction, TLAPS

Ended == pc \in {"done", "refused", "crashed"}

-----------------------------------------------------------------------------
(* The steps of the programs.                                              *)

\* A step is one of the action that stands at its place, and leaves arg alone;
\* some of the places are only those of a program's start.
LEMMA StringSteps ==
    ASSUME StringStep
    PROVE  /\ arg' = arg /\ ~Ended
           /\ pc' = pc \/ pc' \in {"words", "syllables", "letters", "ls", "done", "refused", "crashed"}
           /\ pc = "tokenize" => Tokenize
           /\ pc = "words" => NextWord
           /\ pc = "syllables" => NextSyllable
           /\ pc = "letters" => NextLetter
           /\ pc = "printenv" => PrintenvAll \/ PrintenvNext
           /\ pc = "list" => WhichList
           /\ pc = "which" => Which \/ WhichEnd
           /\ pc = "strtok" => StrtokFirst \/ StrtokNext \/ StrtokEnd
           /\ pc = "pig" => PigNext \/ PigEnd
           /\ pc \in {"tokenize", "words", "syllables", "letters", "printenv", "list",
                      "which", "strtok", "pig"}
  <1>1. CASE Tokenize
    BY <1>1 DEF Tokenize, Ended
  <1>2. CASE NextWord
    BY <1>2 DEF NextWord, Ended
  <1>3. CASE NextSyllable
    BY <1>3 DEF NextSyllable, Ended
  <1>4. CASE NextLetter
    BY <1>4 DEF NextLetter, Ended
  <1>5. CASE PrintenvAll
    BY <1>5 DEF PrintenvAll, Ended
  <1>6. CASE PrintenvNext
    BY <1>6 DEF PrintenvNext, Ended
  <1>7. CASE WhichList
    BY <1>7 DEF WhichList, Ended
  <1>8. CASE Which
    BY <1>8 DEF Which, Ended
  <1>9. CASE WhichEnd
    BY <1>9 DEF WhichEnd, Ended
  <1>10. CASE StrtokFirst
    BY <1>10 DEF StrtokFirst, Ended
  <1>11. CASE StrtokNext
    BY <1>11 DEF StrtokNext, Ended
  <1>12. CASE StrtokEnd
    BY <1>12 DEF StrtokEnd, Ended
  <1>13. CASE PigNext
    BY <1>13 DEF PigNext, Ended
  <1>14. CASE PigEnd
    BY <1>14 DEF PigEnd, Ended
  <1>. QED BY <1>1, <1>2, <1>3, <1>4, <1>5, <1>6, <1>7, <1>8, <1>9, <1>10, <1>11, <1>12,
              <1>13, <1>14 DEF StringStep

LEMMA WordSteps ==
    ASSUME WordStep
    PROVE  /\ arg' = arg /\ ~Ended
           /\ pc' = pc \/ pc' \in {"words", "syllables", "letters", "ls", "done", "refused", "crashed"}
           /\ pc = "range" => PrintRange
           /\ pc = "sum" => Add \/ PrintSum
           /\ pc = "utf8" => Utf8Next \/ Utf8End
           /\ pc = "automata" => Generation
           /\ pc \in {"range", "sum", "utf8", "automata", "mid", "round", "zero_byte", "atoi",
                      "parity", "triangle"}
  <1>1. CASE PrintRange
    BY <1>1 DEF PrintRange, Ended
  <1>2. CASE Add
    BY <1>2 DEF Add, Ended
  <1>3. CASE PrintSum
    BY <1>3 DEF PrintSum, Ended
  <1>4. CASE Utf8Next
    BY <1>4 DEF Utf8Next, Ended
  <1>5. CASE Utf8End
    BY <1>5 DEF Utf8End, Ended
  <1>6. CASE Generation
    BY <1>6 DEF Generation, Ended
  <1>7. CASE TryMid \/ RoundUp \/ ZeroByte \/ Atoi
    BY <1>7 DEF TryMid, RoundUp, ZeroByte, Atoi, Ended
  <1>8. CASE ParityNext \/ ParityEnd
    BY <1>8 DEF ParityNext, ParityEnd, Ended
  <1>9. CASE TriangleRow \/ TriangleEnd
    BY <1>9 DEF TriangleRow, TriangleEnd, Ended
  <1>. QED BY <1>1, <1>2, <1>3, <1>4, <1>5, <1>6, <1>7, <1>8, <1>9 DEF WordStep

LEMMA ArraySteps ==
    ASSUME ArrayStep
    PROVE  /\ arg' = arg /\ ~Ended
           /\ pc' = pc \/ pc' \in {"words", "syllables", "letters", "ls", "done", "refused", "crashed"}
           /\ pc = "memcpy" => Memcpy
           /\ pc \in {"forward", "backward"} => MoveByte
           /\ pc = "isort" => Swap \/ NextElem \/ TrialEnd
           /\ pc = "getopt" => Getopt
           /\ pc = "ls" => LsOnly \/ LsNext
           /\ pc \in {"memcpy", "forward", "backward", "isort", "getopt", "ls"}
  <1>1. CASE Memcpy
    BY <1>1 DEF Memcpy, Ended
  <1>2. CASE MoveByte
    BY <1>2 DEF MoveByte, Ended
  <1>3. CASE Swap
    BY <1>3 DEF Swap, Ended
  <1>4. CASE NextElem
    BY <1>4 DEF NextElem, Ended
  <1>5. CASE TrialEnd
    BY <1>5 DEF TrialEnd, Ended
  <1>6. CASE Getopt
    BY <1>6 DEF Getopt, Ended
  <1>7. CASE LsOnly \/ LsNext
    BY <1>7 DEF LsOnly, LsNext, Ended
  <1>. QED BY <1>1, <1>2, <1>3, <1>4, <1>5, <1>6, <1>7 DEF ArrayStep

\* The fields of arg when a program has been started.
LEMMA MainArgs ==
    /\ TokenizeMain => DOMAIN arg = {"input", "delimiters", "buflen"}
    /\ FixedTest => DOMAIN arg = {"input"}
    /\ PrintenvMain => DOMAIN arg = {"envp", "argv"}
    /\ WhichMain => DOMAIN arg = {"envp", "argv", "searchpath"}
    /\ StrtokMain => DOMAIN arg = {"strings", "delimiters"}
    /\ PigMain => DOMAIN arg = {"words"}
    /\ SatMain => DOMAIN arg = {"bitwidth", "operands"}
    /\ Utf8Main => DOMAIN arg = {"points"}
    /\ AutomataMain => DOMAIN arg = {"rule"}
    /\ TriangleMain => DOMAIN arg = {"size"}
    /\ MidMain => DOMAIN arg = {"x", "y"}
    /\ ParityMain => DOMAIN arg = {"val"}
    /\ RoundMain => DOMAIN arg = {"value", "multiple"}
    /\ ZeroByteMain => DOMAIN arg = {"word"}
    /\ AtoiMain => DOMAIN arg = {"digits"}
    /\ MemmoveMain => DOMAIN arg = {"dest", "src", "nbytes"}
    /\ IsortMain => DOMAIN arg = {"nelems"}
    /\ MylsMain => DOMAIN arg = {"options", "dirs"}
  <1>1. TokenizeMain => DOMAIN arg = {"input", "delimiters", "buflen"}
    BY DEF TokenizeMain, Starts
  <1>2. FixedTest => DOMAIN arg = {"input"}
    BY DEF FixedTest, Starts
  <1>3. PrintenvMain => DOMAIN arg = {"envp", "argv"}
    BY DEF PrintenvMain, Starts
  <1>4. WhichMain => DOMAIN arg = {"envp", "argv", "searchpath"}
    BY DEF WhichMain, Starts
  <1>5. StrtokMain => DOMAIN arg = {"strings", "delimiters"}
    BY DEF StrtokMain, Starts
  <1>6. PigMain => DOMAIN arg = {"words"}
    BY DEF PigMain
  <1>7. SatMain => DOMAIN arg = {"bitwidth", "operands"}
    BY DEF SatMain, Starts
  <1>8. Utf8Main => DOMAIN arg = {"points"}
    BY DEF Utf8Main, Starts
  <1>9. AutomataMain => DOMAIN arg = {"rule"}
    BY DEF AutomataMain, Starts
  <1>10. TriangleMain => DOMAIN arg = {"size"}
    BY DEF TriangleMain, Starts
  <1>11. MidMain => DOMAIN arg = {"x", "y"}
    BY DEF MidMain, Starts
  <1>12. ParityMain => DOMAIN arg = {"val"}
    BY DEF ParityMain, Starts
  <1>13. RoundMain => DOMAIN arg = {"value", "multiple"}
    BY DEF RoundMain, Starts
  <1>14. ZeroByteMain => DOMAIN arg = {"word"}
    BY DEF ZeroByteMain, Starts
  <1>15. AtoiMain => DOMAIN arg = {"digits"}
    BY DEF AtoiMain, Starts
  <1>16. MemmoveMain => DOMAIN arg = {"dest", "src", "nbytes"}
    BY DEF MemmoveMain, Starts
  <1>17. IsortMain => DOMAIN arg = {"nelems"}
    BY DEF IsortMain, Starts
  <1>18. MylsMain => DOMAIN arg = {"options", "dirs"}
    BY DEF MylsMain, Starts
  <1>. QED BY <1>1, <1>2, <1>3, <1>4, <1>5, <1>6, <1>7, <1>8, <1>9, <1>10, <1>11, <1>12, <1>13, <1>14, <1>15, <1>16, <1>17, <1>18

\* The program that has been started is told by them.
LEMMA Mains ==
    ASSUME Init
    PROVE  /\ "buflen" \in DOMAIN arg => TokenizeMain
           /\ DOMAIN arg = {"input"} => FixedTest
           /\ "searchpath" \in DOMAIN arg => WhichMain
           /\ "argv" \in DOMAIN arg /\ "searchpath" \notin DOMAIN arg => PrintenvMain
           /\ "strings" \in DOMAIN arg => StrtokMain
           /\ "words" \in DOMAIN arg => PigMain
           /\ "bitwidth" \in DOMAIN arg => SatMain
           /\ "points" \in DOMAIN arg => Utf8Main
           /\ "rule" \in DOMAIN arg => AutomataMain
           /\ "nbytes" \in DOMAIN arg => MemmoveMain
           /\ "nelems" \in DOMAIN arg => IsortMain
           /\ "dirs" \in DOMAIN arg => MylsMain
  BY MainArgs DEF Init, StringMain, WordMain, ArrayMain

-----------------------------------------------------------------------------
(* memmove.                                                                *)

\* What memory is after the bytes a .. b - 1 of the block at s have been moved
\* to d.
Copied(d, s, a, b) ==
    [k \in 0 .. (Bytes - 1) |-> IF k - d \in a .. (b - 1) THEN k - d + s ELSE k]

Moved(mem, a, b) == mem = Copied(arg.dest, arg.src, a, b)

\* memcpy is right if the blocks are apart.
LEMMA CopyApart ==
    ASSUME NEW d \in Nat, NEW s \in Nat, NEW nb \in Nat, d + nb <= Bytes, s + nb <= Bytes,
           NEW mem, mem = Copied(d, s, 0, 0)
    PROVE  [k \in DOMAIN mem |-> IF k \in d .. (d + nb - 1) THEN mem[k - d + s] ELSE mem[k]]
               = Copied(d, s, 0, nb)
  <1>1. Bytes \in Nat
    BY ArraysAssumption
  <1>2. DOMAIN mem = 0 .. (Bytes - 1) /\ \A k \in 0 .. (Bytes - 1) : mem[k] = k
    BY DEF Copied
  <1>3. ASSUME NEW k \in 0 .. (Bytes - 1)
        PROVE  (IF k \in d .. (d + nb - 1) THEN mem[k - d + s] ELSE mem[k])
                   = IF k - d \in 0 .. (nb - 1) THEN k - d + s ELSE k
    <2>1. k \in d .. (d + nb - 1) <=> k - d \in 0 .. (nb - 1)
      BY <1>1
    <2>2. CASE k \in d .. (d + nb - 1)
      <3>1. k - d + s \in 0 .. (Bytes - 1)
        BY <1>1, <2>2
      <3>. QED BY <1>2, <2>1, <2>2, <3>1
    <2>. QED BY <1>2, <2>1, <2>2
  <1>. QED BY <1>2, <1>3 DEF Copied

\* Upwards, a byte is read before it may be overwritten; and downwards.
LEMMA CopyUp ==
    ASSUME NEW d \in Nat, NEW s \in Nat, NEW nb \in Nat, d + nb <= Bytes, s + nb <= Bytes,
           d < s, NEW i \in 0 .. (nb - 1), NEW mem, mem = Copied(d, s, 0, i)
    PROVE  [mem EXCEPT ![d + i] = mem[s + i]] = Copied(d, s, 0, i + 1)
  <1>1. Bytes \in Nat /\ s + i \in 0 .. (Bytes - 1) /\ s + i - d \notin 0 .. (i - 1)
    BY ArraysAssumption
  <1>2. mem[s + i] = s + i
    BY <1>1 DEF Copied
  <1>3. ASSUME NEW k \in 0 .. (Bytes - 1)
        PROVE  (IF k = d + i THEN s + i ELSE IF k - d \in 0 .. (i - 1) THEN k - d + s ELSE k)
                   = IF k - d \in 0 .. ((i + 1) - 1) THEN k - d + s ELSE k
    BY <1>1
  <1>. QED BY <1>2, <1>3 DEF Copied

LEMMA CopyDown ==
    ASSUME NEW d \in Nat, NEW s \in Nat, NEW nb \in Nat, d + nb <= Bytes, s + nb <= Bytes,
           s < d, NEW i \in 0 .. (nb - 1), NEW mem, mem = Copied(d, s, i + 1, nb)
    PROVE  [mem EXCEPT ![d + i] = mem[s + i]] = Copied(d, s, (i - 1) + 1, nb)
  <1>1. Bytes \in Nat /\ s + i \in 0 .. (Bytes - 1) /\ s + i - d \notin (i + 1) .. (nb - 1)
    BY ArraysAssumption
  <1>2. mem[s + i] = s + i
    BY <1>1 DEF Copied
  <1>3. ASSUME NEW k \in 0 .. (Bytes - 1)
        PROVE  (IF k = d + i THEN s + i ELSE IF k - d \in (i + 1) .. (nb - 1) THEN k - d + s ELSE k)
                   = IF k - d \in ((i - 1) + 1) .. (nb - 1) THEN k - d + s ELSE k
    BY <1>1
  <1>. QED BY <1>2, <1>3 DEF Copied

MoveInv ==
    "nbytes" \in DOMAIN arg =>
        /\ {arg.dest, arg.src, arg.nbytes} \subseteq Nat
        /\ arg.dest + arg.nbytes <= Bytes /\ arg.src + arg.nbytes <= Bytes
        /\ \/ /\ pc = "memcpy" /\ Moved(loc.mem, 0, 0) /\ "mem" \in DOMAIN loc
              /\ arg.src + arg.nbytes <= arg.dest \/ arg.dest + arg.nbytes <= arg.src
           \/ /\ pc = "forward" /\ arg.dest < arg.src /\ loc.i \in 0 .. arg.nbytes
              /\ Moved(loc.mem, 0, loc.i)
           \/ /\ pc = "backward" /\ arg.src < arg.dest /\ loc.i \in -1 .. (arg.nbytes - 1)
              /\ Moved(loc.mem, loc.i + 1, arg.nbytes)
           \/ pc = "done" /\ Moved(loc.mem, 0, arg.nbytes)

LEMMA MoveInit == Init => MoveInv
  <1>. SUFFICES ASSUME MemmoveMain PROVE MoveInv
    BY Mains DEF MoveInv
  <1>1. PICK dest \in 0 .. Bytes, src \in 0 .. Bytes, nbytes \in 0 .. Bytes :
            /\ dest + nbytes <= Bytes /\ src + nbytes <= Bytes
            /\ arg = [dest |-> dest, src |-> src, nbytes |-> nbytes]
            /\ loc = [mem |-> [k \in 0 .. (Bytes - 1) |-> k],
                      i |-> IF dest < src THEN 0 ELSE nbytes - 1]
            /\ pc = CASE dest = src -> "done"
                      [] dest # src /\ (src + nbytes <= dest \/ dest + nbytes <= src) -> "memcpy"
                      [] OTHER -> IF dest < src THEN "forward" ELSE "backward"
    BY DEF MemmoveMain, Starts
  <1>2. Bytes \in Nat /\ arg.dest = dest /\ arg.src = src /\ arg.nbytes = nbytes
    BY <1>1, ArraysAssumption
  <1>3. \A a \in Int : Moved(loc.mem, a, a)
    BY <1>1, <1>2 DEF Moved, Copied
  <1>4. CASE dest = src
    <2>1. Moved(loc.mem, 0, nbytes)
      BY <1>1, <1>2, <1>4 DEF Moved, Copied
    <2>. QED BY <1>1, <1>2, <1>4, <2>1 DEF MoveInv
  <1>5. CASE dest # src /\ (src + nbytes <= dest \/ dest + nbytes <= src)
    BY <1>1, <1>2, <1>3, <1>5 DEF MoveInv
  <1>6. CASE ~(dest = src \/ (dest # src /\ (src + nbytes <= dest \/ dest + nbytes <= src)))
    <2>1. CASE dest < src
      <3>1. pc = "forward" /\ loc.i = 0
        BY <1>1, <1>6, <2>1
      <3>. QED BY <1>1, <1>2, <1>3, <2>1, <3>1 DEF MoveInv
    <2>2. CASE ~(dest < src)
      <3>1. pc = "backward" /\ loc.i = nbytes - 1 /\ src < dest
        BY <1>1, <1>2, <1>6, <2>2
      <3>2. Moved(loc.mem, loc.i + 1, nbytes)
        BY <1>2, <1>3, <3>1
      <3>. QED BY <1>1, <1>2, <3>1, <3>2 DEF MoveInv
    <2>. QED BY <2>1, <2>2
  <1>. QED BY <1>4, <1>5, <1>6

LEMMA MoveSteps ==
    ASSUME [Next]_vars, pc \in {"memcpy", "forward", "backward", "done"}
    PROVE  arg' = arg /\ (UNCHANGED vars \/ Memcpy \/ MoveByte)
  BY StringSteps, WordSteps, ArraySteps DEF Next, Exit, Ended, vars

LEMMA MoveNext == MoveInv /\ [Next]_vars => MoveInv'
  <1>. SUFFICES ASSUME MoveInv, [Next]_vars PROVE MoveInv'
    OBVIOUS
  <1>. SUFFICES ASSUME "nbytes" \in DOMAIN arg PROVE MoveInv'
    <2>1. arg' = arg
      BY StringSteps, WordSteps, ArraySteps DEF Next, Exit, vars
    <2>. QED BY <2>1 DEF MoveInv
  <1>1. arg' = arg /\ (UNCHANGED vars \/ Memcpy \/ MoveByte)
    BY MoveSteps DEF MoveInv
  <1>. DEFINE d == arg.dest
              s == arg.src
              nb == arg.nbytes
  <1>2. d \in Nat /\ s \in Nat /\ nb \in Nat /\ Bytes \in Nat /\ d + nb <= Bytes /\ s + nb <= Bytes
    BY ArraysAssumption DEF MoveInv
  <1>3. CASE UNCHANGED vars
    BY <1>1, <1>3 DEF MoveInv, Moved, vars
  <1>4. CASE Memcpy
    <2>1. /\ Moved(loc.mem, 0, 0) /\ pc' = "done" /\ (s + nb <= d \/ d + nb <= s)
          /\ "mem" \in DOMAIN loc
          /\ loc' = [loc EXCEPT !.mem = [k \in DOMAIN loc.mem |->
                         IF k \in d .. (d + nb - 1) THEN loc.mem[k - d + s] ELSE loc.mem[k]]]
      BY <1>4 DEF MoveInv, Memcpy
    <2>2. loc'.mem = Copied(d, s, 0, nb)
      BY <1>2, <2>1, CopyApart DEF Moved
    <2>. QED BY <1>1, <1>2, <2>1, <2>2 DEF MoveInv, Moved
  <1>5. CASE MoveByte
    <2>1. CASE loc.i \in 0 .. (nb - 1)
      <3>. DEFINE i == loc.i
      <3>1. /\ pc \in {"forward", "backward"} /\ pc' = pc /\ i \in 0 .. (nb - 1)
            /\ loc' = [mem |-> [loc.mem EXCEPT ![d + i] = loc.mem[s + i]],
                       i   |-> IF pc = "forward" THEN i + 1 ELSE i - 1]
        BY <1>5, <2>1 DEF MoveByte
      <3>2. CASE pc = "forward"
        <4>1. d < s /\ loc.mem = Copied(d, s, 0, i)
          BY <3>2 DEF MoveInv, Moved
        <4>2. loc'.mem = Copied(d, s, 0, i + 1) /\ loc'.i = i + 1
          BY <1>2, <3>1, <3>2, <4>1, CopyUp
        <4>3. i + 1 \in 0 .. nb
          BY <1>2, <3>1
        <4>. QED BY <1>1, <1>2, <3>1, <3>2, <4>1, <4>2, <4>3 DEF MoveInv, Moved
      <3>3. CASE pc = "backward"
        <4>1. s < d /\ loc.mem = Copied(d, s, i + 1, nb)
          BY <3>3 DEF MoveInv, Moved
        <4>2. loc'.mem = Copied(d, s, (i - 1) + 1, nb) /\ loc'.i = i - 1
          BY <1>2, <3>1, <3>3, <4>1, CopyDown
        <4>3. i - 1 \in -1 .. (nb - 1)
          BY <1>2, <3>1
        <4>. QED BY <1>1, <1>2, <3>1, <3>3, <4>1, <4>2, <4>3 DEF MoveInv, Moved
      <3>. QED BY <3>1, <3>2, <3>3
    <2>2. CASE loc.i \notin 0 .. (nb - 1)
      <3>1. pc \in {"forward", "backward"} /\ pc' = "done" /\ loc' = loc
        BY <1>5, <2>2 DEF MoveByte
      <3>2. Moved(loc.mem, 0, nb)
        <4>1. CASE pc = "forward"
          <5>1. loc.i = nb
            BY <1>2, <2>2, <4>1 DEF MoveInv
          <5>. QED BY <4>1, <5>1 DEF MoveInv
        <4>2. CASE pc = "backward"
          <5>1. loc.i + 1 = 0
            BY <1>2, <2>2, <4>2 DEF MoveInv
          <5>. QED BY <4>2, <5>1 DEF MoveInv
        <4>. QED BY <3>1, <4>1, <4>2
      <3>. QED BY <1>1, <1>2, <3>1, <3>2 DEF MoveInv, Moved
    <2>. QED BY <2>1, <2>2
  <1>. QED BY <1>1, <1>3, <1>4, <1>5

-----------------------------------------------------------------------------
(* isort.                                                                  *)

Swapped(a, j) == [a EXCEPT ![j] = a[j + 1], ![j + 1] = a[j]]

\* The place a position's element goes to when those at j and j + 1 are swapped.
Other(j, p) == IF p = j THEN j + 1 ELSE IF p = j + 1 THEN j ELSE p

LEMMA SwappedFacts ==
    ASSUME NEW n \in Nat, NEW a \in [0 .. (n - 1) -> 1 .. n], NEW j \in 0 .. (n - 2)
    PROVE  Swapped(a, j) \in [0 .. (n - 1) -> 1 .. n]
  <1>1. j \in 0 .. (n - 1) /\ j + 1 \in 0 .. (n - 1)
    OBVIOUS
  <1>. QED BY <1>1 DEF Swapped

LEMMA OtherFacts ==
    ASSUME NEW n \in Nat, NEW a \in [0 .. (n - 1) -> 1 .. n], NEW j \in 0 .. (n - 2),
           NEW p \in 0 .. (n - 1)
    PROVE  /\ Other(j, p) \in 0 .. (n - 1) /\ Other(j, Other(j, p)) = p
           /\ Swapped(a, j)[p] = a[Other(j, p)]
  <1>1. j \in 0 .. (n - 1) /\ j + 1 \in 0 .. (n - 1) /\ j # j + 1
    OBVIOUS
  <1>2. Swapped(a, j)[p] = a[Other(j, p)]
    BY <1>1 DEF Swapped, Other
  <1>3. Other(j, p) \in 0 .. (n - 1) /\ Other(j, Other(j, p)) = p
    BY <1>1 DEF Other
  <1>. QED BY <1>2, <1>3

LEMMA InversionsFinite ==
    ASSUME NEW n \in Nat, NEW a \in [0 .. (n - 1) -> 1 .. n]
    PROVE  IsFiniteSet(Inversions(a)) /\ Cardinality(Inversions(a)) \in Nat
  <1>1. IsFiniteSet(0 .. (n - 1))
    BY FS_Interval
  <1>2. IsFiniteSet((0 .. (n - 1)) \X (0 .. (n - 1)))
    BY <1>1, FS_Product
  <1>3. Inversions(a) \subseteq (0 .. (n - 1)) \X (0 .. (n - 1))
    BY DEF Inversions
  <1>. QED BY <1>2, <1>3, FS_Subset, FS_CardinalityType

\* A swap of neighbours in the wrong order removes their inversion and no other.
LEMMA OneInversionLess ==
    ASSUME NEW n \in Nat, NEW a \in [0 .. (n - 1) -> 1 .. n], NEW j \in 0 .. (n - 2),
           a[j + 1] < a[j]
    PROVE  Cardinality(Inversions(Swapped(a, j))) + 1 = Cardinality(Inversions(a))
  <1>. DEFINE D == 0 .. (n - 1)
              b == Swapped(a, j)
              S == Inversions(b)
              T == Inversions(a) \ {<<j, j + 1>>}
              f == [p \in S |-> <<Other(j, p[1]), Other(j, p[2])>>]
  <1>1. /\ b \in [D -> 1 .. n]
        /\ \A p \in D : Other(j, p) \in D /\ Other(j, Other(j, p)) = p /\ b[p] = a[Other(j, p)]
    <2>1. b \in [D -> 1 .. n]
      BY SwappedFacts
    <2>2. ASSUME NEW p \in D
          PROVE  Other(j, p) \in D /\ Other(j, Other(j, p)) = p /\ b[p] = a[Other(j, p)]
      BY OtherFacts
    <2>. QED BY <2>1, <2>2
  <1>2. j \in D /\ j + 1 \in D /\ b[j] = a[j + 1] /\ b[j + 1] = a[j] /\ a[j] \in Nat /\ a[j + 1] \in Nat
    BY <1>1 DEF Other
  <1>3. <<j, j + 1>> \in Inversions(a)
    BY <1>2 DEF Inversions
  <1>4. S = {p \in D \X D : p[1] < p[2] /\ b[p[1]] > b[p[2]]}
    BY <1>1 DEF Inversions
  <1>5. Inversions(a) = {p \in D \X D : p[1] < p[2] /\ a[p[1]] > a[p[2]]}
    BY DEF Inversions
  <1>. HIDE DEF b
  <1>6. ASSUME NEW p \in D, NEW q \in D, p < q, <<p, q>> # <<j, j + 1>>
        PROVE  Other(j, p) < Other(j, q)
    BY <1>6 DEF Other
  <1>7. ASSUME NEW p \in S PROVE f[p] \in T
    <2>1. p[1] \in D /\ p[2] \in D /\ p[1] < p[2] /\ b[p[1]] > b[p[2]] /\ p = <<p[1], p[2]>>
      BY <1>4
    <2>2. <<p[1], p[2]>> # <<j, j + 1>>
      BY <1>2, <2>1
    <2>3. Other(j, p[1]) < Other(j, p[2]) /\ Other(j, p[1]) \in D /\ Other(j, p[2]) \in D
      BY <1>1, <1>6, <2>1, <2>2
    <2>4. a[Other(j, p[1])] > a[Other(j, p[2])]
      BY <1>1, <2>1
    <2>5. <<Other(j, p[1]), Other(j, p[2])>> # <<j, j + 1>>
      BY <2>1 DEF Other
    <2>. QED BY <1>5, <2>3, <2>4, <2>5
  <1>8. ASSUME NEW p \in S, NEW q \in S, f[p] = f[q] PROVE p = q
    <2>1. /\ p[1] \in D /\ p[2] \in D /\ q[1] \in D /\ q[2] \in D
          /\ p = <<p[1], p[2]>> /\ q = <<q[1], q[2]>>
      BY <1>4
    <2>2. Other(j, p[1]) = Other(j, q[1]) /\ Other(j, p[2]) = Other(j, q[2])
      BY <1>8
    <2>3. p[1] = q[1] /\ p[2] = q[2]
      BY <1>1, <2>1, <2>2
    <2>. QED BY <2>1, <2>3
  <1>9. ASSUME NEW q \in T PROVE \E p \in S : f[p] = q
    <2>1. q[1] \in D /\ q[2] \in D /\ q[1] < q[2] /\ a[q[1]] > a[q[2]] /\ q = <<q[1], q[2]>>
          /\ <<q[1], q[2]>> # <<j, j + 1>>
      BY <1>5
    <2>. DEFINE u == Other(j, q[1])
                v == Other(j, q[2])
    <2>2. u \in D /\ v \in D /\ u < v /\ Other(j, u) = q[1] /\ Other(j, v) = q[2]
      BY <1>1, <1>6, <2>1
    <2>3. b[u] = a[q[1]] /\ b[v] = a[q[2]]
      BY <1>1, <2>2
    <2>. HIDE DEF u, v
    <2>4. <<u, v>> \in S
      BY <1>4, <2>1, <2>2, <2>3
    <2>5. f[<<u, v>>] = q
      BY <2>1, <2>2, <2>4
    <2>. QED BY <2>4, <2>5
  <1>10. IsFiniteSet(S) /\ IsFiniteSet(Inversions(a))
    BY <1>1, InversionsFinite
  <1>11. f \in Bijection(S, T)
    <2>1. f \in [S -> T]
      BY <1>7
    <2>2. \A p, q \in S : f[p] = f[q] => p = q
      BY <1>8
    <2>3. \A q \in T : \E p \in S : f[p] = q
      BY <1>9
    <2>. HIDE DEF f, S, T
    <2>. QED BY <2>1, <2>2, <2>3 DEF Bijection, Injection, Surjection, IsInjective
  <1>12. Cardinality(T) = Cardinality(S)
    <2>. HIDE DEF f, S, T
    <2>1. ExistsBijection(S, T)
      BY <1>11 DEF ExistsBijection
    <2>. QED BY <1>10, <2>1, FS_Bijection
  <1>13. Cardinality(T) = Cardinality(Inversions(a)) - 1 /\ Cardinality(Inversions(a)) \in Nat
    <2>. DEFINE I == Inversions(a)
                x == <<j, j + 1>>
    <2>. HIDE DEF I, x
    <2>1. IsFiniteSet(I) /\ x \in I
      BY <1>3, <1>10 DEF I, x
    <2>2. Cardinality(I \ {x}) = Cardinality(I) - 1 /\ Cardinality(I) \in Nat
      BY <2>1, FS_RemoveElement, FS_CardinalityType
    <2>. QED BY <2>2 DEF I, x
  <1>. QED BY <1>12, <1>13 DEF b

\* The array in isort, with i elements sorted but for one on its way down,
\* and as many swaps made as there are inversions less than at first.
Sorting(n, l) ==
    /\ l = [arr |-> l.arr, i |-> l.i, j |-> l.j, nswaps |-> l.nswaps]
    /\ l.arr \in [0 .. (n - 1) -> 1 .. n]
    /\ \A v \in 1 .. n : \E k \in 0 .. (n - 1) : l.arr[k] = v
    /\ l.i \in Nat /\ l.i >= 1 /\ l.j \in -1 .. (l.i - 1)
    /\ l.i >= n => l.j = l.i - 1
    /\ \A a, b \in 0 .. (n - 1) : a < b /\ b <= l.i /\ b # l.j + 1 => l.arr[a] <= l.arr[b]
    /\ l.nswaps \in Nat
    /\ l.nswaps + Cardinality(Inversions(l.arr)) = Cardinality(Inversions(unsorted(n)))

IsortInv ==
    "nelems" \in DOMAIN arg =>
        /\ arg.nelems \in Nat /\ pc \in {"isort", "done"}
        /\ Sorting(arg.nelems, loc)
        /\ out \in Seq(Nat)
        /\ \A k \in DOMAIN out : out[k] = Cardinality(Inversions(unsorted(arg.nelems)))

SortStart(n) == [arr |-> unsorted(n), i |-> 1, j |-> 0, nswaps |-> 0]

LEMMA SortingStart ==
    ASSUME NEW n \in Nat
    PROVE  Sorting(n, SortStart(n))
  <1>1. unsorted(n) \in [0 .. (n - 1) -> 1 .. n]
    BY DEF unsorted
  <1>2. ASSUME NEW v \in 1 .. n PROVE \E k \in 0 .. (n - 1) : unsorted(n)[k] = v
    <2>1. n - v \in 0 .. (n - 1) /\ n - (n - v) = v
      OBVIOUS
    <2>. QED BY <2>1 DEF unsorted
  <1>3. 0 + Cardinality(Inversions(unsorted(n))) = Cardinality(Inversions(unsorted(n)))
    BY <1>1, InversionsFinite
  <1>4. \A a, b \in 0 .. (n - 1) : a < b /\ b <= 1 => b = 0 + 1
    OBVIOUS
  <1>. QED BY <1>1, <1>2, <1>3, <1>4 DEF Sorting, SortStart

LEMMA SortingSwap ==
    ASSUME NEW n \in Nat, NEW l, Sorting(n, l),
           l.i < n, l.j >= 0, l.arr[l.j + 1] < l.arr[l.j], NEW m,
           m = [arr |-> Swapped(l.arr, l.j), i |-> l.i, j |-> l.j - 1, nswaps |-> l.nswaps + 1]
    PROVE  Sorting(n, m)
  <1>. DEFINE D == 0 .. (n - 1)
              a == l.arr
              i == l.i
              j == l.j
              b == Swapped(a, j)
  <1>1. /\ a \in [D -> 1 .. n] /\ i \in Nat /\ i < n /\ j \in 0 .. (i - 1)
        /\ \A v \in 1 .. n : \E k \in D : a[k] = v
        /\ \A p, q \in D : p < q /\ q <= i /\ q # j + 1 => a[p] <= a[q]
        /\ a[j + 1] < a[j] /\ l.nswaps \in Nat
        /\ l.nswaps + Cardinality(Inversions(a)) = Cardinality(Inversions(unsorted(n)))
    BY DEF Sorting
  <1>. HIDE DEF a, i, j
  <1>2. j \in 0 .. (n - 2) /\ j \in D /\ j + 1 \in D
    BY <1>1
  <1>3. /\ b \in [D -> 1 .. n]
        /\ \A p \in D : Other(j, p) \in D /\ Other(j, Other(j, p)) = p /\ b[p] = a[Other(j, p)]
    <2>1. b \in [D -> 1 .. n]
      BY <1>1, <1>2, SwappedFacts
    <2>2. ASSUME NEW p \in D
          PROVE  Other(j, p) \in D /\ Other(j, Other(j, p)) = p /\ b[p] = a[Other(j, p)]
      BY <1>1, <1>2, OtherFacts
    <2>. QED BY <2>1, <2>2
  <1>. HIDE DEF b
  <1>4. ASSUME NEW v \in 1 .. n PROVE \E k \in D : b[k] = v
    <2>1. PICK k \in D : a[k] = v
      BY <1>1
    <2>. QED BY <1>3, <2>1
  <1>5. ASSUME NEW p \in D, NEW q \in D, p < q, q <= i, q # (j - 1) + 1 PROVE b[p] <= b[q]
    <2>1. \A k \in D : a[k] \in Nat /\ k \in Nat
      <3>. HIDE DEF D
      <3>1. \A k \in D : a[k] \in 1 .. n
        BY <1>1
      <3>. QED BY <3>1 DEF D
    <2>2. CASE q = j + 1
      <3>1. b[q] = a[j] /\ Other(j, p) = (IF p = j THEN j + 1 ELSE p)
        BY <1>2, <1>3, <1>5, <2>2 DEF Other
      <3>2. CASE p = j
        BY <1>1, <1>2, <1>3, <2>1, <3>1, <3>2
      <3>3. CASE p # j
        <4>1. p < j /\ j <= i /\ j # j + 1
          <5>1. p \in Nat /\ p < j + 1 /\ p # j
            BY <1>5, <2>1, <2>2, <3>3
          <5>2. j \in Nat /\ i \in Nat /\ j <= i
            BY <1>1
          <5>. QED BY <5>1, <5>2
        <4>. QED BY <1>1, <1>2, <1>3, <3>1, <3>3, <4>1
      <3>. QED BY <3>2, <3>3
    <2>3. CASE q # j + 1
      <3>1. Other(j, q) = q /\ Other(j, p) < q
        <4>1. p \in Nat /\ q \in Nat /\ p < q /\ q # j + 1 /\ q # j
          BY <1>5, <2>1, <2>3
        <4>2. j \in Nat
          BY <1>1
        <4>. QED BY <4>1, <4>2 DEF Other
      <3>. QED BY <1>1, <1>3, <1>5, <2>3, <3>1
    <2>. QED BY <2>2, <2>3
  <1>6. Cardinality(Inversions(b)) + 1 = Cardinality(Inversions(a))
    BY <1>1, <1>2, OneInversionLess DEF b
  <1>7. (l.nswaps + 1) + Cardinality(Inversions(b)) = Cardinality(Inversions(unsorted(n)))
    <2>. DEFINE x == Cardinality(Inversions(b))
                y == Cardinality(Inversions(a))
                z == Cardinality(Inversions(unsorted(n)))
                w == l.nswaps
    <2>1. x \in Nat
      BY <1>3, InversionsFinite
    <2>2. x + 1 = y /\ w + y = z /\ w \in Nat
      BY <1>1, <1>6
    <2>. HIDE DEF x, y, z, w
    <2>3. (w + 1) + x = z
      BY <2>1, <2>2
    <2>. QED BY <2>3 DEF x, z, w
  <1>8. j - 1 \in -1 .. (i - 1) /\ ~(i >= n) /\ i >= 1
    BY <1>1
  <1>9. Sorting(n, m)
    <2>1. m.arr = b /\ m.i = i /\ m.j = j - 1 /\ m.nswaps = l.nswaps + 1
          /\ m = [arr |-> m.arr, i |-> m.i, j |-> m.j, nswaps |-> m.nswaps]
      BY DEF b, a, i, j
    <2>2. \A p, q \in D : p < q /\ q <= i /\ q # (j - 1) + 1 => b[p] <= b[q]
      BY <1>5
    <2>3. m.i >= n => m.j = m.i - 1
      BY <1>8, <2>1
    <2>4. m.arr \in [D -> 1 .. n] /\ \A v \in 1 .. n : \E k \in D : m.arr[k] = v
      BY <1>3, <1>4, <2>1
    <2>5. m.i \in Nat /\ m.i >= 1 /\ m.j \in -1 .. (m.i - 1) /\ m.nswaps \in Nat
      <3>1. l.nswaps + 1 \in Nat
        <4>1. l.nswaps \in Nat
          BY <1>1
        <4>. QED BY <4>1
      <3>2. i \in Nat /\ j - 1 \in -1 .. (i - 1) /\ i >= 1
        BY <1>1, <1>8
      <3>. QED BY <2>1, <3>1, <3>2
    <2>6. \A p, q \in D : p < q /\ q <= m.i /\ q # m.j + 1 => m.arr[p] <= m.arr[q]
      BY <2>1, <2>2
    <2>7. m.nswaps + Cardinality(Inversions(m.arr)) = Cardinality(Inversions(unsorted(n)))
      BY <1>7, <2>1
    <2>. QED BY <2>1, <2>3, <2>4, <2>5, <2>6, <2>7 DEF Sorting
  <1>. QED BY <1>9

LEMMA SortingNext ==
    ASSUME NEW n \in Nat, NEW l, Sorting(n, l), l.i < n,
           ~(l.j >= 0 /\ l.arr[l.j + 1] < l.arr[l.j]), NEW m,
           m = [arr |-> l.arr, i |-> l.i + 1, j |-> l.i, nswaps |-> l.nswaps]
    PROVE  Sorting(n, m)
  <1>. DEFINE D == 0 .. (n - 1)
              a == l.arr
              i == l.i
              j == l.j
  <1>1. /\ a \in [D -> 1 .. n] /\ i \in Nat /\ i >= 1 /\ i < n /\ j \in -1 .. (i - 1)
        /\ \A v \in 1 .. n : \E k \in D : a[k] = v
        /\ \A p, q \in D : p < q /\ q <= i /\ q # j + 1 => a[p] <= a[q]
        /\ ~(j >= 0 /\ a[j + 1] < a[j]) /\ l.nswaps \in Nat
        /\ l.nswaps + Cardinality(Inversions(a)) = Cardinality(Inversions(unsorted(n)))
    BY DEF Sorting
  <1>. HIDE DEF a, i, j
  <1>2. ASSUME NEW p \in D, NEW q \in D, p < q, q <= i + 1, q # i + 1 PROVE a[p] <= a[q]
    <2>1. \A k \in D : a[k] \in Nat /\ k \in Nat
      <3>. HIDE DEF D
      <3>1. \A k \in D : a[k] \in 1 .. n
        BY <1>1
      <3>. QED BY <3>1 DEF D
    <2>2. q <= i /\ p \in Nat /\ q \in Nat
      BY <1>1, <1>2
    <2>3. CASE q = j + 1
      <3>1. j \in D /\ p <= j /\ a[j] <= a[q]
        BY <1>1, <1>2, <2>1, <2>3
      <3>2. CASE p = j
        BY <3>1, <3>2
      <3>3. CASE p # j
        <4>1. a[p] <= a[j]
          BY <1>1, <1>2, <3>1, <3>3
        <4>. QED BY <2>1, <3>1, <4>1
      <3>. QED BY <3>2, <3>3
    <2>. QED BY <1>1, <1>2, <2>2, <2>3
  <1>3. i + 1 \in Nat /\ i + 1 >= 1 /\ i \in -1 .. ((i + 1) - 1) /\ i = (i + 1) - 1
    BY <1>1
  <1>4. m = [arr |-> a, i |-> i + 1, j |-> i, nswaps |-> l.nswaps]
    BY DEF a, i, j
  <1>5. /\ m.arr = a /\ m.i = i + 1 /\ m.j = i /\ m.nswaps = l.nswaps
        /\ m = [arr |-> m.arr, i |-> m.i, j |-> m.j, nswaps |-> m.nswaps]
    BY <1>4
  <1>6. m.i \in Nat /\ m.i >= 1 /\ m.j \in -1 .. (m.i - 1) /\ m.j = m.i - 1 /\ m.nswaps \in Nat
    BY <1>1, <1>3, <1>5
  <1>7. \A p, q \in D : p < q /\ q <= m.i /\ q # m.j + 1 => m.arr[p] <= m.arr[q]
    BY <1>2, <1>5
  <1>8. m.nswaps + Cardinality(Inversions(m.arr)) = Cardinality(Inversions(unsorted(n)))
    BY <1>1, <1>5
  <1>. QED BY <1>1, <1>5, <1>6, <1>7, <1>8 DEF Sorting

\* When the last element is in place no inversion is left.
LEMMA SortedEnd ==
    ASSUME NEW n \in Nat, NEW l, Sorting(n, l), l.i >= n
    PROVE  l.nswaps = Cardinality(Inversions(unsorted(n)))
  <1>1. \A a, b \in 0 .. (n - 1) : a < b => l.arr[a] <= l.arr[b]
    <2>1. l.i \in Nat /\ l.j + 1 = l.i
      BY DEF Sorting
    <2>2. \A b \in 0 .. (n - 1) : b <= l.i /\ b # l.j + 1
      BY <2>1
    <2>. QED BY <2>2 DEF Sorting
  <1>2. Inversions(l.arr) = {}
    <2>1. l.arr \in [0 .. (n - 1) -> 1 .. n]
      BY DEF Sorting
    <2>. QED BY <1>1, <2>1 DEF Inversions
  <1>. QED BY <1>2, FS_EmptySet DEF Sorting

LEMMA IsortInit == Init => IsortInv
  <1>. SUFFICES ASSUME IsortMain PROVE IsortInv
    BY Mains DEF IsortInv
  <1>1. PICK n \in Elems : /\ arg = [nelems |-> n] /\ pc = "isort" /\ out = <<>>
                           /\ loc = SortStart(n)
    BY DEF IsortMain, Starts, SortStart
  <1>2. n \in Nat /\ arg.nelems = n
    BY <1>1, ArraysAssumption
  <1>3. Sorting(n, loc)
    BY <1>1, <1>2, SortingStart
  <1>. QED BY <1>1, <1>2, <1>3 DEF IsortInv

LEMMA IsortSteps ==
    ASSUME [Next]_vars, pc \in {"isort", "done"}
    PROVE  arg' = arg /\ (UNCHANGED vars \/ Swap \/ NextElem \/ TrialEnd)
  BY StringSteps, WordSteps, ArraySteps DEF Next, Exit, Ended, vars

LEMMA ArgKept == [Next]_vars => arg' = arg
  BY StringSteps, WordSteps, ArraySteps DEF Next, Exit, vars

LEMMA IsortNext == IsortInv /\ [Next]_vars => IsortInv'
  <1>. SUFFICES ASSUME IsortInv, [Next]_vars, "nelems" \in DOMAIN arg PROVE IsortInv'
    BY ArgKept DEF IsortInv
  <1>1. arg' = arg /\ (UNCHANGED vars \/ Swap \/ NextElem \/ TrialEnd)
    BY IsortSteps DEF IsortInv
  <1>. DEFINE n == arg.nelems
              all == Cardinality(Inversions(unsorted(n)))
  <1>2. /\ n \in Nat /\ Sorting(n, loc) /\ out \in Seq(Nat) /\ \A k \in DOMAIN out : out[k] = all
        /\ pc \in {"isort", "done"}
    BY DEF IsortInv
  <1>3. SUFFICES /\ pc' \in {"isort", "done"} /\ Sorting(n, loc')
                 /\ out' \in Seq(Nat) /\ \A k \in DOMAIN out' : out'[k] = all
    BY <1>1, <1>2 DEF IsortInv
  <1>4. CASE UNCHANGED vars
    BY <1>2, <1>4 DEF vars
  <1>5. CASE Swap
    <2>1. /\ loc.i < n /\ loc.j >= 0 /\ loc.arr[loc.j + 1] < loc.arr[loc.j]
          /\ pc' = pc /\ out' = out
          /\ loc' = [loc EXCEPT !.arr[loc.j] = loc.arr[loc.j + 1], !.arr[loc.j + 1] = loc.arr[loc.j],
                                !.j = @ - 1, !.nswaps = @ + 1]
      BY <1>5 DEF Swap, OutOfOrder
    <2>2. loc = [arr |-> loc.arr, i |-> loc.i, j |-> loc.j, nswaps |-> loc.nswaps]
      BY <1>2 DEF Sorting
    <2>3. loc' = [arr |-> Swapped(loc.arr, loc.j), i |-> loc.i, j |-> loc.j - 1,
                  nswaps |-> loc.nswaps + 1]
      BY <2>1, <2>2 DEF Swapped
    <2>4. Sorting(n, loc')
      BY <1>2, <2>1, <2>3, SortingSwap
    <2>. QED BY <1>2, <2>1, <2>4
  <1>6. CASE NextElem
    <2>1. /\ loc.i < n /\ ~(loc.j >= 0 /\ loc.arr[loc.j + 1] < loc.arr[loc.j])
          /\ pc' = pc /\ out' = out
          /\ loc' = [loc EXCEPT !.i = @ + 1, !.j = loc.i]
      BY <1>6 DEF NextElem, OutOfOrder
    <2>2. loc = [arr |-> loc.arr, i |-> loc.i, j |-> loc.j, nswaps |-> loc.nswaps]
      BY <1>2 DEF Sorting
    <2>3. loc' = [arr |-> loc.arr, i |-> loc.i + 1, j |-> loc.i, nswaps |-> loc.nswaps]
      BY <2>1, <2>2
    <2>4. Sorting(n, loc')
      BY <1>2, <2>1, <2>3, SortingNext
    <2>. QED BY <1>2, <2>1, <2>4
  <1>7. CASE TrialEnd
    <2>1. /\ loc.i >= n /\ out' = Append(out, loc.nswaps)
          /\ \/ pc' = "done" /\ loc' = loc
             \/ loc' = SortStart(n) /\ pc' = pc
      BY <1>7 DEF TrialEnd, SortStart
    <2>2. loc.nswaps = all /\ loc.nswaps \in Nat
      BY <1>2, <2>1, SortedEnd DEF Sorting
    <2>3. out' \in Seq(Nat) /\ \A k \in DOMAIN out' : out'[k] = all
      <3>. HIDE DEF all
      <3>. QED BY <1>2, <2>1, <2>2
    <2>4. Sorting(n, loc')
      BY <1>2, <2>1, SortingStart
    <2>. QED BY <1>2, <2>1, <2>3, <2>4
  <1>. QED BY <1>1, <1>4, <1>5, <1>6, <1>7

LEMMA ArraysHold == MoveInv /\ IsortInv => ArraysRight
  <1>. SUFFICES ASSUME MoveInv, IsortInv PROVE ArraysRight
    OBVIOUS
  <1>1. ASSUME pc = "done", "nbytes" \in DOMAIN arg, NEW k \in DOMAIN loc.mem
        PROVE  loc.mem[k] = IF k - arg.dest \in 0 .. (arg.nbytes - 1)
                            THEN k - arg.dest + arg.src ELSE k
    BY <1>1 DEF MoveInv, Moved, Copied
  <1>2. ASSUME "nelems" \in DOMAIN arg
        PROVE  ToSet([k \in 1 .. arg.nelems |-> loc.arr[k - 1]]) = 1 .. arg.nelems
    <2>. DEFINE n == arg.nelems
                a == loc.arr
                s == [k \in 1 .. n |-> a[k - 1]]
    <2>1. /\ n \in Nat /\ a \in [0 .. (n - 1) -> 1 .. n]
          /\ \A v \in 1 .. n : \E k \in 0 .. (n - 1) : a[k] = v
      BY <1>2 DEF IsortInv, Sorting
    <2>. HIDE DEF n, a
    <2>2. \A k \in 1 .. n : k - 1 \in 0 .. (n - 1)
      BY <2>1
    <2>3. \A k \in 1 .. n : a[k - 1] \in 1 .. n
      BY <2>1, <2>2
    <2>4. ASSUME NEW v \in 1 .. n PROVE \E k \in 1 .. n : a[k - 1] = v
      <3>1. PICK k \in 0 .. (n - 1) : a[k] = v
        BY <2>1
      <3>2. k + 1 \in 1 .. n /\ (k + 1) - 1 = k
        BY <2>1
      <3>. QED BY <3>1, <3>2
    <2>5. ToSet(s) = {a[k - 1] : k \in 1 .. n}
      BY DEF ToSet
    <2>6. ToSet(s) = 1 .. n
      BY <2>3, <2>4, <2>5
    <2>. QED BY <2>6 DEF n, a
  <1>3. ASSUME "nelems" \in DOMAIN arg
        PROVE  LET all == Cardinality(Inversions(unsorted(arg.nelems)))
               IN  /\ loc.nswaps + Cardinality(Inversions(loc.arr)) = all
                   /\ \A k \in DOMAIN out : out[k] = all
    BY <1>3 DEF IsortInv, Sorting
  <1>. QED BY <1>1, <1>2, <1>3 DEF ArraysRight

\* memmove leaves in dest what was in src, whichever way the blocks overlap
\* (memmove.c of lab4), and insertion_sort counts the inversions of the array
\* (isort.c), for blocks and arrays of any size.
THEOREM ArraysHandled == Spec => []ArraysRight
  <1>1. MoveInv /\ IsortInv /\ [Next]_vars => MoveInv' /\ IsortInv'
    BY MoveNext, IsortNext
  <1>. QED BY <1>1, MoveInit, IsortInit, ArraysHold, PTL DEF Spec

-----------------------------------------------------------------------------
(* Strings: the least of some numbers, parts of a sequence, spans.          *)

LEMMA LeastNatural ==
    ASSUME NEW S, S \subseteq Nat, S # {}
    PROVE  \E m \in S : \A k \in S : m <= k
  <1>1. PICK m \in S : \A k \in S : ~(<<k, m>> \in OpToRel(<, Nat))
    BY NatLessThanWellFounded, WFMin
  <1>2. ASSUME NEW k \in S PROVE m <= k
    <2>1. m \in Nat /\ k \in Nat
      OBVIOUS
    <2>2. ~(k < m)
      BY <1>1, <2>1 DEF OpToRel
    <2>. QED BY <2>1, <2>2
  <1>. QED BY <1>2

LEMMA MinFacts ==
    ASSUME NEW S, S \subseteq Nat, S # {}
    PROVE  Min(S) \in S /\ \A k \in S : Min(S) <= k
  BY LeastNatural DEF Min

LEMMA MinIs ==
    ASSUME NEW S, S \subseteq Nat, NEW m \in S, \A k \in S : m <= k
    PROVE  Min(S) = m
  <1>1. Min(S) \in S /\ Min(S) <= m
    BY MinFacts
  <1>2. m \in Nat /\ Min(S) \in Nat /\ m <= Min(S)
    BY <1>1
  <1>. QED BY <1>1, <1>2

LEMMA FirstFacts ==
    ASSUME NEW S, NEW s \in Seq(S), NEW k \in 0 .. Len(s)
    PROVE  /\ First(s, k) \in Seq(S) /\ Len(First(s, k)) = k
           /\ \A i \in 1 .. k : First(s, k)[i] = s[i]
  <1>1. Len(s) \in Nat
    OBVIOUS
  <1>2. k \in Nat /\ \A i \in 1 .. k : i \in DOMAIN s
    BY <1>1
  <1>. QED BY <1>2, SubSeqProperties DEF First

LEMMA FromFacts ==
    ASSUME NEW S, NEW s \in Seq(S), NEW k \in 0 .. Len(s)
    PROVE  /\ From(s, k) \in Seq(S) /\ Len(From(s, k)) = Len(s) - k
           /\ \A i \in 1 .. (Len(s) - k) : From(s, k)[i] = s[k + i]
  <1>. DEFINE n == Len(s)
  <1>1. n \in Nat /\ k \in Nat /\ k <= n /\ DOMAIN s = 1 .. n
    OBVIOUS
  <1>. DEFINE b == SubSeq(s, k + 1, n)
  <1>2. \A i \in (k + 1) .. n : s[i] \in S
    BY <1>1
  <1>3. k + 1 \in Int /\ n \in Int
    BY <1>1
  <1>4. /\ b \in Seq(S) /\ Len(b) = IF k + 1 <= n THEN n - (k + 1) + 1 ELSE 0
        /\ \A i \in 1 .. (n - (k + 1) + 1) : b[i] = s[(k + 1) + i - 1]
    BY <1>2, <1>3, SubSeqProperties
  <1>5. From(s, k) = b
    BY DEF From
  <1>. HIDE DEF b
  <1>6. Len(b) = n - k
    <2>. HIDE DEF n
    <2>1. Len(b) = IF k + 1 <= n THEN n - (k + 1) + 1 ELSE 0
      BY <1>4
    <2>. QED BY <1>1, <2>1
  <1>7. ASSUME NEW i \in 1 .. (n - k) PROVE b[i] = s[k + i]
    <2>1. i \in 1 .. (n - (k + 1) + 1) /\ (k + 1) + i - 1 = k + i
      BY <1>1
    <2>. QED BY <1>4, <2>1
  <1>. QED BY <1>4, <1>5, <1>6, <1>7

LEMMA FromZero ==
    ASSUME NEW S, NEW s \in Seq(S)
    PROVE  From(s, 0) = s
  <1>1. Len(s) \in Nat /\ 0 \in 0 .. Len(s)
    OBVIOUS
  <1>2. /\ From(s, 0) \in Seq(S) /\ Len(From(s, 0)) = Len(s) - 0
        /\ \A i \in 1 .. (Len(s) - 0) : From(s, 0)[i] = s[0 + i]
    BY <1>1, FromFacts
  <1>3. Len(s) - 0 = Len(s) /\ \A i \in 1 .. Len(s) : 0 + i = i
    BY <1>1
  <1>. QED BY <1>2, <1>3, SeqEqual

\* The part of s behind its first k characters, behind j more.
LEMMA FromFrom ==
    ASSUME NEW S, NEW s \in Seq(S), NEW k \in 0 .. Len(s), NEW j \in 0 .. (Len(s) - k)
    PROVE  From(From(s, k), j) = From(s, k + j)
  <1>. DEFINE n == Len(s)
              t == From(s, k)
  <1>1. n \in Nat /\ k \in Nat /\ j \in Nat /\ k + j \in 0 .. n
    OBVIOUS
  <1>2. t \in Seq(S) /\ Len(t) = n - k /\ \A i \in 1 .. (n - k) : t[i] = s[k + i]
    BY FromFacts
  <1>. HIDE DEF t
  <1>3. j \in 0 .. Len(t)
    BY <1>1, <1>2
  <1>4. From(t, j) \in Seq(S) /\ Len(From(t, j)) = (n - k) - j
        /\ \A i \in 1 .. ((n - k) - j) : From(t, j)[i] = t[j + i]
    <2>1. From(t, j) \in Seq(S) /\ Len(From(t, j)) = Len(t) - j
          /\ \A i \in 1 .. (Len(t) - j) : From(t, j)[i] = t[j + i]
      BY <1>2, <1>3, FromFacts, ZenonT(60)
    <2>. QED BY <1>2, <2>1
  <1>5. From(s, k + j) \in Seq(S) /\ Len(From(s, k + j)) = n - (k + j)
        /\ \A i \in 1 .. (n - (k + j)) : From(s, k + j)[i] = s[(k + j) + i]
    BY <1>1, FromFacts
  <1>6. \A i \in 1 .. (n - (k + j)) : From(t, j)[i] = From(s, k + j)[i]
    <2>. SUFFICES ASSUME NEW i \in 1 .. (n - (k + j)) PROVE From(t, j)[i] = From(s, k + j)[i]
      OBVIOUS
    <2>1. i \in 1 .. ((n - k) - j) /\ j + i \in 1 .. (n - k) /\ k + (j + i) = (k + j) + i
      BY <1>1
    <2>. QED BY <1>2, <1>4, <1>5, <2>1
  <1>7. Len(From(t, j)) = Len(From(s, k + j)) /\ Len(From(s, k + j)) = n - (k + j)
    <2>. HIDE DEF n
    <2>1. (n - k) - j = n - (k + j)
      BY <1>1
    <2>. QED BY <1>4, <1>5, <2>1
  <1>8. From(t, j) = From(s, k + j)
    BY <1>4, <1>5, <1>6, <1>7, SeqEqual
  <1>. QED BY <1>8 DEF t

LEMMA StrcspnFacts ==
    ASSUME NEW S, NEW s \in Seq(S), NEW d
    PROVE  /\ strcspn(s, d) \in 0 .. Len(s)
           /\ \A i \in 1 .. strcspn(s, d) : s[i] \notin d
           /\ strcspn(s, d) = Len(s) \/ s[strcspn(s, d) + 1] \in d
  <1>. DEFINE T == {i \in 0 .. Len(s) : i = Len(s) \/ s[i + 1] \in d}
              k == Min(T)
  <1>1. T \subseteq Nat /\ Len(s) \in T
    OBVIOUS
  <1>2. k \in T /\ \A i \in T : k <= i
    <2>. HIDE DEF T
    <2>. QED BY <1>1, MinFacts
  <1>3. strcspn(s, d) = k
    BY DEF strcspn
  <1>. HIDE DEF k
  <1>4. ASSUME NEW i \in 1 .. k PROVE s[i] \notin d
    <2>1. k \in 0 .. Len(s)
      BY <1>2
    <2>2. i - 1 \in 0 .. Len(s) /\ (i - 1) + 1 = i /\ ~(k <= i - 1)
      BY <2>1
    <2>3. i - 1 \notin T
      BY <1>2, <2>2
    <2>. QED BY <2>2, <2>3
  <1>. QED BY <1>2, <1>3, <1>4

\* The span ends where one of its bounds is found.
LEMMA StrcspnIs ==
    ASSUME NEW S, NEW s \in Seq(S), NEW d, NEW k \in 0 .. Len(s),
           \A i \in 1 .. k : s[i] \notin d, k = Len(s) \/ s[k + 1] \in d
    PROVE  strcspn(s, d) = k
  <1>. DEFINE c == strcspn(s, d)
  <1>1. /\ c \in 0 .. Len(s) /\ \A i \in 1 .. c : s[i] \notin d
        /\ c = Len(s) \/ s[c + 1] \in d
    BY StrcspnFacts
  <1>. HIDE DEF c
  <1>2. ~(c < k)
    <2>1. SUFFICES ASSUME c < k PROVE FALSE
      OBVIOUS
    <2>2. c + 1 \in 1 .. k /\ c # Len(s)
      BY <1>1, <2>1
    <2>. QED BY <1>1, <2>2
  <1>3. ~(k < c)
    <2>1. SUFFICES ASSUME k < c PROVE FALSE
      OBVIOUS
    <2>2. k + 1 \in 1 .. c /\ k # Len(s)
      BY <1>1, <2>1
    <2>. QED BY <1>1, <2>2
  <1>4. c = k
    BY <1>1, <1>2, <1>3
  <1>. QED BY <1>4 DEF c

LEMMA StrspnFacts ==
    ASSUME NEW S, NEW s \in Seq(S), NEW d
    PROVE  /\ strspn(s, d) \in 0 .. Len(s)
           /\ \A i \in 1 .. strspn(s, d) : s[i] \in d
           /\ strspn(s, d) = Len(s) \/ s[strspn(s, d) + 1] \notin d
  <1>. DEFINE T == {i \in 0 .. Len(s) : i = Len(s) \/ s[i + 1] \notin d}
              k == Min(T)
  <1>1. T \subseteq Nat /\ Len(s) \in T
    OBVIOUS
  <1>2. k \in T /\ \A i \in T : k <= i
    <2>. HIDE DEF T
    <2>. QED BY <1>1, MinFacts
  <1>3. strspn(s, d) = k
    BY DEF strspn
  <1>. HIDE DEF k
  <1>4. ASSUME NEW i \in 1 .. k PROVE s[i] \in d
    <2>1. k \in 0 .. Len(s)
      BY <1>2
    <2>2. i - 1 \in 0 .. Len(s) /\ (i - 1) + 1 = i /\ ~(k <= i - 1)
      BY <2>1
    <2>3. i - 1 \notin T
      BY <1>2, <2>2
    <2>. QED BY <2>2, <2>3
  <1>. QED BY <1>2, <1>3, <1>4

-----------------------------------------------------------------------------
(* Numbers in increasing order.                                             *)

AtMost(S, m) == {l \in S : l <= m}
Rank(S, m)   == Cardinality(AtMost(S, m))

\* The ranks of the numbers in a finite set are 1, 2, ... in their order.
LEMMA RankFacts ==
    ASSUME NEW S, S \subseteq Nat, IsFiniteSet(S)
    PROVE  /\ Cardinality(S) \in Nat
           /\ \A m \in S : Rank(S, m) \in 1 .. Cardinality(S)
           /\ \A m, k \in S : m < k => Rank(S, m) < Rank(S, k)
           /\ \A m, k \in S : Rank(S, m) = Rank(S, k) => m = k
  <1>1. Cardinality(S) \in Nat
    BY FS_CardinalityType
  <1>2. ASSUME NEW m \in S
        PROVE  /\ IsFiniteSet(AtMost(S, m)) /\ m \in AtMost(S, m)
               /\ Rank(S, m) \in Nat /\ Rank(S, m) <= Cardinality(S) /\ Rank(S, m) # 0
    <2>1. AtMost(S, m) \subseteq S /\ m \in AtMost(S, m)
      BY DEF AtMost
    <2>2. IsFiniteSet(AtMost(S, m)) /\ Cardinality(AtMost(S, m)) <= Cardinality(S)
      BY <2>1, FS_Subset
    <2>. QED BY <2>1, <2>2, FS_CardinalityType, FS_EmptySet DEF Rank
  <1>3. ASSUME NEW m \in S, NEW k \in S, m < k
        PROVE  Rank(S, m) < Rank(S, k)
    <2>1. AtMost(S, m) \cup {k} \subseteq AtMost(S, k) /\ k \notin AtMost(S, m)
      <3>1. m \in Nat /\ k \in Nat /\ \A l \in S : l \in Nat
        OBVIOUS
      <3>2. \A l \in S : l <= m => l <= k
        BY <1>3, <3>1
      <3>3. k <= k /\ ~(k <= m)
        BY <1>3, <3>1
      <3>. QED BY <3>2, <3>3 DEF AtMost
    <2>2. Cardinality(AtMost(S, m) \cup {k}) = Cardinality(AtMost(S, m)) + 1
      BY <1>2, <2>1, FS_AddElement
    <2>3. Cardinality(AtMost(S, m) \cup {k}) <= Cardinality(AtMost(S, k))
      BY <1>2, <2>1, FS_Subset
    <2>4. Rank(S, m) \in Nat /\ Rank(S, k) \in Nat
      BY <1>2
    <2>. QED BY <2>2, <2>3, <2>4 DEF Rank
  <1>4. ASSUME NEW m \in S, NEW k \in S, Rank(S, m) = Rank(S, k)
        PROVE  m = k
    <2>1. m \in Nat /\ k \in Nat /\ Rank(S, m) \in Nat /\ Rank(S, k) \in Nat
      BY <1>2
    <2>2. ~(m < k) /\ ~(k < m)
      BY <1>3, <1>4, <2>1
    <2>. QED BY <2>1, <2>2
  <1>. QED BY <1>1, <1>2, <1>3, <1>4

\* Ascending enumerates its set by rank.
LEMMA AscendingFacts ==
    ASSUME NEW S, S \subseteq Nat, IsFiniteSet(S)
    PROVE  /\ Ascending(S) \in Seq(S) /\ Len(Ascending(S)) = Cardinality(S)
           /\ DOMAIN Ascending(S) = 1 .. Cardinality(S)
           /\ \A k \in 1 .. Cardinality(S) : /\ Ascending(S)[k] \in S
                                            /\ Rank(S, Ascending(S)[k]) = k
           /\ \A m \in S : Rank(S, m) \in 1 .. Cardinality(S) /\ Ascending(S)[Rank(S, m)] = m
  <1>. DEFINE len == Cardinality(S)
              f == [m \in S |-> Rank(S, m)]
  <1>1. len \in Nat /\ \A m \in S : Rank(S, m) \in 1 .. len
    BY RankFacts
  <1>. HIDE DEF len
  <1>2. f \in Injection(S, 1 .. len)
    BY <1>1, RankFacts DEF Injection, IsInjective
  <1>3. IsFiniteSet(1 .. len) /\ Cardinality(1 .. len) = len
    BY <1>1, FS_Interval
  <1>4. f \in Surjection(S, 1 .. len)
    <2>. HIDE DEF f
    <2>. QED BY <1>2, <1>3, FS_Injection DEF len
  <1>5. ASSUME NEW k \in 1 .. len
        PROVE  Ascending(S)[k] \in S /\ Rank(S, Ascending(S)[k]) = k
    <2>1. \E m \in S : Rank(S, m) = k
      BY <1>4 DEF Surjection
    <2>2. Ascending(S)[k] = CHOOSE m \in S : Rank(S, m) = k
      BY DEF Ascending, Rank, AtMost, len
    <2>. QED BY <2>1, <2>2
  <1>6. DOMAIN Ascending(S) = 1 .. len
    BY DEF Ascending, len
  <1>7. Ascending(S) \in [1 .. len -> S]
    <2>. DEFINE q == [k \in 1 .. len |-> CHOOSE m \in S : Cardinality({l \in S : l <= m}) = k]
    <2>1. Ascending(S) = q
      BY DEF Ascending, len
    <2>2. \A k \in 1 .. len : q[k] \in S
      BY <1>5, <2>1
    <2>3. q \in [1 .. len -> S]
      BY <2>2
    <2>. QED BY <2>1, <2>3
  <1>8. Ascending(S) \in Seq(S) /\ Len(Ascending(S)) = len
    BY <1>1, <1>7
  <1>9. ASSUME NEW m \in S
        PROVE  Ascending(S)[Rank(S, m)] = m
    <2>1. Rank(S, m) \in 1 .. len
      BY <1>1
    <2>. QED BY <1>5, <2>1, RankFacts
  <1>. QED BY <1>1, <1>5, <1>6, <1>8, <1>9 DEF len

\* Nothing is enumerated by nothing.
LEMMA AscendingEmpty == Ascending({}) = <<>>
  <1>1. Cardinality({}) = 0 /\ 1 .. 0 = {}
    BY FS_EmptySet
  <1>2. Ascending({}) = [k \in 1 .. 0 |-> CHOOSE m \in {} : Cardinality({l \in {} : l <= m}) = k]
    BY <1>1 DEF Ascending
  <1>. QED BY <1>1, <1>2

\* A number larger than all in the set comes last.
LEMMA AscendingAppend ==
    ASSUME NEW S, S \subseteq Nat, IsFiniteSet(S), NEW x \in Nat, \A l \in S : l < x
    PROVE  /\ Ascending(S \cup {x}) = Append(Ascending(S), x)
           /\ Cardinality(S \cup {x}) = Cardinality(S) + 1 /\ IsFiniteSet(S \cup {x})
  <1>. DEFINE T == S \cup {x}
              len == Cardinality(S)
              q == Ascending(S)
              r == Ascending(T)
  <1>1. T \subseteq Nat /\ IsFiniteSet(T) /\ Cardinality(T) = len + 1 /\ len \in Nat
    <2>1. x \notin S
      OBVIOUS
    <2>. QED BY <2>1, FS_AddElement, FS_CardinalityType
  <1>2. \A l \in S : Rank(T, l) = Rank(S, l)
    <2>1. \A l \in S : AtMost(T, l) = AtMost(S, l)
      BY DEF AtMost
    <2>. QED BY <2>1 DEF Rank
  <1>3. Rank(T, x) = len + 1
    <2>1. AtMost(T, x) = T
      <3>1. \A l \in S : l \in Nat /\ l < x
        OBVIOUS
      <3>2. \A l \in T : l <= x
        BY <3>1
      <3>. QED BY <3>2 DEF AtMost
    <2>. QED BY <1>1, <2>1 DEF Rank
  <1>4. /\ q \in Seq(S) /\ Len(q) = len /\ DOMAIN q = 1 .. len
        /\ \A k \in 1 .. len : q[k] \in S /\ Rank(S, q[k]) = k
    BY AscendingFacts
  <1>. HIDE DEF T, q, len
  <1>5. /\ r \in Seq(T) /\ Len(r) = len + 1
        /\ \A k \in 1 .. (len + 1) : r[k] \in T /\ Rank(T, r[k]) = k
    BY <1>1, AscendingFacts
  <1>. HIDE DEF r
  <1>6. \A k \in 1 .. len : r[k] = q[k]
    <2>. SUFFICES ASSUME NEW k \in 1 .. len PROVE r[k] = q[k]
      OBVIOUS
    <2>1. q[k] \in S /\ Rank(S, q[k]) = k
      BY <1>4
    <2>2. q[k] \in T /\ Rank(T, q[k]) = k
      BY <1>2, <2>1 DEF T
    <2>3. k \in 1 .. (len + 1)
      BY <1>1
    <2>4. r[k] \in T /\ Rank(T, r[k]) = k
      BY <1>5, <2>3
    <2>. QED BY <1>1, <2>2, <2>4, RankFacts
  <1>7. r[len + 1] = x
    <2>1. len + 1 \in 1 .. (len + 1) /\ x \in T
      BY <1>1 DEF T
    <2>. QED BY <1>1, <1>3, <1>5, <2>1, RankFacts
  <1>8. /\ Append(q, x) \in Seq(T) /\ Len(Append(q, x)) = len + 1
        /\ \A k \in 1 .. (len + 1) : Append(q, x)[k] = IF k = len + 1 THEN x ELSE q[k]
    <2>1. q \in Seq(T) /\ x \in T
      BY <1>4 DEF T
    <2>. QED BY <1>1, <1>4, <2>1
  <1>9. \A k \in 1 .. (len + 1) : r[k] = Append(q, x)[k]
    <2>1. \A k \in 1 .. (len + 1) : k = len + 1 \/ k \in 1 .. len
      BY <1>1
    <2>. QED BY <1>6, <1>7, <1>8, <2>1
  <1>10. r = Append(q, x)
    BY <1>5, <1>8, <1>9, SeqEqual
  <1>. QED BY <1>1, <1>10 DEF T, q, r, len

\* Those that are at most p come first.
LEMMA AscendingPrefix ==
    ASSUME NEW S, S \subseteq Nat, IsFiniteSet(S), NEW p \in Nat
    PROVE  /\ IsFiniteSet(AtMost(S, p)) /\ AtMost(S, p) \subseteq Nat
           /\ Cardinality(AtMost(S, p)) \in 0 .. Cardinality(S)
           /\ \A k \in 1 .. Cardinality(AtMost(S, p)) : Ascending(AtMost(S, p))[k] = Ascending(S)[k]
  <1>. DEFINE T == AtMost(S, p)
  <1>1. T \subseteq S /\ \A m \in T : m <= p
    BY DEF AtMost
  <1>2. /\ IsFiniteSet(T) /\ T \subseteq Nat /\ Cardinality(T) <= Cardinality(S)
        /\ Cardinality(T) \in Nat /\ Cardinality(S) \in Nat
    BY <1>1, FS_Subset, FS_CardinalityType
  <1>3. ASSUME NEW m \in T PROVE Rank(T, m) = Rank(S, m)
    <2>1. AtMost(T, m) = AtMost(S, m)
      <3>1. m \in Nat /\ m <= p /\ \A l \in S : l \in Nat
        BY <1>1
      <3>2. \A l \in S : l <= m => l <= p
        BY <3>1
      <3>. QED BY <3>2 DEF AtMost
    <2>. QED BY <2>1 DEF Rank
  <1>. HIDE DEF T
  <1>4. ASSUME NEW k \in 1 .. Cardinality(T) PROVE Ascending(T)[k] = Ascending(S)[k]
    <2>1. Ascending(T)[k] \in T /\ Rank(T, Ascending(T)[k]) = k
      BY <1>2, AscendingFacts
    <2>. DEFINE m == Ascending(T)[k]
    <2>2. m \in S /\ Rank(S, m) = k
      BY <1>1, <1>3, <2>1
    <2>. HIDE DEF m
    <2>3. Ascending(S)[Rank(S, m)] = m
      BY <2>2, AscendingFacts
    <2>. QED BY <2>2, <2>3 DEF m
  <1>. QED BY <1>2, <1>4 DEF T

-----------------------------------------------------------------------------
(* Tokens and scan_token.                                                  *)

\* The piece of s from its place b to its place e.
Piece(s, b, e) == First(From(s, b - 1), e - b + 1)

LEMMA FromPlace ==
    ASSUME NEW S, NEW s \in Seq(S), NEW b \in 1 .. Len(s)
    PROVE  /\ From(s, b - 1) \in Seq(S) /\ Len(From(s, b - 1)) = Len(s) - (b - 1)
           /\ \A i \in 1 .. (Len(s) - (b - 1)) : From(s, b - 1)[i] = s[(b - 1) + i]
  <1>1. b - 1 \in 0 .. Len(s)
    OBVIOUS
  <1>. QED BY <1>1, FromFacts

LEMMA PieceFacts ==
    ASSUME NEW S, NEW s \in Seq(S), NEW b \in 1 .. Len(s), NEW e \in b .. Len(s)
    PROVE  /\ Piece(s, b, e) \in Seq(S) /\ Len(Piece(s, b, e)) = e - b + 1
           /\ \A i \in 1 .. (e - b + 1) : Piece(s, b, e)[i] = s[b - 1 + i]
  <1>1. Len(s) \in Nat /\ b - 1 \in 0 .. Len(s) /\ e - b + 1 \in 0 .. (Len(s) - (b - 1))
    OBVIOUS
  <1>. DEFINE t == From(s, b - 1)
              n == Len(s)
  <1>2. t \in Seq(S) /\ Len(t) = n - (b - 1) /\ \A i \in 1 .. (n - (b - 1)) : t[i] = s[b - 1 + i]
    BY <1>1, FromFacts
  <1>. HIDE DEF t
  <1>3. e - b + 1 \in 0 .. Len(t)
    BY <1>1, <1>2
  <1>4. /\ First(t, e - b + 1) \in Seq(S) /\ Len(First(t, e - b + 1)) = e - b + 1
        /\ \A i \in 1 .. (e - b + 1) : First(t, e - b + 1)[i] = t[i]
    BY <1>2, <1>3, FirstFacts
  <1>5. \A i \in 1 .. (e - b + 1) : t[i] = s[b - 1 + i]
    <2>1. \A i \in 1 .. (e - b + 1) : i \in 1 .. (n - (b - 1))
      BY <1>1
    <2>. QED BY <1>2, <2>1
  <1>. QED BY <1>4, <1>5 DEF Piece, t

\* The token that begins at b.
LEMMA TokenAtIs ==
    ASSUME NEW S, NEW s \in Seq(S), NEW d, NEW b \in 1 .. Len(s), NEW e \in b .. Len(s),
           \A i \in b .. e : s[i] \notin d, e = Len(s) \/ s[e + 1] \in d
    PROVE  TokenAt(s, d, b) = Piece(s, b, e)
  <1>. DEFINE t == From(s, b - 1)
              n == Len(s)
              k == e - b + 1
  <1>1. n \in Nat /\ b \in Nat /\ e \in Nat /\ b <= e /\ e <= n /\ 1 <= b
    OBVIOUS
  <1>2. t \in Seq(S) /\ Len(t) = n - (b - 1) /\ \A i \in 1 .. (n - (b - 1)) : t[i] = s[(b - 1) + i]
    BY FromPlace
  <1>. HIDE DEF t
  <1>3. k \in 0 .. Len(t)
    BY <1>1, <1>2
  <1>4. ASSUME NEW i \in 1 .. k PROVE t[i] \notin d
    <2>1. i \in 1 .. (n - (b - 1)) /\ (b - 1) + i \in b .. e
      BY <1>1
    <2>. QED BY <1>2, <2>1
  <1>5. k = Len(t) \/ t[k + 1] \in d
    <2>1. CASE e = n
      BY <1>1, <1>2, <2>1
    <2>2. CASE e # n
      <3>1. k + 1 \in 1 .. (n - (b - 1)) /\ (b - 1) + (k + 1) = e + 1
        BY <1>1, <2>2
      <3>2. t[k + 1] = s[e + 1]
        BY <1>2, <3>1
      <3>. QED BY <2>2, <3>2
    <2>. QED BY <2>1, <2>2
  <1>6. strcspn(t, d) = k
    <2>. HIDE DEF k
    <2>. QED BY <1>2, <1>3, <1>4, <1>5, StrcspnIs
  <1>. QED BY <1>6 DEF TokenAt, Piece, t

\* What a buffer holds that was given s and a terminator.
LEMMA StrIs ==
    ASSUME NEW S, NUL \notin S, NEW t \in Seq(S), NEW D, 0 .. Len(t) \subseteq D, D \subseteq Nat,
           NEW buf, DOMAIN buf = D,
           \A i \in 0 .. (Len(t) - 1) : buf[i] = t[i + 1], buf[Len(t)] = NUL
    PROVE  Str(buf) = t
  <1>. DEFINE n == Len(t)
              T == {i \in DOMAIN buf : buf[i] = NUL}
  <1>1. n \in Nat /\ n \in D
    OBVIOUS
  <1>2. n \in T /\ T \subseteq Nat
    BY <1>1
  <1>3. ASSUME NEW i \in T PROVE n <= i
    <2>1. i \in Nat /\ buf[i] = NUL
      BY <1>2
    <2>2. SUFFICES ASSUME i < n PROVE FALSE
      BY <1>1, <2>1
    <2>3. i \in 0 .. (n - 1) /\ i + 1 \in 1 .. n
      BY <1>1, <2>1, <2>2
    <2>4. t[i + 1] \in S
      BY <2>3
    <2>. QED BY <2>1, <2>3, <2>4
  <1>4. Min(T) = n
    <2>. HIDE DEF T, n
    <2>. QED BY <1>2, <1>3, MinIs
  <1>5. Str(buf) = [i \in 1 .. n |-> buf[i - 1]]
    BY <1>4 DEF Str
  <1>6. \A i \in 1 .. n : buf[i - 1] = t[i]
    <2>1. \A i \in 1 .. n : i - 1 \in 0 .. (n - 1) /\ (i - 1) + 1 = i
      BY <1>1
    <2>. QED BY <2>1
  <1>7. t = [i \in 1 .. n |-> t[i]]
    OBVIOUS
  <1>. QED BY <1>5, <1>6, <1>7

\* A call of scan_token at the place behind p: there is nothing but delimiters, or
\* it takes the piece from the next place that has none, which ends at a delimiter
\* and is stored, or fills the buffer.
NothingLeft(s, d, p) == \A i \in (p + 1) .. Len(s) : s[i] \in d

NextPiece(s, d, p, b, e) ==
    /\ p < b /\ b <= e /\ e <= Len(s) /\ b \in Nat /\ e \in Nat
    /\ \A i \in (p + 1) .. (b - 1) : s[i] \in d
    /\ \A i \in b .. e : s[i] \notin d

EndsAt(s, d, e) == e = Len(s) \/ s[e + 1] \in d

LEMMA ScanNothing ==
    ASSUME NEW S, NEW s \in Seq(S), NEW d, NEW p \in 0 .. Len(s), NEW buf, NEW n,
           NothingLeft(s, d, p)
    PROVE  /\ ~scan_token(From(s, p), d, buf, n).ok
           /\ scan_token(From(s, p), d, buf, n).rest = <<>>
           /\ scan_token(From(s, p), d, buf, n).buf = buf
  <1>. DEFINE input == From(s, p)
              sp == strspn(input, d)
  <1>1. Len(s) \in Nat /\ p \in Nat
    OBVIOUS
  <1>2. /\ input \in Seq(S) /\ Len(input) = Len(s) - p
        /\ \A i \in 1 .. (Len(s) - p) : input[i] = s[p + i]
    BY FromFacts
  <1>. HIDE DEF input
  <1>3. sp \in 0 .. Len(input) /\ (sp = Len(input) \/ input[sp + 1] \notin d)
    BY <1>2, StrspnFacts
  <1>4. sp = Len(input)
    <2>1. SUFFICES ASSUME sp # Len(input) PROVE FALSE
      OBVIOUS
    <2>. HIDE DEF sp
    <2>2. sp + 1 \in 1 .. (Len(s) - p) /\ p + (sp + 1) \in (p + 1) .. Len(s)
      <3>1. sp \in 0 .. (Len(s) - p) /\ sp # Len(s) - p
        BY <1>2, <1>3, <2>1
      <3>. QED BY <1>1, <3>1
    <2>3. input[sp + 1] \in d
      BY <1>2, <2>2 DEF NothingLeft
    <2>. QED BY <1>3, <2>1, <2>3
  <1>5. From(input, sp) = <<>>
    <2>. HIDE DEF sp
    <2>1. From(input, sp) \in Seq(S) /\ Len(From(input, sp)) = Len(input) - sp
      BY <1>2, <1>3, FromFacts
    <2>2. Len(From(input, sp)) = 0
      BY <1>1, <1>2, <1>4, <2>1
    <2>. QED BY <2>1, <2>2
  <1>6. scan_token(input, d, buf, n) = [ok |-> FALSE, rest |-> <<>>, buf |-> buf, taken |-> <<>>]
    BY <1>5 DEF scan_token
  <1>. QED BY <1>6 DEF input

LEMMA ScanPiece ==
    ASSUME NEW S, NEW s \in Seq(S), NEW d, NEW p \in 0 .. Len(s), NEW n \in Nat, n >= 2,
           NUL \notin S, NEW buf, NEW D, 0 .. n \subseteq D, D \subseteq Nat, DOMAIN buf = D,
           ~NothingLeft(s, d, p), NEW r, r = scan_token(From(s, p), d, buf, n)
    PROVE  \E b, e \in 1 .. Len(s) :
              /\ NextPiece(s, d, p, b, e)
              /\ r.ok /\ r.rest = From(s, e) /\ r.taken = Piece(s, b, e) /\ DOMAIN r.buf = D
              /\ e - b + 1 \in 1 .. (n - 1)
              /\ EndsAt(s, d, e) => Str(r.buf) = r.taken
              /\ ~EndsAt(s, d, e) => e - b + 1 = n - 1
  <1>. DEFINE input == From(s, p)
              sp == strspn(input, d)
              b == p + sp + 1
              t == From(input, sp)
              k == strcspn(t, d)
              m == IF k < n THEN k ELSE n - 1
              e == p + sp + m
              len == Len(s)
  <1>1. len \in Nat /\ p \in Nat /\ p <= len
    OBVIOUS
  <1>2. /\ input \in Seq(S) /\ Len(input) = len - p
        /\ \A i \in 1 .. (len - p) : input[i] = s[p + i]
    BY FromFacts
  <1>3. /\ sp \in 0 .. Len(input) /\ (sp = Len(input) \/ input[sp + 1] \notin d)
        /\ \A i \in 1 .. sp : input[i] \in d
    <2>. HIDE DEF input
    <2>. QED BY <1>2, StrspnFacts
  <1>4. t = From(s, p + sp)
    <2>1. sp \in 0 .. (Len(s) - p)
      BY <1>2, <1>3
    <2>. HIDE DEF sp
    <2>. QED BY <2>1, FromFrom
  <1>. HIDE DEF input, sp
  <1>5. sp \in Nat /\ p + sp \in 0 .. len /\ p + sp \in 0 .. Len(s)
    BY <1>1, <1>2, <1>3
  <1>6. /\ t \in Seq(S) /\ Len(t) = len - (p + sp)
        /\ \A i \in 1 .. (len - (p + sp)) : t[i] = s[(p + sp) + i]
    <2>. HIDE DEF t
    <2>. QED BY <1>4, <1>5, FromFacts
  <1>7. /\ k \in 0 .. Len(t) /\ (k = Len(t) \/ t[k + 1] \in d)
        /\ \A i \in 1 .. k : t[i] \notin d
    <2>. HIDE DEF t
    <2>. QED BY <1>6, StrcspnFacts
  <1>. HIDE DEF t, k, len
  <1>8. ASSUME NEW i \in (p + 1) .. (b - 1) PROVE s[i] \in d
    <2>1. i - p \in 1 .. sp /\ i - p \in 1 .. (len - p) /\ p + (i - p) = i
      BY <1>1, <1>5
    <2>. QED BY <1>2, <1>3, <2>1
  <1>9. sp # Len(input)
    <2>1. SUFFICES ASSUME sp = Len(input) PROVE NothingLeft(s, d, p)
      OBVIOUS
    <2>2. b - 1 = len
      BY <1>1, <1>2, <1>5, <2>1
    <2>. QED BY <1>8, <2>2 DEF NothingLeft, len
  <1>10. Len(t) # 0 /\ t # <<>>
    BY <1>1, <1>2, <1>3, <1>5, <1>6, <1>9
  <1>11. t[1] \notin d
    <2>1. sp + 1 \in 1 .. (len - p) /\ 1 \in 1 .. (len - (p + sp)) /\ p + (sp + 1) = (p + sp) + 1
      BY <1>1, <1>2, <1>3, <1>5, <1>9
    <2>2. input[sp + 1] = s[(p + sp) + 1] /\ t[1] = s[(p + sp) + 1]
      BY <1>2, <1>6, <2>1
    <2>. QED BY <1>3, <1>9, <2>2
  <1>12. k # 0
    <2>1. SUFFICES ASSUME k = 0 PROVE FALSE
      OBVIOUS
    <2>2. t[0 + 1] \in d
      BY <1>7, <1>10, <2>1
    <2>. QED BY <1>11, <2>2
  <1>13. m \in 1 .. (n - 1) /\ m <= k /\ k <= Len(t) /\ k \in Nat /\ m \in Nat
    BY <1>6, <1>7, <1>12
  <1>14. b \in 1 .. len /\ e \in 1 .. len /\ b <= e /\ p < b /\ e - b + 1 = m /\ b \in Nat /\ e \in Nat
    <2>. HIDE DEF m
    <2>. QED BY <1>1, <1>5, <1>6, <1>13
  <1>15. NextPiece(s, d, p, b, e)
    <2>1. ASSUME NEW i \in b .. e PROVE s[i] \notin d
      <3>1. /\ i - (p + sp) \in 1 .. k /\ i - (p + sp) \in 1 .. (len - (p + sp))
            /\ (p + sp) + (i - (p + sp)) = i
        <4>. HIDE DEF m
        <4>. QED BY <1>1, <1>5, <1>6, <1>13
      <3>. QED BY <1>6, <1>7, <3>1
    <2>. HIDE DEF m, b, e
    <2>. QED BY <1>8, <1>14, <2>1 DEF NextPiece, len
  <1>16. b - 1 = p + sp
    BY <1>1, <1>5
  <1>17. Piece(s, b, e) = First(t, m)
    <2>. HIDE DEF m, e, b
    <2>. QED BY <1>4, <1>14, <1>16 DEF Piece
  <1>18. From(t, m) = From(s, e)
    <2>1. m \in 0 .. (Len(s) - (p + sp)) /\ (p + sp) + m = e
      <3>. HIDE DEF m
      <3>. QED BY <1>1, <1>5, <1>6, <1>13 DEF len
    <2>. HIDE DEF m, e
    <2>. QED BY <1>4, <1>5, <2>1, FromFrom
  <1>19. First(t, m) \in Seq(S) /\ Len(First(t, m)) = m /\ \A i \in 1 .. m : First(t, m)[i] = t[i]
    <2>1. m \in 0 .. Len(t)
      <3>. HIDE DEF m
      <3>. QED BY <1>6, <1>13
    <2>. HIDE DEF m
    <2>. QED BY <1>6, <2>1, FirstFacts
  <1>20. EndsAt(s, d, e) <=> k = m
    <2>1. CASE m = Len(t)
      <3>1. k = m /\ e = len
        <4>. HIDE DEF m
        <4>. QED BY <1>1, <1>5, <1>6, <1>13, <2>1
      <3>. QED BY <3>1 DEF EndsAt, len
    <2>2. CASE m # Len(t)
      <3>1. m + 1 \in 1 .. (len - (p + sp)) /\ (p + sp) + (m + 1) = e + 1 /\ e # len
        <4>. HIDE DEF m
        <4>1. m < len - (p + sp)
          BY <1>1, <1>5, <1>6, <1>13, <2>2
        <4>. QED BY <1>1, <1>5, <1>13, <4>1
      <3>2. t[m + 1] = s[e + 1]
        <4>. HIDE DEF m, e
        <4>. QED BY <1>6, <3>1
      <3>3. CASE k = m
        BY <1>7, <2>2, <3>2, <3>3 DEF EndsAt
      <3>4. CASE k # m
        <4>1. m + 1 \in 1 .. k
          <5>. HIDE DEF m
          <5>. QED BY <1>13, <3>4
        <4>2. s[e + 1] \notin d
          <5>. HIDE DEF m, e
          <5>. QED BY <1>7, <3>2, <4>1
        <4>. QED BY <3>1, <3>4, <4>2 DEF EndsAt, len
      <3>. QED BY <3>3, <3>4
    <2>. QED BY <2>1, <2>2
  <1>21. CASE k < n
    <2>1. m = k
      BY <1>21
    <2>2. r = [ok |-> TRUE, rest |-> From(t, k), taken |-> First(t, k),
               buf |-> [i \in DOMAIN buf |-> IF i < k THEN t[i + 1] ELSE IF i = k THEN NUL ELSE buf[i]]]
      BY <1>10, <1>21 DEF scan_token, t, k, sp, input
    <2>3. Str(r.buf) = First(t, k)
      <3>. DEFINE u == First(t, k)
                  c == r.buf
      <3>1. /\ u \in Seq(S) /\ Len(u) = k /\ \A i \in 1 .. k : u[i] = t[i]
        BY <1>19, <2>1
      <3>2. /\ DOMAIN c = D /\ \A i \in D : c[i] = IF i < k THEN t[i + 1] ELSE IF i = k THEN NUL ELSE buf[i]
        BY <2>2
      <3>3. 0 .. k \subseteq D /\ k \in D /\ k \in Nat
        BY <1>13, <1>21
      <3>4. \A i \in 0 .. (k - 1) : i \in D /\ i < k /\ i + 1 \in 1 .. k
        BY <3>3
      <3>. HIDE DEF u, c
      <3>5. \A i \in 0 .. (Len(u) - 1) : c[i] = u[i + 1]
        BY <3>1, <3>2, <3>4
      <3>6. c[Len(u)] = NUL
        BY <3>1, <3>2, <3>3
      <3>7. Str(c) = u
        BY <3>1, <3>2, <3>3, <3>5, <3>6, StrIs
      <3>. QED BY <3>7 DEF u, c
    <2>4. r.ok /\ r.rest = From(s, e) /\ r.taken = Piece(s, b, e) /\ DOMAIN r.buf = D
      <3>1. r.ok /\ r.rest = From(t, m) /\ r.taken = First(t, m) /\ DOMAIN r.buf = D
        BY <2>1, <2>2
      <3>. QED BY <1>17, <1>18, <3>1
    <2>5. Str(r.buf) = r.taken
      BY <2>2, <2>3
    <2>. HIDE DEF b, e, m
    <2>. QED BY <1>13, <1>14, <1>15, <1>20, <2>1, <2>4, <2>5 DEF len
  <1>22. CASE ~(k < n)
    <2>1. m = n - 1 /\ k # m
      BY <1>13, <1>22
    <2>2. r = [ok |-> TRUE, rest |-> From(t, n - 1), taken |-> First(t, n - 1),
               buf |-> [i \in DOMAIN buf |-> IF i < n - 1 THEN t[i + 1]
                                             ELSE IF i = n THEN NUL ELSE buf[i]]]
      BY <1>10, <1>22 DEF scan_token, t, k, sp, input
    <2>3. r.ok /\ r.rest = From(s, e) /\ r.taken = Piece(s, b, e) /\ DOMAIN r.buf = D
      <3>1. r.ok /\ r.rest = From(t, m) /\ r.taken = First(t, m) /\ DOMAIN r.buf = D
        BY <2>1, <2>2
      <3>. QED BY <1>17, <1>18, <3>1
    <2>. HIDE DEF b, e, m
    <2>. QED BY <1>13, <1>14, <1>15, <1>20, <2>1, <2>3 DEF len
  <1>. QED BY <1>21, <1>22

\* The tokens that begin at p or before.
BeginsTo(s, d, p) == AtMost(Begins(s, d), p)
TokensTo(s, d, p) ==
    LET begin == Ascending(BeginsTo(s, d, p)) IN [k \in DOMAIN begin |-> TokenAt(s, d, begin[k])]

\* A place that is not inside a token.
Between(s, d, p) == p = 0 \/ EndsAt(s, d, p) \/ s[p] \in d

LEMMA BeginsFacts ==
    ASSUME NEW S, NEW s \in Seq(S), NEW d
    PROVE  Begins(s, d) \subseteq 1 .. Len(s) /\ Begins(s, d) \subseteq Nat /\ IsFiniteSet(Begins(s, d))
  <1>1. Begins(s, d) \subseteq 1 .. Len(s) /\ Len(s) \in Nat
    BY DEF Begins
  <1>2. IsFiniteSet(1 .. Len(s))
    BY <1>1, FS_Interval
  <1>. QED BY <1>1, <1>2, FS_Subset

LEMMA TokensToFacts ==
    ASSUME NEW S, NEW s \in Seq(S), NEW d, NEW p \in 0 .. Len(s)
    PROVE  /\ Len(TokensTo(s, d, p)) = Cardinality(BeginsTo(s, d, p))
           /\ DOMAIN TokensTo(s, d, p) = 1 .. Cardinality(BeginsTo(s, d, p))
           /\ Cardinality(BeginsTo(s, d, p)) \in Nat
           /\ \A k \in 1 .. Cardinality(BeginsTo(s, d, p)) :
                 TokensTo(s, d, p)[k] = TokenAt(s, d, Ascending(BeginsTo(s, d, p))[k])
  <1>. DEFINE T == BeginsTo(s, d, p)
              c == Cardinality(T)
  <1>1. p \in Nat
    OBVIOUS
  <1>2. T \subseteq Nat /\ IsFiniteSet(T)
    BY <1>1, BeginsFacts, AscendingPrefix DEF BeginsTo
  <1>3. DOMAIN Ascending(T) = 1 .. c /\ c \in Nat
    BY <1>2, AscendingFacts, FS_CardinalityType
  <1>4. TokensTo(s, d, p) = [k \in 1 .. c |-> TokenAt(s, d, Ascending(T)[k])]
    BY <1>3 DEF TokensTo
  <1>. HIDE DEF T, c
  <1>5. /\ Len(TokensTo(s, d, p)) = c /\ DOMAIN TokensTo(s, d, p) = 1 .. c
        /\ \A k \in 1 .. c : TokensTo(s, d, p)[k] = TokenAt(s, d, Ascending(T)[k])
    BY <1>3, <1>4
  <1>. QED BY <1>3, <1>5 DEF T, c

\* At a place that is not inside a token there is one more to come, or none.
LEMMA NextBegin ==
    ASSUME NEW S, NEW s \in Seq(S), NEW d, NEW p \in 0 .. Len(s), Between(s, d, p),
           NEW b, NEW e, NextPiece(s, d, p, b, e)
    PROVE  /\ b \in 1 .. Len(s) /\ e \in b .. Len(s)
           /\ BeginsTo(s, d, e) = BeginsTo(s, d, p) \cup {b}
           /\ \A l \in BeginsTo(s, d, p) : l < b
  <1>1. /\ Len(s) \in Nat /\ p \in Nat /\ p < b /\ b <= e /\ e <= Len(s) /\ b \in Nat /\ e \in Nat
        /\ \A i \in (p + 1) .. (b - 1) : s[i] \in d
        /\ \A i \in b .. e : s[i] \notin d
    BY DEF NextPiece
  <1>2. b \in 1 .. Len(s) /\ e \in b .. Len(s)
    BY <1>1
  <1>3. b \in Begins(s, d)
    <2>1. s[b] \notin d
      BY <1>1
    <2>2. b = 1 \/ s[b - 1] \in d
      <3>1. CASE b - 1 \in (p + 1) .. (b - 1)
        BY <1>1, <3>1
      <3>2. CASE b - 1 \notin (p + 1) .. (b - 1)
        <4>1. b = p + 1 /\ p # Len(s) /\ b - 1 = p
          BY <1>1, <3>2
        <4>2. p = 0 \/ s[p] \in d
          BY <2>1, <4>1 DEF Between, EndsAt
        <4>. QED BY <4>1, <4>2
      <3>. QED BY <3>1, <3>2
    <2>. QED BY <1>2, <2>1, <2>2 DEF Begins
  <1>4. ASSUME NEW i \in Begins(s, d), i <= e PROVE i <= p \/ i = b
    <2>1. i \in 1 .. Len(s) /\ s[i] \notin d /\ (i = 1 \/ s[i - 1] \in d)
      BY DEF Begins
    <2>2. ~(i \in (p + 1) .. (b - 1))
      BY <1>1, <2>1
    <2>3. ~(i \in (b + 1) .. e)
      <3>1. SUFFICES ASSUME i \in (b + 1) .. e PROVE FALSE
        OBVIOUS
      <3>2. i - 1 \in b .. e /\ i # 1
        BY <1>1, <3>1
      <3>. QED BY <1>1, <2>1, <3>2
    <2>. QED BY <1>1, <1>4, <2>1, <2>2, <2>3
  <1>5. ASSUME NEW i \in Begins(s, d), i <= p PROVE i <= e /\ i < b
    <2>1. i \in Nat
      BY DEF Begins
    <2>. QED BY <1>1, <1>5, <2>1
  <1>6. BeginsTo(s, d, e) = BeginsTo(s, d, p) \cup {b}
    BY <1>1, <1>3, <1>4, <1>5 DEF BeginsTo, AtMost
  <1>7. \A l \in BeginsTo(s, d, p) : l < b
    BY <1>5 DEF BeginsTo, AtMost
  <1>. QED BY <1>2, <1>6, <1>7

LEMMA NextToken ==
    ASSUME NEW S, NEW s \in Seq(S), NEW d, NEW p \in 0 .. Len(s), Between(s, d, p),
           NEW b, NEW e, NextPiece(s, d, p, b, e), EndsAt(s, d, e)
    PROVE  /\ TokensTo(s, d, e) = Append(TokensTo(s, d, p), Piece(s, b, e))
           /\ Cardinality(BeginsTo(s, d, e)) = Cardinality(BeginsTo(s, d, p)) + 1
           /\ Between(s, d, e)
  <1>. DEFINE T == BeginsTo(s, d, p)
              c == Cardinality(T)
              q == Ascending(T)
              P == TokensTo(s, d, p)
              E == TokensTo(s, d, e)
  <1>1. /\ b \in 1 .. Len(s) /\ e \in b .. Len(s) /\ e \in 0 .. Len(s)
        /\ BeginsTo(s, d, e) = T \cup {b} /\ \A l \in T : l < b
    BY NextBegin
  <1>2. T \subseteq Nat /\ IsFiniteSet(T) /\ b \in Nat /\ c \in Nat
    <2>1. p \in Nat
      OBVIOUS
    <2>2. T \subseteq Nat /\ IsFiniteSet(T)
      BY <2>1, BeginsFacts, AscendingPrefix DEF BeginsTo
    <2>. QED BY <1>1, <2>2, FS_CardinalityType
  <1>3. Ascending(T \cup {b}) = Append(q, b) /\ Cardinality(T \cup {b}) = c + 1
    <2>. HIDE DEF T, q, c
    <2>. QED BY <1>1, <1>2, AscendingAppend DEF q, c
  <1>4. q \in Seq(T) /\ Len(q) = c
    <2>. HIDE DEF T
    <2>. QED BY <1>2, AscendingFacts
  <1>5. /\ Len(P) = c /\ DOMAIN P = 1 .. c
        /\ \A k \in 1 .. c : P[k] = TokenAt(s, d, q[k])
    BY TokensToFacts
  <1>6. /\ Len(E) = c + 1 /\ DOMAIN E = 1 .. (c + 1)
        /\ \A k \in 1 .. (c + 1) : E[k] = TokenAt(s, d, Append(q, b)[k])
    <2>1. /\ Len(E) = Cardinality(T \cup {b}) /\ DOMAIN E = 1 .. Cardinality(T \cup {b})
          /\ \A k \in 1 .. Cardinality(T \cup {b}) : E[k] = TokenAt(s, d, Ascending(T \cup {b})[k])
      <3>. DEFINE U == BeginsTo(s, d, e)
      <3>1. /\ Len(E) = Cardinality(U) /\ DOMAIN E = 1 .. Cardinality(U)
            /\ \A k \in 1 .. Cardinality(U) : E[k] = TokenAt(s, d, Ascending(U)[k])
        BY <1>1, TokensToFacts
      <3>2. U = T \cup {b}
        BY <1>1
      <3>. HIDE DEF E, T, U
      <3>. QED BY <3>1, <3>2
    <2>. HIDE DEF E, T, q, c
    <2>. QED BY <1>3, <2>1
  <1>7. TokenAt(s, d, b) = Piece(s, b, e)
    <2>1. \A i \in b .. e : s[i] \notin d
      BY DEF NextPiece
    <2>2. e = Len(s) \/ s[e + 1] \in d
      BY DEF EndsAt
    <2>. QED BY <1>1, <2>1, <2>2, TokenAtIs
  <1>8. \A k \in 1 .. (c + 1) : Append(q, b)[k] = IF k = c + 1 THEN b ELSE q[k]
    <2>. HIDE DEF q, T, c
    <2>1. q \in Seq(T \cup {b}) /\ b \in T \cup {b}
      BY <1>4
    <2>. QED BY <1>2, <1>4, <2>1
  <1>. DEFINE V == {P[k] : k \in 1 .. c} \cup {Piece(s, b, e)}
  <1>. HIDE DEF P, E, T, q, c
  <1>9. P \in Seq(V)
    <2>1. P = [k \in 1 .. c |-> P[k]]
      <3>1. P = [k \in 1 .. Cardinality(BeginsTo(s, d, p)) |->
                    TokenAt(s, d, Ascending(BeginsTo(s, d, p))[k])]
        <4>1. DOMAIN Ascending(BeginsTo(s, d, p)) = 1 .. Cardinality(BeginsTo(s, d, p))
          BY <1>2, AscendingFacts DEF T
        <4>. QED BY <4>1 DEF P, TokensTo
      <3>. QED BY <3>1 DEF c, T
    <2>. QED BY <1>2, <2>1
  <1>10. /\ Append(P, Piece(s, b, e)) \in Seq(V) /\ Len(Append(P, Piece(s, b, e))) = c + 1
         /\ \A k \in 1 .. c : Append(P, Piece(s, b, e))[k] = P[k]
         /\ Append(P, Piece(s, b, e))[c + 1] = Piece(s, b, e)
    BY <1>5, <1>9, AppendProperties
  <1>11. \A k \in 1 .. (c + 1) : E[k] = Append(P, Piece(s, b, e))[k]
    <2>. SUFFICES ASSUME NEW k \in 1 .. (c + 1) PROVE E[k] = Append(P, Piece(s, b, e))[k]
      OBVIOUS
    <2>1. CASE k = c + 1
      BY <1>2, <1>6, <1>7, <1>8, <1>10, <2>1
    <2>2. CASE k # c + 1
      <3>1. k \in 1 .. c
        BY <1>2, <2>2
      <3>. QED BY <1>5, <1>6, <1>8, <1>10, <2>2, <3>1, ZenonT(60)
    <2>. QED BY <2>1, <2>2
  <1>12. E = Append(P, Piece(s, b, e))
    <2>1. E \in Seq(V)
      <3>1. E = [k \in 1 .. (c + 1) |-> E[k]]
        <4>1. DOMAIN Ascending(BeginsTo(s, d, e)) = 1 .. (c + 1)
          <5>1. T \cup {b} \subseteq Nat /\ IsFiniteSet(T \cup {b})
            BY <1>2, FS_AddElement
          <5>. QED BY <1>1, <1>3, <5>1, AscendingFacts
        <4>2. E = [k \in 1 .. (c + 1) |-> TokenAt(s, d, Ascending(BeginsTo(s, d, e))[k])]
          BY <4>1 DEF E, TokensTo
        <4>. QED BY <4>2
      <3>2. \A k \in 1 .. (c + 1) : E[k] \in V
        <4>1. \A k \in 1 .. (c + 1) : Append(P, Piece(s, b, e))[k] \in V
          BY <1>2, <1>10
        <4>. QED BY <1>11, <4>1
      <3>. QED BY <1>2, <3>1, <3>2, SMTT(60)
    <2>. QED BY <1>6, <1>10, <1>11, <2>1, SeqEqual
  <1>13. Between(s, d, e)
    BY DEF Between
  <1>. QED BY <1>1, <1>3, <1>12, <1>13 DEF E, P, T, c

LEMMA NoToken ==
    ASSUME NEW S, NEW s \in Seq(S), NEW d, NEW p \in 0 .. Len(s), NothingLeft(s, d, p)
    PROVE  TokensTo(s, d, p) = Tokens(s, d) /\ BeginsTo(s, d, p) = Begins(s, d)
  <1>1. \A i \in Begins(s, d) : i <= p
    <2>. SUFFICES ASSUME NEW i \in Begins(s, d), ~(i <= p) PROVE FALSE
      OBVIOUS
    <2>1. i \in 1 .. Len(s) /\ s[i] \notin d
      BY DEF Begins
    <2>2. i \in (p + 1) .. Len(s)
      BY <2>1
    <2>. QED BY <2>1, <2>2 DEF NothingLeft
  <1>2. BeginsTo(s, d, p) = Begins(s, d)
    BY <1>1 DEF BeginsTo, AtMost
  <1>. QED BY <1>2 DEF TokensTo, Tokens

\* They are the first of the tokens.
LEMMA TokensFirst ==
    ASSUME NEW S, NEW s \in Seq(S), NEW d, NEW p \in 0 .. Len(s)
    PROVE  /\ DOMAIN Tokens(s, d) = 1 .. Cardinality(Begins(s, d))
           /\ Cardinality(Begins(s, d)) \in Nat
           /\ Cardinality(BeginsTo(s, d, p)) \in 0 .. Cardinality(Begins(s, d))
           /\ \A k \in 1 .. Cardinality(BeginsTo(s, d, p)) : TokensTo(s, d, p)[k] = Tokens(s, d)[k]
  <1>. DEFINE B == Begins(s, d)
              T == BeginsTo(s, d, p)
  <1>1. B \subseteq Nat /\ IsFiniteSet(B) /\ p \in Nat
    BY BeginsFacts
  <1>2. DOMAIN Ascending(B) = 1 .. Cardinality(B) /\ Cardinality(B) \in Nat
    <2>. HIDE DEF B
    <2>. QED BY <1>1, AscendingFacts, FS_CardinalityType
  <1>3. /\ Cardinality(T) \in 0 .. Cardinality(B)
        /\ \A k \in 1 .. Cardinality(T) : Ascending(T)[k] = Ascending(B)[k]
    <2>. HIDE DEF B
    <2>1. T = AtMost(B, p)
      BY DEF BeginsTo, B
    <2>. HIDE DEF T
    <2>. QED BY <1>1, <2>1, AscendingPrefix
  <1>4. \A k \in 1 .. Cardinality(T) : TokensTo(s, d, p)[k] = TokenAt(s, d, Ascending(T)[k])
    BY TokensToFacts
  <1>5. Tokens(s, d) = [k \in 1 .. Cardinality(B) |-> TokenAt(s, d, Ascending(B)[k])]
    BY <1>2 DEF Tokens
  <1>. HIDE DEF B, T
  <1>6. \A k \in 1 .. Cardinality(T) : TokensTo(s, d, p)[k] = Tokens(s, d)[k]
    <2>1. \A k \in 1 .. Cardinality(T) : k \in 1 .. Cardinality(B)
      BY <1>2, <1>3
    <2>. QED BY <1>3, <1>4, <1>5, <2>1
  <1>. QED BY <1>2, <1>3, <1>5, <1>6 DEF B, T

LEMMA NoTokensYet ==
    ASSUME NEW S, NEW s \in Seq(S), NEW d
    PROVE  TokensTo(s, d, 0) = <<>> /\ Cardinality(BeginsTo(s, d, 0)) = 0 /\ Between(s, d, 0)
  <1>1. BeginsTo(s, d, 0) = {}
    BY BeginsFacts DEF BeginsTo, AtMost
  <1>2. Ascending({}) = <<>> /\ Cardinality({}) = 0
    BY AscendingEmpty, FS_EmptySet
  <1>3. TokensTo(s, d, 0) = [k \in DOMAIN <<>> |-> TokenAt(s, d, <<>>[k])]
    BY <1>1, <1>2 DEF TokensTo
  <1>4. DOMAIN <<>> = {}
    OBVIOUS
  <1>5. TokensTo(s, d, 0) = <<>>
    BY <1>3, <1>4
  <1>. QED BY <1>1, <1>2, <1>5 DEF Between

LEMMA TokenType ==
    ASSUME NEW S, NEW s \in Seq(S), NEW d, NEW b \in Begins(s, d)
    PROVE  TokenAt(s, d, b) \in Seq(S)
  <1>1. b \in 1 .. Len(s)
    BY BeginsFacts
  <1>2. From(s, b - 1) \in Seq(S)
    BY <1>1, FromPlace
  <1>3. strcspn(From(s, b - 1), d) \in 0 .. Len(From(s, b - 1))
    BY <1>2, StrcspnFacts
  <1>. QED BY <1>2, <1>3, FirstFacts DEF TokenAt

LEMMA TokensType ==
    ASSUME NEW S, NEW s \in Seq(S), NEW d, NEW p \in 0 .. Len(s)
    PROVE  TokensTo(s, d, p) \in Seq(Seq(S)) /\ Tokens(s, d) \in Seq(Seq(S))
  <1>1. ASSUME NEW T, T \subseteq Begins(s, d), NEW f, f = [k \in DOMAIN Ascending(T) |-> TokenAt(s, d, Ascending(T)[k])]
        PROVE  f \in Seq(Seq(S))
    <2>1. T \subseteq Nat /\ IsFiniteSet(T)
      BY <1>1, BeginsFacts, FS_Subset
    <2>2. Ascending(T) \in Seq(T)
      BY <2>1, AscendingFacts
    <2>3. DOMAIN Ascending(T) = 1 .. Len(Ascending(T)) /\ Len(Ascending(T)) \in Nat
      BY <2>2
    <2>4. \A k \in 1 .. Len(Ascending(T)) : TokenAt(s, d, Ascending(T)[k]) \in Seq(S)
      <3>1. \A k \in 1 .. Len(Ascending(T)) : Ascending(T)[k] \in Begins(s, d)
        BY <1>1, <2>2
      <3>. QED BY <3>1, TokenType
    <2>. QED BY <1>1, <2>3, <2>4
  <1>2. BeginsTo(s, d, p) \subseteq Begins(s, d)
    BY DEF BeginsTo, AtMost
  <1>3. TokensTo(s, d, p) \in Seq(Seq(S))
    BY <1>1, <1>2, Zenon DEF TokensTo
  <1>4. Tokens(s, d) \in Seq(Seq(S))
    BY <1>1, Zenon DEF Tokens
  <1>. QED BY <1>3, <1>4

\* A buffer that is longer than the text gets the tokens whole, one by one.
LEMMA WholeToken ==
    ASSUME NEW S, NUL \notin S, NEW s \in Seq(S), NEW d, NEW p \in 0 .. Len(s), Between(s, d, p),
           NEW r, r = scan_token(From(s, p), d, Buffer(Len(s) + 1), Len(s) + 1)
    PROVE  \/ ~r.ok /\ NothingLeft(s, d, p)
           \/ /\ r.ok /\ Str(r.buf) \in Seq(S)
              /\ \E e \in 0 .. Len(s) :
                    /\ r.rest = From(s, e) /\ Between(s, d, e)
                    /\ TokensTo(s, d, e) = Append(TokensTo(s, d, p), Str(r.buf))
                    /\ Cardinality(BeginsTo(s, d, e)) = Cardinality(BeginsTo(s, d, p)) + 1
                    /\ Tokens(s, d)[Cardinality(BeginsTo(s, d, p)) + 1] = Str(r.buf)
  <1>1. CASE NothingLeft(s, d, p)
    BY <1>1, ScanNothing
  <1>2. CASE ~NothingLeft(s, d, p)
    <2>1. Len(s) \in Nat /\ Len(s) # 0
      BY <1>2 DEF NothingLeft
    <2>. DEFINE n == Len(s) + 1
                D == 0 .. n
    <2>2. n \in Nat /\ n >= 2 /\ n - 1 = Len(s) /\ D \subseteq Nat /\ 0 .. n \subseteq D
      BY <2>1
    <2>3. DOMAIN Buffer(n) = D
      BY DEF Buffer
    <2>4. PICK b \in 1 .. Len(s), e \in 1 .. Len(s) :
              /\ NextPiece(s, d, p, b, e)
              /\ r.ok /\ r.rest = From(s, e) /\ r.taken = Piece(s, b, e)
              /\ EndsAt(s, d, e) => Str(r.buf) = r.taken
              /\ ~EndsAt(s, d, e) => e - b + 1 = n - 1
      <3>. DEFINE buf == Buffer(n)
      <3>1. r = scan_token(From(s, p), d, buf, n) /\ DOMAIN buf = D
        BY <2>3
      <3>. HIDE DEF n, D, buf
      <3>2. \E b, e \in 1 .. Len(s) :
              /\ NextPiece(s, d, p, b, e)
              /\ r.ok /\ r.rest = From(s, e) /\ r.taken = Piece(s, b, e) /\ DOMAIN r.buf = D
              /\ e - b + 1 \in 1 .. (n - 1)
              /\ EndsAt(s, d, e) => Str(r.buf) = r.taken
              /\ ~EndsAt(s, d, e) => e - b + 1 = n - 1
        BY <1>2, <2>2, <3>1, ScanPiece, SMTT(60)
      <3>. QED BY <3>2
    <2>5. EndsAt(s, d, e)
      <3>1. SUFFICES ASSUME ~EndsAt(s, d, e) PROVE FALSE
        OBVIOUS
      <3>2. e - b + 1 = Len(s) /\ b >= 1 /\ e <= Len(s) /\ b \in Nat /\ e \in Nat
        BY <2>2, <2>4, <3>1
      <3>3. e = Len(s)
        BY <2>1, <3>2
      <3>. QED BY <3>1, <3>3 DEF EndsAt
    <2>6. /\ TokensTo(s, d, e) = Append(TokensTo(s, d, p), Str(r.buf))
          /\ Cardinality(BeginsTo(s, d, e)) = Cardinality(BeginsTo(s, d, p)) + 1
          /\ Between(s, d, e)
      <3>1. Str(r.buf) = Piece(s, b, e)
        BY <2>4, <2>5
      <3>. QED BY <2>4, <2>5, <3>1, NextToken
    <2>7. e \in 0 .. Len(s) /\ Str(r.buf) \in Seq(S)
      <3>1. e \in b .. Len(s)
        BY <2>1, <2>4 DEF NextPiece
      <3>2. Piece(s, b, e) \in Seq(S)
        BY <3>1, PieceFacts
      <3>. QED BY <2>4, <2>5, <3>2
    <2>8. Tokens(s, d)[Cardinality(BeginsTo(s, d, p)) + 1] = Str(r.buf)
      <3>. DEFINE P == TokensTo(s, d, p)
                  c == Cardinality(BeginsTo(s, d, p))
      <3>1. P \in Seq(Seq(S)) /\ Len(P) = c /\ c \in Nat
        BY TokensType, TokensToFacts
      <3>2. Append(P, Str(r.buf))[c + 1] = Str(r.buf)
        <4>. HIDE DEF P, c
        <4>. QED BY <2>7, <3>1
      <3>3. TokensTo(s, d, e)[c + 1] = Str(r.buf)
        BY <2>6, <3>2
      <3>4. \A k \in 1 .. (c + 1) : TokensTo(s, d, e)[k] = Tokens(s, d)[k]
        BY <2>6, <2>7, TokensFirst, ZenonT(60)
      <3>5. c + 1 \in 1 .. (c + 1)
        BY <3>1
      <3>. QED BY <3>3, <3>4, <3>5
    <2>. QED BY <2>4, <2>6, <2>7, <2>8
  <1>. QED BY <1>1, <1>2

-----------------------------------------------------------------------------
(* Sequences put behind one another.                                        *)

\* The sequences that FlattenSeq makes of the first sequences.
Flat(seqs) ==
    LET flatten[i \in 1 .. Len(seqs)] == IF i = 1 THEN seqs[i] ELSE flatten[i - 1] \o seqs[i]
    IN  flatten

LEMMA FlatIs ==
    ASSUME NEW T, NEW s \in Seq(T), NEW flat, flat = Flat(s)
    PROVE  /\ \A k \in 1 .. Len(s) : flat[k] = IF k = 1 THEN s[k] ELSE flat[k - 1] \o s[k]
           /\ Len(s) # 0 => FlattenSeq(s) = flat[Len(s)]
  <1>. DEFINE Sum(n, f) == f = [k \in 1 .. n |-> IF k = 1 THEN s[k] ELSE f[k - 1] \o s[k]]
              None == {n \in Nat : \A f : ~Sum(n, f)}
  <1>1. None = {}
    <2>1. SUFFICES ASSUME None # {} PROVE FALSE
      OBVIOUS
    <2>2. PICK n \in None : \A k \in None : n <= k
      <3>1. None \subseteq Nat
        OBVIOUS
      <3>. HIDE DEF None
      <3>. QED BY <2>1, <3>1, LeastNatural
    <2>3. n # 0
      <3>1. Sum(0, [k \in 1 .. 0 |-> IF k = 1 THEN s[k] ELSE <<>>[k - 1] \o s[k]])
        OBVIOUS
      <3>. QED BY <2>2, <3>1
    <2>4. n - 1 \in Nat /\ ~(n <= n - 1)
      BY <2>2, <2>3
    <2>5. PICK f : Sum(n - 1, f)
      <3>1. n - 1 \notin None
        BY <2>2, <2>4
      <3>. HIDE DEF Sum
      <3>. QED BY <2>4, <3>1
    <2>. DEFINE g == [k \in 1 .. n |-> IF k = 1 THEN s[k] ELSE f[k - 1] \o s[k]]
    <2>6. \A k \in 1 .. n : k # 1 => k - 1 \in 1 .. (n - 1) /\ k - 1 \in 1 .. n
      BY <2>4
    <2>7. ASSUME NEW k \in 1 .. (n - 1) PROVE g[k] = f[k]
      <3>1. k \in 1 .. n
        BY <2>4
      <3>2. g[k] = IF k = 1 THEN s[k] ELSE f[k - 1] \o s[k]
        BY <3>1
      <3>. QED BY <2>5, <3>2
    <2>8. Sum(n, g)
      BY <2>6, <2>7
    <2>. QED BY <2>2, <2>8
  <1>2. DOMAIN s = 1 .. Len(s) /\ Len(s) \in Nat
    OBVIOUS
  <1>3. \E f : Sum(Len(s), f)
    <2>1. Len(s) \notin None
      BY <1>1
    <2>. HIDE DEF Sum
    <2>. QED BY <1>2, <2>1
  <1>4. Flat(s) = CHOOSE f : Sum(Len(s), f)
    BY Zenon DEF Flat
  <1>5. Sum(Len(s), flat)
    <2>. HIDE DEF Sum
    <2>. QED BY <1>3, <1>4
  <1>6. Len(s) # 0 => FlattenSeq(s) = Flat(s)[Len(s)]
    BY Zenon DEF FlattenSeq, Flat
  <1>. QED BY <1>5, <1>6

LEMMA FlatType ==
    ASSUME NEW S, NEW s \in Seq(Seq(S)), NEW k \in 1 .. Len(s)
    PROVE  Flat(s)[k] \in Seq(S)
  <1>. DEFINE flat == Flat(s)
              Bad == {j \in 1 .. Len(s) : flat[j] \notin Seq(S)}
  <1>1. \A j \in 1 .. Len(s) : flat[j] = IF j = 1 THEN s[j] ELSE flat[j - 1] \o s[j]
    BY FlatIs
  <1>. HIDE DEF flat
  <1>2. SUFFICES ASSUME Bad # {} PROVE FALSE
    BY DEF flat
  <1>3. PICK m \in Bad : \A j \in Bad : m <= j
    <2>1. Bad \subseteq Nat
      OBVIOUS
    <2>. HIDE DEF Bad
    <2>. QED BY <1>2, <2>1, LeastNatural
  <1>4. m \in 1 .. Len(s) /\ s[m] \in Seq(S) /\ flat[m] \notin Seq(S)
    BY <1>3
  <1>5. m # 1
    BY <1>1, <1>4
  <1>6. m - 1 \in 1 .. Len(s) /\ ~(m <= m - 1)
    BY <1>4, <1>5
  <1>7. flat[m - 1] \in Seq(S)
    BY <1>3, <1>6
  <1>8. flat[m] = flat[m - 1] \o s[m]
    BY <1>1, <1>4, <1>5
  <1>9. flat[m - 1] \o s[m] \in Seq(S)
    BY <1>4, <1>7, ConcatProperties
  <1>. QED BY <1>4, <1>8, <1>9

-----------------------------------------------------------------------------
(* myprintenv.                                                             *)

\* An entry that is found but is not confusing is one of the key's own.
LEMMA FoundIsNamed ==
    ASSUME NEW e \in Seq(Char), NEW key \in Seq(Char), ~Confusing(e, key)
    PROVE  /\ Found(e, key) <=> name(e) = key /\ Len(key) < Len(e)
           /\ Found(e, key) => Min(Occurs(e, key)) = 0
  <1>1. /\ strcspn(e, {Eq}) \in 0 .. Len(e)
        /\ strcspn(e, {Eq}) = Len(e) \/ e[strcspn(e, {Eq}) + 1] \in {Eq}
    BY StrcspnFacts
  <1>2. Len(name(e)) = strcspn(e, {Eq})
    BY <1>1, FirstFacts DEF name
  <1>3. ASSUME name(e) = key PROVE 0 \in Occurs(e, key)
    <2>1. SubSeq(e, 0 + 1, 0 + Len(key)) = key
      <3>1. SubSeq(e, 1, strcspn(e, {Eq})) = key /\ strcspn(e, {Eq}) = Len(key)
        BY <1>2, <1>3 DEF name, First
      <3>2. 0 + 1 = 1 /\ 0 + Len(key) = Len(key)
        OBVIOUS
      <3>. QED BY <3>1, <3>2
    <2>2. 0 \in 0 .. (Len(e) - Len(key))
      BY <1>1, <1>2, <1>3
    <2>. QED BY <2>1, <2>2 DEF Occurs
  <1>4. ASSUME name(e) = key PROVE Min(Occurs(e, key)) = 0
    <2>1. Occurs(e, key) \subseteq Nat
      BY DEF Occurs
    <2>2. \A k \in Occurs(e, key) : 0 <= k
      BY <2>1
    <2>. QED BY <1>3, <1>4, <2>1, <2>2, MinIs
  <1>5. ASSUME name(e) = key, Len(key) < Len(e) PROVE Found(e, key)
    <2>1. e[Len(key) + 1] = Eq
      BY <1>1, <1>2, <1>5
    <2>. QED BY <1>3, <1>5, <2>1 DEF Found
  <1>6. ASSUME Found(e, key) PROVE name(e) = key /\ Len(key) < Len(e)
    BY <1>6 DEF Confusing, Found
  <1>. QED BY <1>4, <1>5, <1>6

LEMMA GetEnvRight ==
    ASSUME NEW envp \in Seq(Seq(Char)), NEW key \in Seq(Char),
           \A e \in Range(envp) : ~Confusing(e, key),
           NEW v \in get_env_value(envp, key)
    PROVE  v = Value(envp, key)
  <1>. DEFINE found == {i \in DOMAIN envp : Found(envp[i], key)}
              of == {i \in DOMAIN envp : name(envp[i]) = key /\ Len(key) < Len(envp[i])}
              e == envp[Min(found)]
  <1>1. \A i \in DOMAIN envp : envp[i] \in Seq(Char) /\ ~Confusing(envp[i], key)
    BY DEF Range
  <1>2. found = of
    BY <1>1, FoundIsNamed
  <1>3. CASE found = {}
    <2>1. v = NULL
      BY <1>3 DEF get_env_value
    <2>2. Value(envp, key) = NULL
      BY <1>2, <1>3 DEF Value
    <2>. QED BY <2>1, <2>2
  <1>4. CASE found # {}
    <2>1. Min(found) \in found
      <3>1. found \subseteq Nat
        OBVIOUS
      <3>. HIDE DEF found
      <3>. QED BY <1>4, <3>1, MinFacts
    <2>2. e \in Seq(Char) /\ ~Confusing(e, key) /\ Found(e, key)
      BY <1>1, <2>1
    <2>3. Min(Occurs(e, key)) = 0 /\ Len(key) < Len(e)
      BY <2>2, FoundIsNamed
    <2>4. 0 + Len(key) + 1 <= Len(e) /\ 0 + Len(key) + 1 = Len(key) + 1
      BY <2>2, <2>3
    <2>. HIDE DEF e
    <2>5. get_env_value(envp, key) = {From(e, Len(key) + 1)}
      BY <1>4, <2>3, <2>4 DEF get_env_value, e
    <2>6. Value(envp, key) = From(e, Len(key) + 1)
      BY <1>2, <1>4 DEF Value, e
    <2>. QED BY <2>5, <2>6
  <1>. QED BY <1>3, <1>4

EnvInv ==
    pc = "printenv" =>
        /\ arg.envp \in Seq(Seq(Char)) /\ arg.argv \in Seq(Seq(Char))
        /\ \E S : out \in Seq(S)
        /\ Len(out) = loc.i - 1 /\ loc.i \in 1 .. (Len(arg.argv) + 1)
        /\ \A k \in DOMAIN out : out[k] \in get_env_value(arg.envp, arg.argv[k])

LEMMA EnvInit == Init => EnvInv
  <1>. SUFFICES ASSUME Init, pc = "printenv" PROVE EnvInv
    BY DEF EnvInv
  <1>1. PrintenvMain
    BY DEF Init, StringMain, WordMain, ArrayMain, TokenizeMain, FixedTest, WhichMain, StrtokMain,
           PigMain, SatMain, Utf8Main, AutomataMain, TriangleMain, MidMain, ParityMain, RoundMain,
           ZeroByteMain, AtoiMain, MemmoveMain, IsortMain, MylsMain, Starts
  <1>2. PICK envp \in Envs, names \in Keys :
            arg = [envp |-> envp, argv |-> names] /\ loc = [i |-> 1] /\ out = <<>>
    BY <1>1 DEF PrintenvMain, Starts
  <1>3. envp \in Seq(Seq(Char)) /\ names \in Seq(Seq(Char))
    BY StringsAssumption
  <1>. QED BY <1>2, <1>3 DEF EnvInv

LEMMA EnvNext == EnvInv /\ [Next]_vars => EnvInv'
  <1>. SUFFICES ASSUME EnvInv, [Next]_vars, pc' = "printenv" PROVE EnvInv'
    BY DEF EnvInv
  <1>1. arg' = arg
    BY ArgKept
  <1>2. CASE UNCHANGED vars
    BY <1>2 DEF EnvInv, vars
  <1>3. CASE ~UNCHANGED vars
    <2>1. pc = "printenv" /\ PrintenvNext
      <3>1. pc = "printenv"
        BY <1>3, StringSteps, WordSteps, ArraySteps DEF Next, Exit
      <3>2. PrintenvAll \/ PrintenvNext
        BY <1>3, <3>1, StringSteps, WordSteps, ArraySteps DEF Next, Exit
      <3>. QED BY <3>1, <3>2 DEF PrintenvAll
    <2>2. PICK value \in get_env_value(arg.envp, arg.argv[loc.i]) :
              loc.i <= Len(arg.argv) /\ out' = Append(out, value) /\ loc' = [i |-> loc.i + 1]
      <3>1. loc.i \in Nat /\ Len(arg.argv) \in Nat
        BY <2>1 DEF EnvInv
      <3>2. ~(loc.i > Len(arg.argv))
        BY <2>1 DEF PrintenvNext
      <3>. QED BY <2>1, <3>1, <3>2 DEF PrintenvNext
    <2>3. PICK S : out \in Seq(S)
      BY <2>1 DEF EnvInv
    <2>4. /\ out' \in Seq(S \cup {value}) /\ Len(out') = Len(out) + 1
          /\ \A k \in 1 .. Len(out) : out'[k] = out[k]
          /\ out'[Len(out) + 1] = value
      <3>1. out \in Seq(S \cup {value})
        BY <2>3
      <3>. QED BY <2>2, <3>1, AppendProperties
    <2>5. loc'.i = loc.i + 1 /\ loc.i \in 1 .. Len(arg.argv) /\ Len(out) + 1 = loc.i
      BY <2>1, <2>2, <2>3 DEF EnvInv
    <2>6. ASSUME NEW k \in DOMAIN out' PROVE out'[k] \in get_env_value(arg.envp, arg.argv[k])
      <3>1. k \in 1 .. Len(out) \/ k = Len(out) + 1
        BY <2>3, <2>4
      <3>2. DOMAIN out = 1 .. Len(out)
        BY <2>3
      <3>. QED BY <2>1, <2>2, <2>4, <2>5, <3>1, <3>2 DEF EnvInv
    <2>7. Len(out') = loc'.i - 1 /\ loc'.i \in 1 .. (Len(arg.argv) + 1)
      BY <2>1, <2>4, <2>5, SMTT(60) DEF EnvInv
    <2>. QED BY <1>1, <2>1, <2>4, <2>6, <2>7 DEF EnvInv
  <1>. QED BY <1>2, <1>3

LEMMA EnvHolds == EnvInv => EnvValueUnlessConfused
  <1>. SUFFICES ASSUME EnvInv, pc = "printenv", NEW k \in DOMAIN out,
                       \A e \in Range(arg.envp) : ~Confusing(e, arg.argv[k])
                PROVE  out[k] = Value(arg.envp, arg.argv[k])
    BY DEF EnvValueUnlessConfused
  <1>1. arg.envp \in Seq(Seq(Char)) /\ out[k] \in get_env_value(arg.envp, arg.argv[k])
    BY DEF EnvInv
  <1>2. arg.argv[k] \in Seq(Char)
    <2>1. PICK S : out \in Seq(S)
      BY DEF EnvInv
    <2>2. k \in 1 .. Len(arg.argv) /\ arg.argv \in Seq(Seq(Char))
      BY <2>1 DEF EnvInv
    <2>. QED BY <2>2
  <1>. QED BY <1>1, <1>2, GetEnvRight

\* myprintenv prints the value of every name for which the environment has no
\* confusing entry (get_env_value), for every environment and list of names.
THEOREM EnvironmentRead == Spec => []EnvValueUnlessConfused
  BY EnvInit, EnvNext, EnvHolds, PTL DEF Spec

-----------------------------------------------------------------------------
(* mywhich.                                                                *)

\* A value that get_env_value returns is a string.
LEMMA ValueType ==
    ASSUME NEW envp \in Seq(Seq(Char)), NEW key \in Seq(Char), NEW v \in get_env_value(envp, key)
    PROVE  v \in Seq(Char) \cup {NULL}
  <1>. DEFINE found == {i \in DOMAIN envp : Found(envp[i], key)}
              e     == envp[Min(found)]
              at    == Min(Occurs(e, key)) + Len(key) + 1
  <1>1. CASE found = {}
    BY <1>1 DEF get_env_value
  <1>2. CASE found # {} /\ at <= Len(e)
    <2>0. v = From(e, at)
      BY <1>2 DEF get_env_value
    <2>1. Min(found) \in found
      <3>1. found \subseteq Nat
        OBVIOUS
      <3>. HIDE DEF found
      <3>. QED BY <1>2, <3>1, MinFacts
    <2>2. e \in Seq(Char) /\ Found(e, key)
      BY <2>1
    <2>. HIDE DEF e, found
    <2>3. Occurs(e, key) \subseteq Nat /\ Occurs(e, key) # {}
      BY <2>2, SMTT(60) DEF Found, Occurs
    <2>4. Min(Occurs(e, key)) \in Nat
      BY <2>3, MinFacts
    <2>5. at \in 0 .. Len(e)
      BY <1>2, <2>2, <2>4
    <2>. HIDE DEF at
    <2>6. From(e, at) \in Seq(Char)
      BY <2>2, <2>5, FromFacts
    <2>. QED BY <2>0, <2>6
  <1>3. CASE found # {} /\ ~(at <= Len(e))
    <2>1. v \in {<<>>, <<Junk>>}
      BY <1>3 DEF get_env_value
    <2>2. <<>> \in Seq(Char) /\ <<Junk>> \in Seq(Char)
      BY StringsAssumption
    <2>. HIDE DEF found, e, at
    <2>. QED BY <2>1, <2>2
  <1>. QED BY <1>1, <1>2, <1>3

\* The directories of the search path that have the command c, and what is
\* printed for the first n commands.
Path(a)   == Tokens(a.searchpath, {Colon})
Has(a, c) == {k \in DOMAIN Path(a) : <<Path(a)[k], c>> \in Executable}
HitsTo(a, n) == {k \in 1 .. n : Has(a, a.argv[k]) # {}}
Hit(a, c) == <<Path(a)[Min(Has(a, c))], c>>
PrintedTo(a, n) == [k \in DOMAIN Ascending(HitsTo(a, n)) |-> Hit(a, a.argv[Ascending(HitsTo(a, n))[k]])]

WhichInv ==
    "searchpath" \in DOMAIN arg =>
        /\ pc \in {"crashed", "list", "which", "done"}
        /\ arg.argv \in Seq(Range(arg.argv))
        /\ pc # "crashed" => arg.searchpath \in Seq(Char)
        /\ pc \in {"list", "which"} =>
              \E p \in 0 .. Len(arg.searchpath), i \in 1 .. (Len(arg.argv) + 1) :
                  /\ loc = [i |-> i, remaining |-> From(arg.searchpath, p)]
                  /\ Between(arg.searchpath, {Colon}, p)
                  /\ pc = "list" => arg.argv = <<>> /\ out = TokensTo(arg.searchpath, {Colon}, p)
                  /\ pc = "which" =>
                        /\ arg.argv # <<>> /\ out = PrintedTo(arg, i - 1)
                        /\ \A k \in 1 .. Cardinality(BeginsTo(arg.searchpath, {Colon}, p)) :
                              k \notin Has(arg, arg.argv[i])
        /\ pc = "done" => out = IF arg.argv = <<>> THEN Path(arg) ELSE PrintedTo(arg, Len(arg.argv))

LEMMA HitsFacts ==
    ASSUME NEW a, NEW n \in Nat
    PROVE  /\ HitsTo(a, n) \subseteq Nat /\ IsFiniteSet(HitsTo(a, n)) /\ \A k \in HitsTo(a, n) : k <= n
  <1>1. HitsTo(a, n) \subseteq 1 .. n /\ IsFiniteSet(1 .. n)
    BY FS_Interval DEF HitsTo
  <1>2. IsFiniteSet(HitsTo(a, n))
    BY <1>1, FS_Subset
  <1>. QED BY <1>1, <1>2

LEMMA NoHits == \A a : PrintedTo(a, 0) = <<>>
  <1>. SUFFICES ASSUME NEW a PROVE PrintedTo(a, 0) = <<>>
    OBVIOUS
  <1>1. HitsTo(a, 0) = {}
    BY DEF HitsTo
  <1>2. PrintedTo(a, 0) = [k \in DOMAIN <<>> |-> Hit(a, a.argv[<<>>[k]])]
    BY <1>1, AscendingEmpty DEF PrintedTo
  <1>3. DOMAIN <<>> = {}
    OBVIOUS
  <1>. QED BY <1>2, <1>3

\* The next command has no directory, or one more line.
LEMMA NextHit ==
    ASSUME NEW a, NEW n \in Nat \ {0}
    PROVE  /\ Has(a, a.argv[n]) = {} => PrintedTo(a, n) = PrintedTo(a, n - 1)
           /\ Has(a, a.argv[n]) # {} => PrintedTo(a, n) = Append(PrintedTo(a, n - 1), Hit(a, a.argv[n]))
  <1>1. n - 1 \in Nat /\ \A k \in 1 .. n : k \in 1 .. (n - 1) \/ k = n
    OBVIOUS
  <1>2. ASSUME Has(a, a.argv[n]) = {} PROVE PrintedTo(a, n) = PrintedTo(a, n - 1)
    <2>1. HitsTo(a, n) = HitsTo(a, n - 1)
      BY <1>1, <1>2 DEF HitsTo
    <2>. QED BY <2>1 DEF PrintedTo
  <1>3. ASSUME Has(a, a.argv[n]) # {} PROVE PrintedTo(a, n) = Append(PrintedTo(a, n - 1), Hit(a, a.argv[n]))
    <2>. DEFINE T == HitsTo(a, n - 1)
                q == Ascending(T)
                c == Cardinality(T)
                x == Hit(a, a.argv[n])
                P == PrintedTo(a, n - 1)
    <2>1. HitsTo(a, n) = T \cup {n}
      BY <1>1, <1>3 DEF HitsTo
    <2>2. T \subseteq Nat /\ IsFiniteSet(T) /\ \A l \in T : l < n
      <3>1. T \subseteq Nat /\ IsFiniteSet(T) /\ \A k \in T : k <= n - 1
        BY <1>1, HitsFacts
      <3>2. \A l \in T : l \in Nat
        BY <3>1
      <3>. HIDE DEF T
      <3>. QED BY <1>1, <3>1, <3>2
    <2>. HIDE DEF T
    <2>3. /\ Ascending(T \cup {n}) = Append(q, n) /\ Cardinality(T \cup {n}) = c + 1
          /\ IsFiniteSet(T \cup {n})
      BY <2>2, AscendingAppend
    <2>4. q \in Seq(T) /\ Len(q) = c /\ DOMAIN q = 1 .. c /\ c \in Nat
      BY <2>2, AscendingFacts, FS_CardinalityType
    <2>. HIDE DEF q, c
    <2>5. P = [k \in 1 .. c |-> Hit(a, a.argv[q[k]])]
      BY <2>4 DEF PrintedTo, T, q
    <2>6. DOMAIN Append(q, n) = 1 .. (c + 1) /\ \A k \in 1 .. (c + 1) : Append(q, n)[k] = IF k = c + 1 THEN n ELSE q[k]
      <3>1. q \in Seq(T \cup {n}) /\ n \in T \cup {n}
        BY <2>4
      <3>. QED BY <2>4, <3>1
    <2>7. PrintedTo(a, n) = [k \in 1 .. (c + 1) |-> Hit(a, a.argv[Append(q, n)[k]])]
      BY <2>1, <2>3, <2>6 DEF PrintedTo
    <2>. DEFINE V == {P[k] : k \in 1 .. c} \cup {x}
                W == PrintedTo(a, n)
    <2>. HIDE DEF x
    <2>8. P \in Seq(V) /\ Len(P) = c
      BY <2>4, <2>5
    <2>. HIDE DEF P
    <2>9. /\ Append(P, x) \in Seq(V) /\ Len(Append(P, x)) = c + 1
          /\ \A k \in 1 .. c : Append(P, x)[k] = P[k]
          /\ Append(P, x)[c + 1] = x
      BY <2>8, AppendProperties
    <2>10. \A k \in 1 .. (c + 1) : W[k] = Append(P, x)[k]
      <3>. SUFFICES ASSUME NEW k \in 1 .. (c + 1) PROVE W[k] = Append(P, x)[k]
        OBVIOUS
      <3>1. CASE k = c + 1
        BY <2>4, <2>6, <2>7, <2>9, <3>1 DEF x
      <3>2. CASE k # c + 1
        <4>1. k \in 1 .. c
          BY <2>4, <3>2
        <4>. QED BY <2>5, <2>6, <2>7, <2>9, <3>2, <4>1
      <3>. QED BY <3>1, <3>2
    <2>11. W \in Seq(V) /\ Len(W) = c + 1
      <3>1. \A k \in 1 .. (c + 1) : W[k] \in V
        <4>1. \A k \in 1 .. (c + 1) : Append(P, x)[k] \in V
          BY <2>4, <2>9
        <4>. QED BY <2>10, <4>1
      <3>2. W = [k \in 1 .. (c + 1) |-> W[k]]
        BY <2>7
      <3>. HIDE DEF W, V
      <3>. QED BY <2>4, <3>1, <3>2
    <2>. HIDE DEF W, V
    <2>12. W = Append(P, x)
      BY <2>9, <2>10, <2>11, SeqEqual
    <2>. QED BY <2>12 DEF W, P, x
  <1>. QED BY <1>2, <1>3

LEMMA WhichInit == Init => WhichInv
  <1>. SUFFICES ASSUME WhichMain PROVE WhichInv
    BY Mains DEF WhichInv
  <1>1. PICK envp \in Envs, names \in Names :
            \E mine \in get_env_value(envp, MYPATH) : \E theirs \in get_env_value(envp, PATH) :
               LET path == IF mine # NULL THEN mine ELSE theirs
               IN  /\ pc = IF path = NULL THEN "crashed" ELSE IF names = <<>> THEN "list" ELSE "which"
                   /\ arg = [envp |-> envp, argv |-> names, searchpath |-> path]
                   /\ loc = [i |-> 1, remaining |-> path] /\ out = <<>>
    BY DEF WhichMain, Starts
  <1>2. PICK mine \in get_env_value(envp, MYPATH), theirs \in get_env_value(envp, PATH) :
            LET path == IF mine # NULL THEN mine ELSE theirs
            IN  /\ pc = IF path = NULL THEN "crashed" ELSE IF names = <<>> THEN "list" ELSE "which"
                /\ arg = [envp |-> envp, argv |-> names, searchpath |-> path]
                /\ loc = [i |-> 1, remaining |-> path] /\ out = <<>>
    BY <1>1
  <1>. DEFINE path == IF mine # NULL THEN mine ELSE theirs
  <1>3. path \in Seq(Char) \cup {NULL}
    <2>1. envp \in Seq(Seq(Char)) /\ MYPATH \in Seq(Char) /\ PATH \in Seq(Char)
      BY StringsAssumption
    <2>. QED BY <2>1, ValueType
  <1>. HIDE DEF path
  <1>4. /\ pc = IF path = NULL THEN "crashed" ELSE IF names = <<>> THEN "list" ELSE "which"
        /\ arg = [envp |-> envp, argv |-> names, searchpath |-> path]
        /\ loc = [i |-> 1, remaining |-> path] /\ out = <<>>
    BY <1>2 DEF path
  <1>5. names \in Seq(Range(names)) /\ Len(names) \in Nat
    BY StringsAssumption
  <1>6. CASE path = NULL
    BY <1>4, <1>5, <1>6 DEF WhichInv
  <1>7. CASE path # NULL
    <2>1. path \in Seq(Char)
      BY <1>3, <1>7
    <2>2. From(path, 0) = path
      BY <2>1, FromZero
    <2>3. /\ TokensTo(path, {Colon}, 0) = <<>> /\ Between(path, {Colon}, 0)
          /\ 1 .. Cardinality(BeginsTo(path, {Colon}, 0)) = {}
      BY <2>1, NoTokensYet
    <2>4. 0 \in 0 .. Len(path) /\ 1 \in 1 .. (Len(names) + 1) /\ 1 - 1 = 0
      BY <1>5, <2>1
    <2>5. /\ arg.searchpath = path /\ arg.argv = names /\ loc = [i |-> 1, remaining |-> From(path, 0)]
          /\ pc \in {"list", "which"} /\ (pc = "list" => names = <<>>) /\ (pc = "which" => names # <<>>)
      BY <1>4, <1>7, <2>2
    <2>. QED BY <1>4, <1>5, <2>1, <2>3, <2>4, <2>5, NoHits DEF WhichInv
  <1>. QED BY <1>6, <1>7

LEMMA WhichNext == WhichInv /\ [Next]_vars => WhichInv'
  <1>. SUFFICES ASSUME WhichInv, [Next]_vars, "searchpath" \in DOMAIN arg PROVE WhichInv'
    BY ArgKept DEF WhichInv
  <1>. DEFINE s == arg.searchpath
              d == {Colon}
  <1>1. arg' = arg /\ (\/ UNCHANGED vars
                       \/ pc = "list" /\ WhichList
                       \/ pc = "which" /\ (Which \/ WhichEnd))
    <2>1. pc \in {"crashed", "list", "which", "done"}
      BY DEF WhichInv
    <2>. QED BY <2>1, ArgKept, StringSteps, WordSteps, ArraySteps DEF Next, Exit, vars, Ended
  <1>2. CASE UNCHANGED vars
    BY <1>1, <1>2 DEF WhichInv, vars
  <1>3. CASE pc \in {"list", "which"} /\ ~UNCHANGED vars
    <2>1. s \in Seq(Char) /\ arg.argv \in Seq(Range(arg.argv)) /\ Len(arg.argv) \in Nat /\ NUL \notin Char
      BY <1>3, StringsAssumption DEF WhichInv
    <2>2. PICK p \in 0 .. Len(s), i \in 1 .. (Len(arg.argv) + 1) :
              /\ loc = [i |-> i, remaining |-> From(s, p)] /\ Between(s, d, p)
              /\ pc = "list" => arg.argv = <<>> /\ out = TokensTo(s, d, p)
              /\ pc = "which" => /\ arg.argv # <<>> /\ out = PrintedTo(arg, i - 1)
                                 /\ \A k \in 1 .. Cardinality(BeginsTo(s, d, p)) : k \notin Has(arg, arg.argv[i])
      BY <1>3 DEF WhichInv
    <2>3. /\ loc.i = i /\ loc.remaining = From(s, p) /\ i \in Nat /\ Len(s) \in Nat
      BY <2>1, <2>2
    <2>. DEFINE r == Directory
                c == Cardinality(BeginsTo(s, d, p))
    <2>4. \/ ~r.ok /\ NothingLeft(s, d, p)
          \/ /\ r.ok /\ Str(r.buf) \in Seq(Char)
             /\ \E e \in 0 .. Len(s) :
                   /\ r.rest = From(s, e) /\ Between(s, d, e)
                   /\ TokensTo(s, d, e) = Append(TokensTo(s, d, p), Str(r.buf))
                   /\ Cardinality(BeginsTo(s, d, e)) = c + 1
                   /\ Tokens(s, d)[c + 1] = Str(r.buf)
      <3>1. r = scan_token(From(s, p), d, Buffer(Len(s) + 1), Len(s) + 1)
        BY <2>3 DEF Directory
      <3>2. /\ s \in Seq(Char) /\ p \in 0 .. Len(s) /\ Between(s, d, p) /\ NUL \notin Char
            /\ c = Cardinality(BeginsTo(s, d, p))
        BY <2>1, <2>2
      <3>. HIDE DEF r, s, d, c
      <3>. QED BY <3>1, <3>2, WholeToken
    <2>5. /\ DOMAIN Path(arg) = 1 .. Cardinality(Begins(s, d)) /\ Cardinality(Begins(s, d)) \in Nat
          /\ c \in Nat
      BY <2>1, <2>2, TokensFirst DEF Path
    <2>6. ASSUME NothingLeft(s, d, p)
          PROVE  TokensTo(s, d, p) = Path(arg) /\ DOMAIN Path(arg) = 1 .. c
      BY <2>1, <2>2, <2>5, <2>6, NoToken DEF Path
    <2>. HIDE DEF r, c
    <2>7. CASE pc = "list"
      <3>1. /\ loc' = [loc EXCEPT !.remaining = r.rest]
            /\ IF r.ok THEN out' = Append(out, Str(r.buf)) /\ pc' = pc
                       ELSE pc' = "done" /\ out' = out
        BY <1>1, <1>3, <2>7 DEF WhichList, r
      <3>2. CASE ~r.ok
        <4>1. pc' = "done" /\ out' = Path(arg) /\ arg.argv = <<>>
          BY <2>2, <2>4, <2>6, <2>7, <3>1, <3>2
        <4>. QED BY <1>1, <2>1, <4>1 DEF WhichInv, Path
      <3>3. CASE r.ok
        <4>1. PICK e \in 0 .. Len(s) :
                   /\ r.rest = From(s, e) /\ Between(s, d, e)
                   /\ TokensTo(s, d, e) = Append(TokensTo(s, d, p), Str(r.buf))
          BY <2>4, <3>3
        <4>2. loc' = [i |-> i, remaining |-> From(s, e)] /\ pc' = "list" /\ out' = TokensTo(s, d, e)
          BY <2>2, <2>7, <3>1, <3>3, <4>1
        <4>. QED BY <1>1, <2>1, <2>2, <2>7, <4>1, <4>2 DEF WhichInv
      <3>. QED BY <3>2, <3>3
    <2>8. CASE pc = "which" /\ WhichEnd
      <3>1. i > Len(arg.argv) /\ pc' = "done" /\ out' = PrintedTo(arg, i - 1)
        BY <2>2, <2>3, <2>8 DEF WhichEnd
      <3>2. i - 1 = Len(arg.argv)
        BY <2>1, <2>3, <3>1
      <3>. QED BY <1>1, <2>1, <2>2, <2>8, <3>1, <3>2 DEF WhichInv
    <2>9. CASE pc = "which" /\ Which
      <3>. DEFINE v == arg.argv[i]
                  path == <<Str(r.buf), v>>
      <3>1. /\ i <= Len(arg.argv) /\ pc' = "which"
            /\ IF r.ok /\ path \notin Executable
               THEN loc' = [loc EXCEPT !.remaining = r.rest] /\ out' = out
               ELSE loc' = [i |-> i + 1, remaining |-> s] /\ out' = IF r.ok THEN Append(out, path) ELSE out
        BY <2>3, <2>9 DEF Which, NextName, r
      <3>2. i \in 1 .. Len(arg.argv) /\ i \in Nat \ {0} /\ (i + 1) - 1 = i /\ i + 1 \in 1 .. (Len(arg.argv) + 1)
        BY <2>1, <2>3, <3>1
      <3>3. /\ out = PrintedTo(arg, i - 1) /\ arg.argv # <<>>
            /\ \A k \in 1 .. c : k \notin Has(arg, v)
        BY <2>2, <2>9 DEF c
      <3>4. /\ From(s, 0) = s /\ Between(s, d, 0) /\ 0 \in 0 .. Len(s)
            /\ 1 .. Cardinality(BeginsTo(s, d, 0)) = {}
        <4>1. From(s, 0) = s
          <5>. HIDE DEF s
          <5>. QED BY <2>1, FromZero
        <4>. QED BY <2>1, <2>3, <4>1, NoTokensYet
      <3>5. CASE ~(r.ok /\ path \notin Executable)
        <4>1. loc' = [i |-> i + 1, remaining |-> From(s, 0)]
          BY <3>1, <3>4, <3>5
        <4>2. out' = PrintedTo(arg, i)
          <5>1. CASE ~r.ok
            <6>1. Has(arg, v) = {}
              <7>1. Has(arg, v) \subseteq 1 .. c
                BY <2>4, <2>6, <5>1 DEF Has
              <7>. QED BY <3>3, <7>1
            <6>2. out' = out
              BY <3>1, <5>1
            <6>. QED BY <3>2, <3>3, <6>1, <6>2, NextHit
          <5>2. CASE r.ok
            <6>1. path \in Executable /\ out' = Append(out, path)
              BY <3>1, <3>5, <5>2
            <6>2. PICK e \in 0 .. Len(s) :
                       /\ Cardinality(BeginsTo(s, d, e)) = c + 1 /\ Path(arg)[c + 1] = Str(r.buf)
              BY <2>4, <5>2 DEF Path
            <6>3. c + 1 \in DOMAIN Path(arg)
              <7>1. Cardinality(BeginsTo(s, d, e)) \in 0 .. Cardinality(Begins(s, d))
                BY <2>1, TokensFirst
              <7>. QED BY <2>5, <6>2, <7>1
            <6>4. c + 1 \in Has(arg, v)
              BY <6>1, <6>2, <6>3 DEF Has
            <6>5. Min(Has(arg, v)) = c + 1
              <7>1. Has(arg, v) \subseteq Nat
                BY <2>5 DEF Has
              <7>2. \A k \in Has(arg, v) : c + 1 <= k
                <8>1. \A k \in Has(arg, v) : k \in 1 .. Cardinality(Begins(s, d)) /\ k \notin 1 .. c
                  BY <2>5, <3>3 DEF Has
                <8>. QED BY <2>5, <8>1
              <7>. QED BY <6>4, <7>1, <7>2, MinIs
            <6>6. Hit(arg, v) = path
              BY <6>2, <6>5 DEF Hit
            <6>. QED BY <3>2, <3>3, <6>1, <6>4, <6>6, NextHit
          <5>. QED BY <5>1, <5>2
        <4>. QED BY <1>1, <2>1, <3>1, <3>2, <3>3, <3>4, <4>1, <4>2 DEF WhichInv
      <3>6. CASE r.ok /\ path \notin Executable
        <4>1. PICK e \in 0 .. Len(s) :
                   /\ r.rest = From(s, e) /\ Between(s, d, e)
                   /\ Cardinality(BeginsTo(s, d, e)) = c + 1 /\ Path(arg)[c + 1] = Str(r.buf)
          BY <2>4, <3>6 DEF Path
        <4>2. loc' = [i |-> i, remaining |-> From(s, e)] /\ out' = out
          BY <2>2, <3>1, <3>6, <4>1
        <4>3. \A k \in 1 .. (c + 1) : k \notin Has(arg, v)
          <5>1. c + 1 \notin Has(arg, v)
            BY <3>6, <4>1 DEF Has
          <5>2. \A k \in 1 .. (c + 1) : k \in 1 .. c \/ k = c + 1
            BY <2>5
          <5>. QED BY <3>3, <5>1, <5>2
        <4>4. \A k \in 1 .. Cardinality(BeginsTo(s, d, e)) : k \notin Has(arg, v)
          BY <4>1, <4>3
        <4>. QED BY <1>1, <2>1, <2>2, <3>1, <3>3, <4>1, <4>2, <4>4 DEF WhichInv
      <3>. QED BY <3>5, <3>6
    <2>. QED BY <1>1, <1>3, <2>7, <2>8, <2>9
  <1>. QED BY <1>1, <1>2, <1>3

LEMMA WhichHolds == WhichInv => FirstInPath
  <1>. SUFFICES ASSUME WhichInv, pc = "done", "searchpath" \in DOMAIN arg PROVE FirstInPath
    BY DEF FirstInPath
  <1>. DEFINE n == Len(arg.argv)
              T == {k \in DOMAIN arg.argv : Has(arg, arg.argv[k]) # {}}
              hit == Kept(arg.argv, T)
  <1>1. T = HitsTo(arg, n)
    BY DEF WhichInv, HitsTo
  <1>2. /\ DOMAIN hit = DOMAIN Ascending(HitsTo(arg, n))
        /\ \A k \in DOMAIN hit : hit[k] = arg.argv[Ascending(HitsTo(arg, n))[k]]
    BY <1>1 DEF Kept
  <1>3. [k \in DOMAIN hit |-> <<Path(arg)[Min(Has(arg, hit[k]))], hit[k]>>] = PrintedTo(arg, n)
    BY <1>2 DEF PrintedTo, Hit
  <1>4. out = IF arg.argv = <<>> THEN Path(arg) ELSE PrintedTo(arg, n)
    BY DEF WhichInv
  <1>5. out = IF arg.argv = <<>> THEN Path(arg)
              ELSE [k \in DOMAIN hit |-> <<Path(arg)[Min(Has(arg, hit[k]))], hit[k]>>]
    BY <1>3, <1>4
  <1>. QED BY <1>5, Zenon DEF FirstInPath, Has, Path

\* mywhich prints, for every command in turn, the first directory of its search
\* path that has it and for no other command anything (scan_token over the path,
\* which is started again for each), for every environment and list of commands.
THEOREM FirstHitPrinted == Spec => []FirstInPath
  BY WhichInit, WhichNext, WhichHolds, PTL DEF Spec

-----------------------------------------------------------------------------
(* automata.                                                               *)

Cell == 0 .. (CELLS - 1)
Pattern(gen, k) == 4 * on(gen, k + 1) + 2 * on(gen, k) + on(gen, k - 1)

LEMMA OnType == \A gen, k : on(gen, k) \in {0, 1}
  BY DEF on

\* The cells beyond the two ends are dead.
LEMMA AdvanceIs ==
    ASSUME NEW gen \in SUBSET Cell, NEW rule
    PROVE  advance(gen, rule) = {k \in Cell : Pattern(gen, k) \in rule}
  <1>1. CELLS \in Nat /\ CELLS > 2
    BY WordsAssumption
  <1>2. ASSUME NEW k \in Cell
        PROVE  Pattern(gen, k) = IF k = CELLS - 1 THEN load_index_63(k, gen)
                                 ELSE IF k = 0 THEN load_index_0(k, gen)
                                 ELSE load_index(k, gen)
    <2>1. on(gen, k + 1) \in {0, 1} /\ on(gen, k) \in {0, 1} /\ on(gen, k - 1) \in {0, 1}
      BY OnType
    <2>2. CASE k = CELLS - 1
      <3>1. on(gen, k + 1) = 0
        <4>1. k + 1 \notin Cell
          BY <1>1, <2>2 DEF Cell
        <4>. QED BY <4>1 DEF on
      <3>2. Pattern(gen, k) = 4 * 0 + 2 * on(gen, k) + on(gen, k - 1)
        BY <3>1 DEF Pattern
      <3>. QED BY <2>1, <2>2, <3>2 DEF load_index_63
    <2>3. CASE k = 0
      <3>1. on(gen, k - 1) = 0
        <4>1. k - 1 \notin Cell
          BY <1>1, <2>3 DEF Cell
        <4>. QED BY <4>1 DEF on
      <3>2. Pattern(gen, k) = 4 * on(gen, k + 1) + 2 * on(gen, k) + 0
        BY <3>1 DEF Pattern
      <3>. QED BY <1>1, <2>1, <2>3, <3>2 DEF load_index_0
    <2>4. CASE k # CELLS - 1 /\ k # 0
      BY <2>4 DEF Pattern, load_index
    <2>. QED BY <2>2, <2>3, <2>4
  <1>3. advance(gen, rule) = {k \in Cell : (IF k = CELLS - 1 THEN load_index_63(k, gen)
                                            ELSE IF k = 0 THEN load_index_0(k, gen)
                                            ELSE load_index(k, gen)) \in rule}
    BY <1>1 DEF advance, Cell
  <1>. QED BY <1>2, <1>3

\* The bits of a pattern in the opposite order.
Reversed(k) == 4 * (k % 2) + 2 * ((k \div 2) % 2) + (k \div 4)

LEMMA ReversedFacts ==
    ASSUME NEW a \in {0, 1}, NEW b \in {0, 1}, NEW c \in {0, 1}
    PROVE  /\ 4 * a + 2 * b + c \in 0 .. 7
           /\ Reversed(4 * a + 2 * b + c) = 4 * c + 2 * b + a
  BY DEF Reversed

LEMMA ReversedTwice ==
    ASSUME NEW k \in 0 .. 7
    PROVE  Reversed(k) \in 0 .. 7 /\ Reversed(Reversed(k)) = k
  <1>1. k \in {0, 1, 2, 3, 4, 5, 6, 7}
    OBVIOUS
  <1>2. /\ Reversed(0) = 0 /\ Reversed(1) = 4 /\ Reversed(2) = 2 /\ Reversed(3) = 6
        /\ Reversed(4) = 1 /\ Reversed(5) = 5 /\ Reversed(6) = 3 /\ Reversed(7) = 7
    BY DEF Reversed
  <1>. QED BY <1>1, <1>2

\* The mirrored rule draws the mirrored lines.
LEMMA MirrorAdvance ==
    ASSUME NEW gen \in SUBSET Cell, NEW rule \in SUBSET (0 .. 7)
    PROVE  /\ mirror(gen) \in SUBSET Cell
           /\ advance(mirror(gen), mirrored(rule)) = mirror(advance(gen, rule))
  <1>1. CELLS \in Nat /\ CELLS > 2
    BY WordsAssumption
  <1>2. mirror(gen) \in SUBSET Cell
    BY <1>1 DEF mirror, Cell
  <1>3. ASSUME NEW T \in SUBSET Cell, NEW k \in Int
        PROVE  k \in mirror(T) <=> CELLS - 1 - k \in T
    <2>1. \A x \in Cell : x \in Int
      BY <1>1 DEF Cell
    <2>2. ASSUME k \in mirror(T) PROVE CELLS - 1 - k \in T
      <3>1. PICK x \in T : k = CELLS - 1 - x
        BY <2>2 DEF mirror
      <3>2. CELLS - 1 - k = x
        BY <1>1, <2>1, <3>1
      <3>. QED BY <3>2
    <2>3. ASSUME CELLS - 1 - k \in T PROVE k \in mirror(T)
      <3>1. k = CELLS - 1 - (CELLS - 1 - k)
        BY <1>1
      <3>. QED BY <2>3, <3>1 DEF mirror
    <2>. QED BY <2>2, <2>3
  <1>4. ASSUME NEW k \in Int PROVE on(mirror(gen), k) = on(gen, CELLS - 1 - k)
    BY <1>3 DEF on
  <1>5. ASSUME NEW k \in Cell
        PROVE  /\ Pattern(mirror(gen), k) = Reversed(Pattern(gen, CELLS - 1 - k))
               /\ Pattern(gen, CELLS - 1 - k) \in 0 .. 7
    <2>. DEFINE a == on(gen, (CELLS - 1 - k) + 1)
                b == on(gen, CELLS - 1 - k)
                c == on(gen, (CELLS - 1 - k) - 1)
    <2>1. /\ k \in Int /\ k + 1 \in Int /\ k - 1 \in Int
          /\ CELLS - 1 - (k + 1) = (CELLS - 1 - k) - 1
          /\ CELLS - 1 - (k - 1) = (CELLS - 1 - k) + 1
      BY <1>1 DEF Cell
    <2>2. on(mirror(gen), k + 1) = c /\ on(mirror(gen), k) = b /\ on(mirror(gen), k - 1) = a
      BY <1>4, <2>1
    <2>3. a \in {0, 1} /\ b \in {0, 1} /\ c \in {0, 1}
      BY OnType
    <2>4. Pattern(mirror(gen), k) = 4 * c + 2 * b + a
      BY <2>2 DEF Pattern
    <2>5. Pattern(gen, CELLS - 1 - k) = 4 * a + 2 * b + c
      BY DEF Pattern
    <2>. HIDE DEF a, b, c
    <2>. QED BY <2>3, <2>4, <2>5, ReversedFacts
  <1>6. ASSUME NEW p \in 0 .. 7 PROVE Reversed(p) \in mirrored(rule) <=> p \in rule
    <2>1. mirrored(rule) = {Reversed(q) : q \in rule}
      BY DEF mirrored, Reversed
    <2>2. ASSUME NEW q \in rule, Reversed(q) = Reversed(p) PROVE q = p
      BY <2>2, ReversedTwice
    <2>. QED BY <2>1, <2>2
  <1>7. ASSUME NEW k \in Cell
        PROVE  k \in advance(mirror(gen), mirrored(rule)) <=> k \in mirror(advance(gen, rule))
    <2>1. k \in advance(mirror(gen), mirrored(rule)) <=> Pattern(gen, CELLS - 1 - k) \in rule
      BY <1>2, <1>5, <1>6, AdvanceIs
    <2>2. k \in Int /\ CELLS - 1 - k \in Cell
      BY <1>1 DEF Cell
    <2>3. advance(gen, rule) = {x \in Cell : Pattern(gen, x) \in rule}
      BY AdvanceIs
    <2>4. advance(gen, rule) \in SUBSET Cell
      BY <2>3
    <2>5. k \in mirror(advance(gen, rule)) <=> CELLS - 1 - k \in advance(gen, rule)
      BY <1>3, <2>2, <2>4
    <2>. QED BY <2>1, <2>2, <2>3, <2>5
  <1>8. advance(mirror(gen), mirrored(rule)) \subseteq Cell /\ mirror(advance(gen, rule)) \subseteq Cell
    <2>1. advance(mirror(gen), mirrored(rule)) \subseteq Cell /\ advance(gen, rule) \in SUBSET Cell
      BY <1>2, AdvanceIs
    <2>2. ASSUME NEW T \in SUBSET Cell PROVE mirror(T) \subseteq Cell
      BY <1>1 DEF mirror, Cell
    <2>. QED BY <2>1, <2>2
  <1>. QED BY <1>2, <1>7, <1>8

GenInv ==
    "rule" \in DOMAIN arg =>
        /\ pc \in {"automata", "done", "refused"}
        /\ out \in Seq(SUBSET Cell) /\ Len(out) <= N_GENERATIONS
        /\ pc = "refused" => out = <<>>
        /\ pc # "refused" => arg.rule \in SUBSET (0 .. 7)
        /\ \A k \in 1 .. (Len(out) - 1) :
              out[k + 1] = advance(out[k], arg.rule) /\ out[k + 1] # out[k]
        /\ pc = "automata" =>
              /\ loc.gen \in SUBSET Cell /\ Len(out) < N_GENERATIONS
              /\ out # <<>> => /\ loc.gen = advance(out[Len(out)], arg.rule)
                               /\ loc.gen # out[Len(out)]
        /\ pc = "done" =>
              \/ Len(out) = N_GENERATIONS
              \/ out # <<>> /\ (arg.rule = {} \/ advance(out[Len(out)], arg.rule) = out[Len(out)])

LEMMA GenInit == Init => GenInv
  <1>. SUFFICES ASSUME AutomataMain PROVE GenInv
    BY Mains DEF GenInv
  <1>1. PICK rule \in Rules, gen_0 \in Generation0 :
            /\ arg = [rule |-> rule] /\ out = <<>>
            /\ loc = [gen |-> IF gen_0 = NULL THEN DEFAULT_GEN_0 ELSE gen_0]
            /\ pc = IF rule \subseteq 0 .. 7 /\ (gen_0 # NULL => gen_0 \subseteq 0 .. (CELLS - 1))
                    THEN "automata" ELSE "refused"
    BY DEF AutomataMain, Starts
  <1>2. DEFAULT_GEN_0 \subseteq Cell /\ N_GENERATIONS \in Nat /\ N_GENERATIONS > 0
    BY WordsAssumption DEF Cell
  <1>3. pc = "automata" => arg.rule \in SUBSET (0 .. 7) /\ loc.gen \in SUBSET Cell
    BY <1>1, <1>2 DEF Cell
  <1>4. out \in Seq(SUBSET Cell) /\ Len(out) = 0 /\ 1 .. (0 - 1) = {}
    BY <1>1
  <1>. QED BY <1>1, <1>2, <1>3, <1>4 DEF GenInv

LEMMA GenNext == GenInv /\ [Next]_vars => GenInv'
  <1>. SUFFICES ASSUME GenInv, [Next]_vars, "rule" \in DOMAIN arg PROVE GenInv'
    BY ArgKept DEF GenInv
  <1>1. arg' = arg /\ (UNCHANGED vars \/ (pc = "automata" /\ Generation))
    <2>1. pc \in {"automata", "done", "refused"}
      BY DEF GenInv
    <2>. QED BY <2>1, ArgKept, StringSteps, WordSteps, ArraySteps DEF Next, Exit, vars, Ended
  <1>2. CASE UNCHANGED vars
    BY <1>1, <1>2 DEF GenInv, vars
  <1>3. CASE pc = "automata" /\ Generation
    <2>. DEFINE gen == loc.gen
                rule == arg.rule
                nx == advance(gen, rule)
                n == Len(out)
    <2>1. /\ out \in Seq(SUBSET Cell) /\ n \in Nat /\ n < N_GENERATIONS /\ gen \in SUBSET Cell
          /\ rule \in SUBSET (0 .. 7) /\ N_GENERATIONS \in Nat
          /\ \A k \in 1 .. (n - 1) : out[k + 1] = advance(out[k], rule) /\ out[k + 1] # out[k]
          /\ out # <<>> => gen = advance(out[n], rule) /\ gen # out[n]
      BY <1>3, WordsAssumption DEF GenInv
    <2>2. /\ out' = Append(out, gen)
          /\ \/ pc' = "done" /\ (rule = {} \/ nx = gen \/ Len(out') = N_GENERATIONS)
             \/ pc' = "automata" /\ loc'.gen = nx /\ nx # gen /\ Len(out') # N_GENERATIONS
      BY <1>3 DEF Generation
    <2>3. nx \in SUBSET Cell
      BY <2>1, AdvanceIs
    <2>. HIDE DEF gen, rule, nx, n
    <2>4. /\ out' \in Seq(SUBSET Cell) /\ Len(out') = n + 1
          /\ \A k \in 1 .. n : out'[k] = out[k]
          /\ out'[n + 1] = gen /\ out' # <<>>
      BY <2>1, <2>2, AppendProperties DEF n
    <2>5. ASSUME NEW k \in 1 .. (Len(out') - 1)
          PROVE  out'[k + 1] = advance(out'[k], rule) /\ out'[k + 1] # out'[k]
      <3>1. CASE k = n
        <4>1. out'[k] = out[n] /\ out'[k + 1] = gen /\ out # <<>>
          BY <2>1, <2>4, <2>5, <3>1 DEF n
        <4>. QED BY <2>1, <4>1
      <3>2. CASE k # n
        <4>1. k \in 1 .. (n - 1) /\ k \in 1 .. n /\ k + 1 \in 1 .. n
          BY <2>1, <2>4, <2>5, <3>2
        <4>. QED BY <2>1, <2>4, <4>1
      <3>. QED BY <3>1, <3>2
    <2>6. Len(out') <= N_GENERATIONS /\ (Len(out') # N_GENERATIONS => Len(out') < N_GENERATIONS)
      BY <2>1, <2>4
    <2>7. out'[Len(out')] = gen
      BY <2>4
    <2>. QED BY <1>1, <2>1, <2>2, <2>3, <2>4, <2>5, <2>6, <2>7 DEF GenInv, rule, nx
  <1>. QED BY <1>1, <1>2, <1>3

LEMMA GenHolds == GenInv => Generations
  <1>. SUFFICES ASSUME GenInv, "rule" \in DOMAIN arg PROVE Generations
    BY DEF Generations
  <1>. DEFINE rule == arg.rule
              after(gen) == {k \in 0 .. (CELLS - 1) :
                                4 * on(gen, k + 1) + 2 * on(gen, k) + on(gen, k - 1) \in rule}
  <1>1. /\ out \in Seq(SUBSET Cell) /\ Len(out) \in Nat
        /\ Len(out) > 1 => rule \in SUBSET (0 .. 7)
    BY DEF GenInv
  <1>2. ASSUME NEW gen \in SUBSET Cell PROVE after(gen) = advance(gen, rule)
    BY AdvanceIs DEF Cell, Pattern
  <1>3. ASSUME NEW k \in 1 .. (Len(out) - 1)
        PROVE  /\ out[k + 1] = after(out[k]) /\ out[k + 1] # out[k]
               /\ advance(mirror(out[k]), mirrored(rule)) = mirror(out[k + 1])
    <2>1. k \in 1 .. Len(out) /\ out[k] \in SUBSET Cell /\ rule \in SUBSET (0 .. 7)
      BY <1>1
    <2>2. out[k + 1] = advance(out[k], rule) /\ out[k + 1] # out[k]
      BY DEF GenInv
    <2>. QED BY <1>2, <2>1, <2>2, MirrorAdvance
  <1>4. Len(out) <= N_GENERATIONS
    BY DEF GenInv
  <1>5. ASSUME pc = "done", Len(out) < N_GENERATIONS
        PROVE  rule = {} \/ after(Last(out)) = Last(out)
    <2>1. out # <<>> /\ (rule = {} \/ advance(out[Len(out)], rule) = out[Len(out)])
      BY <1>1, <1>5, WordsAssumption DEF GenInv
    <2>2. out[Len(out)] \in SUBSET Cell
      BY <1>1, <2>1
    <2>. QED BY <1>2, <2>1, <2>2 DEF Last
  <1>. QED BY <1>3, <1>4, <1>5 DEF Generations

\* Every line that automata draws follows from the one before it, at the two
\* ends of the line as in its middle (advance), for lines of any width.
THEOREM LinesFollow == Spec => []Generations
  BY GenInit, GenNext, GenHolds, PTL DEF Spec

-----------------------------------------------------------------------------
(* Powers of two, as numbers of subsets.                                    *)

LEMMA PowerOfTwo ==
    ASSUME NEW S, IsFiniteSet(S)
    PROVE  IsFiniteSet(SUBSET S) /\ Cardinality(SUBSET S) = 2^Cardinality(S)
  BY FS_Subset, FS_SUBSET

LEMMA PowerZero == 2^0 = 1
  <1>1. IsFiniteSet({}) /\ Cardinality({}) = 0
    BY FS_EmptySet
  <1>2. Cardinality(SUBSET {}) = 2^0
    BY <1>1, PowerOfTwo
  <1>3. SUBSET {} = {{}}
    OBVIOUS
  <1>4. Cardinality({{}}) = 1
    BY FS_Singleton
  <1>. QED BY <1>2, <1>3, <1>4

LEMMA DisjointUnion ==
    ASSUME NEW A, NEW B, IsFiniteSet(A), IsFiniteSet(B), A \cap B = {}
    PROVE  Cardinality(A \cup B) = Cardinality(A) + Cardinality(B)
  <1>1. Cardinality(A \cap B) = 0
    BY FS_EmptySet
  <1>2. Cardinality(A) \in Nat /\ Cardinality(B) \in Nat
    BY FS_CardinalityType
  <1>3. Cardinality(A \cup B) = Cardinality(A) + Cardinality(B) - Cardinality(A \cap B)
    BY FS_Union
  <1>. QED BY <1>1, <1>2, <1>3

\* The subsets of 1 .. n + 1 are those without n + 1 and those with it.
LEMMA PowerNext ==
    ASSUME NEW n \in Nat
    PROVE  2^n \in Nat /\ 2^(n + 1) = 2^n + 2^n
  <1>. DEFINE S == 1 .. n
              T == 1 .. (n + 1)
              Without == SUBSET S
              With == {X \in SUBSET T : n + 1 \in X}
              f == [X \in SUBSET S |-> X \cup {n + 1}]
  <1>1. /\ IsFiniteSet(S) /\ Cardinality(S) = n
        /\ IsFiniteSet(T) /\ Cardinality(T) = n + 1
    BY FS_Interval
  <1>2. /\ IsFiniteSet(SUBSET S) /\ Cardinality(SUBSET S) = 2^n
        /\ IsFiniteSet(SUBSET T) /\ Cardinality(SUBSET T) = 2^(n + 1)
    BY <1>1, PowerOfTwo
  <1>3. SUBSET T = Without \cup With /\ Without \cap With = {}
    <2>1. T = S \cup {n + 1} /\ n + 1 \notin S
      OBVIOUS
    <2>. HIDE DEF S, T
    <2>. QED BY <2>1
  <1>4. f \in Bijection(SUBSET S, With)
    <2>1. T = S \cup {n + 1} /\ n + 1 \notin S
      OBVIOUS
    <2>. HIDE DEF S, T
    <2>2. f \in [SUBSET S -> With]
      BY <2>1
    <2>3. ASSUME NEW X \in SUBSET S, NEW Y \in SUBSET S, f[X] = f[Y] PROVE X = Y
      <3>1. X = f[X] \ {n + 1} /\ Y = f[Y] \ {n + 1}
        BY <2>1
      <3>. QED BY <2>3, <3>1
    <2>4. ASSUME NEW Z \in With PROVE \E X \in SUBSET S : f[X] = Z
      <3>1. Z \ {n + 1} \in SUBSET S /\ (Z \ {n + 1}) \cup {n + 1} = Z
        BY <2>1
      <3>. QED BY <3>1
    <2>. QED BY <2>2, <2>3, <2>4 DEF Bijection, Injection, Surjection, IsInjective
  <1>5. IsFiniteSet(With) /\ Cardinality(With) = 2^n
    <2>1. IsFiniteSet(With)
      BY <1>2, FS_Subset
    <2>. HIDE DEF With, S, f
    <2>. QED BY <1>2, <1>4, <2>1, FS_Bijection DEF ExistsBijection
  <1>6. Cardinality(Without \cup With) = Cardinality(Without) + Cardinality(With)
    <2>1. IsFiniteSet(Without) /\ IsFiniteSet(With) /\ Without \cap With = {}
      BY <1>2, <1>3, <1>5
    <2>. HIDE DEF With, Without
    <2>. QED BY <2>1, DisjointUnion
  <1>7. 2^n \in Nat
    BY <1>2, FS_CardinalityType
  <1>. QED BY <1>2, <1>3, <1>5, <1>6, <1>7

LEMMA Powers ==
    ASSUME NEW n \in Nat
    PROVE  2^n \in Nat \ {0} /\ 2^(n + 1) = 2^n + 2^n
  <1>. DEFINE Bad == {k \in Nat : 2^k = 0}
  <1>1. Bad = {}
    <2>1. SUFFICES ASSUME Bad # {} PROVE FALSE
      OBVIOUS
    <2>2. PICK m \in Bad : \A k \in Bad : m <= k
      BY <2>1, LeastNatural
    <2>3. m # 0
      <3>1. 2^m = 0 /\ 2^0 # 0
        BY <2>2, PowerZero
      <3>. QED BY <3>1, Zenon
    <2>4. m - 1 \in Nat /\ (m - 1) + 1 = m /\ ~(m <= m - 1)
      BY <2>2, <2>3
    <2>5. 2^(m - 1) \in Nat /\ 2^((m - 1) + 1) = 2^(m - 1) + 2^(m - 1)
      BY <2>4, PowerNext
    <2>6. 2^(m - 1) = 0
      BY <2>2, <2>4, <2>5
    <2>. QED BY <2>2, <2>4, <2>6
  <1>2. 2^n \in Nat /\ 2^(n + 1) = 2^n + 2^n
    BY PowerNext
  <1>. QED BY <1>1, <1>2

LEMMA PowersGrow ==
    ASSUME NEW m \in Nat, NEW n \in Nat, m < n
    PROVE  2^m + 2^m <= 2^n
  <1>. DEFINE Bad == {k \in Nat : m < k /\ ~(2^m + 2^m <= 2^k)}
  <1>1. SUFFICES ASSUME Bad # {} PROVE FALSE
    OBVIOUS
  <1>2. PICK k \in Bad : \A j \in Bad : k <= j
    BY <1>1, LeastNatural
  <1>3. 2^m \in Nat /\ 2^(m + 1) = 2^m + 2^m
    BY Powers
  <1>4. k # m + 1
    BY <1>2, <1>3
  <1>5. k - 1 \in Nat /\ m < k - 1 /\ (k - 1) + 1 = k /\ ~(k <= k - 1)
    BY <1>2, <1>4
  <1>6. 2^(k - 1) \in Nat /\ 2^k = 2^(k - 1) + 2^(k - 1)
    BY <1>5, Powers
  <1>7. 2^m + 2^m <= 2^(k - 1)
    BY <1>2, <1>5
  <1>. QED BY <1>2, <1>3, <1>6, <1>7

-----------------------------------------------------------------------------
(* sat.                                                                    *)

LEMMA RestIs ==
    ASSUME NEW M \in Nat \ {0}, NEW n \in 0 .. (M - 1)
    PROVE  n % M = n
  OBVIOUS

LEMMA SignIs ==
    ASSUME NEW P \in Nat \ {0}, NEW n \in Int
    PROVE  n \div P = 0 <=> n \in 0 .. (P - 1)
  OBVIOUS

LEMMA MinOfTwo ==
    ASSUME NEW a \in Int, NEW b \in Int
    PROVE  Min({a, b}) = IF a <= b THEN a ELSE b
  <1>1. CASE a <= b
    <2>1. \A x \in {a, b} : (\A y \in {a, b} : x <= y) <=> x = a
      BY <1>1
    <2>. QED BY <1>1, <2>1 DEF Min
  <1>2. CASE b < a
    <2>1. \A x \in {a, b} : (\A y \in {a, b} : x <= y) <=> x = b
      BY <1>2
    <2>. QED BY <1>2, <2>1 DEF Min
  <1>. QED BY <1>1, <1>2

LEMMA MaxOfTwo ==
    ASSUME NEW a \in Int, NEW b \in Int
    PROVE  Max({a, b}) = IF a >= b THEN a ELSE b
  <1>1. CASE a >= b
    <2>1. \A x \in {a, b} : (\A y \in {a, b} : x >= y) <=> x = a
      BY <1>1
    <2>. QED BY <1>1, <2>1 DEF Max
  <1>2. CASE b > a
    <2>1. \A x \in {a, b} : (\A y \in {a, b} : x >= y) <=> x = b
      BY <1>2
    <2>. QED BY <1>2, <2>1 DEF Max
  <1>. QED BY <1>1, <1>2

Clamp(n, lo, hi) == Max({lo, Min({hi, n})})

LEMMA ClampIs ==
    ASSUME NEW n \in Int, NEW lo \in Int, NEW hi \in Int, lo <= hi
    PROVE  /\ Clamp(n, lo, hi) = IF n < lo THEN lo ELSE IF n > hi THEN hi ELSE n
           /\ Clamp(n, lo, hi) \in lo .. hi
  <1>1. Min({hi, n}) = IF hi <= n THEN hi ELSE n
    BY MinOfTwo
  <1>2. Min({hi, n}) \in Int
    BY <1>1
  <1>3. Max({lo, Min({hi, n})}) = IF lo >= Min({hi, n}) THEN lo ELSE Min({hi, n})
    BY <1>2, MaxOfTwo
  <1>. QED BY <1>1, <1>3 DEF Clamp

\* A number that w bits hold is not changed.
LEMMA SignedIs ==
    ASSUME NEW w \in Nat \ {0}, NEW n \in -(2^(w - 1)) .. (2^(w - 1) - 1)
    PROVE  signed(n, w) = n
  <1>. DEFINE P == 2^(w - 1)
              M == 2^w
  <1>1. P \in Nat \ {0} /\ M = P + P
    <2>1. w - 1 \in Nat /\ (w - 1) + 1 = w
      OBVIOUS
    <2>2. 2^(w - 1) \in Nat \ {0} /\ 2^((w - 1) + 1) = 2^(w - 1) + 2^(w - 1)
      BY <2>1, Powers
    <2>. QED BY <2>1, <2>2
  <1>2. signed(n, w) = ((n + P) % M) - P
    BY DEF signed
  <1>3. n \in (-P) .. (P - 1)
    OBVIOUS
  <1>. HIDE DEF P, M
  <1>4. M \in Nat \ {0} /\ n + P \in 0 .. (M - 1) /\ n \in Int
    BY <1>1, <1>3
  <1>5. (n + P) % M = n + P
    BY <1>4, RestIs
  <1>. QED BY <1>1, <1>2, <1>4, <1>5

\* The widths below that of an int, and the range of one.
LEMMA WidthFacts ==
    ASSUME NEW b \in MinWidth .. (INT - 1)
    PROVE  /\ 2^(b - 1) \in Nat \ {0} /\ b \in Nat \ {0} /\ b <= LONG
           /\ signed_max(b) = 2^(b - 1) - 1
           /\ signed_min(b) = -(2^(b - 1))
           /\ \A n \in -(2^(b - 1) + 2^(b - 1)) .. (2^(b - 1) + 2^(b - 1)) : signed(n, LONG) = n
  <1>1. MinWidth \in Nat \ {0} /\ INT \in Nat \ {0} /\ LONG \in Nat \ {0} /\ INT < LONG
    BY WordsAssumption
  <1>2. b - 1 \in 0 .. (INT - 1) /\ b - 1 < INT - 1 /\ INT - 1 < LONG - 1
    BY <1>1
  <1>3. /\ b - 1 \in Nat /\ INT - 1 \in Nat /\ LONG - 1 \in Nat /\ b - 1 < INT - 1
        /\ INT - 1 < LONG - 1 /\ (b - 1) % INT = b - 1
    BY <1>1, <1>2, RestIs
  <1>. DEFINE P == 2^(b - 1)
              Q == 2^(INT - 1)
              R == 2^(LONG - 1)
  <1>4. P \in Nat \ {0} /\ Q \in Nat \ {0} /\ R \in Nat \ {0}
    BY <1>3, Powers
  <1>5. P + P <= Q /\ Q + Q <= R
    BY <1>3, PowersGrow
  <1>6. signed_max(b) = P - 1
    <2>1. signed_max(b) = signed(P, INT) - 1
      BY <1>3 DEF signed_max
    <2>2. P \in -(2^(INT - 1)) .. (2^(INT - 1) - 1)
      <3>. HIDE DEF P, Q
      <3>1. P \in -Q .. (Q - 1)
        BY <1>4, <1>5
      <3>. QED BY <3>1 DEF Q
    <2>3. signed(P, INT) = P
      <3>. HIDE DEF P
      <3>. QED BY <1>1, <2>2, SignedIs
    <2>. QED BY <2>1, <2>3
  <1>7. signed_min(b) = -P
    <2>1. signed_min(b) = -(signed_max(b) + 1)
      BY DEF signed_min
    <2>. HIDE DEF P
    <2>. QED BY <1>4, <1>6, <2>1
  <1>8. ASSUME NEW n \in -(P + P) .. (P + P) PROVE signed(n, LONG) = n
    <2>. HIDE DEF P, Q, R
    <2>1. n \in -R .. (R - 1)
      BY <1>4, <1>5
    <2>2. n \in -(2^(LONG - 1)) .. (2^(LONG - 1) - 1)
      BY <2>1 DEF R
    <2>. QED BY <1>1, <2>2, SignedIs
  <1>. QED BY <1>1, <1>4, <1>6, <1>7, <1>8

\* sat_add stays at a bound where the sum would pass it.
LEMMA SatAddIs ==
    ASSUME NEW b \in MinWidth .. (INT - 1), NEW P, P = 2^(b - 1),
           NEW x \in -P .. (P - 1), NEW y \in -P .. (P - 1)
    PROVE  sat_add(x, y, b) = Clamp(x + y, -P, P - 1)
  <1>. DEFINE sign(n) == n \div 2^(b - 1)
              result  == signed(x + y, LONG)
  <1>1. P \in Nat \ {0} /\ signed_max(b) = P - 1 /\ signed_min(b) = -P
    BY WidthFacts
  <1>2. x \in Int /\ y \in Int /\ x + y \in -(P + P) .. (P + P) /\ -(x + y) \in -(P + P) .. (P + P)
    BY <1>1
  <1>3. result = x + y /\ signed(-result, LONG) = -(x + y)
    <2>1. \A n \in -(P + P) .. (P + P) : signed(n, LONG) = n
      BY WidthFacts
    <2>. QED BY <1>2, <2>1
  <1>4. ASSUME NEW n \in Int PROVE sign(n) = 0 <=> n \in 0 .. (P - 1)
    <2>1. sign(n) = n \div P
      OBVIOUS
    <2>. QED BY <1>1, <2>1, SignIs
  <1>5. sat_add(x, y, b) =
            CASE sign(x) = 0 /\ sign(y) = 0 /\ sign(result) # 0 -> signed_max(b)
              [] sign(x) # 0 /\ sign(y) # 0 /\ sign(signed(-result, LONG)) # 0 -> signed_min(b)
              [] OTHER -> result
    BY DEF sat_add
  <1>6. /\ sign(x) = 0 <=> x \in 0 .. (P - 1)
        /\ sign(y) = 0 <=> y \in 0 .. (P - 1)
        /\ sign(result) = 0 <=> x + y \in 0 .. (P - 1)
        /\ sign(signed(-result, LONG)) = 0 <=> -(x + y) \in 0 .. (P - 1)
    BY <1>2, <1>3, <1>4
  <1>7. Clamp(x + y, -P, P - 1) = IF x + y < -P THEN -P ELSE IF x + y > P - 1 THEN P - 1 ELSE x + y
    <2>1. -P \in Int /\ P - 1 \in Int /\ -P <= P - 1 /\ x + y \in Int
      BY <1>1, <1>2
    <2>. QED BY <2>1, ClampIs
  <1>. HIDE DEF sign, result
  <1>8. CASE sign(x) = 0 /\ sign(y) = 0
    <2>1. x \in 0 .. (P - 1) /\ y \in 0 .. (P - 1)
      BY <1>6, <1>8
    <2>2. CASE sign(result) # 0
      <3>1. sat_add(x, y, b) = P - 1
        BY <1>1, <1>5, <1>8, <2>2
      <3>. QED BY <1>1, <1>6, <1>7, <2>1, <2>2, <3>1
    <2>3. CASE sign(result) = 0
      <3>1. sat_add(x, y, b) = x + y
        BY <1>3, <1>5, <1>8, <2>3
      <3>. QED BY <1>1, <1>6, <1>7, <2>1, <2>3, <3>1
    <2>. QED BY <2>2, <2>3
  <1>9. CASE sign(x) # 0 /\ sign(y) # 0
    <2>1. x \in -P .. -1 /\ y \in -P .. -1
      BY <1>1, <1>6, <1>9
    <2>2. CASE sign(signed(-result, LONG)) # 0
      <3>1. sat_add(x, y, b) = -P
        BY <1>1, <1>5, <1>9, <2>2
      <3>. QED BY <1>1, <1>6, <1>7, <2>1, <2>2, <3>1
    <2>3. CASE sign(signed(-result, LONG)) = 0
      <3>1. sat_add(x, y, b) = x + y
        BY <1>3, <1>5, <1>9, <2>3
      <3>. QED BY <1>1, <1>6, <1>7, <2>1, <2>3, <3>1
    <2>. QED BY <2>2, <2>3
  <1>10. CASE ~(sign(x) = 0 /\ sign(y) = 0) /\ ~(sign(x) # 0 /\ sign(y) # 0)
    <2>1. sat_add(x, y, b) = x + y
      BY <1>3, <1>5, <1>10
    <2>2. -P <= x + y /\ x + y <= P - 1
      BY <1>1, <1>2, <1>6, <1>10
    <2>. QED BY <1>1, <1>7, <2>1, <2>2
  <1>. QED BY <1>8, <1>9, <1>10

\* The sums that Saturated is defined by exist.
LEMMA SaturatedIs ==
    ASSUME NEW T, NEW s \in Seq(T), NEW lo, NEW hi, NEW sums, sums = Saturated(s, lo, hi)
    PROVE  \A k \in 1 .. Len(s) :
              sums[k] = IF k = 1 THEN s[1] ELSE Clamp(sums[k - 1] + s[k], lo, hi)
  <1>. DEFINE Sum(n, f) ==
                 f = [k \in 1 .. n |-> IF k = 1 THEN s[1] ELSE Clamp(f[k - 1] + s[k], lo, hi)]
              None == {n \in Nat : \A f : ~Sum(n, f)}
  <1>1. None = {}
    <2>1. SUFFICES ASSUME None # {} PROVE FALSE
      OBVIOUS
    <2>2. PICK n \in None : \A k \in None : n <= k
      <3>1. None \subseteq Nat
        OBVIOUS
      <3>. HIDE DEF None
      <3>. QED BY <2>1, <3>1, LeastNatural
    <2>3. n # 0
      <3>1. Sum(0, [k \in 1 .. 0 |-> IF k = 1 THEN s[1] ELSE Clamp(<<>>[k - 1] + s[k], lo, hi)])
        OBVIOUS
      <3>. QED BY <2>2, <3>1
    <2>4. n - 1 \in Nat /\ ~(n <= n - 1)
      BY <2>2, <2>3
    <2>5. PICK f : Sum(n - 1, f)
      <3>1. n - 1 \notin None
        BY <2>2, <2>4
      <3>. HIDE DEF Sum
      <3>. QED BY <2>4, <3>1
    <2>. DEFINE g == [k \in 1 .. n |-> IF k = 1 THEN s[1] ELSE Clamp(f[k - 1] + s[k], lo, hi)]
    <2>6. \A k \in 1 .. n : k # 1 => k - 1 \in 1 .. (n - 1) /\ k - 1 \in 1 .. n
      BY <2>4
    <2>7. \A k \in 1 .. (n - 1) : g[k] = f[k]
      BY <2>4, <2>5
    <2>8. Sum(n, g)
      BY <2>6, <2>7
    <2>. QED BY <2>2, <2>8
  <1>2. DOMAIN s = 1 .. Len(s) /\ Len(s) \in Nat
    OBVIOUS
  <1>3. \E f : Sum(Len(s), f)
    <2>1. Len(s) \notin None
      BY <1>1
    <2>. HIDE DEF Sum
    <2>. QED BY <1>2, <2>1
  <1>4. Saturated(s, lo, hi) = CHOOSE f : Sum(Len(s), f)
    BY <1>2, Zenon DEF Saturated, Clamp
  <1>5. Sum(Len(s), sums)
    <2>. HIDE DEF Sum
    <2>. QED BY <1>3, <1>4
  <1>. QED BY <1>5

SatInv ==
    "bitwidth" \in DOMAIN arg /\ arg.bitwidth \in MinWidth .. (INT - 1) =>
        LET P    == 2^(arg.bitwidth - 1)
            n    == Len(arg.operands)
            sums == Saturated(arg.operands, -P, P - 1)
        IN  /\ arg.operands \in Seq(Int \cup {NaN})
            /\ pc \in {"range", "sum", "refused", "done"}
            /\ pc = "range" => n < 2
            /\ pc = "sum" => /\ n >= 2 /\ loc.i \in 1 .. (n + 1)
                             /\ loc.i > 1 => loc.sum \in -P .. (P - 1) /\ loc.sum = sums[loc.i - 1]
            /\ pc = "refused" => \E k \in DOMAIN arg.operands : arg.operands[k] \notin -P .. (P - 1)
            /\ pc = "done" => out = IF n < 2 THEN <<-P, P - 1>> ELSE <<sums[n]>>

LEMMA SatInit == Init => SatInv
  <1>. SUFFICES ASSUME SatMain, arg.bitwidth \in MinWidth .. (INT - 1) PROVE SatInv
    BY Mains DEF SatInv
  <1>1. PICK bitwidth \in Widths, operands \in Sums :
            /\ arg = [bitwidth |-> bitwidth, operands |-> operands]
            /\ loc = [i |-> 1, sum |-> 0]
            /\ pc = IF ~convert_arg(bitwidth, MinWidth, LONG) THEN "refused"
                    ELSE IF Len(operands) < 2 THEN "range"
                    ELSE "sum"
    BY DEF SatMain, Starts
  <1>2. operands \in Seq(Int \cup {NaN}) /\ Len(operands) \in Nat
    BY WordsAssumption
  <1>3. convert_arg(bitwidth, MinWidth, LONG)
    BY <1>1, WordsAssumption DEF convert_arg
  <1>4. /\ arg.operands \in Seq(Int \cup {NaN}) /\ loc.i = 1 /\ Len(arg.operands) \in Nat
        /\ pc = IF Len(arg.operands) < 2 THEN "range" ELSE "sum"
    BY <1>1, <1>2, <1>3
  <1>5. 1 \in 1 .. (Len(arg.operands) + 1) /\ (Len(arg.operands) < 2 \/ Len(arg.operands) >= 2)
    BY <1>4
  <1>. QED BY <1>4, <1>5 DEF SatInv

LEMMA SatNext == SatInv /\ [Next]_vars => SatInv'
  <1>. SUFFICES ASSUME SatInv, [Next]_vars, "bitwidth" \in DOMAIN arg,
                       arg.bitwidth \in MinWidth .. (INT - 1)
                PROVE  SatInv'
    BY ArgKept DEF SatInv
  <1>. DEFINE P    == 2^(arg.bitwidth - 1)
              s    == arg.operands
              n    == Len(arg.operands)
              sums == Saturated(arg.operands, -P, P - 1)
  <1>1. arg' = arg /\ (UNCHANGED vars \/ (pc = "range" /\ PrintRange) \/ (pc = "sum" /\ (Add \/ PrintSum)))
    <2>1. pc \in {"range", "sum", "refused", "done"}
      BY DEF SatInv
    <2>. QED BY <2>1, ArgKept, StringSteps, WordSteps, ArraySteps DEF Next, Exit, vars, Ended
  <1>2. CASE UNCHANGED vars
    BY <1>1, <1>2 DEF SatInv, vars
  <1>3. /\ P \in Nat \ {0} /\ signed_max(arg.bitwidth) = P - 1 /\ signed_min(arg.bitwidth) = -P
        /\ s \in Seq(Int \cup {NaN}) /\ n \in Nat
    BY WidthFacts DEF SatInv
  <1>4. CASE pc = "range" /\ PrintRange
    <2>1. n < 2 /\ pc' = "done" /\ out' = <<-P, P - 1>>
      BY <1>3, <1>4 DEF SatInv, PrintRange
    <2>. QED BY <1>1, <1>3, <2>1 DEF SatInv
  <1>5. CASE pc = "sum" /\ PrintSum
    <2>1. /\ n >= 2 /\ loc.i \in 1 .. (n + 1) /\ loc.i > n
          /\ loc.i > 1 => loc.sum = sums[loc.i - 1]
      BY <1>5 DEF SatInv, PrintSum
    <2>2. loc.i - 1 = n /\ loc.i > 1 /\ ~(n < 2)
      BY <1>3, <2>1
    <2>3. pc' = "done" /\ out' = <<loc.sum>> /\ loc.sum = sums[n]
      BY <1>5, <2>1, <2>2 DEF PrintSum
    <2>. QED BY <1>1, <1>3, <2>2, <2>3 DEF SatInv
  <1>6. CASE pc = "sum" /\ Add
    <2>. DEFINE x == arg.operands[loc.i]
    <2>1. /\ n >= 2 /\ loc.i \in 1 .. (n + 1) /\ loc.i <= n
          /\ loc.i > 1 => loc.sum \in -P .. (P - 1) /\ loc.sum = sums[loc.i - 1]
      BY <1>6 DEF SatInv, Add
    <2>2. loc.i \in 1 .. n /\ x \in Int \cup {NaN}
      BY <1>3, <2>1, SMTT(60)
    <2>3. NaN \notin Int
      BY WordsAssumption
    <2>4. CASE ~convert_arg(x, -P, P - 1)
      <3>1. pc' = "refused"
        BY <1>3, <1>6, <2>4 DEF Add
      <3>2. x \notin -P .. (P - 1)
        BY <1>3, <2>2, <2>3, <2>4 DEF convert_arg
      <3>3. loc.i \in DOMAIN s
        BY <1>3, <2>2
      <3>. QED BY <1>1, <1>3, <3>1, <3>2, <3>3 DEF SatInv
    <2>5. CASE convert_arg(x, -P, P - 1)
      <3>1. /\ pc' = "sum"
            /\ loc' = [i |-> loc.i + 1,
                       sum |-> IF loc.i = 1 THEN x ELSE sat_add(loc.sum, x, arg.bitwidth)]
        BY <1>3, <1>6, <2>5 DEF Add
      <3>2. x \in -P .. (P - 1)
        BY <1>3, <2>2, <2>3, <2>5 DEF convert_arg
      <3>3. loc'.i = loc.i + 1 /\ loc'.i \in 1 .. (n + 1) /\ (loc.i + 1) - 1 = loc.i
        <4>1. loc'.i = loc.i + 1
          BY <3>1
        <4>. HIDE DEF P
        <4>2. loc.i + 1 \in 1 .. (n + 1) /\ (loc.i + 1) - 1 = loc.i
          BY <1>3, <2>2, SMTT(60)
        <4>. QED BY <4>1, <4>2
      <3>4. sums[loc.i] = IF loc.i = 1 THEN s[1] ELSE Clamp(sums[loc.i - 1] + s[loc.i], -P, P - 1)
        <4>1. sums = Saturated(s, -P, P - 1) /\ s \in Seq(Int \cup {NaN}) /\ loc.i \in 1 .. Len(s)
          BY <1>3, <2>2
        <4>. HIDE DEF P, s, n, sums
        <4>. QED BY <4>1, SaturatedIs
      <3>5. loc'.sum = sums[loc.i] /\ loc'.sum \in -P .. (P - 1)
        <4>1. CASE loc.i = 1
          BY <3>1, <3>2, <3>4, <4>1
        <4>2. CASE loc.i # 1
          <5>1. loc.sum \in -P .. (P - 1) /\ loc.sum = sums[loc.i - 1]
            BY <2>1, <2>2, <4>2
          <5>2. loc'.sum = sat_add(loc.sum, x, arg.bitwidth)
            BY <3>1, <4>2
          <5>3. sat_add(loc.sum, x, arg.bitwidth) = Clamp(loc.sum + x, -P, P - 1)
            BY <3>2, <5>1, SatAddIs
          <5>4. Clamp(loc.sum + x, -P, P - 1) \in -P .. (P - 1)
            <6>. HIDE DEF P
            <6>1. loc.sum + x \in Int /\ -P \in Int /\ P - 1 \in Int /\ -P <= P - 1
              BY <1>3, <3>2, <5>1
            <6>. QED BY <6>1, ClampIs
          <5>. QED BY <3>4, <4>2, <5>1, <5>2, <5>3, <5>4
        <4>. QED BY <4>1, <4>2
      <3>. HIDE DEF P, s, x
      <3>6. loc'.sum = sums[loc'.i - 1]
        BY <3>3, <3>5
      <3>. QED BY <1>1, <1>3, <2>1, <3>1, <3>3, <3>5, <3>6 DEF SatInv, P, s
    <2>. QED BY <2>4, <2>5
  <1>. QED BY <1>1, <1>2, <1>4, <1>5, <1>6

LEMMA SatHolds == SatInv => SatRight
  <1>. SUFFICES ASSUME SatInv, "bitwidth" \in DOMAIN arg, arg.bitwidth \in MinWidth .. (INT - 1)
                PROVE  SatRight
    BY DEF SatRight
  <1>1. pc = "refused" => \E n \in ToSet(arg.operands) :
                              n \notin -(2^(arg.bitwidth - 1)) .. (2^(arg.bitwidth - 1) - 1)
    BY DEF SatInv, ToSet
  <1>. QED BY <1>1 DEF SatInv, SatRight

\* sat takes every operand in the range of its width, and its sum is the one that
\* stays at a bound when it would pass it (sat_add), for every width below that of
\* an int and every list of operands.
THEOREM SumsSaturated == Spec => []SatRight
  BY SatInit, SatNext, SatHolds, PTL DEF Spec

-----------------------------------------------------------------------------
(* pig_latin.                                                              *)

\* The translations with the space in front of all but the first: the pieces of
\* what is printed.
Pieces(words) ==
    [k \in DOMAIN words |-> (IF k = 1 THEN <<>> ELSE <<Space>>) \o Translation(words[k])]

\* strcspn finds the most consonants that the word begins with.
LEMMA FirstConsonants ==
    ASSUME NEW w \in Seq(Char), w # <<>>, w[1] \notin Vowel
    PROVE  Max({k \in 1 .. Len(w) : \A j \in 1 .. k : w[j] \notin Vowel}) = strcspn(w, Vowel)
  <1>. DEFINE c == strcspn(w, Vowel)
              T == {k \in 1 .. Len(w) : \A j \in 1 .. k : w[j] \notin Vowel}
  <1>1. /\ c \in 0 .. Len(w) /\ \A i \in 1 .. c : w[i] \notin Vowel
        /\ c = Len(w) \/ w[c + 1] \in Vowel
    BY StrcspnFacts
  <1>2. Len(w) \in Nat /\ Len(w) # 0
    OBVIOUS
  <1>. HIDE DEF c
  <1>3. c # 0
    <2>1. SUFFICES ASSUME c = 0 PROVE FALSE
      OBVIOUS
    <2>2. w[0 + 1] \in Vowel
      BY <1>1, <1>2, <2>1
    <2>. QED BY <2>2
  <1>4. c \in T
    BY <1>1, <1>3
  <1>5. ASSUME NEW k \in T PROVE c >= k
    <2>1. SUFFICES ASSUME c < k PROVE FALSE
      BY <1>1
    <2>2. c + 1 \in 1 .. k /\ c # Len(w)
      BY <1>1, <2>1
    <2>. QED BY <1>1, <2>2
  <1>6. T \subseteq Int
    OBVIOUS
  <1>. HIDE DEF T
  <1>7. \A x \in T : (\A y \in T : x >= y) <=> x = c
    <2>1. \A x \in T : x \in Int
      BY <1>6
    <2>. QED BY <1>4, <1>5, <2>1
  <1>8. Max(T) = c
    BY <1>4, <1>7 DEF Max
  <1>. QED BY <1>8 DEF c, T

LEMMA PigIs ==
    ASSUME NEW w \in Seq(Char)
    PROVE  /\ Translation(w) \in Seq(Char)
           /\ pig_latin(w) = NULL => w # <<>> /\ w[1] \notin Letter /\ Translation(w) = w
           /\ pig_latin(w) # NULL => pig_latin(w) # <<>> /\ pig_latin(w) = Translation(w)
  <1>1. WAY \in Seq(Char) /\ AY \in Seq(Char) /\ WAY # <<>> /\ AY # <<>>
    BY StringsAssumption DEF WAY, AY
  <1>2. strcspn(w, Letter) \in 0 .. Len(w)
        /\ (\A i \in 1 .. strcspn(w, Letter) : w[i] \notin Letter)
        /\ (strcspn(w, Letter) = Len(w) \/ w[strcspn(w, Letter) + 1] \in Letter)
    BY StrcspnFacts
  <1>3. NULL \notin Seq(Char)
    BY StringsAssumption
  <1>4. CASE strcspn(w, Letter) > 0
    <2>1. w # <<>> /\ w[1] \notin Letter
      BY <1>2, <1>4
    <2>2. pig_latin(w) = NULL
      BY <1>4, <2>1 DEF pig_latin, Letter
    <2>3. Translation(w) = w
      BY <2>1 DEF Translation, Letter
    <2>. QED BY <2>1, <2>2, <2>3
  <1>5. CASE ~(strcspn(w, Letter) > 0) /\ (w = <<>> \/ w[1] \in Vowel)
    <2>1. pig_latin(w) = w \o WAY /\ Translation(w) = w \o WAY
      BY <1>5, StringsAssumption DEF pig_latin, Translation
    <2>2. w \o WAY \in Seq(Char) /\ w \o WAY # <<>>
      BY <1>1, ConcatProperties, ConcatEqualIffEmpty
    <2>. QED BY <1>3, <2>1, <2>2
  <1>6. CASE ~(strcspn(w, Letter) > 0) /\ ~(w = <<>> \/ w[1] \in Vowel)
    <2>. DEFINE n == strcspn(w, Vowel)
    <2>1. pig_latin(w) = From(w, n) \o First(w, n) \o AY
      BY <1>6 DEF pig_latin, pig_regular
    <2>2. strcspn(w, Letter) = 0 /\ Len(w) # 0
      BY <1>2, <1>6
    <2>3. w[0 + 1] \in Letter
      BY <1>2, <2>2
    <2>4. w[1] \in Consonant
      BY <1>6, <2>3 DEF Letter
    <2>5. Translation(w) = SubSeq(w, n + 1, Len(w)) \o SubSeq(w, 1, n) \o AY
      BY <1>6, <2>4, FirstConsonants DEF Translation
    <2>6. n \in 0 .. Len(w)
      BY StrcspnFacts
    <2>7. From(w, n) \in Seq(Char) /\ First(w, n) \in Seq(Char)
      BY <2>6, FromFacts, FirstFacts
    <2>. HIDE DEF n
    <2>8. From(w, n) \o First(w, n) \in Seq(Char)
      BY <2>7, ConcatProperties
    <2>9. /\ (From(w, n) \o First(w, n)) \o AY \in Seq(Char)
          /\ (From(w, n) \o First(w, n)) \o AY # <<>>
      BY <1>1, <2>8, ConcatProperties, ConcatEqualIffEmpty
    <2>10. Translation(w) = pig_latin(w)
      BY <2>1, <2>5 DEF From, First
    <2>. QED BY <1>3, <2>1, <2>9, <2>10
  <1>. QED BY <1>4, <1>5, <1>6

Printed == Char \cup {Space}

LEMMA PiecesType ==
    ASSUME NEW words \in Seq(Seq(Char))
    PROVE  /\ Pieces(words) \in Seq(Seq(Printed)) /\ Len(Pieces(words)) = Len(words)
           /\ \A k \in 1 .. Len(words) :
                 Pieces(words)[k] = IF k = 1 THEN Translation(words[k])
                                    ELSE <<Space>> \o Translation(words[k])
  <1>1. ASSUME NEW k \in 1 .. Len(words)
        PROVE  /\ Pieces(words)[k] \in Seq(Printed)
               /\ Pieces(words)[k] = IF k = 1 THEN Translation(words[k])
                                     ELSE <<Space>> \o Translation(words[k])
    <2>1. words[k] \in Seq(Char)
      OBVIOUS
    <2>2. Translation(words[k]) \in Seq(Printed) /\ <<Space>> \in Seq(Printed)
      <3>1. Translation(words[k]) \in Seq(Char)
        BY <2>1, PigIs
      <3>. QED BY <3>1 DEF Printed
    <2>3. /\ <<>> \o Translation(words[k]) = Translation(words[k])
          /\ <<Space>> \o Translation(words[k]) \in Seq(Printed)
      BY <2>2, ConcatEmptySeq, ConcatProperties
    <2>4. Pieces(words)[k] = (IF k = 1 THEN <<>> ELSE <<Space>>) \o Translation(words[k])
      <3>1. k \in DOMAIN words
        OBVIOUS
      <3>. QED BY <3>1, Zenon DEF Pieces
    <2>5. CASE k = 1
      BY <2>2, <2>3, <2>4, <2>5
    <2>6. CASE k # 1
      BY <2>2, <2>3, <2>4, <2>6
    <2>. QED BY <2>5, <2>6
  <1>2. Pieces(words) \in [1 .. Len(words) -> Seq(Printed)]
    <2>1. DOMAIN words = 1 .. Len(words)
      OBVIOUS
    <2>. QED BY <1>1, <2>1 DEF Pieces
  <1>3. Len(words) \in Nat
    OBVIOUS
  <1>. QED BY <1>1, <1>2, <1>3

PigInv ==
    "words" \in DOMAIN arg =>
        /\ arg.words \in Seq(Seq(Char)) /\ arg.words # <<>>
        /\ pc \in {"pig", "crashed", "done"}
        /\ pc = "pig" => loc.i \in 2 .. (Len(arg.words) + 1) /\ out = Flat(Pieces(arg.words))[loc.i - 1]
        /\ pc = "crashed" => \E k \in 2 .. Len(arg.words) :
                                arg.words[k] # <<>> /\ arg.words[k][1] \notin Letter
        /\ pc = "done" => out = Flat(Pieces(arg.words))[Len(arg.words)]

LEMMA PigInit == Init => PigInv
  <1>. SUFFICES ASSUME PigMain PROVE PigInv
    BY Mains DEF PigInv
  <1>1. PICK words \in Sentences \ {<<>>} :
            /\ pc = "pig" /\ arg = [words |-> words] /\ loc = [i |-> 2]
            /\ out = IF pig_latin(words[1]) = NULL THEN words[1] ELSE pig_latin(words[1])
    BY DEF PigMain
  <1>2. words \in Seq(Seq(Char)) /\ Len(words) \in Nat /\ Len(words) # 0 /\ words[1] \in Seq(Char)
        /\ 1 \in 1 .. Len(words)
    BY StringsAssumption
  <1>3. out = Translation(words[1])
    BY <1>1, <1>2, PigIs
  <1>4. Pieces(words)[1] = Translation(words[1])
    BY <1>2, PiecesType
  <1>5. Flat(Pieces(words))[1] = Pieces(words)[1]
    <2>1. Pieces(words) \in Seq(Seq(Printed)) /\ 1 \in 1 .. Len(Pieces(words))
      BY <1>2, PiecesType
    <2>. QED BY <2>1, FlatIs
  <1>6. 2 \in 2 .. (Len(words) + 1) /\ 2 - 1 = 1
    BY <1>2
  <1>. QED BY <1>1, <1>2, <1>3, <1>4, <1>5, <1>6 DEF PigInv

LEMMA PigStep == PigInv /\ [Next]_vars => PigInv'
  <1>. SUFFICES ASSUME PigInv, [Next]_vars, "words" \in DOMAIN arg PROVE PigInv'
    BY ArgKept DEF PigInv
  <1>. DEFINE words == arg.words
              n == Len(words)
              flat == Flat(Pieces(words))
  <1>1. arg' = arg /\ (UNCHANGED vars \/ (pc = "pig" /\ (PigNext \/ PigEnd)))
    <2>1. pc \in {"pig", "crashed", "done"}
      BY DEF PigInv
    <2>. QED BY <2>1, ArgKept, StringSteps, WordSteps, ArraySteps DEF Next, Exit, vars, Ended
  <1>2. CASE UNCHANGED vars
    BY <1>1, <1>2 DEF PigInv, vars
  <1>3. words \in Seq(Seq(Char)) /\ words # <<>> /\ n \in Nat
    BY DEF PigInv
  <1>4. CASE pc = "pig" /\ PigEnd
    <2>1. loc.i \in 2 .. (n + 1) /\ loc.i > n /\ pc' = "done" /\ out' = out /\ out = flat[loc.i - 1]
      BY <1>4 DEF PigInv, PigEnd
    <2>2. loc.i - 1 = n
      BY <1>3, <2>1
    <2>. QED BY <1>1, <1>3, <2>1, <2>2 DEF PigInv
  <1>5. CASE pc = "pig" /\ PigNext
    <2>. DEFINE i == loc.i
                w == words[loc.i]
    <2>1. i \in 2 .. (n + 1) /\ i <= n /\ out = flat[i - 1]
      BY <1>5 DEF PigInv, PigNext
    <2>2. i \in 2 .. n /\ i \in 1 .. n /\ i # 1 /\ i - 1 \in 1 .. n /\ w \in Seq(Char)
      BY <1>3, <2>1
    <2>3. CASE pig_latin(w) = NULL
      <3>1. pc' = "crashed"
        BY <1>5, <2>3 DEF PigNext
      <3>2. w # <<>> /\ w[1] \notin Letter
        BY <2>2, <2>3, PigIs
      <3>. QED BY <1>1, <1>3, <2>2, <3>1, <3>2 DEF PigInv
    <2>4. CASE pig_latin(w) # NULL
      <3>1. pig_latin(w) # <<>> /\ pig_latin(w) = Translation(w) /\ Translation(w) \in Seq(Char)
        BY <2>2, <2>4, PigIs
      <3>2. pc' = "pig" /\ loc' = [i |-> i + 1] /\ out' = (out \o <<Space>>) \o Translation(w)
        BY <1>5, <2>4, <3>1 DEF PigNext
      <3>3. /\ Pieces(words) \in Seq(Seq(Printed)) /\ Len(Pieces(words)) = n
            /\ Pieces(words)[i] = <<Space>> \o Translation(w)
        BY <1>3, <2>2, PiecesType
      <3>4. flat[i] = flat[i - 1] \o Pieces(words)[i] /\ flat[i - 1] \in Seq(Printed)
        <4>. DEFINE s == Pieces(words)
        <4>1. /\ s \in Seq(Seq(Printed)) /\ i \in 1 .. Len(s) /\ i - 1 \in 1 .. Len(s) /\ i # 1
              /\ flat = Flat(s)
          BY <2>2, <3>3
        <4>. HIDE DEF s, i, flat
        <4>2. flat[i] = flat[i - 1] \o s[i]
          BY <4>1, FlatIs, ZenonT(60)
        <4>3. flat[i - 1] \in Seq(Printed)
          BY <4>1, FlatType
        <4>. QED BY <4>2, <4>3 DEF s
      <3>5. out' = flat[i]
        <4>1. out \in Seq(Printed) /\ <<Space>> \in Seq(Printed) /\ Translation(w) \in Seq(Printed)
          BY <2>1, <3>1, <3>4 DEF Printed
        <4>2. (out \o <<Space>>) \o Translation(w) = out \o (<<Space>> \o Translation(w))
          <5>. HIDE DEF w
          <5>. QED BY <4>1, ConcatAssociative
        <4>. QED BY <2>1, <3>2, <3>3, <3>4, <4>2, ZenonT(60)
      <3>6. loc'.i = i + 1 /\ i + 1 \in 2 .. (n + 1) /\ (i + 1) - 1 = i
        <4>. HIDE DEF w, flat
        <4>. QED BY <1>3, <2>2, <3>2, SMTT(60)
      <3>. HIDE DEF i, flat
      <3>7. out' = flat[loc'.i - 1]
        BY <3>5, <3>6
      <3>. QED BY <1>1, <1>3, <3>2, <3>6, <3>7 DEF PigInv, flat
    <2>. QED BY <2>3, <2>4
  <1>. QED BY <1>1, <1>2, <1>4, <1>5

LEMMA PigHolds == PigInv => PigRightUnlessUntranslatable
  <1>. SUFFICES ASSUME PigInv, "words" \in DOMAIN arg,
                       \A k \in 2 .. Len(arg.words) : ~Untranslatable(arg.words[k])
                PROVE  /\ pc # "crashed"
                       /\ pc = "done" => out = FlattenSeq(Pieces(arg.words))
    BY Zenon DEF PigRightUnlessUntranslatable, PigRight, Pieces
  <1>1. Pieces(arg.words) \in Seq(Seq(Printed)) /\ Len(Pieces(arg.words)) = Len(arg.words)
        /\ Len(arg.words) # 0
    BY PiecesType DEF PigInv
  <1>2. FlattenSeq(Pieces(arg.words)) = Flat(Pieces(arg.words))[Len(arg.words)]
    BY <1>1, FlatIs
  <1>. QED BY <1>2 DEF PigInv, Untranslatable

\* pig_cat puts every word as it is in pig latin, in their order and with a space
\* between, and does not crash, for all lists of words of which none but the
\* first begins with no letter (for such a word pig_latin returns NULL).
THEOREM WordsInPigLatin == Spec => []PigRightUnlessUntranslatable
  BY PigInit, PigStep, PigHolds, PTL DEF Spec

-----------------------------------------------------------------------------
(* tokenize: the pieces that scan_token takes, one behind the other.       *)

LEMMA FlatUnique ==
    ASSUME NEW T, NEW s \in Seq(T), NEW f, NEW n \in 0 .. Len(s),
           \A k \in 1 .. n : f[k] = IF k = 1 THEN s[k] ELSE f[k - 1] \o s[k]
    PROVE  \A k \in 1 .. n : f[k] = Flat(s)[k]
  <1>. DEFINE g == Flat(s)
              Bad == {k \in 1 .. n : f[k] # g[k]}
  <1>1. \A k \in 1 .. Len(s) : g[k] = IF k = 1 THEN s[k] ELSE g[k - 1] \o s[k]
    BY FlatIs
  <1>. HIDE DEF g
  <1>2. SUFFICES ASSUME Bad # {} PROVE FALSE
    BY DEF g
  <1>3. PICK m \in Bad : \A k \in Bad : m <= k
    <2>1. Bad \subseteq Nat
      OBVIOUS
    <2>. HIDE DEF Bad
    <2>. QED BY <1>2, <2>1, LeastNatural
  <1>4. m \in 1 .. n /\ m \in 1 .. Len(s) /\ f[m] # g[m]
    BY <1>3
  <1>5. CASE m = 1
    BY <1>1, <1>4, <1>5
  <1>6. CASE m # 1
    <2>1. m - 1 \in 1 .. n /\ ~(m <= m - 1)
      BY <1>4, <1>6
    <2>2. f[m - 1] = g[m - 1]
      BY <1>3, <2>1
    <2>. QED BY <1>1, <1>4, <1>6, <2>2
  <1>. QED BY <1>5, <1>6

LEMMA FlattenType ==
    ASSUME NEW S, NEW s \in Seq(Seq(S))
    PROVE  FlattenSeq(s) \in Seq(S) /\ (Len(s) = 0 => FlattenSeq(s) = <<>>)
  <1>1. CASE Len(s) = 0
    BY <1>1 DEF FlattenSeq
  <1>2. CASE Len(s) # 0
    <2>1. Len(s) \in 1 .. Len(s)
      BY <1>2
    <2>. QED BY <1>2, <2>1, FlatIs, FlatType
  <1>. QED BY <1>1, <1>2

LEMMA FlattenAppend ==
    ASSUME NEW S, NEW s \in Seq(Seq(S)), NEW x \in Seq(S)
    PROVE  FlattenSeq(Append(s, x)) = FlattenSeq(s) \o x
  <1>. DEFINE n == Len(s)
              t == Append(s, x)
  <1>1. /\ t \in Seq(Seq(S)) /\ Len(t) = n + 1 /\ n \in Nat
        /\ \A k \in 1 .. n : t[k] = s[k]
        /\ t[n + 1] = x
    BY AppendProperties
  <1>. HIDE DEF t
  <1>2. \A k \in 1 .. (n + 1) : Flat(t)[k] = IF k = 1 THEN t[k] ELSE Flat(t)[k - 1] \o t[k]
    <2>. DEFINE flat == Flat(t)
    <2>1. \A k \in 1 .. Len(t) : flat[k] = IF k = 1 THEN t[k] ELSE flat[k - 1] \o t[k]
      <3>1. t \in Seq(Seq(S)) /\ flat = Flat(t)
        BY <1>1
      <3>. HIDE DEF flat
      <3>. QED BY <3>1, FlatIs
    <2>. HIDE DEF flat
    <2>2. \A k \in 1 .. (n + 1) : flat[k] = IF k = 1 THEN t[k] ELSE flat[k - 1] \o t[k]
      BY <1>1, <2>1
    <2>. QED BY <2>2 DEF flat
  <1>3. FlattenSeq(t) = Flat(t)[n + 1]
    <2>1. Len(t) # 0
      BY <1>1
    <2>. QED BY <1>1, <2>1, FlatIs
  <1>4. CASE n = 0
    <2>1. FlattenSeq(t) = x
      BY <1>1, <1>2, <1>3, <1>4
    <2>2. FlattenSeq(s) = <<>>
      BY <1>4, FlattenType
    <2>. QED BY <2>1, <2>2, ConcatEmptySeq DEF t
  <1>5. CASE n # 0
    <2>1. \A k \in 1 .. n : Flat(t)[k] = IF k = 1 THEN s[k] ELSE Flat(t)[k - 1] \o s[k]
      <3>1. \A k \in 1 .. n : k \in 1 .. (n + 1)
        BY <1>1
      <3>. QED BY <1>1, <1>2, <3>1
    <2>2. n \in 0 .. Len(s) /\ n \in 1 .. n
      BY <1>1, <1>5
    <2>3. Flat(t)[n] = Flat(s)[n]
      BY <2>1, <2>2, FlatUnique
    <2>4. FlattenSeq(s) = Flat(s)[n]
      BY <1>5, FlatIs
    <2>5. Flat(t)[n + 1] = Flat(t)[n] \o x
      <3>1. n + 1 \in 1 .. (n + 1) /\ n + 1 # 1 /\ (n + 1) - 1 = n
        BY <1>1, <1>5
      <3>. QED BY <1>1, <1>2, <3>1
    <2>. QED BY <1>3, <2>3, <2>4, <2>5 DEF t
  <1>. QED BY <1>4, <1>5

\* The numbers b .. e, if they are larger than those in T, come behind them.
LEMMA AscendingRun ==
    ASSUME NEW b \in Nat, NEW e \in Nat, b <= e, NEW T \in SUBSET (0 .. (b - 1))
    PROVE  /\ IsFiniteSet(T) /\ IsFiniteSet(T \cup (b .. e))
           /\ Cardinality(T) \in Nat /\ Cardinality(T \cup (b .. e)) = Cardinality(T) + (e - b + 1)
           /\ \A k \in 1 .. Cardinality(T) : Ascending(T \cup (b .. e))[k] = Ascending(T)[k]
           /\ \A j \in 1 .. (e - b + 1) : Ascending(T \cup (b .. e))[Cardinality(T) + j] = b - 1 + j
  <1>. DEFINE c == Cardinality(T)
              U == T \cup (b .. e)
  <1>0. T \subseteq Nat /\ IsFiniteSet(T) /\ \A l \in T : l \in Nat /\ l < b
    <2>1. T \subseteq 0 .. (b - 1) /\ IsFiniteSet(0 .. (b - 1))
      BY FS_Interval
    <2>2. IsFiniteSet(T)
      BY <2>1, FS_Subset
    <2>3. \A l \in 0 .. (b - 1) : l \in Nat /\ l < b
      OBVIOUS
    <2>. QED BY <2>1, <2>2, <2>3
  <1>1. c \in Nat
    BY <1>0, FS_CardinalityType
  <1>2. ASSUME NEW m \in b .. e
        PROVE  /\ IsFiniteSet(T \cup (b .. m)) /\ Cardinality(T \cup (b .. m)) = c + (m - b + 1)
    <2>1. IsFiniteSet(b .. m) /\ Cardinality(b .. m) = m - b + 1
      <3>1. b \in Int /\ m \in Int /\ ~(b > m)
        OBVIOUS
      <3>. QED BY <3>1, FS_Interval
    <2>2. T \cap (b .. m) = {}
      <3>1. \A l \in T : l \in Nat /\ l < b
        BY <1>0
      <3>2. \A l \in T : ~(b <= l)
        BY <3>1
      <3>. QED BY <3>2
    <2>3. IsFiniteSet(T \cup (b .. m))
      BY <1>0, <2>1, FS_Union
    <2>. QED BY <1>0, <2>1, <2>2, <2>3, DisjointUnion
  <1>3. e \in b .. e
    OBVIOUS
  <1>4. U \subseteq Nat /\ IsFiniteSet(U) /\ Cardinality(U) = c + (e - b + 1)
    BY <1>0, <1>2, <1>3
  <1>5. ASSUME NEW k \in 1 .. c PROVE Ascending(U)[k] = Ascending(T)[k]
    <2>1. CASE b = 0
      <3>1. T = {}
        <4>1. \A l \in T : l \in Nat /\ l < 0
          BY <1>0, <2>1
        <4>2. \A l \in T : FALSE
          BY <4>1
        <4>. QED BY <4>2
      <3>2. c = 0
        BY <3>1, FS_EmptySet
      <3>. HIDE DEF c
      <3>. QED BY <3>2
    <2>2. CASE b # 0
      <3>1. b - 1 \in Nat
        BY <2>2
      <3>2. T = AtMost(U, b - 1)
        <4>1. \A l \in T : l \in Nat /\ l < b
          BY <1>0
        <4>2. \A l \in T : l <= b - 1
          BY <4>1
        <4>3. \A l \in b .. e : ~(l <= b - 1)
          OBVIOUS
        <4>. QED BY <4>2, <4>3 DEF AtMost
      <3>3. \A i \in 1 .. Cardinality(AtMost(U, b - 1)) : Ascending(AtMost(U, b - 1))[i] = Ascending(U)[i]
        BY <1>4, <3>1, AscendingPrefix
      <3>. QED BY <3>2, <3>3
    <2>. QED BY <2>1, <2>2
  <1>6. ASSUME NEW j \in 1 .. (e - b + 1) PROVE Ascending(U)[c + j] = b - 1 + j
    <2>. DEFINE m == b - 1 + j
    <2>1. m \in b .. e /\ m \in U /\ m - b + 1 = j /\ m \in Nat
      OBVIOUS
    <2>2. AtMost(U, m) = T \cup (b .. m)
      <3>1. \A l \in T : l \in Nat /\ l < b
        BY <1>0
      <3>2. \A l \in T : l <= m
        BY <2>1, <3>1
      <3>3. \A l \in b .. e : l <= m <=> l \in b .. m
        BY <2>1
      <3>4. \A l \in b .. m : l \in b .. e
        BY <2>1
      <3>. HIDE DEF m
      <3>. QED BY <3>2, <3>3, <3>4 DEF AtMost
    <2>. HIDE DEF m
    <2>3. Rank(U, m) = c + j
      <3>1. Cardinality(T \cup (b .. m)) = c + (m - b + 1)
        BY <1>2, <2>1
      <3>. QED BY <2>1, <2>2, <3>1 DEF Rank
    <2>4. Ascending(U)[Rank(U, m)] = m
      BY <1>4, <2>1, AscendingFacts
    <2>. QED BY <2>3, <2>4 DEF m
  <1>. QED BY <1>0, <1>1, <1>4, <1>5, <1>6


\* The places up to p without a delimiter.
Clean(s, d, p) == {i \in 1 .. p : s[i] \notin d}

LEMMA CleanFacts ==
    ASSUME NEW s, NEW d, NEW p \in Nat
    PROVE  /\ Clean(s, d, p) \subseteq Nat /\ IsFiniteSet(Clean(s, d, p)) /\ Clean(s, d, p) \subseteq 1 .. p
           /\ Cardinality(Clean(s, d, p)) \in Nat
  <1>1. Clean(s, d, p) \subseteq 1 .. p /\ IsFiniteSet(1 .. p)
    BY FS_Interval DEF Clean
  <1>2. IsFiniteSet(Clean(s, d, p))
    BY <1>1, FS_Subset
  <1>3. Cardinality(Clean(s, d, p)) \in Nat
    BY <1>2, FS_CardinalityType
  <1>. QED BY <1>1, <1>2, <1>3

LEMMA KeptFacts ==
    ASSUME NEW S, NEW s \in Seq(S), NEW T \in SUBSET (1 .. Len(s))
    PROVE  /\ Kept(s, T) \in Seq(S) /\ Len(Kept(s, T)) = Cardinality(T)
           /\ \A k \in 1 .. Cardinality(T) : Kept(s, T)[k] = s[Ascending(T)[k]]
  <1>. DEFINE c == Cardinality(T)
              q == Ascending(T)
  <1>1. T \subseteq Nat /\ IsFiniteSet(T)
    <2>1. T \subseteq 1 .. Len(s) /\ IsFiniteSet(1 .. Len(s))
      BY FS_Interval
    <2>2. IsFiniteSet(T)
      BY <2>1, FS_Subset
    <2>3. T \subseteq Nat
      BY <2>1
    <2>. QED BY <2>2, <2>3
  <1>2. /\ DOMAIN q = 1 .. c /\ c \in Nat /\ \A k \in 1 .. c : q[k] \in T
    BY <1>1, AscendingFacts, FS_CardinalityType
  <1>. HIDE DEF q, c
  <1>3. Kept(s, T) = [k \in 1 .. c |-> s[q[k]]]
    BY <1>2 DEF Kept, q
  <1>4. \A k \in 1 .. c : s[q[k]] \in S
    <2>1. \A k \in 1 .. c : q[k] \in 1 .. Len(s)
      BY <1>2
    <2>. QED BY <2>1
  <1>. QED BY <1>2, <1>3, <1>4 DEF c, q

\* The piece b .. e comes behind what is kept of the places before.
LEMMA KeptRun ==
    ASSUME NEW S, NEW s \in Seq(S), NEW b \in 1 .. Len(s), NEW e \in b .. Len(s),
           NEW T \in SUBSET (1 .. (b - 1))
    PROVE  /\ Kept(s, T \cup (b .. e)) = Kept(s, T) \o Piece(s, b, e)
           /\ Cardinality(T \cup (b .. e)) = Cardinality(T) + (e - b + 1)
  <1>. DEFINE c == Cardinality(T)
              l == e - b + 1
              U == T \cup (b .. e)
  <1>1. b \in Nat /\ e \in Nat /\ b <= e /\ l \in Nat /\ T \in SUBSET (0 .. (b - 1))
    OBVIOUS
  <1>2. /\ c \in Nat /\ Cardinality(U) = c + l
        /\ \A k \in 1 .. c : Ascending(U)[k] = Ascending(T)[k]
        /\ \A j \in 1 .. l : Ascending(U)[c + j] = b - 1 + j
    BY <1>1, AscendingRun, ZenonT(60)
  <1>3. T \in SUBSET (1 .. Len(s)) /\ U \in SUBSET (1 .. Len(s))
    OBVIOUS
  <1>. HIDE DEF c, l, U
  <1>4. /\ Kept(s, T) \in Seq(S) /\ Len(Kept(s, T)) = c
        /\ \A k \in 1 .. c : Kept(s, T)[k] = s[Ascending(T)[k]]
    BY <1>3, KeptFacts DEF c
  <1>5. /\ Kept(s, U) \in Seq(S) /\ Len(Kept(s, U)) = c + l
        /\ \A k \in 1 .. (c + l) : Kept(s, U)[k] = s[Ascending(U)[k]]
    BY <1>2, <1>3, KeptFacts
  <1>6. Piece(s, b, e) \in Seq(S) /\ Len(Piece(s, b, e)) = l /\ \A j \in 1 .. l : Piece(s, b, e)[j] = s[b - 1 + j]
    BY PieceFacts DEF l
  <1>. DEFINE A == Kept(s, T)
              B == Piece(s, b, e)
              C == Kept(s, U)
  <1>. HIDE DEF A, B, C
  <1>7. /\ A \o B \in Seq(S) /\ Len(A \o B) = c + l
        /\ \A k \in 1 .. (c + l) : (A \o B)[k] = IF k <= c THEN A[k] ELSE B[k - c]
    <2>1. A \in Seq(S) /\ Len(A) = c /\ B \in Seq(S) /\ Len(B) = l
      BY <1>4, <1>6 DEF A, B
    <2>. QED BY <2>1, ConcatProperties
  <1>8. ASSUME NEW k \in 1 .. (c + l) PROVE C[k] = (A \o B)[k]
    <2>1. C[k] = s[Ascending(U)[k]]
      BY <1>5 DEF C
    <2>2. CASE k <= c
      <3>1. k \in 1 .. c
        BY <1>1, <1>2, <2>2
      <3>2. A[k] = s[Ascending(T)[k]]
        BY <1>4, <3>1 DEF A
      <3>3. Ascending(U)[k] = Ascending(T)[k]
        BY <1>2, <3>1
      <3>4. (A \o B)[k] = A[k]
        BY <1>7, <2>2
      <3>. QED BY <2>1, <3>2, <3>3, <3>4
    <2>3. CASE ~(k <= c)
      <3>1. k - c \in 1 .. l /\ c + (k - c) = k
        BY <1>1, <1>2, <2>3
      <3>2. Ascending(U)[k] = b - 1 + (k - c)
        BY <1>2, <3>1
      <3>3. B[k - c] = s[b - 1 + (k - c)]
        BY <1>6, <3>1 DEF B
      <3>4. (A \o B)[k] = B[k - c]
        BY <1>7, <2>3
      <3>. QED BY <2>1, <3>2, <3>3, <3>4
    <2>. QED BY <2>2, <2>3
  <1>9. C = A \o B
    <2>1. C \in Seq(S) /\ Len(C) = c + l
      BY <1>5 DEF C
    <2>. QED BY <1>7, <1>8, <2>1, SeqEqual
  <1>. QED BY <1>2, <1>9 DEF A, B, C, U, c, l

\* The next piece comes behind what has been kept.
LEMMA CleanPiece ==
    ASSUME NEW S, NEW s \in Seq(S), NEW d, NEW p \in 0 .. Len(s), NEW b, NEW e, NextPiece(s, d, p, b, e)
    PROVE  /\ Kept(s, Clean(s, d, e)) = Kept(s, Clean(s, d, p)) \o Piece(s, b, e)
           /\ Cardinality(Clean(s, d, e)) = Cardinality(Clean(s, d, p)) + (e - b + 1)
           /\ b \in 1 .. Len(s) /\ e \in b .. Len(s)
  <1>. DEFINE T == Clean(s, d, p)
              U == Clean(s, d, e)
  <1>1. /\ p < b /\ b <= e /\ e <= Len(s) /\ b \in Nat /\ e \in Nat /\ p \in Nat /\ Len(s) \in Nat
        /\ \A i \in (p + 1) .. (b - 1) : s[i] \in d
        /\ \A i \in b .. e : s[i] \notin d
    BY DEF NextPiece
  <1>2. b \in 1 .. Len(s) /\ e \in b .. Len(s)
    BY <1>1
  <1>3. U = T \cup (b .. e)
    <2>1. \A i \in 1 .. e : i \in 1 .. p \/ i \in (p + 1) .. (b - 1) \/ i \in b .. e
      BY <1>1
    <2>2. (\A i \in 1 .. p : i \in 1 .. e) /\ (\A i \in b .. e : i \in 1 .. e)
      BY <1>1
    <2>. QED BY <1>1, <2>1, <2>2 DEF Clean
  <1>4. T \in SUBSET (1 .. (b - 1))
    <2>1. \A i \in 1 .. p : i \in 1 .. (b - 1)
      BY <1>1
    <2>. QED BY <2>1 DEF Clean
  <1>. HIDE DEF T, U
  <1>5. Kept(s, U) = Kept(s, T) \o Piece(s, b, e) /\ Cardinality(U) = Cardinality(T) + (e - b + 1)
    BY <1>2, <1>3, <1>4, KeptRun
  <1>. QED BY <1>2, <1>5 DEF T, U

\* Nothing is kept of what is left then.
LEMMA CleanEnd ==
    ASSUME NEW S, NEW s \in Seq(S), NEW d, NEW p \in 0 .. Len(s), NothingLeft(s, d, p)
    PROVE  Clean(s, d, p) = {i \in DOMAIN s : s[i] \notin d}
  <1>1. \A i \in 1 .. Len(s) : i \in 1 .. p \/ i \in (p + 1) .. Len(s)
    OBVIOUS
  <1>2. \A i \in 1 .. p : i \in 1 .. Len(s)
    OBVIOUS
  <1>. QED BY <1>1, <1>2 DEF Clean, NothingLeft

\* A token that does not end at e is longer.
LEMMA LongToken ==
    ASSUME NEW S, NEW s \in Seq(S), NEW d, NEW p \in 0 .. Len(s), Between(s, d, p),
           NEW b, NEW e, NextPiece(s, d, p, b, e), ~EndsAt(s, d, e)
    PROVE  \E t \in Range(Tokens(s, d)) : Len(t) > e - b + 1
  <1>1. b \in Begins(s, d) /\ b \in 1 .. Len(s) /\ e \in b .. Len(s)
    <2>1. BeginsTo(s, d, e) = BeginsTo(s, d, p) \cup {b} /\ b \in 1 .. Len(s) /\ e \in b .. Len(s)
      BY NextBegin
    <2>2. b \in BeginsTo(s, d, e)
      BY <2>1
    <2>. QED BY <2>1, <2>2 DEF BeginsTo, AtMost
  <1>. DEFINE f == From(s, b - 1)
              k == strcspn(f, d)
  <1>2. /\ f \in Seq(S) /\ Len(f) = Len(s) - (b - 1) /\ Len(s) \in Nat /\ b \in Nat /\ e \in Nat
        /\ \A i \in 1 .. (Len(s) - (b - 1)) : f[i] = s[(b - 1) + i]
    BY <1>1, FromPlace
  <1>. HIDE DEF f
  <1>3. k \in 0 .. Len(f) /\ (k = Len(f) \/ f[k + 1] \in d)
    BY <1>2, StrcspnFacts
  <1>. HIDE DEF k
  <1>4. (\A i \in b .. e : s[i] \notin d) /\ e # Len(s) /\ s[e + 1] \notin d
    BY DEF NextPiece, EndsAt
  <1>5. k > e - b + 1
    <2>. SUFFICES ASSUME k <= e - b + 1 PROVE FALSE
      BY <1>1, <1>2, <1>3
    <2>1. k # Len(f) /\ k + 1 \in 1 .. (Len(s) - (b - 1)) /\ (b - 1) + (k + 1) = b + k /\ b + k \in b .. (e + 1)
      BY <1>1, <1>2, <1>3, <1>4
    <2>2. s[b + k] \in d
      BY <1>2, <1>3, <2>1
    <2>3. b + k = e + 1 \/ b + k \in b .. e
      BY <1>2, <2>1
    <2>. QED BY <1>4, <2>2, <2>3
  <1>6. Len(TokenAt(s, d, b)) = k
    <2>1. TokenAt(s, d, b) = First(f, k)
      BY DEF TokenAt, f, k
    <2>. QED BY <1>2, <1>3, <2>1, FirstFacts
  <1>7. TokenAt(s, d, b) \in Range(Tokens(s, d))
    <2>. DEFINE B == Begins(s, d)
                q == Ascending(B)
    <2>1. B \subseteq Nat /\ IsFiniteSet(B) /\ b \in B
      BY <1>1, BeginsFacts
    <2>. HIDE DEF B
    <2>2. DOMAIN q = 1 .. Cardinality(B) /\ Rank(B, b) \in 1 .. Cardinality(B) /\ q[Rank(B, b)] = b
      BY <2>1, AscendingFacts
    <2>. HIDE DEF q
    <2>3. Tokens(s, d) = [i \in DOMAIN q |-> TokenAt(s, d, q[i])]
      BY DEF Tokens, q, B
    <2>4. Rank(B, b) \in DOMAIN Tokens(s, d) /\ Tokens(s, d)[Rank(B, b)] = TokenAt(s, d, b)
      BY <2>2, <2>3
    <2>. QED BY <2>4 DEF Range
  <1>. QED BY <1>5, <1>6, <1>7
\* What a call of scan_token does that is told that there is room for n.
Scanned(s, d, p, n, buf, r) ==
    \/ ~r.ok /\ NothingLeft(s, d, p) /\ r.buf = buf
    \/ /\ r.ok /\ DOMAIN r.buf = DOMAIN buf
       /\ \E b, e \in 1 .. Len(s) :
             /\ NextPiece(s, d, p, b, e) /\ r.rest = From(s, e) /\ r.taken = Piece(s, b, e)
             /\ e - b + 1 \in 1 .. (n - 1)
             /\ EndsAt(s, d, e) => Str(r.buf) = r.taken
             /\ ~EndsAt(s, d, e) => e - b + 1 = n - 1

LEMMA ScanCall ==
    ASSUME NEW s \in Seq(Char), NEW d, NEW p \in 0 .. Len(s), NEW m \in Nat, NEW n \in 2 .. m,
           NEW buf, DOMAIN buf = 0 .. m
    PROVE  Scanned(s, d, p, n, buf, scan_token(From(s, p), d, buf, n))
  <1>. DEFINE D == 0 .. m
              r == scan_token(From(s, p), d, buf, n)
  <1>1. n \in Nat /\ n >= 2 /\ 0 .. n \subseteq D /\ D \subseteq Nat /\ DOMAIN buf = D /\ NUL \notin Char
    BY StringsAssumption
  <1>2. r = scan_token(From(s, p), d, buf, n)
    OBVIOUS
  <1>. HIDE DEF D, r
  <1>3. CASE NothingLeft(s, d, p)
    BY <1>2, <1>3, ScanNothing DEF Scanned, r
  <1>4. CASE ~NothingLeft(s, d, p)
    <2>1. \E b, e \in 1 .. Len(s) :
                /\ NextPiece(s, d, p, b, e)
                /\ r.ok /\ r.rest = From(s, e) /\ r.taken = Piece(s, b, e) /\ DOMAIN r.buf = D
                /\ e - b + 1 \in 1 .. (n - 1)
                /\ EndsAt(s, d, e) => Str(r.buf) = r.taken
                /\ ~EndsAt(s, d, e) => e - b + 1 = n - 1
      BY <1>1, <1>2, <1>4, ScanPiece, SMTT(60)
    <2>2. Scanned(s, d, p, n, buf, r)
      BY <1>1, <2>1 DEF Scanned
    <2>. QED BY <2>2 DEF r
  <1>. QED BY <1>3, <1>4

\* A sequence of whatever it holds, and one more.
Listed(o) == o \in Seq(Range(o))

LEMMA ListedEmpty == Listed(<<>>) /\ Len(<<>>) = 0
  BY DEF Listed

LEMMA ListedSeq ==
    ASSUME NEW V, NEW o \in Seq(V)
    PROVE  Listed(o)
  <1>1. \A k \in DOMAIN o : o[k] \in Range(o)
    BY DEF Range
  <1>2. o \in Seq(Range(o))
    <2>. DEFINE R == Range(o)
    <2>. HIDE DEF R
    <2>1. \A k \in 1 .. Len(o) : o[k] \in R
      BY <1>1 DEF R
    <2>2. o = [k \in 1 .. Len(o) |-> o[k]] /\ Len(o) \in Nat
      OBVIOUS
    <2>3. o \in Seq(R)
      BY <2>1, <2>2
    <2>. QED BY <2>3 DEF R
  <1>. QED BY <1>2 DEF Listed

LEMMA ListedAppend ==
    ASSUME NEW o, NEW x, NEW t, Listed(o), t = Append(o, x)
    PROVE  /\ Listed(t) /\ Len(t) = Len(o) + 1 /\ Len(o) \in Nat
           /\ DOMAIN t = 1 .. (Len(o) + 1) /\ DOMAIN o = 1 .. Len(o)
           /\ \A k \in 1 .. Len(o) : t[k] = o[k]
           /\ t[Len(o) + 1] = x
  <1>. DEFINE V == Range(o) \cup {x}
              n == Len(o)
  <1>1. o \in Seq(V) /\ x \in V
    BY DEF Listed
  <1>. HIDE DEF V
  <1>2. /\ t \in Seq(V) /\ Len(t) = n + 1 /\ n \in Nat /\ DOMAIN t = 1 .. (n + 1) /\ DOMAIN o = 1 .. n
        /\ \A k \in 1 .. n : t[k] = o[k]
        /\ t[n + 1] = x
    BY <1>1, AppendProperties
  <1>3. Listed(t)
    BY <1>2, ListedSeq
  <1>. QED BY <1>2, <1>3

\* What the calls have taken and what was in the buffer behind each.
Taken(o)  == [k \in DOMAIN o |-> o[k].taken]
Stored(o) == [k \in DOMAIN o |-> o[k].text]

\* The tokens fit into a buffer of n.
Fit(s, d, n) == \A t \in Range(Tokens(s, d)) : Len(t) < n

\* If the tokens fit, a piece that fills the buffer ends with its token.
LEMMA FittingPiece ==
    ASSUME NEW s \in Seq(Char), NEW d, NEW p \in 0 .. Len(s), Between(s, d, p), NEW n \in Nat,
           Fit(s, d, n), NEW b, NEW e, NextPiece(s, d, p, b, e), ~EndsAt(s, d, e) => e - b + 1 = n - 1
    PROVE  EndsAt(s, d, e)
  <1>. SUFFICES ASSUME ~EndsAt(s, d, e) PROVE FALSE
    OBVIOUS
  <1>1. PICK w \in Range(Tokens(s, d)) : Len(w) > e - b + 1
    BY LongToken
  <1>2. Len(w) < n
    BY DEF Fit
  <1>3. Len(w) > n - 1
    BY <1>1
  <1>4. Len(w) \in Nat
    <2>. DEFINE q == Tokens(s, d)
    <2>1. q \in Seq(Seq(Char))
      <3>1. 0 \in 0 .. Len(s)
        OBVIOUS
      <3>. QED BY <3>1, TokensType
    <2>. HIDE DEF q
    <2>2. \A k \in DOMAIN q : q[k] \in Seq(Char)
      BY <2>1
    <2>3. w \in Seq(Char)
      BY <2>2 DEF Range, q
    <2>. QED BY <2>3
  <1>. QED BY <1>2, <1>3, <1>4

\* What has been printed when the scanner is at the place behind p of s.
Split(s, d, n, o, p) ==
    /\ Listed(o)
    /\ \A k \in DOMAIN o : o[k].taken \in Seq(Char) /\ Len(o[k].taken) \in 1 .. (n - 1)
    /\ FlattenSeq(Taken(o)) = Kept(s, Clean(s, d, p))
    /\ Fit(s, d, n) => Between(s, d, p) /\ Stored(o) = TokensTo(s, d, p)

LEMMA SplitStart ==
    ASSUME NEW s \in Seq(Char), NEW d, NEW n
    PROVE  Split(s, d, n, <<>>, 0)
  <1>1. DOMAIN <<>> = {}
    OBVIOUS
  <1>2. Taken(<<>>) = <<>> /\ Stored(<<>>) = <<>>
    <2>1. Taken(<<>>) = [k \in {} |-> <<>>[k].taken]
      BY <1>1 DEF Taken
    <2>2. Stored(<<>>) = [k \in {} |-> <<>>[k].text]
      BY <1>1 DEF Stored
    <2>. QED BY <2>1, <2>2
  <1>3. FlattenSeq(<<>>) = <<>>
    <2>1. <<>> \in Seq(Seq(Char)) /\ Len(<<>>) = 0
      OBVIOUS
    <2>. QED BY <2>1, FlattenType
  <1>4. Kept(s, Clean(s, d, 0)) = <<>>
    <2>1. Clean(s, d, 0) = {}
      BY DEF Clean
    <2>2. Kept(s, {}) = [k \in DOMAIN <<>> |-> s[<<>>[k]]]
      BY AscendingEmpty DEF Kept
    <2>3. Kept(s, {}) = <<>>
      BY <1>1, <2>2
    <2>. QED BY <2>1, <2>3
  <1>. QED BY <1>1, <1>2, <1>3, <1>4, ListedEmpty, NoTokensYet DEF Split

LEMMA SplitNext ==
    ASSUME NEW s \in Seq(Char), NEW d, NEW n \in Nat, n >= 2, NEW o, NEW p \in 0 .. Len(s),
           Split(s, d, n, o, p), NEW b, NEW e, NextPiece(s, d, p, b, e), NEW x,
           x.taken = Piece(s, b, e), e - b + 1 \in 1 .. (n - 1),
           EndsAt(s, d, e) => x.text = x.taken, ~EndsAt(s, d, e) => e - b + 1 = n - 1
    PROVE  Split(s, d, n, Append(o, x), e)
  <1>. DEFINE t == Append(o, x)
              l == Len(o)
  <1>1. /\ Listed(t) /\ l \in Nat /\ DOMAIN t = 1 .. (l + 1) /\ DOMAIN o = 1 .. l
        /\ \A k \in 1 .. l : t[k] = o[k]
        /\ t[l + 1] = x
    <2>1. Listed(o) /\ t = Append(o, x)
      BY DEF Split
    <2>. HIDE DEF t
    <2>2. Listed(t) /\ Len(o) \in Nat /\ DOMAIN t = 1 .. (Len(o) + 1) /\ DOMAIN o = 1 .. Len(o)
      BY <2>1, ListedAppend
    <2>3. \A k \in 1 .. Len(o) : t[k] = o[k]
      BY <2>1, ListedAppend
    <2>4. t[Len(o) + 1] = x
      BY <2>1, ListedAppend
    <2>. QED BY <2>2, <2>3, <2>4
  <1>. HIDE DEF t, l
  <1>2. b \in 1 .. Len(s) /\ e \in b .. Len(s) /\ Kept(s, Clean(s, d, e)) = Kept(s, Clean(s, d, p)) \o Piece(s, b, e)
    BY CleanPiece
  <1>3. x.taken \in Seq(Char) /\ Len(x.taken) \in 1 .. (n - 1)
    BY <1>2, PieceFacts, SMTT(60)
  <1>4. \A k \in 1 .. (l + 1) : k \in 1 .. l \/ k = l + 1
    BY <1>1
  <1>5. \A k \in DOMAIN t : t[k].taken \in Seq(Char) /\ Len(t[k].taken) \in 1 .. (n - 1)
    <2>1. \A k \in 1 .. l : o[k].taken \in Seq(Char) /\ Len(o[k].taken) \in 1 .. (n - 1)
      BY <1>1 DEF Split
    <2>. QED BY <1>1, <1>3, <1>4, <2>1
  <1>6. FlattenSeq(Taken(t)) = Kept(s, Clean(s, d, e))
    <2>. DEFINE A == Taken(o)
                B == Taken(t)
    <2>1. A \in Seq(Seq(Char)) /\ Len(A) = l /\ \A k \in 1 .. l : A[k] = o[k].taken
      <3>1. A = [k \in 1 .. l |-> o[k].taken] /\ \A k \in 1 .. l : o[k].taken \in Seq(Char)
        BY <1>1 DEF Taken, Split
      <3>2. A \in [1 .. l -> Seq(Char)] /\ l \in Nat /\ \A k \in 1 .. l : A[k] = o[k].taken
        BY <1>1, <3>1
      <3>. HIDE DEF A
      <3>. QED BY <3>2
    <2>2. B \in Seq(Seq(Char)) /\ Len(B) = l + 1 /\ \A k \in 1 .. (l + 1) : B[k] = t[k].taken
      <3>. HIDE DEF A
      <3>1. B = [k \in 1 .. (l + 1) |-> t[k].taken] /\ l + 1 \in Nat
        BY <1>1 DEF Taken
      <3>a. \A k \in 1 .. (l + 1) : t[k].taken \in Seq(Char)
        BY <1>1, <1>5
      <3>2. /\ B \in [1 .. (l + 1) -> Seq(Char)] /\ l + 1 \in Nat
            /\ \A k \in 1 .. (l + 1) : B[k] = t[k].taken
        BY <3>1, <3>a
      <3>. HIDE DEF B
      <3>. QED BY <3>2, SMTT(60)
    <2>. HIDE DEF A, B
    <2>3. B = Append(A, x.taken)
      <3>. DEFINE C == Append(A, x.taken)
      <3>1. /\ C \in Seq(Seq(Char)) /\ Len(C) = l + 1 /\ C[l + 1] = x.taken
            /\ \A k \in 1 .. l : C[k] = A[k]
        BY <1>3, <2>1, AppendProperties
      <3>. HIDE DEF C
      <3>2. ASSUME NEW k \in 1 .. (l + 1) PROVE B[k] = C[k]
        <4>1. k = l + 1 => t[k] = x /\ C[k] = x.taken
          BY <1>1, <3>1
        <4>2. k # l + 1 => k \in 1 .. l /\ t[k] = o[k]
          BY <1>1, <1>4
        <4>3. k \in 1 .. l => C[k] = o[k].taken
          BY <2>1, <3>1
        <4>. QED BY <2>2, <4>1, <4>2, <4>3
      <3>3. B = C
        BY <2>2, <3>1, <3>2, SeqEqual
      <3>. QED BY <3>3 DEF C
    <2>4. FlattenSeq(B) = FlattenSeq(A) \o x.taken
      BY <1>3, <2>1, <2>3, FlattenAppend
    <2>5. FlattenSeq(A) = Kept(s, Clean(s, d, p))
      BY DEF Split, A
    <2>. QED BY <1>2, <2>4, <2>5 DEF B
  <1>7. ASSUME Fit(s, d, n) PROVE Between(s, d, e) /\ Stored(t) = TokensTo(s, d, e)
    <2>1. Between(s, d, p) /\ Stored(o) = TokensTo(s, d, p)
      BY <1>7 DEF Split
    <2>2. EndsAt(s, d, e)
      BY <1>7, <2>1, FittingPiece
    <2>3. TokensTo(s, d, e) = Append(TokensTo(s, d, p), Piece(s, b, e)) /\ Between(s, d, e)
      BY <2>1, <2>2, NextToken
    <2>4. x.text = Piece(s, b, e)
      BY <2>2
    <2>5. Stored(t) = Append(Stored(o), x.text)
      <3>. DEFINE A == Stored(o)
                  B == Stored(t)
                  V == Range(B)
                  C == Append(A, x.text)
      <3>1. A = [k \in 1 .. l |-> o[k].text] /\ B = [k \in 1 .. (l + 1) |-> t[k].text]
        BY <1>1 DEF Stored
      <3>. HIDE DEF A, B
      <3>2. /\ B \in Seq(V) /\ Len(B) = l + 1 /\ \A k \in 1 .. (l + 1) : B[k] = t[k].text /\ B[k] \in V
        <4>1. \A k \in 1 .. (l + 1) : B[k] \in V
          BY <3>1 DEF Range
        <4>. HIDE DEF V
        <4>. QED BY <1>1, <3>1, <4>1
      <3>. HIDE DEF V
      <3>3. x.text \in V
        <4>1. l + 1 \in 1 .. (l + 1)
          BY <1>1
        <4>. QED BY <1>1, <3>2, <4>1
      <3>4. A \in Seq(V) /\ Len(A) = l /\ \A k \in 1 .. l : A[k] = B[k]
        <4>1. \A k \in 1 .. l : k \in 1 .. (l + 1)
          BY <1>1
        <4>2. \A k \in 1 .. l : A[k] = B[k] /\ A[k] \in V
          BY <1>1, <3>1, <3>2, <4>1
        <4>. HIDE DEF C
        <4>3. A \in [1 .. l -> V] /\ l \in Nat
          BY <1>1, <3>1, <4>2
        <4>. QED BY <4>2, <4>3
      <3>5. C \in Seq(V) /\ Len(C) = l + 1 /\ C[l + 1] = x.text /\ \A k \in 1 .. l : C[k] = A[k]
        BY <3>3, <3>4, AppendProperties
      <3>. HIDE DEF C
      <3>6. \A k \in 1 .. (l + 1) : B[k] = C[k]
        BY <1>1, <1>4, <3>2, <3>4, <3>5
      <3>7. B = C
        BY <3>2, <3>5, <3>6, SeqEqual
      <3>. QED BY <3>7 DEF A, B, C
    <2>. QED BY <2>1, <2>3, <2>4, <2>5
  <1>. QED BY <1>1, <1>5, <1>6, <1>7 DEF Split, t

TokenizeInv ==
    "buflen" \in DOMAIN arg =>
        LET s == arg.input  d == arg.delimiters  n == arg.buflen
        IN  /\ s \in Seq(Char) /\ n \in Nat /\ n >= 2 /\ pc \in {"tokenize", "done"}
            /\ \E p \in 0 .. Len(s) :
                  /\ Split(s, d, n, out, p)
                  /\ pc = "tokenize" => \E buf : /\ loc = [remaining |-> From(s, p), buf |-> buf]
                                                 /\ DOMAIN buf = 0 .. n
                  /\ pc = "done" => NothingLeft(s, d, p)

LEMMA TokenizeInit == Init => TokenizeInv
  <1>. SUFFICES ASSUME TokenizeMain PROVE TokenizeInv
    BY Mains DEF TokenizeInv
  <1>1. PICK s \in Texts, d \in Delimiters, n \in Lengths :
            /\ pc = "tokenize" /\ arg = [input |-> s, delimiters |-> d, buflen |-> n]
            /\ loc = [remaining |-> s, buf |-> Buffer(n)] /\ out = <<>>
    BY DEF TokenizeMain, Starts
  <1>2. s \in Seq(Char) /\ n \in Nat /\ n >= 2 /\ Len(s) \in Nat
    BY StringsAssumption
  <1>3. 0 \in 0 .. Len(s) /\ From(s, 0) = s
    BY <1>2, FromZero
  <1>4. DOMAIN Buffer(n) = 0 .. n
    BY DEF Buffer
  <1>5. Split(s, d, n, <<>>, 0)
    BY <1>2, SplitStart
  <1>. QED BY <1>1, <1>2, <1>3, <1>4, <1>5 DEF TokenizeInv

LEMMA TokenizeNext == TokenizeInv /\ [Next]_vars => TokenizeInv'
  <1>. SUFFICES ASSUME TokenizeInv, [Next]_vars, "buflen" \in DOMAIN arg PROVE TokenizeInv'
    BY ArgKept DEF TokenizeInv
  <1>. DEFINE s == arg.input
              d == arg.delimiters
              n == arg.buflen
  <1>1. arg' = arg /\ (UNCHANGED vars \/ (pc = "tokenize" /\ Tokenize))
    <2>1. pc \in {"tokenize", "done"}
      BY DEF TokenizeInv
    <2>. QED BY <2>1, ArgKept, StringSteps, WordSteps, ArraySteps DEF Next, Exit, vars, Ended
  <1>2. CASE UNCHANGED vars
    BY <1>1, <1>2 DEF TokenizeInv, vars
  <1>3. CASE pc = "tokenize" /\ Tokenize
    <2>1. s \in Seq(Char) /\ n \in Nat /\ n >= 2 /\ NUL \notin Char /\ Len(s) \in Nat
      BY StringsAssumption DEF TokenizeInv
    <2>2. PICK p \in 0 .. Len(s) :
              /\ Split(s, d, n, out, p)
              /\ \E buf : loc = [remaining |-> From(s, p), buf |-> buf] /\ DOMAIN buf = 0 .. n
      BY <1>3 DEF TokenizeInv
    <2>3. loc.remaining = From(s, p) /\ DOMAIN loc.buf = 0 .. n
      BY <2>2
    <2>. DEFINE r == scan_token(loc.remaining, d, loc.buf, n)
                x == [text |-> Str(r.buf), taken |-> r.taken]
    <2>4. /\ loc' = [remaining |-> r.rest, buf |-> r.buf]
          /\ r.ok => out' = Append(out, x) /\ pc' = "tokenize"
          /\ ~r.ok => pc' = "done" /\ out' = out
      BY <1>3 DEF Tokenize
    <2>5. r = scan_token(From(s, p), d, loc.buf, n)
      BY <2>3
    <2>. HIDE DEF r
    <2>6. Scanned(s, d, p, n, loc.buf, r)
      <3>. DEFINE buf == loc.buf
      <3>1. n \in Nat /\ n \in 2 .. n /\ DOMAIN buf = 0 .. n /\ p \in 0 .. Len(s)
        BY <2>1, <2>2, <2>3
      <3>. HIDE DEF s, d, n, buf
      <3>2. Scanned(s, d, p, n, buf, scan_token(From(s, p), d, buf, n))
        BY <2>1, <3>1, ScanCall
      <3>. QED BY <2>5, <3>2 DEF buf
    <2>7. CASE ~r.ok
      <3>1. NothingLeft(s, d, p)
        BY <2>6, <2>7 DEF Scanned
      <3>. QED BY <1>1, <2>1, <2>2, <2>4, <2>7, <3>1 DEF TokenizeInv
    <2>8. CASE r.ok
      <3>1. PICK b \in 1 .. Len(s), e \in 1 .. Len(s) :
                /\ NextPiece(s, d, p, b, e)
                /\ r.rest = From(s, e) /\ r.taken = Piece(s, b, e) /\ DOMAIN r.buf = 0 .. n
                /\ e - b + 1 \in 1 .. (n - 1)
                /\ EndsAt(s, d, e) => Str(r.buf) = r.taken
                /\ ~EndsAt(s, d, e) => e - b + 1 = n - 1
        BY <2>3, <2>6, <2>8 DEF Scanned
      <3>2. Split(s, d, n, Append(out, x), e)
        <4>1. x.taken = Piece(s, b, e) /\ (EndsAt(s, d, e) => x.text = x.taken)
          BY <3>1
        <4>. HIDE DEF x, s, d, n
        <4>. QED BY <2>1, <2>2, <3>1, <4>1, SplitNext
      <3>3. e \in 0 .. Len(s) /\ pc' = "tokenize" /\ out' = Append(out, x)
            /\ loc' = [remaining |-> From(s, e), buf |-> r.buf] /\ DOMAIN r.buf = 0 .. n
        BY <2>1, <2>4, <2>8, <3>1
      <3>. QED BY <1>1, <2>1, <3>2, <3>3 DEF TokenizeInv
    <2>. QED BY <2>7, <2>8
  <1>. QED BY <1>1, <1>2, <1>3

LEMMA TokenizeHolds ==
    ASSUME TokenizeInv, pc = "done", "buflen" \in DOMAIN arg
    PROVE  /\ FlattenSeq([k \in DOMAIN out |-> out[k].taken])
                = Kept(arg.input, {i \in DOMAIN arg.input : arg.input[i] \notin arg.delimiters})
           /\ \A k \in DOMAIN out : Len(out[k].taken) \in 1 .. (arg.buflen - 1)
           /\ (\A t \in Range(Tokens(arg.input, arg.delimiters)) : Len(t) < arg.buflen) =>
                 [k \in DOMAIN out |-> out[k].text] = Tokens(arg.input, arg.delimiters)
  <1>. DEFINE s == arg.input
              d == arg.delimiters
              n == arg.buflen
  <1>1. s \in Seq(Char)
    BY DEF TokenizeInv
  <1>2. PICK p \in 0 .. Len(s) : Split(s, d, n, out, p) /\ NothingLeft(s, d, p)
    BY DEF TokenizeInv
  <1>3. Clean(s, d, p) = {i \in DOMAIN s : s[i] \notin d} /\ TokensTo(s, d, p) = Tokens(s, d)
    BY <1>1, <1>2, CleanEnd, NoToken
  <1>. QED BY <1>2, <1>3 DEF Split, Taken, Stored, Fit
-----------------------------------------------------------------------------
(* fixed_test.                                                             *)

\* A word y's line w: its syllables, if they fit, and its letters.
Counted(y, w) ==
    /\ Fit(w, {Dash}, SUB) => y[1] = Len(Tokens(w, {Dash}))
    /\ y[2] = Cardinality({i \in DOMAIN w : w[i] # Dash})

\* The word that is counted after n others.
WordAfter(s, n) == Tokens(s, {Space})[n + 1]

\* Where the scanner of the word is, and what it has counted.
AtSyllable(w, q, ns, nl) ==
    /\ Fit(w, {Dash}, SUB) => Between(w, {Dash}, q) /\ ns = Cardinality(BeginsTo(w, {Dash}, q))
    /\ nl = 0

AtLetter(w, q, ns, nl) ==
    /\ Fit(w, {Dash}, SUB) => ns = Len(Tokens(w, {Dash}))
    /\ nl = Cardinality(Clean(w, {Dash}, q))

\* In the middle of word w of s, behind its place q.
Inside(s, p, w, q, sub, ns, nl) ==
    /\ loc = [input |-> From(s, p), word |-> w, next |-> From(w, q), sub |-> sub,
              nsyllables |-> ns, nletters |-> nl]
    /\ DOMAIN sub = 0 .. SUB
    /\ Between(s, {Space}, p) /\ Cardinality(BeginsTo(s, {Space}, p)) = Len(out) + 1
    /\ pc = "syllables" => AtSyllable(w, q, ns, nl)
    /\ pc = "letters" => AtLetter(w, q, ns, nl)

FixedInv ==
    DOMAIN arg = {"input"} =>
        LET s == arg.input
        IN  /\ s \in Seq(Char) /\ pc \in {"words", "syllables", "letters", "done"}
            /\ Listed(out) /\ \A k \in DOMAIN out : Counted(out[k], Tokens(s, {Space})[k])
            /\ pc = "words" =>
                  \E p \in 0 .. Len(s) : /\ loc.input = From(s, p) /\ Between(s, {Space}, p)
                                         /\ Cardinality(BeginsTo(s, {Space}, p)) = Len(out)
            /\ pc \in {"syllables", "letters"} =>
                  LET w == WordAfter(s, Len(out))
                  IN  /\ w \in Seq(Char)
                      /\ \E p \in 0 .. Len(s), q \in 0 .. Len(w) :
                            \E sub, ns, nl : Inside(s, p, w, q, sub, ns, nl)
            /\ pc = "done" => Len(out) = Len(Tokens(s, {Space}))

LEMMA FixedInit == Init => FixedInv
  <1>. SUFFICES ASSUME FixedTest PROVE FixedInv
    BY Mains DEF FixedInv
  <1>1. PICK s \in Texts : pc = "words" /\ arg = [input |-> s] /\ loc = [input |-> s] /\ out = <<>>
    BY DEF FixedTest, Starts
  <1>2. s \in Seq(Char) /\ Len(s) \in Nat
    BY StringsAssumption
  <1>3. 0 \in 0 .. Len(s) /\ From(s, 0) = s /\ Between(s, {Space}, 0) /\ Cardinality(BeginsTo(s, {Space}, 0)) = 0
    BY <1>2, FromZero, NoTokensYet
  <1>4. DOMAIN out = {} /\ Listed(out) /\ Len(out) = 0
    BY <1>1, ListedEmpty
  <1>. QED BY <1>1, <1>2, <1>3, <1>4 DEF FixedInv

\* A further word, in a buffer that is longer than the line.
LEMMA FixedWord ==
    ASSUME FixedInv, DOMAIN arg = {"input"}, arg' = arg, pc = "words", NextWord
    PROVE  FixedInv'
  <1>. DEFINE s == arg.input
              d == {Space}
              n == Len(out)
              r == scan_token(loc.input, d, Buffer(Len(s) + 1), Len(s) + 1)
  <1>1. s \in Seq(Char) /\ NUL \notin Char /\ Listed(out) /\ \A k \in DOMAIN out : Counted(out[k], Tokens(s, d)[k])
    BY StringsAssumption DEF FixedInv
  <1>2. PICK p \in 0 .. Len(s) : /\ loc.input = From(s, p) /\ Between(s, d, p)
                                 /\ Cardinality(BeginsTo(s, d, p)) = n
    BY DEF FixedInv
  <1>3. /\ r.ok => /\ loc' = [input |-> r.rest, word |-> Str(r.buf), next |-> Str(r.buf),
                              sub |-> Buffer(SUB), nsyllables |-> 0, nletters |-> 0]
                   /\ pc' = "syllables"
        /\ ~r.ok => pc' = "done"
        /\ out' = out
    BY DEF NextWord
  <1>4. \/ ~r.ok /\ NothingLeft(s, d, p)
        \/ /\ r.ok /\ Str(r.buf) \in Seq(Char)
           /\ \E e \in 0 .. Len(s) :
                 /\ r.rest = From(s, e) /\ Between(s, d, e)
                 /\ Cardinality(BeginsTo(s, d, e)) = n + 1
                 /\ Tokens(s, d)[n + 1] = Str(r.buf)
    <2>1. r = scan_token(From(s, p), d, Buffer(Len(s) + 1), Len(s) + 1)
      BY <1>2
    <2>2. p \in 0 .. Len(s)
      OBVIOUS
    <2>. HIDE DEF r, s, d, n
    <2>. QED BY <1>1, <1>2, <2>1, <2>2, WholeToken
  <1>. HIDE DEF r
  <1>5. CASE ~r.ok
    <2>1. TokensTo(s, d, p) = Tokens(s, d)
      BY <1>1, <1>4, <1>5, NoToken
    <2>2. Len(TokensTo(s, d, p)) = n
      BY <1>1, <1>2, TokensToFacts
    <2>3. pc' = "done" /\ out' = out /\ Len(out) = Len(Tokens(s, d))
      BY <1>3, <1>5, <2>1, <2>2
    <2>. QED BY <1>1, <2>3 DEF FixedInv
  <1>6. CASE r.ok
    <2>. DEFINE w == WordAfter(s, n)
    <2>1. PICK e \in 0 .. Len(s) : /\ r.rest = From(s, e) /\ Between(s, d, e)
                                   /\ Cardinality(BeginsTo(s, d, e)) = n + 1
                                   /\ w = Str(r.buf) /\ w \in Seq(Char)
      BY <1>4, <1>6 DEF WordAfter
    <2>2. 0 \in 0 .. Len(w) /\ From(w, 0) = w /\ Between(w, {Dash}, 0) /\ Cardinality(BeginsTo(w, {Dash}, 0)) = 0
      <3>1. w \in Seq(Char)
        BY <2>1
      <3>. HIDE DEF w
      <3>2. 0 \in 0 .. Len(w)
        BY <3>1
      <3>. QED BY <3>1, <3>2, FromZero, NoTokensYet
    <2>3. DOMAIN Buffer(SUB) = 0 .. SUB
      BY DEF Buffer
    <2>4. Inside(s, e, w, 0, Buffer(SUB), 0, 0)'
      <3>1. loc' = [input |-> From(s, e), word |-> w, next |-> From(w, 0), sub |-> Buffer(SUB),
                    nsyllables |-> 0, nletters |-> 0]
        BY <1>3, <1>6, <2>1, <2>2
      <3>2. pc' = "syllables" /\ out' = out
        BY <1>3, <1>6
      <3>3. AtSyllable(w, 0, 0, 0)
        BY <2>2 DEF AtSyllable
      <3>4. w' = w /\ s' = s
        BY <3>2 DEF WordAfter
      <3>. HIDE DEF w, s
      <3>. QED BY <2>1, <2>3, <3>1, <3>2, <3>3, <3>4 DEF Inside
    <2>5. pc' = "syllables" /\ out' = out
      BY <1>3, <1>6
    <2>6. (w \in Seq(Char))' /\ (\E q1 \in 0 .. Len(s), q2 \in 0 .. Len(w) :
                            \E sub, ns, nl : Inside(s, q1, w, q2, sub, ns, nl))'
      BY <2>1, <2>2, <2>4, <2>5
    <2>. QED BY <1>1, <2>5, <2>6 DEF FixedInv
  <1>. QED BY <1>5, <1>6

LEMMA FixedSyllable ==
    ASSUME FixedInv, DOMAIN arg = {"input"}, arg' = arg, pc = "syllables", NextSyllable
    PROVE  FixedInv'
  <1>. DEFINE s == arg.input
              w == WordAfter(s, Len(out))
              d == {Dash}
  <1>1. s \in Seq(Char) /\ w \in Seq(Char) /\ Listed(out)
        /\ \A k \in DOMAIN out : Counted(out[k], Tokens(s, {Space})[k])
    BY DEF FixedInv
  <1>2. \E p \in 0 .. Len(s), q \in 0 .. Len(w) : \E sub, ns, nl : Inside(s, p, w, q, sub, ns, nl)
    BY DEF FixedInv
  <1>. HIDE DEF w
  <1>3. PICK p \in 0 .. Len(s), q \in 0 .. Len(w) : \E sub, ns, nl : Inside(s, p, w, q, sub, ns, nl)
    BY <1>2
  <1>4. PICK sub, ns, nl : Inside(s, p, w, q, sub, ns, nl)
    BY <1>3
  <1>5. /\ loc = [input |-> From(s, p), word |-> w, next |-> From(w, q), sub |-> sub,
                  nsyllables |-> ns, nletters |-> nl]
        /\ DOMAIN sub = 0 .. SUB /\ AtSyllable(w, q, ns, nl)
        /\ Between(s, {Space}, p) /\ Cardinality(BeginsTo(s, {Space}, p)) = Len(out) + 1
    BY <1>4 DEF Inside
  <1>. DEFINE r == scan_token(loc.next, d, loc.sub, SUB)
  <1>6. /\ loc' = [loc EXCEPT !.sub = r.buf,
                              !.next = IF r.ok THEN r.rest ELSE loc.word,
                              !.nsyllables = IF r.ok THEN @ + 1 ELSE @]
        /\ pc' = (IF r.ok THEN "syllables" ELSE "letters") /\ out' = out
    BY DEF NextSyllable
  <1>7. Scanned(w, d, q, SUB, sub, r)
    <2>1. r = scan_token(From(w, q), d, sub, SUB) /\ SUB \in 2 .. SUB /\ SUB \in Nat
      BY <1>5, StringsAssumption
    <2>. HIDE DEF r, d
    <2>2. Scanned(w, d, q, SUB, sub, scan_token(From(w, q), d, sub, SUB))
      BY <1>1, <1>5, <2>1, ScanCall
    <2>. QED BY <2>1, <2>2
  <1>. HIDE DEF r
  <1>8. \E q2 \in 0 .. Len(w) : \E sub2, ns2, nl2 : Inside(s, p, w, q2, sub2, ns2, nl2)'
    <2>0. s' = s /\ w' = w /\ Len(w) \in Nat
      BY <1>1, <1>6 DEF w
    <2>. HIDE DEF s
    <2>1. CASE ~r.ok
      <3>0. NothingLeft(w, d, q) /\ r.buf = sub
        BY <1>7, <2>1 DEF Scanned
      <3>1. /\ loc' = [input |-> From(s, p), word |-> w, next |-> w, sub |-> sub,
                       nsyllables |-> ns, nletters |-> nl]
            /\ pc' = "letters" /\ out' = out
        BY <1>5, <1>6, <2>1, <3>0
      <3>2. From(w, 0) = w /\ 0 \in 0 .. Len(w)
        BY <1>1, <2>0, FromZero
      <3>3. AtLetter(w, 0, ns, nl)
        <4>1. Clean(w, d, 0) = {}
          BY DEF Clean
        <4>2. nl = Cardinality(Clean(w, d, 0))
          BY <1>5, <4>1, FS_EmptySet DEF AtSyllable
        <4>3. TokensTo(w, d, q) = Tokens(w, d) /\ Len(TokensTo(w, d, q)) = Cardinality(BeginsTo(w, d, q))
          BY <1>1, <3>0, NoToken, TokensToFacts
        <4>. QED BY <1>5, <4>2, <4>3 DEF AtSyllable, AtLetter
      <3>4. Inside(s, p, w, 0, sub, ns, nl)'
        BY <1>5, <2>0, <3>1, <3>2, <3>3 DEF Inside
      <3>. QED BY <3>2, <3>4
    <2>2. CASE r.ok
      <3>1. PICK b \in 1 .. Len(w), e \in 1 .. Len(w) :
                         /\ NextPiece(w, d, q, b, e) /\ r.rest = From(w, e) /\ DOMAIN r.buf = 0 .. SUB
                         /\ ~EndsAt(w, d, e) => e - b + 1 = SUB - 1
        BY <1>5, <1>7, <2>2 DEF Scanned
      <3>. PICK held : held = r.buf
        OBVIOUS
      <3>2. /\ loc' = [input |-> From(s, p), word |-> w, next |-> From(w, e), sub |-> held,
                       nsyllables |-> ns + 1, nletters |-> nl]
            /\ pc' = "syllables" /\ out' = out
        BY <1>5, <1>6, <2>2, <3>1
      <3>3. AtSyllable(w, e, ns + 1, nl)
        <4>. SUFFICES ASSUME Fit(w, d, SUB)
                      PROVE  Between(w, d, e) /\ ns + 1 = Cardinality(BeginsTo(w, d, e))
          BY <1>5 DEF AtSyllable
        <4>1. Between(w, d, q) /\ ns = Cardinality(BeginsTo(w, d, q))
          BY <1>5 DEF AtSyllable
        <4>2. EndsAt(w, d, e)
          BY <1>1, <3>1, <4>1, FittingPiece, StringsAssumption
        <4>. QED BY <1>1, <3>1, <4>1, <4>2, NextToken
      <3>4. e \in 0 .. Len(w)
        BY <2>0
      <3>5. Inside(s, p, w, e, held, ns + 1, nl)'
        BY <1>5, <2>0, <3>1, <3>2, <3>3 DEF Inside
      <3>. QED BY <3>4, <3>5
    <2>. QED BY <2>1, <2>2
  <1>9. pc' \in {"syllables", "letters"} /\ out' = out /\ s' = s /\ w' = w
    BY <1>6 DEF w
  <1>10. w' \in Seq(Char) /\ (\E q1 \in 0 .. Len(s), q2 \in 0 .. Len(w) :
                         \E sub2, ns2, nl2 : Inside(s, q1, w, q2, sub2, ns2, nl2))'
    BY <1>1, <1>8, <1>9
  <1>. QED BY <1>1, <1>9, <1>10 DEF FixedInv, w

LEMMA FixedLetter ==
    ASSUME FixedInv, DOMAIN arg = {"input"}, arg' = arg, pc = "letters", NextLetter
    PROVE  FixedInv'
  <1>. DEFINE s == arg.input
              w == WordAfter(s, Len(out))
              d == {Dash}
              n == Len(out)
  <1>1. s \in Seq(Char) /\ w \in Seq(Char) /\ Listed(out)
        /\ \A k \in DOMAIN out : Counted(out[k], Tokens(s, {Space})[k])
    BY DEF FixedInv
  <1>2. \E p \in 0 .. Len(s), q \in 0 .. Len(w) : \E sub, ns, nl : Inside(s, p, w, q, sub, ns, nl)
    BY DEF FixedInv
  <1>. HIDE DEF w
  <1>3. PICK p \in 0 .. Len(s), q \in 0 .. Len(w) : \E sub, ns, nl : Inside(s, p, w, q, sub, ns, nl)
    BY <1>2
  <1>4. PICK sub, ns, nl : Inside(s, p, w, q, sub, ns, nl)
    BY <1>3
  <1>5. /\ loc = [input |-> From(s, p), word |-> w, next |-> From(w, q), sub |-> sub,
                  nsyllables |-> ns, nletters |-> nl]
        /\ DOMAIN sub = 0 .. SUB /\ AtLetter(w, q, ns, nl)
        /\ Between(s, {Space}, p) /\ Cardinality(BeginsTo(s, {Space}, p)) = n + 1
    BY <1>4 DEF Inside
  <1>. DEFINE r == scan_token(loc.next, d, loc.sub, 2)
  <1>6. /\ r.ok => /\ loc' = [loc EXCEPT !.sub = r.buf, !.next = r.rest, !.nletters = @ + 1]
                   /\ pc' = "letters" /\ out' = out
        /\ ~r.ok => /\ out' = Append(out, <<loc.nsyllables, loc.nletters>>)
                    /\ pc' = "words" /\ loc' = loc
    BY DEF NextLetter
  <1>7. Scanned(w, d, q, 2, sub, r)
    <2>1. r = scan_token(From(w, q), d, sub, 2) /\ 2 \in 2 .. SUB /\ SUB \in Nat
      BY <1>5, StringsAssumption
    <2>. HIDE DEF r, d
    <2>2. Scanned(w, d, q, 2, sub, scan_token(From(w, q), d, sub, 2))
      BY <1>1, <1>5, <2>1, ScanCall
    <2>. QED BY <2>1, <2>2
  <1>. HIDE DEF r
  <1>8. CASE r.ok
    <2>1. PICK b \in 1 .. Len(w), e \in 1 .. Len(w) :
                       /\ NextPiece(w, d, q, b, e) /\ r.rest = From(w, e) /\ DOMAIN r.buf = 0 .. SUB
                       /\ e - b + 1 \in 1 .. (2 - 1)
      BY <1>5, <1>7, <1>8 DEF Scanned
    <2>. PICK held : held = r.buf
      OBVIOUS
    <2>2. /\ loc' = [input |-> From(s, p), word |-> w, next |-> From(w, e), sub |-> held,
                     nsyllables |-> ns, nletters |-> nl + 1]
          /\ pc' = "letters" /\ out' = out
      BY <1>5, <1>6, <1>8, <2>1
    <2>3. AtLetter(w, e, ns, nl + 1)
      <3>1. Cardinality(Clean(w, d, e)) = Cardinality(Clean(w, d, q)) + (e - b + 1)
        BY <1>1, <2>1, CleanPiece
      <3>2. e - b + 1 = 1
        BY <2>1
      <3>. QED BY <1>5, <3>1, <3>2 DEF AtLetter
    <2>4. e \in 0 .. Len(w) /\ s' = s /\ w' = w
      BY <1>1, <2>2 DEF w
    <2>5. Inside(s, p, w, e, held, ns, nl + 1)'
      <3>. HIDE DEF s
      <3>. QED BY <1>5, <2>1, <2>2, <2>3, <2>4 DEF Inside
    <2>6. w' \in Seq(Char) /\ (\E q1 \in 0 .. Len(s), q2 \in 0 .. Len(w) :
                         \E sub2, ns2, nl2 : Inside(s, q1, w, q2, sub2, ns2, nl2))'
      BY <1>1, <2>4, <2>5
    <2>. QED BY <1>1, <2>2, <2>6 DEF FixedInv, w
  <1>9. CASE ~r.ok
    <2>. DEFINE x == <<ns, nl>>
    <2>1. out' = Append(out, x) /\ pc' = "words" /\ loc' = loc /\ loc.input = From(s, p)
      BY <1>5, <1>6, <1>9
    <2>2. /\ Listed(out') /\ Len(out') = n + 1 /\ n \in Nat /\ DOMAIN out' = 1 .. (n + 1)
          /\ DOMAIN out = 1 .. n /\ (\A k \in 1 .. n : out'[k] = out[k]) /\ out'[n + 1] = x
      <3>. DEFINE t == out'
      <3>1. Listed(out) /\ t = Append(out, x)
        BY <1>1, <2>1
      <3>. HIDE DEF x, t
      <3>2. Listed(t) /\ Len(t) = n + 1 /\ n \in Nat /\ DOMAIN t = 1 .. (n + 1) /\ DOMAIN out = 1 .. n
        BY <3>1, ListedAppend
      <3>3. \A k \in 1 .. n : t[k] = out[k]
        BY <3>1, ListedAppend
      <3>4. t[n + 1] = x
        BY <3>1, ListedAppend
      <3>. QED BY <3>2, <3>3, <3>4 DEF t
    <2>3. Clean(w, d, q) = {i \in DOMAIN w : w[i] \notin d}
      <3>1. NothingLeft(w, d, q)
        BY <1>7, <1>9 DEF Scanned
      <3>. QED BY <1>1, <3>1, CleanEnd
    <2>4. {i \in DOMAIN w : w[i] \notin d} = {i \in DOMAIN w : w[i] # Dash}
      OBVIOUS
    <2>5. Counted(x, w)
      BY <1>5, <2>3, <2>4 DEF AtLetter, Counted
    <2>6. w = Tokens(s, {Space})[n + 1]
      BY DEF w, WordAfter
    <2>7. \A k \in DOMAIN out' : Counted(out'[k], Tokens(s, {Space})[k])
      <3>. HIDE DEF x, s
      <3>1. \A k \in 1 .. (n + 1) : k \in 1 .. n \/ k = n + 1
        BY <2>2
      <3>. QED BY <1>1, <2>2, <2>5, <2>6, <3>1
    <2>. QED BY <1>1, <1>5, <2>1, <2>2, <2>7 DEF FixedInv
  <1>. QED BY <1>8, <1>9

LEMMA FixedNext == FixedInv /\ [Next]_vars => FixedInv'
  <1>. SUFFICES ASSUME FixedInv, [Next]_vars, DOMAIN arg = {"input"} PROVE FixedInv'
    BY ArgKept DEF FixedInv
  <1>1. arg' = arg /\ (\/ UNCHANGED vars
                       \/ pc = "words" /\ NextWord
                       \/ pc = "syllables" /\ NextSyllable
                       \/ pc = "letters" /\ NextLetter)
    <2>1. pc \in {"words", "syllables", "letters", "done"}
      BY DEF FixedInv
    <2>. QED BY <2>1, ArgKept, StringSteps, WordSteps, ArraySteps DEF Next, Exit, vars, Ended
  <1>2. CASE UNCHANGED vars
    BY <1>1, <1>2, ZenonT(60) DEF FixedInv, Inside, vars
  <1>. QED BY <1>1, <1>2, FixedWord, FixedSyllable, FixedLetter

LEMMA FixedHolds ==
    ASSUME FixedInv, pc = "done", DOMAIN arg = {"input"}
    PROVE  LET words == Tokens(arg.input, {Space})
           IN  /\ Len(out) = Len(words)
               /\ \A k \in DOMAIN words :
                     /\ (\A t \in Range(Tokens(words[k], {Dash})) : Len(t) < SUB) =>
                            out[k][1] = Len(Tokens(words[k], {Dash}))
                     /\ out[k][2] = Cardinality({i \in DOMAIN words[k] : words[k][i] # Dash})
  <1>. DEFINE s == arg.input
              words == Tokens(s, {Space})
  <1>1. /\ s \in Seq(Char) /\ Listed(out) /\ Len(out) = Len(words)
        /\ \A k \in DOMAIN out : Counted(out[k], words[k])
    BY DEF FixedInv
  <1>2. words \in Seq(Seq(Char))
    <2>1. 0 \in 0 .. Len(s)
      BY <1>1
    <2>. QED BY <1>1, <2>1, TokensType
  <1>. HIDE DEF words
  <1>3. DOMAIN words = DOMAIN out
    BY <1>1, <1>2 DEF Listed
  <1>4. \A k \in DOMAIN words : Counted(out[k], words[k])
    BY <1>1, <1>3
  <1>. QED BY <1>1, <1>4, Zenon DEF Counted, Fit, words
-----------------------------------------------------------------------------
(* musl_strtok.                                                            *)

LEMMA SkipFacts ==
    ASSUME NEW S, NEW m \in Seq(S), NEW i \in 0 .. Len(m), NEW d
    PROVE  /\ skip(m, i, d) \in i .. Len(m)
           /\ \A j \in (i + 1) .. skip(m, i, d) : m[j] \in d
           /\ skip(m, i, d) = Len(m) \/ m[skip(m, i, d) + 1] \notin d
  <1>. DEFINE T == {j \in i .. Len(m) : j = Len(m) \/ m[j + 1] \notin d}
              t == Min(T)
  <1>1. T \subseteq Nat /\ Len(m) \in T
    OBVIOUS
  <1>. HIDE DEF T
  <1>2. t \in T /\ \A k \in T : t <= k
    BY <1>1, MinFacts
  <1>3. skip(m, i, d) = t
    BY DEF skip, T
  <1>. HIDE DEF t
  <1>4. t \in i .. Len(m) /\ (t = Len(m) \/ m[t + 1] \notin d)
    BY <1>2 DEF T
  <1>5. \A j \in (i + 1) .. t : m[j] \in d
    <2>. SUFFICES ASSUME NEW j \in (i + 1) .. t, m[j] \notin d PROVE FALSE
      OBVIOUS
    <2>1. j - 1 \in i .. Len(m) /\ (j - 1) + 1 = j /\ ~(t <= j - 1)
      BY <1>4
    <2>2. j - 1 \in T
      BY <2>1 DEF T
    <2>. QED BY <1>2, <2>1, <2>2
  <1>. QED BY <1>3, <1>4, <1>5

LEMMA UntilFacts ==
    ASSUME NEW S, NEW m \in Seq(S), NEW i \in 0 .. Len(m), NEW d
    PROVE  /\ until(m, i, d) \in i .. Len(m)
           /\ \A j \in (i + 1) .. until(m, i, d) : m[j] \notin d
           /\ until(m, i, d) = Len(m) \/ m[until(m, i, d) + 1] \in d
  <1>. DEFINE T == {j \in i .. Len(m) : j = Len(m) \/ m[j + 1] \in d}
              t == Min(T)
  <1>1. T \subseteq Nat /\ Len(m) \in T
    OBVIOUS
  <1>. HIDE DEF T
  <1>2. t \in T /\ \A k \in T : t <= k
    BY <1>1, MinFacts
  <1>3. until(m, i, d) = t
    BY DEF until, T
  <1>. HIDE DEF t
  <1>4. t \in i .. Len(m) /\ (t = Len(m) \/ m[t + 1] \in d)
    BY <1>2 DEF T
  <1>5. \A j \in (i + 1) .. t : m[j] \notin d
    <2>. SUFFICES ASSUME NEW j \in (i + 1) .. t, m[j] \in d PROVE FALSE
      OBVIOUS
    <2>1. j - 1 \in i .. Len(m) /\ (j - 1) + 1 = j /\ ~(t <= j - 1)
      BY <1>4
    <2>2. j - 1 \in T
      BY <2>1 DEF T
    <2>. QED BY <1>2, <2>1, <2>2
  <1>. QED BY <1>3, <1>4, <1>5

\* What m may be in the place of s.
Memory(m, s, d) ==
    /\ m \in Seq(Char \cup {NUL}) /\ Len(m) = Len(s)
    /\ \A i \in 1 .. Len(s) : m[i] = s[i] \/ (m[i] = NUL /\ s[i] \in d)

\* What the calls have given of s and where the next one begins.
Current(m, p, o, s, d) ==
    \/ o = Append(Tokens(s, d), NULL)
    \/ o = Tokens(s, d) /\ p = NULL
    \/ /\ p \in 0 .. Len(s) /\ Between(s, d, p) /\ o = TokensTo(s, d, p)
       /\ \A i \in (p + 1) .. Len(s) : m[i] = s[i]

\* A delimiter begins no token.
LEMMA OverDelimiter ==
    ASSUME NEW s \in Seq(Char), NEW d, NEW e \in 1 .. (Len(s) - 1), s[e + 1] \in d
    PROVE  TokensTo(s, d, e + 1) = TokensTo(s, d, e) /\ Between(s, d, e + 1)
  <1>1. BeginsTo(s, d, e + 1) = BeginsTo(s, d, e)
    <2>1. Begins(s, d) \subseteq 1 .. Len(s) /\ e + 1 \notin Begins(s, d)
      BY DEF Begins
    <2>2. \A l \in 1 .. Len(s) : l <= e + 1 <=> l <= e \/ l = e + 1
      OBVIOUS
    <2>. QED BY <2>1, <2>2 DEF BeginsTo, AtMost
  <1>. QED BY <1>1 DEF TokensTo, Between

LEMMA StrtokToken ==
    ASSUME NEW s \in Seq(Char), NEW d, d \subseteq Char, NEW m, Memory(m, s, d),
           NEW p \in 0 .. Len(s), Between(s, d, p), \A i \in (p + 1) .. Len(s) : m[i] = s[i],
           NEW r, r = musl_strtok(m, p, d)
    PROVE  \/ NothingLeft(s, d, p) /\ r.m = m /\ r.p = NULL /\ r.token = NULL
           \/ /\ r.token \in Seq(Char) /\ r.m = m /\ r.p = NULL
              /\ Tokens(s, d) = Append(TokensTo(s, d, p), r.token)
           \/ /\ r.token \in Seq(Char) /\ r.p \in 1 .. Len(s) /\ Between(s, d, r.p) /\ p < r.p
              /\ r.m = [m EXCEPT ![r.p] = NUL] /\ s[r.p] \in d
              /\ TokensTo(s, d, r.p) = Append(TokensTo(s, d, p), r.token)
  <1>. DEFINE t == skip(m, p, d)
              e == until(m, t, d \cup {NUL})
              n == Len(s)
  <1>1. /\ m \in Seq(Char \cup {NUL}) /\ Len(m) = n /\ n \in Nat /\ p \in 0 .. Len(m)
        /\ NUL \notin Char /\ NULL \notin Nat
    BY StringsAssumption DEF Memory
  <1>2. /\ t \in p .. n /\ \A j \in (p + 1) .. t : m[j] \in d
        /\ t = n \/ m[t + 1] \notin d
    BY <1>1, SkipFacts
  <1>. HIDE DEF t
  <1>3. \A k \in t .. n : until(m, k, {NUL}) = n
    <2>. SUFFICES ASSUME NEW k \in t .. n PROVE until(m, k, {NUL}) = n
      OBVIOUS
    <2>. DEFINE u == until(m, k, {NUL})
    <2>1. k \in 0 .. Len(m)
      BY <1>1, <1>2
    <2>2. u \in k .. n /\ (u = n \/ m[u + 1] \in {NUL})
      BY <1>1, <2>1, UntilFacts
    <2>. HIDE DEF u
    <2>3. u = n
      <3>. SUFFICES ASSUME u # n PROVE FALSE
        OBVIOUS
      <3>1. u + 1 \in (p + 1) .. n /\ u + 1 \in 1 .. n
        BY <1>1, <1>2, <2>2
      <3>2. m[u + 1] = s[u + 1] /\ s[u + 1] \in Char
        BY <3>1
      <3>. QED BY <1>1, <2>2, <3>2
    <2>. QED BY <2>3 DEF u
  <1>4. t \in t .. n /\ t \in 0 .. Len(m) /\ p # NULL
    BY <1>1, <1>2
  <1>5. until(m, t, {NUL}) = n
    BY <1>3, <1>4
  <1>6. /\ e \in t .. n /\ \A j \in (t + 1) .. e : m[j] \notin d \cup {NUL}
        /\ e = n \/ m[e + 1] \in d \cup {NUL}
    BY <1>1, <1>4, UntilFacts
  <1>7. r = IF t = n THEN [m |-> m, p |-> NULL, token |-> NULL]
            ELSE [m     |-> IF e = n THEN m ELSE [m EXCEPT ![e + 1] = NUL],
                  p     |-> IF e = n THEN NULL ELSE e + 1,
                  token |-> SubSeq(m, t + 1, e)]
    BY <1>4, <1>5 DEF musl_strtok, t, e
  <1>. HIDE DEF e
  <1>8. \A i \in (p + 1) .. t : s[i] \in d
    <2>1. \A i \in (p + 1) .. t : i \in (p + 1) .. n
      BY <1>1, <1>2
    <2>. QED BY <1>2, <2>1
  <1>9. CASE t = n
    BY <1>7, <1>8, <1>9 DEF NothingLeft
  <1>10. CASE t # n
    <2>. DEFINE b == t + 1
    <2>1. b \in 1 .. n /\ b \in (p + 1) .. n /\ e \in b .. n
      <3>1. b \in 1 .. n /\ b \in (p + 1) .. n
        BY <1>1, <1>2, <1>10
      <3>2. e # t
        <4>1. m[b] = s[b] /\ s[b] \in Char
          BY <3>1
        <4>2. m[b] \notin d \cup {NUL}
          BY <1>1, <1>2, <1>10, <4>1
        <4>. QED BY <1>6, <1>10, <4>2
      <3>. QED BY <1>1, <1>2, <1>6, <3>1, <3>2
    <2>2. NextPiece(s, d, p, b, e)
      <3>1. p < b /\ b <= e /\ e <= n /\ b \in Nat /\ e \in Nat /\ b - 1 = t
        BY <1>1, <1>2, <2>1
      <3>2. \A i \in b .. e : s[i] \notin d
        <4>1. \A i \in b .. e : i \in (p + 1) .. n
          BY <1>1, <2>1
        <4>. QED BY <1>6, <4>1
      <3>. HIDE DEF b
      <3>. QED BY <1>8, <3>1, <3>2 DEF NextPiece
    <2>3. EndsAt(s, d, e)
      <3>. SUFFICES ASSUME e # n PROVE s[e + 1] \in d
        BY DEF EndsAt
      <3>1. e + 1 \in (p + 1) .. n /\ e + 1 \in 1 .. n
        BY <1>1, <2>1
      <3>2. m[e + 1] = s[e + 1] /\ s[e + 1] \in Char /\ m[e + 1] \in d \cup {NUL}
        BY <1>6, <3>1
      <3>. QED BY <1>1, <3>2
    <2>. HIDE DEF b
    <2>4. /\ TokensTo(s, d, e) = Append(TokensTo(s, d, p), Piece(s, b, e)) /\ Between(s, d, e)
      BY <2>2, <2>3, NextToken
    <2>5. r.token = Piece(s, b, e) /\ Piece(s, b, e) \in Seq(Char)
      <3>. DEFINE A == SubSeq(m, b, e)
                  B == Piece(s, b, e)
                  V == Char \cup {NUL}
      <3>1. B \in Seq(Char) /\ Len(B) = e - b + 1 /\ \A i \in 1 .. (e - b + 1) : B[i] = s[b - 1 + i]
        BY <2>1, PieceFacts
      <3>2. A \in Seq(V) /\ Len(A) = e - b + 1 /\ \A i \in 1 .. (e - b + 1) : A[i] = m[b + i - 1]
        <4>1. b \in 1 .. (Len(m) + 1) /\ e \in (b - 1) .. Len(m) /\ e - b + 1 \in Nat
          BY <1>1, <2>1
        <4>2. \A i \in 1 .. (e - b + 1) : b + i - 1 \in 1 .. Len(m)
          BY <1>1, <2>1
        <4>3. A = [i \in 1 .. (e - b + 1) |-> m[b + i - 1]]
          BY <1>1, <2>1, <4>1
        <4>. QED BY <1>1, <4>1, <4>2, <4>3
      <3>3. \A i \in 1 .. (e - b + 1) : A[i] = B[i]
        <4>1. \A i \in 1 .. (e - b + 1) : b + i - 1 \in (p + 1) .. n /\ b + i - 1 = b - 1 + i
          BY <1>1, <2>1
        <4>. HIDE DEF A, B
        <4>. QED BY <3>1, <3>2, <4>1
      <3>. HIDE DEF A, B
      <3>4. B \in Seq(V)
        BY <3>1
      <3>5. A = B
        BY <3>1, <3>2, <3>3, <3>4, SeqEqual
      <3>6. r.token = A
        <4>. DEFINE x == SubSeq(m, t + 1, e)
        <4>1. r = [m     |-> IF e = n THEN m ELSE [m EXCEPT ![e + 1] = NUL],
                   p     |-> IF e = n THEN NULL ELSE e + 1,
                   token |-> x]
          BY <1>7, <1>10, Zenon
        <4>. HIDE DEF x
        <4>2. r.token = x
          BY <4>1
        <4>. QED BY <4>2 DEF A, b, x
      <3>. QED BY <3>1, <3>5, <3>6 DEF B
    <2>6. CASE e = n
      <3>1. r.m = m /\ r.p = NULL
        BY <1>7, <1>10, <2>6
      <3>2. TokensTo(s, d, e) = Tokens(s, d)
        <4>1. NothingLeft(s, d, e) /\ e \in 0 .. Len(s)
          BY <1>1, <2>6 DEF NothingLeft
        <4>. QED BY <4>1, NoToken
      <3>. QED BY <2>4, <2>5, <3>1, <3>2
    <2>7. CASE e # n
      <3>1. r.m = [m EXCEPT ![e + 1] = NUL] /\ r.p = e + 1
        BY <1>7, <1>10, <2>7
      <3>2. e \in 1 .. (n - 1) /\ e + 1 \in 1 .. n /\ s[e + 1] \in d /\ p < e + 1
        BY <1>1, <2>1, <2>3, <2>7 DEF EndsAt
      <3>3. TokensTo(s, d, e + 1) = TokensTo(s, d, e) /\ Between(s, d, e + 1)
        BY <3>2, OverDelimiter
      <3>. QED BY <2>4, <2>5, <3>1, <3>2, <3>3
    <2>. QED BY <2>6, <2>7
  <1>. QED BY <1>9, <1>10

Given == Seq(Char) \cup {NULL}

LEMMA AppendGiven ==
    ASSUME NEW q, q \in Seq(Seq(Char))
    PROVE  Last(Append(q, NULL)) = NULL /\ Append(q, NULL) # <<>>
  <1>1. q \in Seq(Given) /\ NULL \in Given
    BY DEF Given
  <1>2. Len(Append(q, NULL)) = Len(q) + 1 /\ Len(q) \in Nat /\ Append(q, NULL)[Len(q) + 1] = NULL
    BY <1>1, AppendProperties
  <1>. QED BY <1>2 DEF Last

LEMMA PrefixIs ==
    ASSUME NEW V, NEW o \in Seq(V), NEW t \in Seq(V), Len(o) <= Len(t),
           \A k \in 1 .. Len(o) : o[k] = t[k]
    PROVE  IsPrefix(o, t)
  <1>1. SubSeq(o, 1, Len(o)) = [k \in 1 .. Len(o) |-> o[k]]
    OBVIOUS
  <1>2. SubSeq(t, 1, Len(o)) = [k \in 1 .. Len(o) |-> t[k]]
    OBVIOUS
  <1>. QED BY <1>1, <1>2 DEF IsPrefix

\* What has been given is the beginning of all that will be.
LEMMA CurrentFirst ==
    ASSUME NEW s \in Seq(Char), NEW d, NEW m, NEW p, NEW o, Current(m, p, o, s, d)
    PROVE  o \in Seq(Given) /\ IsPrefix(o, Append(Tokens(s, d), NULL))
  <1>. DEFINE all == Tokens(s, d)
              t == Append(all, NULL)
              c == Cardinality(Begins(s, d))
  <1>1. 0 \in 0 .. Len(s)
    OBVIOUS
  <1>2. all \in Seq(Seq(Char)) /\ DOMAIN all = 1 .. c /\ c \in Nat /\ Len(all) = c
    <2>1. all \in Seq(Seq(Char))
      BY <1>1, TokensType
    <2>2. DOMAIN all = 1 .. c /\ c \in Nat
      BY <1>1, TokensFirst
    <2>. HIDE DEF all, c
    <2>. QED BY <2>1, <2>2
  <1>3. all \in Seq(Given) /\ NULL \in Given
    BY <1>2 DEF Given
  <1>. HIDE DEF all, c
  <1>4. /\ t \in Seq(Given) /\ Len(t) = c + 1 /\ t[c + 1] = NULL
        /\ \A k \in 1 .. c : t[k] = all[k]
    BY <1>2, <1>3, AppendProperties
  <1>. HIDE DEF t
  <1>5. CASE o = t
    <2>1. o \in Seq(Given) /\ Len(o) <= Len(t) /\ \A k \in 1 .. Len(o) : o[k] = t[k]
      BY <1>2, <1>4, <1>5
    <2>2. IsPrefix(o, t)
      BY <1>4, <2>1, PrefixIs
    <2>. QED BY <2>1, <2>2 DEF t, all
  <1>6. CASE o = all
    <2>1. Len(o) <= Len(t) /\ \A k \in 1 .. Len(o) : o[k] = t[k]
      BY <1>2, <1>4, <1>6
    <2>. QED BY <1>3, <1>4, <1>6, <2>1, PrefixIs DEF t, all
  <1>7. CASE p \in 0 .. Len(s) /\ o = TokensTo(s, d, p)
    <2>. DEFINE l == Cardinality(BeginsTo(s, d, p))
    <2>1. o \in Seq(Seq(Char)) /\ Len(o) = l
      BY <1>7, TokensType, TokensToFacts
    <2>2. l \in 0 .. c /\ \A k \in 1 .. l : o[k] = all[k]
      BY <1>7, TokensFirst DEF c, all
    <2>3. o \in Seq(Given)
      BY <2>1 DEF Given
    <2>. HIDE DEF l
    <2>4. Len(o) <= Len(t) /\ \A k \in 1 .. Len(o) : o[k] = t[k]
      <3>1. \A k \in 1 .. l : k \in 1 .. c
        BY <1>2, <2>2
      <3>. QED BY <1>2, <1>4, <2>1, <2>2, <3>1
    <2>. QED BY <1>4, <2>3, <2>4, PrefixIs DEF t, all
  <1>. QED BY <1>5, <1>6, <1>7 DEF Current, t, all

\* A further call for a string that is not at its end.
LEMMA StrtokCall ==
    ASSUME NEW s \in Seq(Char), NEW d, d \subseteq Char, NEW m, Memory(m, s, d), NEW p, NEW o,
           Current(m, p, o, s, d), o # Append(Tokens(s, d), NULL), NEW r, r = musl_strtok(m, p, d)
    PROVE  Memory(r.m, s, d) /\ Current(r.m, r.p, Append(o, r.token), s, d)
  <1>1. CASE o = Tokens(s, d) /\ p = NULL
    <2>1. r.m = m /\ r.token = NULL
      BY <1>1 DEF musl_strtok
    <2>. QED BY <1>1, <2>1 DEF Current
  <1>2. CASE /\ p \in 0 .. Len(s) /\ Between(s, d, p) /\ o = TokensTo(s, d, p)
             /\ \A i \in (p + 1) .. Len(s) : m[i] = s[i]
    <2>1. CASE NothingLeft(s, d, p) /\ r.m = m /\ r.p = NULL /\ r.token = NULL
      <3>1. o = Tokens(s, d)
        BY <1>2, <2>1, NoToken
      <3>. QED BY <2>1, <3>1 DEF Current
    <2>2. CASE /\ r.m = m /\ r.p = NULL
               /\ Tokens(s, d) = Append(TokensTo(s, d, p), r.token)
      BY <1>2, <2>2 DEF Current
    <2>3. CASE /\ r.p \in 1 .. Len(s) /\ Between(s, d, r.p) /\ p < r.p
               /\ r.m = [m EXCEPT ![r.p] = NUL] /\ s[r.p] \in d
               /\ TokensTo(s, d, r.p) = Append(TokensTo(s, d, p), r.token)
      <3>. DEFINE e == r.p
                  M == r.m
      <3>1. m \in Seq(Char \cup {NUL}) /\ Len(m) = Len(s) /\ Len(s) \in Nat /\ DOMAIN m = 1 .. Len(s)
        BY DEF Memory
      <3>2. e \in 1 .. Len(s) /\ M = [m EXCEPT ![e] = NUL] /\ s[e] \in d /\ p < e
        BY <2>3
      <3>. HIDE DEF e, M
      <3>3. M \in Seq(Char \cup {NUL}) /\ Len(M) = Len(s)
            /\ \A i \in 1 .. Len(s) : M[i] = IF i = e THEN NUL ELSE m[i]
        BY <3>1, <3>2
      <3>4. Memory(M, s, d)
        BY <3>2, <3>3 DEF Memory
      <3>5. \A i \in (e + 1) .. Len(s) : M[i] = s[i]
        <4>1. \A i \in (e + 1) .. Len(s) : i \in 1 .. Len(s) /\ i # e /\ i \in (p + 1) .. Len(s)
          BY <1>2, <3>1, <3>2
        <4>. QED BY <1>2, <3>3, <4>1
      <3>6. e \in 0 .. Len(s) /\ Between(s, d, e) /\ Append(o, r.token) = TokensTo(s, d, e)
        BY <1>2, <2>3, <3>2 DEF e
      <3>7. Current(M, e, Append(o, r.token), s, d)
        BY <3>5, <3>6 DEF Current
      <3>. QED BY <3>4, <3>7 DEF M, e
    <2>. QED BY <1>2, <2>1, <2>2, <2>3, StrtokToken, SMTT(60)
  <1>. QED BY <1>1, <1>2 DEF Current

StrtokInv ==
    "strings" \in DOMAIN arg =>
        LET S == arg.strings  d == arg.delimiters  k == loc.k
        IN  /\ S \in Seq(Seq(Char)) /\ d \subseteq Char /\ pc \in {"strtok", "done"}
            /\ k \in 0 .. Len(S) /\ DOMAIN loc.m = 1 .. Len(S)
            /\ \A j \in 1 .. Len(S) : Memory(loc.m[j], S[j], d) /\ (k < j => loc.m[j] = S[j])
            /\ \A j \in 1 .. k : IsPrefix(out[j], Append(Tokens(S[j], d), NULL))
            /\ k > 0 => Current(loc.m[k], loc.p, out[k], S[k], d)

LEMMA StrtokInit == Init => StrtokInv
  <1>. SUFFICES ASSUME StrtokMain PROVE StrtokInv
    BY Mains DEF StrtokInv
  <1>1. PICK S \in Buffers, d \in Delimiters :
            /\ pc = "strtok" /\ arg = [strings |-> S, delimiters |-> d]
            /\ loc = [m |-> S, k |-> 0, p |-> NULL] /\ out = <<>>
    BY DEF StrtokMain, Starts
  <1>2. S \in Seq(Seq(Char)) /\ d \subseteq Char /\ Len(S) \in Nat /\ DOMAIN S = 1 .. Len(S)
    BY StringsAssumption
  <1>3. \A j \in 1 .. Len(S) : Memory(S[j], S[j], d)
    <2>1. \A j \in 1 .. Len(S) : S[j] \in Seq(Char \cup {NUL})
      BY <1>2
    <2>. QED BY <2>1 DEF Memory
  <1>4. 0 \in 0 .. Len(S) /\ ~(0 > 0) /\ 1 .. 0 = {}
    BY <1>2
  <1>. QED BY <1>1, <1>2, <1>3, <1>4 DEF StrtokInv

\* A call for string k, the one at hand or the next.
LEMMA CallKeeps ==
    ASSUME StrtokInv, "strings" \in DOMAIN arg, arg' = arg, pc' = pc,
           NEW k \in 1 .. Len(arg.strings), NEW p, NEW o, Call(k, p, o),
           k = loc.k \/ k = loc.k + 1,
           Current(loc.m[k], p, o, arg.strings[k], arg.delimiters),
           o # Append(Tokens(arg.strings[k], arg.delimiters), NULL)
    PROVE  StrtokInv'
  <1>. DEFINE S == arg.strings
              d == arg.delimiters
              s == S[k]
              m == loc.m[k]
              r == musl_strtok(m, p, d)
              t == Append(o, r.token)
  <1>1. /\ S \in Seq(Seq(Char)) /\ d \subseteq Char /\ pc \in {"strtok", "done"} /\ Len(S) \in Nat
        /\ DOMAIN loc.m = 1 .. Len(S) /\ loc.k \in 0 .. Len(S)
        /\ \A j \in 1 .. Len(S) : Memory(loc.m[j], S[j], d) /\ (loc.k < j => loc.m[j] = S[j])
        /\ \A j \in 1 .. loc.k : IsPrefix(out[j], Append(Tokens(S[j], d), NULL))
    BY DEF StrtokInv
  <1>2. /\ loc' = [m |-> [loc.m EXCEPT ![k] = r.m], k |-> k, p |-> r.p]
        /\ out' = [j \in 1 .. k |-> IF j < k THEN out[j] ELSE t]
    BY DEF Call
  <1>3. s \in Seq(Char) /\ Memory(m, s, d)
    BY <1>1
  <1>4. Memory(r.m, s, d) /\ Current(r.m, r.p, t, s, d)
    <2>1. Current(m, p, o, s, d) /\ o # Append(Tokens(s, d), NULL) /\ d \subseteq Char
      BY <1>1
    <2>2. r = musl_strtok(m, p, d)
      OBVIOUS
    <2>. HIDE DEF r, m, s, d
    <2>. QED BY <1>3, <2>1, <2>2, StrtokCall
  <1>5. IsPrefix(t, Append(Tokens(s, d), NULL))
    <2>. HIDE DEF r, t, s, d
    <2>. QED BY <1>3, <1>4, CurrentFirst
  <1>. HIDE DEF r, t
  <1>6. DOMAIN loc'.m = 1 .. Len(S) /\ \A j \in 1 .. Len(S) : loc'.m[j] = IF j = k THEN r.m ELSE loc.m[j]
    BY <1>1, <1>2
  <1>7. loc'.k = k /\ loc'.p = r.p /\ out'[k] = t /\ k \in 0 .. Len(S) /\ k > 0
        /\ \A j \in 1 .. k : out'[j] = IF j < k THEN out[j] ELSE t
    BY <1>1, <1>2
  <1>8. \A j \in 1 .. Len(S) : Memory(loc'.m[j], S[j], d) /\ (k < j => loc'.m[j] = S[j])
    <2>1. \A j \in 1 .. Len(S) : k < j => loc.k < j /\ j # k
      BY <1>1
    <2>. QED BY <1>1, <1>4, <1>6, <2>1
  <1>9. \A j \in 1 .. k : IsPrefix(out'[j], Append(Tokens(S[j], d), NULL))
    <2>1. \A j \in 1 .. k : j = k \/ (j < k /\ j \in 1 .. loc.k)
      BY <1>1
    <2>. QED BY <1>1, <1>5, <1>7, <2>1
  <1>10. Current(loc'.m[k], loc'.p, out'[k], S[k], d)
    BY <1>4, <1>6, <1>7
  <1>. QED BY <1>1, <1>6, <1>7, <1>8, <1>9, <1>10 DEF StrtokInv

LEMMA StrtokStep == StrtokInv /\ [Next]_vars => StrtokInv'
  <1>. SUFFICES ASSUME StrtokInv, [Next]_vars, "strings" \in DOMAIN arg PROVE StrtokInv'
    BY ArgKept DEF StrtokInv
  <1>. DEFINE S == arg.strings
              d == arg.delimiters
  <1>1. arg' = arg /\ (UNCHANGED vars \/ (pc = "strtok" /\ (StrtokFirst \/ StrtokNext \/ StrtokEnd)))
    <2>1. pc \in {"strtok", "done"}
      BY DEF StrtokInv
    <2>. QED BY <2>1, ArgKept, StringSteps, WordSteps, ArraySteps DEF Next, Exit, vars, Ended
  <1>2. CASE UNCHANGED vars
    BY <1>1, <1>2 DEF StrtokInv, vars
  <1>3. /\ S \in Seq(Seq(Char)) /\ Len(S) \in Nat /\ loc.k \in 0 .. Len(S)
        /\ \A j \in 1 .. Len(S) : loc.k < j => loc.m[j] = S[j]
        /\ loc.k > 0 => Current(loc.m[loc.k], loc.p, out[loc.k], S[loc.k], d)
    BY DEF StrtokInv
  <1>4. CASE pc = "strtok" /\ StrtokFirst
    <2>. DEFINE k == loc.k + 1
    <2>1. Call(k, 0, <<>>) /\ pc' = pc /\ k \in 1 .. Len(S) /\ loc.k < k
      BY <1>3, <1>4 DEF StrtokFirst
    <2>. HIDE DEF k
    <2>2. S[k] \in Seq(Char) /\ loc.m[k] = S[k]
      BY <1>3, <2>1
    <2>3. Current(loc.m[k], 0, <<>>, S[k], d)
      <3>1. TokensTo(S[k], d, 0) = <<>> /\ Between(S[k], d, 0) /\ 0 \in 0 .. Len(S[k])
        BY <2>2, NoTokensYet
      <3>. QED BY <2>2, <3>1 DEF Current
    <2>4. <<>> # Append(Tokens(S[k], d), NULL)
      <3>1. Tokens(S[k], d) \in Seq(Seq(Char))
        <4>1. 0 \in 0 .. Len(S[k])
          BY <2>2
        <4>. QED BY <2>2, <4>1, TokensType
      <3>. QED BY <3>1, AppendGiven
    <2>. QED BY <1>1, <2>1, <2>3, <2>4, CallKeeps DEF k
  <1>5. CASE pc = "strtok" /\ StrtokNext
    <2>. DEFINE k == loc.k
                o == out[loc.k]
    <2>1. Call(k, loc.p, o) /\ pc' = pc /\ k \in 1 .. Len(S) /\ Last(o) # NULL
      BY <1>3, <1>5 DEF StrtokNext
    <2>2. Current(loc.m[k], loc.p, o, S[k], d)
      BY <1>3, <2>1
    <2>3. o # Append(Tokens(S[k], d), NULL)
      <3>1. Tokens(S[k], d) \in Seq(Seq(Char))
        <4>1. S[k] \in Seq(Char) /\ 0 \in 0 .. Len(S[k])
          BY <1>3, <2>1
        <4>. QED BY <4>1, TokensType
      <3>. QED BY <2>1, <3>1, AppendGiven
    <2>. QED BY <1>1, <2>1, <2>2, <2>3, CallKeeps
  <1>6. CASE pc = "strtok" /\ StrtokEnd
    BY <1>1, <1>6 DEF StrtokInv, StrtokEnd
  <1>. QED BY <1>1, <1>2, <1>4, <1>5, <1>6

LEMMA StrtokHolds ==
    ASSUME StrtokInv
    PROVE  StrtokRight
  <1>. SUFFICES ASSUME "strings" \in DOMAIN arg PROVE StrtokRight
    BY DEF StrtokRight
  <1>1. /\ arg.strings \in Seq(Seq(Char))
        /\ \A j \in 1 .. Len(arg.strings) : Memory(loc.m[j], arg.strings[j], arg.delimiters)
        /\ \A j \in 1 .. loc.k : IsPrefix(out[j], Append(Tokens(arg.strings[j], arg.delimiters), NULL))
    BY DEF StrtokInv
  <1>2. /\ DOMAIN arg.strings = 1 .. Len(arg.strings)
        /\ \A j \in DOMAIN arg.strings : DOMAIN arg.strings[j] = 1 .. Len(arg.strings[j])
    BY <1>1
  <1>. QED BY <1>1, <1>2 DEF StrtokRight, Memory

LEMMA ScanHolds == TokenizeInv /\ FixedInv => ScanRight
  BY TokenizeHolds, FixedHolds, Zenon DEF ScanRight

\* Both tokenizers split a string as its delimiters say: scan_token, of whatever
\* size its buffer is, takes every character that is no delimiter once and in its
\* place; and musl_strtok gives the tokens of the string it was last given, for
\* all strings and sets of delimiters.
THEOREM StringsSplit == Spec => []TokensRight
  <1>1. Init => TokenizeInv /\ FixedInv /\ StrtokInv
    BY TokenizeInit, FixedInit, StrtokInit
  <1>2. TokenizeInv /\ FixedInv /\ StrtokInv /\ [Next]_vars => (TokenizeInv /\ FixedInv /\ StrtokInv)'
    BY TokenizeNext, FixedNext, StrtokStep
  <1>3. TokenizeInv /\ FixedInv /\ StrtokInv => TokensRight
    BY ScanHolds, StrtokHolds DEF TokensRight
  <1>. QED BY <1>1, <1>2, <1>3, PTL DEF Spec

-----------------------------------------------------------------------------
(* Sequences put behind one another, and found again by their first elements. *)

\* Where the elements of H stand.
Heads(s, H) == {k \in DOMAIN s : s[k] \in H}

\* s is the first n of the sequences p, each of which begins at an element of H.
Grouped(s, H, p, n) ==
    LET first == Ascending(Heads(s, H))
    IN  /\ Cardinality(Heads(s, H)) = n
        /\ n = 0 => s = <<>>
        /\ \A k \in 1 .. n :
              /\ first[k] \in Nat \ {0} /\ (k = 1 => first[k] = 1)
              /\ first[k] + Len(p[k]) = IF k = n THEN Len(s) + 1 ELSE first[k + 1]
              /\ \A j \in 1 .. Len(p[k]) :
                    first[k] - 1 + j \in 1 .. Len(s) /\ s[first[k] - 1 + j] = p[k][j]

LEMMA HeadsFacts ==
    ASSUME NEW T, NEW H, NEW s \in Seq(T)
    PROVE  Heads(s, H) \subseteq Nat /\ IsFiniteSet(Heads(s, H)) /\ Heads(s, H) \subseteq 1 .. Len(s)
  <1>1. DOMAIN s = 1 .. Len(s) /\ Len(s) \in Nat
    OBVIOUS
  <1>2. Heads(s, H) \subseteq 1 .. Len(s)
    BY <1>1 DEF Heads
  <1>3. IsFiniteSet(1 .. Len(s)) /\ 1 .. Len(s) \subseteq Nat
    BY <1>1, FS_Interval
  <1>4. IsFiniteSet(Heads(s, H))
    BY <1>2, <1>3, FS_Subset
  <1>. QED BY <1>2, <1>3, <1>4

LEMMA GroupedStart ==
    ASSUME NEW H, NEW p
    PROVE  Grouped(<<>>, H, p, 0)
  <1>1. Heads(<<>>, H) = {}
    BY DEF Heads
  <1>. QED BY <1>1, FS_EmptySet DEF Grouped

LEMMA GroupedNext ==
    ASSUME NEW T, NEW s \in Seq(T), NEW H, NEW p, NEW n \in Nat, Grouped(s, H, p, n),
           p[n + 1] \in Seq(T), Len(p[n + 1]) # 0, p[n + 1][1] \in H,
           \A j \in 2 .. Len(p[n + 1]) : p[n + 1][j] \notin H
    PROVE  Grouped(s \o p[n + 1], H, p, n + 1)
  <1>. DEFINE e == p[n + 1]
              w == Len(e)
              len == Len(s)
              new == s \o e
              first == Ascending(Heads(s, H))
  <1>1. e \in Seq(T) /\ w \in Nat \ {0} /\ e[1] \in H /\ \A j \in 2 .. w : e[j] \notin H
    OBVIOUS
  <1>2. /\ len \in Nat /\ Cardinality(Heads(s, H)) = n
        /\ \A k \in 1 .. n :
              /\ first[k] \in Nat \ {0} /\ (k = 1 => first[k] = 1)
              /\ first[k] + Len(p[k]) = IF k = n THEN len + 1 ELSE first[k + 1]
              /\ \A j \in 1 .. Len(p[k]) :
                    first[k] - 1 + j \in 1 .. len /\ s[first[k] - 1 + j] = p[k][j]
    <2>1. len \in Nat /\ Grouped(s, H, p, n)
      OBVIOUS
    <2>. HIDE DEF e, w, new
    <2>. QED BY <2>1, ZenonT(60) DEF Grouped, len
  <1>a. n = 0 => len = 0
    BY DEF Grouped
  <1>. HIDE DEF e, w, len, new
  <1>3. /\ new \in Seq(T) /\ Len(new) = len + w
        /\ \A k \in 1 .. len : new[k] = s[k]
        /\ \A j \in 1 .. w : new[len + j] = e[j]
    <2>1. /\ new \in Seq(T) /\ Len(new) = len + w
          /\ \A k \in 1 .. (len + w) : new[k] = IF k <= len THEN s[k] ELSE e[k - len]
      BY <1>1, <1>2, ConcatProperties DEF new, len, w
    <2>2. \A j \in 1 .. w : len + j \in 1 .. (len + w) /\ ~(len + j <= len) /\ (len + j) - len = j
      BY <1>1, <1>2
    <2>3. \A k \in 1 .. len : k \in 1 .. (len + w) /\ k <= len
      BY <1>1, <1>2
    <2>. QED BY <2>1, <2>2, <2>3
  <1>4. Heads(new, H) = Heads(s, H) \cup {len + 1}
    <2>1. DOMAIN new = 1 .. (len + w) /\ DOMAIN s = 1 .. len
      BY <1>2, <1>3 DEF len
    <2>2. \A k \in 1 .. (len + w) : k \in 1 .. len \/ \E j \in 1 .. w : k = len + j
      <3>1. \A k \in 1 .. (len + w) : k \in 1 .. len \/ (k - len \in 1 .. w /\ k = len + (k - len))
        BY <1>1, <1>2
      <3>. QED BY <3>1
    <2>3. \A j \in 1 .. w : new[len + j] \in H <=> j = 1
      <3>1. \A j \in 1 .. w : j = 1 \/ j \in 2 .. w
        BY <1>1
      <3>2. \A j \in 1 .. w : j \in 2 .. w => j # 1
        BY <1>1
      <3>. QED BY <1>1, <1>3, <3>1, <3>2
    <2>4. \A k \in 1 .. len : k \in 1 .. (len + w) /\ new[k] = s[k]
      BY <1>1, <1>2, <1>3
    <2>5. 1 \in 1 .. w /\ len + 1 \in 1 .. (len + w)
      BY <1>1, <1>2
    <2>. QED BY <2>1, <2>2, <2>3, <2>4, <2>5 DEF Heads
  <1>5. /\ Ascending(Heads(new, H)) = Append(first, len + 1)
        /\ Cardinality(Heads(new, H)) = n + 1
    <2>1. Heads(s, H) \subseteq Nat /\ IsFiniteSet(Heads(s, H)) /\ \A l \in Heads(s, H) : l < len + 1
      BY <1>2, HeadsFacts DEF len
    <2>2. len + 1 \in Nat
      BY <1>2
    <2>3. /\ Ascending(Heads(s, H) \cup {len + 1}) = Append(first, len + 1)
          /\ Cardinality(Heads(s, H) \cup {len + 1}) = Cardinality(Heads(s, H)) + 1
      BY <2>1, <2>2, AscendingAppend, ZenonT(60)
    <2>. QED BY <1>2, <1>4, <2>3
  <1>6. /\ Len(first) = n
        /\ \A k \in 1 .. n : Append(first, len + 1)[k] = first[k]
        /\ Append(first, len + 1)[n + 1] = len + 1
    <2>1. first \in Seq(Heads(s, H)) /\ Len(first) = n
      BY <1>2, HeadsFacts, AscendingFacts
    <2>2. first \in Seq(Heads(s, H) \cup {len + 1})
      BY <2>1
    <2>. QED BY <2>1, <2>2, AppendProperties
  <1>. DEFINE next == Ascending(Heads(new, H))
  <1>7. /\ \A k \in 1 .. n : next[k] = first[k]
        /\ next[n + 1] = len + 1
    BY <1>5, <1>6
  <1>. HIDE DEF next, first
  <1>8. ASSUME NEW k \in 1 .. (n + 1)
        PROVE  /\ next[k] \in Nat \ {0} /\ (k = 1 => next[k] = 1)
               /\ next[k] + Len(p[k]) = IF k = n + 1 THEN Len(new) + 1 ELSE next[k + 1]
               /\ \A j \in 1 .. Len(p[k]) :
                    next[k] - 1 + j \in 1 .. Len(new) /\ new[next[k] - 1 + j] = p[k][j]
    <2>1. CASE k = n + 1
      <3>1. p[k] = e /\ Len(p[k]) = w /\ next[k] = len + 1
        BY <1>7, <2>1 DEF w, e
      <3>2. \A j \in 1 .. w : (len + 1) - 1 + j = len + j /\ len + j \in 1 .. (len + w)
        BY <1>1, <1>2
      <3>3. len + 1 \in Nat \ {0} /\ (len + 1) + w = (len + w) + 1 /\ (k = 1 => len + 1 = 1)
        BY <1>1, <1>2, <1>a, <2>1
      <3>. QED BY <1>3, <2>1, <3>1, <3>2, <3>3
    <2>2. CASE k # n + 1
      <3>1. k \in 1 .. n
        BY <2>2
      <3>2. next[k] = first[k]
        BY <1>7, <3>1
      <3>3. next[k + 1] = IF k = n THEN len + 1 ELSE first[k + 1]
        <4>1. k # n => k + 1 \in 1 .. n
          BY <3>1
        <4>. QED BY <1>7, <4>1
      <3>4. \A i \in 1 .. len : i \in 1 .. Len(new)
        BY <1>1, <1>2, <1>3
      <3>5. /\ first[k] \in Nat \ {0} /\ (k = 1 => first[k] = 1)
            /\ first[k] + Len(p[k]) = IF k = n THEN len + 1 ELSE first[k + 1]
        BY <1>2, <3>1
      <3>6. ASSUME NEW j \in 1 .. Len(p[k])
            PROVE  next[k] - 1 + j \in 1 .. Len(new) /\ new[next[k] - 1 + j] = p[k][j]
        <4>. DEFINE i == first[k] - 1 + j
        <4>1. i \in 1 .. len /\ s[i] = p[k][j]
          BY <1>2, <3>1
        <4>. HIDE DEF i
        <4>2. new[i] = s[i] /\ i \in 1 .. Len(new)
          BY <1>3, <3>4, <4>1
        <4>. QED BY <3>2, <4>1, <4>2 DEF i
      <3>. QED BY <2>2, <3>2, <3>3, <3>5, <3>6
    <2>. QED BY <2>1, <2>2
  <1>9. n + 1 # 0
    OBVIOUS
  <1>. QED BY <1>5, <1>8, <1>9 DEF Grouped, next, new, e
-----------------------------------------------------------------------------
(* utf8.                                                                   *)

LEMMA MarkIs ==
    ASSUME NEW b, NEW k \in 0 .. 8, 7 - k \notin b, \A j \in 0 .. (k - 1) : 7 - j \in b
    PROVE  mark(b) = k
  <1>. DEFINE S == {j \in 0 .. 8 : 7 - j \notin b}
  <1>1. S \subseteq Nat /\ k \in S /\ \A j \in S : k <= j
    <2>1. \A j \in 0 .. 8 : j \in 0 .. (k - 1) \/ k <= j
      OBVIOUS
    <2>. QED BY <2>1
  <1>. HIDE DEF S
  <1>2. Min(S) = k
    BY <1>1, MinIs
  <1>. QED BY <1>2 DEF mark, S

\* The bytes of a code point.
width(c) == IF c \subseteq 0 .. 6 THEN 1 ELSE IF c \subseteq 0 .. 10 THEN 2 ELSE 3

\* A byte behind the first: marked 10, and six bits.
LEMMA TailByte ==
    ASSUME NEW c \in SUBSET (0 .. 15), NEW n \in {0, 6}
    PROVE  LET b == Byte((Shr(c, n) \cup Shl({1}, 6)) \ {6})
           IN  /\ b \in SUBSET (0 .. 7) /\ mark(b) = 1
               /\ Shl(b \cap (0 .. 5), n) = c \cap (n .. (n + 5))
  <1>. DEFINE b == Byte((Shr(c, n) \cup Shl({1}, 6)) \ {6})
  <1>1. Shl({1}, 6) = {7}
    BY DEF Shl
  <1>2. \A j \in Int : j \in Shr(c, n) <=> j >= 0 /\ j + n \in c
    <2>1. \A x \in c : x \in Int /\ (x - n) + n = x
      OBVIOUS
    <2>2. ASSUME NEW j \in Int, j >= 0, j + n \in c
          PROVE  j \in Shr(c, n)
      <3>1. j + n >= n /\ (j + n) - n = j
        BY <2>2
      <3>. QED BY <2>2, <3>1 DEF Shr
    <2>3. ASSUME NEW j \in Int, j \in Shr(c, n)
          PROVE  j >= 0 /\ j + n \in c
      <3>1. PICK x \in c : x >= n /\ j = x - n
        BY <2>3 DEF Shr
      <3>. QED BY <2>1, <3>1
    <2>. QED BY <2>2, <2>3
  <1>3. b \in SUBSET (0 .. 7) /\ 7 \in b /\ 6 \notin b /\ \A j \in 0 .. 5 : j \in b <=> j + n \in c
    BY <1>1, <1>2 DEF Byte
  <1>. HIDE DEF b
  <1>4. mark(b) = 1
    <2>1. 7 - 1 \notin b /\ \A j \in 0 .. (1 - 1) : 7 - j \in b
      BY <1>3
    <2>. QED BY <2>1, MarkIs
  <1>5. Shl(b \cap (0 .. 5), n) = c \cap (n .. (n + 5))
    <2>1. ASSUME NEW x \in c, x \in n .. (n + 5)
          PROVE  x \in Shl(b \cap (0 .. 5), n)
      <3>1. x - n \in 0 .. 5 /\ (x - n) + n = x
        BY <2>1
      <3>2. x - n \in b
        BY <1>3, <3>1
      <3>. QED BY <3>1, <3>2 DEF Shl
    <2>2. ASSUME NEW j \in b, j \in 0 .. 5
          PROVE  j + n \in c /\ j + n \in n .. (n + 5)
      BY <1>3, <2>2
    <2>. QED BY <2>1, <2>2 DEF Shl
  <1>. QED BY <1>3, <1>4, <1>5 DEF b

\* The first byte of two or of three.
LEMMA HeadByte ==
    ASSUME NEW c \in SUBSET (0 .. 15), NEW w \in {2, 3}
    PROVE  LET b == Byte((Shr(c, 6 * (w - 1)) \cup Shl(1 .. w, 7 - w)) \ {7 - w})
           IN  /\ b \in SUBSET (0 .. 7) /\ mark(b) = w
               /\ Shl(b \cap (0 .. (6 - w)), 6 * (w - 1))
                    = c \cap ((6 * (w - 1)) .. (6 * (w - 1) + 6 - w))
  <1>. DEFINE n == 6 * (w - 1)
              b == Byte((Shr(c, n) \cup Shl(1 .. w, 7 - w)) \ {7 - w})
  <1>0. n \in Nat /\ w \in Nat /\ 7 - w \in 0 .. 7
    OBVIOUS
  <1>1. Shl(1 .. w, 7 - w) = (8 - w) .. 7
    <2>1. ASSUME NEW x \in (8 - w) .. 7 PROVE \E j \in 1 .. w : x = j + (7 - w)
      <3>1. x - (7 - w) \in 1 .. w /\ x = (x - (7 - w)) + (7 - w)
        OBVIOUS
      <3>. QED BY <3>1
    <2>. QED BY <2>1 DEF Shl
  <1>. HIDE DEF n
  <1>2. \A j \in Int : j \in Shr(c, n) <=> j >= 0 /\ j + n \in c
    <2>1. \A x \in c : x \in Int /\ (x - n) + n = x
      BY <1>0
    <2>2. ASSUME NEW j \in Int, j >= 0, j + n \in c
          PROVE  j \in Shr(c, n)
      <3>1. j + n >= n /\ (j + n) - n = j
        BY <1>0, <2>2
      <3>. QED BY <2>2, <3>1 DEF Shr
    <2>3. ASSUME NEW j \in Int, j \in Shr(c, n)
          PROVE  j >= 0 /\ j + n \in c
      <3>1. PICK x \in c : x >= n /\ j = x - n
        BY <2>3 DEF Shr
      <3>. QED BY <1>0, <2>1, <3>1
    <2>. QED BY <2>2, <2>3
  <1>3. /\ b \in SUBSET (0 .. 7) /\ 7 - w \notin b /\ \A j \in (8 - w) .. 7 : j \in b
        /\ \A j \in 0 .. (6 - w) : j \in b <=> j + n \in c
    BY <1>0, <1>1, <1>2 DEF Byte
  <1>. HIDE DEF b
  <1>4. mark(b) = w
    <2>1. w \in 0 .. 8 /\ \A j \in 0 .. (w - 1) : 7 - j \in b
      BY <1>3
    <2>. QED BY <1>3, <2>1, MarkIs
  <1>5. Shl(b \cap (0 .. (6 - w)), n) = c \cap (n .. (n + 6 - w))
    <2>1. ASSUME NEW x \in c, x \in n .. (n + 6 - w)
          PROVE  x \in Shl(b \cap (0 .. (6 - w)), n)
      <3>1. x - n \in 0 .. (6 - w) /\ (x - n) + n = x
        BY <1>0, <2>1
      <3>2. x - n \in b
        BY <1>3, <3>1
      <3>. QED BY <3>1, <3>2 DEF Shl
    <2>2. ASSUME NEW j \in b, j \in 0 .. (6 - w)
          PROVE  j + n \in c /\ j + n \in n .. (n + 6 - w)
      BY <1>0, <1>3, <2>2
    <2>. QED BY <2>1, <2>2 DEF Shl
  <1>. QED BY <1>3, <1>4, <1>5 DEF b, n

\* What a byte of a code point that takes w of them contributes, j bytes behind
\* the first.
Read(b, w, j) == Shl(b \cap (0 .. (6 - mark(b))), 6 * (w - 1 - j))

LEMMA Utf8Bytes ==
    ASSUME NEW c \in SUBSET (0 .. 15)
    PROVE  LET e == to_utf8(c)
               w == width(c)
           IN  /\ e \in Seq(SUBSET (0 .. 7)) /\ Len(e) = w /\ w \in 1 .. 3
               /\ mark(e[1]) = IF w = 1 THEN 0 ELSE w
               /\ \A j \in 2 .. w : mark(e[j]) = 1
               /\ UNION {Read(e[1 + j], w, j) : j \in 0 .. (w - 1)} = c
  <1>. DEFINE head(w) == Byte((Shr(c, 6 * (w - 1)) \cup Shl(1 .. w, 7 - w)) \ {7 - w})
              tail(n) == Byte((Shr(c, n) \cup Shl({1}, 6)) \ {6})
  <1>1. /\ 1 .. 2 = {1, 2} /\ 1 .. 3 = {1, 2, 3}
        /\ 0 .. 0 = {0} /\ 0 .. 1 = {0, 1} /\ 0 .. 2 = {0, 1, 2}
    OBVIOUS
  <1>2. CASE c \subseteq 0 .. 6
    <2>1. to_utf8(c) = <<c>> /\ width(c) = 1
      BY <1>2 DEF to_utf8, width
    <2>2. mark(c) = 0
      <3>1. 7 - 0 \notin c /\ \A j \in 0 .. (0 - 1) : 7 - j \in c
        BY <1>2
      <3>. QED BY <3>1, MarkIs
    <2>3. Read(c, 1, 0) = c
      <3>0. \A x \in c : x \in 0 .. (6 - 0) /\ x + 0 = x
        BY <1>2
      <3>1. c \cap (0 .. (6 - 0)) = c /\ \A x \in c : x + 0 = x
        BY <3>0
      <3>2. Shl(c, 0) = c
        BY <3>1 DEF Shl
      <3>. QED BY <2>2, <3>1, <3>2 DEF Read
    <2>4. UNION {Read(<<c>>[1 + j], 1, j) : j \in 0 .. (1 - 1)} = Read(c, 1, 0)
      BY <1>1
    <2>5. c \in SUBSET (0 .. 7)
      BY <1>2
    <2>. QED BY <2>1, <2>2, <2>3, <2>4, <2>5
  <1>3. CASE ~(c \subseteq 0 .. 6) /\ c \subseteq 0 .. 10
    <2>1. to_utf8(c) = <<head(2), tail(0)>> /\ width(c) = 2
      <3>1. 6 * (2 - 1) = 6 /\ 7 - 2 = 5
        OBVIOUS
      <3>. QED BY <1>1, <1>3, <3>1 DEF to_utf8, width
    <2>2. /\ head(2) \in SUBSET (0 .. 7) /\ mark(head(2)) = 2
          /\ Shl(head(2) \cap (0 .. (6 - 2)), 6 * (2 - 1)) = c \cap ((6 * (2 - 1)) .. (6 * (2 - 1) + 6 - 2))
      BY HeadByte
    <2>3. /\ tail(0) \in SUBSET (0 .. 7) /\ mark(tail(0)) = 1
          /\ Shl(tail(0) \cap (0 .. 5), 0) = c \cap (0 .. (0 + 5))
      BY TailByte
    <2>. HIDE DEF head, tail
    <2>4. Read(head(2), 2, 0) = c \cap (6 .. 10) /\ Read(tail(0), 2, 1) = c \cap (0 .. 5)
      <3>1. 6 * (2 - 1 - 0) = 6 * (2 - 1) /\ 6 * (2 - 1) = 6 /\ 6 * (2 - 1) + 6 - 2 = 10
        OBVIOUS
      <3>2. 6 - 1 = 5 /\ 6 * (2 - 1 - 1) = 0 /\ 0 + 5 = 5
        OBVIOUS
      <3>3. Read(head(2), 2, 0) = c \cap (6 .. 10)
        BY <2>2, <3>1 DEF Read
      <3>4. Read(tail(0), 2, 1) = c \cap (0 .. 5)
        BY <2>3, <3>2 DEF Read
      <3>. QED BY <3>3, <3>4
    <2>5. UNION {Read(<<head(2), tail(0)>>[1 + j], 2, j) : j \in 0 .. (2 - 1)}
            = Read(head(2), 2, 0) \cup Read(tail(0), 2, 1)
      BY <1>1
    <2>6. (c \cap (6 .. 10)) \cup (c \cap (0 .. 5)) = c
      <3>1. \A x \in c : x \in 6 .. 10 \/ x \in 0 .. 5
        BY <1>3
      <3>. QED BY <3>1
    <2>. QED BY <2>1, <2>2, <2>3, <2>4, <2>5, <2>6
  <1>4. CASE ~(c \subseteq 0 .. 6) /\ ~(c \subseteq 0 .. 10)
    <2>1. to_utf8(c) = <<head(3), tail(6), tail(0)>> /\ width(c) = 3
      <3>1. 6 * (3 - 1) = 12 /\ 7 - 3 = 4
        OBVIOUS
      <3>. QED BY <1>1, <1>4, <3>1 DEF to_utf8, width
    <2>2. /\ head(3) \in SUBSET (0 .. 7) /\ mark(head(3)) = 3
          /\ Shl(head(3) \cap (0 .. (6 - 3)), 6 * (3 - 1)) = c \cap ((6 * (3 - 1)) .. (6 * (3 - 1) + 6 - 3))
      BY HeadByte
    <2>3. /\ tail(0) \in SUBSET (0 .. 7) /\ mark(tail(0)) = 1
          /\ Shl(tail(0) \cap (0 .. 5), 0) = c \cap (0 .. (0 + 5))
      BY TailByte
    <2>4. /\ tail(6) \in SUBSET (0 .. 7) /\ mark(tail(6)) = 1
          /\ Shl(tail(6) \cap (0 .. 5), 6) = c \cap (6 .. (6 + 5))
      BY TailByte
    <2>. HIDE DEF head, tail
    <2>5. /\ Read(head(3), 3, 0) = c \cap (12 .. 15) /\ Read(tail(6), 3, 1) = c \cap (6 .. 11)
          /\ Read(tail(0), 3, 2) = c \cap (0 .. 5)
      <3>1. 6 * (3 - 1 - 0) = 6 * (3 - 1) /\ 6 * (3 - 1) = 12 /\ 6 * (3 - 1) + 6 - 3 = 15
        OBVIOUS
      <3>2. 6 - 1 = 5 /\ 6 * (3 - 1 - 1) = 6 /\ 6 * (3 - 1 - 2) = 0 /\ 0 + 5 = 5 /\ 6 + 5 = 11
        OBVIOUS
      <3>3. Read(head(3), 3, 0) = c \cap (12 .. 15)
        BY <2>2, <3>1 DEF Read
      <3>4. Read(tail(6), 3, 1) = c \cap (6 .. 11)
        BY <2>4, <3>2 DEF Read
      <3>5. Read(tail(0), 3, 2) = c \cap (0 .. 5)
        BY <2>3, <3>2 DEF Read
      <3>. QED BY <3>3, <3>4, <3>5
    <2>6. UNION {Read(<<head(3), tail(6), tail(0)>>[1 + j], 3, j) : j \in 0 .. (3 - 1)}
            = Read(head(3), 3, 0) \cup Read(tail(6), 3, 1) \cup Read(tail(0), 3, 2)
      BY <1>1
    <2>7. (c \cap (12 .. 15)) \cup (c \cap (6 .. 11)) \cup (c \cap (0 .. 5)) = c
      <3>1. \A x \in c : x \in 12 .. 15 \/ x \in 6 .. 11 \/ x \in 0 .. 5
        OBVIOUS
      <3>. QED BY <3>1
    <2>8. 2 .. 3 = {2, 3}
      OBVIOUS
    <2>. QED BY <2>1, <2>2, <2>3, <2>4, <2>5, <2>6, <2>7, <2>8
  <1>. QED BY <1>2, <1>3, <1>4
\* The bytes that are not marked 10.
Leading == {b \in SUBSET (0 .. 7) : mark(b) # 1}

Encodings(points) == [k \in DOMAIN points |-> to_utf8(points[k])]

\* Every argument so far has been encoded.
Utf8Inv ==
    "points" \in DOMAIN arg =>
        /\ pc \in {"utf8", "done", "refused"} /\ arg.points \in Seq(Range(arg.points))
        /\ out \in Seq(Seq(SUBSET (0 .. 7)))
        /\ Len(out) <= Len(arg.points)
        /\ \A k \in 1 .. Len(out) : arg.points[k] \in SUBSET (0 .. 15)
        /\ Grouped(FlattenSeq(out), Leading, Encodings(arg.points), Len(out))
        /\ pc = "utf8" => loc.i = Len(out) + 1

LEMMA Utf8Init == Init => Utf8Inv
  <1>. SUFFICES ASSUME Utf8Main PROVE Utf8Inv
    BY Mains DEF Utf8Inv
  <1>1. PICK points \in CodePoints :
            /\ arg = [points |-> points] /\ out = <<>> /\ loc = [i |-> 1]
            /\ pc = IF points = <<>> THEN "refused" ELSE "utf8"
    BY DEF Utf8Main, Starts
  <1>2. points \in Seq(Range(points))
    BY WordsAssumption
  <1>3. out \in Seq(Seq(SUBSET (0 .. 7))) /\ Len(out) = 0
    BY <1>1
  <1>4. FlattenSeq(out) = <<>>
    BY <1>3, FlattenType
  <1>5. Grouped(<<>>, Leading, Encodings(points), 0)
    BY GroupedStart
  <1>. QED BY <1>1, <1>2, <1>3, <1>4, <1>5 DEF Utf8Inv

LEMMA Utf8Steps == Utf8Inv /\ [Next]_vars => Utf8Inv'
  <1>. SUFFICES ASSUME Utf8Inv, [Next]_vars, "points" \in DOMAIN arg PROVE Utf8Inv'
    BY ArgKept DEF Utf8Inv
  <1>1. arg' = arg /\ (UNCHANGED vars \/ (pc = "utf8" /\ (Utf8Next \/ Utf8End)))
    <2>1. pc \in {"utf8", "done", "refused"}
      BY DEF Utf8Inv
    <2>. QED BY <2>1, ArgKept, StringSteps, WordSteps, ArraySteps DEF Next, Exit, vars, Ended
  <1>2. CASE UNCHANGED vars
    BY <1>1, <1>2 DEF Utf8Inv, vars
  <1>3. CASE pc = "utf8" /\ Utf8End
    BY <1>1, <1>3 DEF Utf8Inv, Utf8End
  <1>4. CASE pc = "utf8" /\ Utf8Next
    <2>1. /\ out \in Seq(Seq(SUBSET (0 .. 7))) /\ loc.i = Len(out) + 1 /\ Len(out) \in Nat
          /\ arg.points \in Seq(Range(arg.points)) /\ Len(out) <= Len(arg.points)
          /\ \A k \in 1 .. Len(out) : arg.points[k] \in SUBSET (0 .. 15)
          /\ Grouped(FlattenSeq(out), Leading, Encodings(arg.points), Len(out))
      BY <1>4 DEF Utf8Inv
    <2>2. CASE pc' = "refused" /\ UNCHANGED <<loc, out>>
      BY <1>1, <2>2 DEF Utf8Inv
    <2>3. CASE /\ loc.i <= Len(arg.points) /\ arg.points[loc.i] \subseteq 0 .. 15
               /\ out' = Append(out, to_utf8(arg.points[loc.i]))
               /\ loc' = [i |-> loc.i + 1] /\ pc' = pc
      <3>. DEFINE n == Len(out)
                  points == arg.points
                  e == to_utf8(points[n + 1])
                  b == FlattenSeq(out)
                  p == Encodings(points)
      <3>1. /\ points[n + 1] \in SUBSET (0 .. 15) /\ out' = Append(out, e) /\ n + 1 <= Len(points)
            /\ n \in Nat /\ DOMAIN points = 1 .. Len(points) /\ Len(points) \in Nat
        BY <2>1, <2>3
      <3>2. /\ e \in Seq(SUBSET (0 .. 7)) /\ Len(e) # 0 /\ e[1] \in Leading
            /\ \A j \in 2 .. Len(e) : e[j] \notin Leading
        <4>. DEFINE c == points[n + 1]
        <4>1. c \in SUBSET (0 .. 15)
          BY <3>1
        <4>. HIDE DEF c
        <4>. DEFINE f == to_utf8(c)
                    w == width(c)
        <4>2. /\ f \in Seq(SUBSET (0 .. 7)) /\ Len(f) = w /\ w \in 1 .. 3
              /\ mark(f[1]) = IF w = 1 THEN 0 ELSE w
              /\ \A j \in 2 .. w : mark(f[j]) = 1
          BY <4>1, Utf8Bytes
        <4>. HIDE DEF f, w
        <4>3. /\ f \in Seq(SUBSET (0 .. 7)) /\ Len(f) # 0 /\ f[1] \in SUBSET (0 .. 7) /\ mark(f[1]) # 1
              /\ \A j \in 2 .. Len(f) : mark(f[j]) = 1
          BY <4>2
        <4>4. e = f
          BY DEF f, c
        <4>. HIDE DEF e
        <4>. QED BY <4>3, <4>4 DEF Leading
      <3>3. p[n + 1] = e
        BY <3>1 DEF Encodings
      <3>. HIDE DEF e, points, p
      <3>4. Grouped(b \o e, Leading, p, n + 1)
        <4>1. b \in Seq(SUBSET (0 .. 7)) /\ Grouped(b, Leading, p, n)
          BY <2>1, FlattenType DEF p, points
        <4>. HIDE DEF b, n
        <4>2. Grouped(b \o p[n + 1], Leading, p, n + 1)
          <5>1. /\ p[n + 1] \in Seq(SUBSET (0 .. 7)) /\ Len(p[n + 1]) # 0 /\ p[n + 1][1] \in Leading
                /\ \A j \in 2 .. Len(p[n + 1]) : p[n + 1][j] \notin Leading
            BY <3>2, <3>3
          <5>. QED BY <3>1, <4>1, <5>1, GroupedNext
        <4>. QED BY <3>3, <4>2
      <3>5. FlattenSeq(Append(out, e)) = b \o e
        BY <2>1, <3>2, FlattenAppend
      <3>6. out' \in Seq(Seq(SUBSET (0 .. 7))) /\ Len(out') = n + 1
        BY <2>1, <3>1, <3>2, AppendProperties
      <3>7. Grouped(FlattenSeq(out'), Leading, Encodings(arg.points), Len(out'))
        BY <3>1, <3>4, <3>5, <3>6 DEF p, points
      <3>8. loc'.i = Len(out') + 1 /\ Len(out') <= Len(arg.points)
        BY <2>1, <2>3, <3>1, <3>6 DEF points
      <3>9. \A k \in 1 .. Len(out') : arg.points[k] \in SUBSET (0 .. 15)
        <4>1. \A k \in 1 .. Len(out') : k \in 1 .. n \/ k = n + 1
          BY <3>1, <3>6
        <4>. QED BY <2>1, <3>1, <4>1 DEF points
      <3>. QED BY <1>1, <1>4, <2>3, <3>6, <3>7, <3>8, <3>9 DEF Utf8Inv
    <2>. QED BY <1>4, <2>2, <2>3 DEF Utf8Next
  <1>. QED BY <1>1, <1>2, <1>3, <1>4

LEMMA Utf8Holds == Utf8Inv => Utf8Right
  <1>. SUFFICES ASSUME Utf8Inv, "points" \in DOMAIN arg PROVE Utf8Right
    BY DEF Utf8Right
  <1>. DEFINE bytes == FlattenSeq(out)
              first == Ascending({k \in DOMAIN bytes : mark(bytes[k]) # 1})
              n == Len(out)
              length(k) == (IF k = Len(first) THEN Len(bytes) + 1 ELSE first[k + 1]) - first[k]
              read(k) == UNION {LET b == bytes[first[k] + j]
                                IN  Shl(b \cap (0 .. (6 - mark(b))), 6 * (length(k) - 1 - j))
                                   : j \in 0 .. (length(k) - 1)}
  <1>0. /\ bytes \in Seq(SUBSET (0 .. 7)) /\ n \in Nat /\ n <= Len(arg.points)
        /\ arg.points \in Seq(Range(arg.points))
        /\ \A k \in 1 .. n : arg.points[k] \in SUBSET (0 .. 15)
    BY FlattenType, SMTT(60) DEF Utf8Inv
  <1>1. first = Ascending(Heads(bytes, Leading))
    <2>1. \A k \in DOMAIN bytes : bytes[k] \in SUBSET (0 .. 7)
      BY <1>0
    <2>. HIDE DEF bytes
    <2>2. {k \in DOMAIN bytes : mark(bytes[k]) # 1} = Heads(bytes, Leading)
      BY <2>1 DEF Heads, Leading
    <2>. QED BY <2>2
  <1>2. /\ Cardinality(Heads(bytes, Leading)) = n
        /\ Len(first) = n /\ DOMAIN first = 1 .. n
        /\ \A k \in 1 .. n :
              /\ first[k] \in Nat \ {0}
              /\ first[k] + Len(to_utf8(arg.points[k])) = IF k = n THEN Len(bytes) + 1 ELSE first[k + 1]
              /\ \A j \in 1 .. Len(to_utf8(arg.points[k])) :
                    bytes[first[k] - 1 + j] = to_utf8(arg.points[k])[j]
    <2>. DEFINE p == Encodings(arg.points)
    <2>1. Grouped(bytes, Leading, p, n)
      BY DEF Utf8Inv
    <2>2. \A k \in 1 .. n : p[k] = to_utf8(arg.points[k])
      <3>1. \A k \in 1 .. n : k \in DOMAIN arg.points
        BY <1>0
      <3>. QED BY <3>1 DEF Encodings
    <2>. HIDE DEF bytes, n, first, p
    <2>3. /\ Cardinality(Heads(bytes, Leading)) = n
          /\ \A k \in 1 .. n :
                /\ first[k] \in Nat \ {0}
                /\ first[k] + Len(p[k]) = IF k = n THEN Len(bytes) + 1 ELSE first[k + 1]
                /\ \A j \in 1 .. Len(p[k]) : bytes[first[k] - 1 + j] = p[k][j]
      BY <1>1, <2>1 DEF Grouped
    <2>4. Len(first) = n /\ DOMAIN first = 1 .. n
      BY <1>0, <1>1, <2>3, HeadsFacts, AscendingFacts
    <2>. QED BY <2>2, <2>3, <2>4
  <1>3. ASSUME NEW k \in 1 .. n
        PROVE  /\ read(k) = arg.points[k]
               /\ mark(bytes[first[k]]) = (IF length(k) = 1 THEN 0 ELSE length(k))
               /\ length(k) = width(arg.points[k])
    <2>. DEFINE c == arg.points[k]
                e == to_utf8(c)
                w == width(c)
    <2>1. /\ c \in SUBSET (0 .. 15) /\ first[k] \in Nat \ {0}
          /\ first[k] + w = IF k = n THEN Len(bytes) + 1 ELSE first[k + 1]
          /\ \A j \in 1 .. w : bytes[first[k] - 1 + j] = e[j]
      <3>1. c \in SUBSET (0 .. 15)
        BY <1>0
      <3>2. Len(e) = w
        <4>. HIDE DEF c
        <4>. QED BY <3>1, Utf8Bytes
      <3>. QED BY <1>2, <3>1, <3>2
    <2>2. /\ w \in 1 .. 3
          /\ mark(e[1]) = IF w = 1 THEN 0 ELSE w
          /\ UNION {Read(e[1 + j], w, j) : j \in 0 .. (w - 1)} = c
      <3>1. c \in SUBSET (0 .. 15)
        BY <2>1
      <3>. HIDE DEF c
      <3>. QED BY <3>1, Utf8Bytes
    <2>. HIDE DEF c, e, w, bytes, first
    <2>3. length(k) = w
      <3>1. /\ first[k] \in Nat /\ w \in Nat /\ Len(first) = n
            /\ first[k] + w = IF k = n THEN Len(bytes) + 1 ELSE first[k + 1]
        BY <1>2, <2>1, <2>2
      <3>2. length(k) = (first[k] + w) - first[k]
        BY <3>1
      <3>. QED BY <3>1, <3>2
    <2>4. \A j \in 0 .. (w - 1) : bytes[first[k] + j] = e[1 + j]
      <3>. DEFINE a == first[k]
      <3>1. a \in Nat /\ w \in Nat /\ \A j \in 1 .. w : bytes[a - 1 + j] = e[j]
        BY <2>1, <2>2
      <3>. HIDE DEF a
      <3>2. \A j \in 0 .. (w - 1) : 1 + j \in 1 .. w /\ a - 1 + (1 + j) = a + j
        BY <3>1
      <3>3. \A j \in 0 .. (w - 1) : bytes[a + j] = e[1 + j]
        BY <3>1, <3>2
      <3>. QED BY <3>3 DEF a
    <2>5. bytes[first[k]] = e[1]
      <3>1. 1 \in 1 .. w /\ first[k] - 1 + 1 = first[k]
        BY <2>1, <2>2
      <3>. QED BY <2>1, <3>1
    <2>6. read(k) = UNION {Read(bytes[first[k] + j], w, j) : j \in 0 .. (w - 1)}
      BY <2>3, Zenon DEF Read
    <2>. HIDE DEF read, length
    <2>7. {Read(bytes[first[k] + j], w, j) : j \in 0 .. (w - 1)}
            = {Read(e[1 + j], w, j) : j \in 0 .. (w - 1)}
      BY <2>4
    <2>8. read(k) = c
      BY <2>2, <2>6, <2>7
    <2>. QED BY <2>2, <2>3, <2>5, <2>8 DEF c, w
  <1>. HIDE DEF read, length
  <1>4. \A k \in DOMAIN first :
            /\ read(k) = arg.points[k]
            /\ mark(bytes[first[k]]) = (IF length(k) = 1 THEN 0 ELSE length(k))
            /\ length(k) = IF read(k) \subseteq 0 .. 6 THEN 1
                           ELSE IF read(k) \subseteq 0 .. 10 THEN 2
                           ELSE 3
    <2>1. DOMAIN first = 1 .. n
      BY <1>2
    <2>. HIDE DEF first, bytes, n
    <2>2. SUFFICES ASSUME NEW k \in 1 .. n
                   PROVE  /\ read(k) = arg.points[k]
                          /\ mark(bytes[first[k]]) = (IF length(k) = 1 THEN 0 ELSE length(k))
                          /\ length(k) = IF read(k) \subseteq 0 .. 6 THEN 1
                                         ELSE IF read(k) \subseteq 0 .. 10 THEN 2
                                         ELSE 3
      BY <2>1
    <2>3. read(k) = arg.points[k] /\ length(k) = width(arg.points[k])
      BY <1>3
    <2>. QED BY <1>3, <2>3 DEF width
  <1>. QED BY <1>2, <1>4, Zenon DEF Utf8Right, read, length

\* A reader of UTF-8 gets back the code points that utf8 is given, each from as
\* few bytes as can hold it (to_utf8), for every list of code points.
THEOREM CodePointsRead == Spec => []Utf8Right
  <1>. QED BY Utf8Init, Utf8Steps, Utf8Holds, PTL DEF Spec

-----------------------------------------------------------------------------
(* myls.                                                                   *)

\* The rank of each element of a set in a strict order R tells it from the others.
LEMMA SortedFacts ==
    ASSUME NEW D, IsFiniteSet(D), NEW R,
           \A x \in D : <<x, x>> \notin R,
           \A x, y, z \in D : <<x, y>> \in R /\ <<y, z>> \in R => <<x, z>> \in R,
           \A x, y \in D : x = y \/ <<x, y>> \in R \/ <<y, x>> \in R,
           NEW q,
           \A k \in 1 .. Cardinality(D) :
              (\E d \in D : Cardinality({e \in D : <<e, d>> \in R}) = k - 1) =>
                  q[k] \in D /\ Cardinality({e \in D : <<e, q[k]>> \in R}) = k - 1
    PROVE  /\ Cardinality(D) \in Nat
           /\ \A k \in 1 .. Cardinality(D) : q[k] \in D
           /\ {q[k] : k \in 1 .. Cardinality(D)} = D
           /\ \A k \in 1 .. (Cardinality(D) - 1) : <<q[k], q[k + 1]>> \in R
  <1>. DEFINE len == Cardinality(D)
              Below(d) == {e \in D : <<e, d>> \in R}
              rank(d) == Cardinality(Below(d)) + 1
              f == [d \in D |-> rank(d)]
  <1>1. len \in Nat
    BY FS_CardinalityType
  <1>2. ASSUME NEW d \in D
        PROVE  IsFiniteSet(Below(d)) /\ rank(d) \in 1 .. len
    <2>. DEFINE B == Below(d)
    <2>1. B \subseteq D /\ d \notin B
      OBVIOUS
    <2>. HIDE DEF B
    <2>2. IsFiniteSet(B) /\ Cardinality(B) \in Nat
      BY <2>1, FS_Subset, FS_CardinalityType
    <2>3. Cardinality(B \cup {d}) = Cardinality(B) + 1
      BY <2>1, <2>2, FS_AddElement
    <2>4. Cardinality(B \cup {d}) <= len
      <3>1. B \cup {d} \subseteq D
        BY <2>1
      <3>. QED BY <3>1, FS_Subset
    <2>. QED BY <1>1, <2>2, <2>3, <2>4 DEF B
  <1>3. ASSUME NEW d \in D, NEW e \in D, <<d, e>> \in R
        PROVE  rank(d) < rank(e)
    <2>. DEFINE B == Below(d)
                C == Below(e)
    <2>1. B \cup {d} \subseteq C /\ d \notin B
      BY <1>3
    <2>2. IsFiniteSet(B) /\ IsFiniteSet(C) /\ Cardinality(B) \in Nat /\ Cardinality(C) \in Nat
      BY <1>2, FS_CardinalityType
    <2>. HIDE DEF B, C
    <2>3. Cardinality(B \cup {d}) = Cardinality(B) + 1 /\ Cardinality(B \cup {d}) <= Cardinality(C)
      BY <2>1, <2>2, FS_AddElement, FS_Subset
    <2>. QED BY <2>2, <2>3 DEF B, C
  <1>. HIDE DEF rank, len, Below
  <1>4. ASSUME NEW d \in D, NEW e \in D, rank(d) = rank(e)
        PROVE  d = e
    <2>1. rank(d) \in Nat /\ rank(e) \in Nat
      BY <1>1, <1>2
    <2>2. ~(rank(d) < rank(e)) /\ ~(rank(e) < rank(d))
      BY <1>4, <2>1
    <2>. QED BY <1>3, <2>2
  <1>5. f \in Surjection(D, 1 .. len)
    <2>1. f \in Injection(D, 1 .. len)
      BY <1>2, <1>4 DEF Injection, IsInjective
    <2>2. IsFiniteSet(1 .. len) /\ Cardinality(1 .. len) = len
      BY <1>1, FS_Interval
    <2>. HIDE DEF f
    <2>. QED BY <2>1, <2>2, FS_Injection DEF len
  <1>6. ASSUME NEW k \in 1 .. len
        PROVE  q[k] \in D /\ rank(q[k]) = k
    <2>1. \E d \in D : rank(d) = k
      BY <1>5 DEF Surjection
    <2>2. (\E d \in D : Cardinality(Below(d)) = k - 1) => q[k] \in D /\ Cardinality(Below(q[k])) = k - 1
      BY DEF len, Below
    <2>3. \A d \in D : Cardinality(Below(d)) = k - 1 <=> rank(d) = k
      <3>1. \A d \in D : Cardinality(Below(d)) \in Nat
        BY <1>2, FS_CardinalityType
      <3>. QED BY <1>1, <3>1 DEF rank
    <2>. QED BY <2>1, <2>2, <2>3
  <1>8. {q[k] : k \in 1 .. len} = D
    <2>1. ASSUME NEW d \in D PROVE \E k \in 1 .. len : q[k] = d
      <3>1. rank(d) \in 1 .. len
        BY <1>2
      <3>2. q[rank(d)] \in D /\ rank(q[rank(d)]) = rank(d)
        BY <1>6, <3>1
      <3>3. q[rank(d)] = d
        BY <1>4, <3>2
      <3>. QED BY <3>1, <3>3
    <2>. QED BY <1>6, <2>1
  <1>9. ASSUME NEW k \in 1 .. (len - 1) PROVE <<q[k], q[k + 1]>> \in R
    <2>1. k \in 1 .. len /\ k + 1 \in 1 .. len
      BY <1>1
    <2>2. /\ q[k] \in D /\ q[k + 1] \in D
          /\ rank(q[k]) = k /\ rank(q[k + 1]) = k + 1
      BY <1>6, <2>1
    <2>3. q[k] # q[k + 1]
      BY <2>2
    <2>4. ~(rank(q[k + 1]) < rank(q[k]))
      BY <2>2
    <2>. QED BY <1>3, <2>2, <2>3, <2>4
  <1>. QED BY <1>1, <1>6, <1>8, <1>9 DEF len

Entry == [name : Nat, dir : BOOLEAN]

\* The order of a listing, with or without -z.
Earlier(order, x, y) == \/ order /\ x.dir /\ ~y.dir
                        \/ (order => x.dir = y.dir) /\ x.name < y.name

\* The entries that are listed, without -a if filter.
Shown(entries, filter) == {d \in entries : filter => dot_filter(d)}

LEMMA ScandirIs ==
    ASSUME NEW entries \in SUBSET Entry, IsFiniteSet(entries),
           \A d, e \in entries : d.name = e.name => d = e,
           NEW filter \in BOOLEAN, NEW order \in BOOLEAN
    PROVE  LET q == scandir(entries, filter, order)
               n == Cardinality(Shown(entries, filter))
           IN  /\ n \in Nat /\ q \in Seq(entries) /\ Len(q) = n
               /\ \A k \in 1 .. n : q[k] \in entries
               /\ {q[k] : k \in 1 .. n} = Shown(entries, filter)
               /\ \A k \in 1 .. (n - 1) : Earlier(order, q[k], q[k + 1])
  <1>. DEFINE D == Shown(entries, filter)
              less(x, y) == (IF order THEN type_order(x, y) ELSE string_order(x, y)) < 0
              R == {p \in D \X D : less(p[1], p[2])}
              q == scandir(entries, filter, order)
  <1>1. D \subseteq Entry /\ D \subseteq entries /\ IsFiniteSet(D)
        /\ \A x, y \in D : x.name = y.name => x = y
    <2>1. D \subseteq entries
      BY DEF Shown
    <2>. QED BY <2>1, FS_Subset
  <1>2. ASSUME NEW x \in Entry, NEW y \in Entry
        PROVE  less(x, y) <=> Earlier(order, x, y)
    <2>1. x.name \in Nat /\ y.name \in Nat /\ x.dir \in BOOLEAN /\ y.dir \in BOOLEAN
      BY DEF Entry
    <2>2. x.name - y.name < 0 <=> x.name < y.name
      BY <2>1
    <2>3. type_order(x, y) < 0 <=> (x.dir /\ ~y.dir) \/ (x.dir = y.dir /\ x.name < y.name)
      <3>1. CASE x.dir /\ ~y.dir
        <4>1. type_order(x, y) = -1
          BY <3>1 DEF type_order
        <4>2. x.dir # y.dir
          BY <3>1, Zenon
        <4>3. -1 < 0
          OBVIOUS
        <4>. HIDE DEF less
        <4>. QED BY <3>1, <4>1, <4>2, <4>3
      <3>2. CASE ~x.dir /\ y.dir
        <4>1. type_order(x, y) = 1
          BY <3>2 DEF type_order
        <4>2. x.dir # y.dir
          BY <3>2, Zenon
        <4>3. ~(1 < 0)
          OBVIOUS
        <4>. HIDE DEF less
        <4>. QED BY <3>2, <4>1, <4>2, <4>3
      <3>3. CASE x.dir = y.dir
        BY <2>2, <3>3 DEF type_order, string_order
      <3>. QED BY <2>1, <3>1, <3>2, <3>3
    <2>. QED BY <2>2, <2>3 DEF Earlier, string_order
  <1>3. q = [k \in 1 .. Cardinality(D) |-> CHOOSE d \in D : Cardinality({e \in D : less(e, d)}) = k - 1]
    BY DEF scandir, Shown
  <1>. HIDE DEF D, q, less
  <1>4. \A x, y \in D : <<x, y>> \in R <=> Earlier(order, x, y)
    BY <1>1, <1>2
  <1>5. \A d \in D : {e \in D : less(e, d)} = {e \in D : <<e, d>> \in R}
    OBVIOUS
  <1>6. ASSUME NEW k \in 1 .. Cardinality(D),
               \E d \in D : Cardinality({e \in D : <<e, d>> \in R}) = k - 1
        PROVE  q[k] \in D /\ Cardinality({e \in D : <<e, q[k]>> \in R}) = k - 1
    <2>. DEFINE P(d) == Cardinality({e \in D : less(e, d)}) = k - 1
    <2>1. \A d \in D : P(d) <=> Cardinality({e \in D : <<e, d>> \in R}) = k - 1
      BY <1>5
    <2>2. q[k] = CHOOSE d \in D : P(d)
      BY <1>3
    <2>. HIDE DEF P, R
    <2>3. q[k] \in D /\ P(q[k])
      BY <1>6, <2>1, <2>2
    <2>. QED BY <2>1, <2>3
  <1>. HIDE DEF R
  <1>a. \A x \in D : x.name \in Nat /\ x.dir \in BOOLEAN
    BY <1>1 DEF Entry
  <1>7. /\ \A x \in D : <<x, x>> \notin R
        /\ \A x, y, z \in D : <<x, y>> \in R /\ <<y, z>> \in R => <<x, z>> \in R
        /\ \A x, y \in D : x = y \/ <<x, y>> \in R \/ <<y, x>> \in R
    <2>1. \A x \in D : ~Earlier(order, x, x)
      BY <1>a DEF Earlier
    <2>2. \A x, y, z \in D : Earlier(order, x, y) /\ Earlier(order, y, z) => Earlier(order, x, z)
      BY <1>a DEF Earlier
    <2>3. \A x, y \in D : x = y \/ Earlier(order, x, y) \/ Earlier(order, y, x)
      <3>1. \A x, y \in D : x = y \/ x.name < y.name \/ y.name < x.name
        BY <1>1, <1>a
      <3>. QED BY <1>a, <3>1 DEF Earlier
    <2>. QED BY <1>4, <2>1, <2>2, <2>3
  <1>8. /\ Cardinality(D) \in Nat
        /\ \A k \in 1 .. Cardinality(D) : q[k] \in D
        /\ {q[k] : k \in 1 .. Cardinality(D)} = D
        /\ \A k \in 1 .. (Cardinality(D) - 1) : <<q[k], q[k + 1]>> \in R
    BY <1>1, <1>6, <1>7, SortedFacts
  <1>9. \A k \in 1 .. (Cardinality(D) - 1) : Earlier(order, q[k], q[k + 1])
    <2>1. \A k \in 1 .. (Cardinality(D) - 1) : k \in 1 .. Cardinality(D) /\ k + 1 \in 1 .. Cardinality(D)
      BY <1>8
    <2>. QED BY <1>4, <1>8, <2>1
  <1>c. q \in Seq(entries) /\ Len(q) = Cardinality(D)
    <2>1. q = [k \in 1 .. Cardinality(D) |-> q[k]]
      <3>. DEFINE c(k) == CHOOSE d \in D : Cardinality({e \in D : less(e, d)}) = k - 1
      <3>1. q = [k \in 1 .. Cardinality(D) |-> c(k)]
        BY <1>3
      <3>. HIDE DEF c
      <3>. QED BY <3>1
    <2>2. \A k \in 1 .. Cardinality(D) : q[k] \in entries
      BY <1>1, <1>8
    <2>. HIDE DEF q
    <2>3. q \in [1 .. Cardinality(D) -> entries]
      BY <2>1, <2>2
    <2>. QED BY <1>8, <2>3
  <1>. QED BY <1>1, <1>c, <1>8, <1>9 DEF D, q
\* The entries of a directory; one that is not accessible has none.
Entries(dir) == IF dir \in DOMAIN Tree THEN Tree[dir] ELSE {}

EntryLine == {[entry |-> d] : d \in Entry}

LEMMA LsIs ==
    ASSUME NEW dir, NEW filter \in BOOLEAN, NEW order \in BOOLEAN
    PROVE  LET l == ls(dir, filter, order)
           IN  /\ l \in Seq(EntryLine)
               /\ {l[k].entry : k \in 1 .. Len(l)} = Shown(Entries(dir), filter)
               /\ \A k \in 1 .. (Len(l) - 1) : Earlier(order, l[k].entry, l[k + 1].entry)
  <1>1. CASE dir \notin DOMAIN Tree
    <2>1. ls(dir, filter, order) = <<>> /\ Shown(Entries(dir), filter) = {}
      BY <1>1 DEF ls, Entries, Shown
    <2>2. <<>> \in Seq(EntryLine) /\ Len(<<>>) = 0 /\ 1 .. 0 = {} /\ 1 .. (0 - 1) = {}
      OBVIOUS
    <2>. QED BY <2>1, <2>2
  <1>2. CASE dir \in DOMAIN Tree
    <2>. DEFINE entries == Tree[dir]
                q == scandir(entries, filter, order)
                n == Len(q)
                l == ls(dir, filter, order)
    <2>1. /\ entries \in SUBSET Entry /\ IsFiniteSet(entries)
          /\ \A d, e \in entries : d.name = e.name => d = e
      BY <1>2, ArraysAssumption DEF Entry
    <2>. HIDE DEF entries
    <2>2. /\ q \in Seq(entries) /\ n = Cardinality(Shown(entries, filter))
          /\ {q[k] : k \in 1 .. n} = Shown(entries, filter)
          /\ \A k \in 1 .. (n - 1) : Earlier(order, q[k], q[k + 1])
      BY <2>1, ScandirIs
    <2>3. l = [k \in 1 .. n |-> [entry |-> q[k]]]
      BY <1>2 DEF ls, entries
    <2>. HIDE DEF q, n, l
    <2>4. n \in Nat /\ \A k \in 1 .. n : q[k] \in Entry
      BY <2>1, <2>2 DEF n
    <2>5. l \in [1 .. n -> EntryLine] /\ \A k \in 1 .. n : l[k].entry = q[k]
      BY <2>3, <2>4 DEF EntryLine
    <2>6. l \in Seq(EntryLine) /\ Len(l) = n
      BY <2>4, <2>5
    <2>7. {l[k].entry : k \in 1 .. n} = {q[k] : k \in 1 .. n}
      BY <2>5
    <2>8. \A k \in 1 .. (n - 1) : Earlier(order, l[k].entry, l[k + 1].entry)
      <3>1. \A k \in 1 .. (n - 1) : k \in 1 .. n /\ k + 1 \in 1 .. n
        BY <2>4
      <3>. QED BY <2>2, <2>5, <3>1
    <2>9. Entries(dir) = entries
      BY <1>2 DEF Entries, entries
    <2>. QED BY <2>2, <2>6, <2>7, <2>8, <2>9 DEF l
  <1>. QED BY <1>1, <1>2

Heading(dirs) == {[heading |-> x] : x \in Range(dirs)}
Line(dirs)    == Heading(dirs) \cup EntryLine \cup {EmptyLine}

LEMMA LinesApart ==
    ASSUME NEW dirs
    PROVE  /\ \A x \in Heading(dirs) : "heading" \in DOMAIN x /\ x # EmptyLine
           /\ \A x \in EntryLine : "heading" \notin DOMAIN x /\ x # EmptyLine /\ x \notin Heading(dirs)
           /\ "heading" \notin DOMAIN EmptyLine /\ EmptyLine \notin Heading(dirs)
  <1>1. \A x \in Heading(dirs) : DOMAIN x = {"heading"}
    BY DEF Heading
  <1>2. \A x \in EntryLine : DOMAIN x = {"entry"}
    BY DEF EntryLine
  <1>3. DOMAIN EmptyLine = {"empty"}
    BY DEF EmptyLine
  <1>. QED BY <1>1, <1>2, <1>3

\* The lines of a directory under its name.
Group(dir, filter, order) == <<[heading |-> dir]>> \o (ls(dir, filter, order) \o <<EmptyLine>>)
Groups(dirs, filter, order) == [k \in DOMAIN dirs |-> Group(dirs[k], filter, order)]

LEMMA GroupIs ==
    ASSUME NEW dirs, NEW dir, NEW filter \in BOOLEAN, NEW order \in BOOLEAN,
           dir \in Range(dirs)
    PROVE  LET g == Group(dir, filter, order)
               l == ls(dir, filter, order)
           IN  /\ g \in Seq(Line(dirs)) /\ Len(g) = Len(l) + 2 /\ Len(l) \in Nat
               /\ g[1] = [heading |-> dir] /\ g[1] \in Heading(dirs)
               /\ \A j \in 1 .. Len(l) : g[1 + j] = l[j] /\ l[j] \in EntryLine
               /\ g[Len(l) + 2] = EmptyLine
               /\ \A j \in 2 .. Len(g) : g[j] \notin Heading(dirs)
  <1>. DEFINE l == ls(dir, filter, order)
              n == Len(l)
              h == [heading |-> dir]
              t == l \o <<EmptyLine>>
              g == <<h>> \o t
              V == Line(dirs)
  <1>1. l \in Seq(EntryLine)
    BY LsIs
  <1>2. h \in Heading(dirs) /\ h \in V /\ EmptyLine \in V /\ EntryLine \subseteq V
    BY DEF Heading, Line
  <1>. HIDE DEF l, h, V
  <1>3. l \in Seq(V) /\ n \in Nat /\ \A j \in 1 .. n : l[j] \in EntryLine
    BY <1>1, <1>2
  <1>4. /\ t \in Seq(V) /\ Len(t) = n + 1
        /\ \A j \in 1 .. n : t[j] = l[j]
        /\ t[n + 1] = EmptyLine
    <2>1. <<EmptyLine>> \in Seq(V) /\ Len(<<EmptyLine>>) = 1 /\ <<EmptyLine>>[1] = EmptyLine
      BY <1>2
    <2>2. /\ t \in Seq(V) /\ Len(t) = n + 1
          /\ \A j \in 1 .. (n + 1) : t[j] = IF j <= n THEN l[j] ELSE <<EmptyLine>>[j - n]
      BY <1>3, <2>1, ConcatProperties
    <2>3. n + 1 \in 1 .. (n + 1) /\ ~(n + 1 <= n) /\ (n + 1) - n = 1
      BY <1>3
    <2>4. \A j \in 1 .. n : j \in 1 .. (n + 1) /\ j <= n
      BY <1>3
    <2>. HIDE DEF t
    <2>. QED BY <2>1, <2>2, <2>3, <2>4
  <1>. HIDE DEF t, n
  <1>5. /\ g \in Seq(V) /\ Len(g) = n + 2
        /\ g[1] = h /\ \A j \in 1 .. (n + 1) : g[1 + j] = t[j]
    <2>1. <<h>> \in Seq(V) /\ Len(<<h>>) = 1 /\ <<h>>[1] = h
      BY <1>2
    <2>2. /\ g \in Seq(V) /\ Len(g) = 1 + (n + 1)
          /\ \A j \in 1 .. (1 + (n + 1)) : g[j] = IF j <= 1 THEN <<h>>[j] ELSE t[j - 1]
      BY <1>4, <2>1, ConcatProperties
    <2>3. 1 \in 1 .. (1 + (n + 1)) /\ 1 <= 1 /\ 1 + (n + 1) = n + 2
      BY <1>3
    <2>4. \A j \in 1 .. (n + 1) : 1 + j \in 1 .. (1 + (n + 1)) /\ ~(1 + j <= 1) /\ (1 + j) - 1 = j
      BY <1>3
    <2>. HIDE DEF g
    <2>. QED BY <2>1, <2>2, <2>3, <2>4
  <1>6. \A j \in 1 .. n : g[1 + j] = l[j]
    <2>1. \A j \in 1 .. n : j \in 1 .. (n + 1)
      BY <1>3
    <2>. QED BY <1>4, <1>5, <2>1
  <1>7. g[n + 2] = EmptyLine
    <2>1. n + 1 \in 1 .. (n + 1) /\ 1 + (n + 1) = n + 2
      BY <1>3
    <2>2. g[1 + (n + 1)] = t[n + 1]
      BY <1>5, <2>1
    <2>. QED BY <1>4, <2>1, <2>2
  <1>. HIDE DEF g
  <1>8. ASSUME NEW j \in 2 .. (n + 2) PROVE g[j] \notin Heading(dirs)
    <2>1. CASE j = n + 2
      BY <1>7, <2>1, LinesApart
    <2>2. CASE j # n + 2
      <3>1. j - 1 \in 1 .. n /\ 1 + (j - 1) = j
        BY <1>3, <2>2
      <3>2. g[j] \in EntryLine
        BY <1>3, <1>6, <3>1
      <3>. QED BY <3>2, LinesApart
    <2>. QED BY <2>1, <2>2
  <1>. QED BY <1>2, <1>3, <1>5, <1>6, <1>7, <1>8 DEF Group, g, t, l, h, n, V
\* Whether an option has been given.
Option(options, x) == \E k \in DOMAIN options : options[k] = x

\* The locals of main.
Config(l) == /\ DOMAIN l = {"i", "filter", "order"}
             /\ l.i \in Nat /\ l.filter \in BOOLEAN /\ l.order \in BOOLEAN

LEMMA ConfigFacts ==
    ASSUME NEW l, Config(l)
    PROVE  /\ LET m == [l EXCEPT !.i = @ + 1, !.filter = FALSE]
              IN  Config(m) /\ m.i = l.i + 1 /\ ~m.filter /\ m.order = l.order
           /\ LET m == [l EXCEPT !.i = @ + 1, !.order = TRUE]
              IN  Config(m) /\ m.i = l.i + 1 /\ m.order /\ m.filter = l.filter
  BY DEF Config

LEMMA ConfigNext ==
    ASSUME NEW l, NEW i \in Nat, Config(l)
    PROVE  LET m == [l EXCEPT !.i = i]
           IN  Config(m) /\ m.i = i /\ m.order = l.order /\ m.filter = l.filter
  BY DEF Config

MylsInv ==
    "dirs" \in DOMAIN arg =>
        /\ pc \in {"getopt", "ls", "done", "refused"}
        /\ arg.options \in Seq(Range(arg.options)) /\ arg.dirs \in Seq(Range(arg.dirs))
        /\ Config(loc)
        /\ pc = "getopt" =>
              /\ out = <<>> /\ loc.i \in 1 .. (Len(arg.options) + 1)
              /\ loc.filter <=> ~(\E k \in 1 .. (loc.i - 1) : arg.options[k] = "a")
              /\ loc.order <=> (\E k \in 1 .. (loc.i - 1) : arg.options[k] = "z")
        /\ pc \in {"ls", "done"} =>
              (loc.filter <=> ~Option(arg.options, "a")) /\ (loc.order <=> Option(arg.options, "z"))
        /\ pc = "ls" => out \in Seq(Line(arg.dirs)) /\ loc.i \in 1 .. (Len(arg.dirs) + 1)
        /\ pc = "ls" /\ Len(arg.dirs) < 2 => loc.i = 1
        /\ pc = "ls" =>
              Grouped(out, Heading(arg.dirs), Groups(arg.dirs, loc.filter, loc.order), loc.i - 1)
        /\ pc = "done" /\ Len(arg.dirs) < 2 =>
              out = ls(IF arg.dirs = <<>> THEN Cwd ELSE arg.dirs[1], loc.filter, loc.order)
        /\ pc = "done" /\ Len(arg.dirs) >= 2 =>
              /\ out \in Seq(Line(arg.dirs))
              /\ Grouped(out, Heading(arg.dirs), Groups(arg.dirs, loc.filter, loc.order), Len(arg.dirs))

LEMMA MylsInit == Init => MylsInv
  <1>. SUFFICES ASSUME MylsMain PROVE MylsInv
    BY Mains DEF MylsInv
  <1>1. PICK options \in Options, dirs \in Dirs :
            /\ pc = "getopt" /\ arg = [options |-> options, dirs |-> dirs]
            /\ loc = [i |-> 1, filter |-> TRUE, order |-> FALSE] /\ out = <<>>
    BY DEF MylsMain, Starts
  <1>2. options \in Seq(Range(options)) /\ dirs \in Seq(Range(dirs))
    BY ArraysAssumption
  <1>3. 1 .. (1 - 1) = {} /\ 1 \in 1 .. (Len(options) + 1)
    BY <1>2
  <1>4. Config(loc)
    BY <1>1 DEF Config
  <1>. QED BY <1>1, <1>2, <1>3, <1>4 DEF MylsInv

LEMMA GetoptKeeps ==
    ASSUME MylsInv, "dirs" \in DOMAIN arg, pc = "getopt", Getopt
    PROVE  MylsInv'
  <1>. DEFINE options == arg.options
              i == loc.i
  <1>1. /\ options \in Seq(Range(options)) /\ arg.dirs \in Seq(Range(arg.dirs))
        /\ Config(loc)
        /\ out = <<>> /\ i \in 1 .. (Len(options) + 1) /\ Len(options) \in Nat /\ DOMAIN options = 1 .. Len(options)
        /\ loc.filter <=> ~(\E k \in 1 .. (i - 1) : options[k] = "a")
        /\ loc.order <=> (\E k \in 1 .. (i - 1) : options[k] = "z")
    BY DEF MylsInv
  <1>2. arg' = arg /\ out' = out
    BY DEF Getopt
  <1>3. CASE i > Len(options)
    <2>1. pc' = "ls" /\ loc' = [loc EXCEPT !.i = 1]
      BY <1>3 DEF Getopt
    <2>2. i - 1 = Len(options)
      BY <1>1, <1>3, SMTT(60)
    <2>3. (loc.filter <=> ~Option(options, "a")) /\ (loc.order <=> Option(options, "z"))
      BY <1>1, <2>2 DEF Option
    <2>4. Grouped(out, Heading(arg.dirs), Groups(arg.dirs, loc'.filter, loc'.order), 0)
      BY <1>1, GroupedStart
    <2>5. /\ Config(loc')
          /\ loc'.i = 1 /\ loc'.filter = loc.filter /\ loc'.order = loc.order
      <3>1. Config(loc) /\ 1 \in Nat
        BY <1>1
      <3>2. loc' = [loc EXCEPT !.i = 1]
        BY <2>1
      <3>. QED BY ONLY <3>1, <3>2, ConfigNext
    <2>6. 1 \in 1 .. (Len(arg.dirs) + 1) /\ 1 - 1 = 0 /\ out \in Seq(Line(arg.dirs))
      BY <1>1
    <2>. QED BY <1>1, <1>2, <2>1, <2>3, <2>4, <2>5, <2>6 DEF MylsInv
  <1>4. CASE i <= Len(options) /\ options[i] \in {"a", "z"}
    <2>1. /\ pc' = "getopt" /\ loc'.i = i + 1
          /\ loc'.filter <=> options[i] # "a" /\ loc.filter
          /\ loc'.order <=> options[i] = "z" \/ loc.order
          /\ Config(loc')
      <3>0. ~(i > Len(options)) /\ Config(loc)
        BY <1>1, <1>4
      <3>1. CASE options[i] = "a"
        <4>1. pc' = "getopt" /\ loc' = [loc EXCEPT !.i = @ + 1, !.filter = FALSE]
          BY <3>0, <3>1, SMTT(60) DEF Getopt
        <4>2. loc'.i = loc.i + 1 /\ ~loc'.filter /\ loc'.order = loc.order /\ Config(loc')
          BY <3>0, <4>1, ConfigFacts
        <4>. QED BY <3>1, <4>1, <4>2
      <3>2. CASE options[i] = "z"
        <4>1. pc' = "getopt" /\ loc' = [loc EXCEPT !.i = @ + 1, !.order = TRUE]
          BY <3>0, <3>2 DEF Getopt
        <4>2. loc'.i = loc.i + 1 /\ loc'.order /\ loc'.filter = loc.filter /\ Config(loc')
          BY <3>0, <4>1, ConfigFacts
        <4>. QED BY <3>2, <4>1, <4>2
      <3>. QED BY <1>4, <3>1, <3>2
    <2>. HIDE DEF i, options
    <2>2. \A k \in 1 .. ((i + 1) - 1) : k \in 1 .. (i - 1) \/ k = i
      BY <1>1
    <2>3. i \in 1 .. ((i + 1) - 1) /\ \A k \in 1 .. (i - 1) : k \in 1 .. ((i + 1) - 1)
      BY <1>1
    <2>4. loc'.filter <=> ~(\E k \in 1 .. ((i + 1) - 1) : options[k] = "a")
      BY <1>1, <1>4, <2>1, <2>2, <2>3
    <2>5. loc'.order <=> (\E k \in 1 .. ((i + 1) - 1) : options[k] = "z")
      BY <1>1, <1>4, <2>1, <2>2, <2>3
    <2>6. i + 1 \in 1 .. (Len(options) + 1)
      BY <1>1, <1>4
    <2>. QED BY <1>1, <1>2, <2>1, <2>4, <2>5, <2>6 DEF MylsInv, options
  <1>5. CASE i <= Len(options) /\ options[i] \notin {"a", "z"}
    <2>1. pc' = "refused" /\ loc' = loc
      BY <1>1, <1>5 DEF Getopt
    <2>. QED BY <1>1, <1>2, <2>1 DEF MylsInv
  <1>. QED BY <1>1, <1>3, <1>4, <1>5

LEMMA LsKeeps ==
    ASSUME MylsInv, "dirs" \in DOMAIN arg, pc = "ls", LsOnly \/ LsNext
    PROVE  MylsInv'
  <1>. DEFINE dirs == arg.dirs
              i == loc.i
              p == Groups(dirs, loc.filter, loc.order)
              H == Heading(dirs)
              V == Line(dirs)
  <1>1. /\ arg.options \in Seq(Range(arg.options)) /\ dirs \in Seq(Range(dirs))
        /\ (loc.filter <=> ~Option(arg.options, "a")) /\ (loc.order <=> Option(arg.options, "z"))
        /\ Config(loc)
        /\ loc.filter \in BOOLEAN /\ loc.order \in BOOLEAN
        /\ out \in Seq(V) /\ i \in 1 .. (Len(dirs) + 1) /\ Len(dirs) \in Nat /\ DOMAIN dirs = 1 .. Len(dirs)
        /\ Grouped(out, H, p, i - 1)
    BY DEF MylsInv, Config
  <1>2. arg' = arg
    BY DEF LsOnly, LsNext
  <1>3. CASE LsOnly
    BY <1>1, <1>2, <1>3 DEF MylsInv, LsOnly
  <1>4. CASE LsNext /\ i > Len(dirs)
    <2>1. i - 1 = Len(dirs) /\ Len(dirs) >= 2 /\ pc' = "done" /\ loc' = loc /\ out' = out
      BY <1>1, <1>4 DEF LsNext
    <2>. QED BY <1>1, <1>2, <2>1 DEF MylsInv
  <1>5. CASE LsNext /\ i <= Len(dirs)
    <2>. DEFINE dir == dirs[i]
                l == ls(dir, loc.filter, loc.order)
                g == Group(dir, loc.filter, loc.order)
    <2>1. /\ Len(dirs) >= 2 /\ pc' = "ls" /\ loc' = [loc EXCEPT !.i = i + 1]
          /\ out' = out \o <<[heading |-> dir]>> \o l \o <<EmptyLine>>
      <3>1. ~(i > Len(dirs))
        BY <1>1, <1>5
      <3>2. LsNext /\ pc = "ls"
        BY <1>5
      <3>. QED BY <3>1, <3>2 DEF LsNext
    <2>2. /\ loc'.i = i + 1 /\ loc'.filter = loc.filter /\ loc'.order = loc.order
          /\ Config(loc')
      <3>1. Config(loc) /\ i + 1 \in Nat
        BY <1>1
      <3>2. loc' = [loc EXCEPT !.i = i + 1]
        BY <2>1
      <3>. HIDE DEF i
      <3>. QED BY <3>1, <3>2, ConfigNext
    <2>3. i \in DOMAIN dirs /\ dir \in Range(dirs)
      BY <1>1, <1>5 DEF Range
    <2>. HIDE DEF dirs, i, dir
    <2>4. /\ g \in Seq(V) /\ Len(g) # 0 /\ g[1] \in H
          /\ \A j \in 2 .. Len(g) : g[j] \notin H
      <3>. DEFINE f == loc.filter
                  o == loc.order
      <3>1. f \in BOOLEAN /\ o \in BOOLEAN
        BY <1>1
      <3>. HIDE DEF f, o
      <3>. DEFINE m == Group(dir, f, o)
                  n == Len(ls(dir, f, o))
      <3>2. /\ m \in Seq(V) /\ Len(m) = n + 2 /\ n \in Nat /\ m[1] \in H
            /\ \A j \in 2 .. Len(m) : m[j] \notin H
        <4>1. dir \in Range(dirs)
          BY <2>3
        <4>2. LET gg == Group(dir, f, o)
                  ll == ls(dir, f, o)
              IN  /\ gg \in Seq(Line(dirs)) /\ Len(gg) = Len(ll) + 2 /\ Len(ll) \in Nat
                  /\ gg[1] = [heading |-> dir] /\ gg[1] \in Heading(dirs)
                  /\ \A j \in 1 .. Len(ll) : gg[1 + j] = ll[j] /\ ll[j] \in EntryLine
                  /\ gg[Len(ll) + 2] = EmptyLine
                  /\ \A j \in 2 .. Len(gg) : gg[j] \notin Heading(dirs)
          BY ONLY <3>1, <4>1, GroupIs
        <4>. QED BY ONLY <4>2 DEF H, V, m, n
      <3>. HIDE DEF m, n
      <3>3. Len(m) # 0
        BY <3>2
      <3>. QED BY <3>2, <3>3 DEF f, o, m
    <2>5. out' = out \o g
      <3>1. <<[heading |-> dir]>> \in Seq(V) /\ <<EmptyLine>> \in Seq(V) /\ EntryLine \subseteq V
        BY <2>3 DEF Line, Heading
      <3>2. l \in Seq(V)
        <4>. DEFINE f == loc.filter
                    o == loc.order
        <4>1. f \in BOOLEAN /\ o \in BOOLEAN
          BY <1>1
        <4>. HIDE DEF f, o
        <4>2. ls(dir, f, o) \in Seq(EntryLine)
          BY <4>1, LsIs
        <4>3. l \in Seq(EntryLine)
          BY <4>2 DEF f, o
        <4>. HIDE DEF l, V
        <4>. QED BY <3>1, <4>3
      <3>. DEFINE h == <<[heading |-> dir]>>
                  e == <<EmptyLine>>
                  t == l \o e
      <3>3. out' = ((out \o h) \o l) \o e /\ g = h \o t
        BY <2>1 DEF Group
      <3>. HIDE DEF V, l, h, e
      <3>4. t \in Seq(V) /\ out \o h \in Seq(V)
        BY <1>1, <3>1, <3>2, ConcatProperties DEF h, e
      <3>5. ((out \o h) \o l) \o e = (out \o h) \o t
        BY <3>1, <3>2, <3>4, ConcatAssociative, SMTT(60) DEF e
      <3>. HIDE DEF t
      <3>6. (out \o h) \o t = out \o (h \o t)
        BY <1>1, <3>1, <3>4, ConcatAssociative, SMTT(60) DEF h
      <3>. QED BY <3>3, <3>5, <3>6
    <2>6. p[i] = g
      BY <2>3 DEF Groups, dir
    <2>. HIDE DEF g, p, H, V, l
    <2>7. Grouped(out \o p[i], H, p, i)
      <3>. DEFINE n == i - 1
      <3>1. n \in Nat /\ i = n + 1
        BY <1>1
      <3>. HIDE DEF n
      <3>2. /\ Grouped(out, H, p, n) /\ p[n + 1] \in Seq(V) /\ Len(p[n + 1]) # 0 /\ p[n + 1][1] \in H
            /\ \A j \in 2 .. Len(p[n + 1]) : p[n + 1][j] \notin H
        BY <1>1, <2>4, <2>6, <3>1 DEF n
      <3>3. Grouped(out \o p[n + 1], H, p, n + 1)
        BY <1>1, <3>1, <3>2, GroupedNext
      <3>. QED BY <3>1, <3>3
    <2>8. out' \in Seq(V) /\ Grouped(out', H, p, (i + 1) - 1)
      <3>1. (i + 1) - 1 = i
        BY <1>1
      <3>. QED BY <1>1, <2>4, <2>5, <2>6, <2>7, <3>1, ConcatProperties
    <2>9. i + 1 \in 1 .. (Len(dirs) + 1)
      BY <1>1, <1>5
    <2>10. /\ (loc'.filter <=> ~Option(arg.options, "a")) /\ (loc'.order <=> Option(arg.options, "z"))
           /\ loc'.i - 1 = (i + 1) - 1 /\ loc'.i \in 1 .. (Len(dirs) + 1)
           /\ p = Groups(dirs, loc'.filter, loc'.order)
      BY <1>1, <2>2, <2>9 DEF p
    <2>11. ~(Len(dirs) < 2)
      BY <1>1, <2>1
    <2>12. Grouped(out', Heading(dirs), Groups(dirs, loc'.filter, loc'.order), loc'.i - 1)
      BY <2>8, <2>10 DEF H
    <2>13. out' \in Seq(Line(dirs))
      BY <2>8 DEF V
    <2>. HIDE DEF l
    <2>14. pc' = "ls" /\ Config(loc')
      BY <2>1, <2>2
    <2>. QED BY <1>1, <1>2, <2>14, <2>10, <2>11, <2>12, <2>13 DEF MylsInv, dirs
  <1>. QED BY <1>1, <1>3, <1>4, <1>5
LEMMA MylsNext == MylsInv /\ [Next]_vars => MylsInv'
  <1>. SUFFICES ASSUME MylsInv, [Next]_vars, "dirs" \in DOMAIN arg PROVE MylsInv'
    BY ArgKept DEF MylsInv
  <1>1. arg' = arg /\ (UNCHANGED vars \/ (pc = "getopt" /\ Getopt) \/ (pc = "ls" /\ (LsOnly \/ LsNext)))
    <2>1. pc \in {"getopt", "ls", "done", "refused"}
      BY DEF MylsInv
    <2>. QED BY <2>1, ArgKept, StringSteps, WordSteps, ArraySteps DEF Next, Exit, vars, Ended
  <1>2. CASE UNCHANGED vars
    BY <1>1, <1>2 DEF MylsInv, vars
  <1>3. CASE pc = "getopt" /\ Getopt
    BY <1>3, GetoptKeeps
  <1>4. CASE pc = "ls" /\ (LsOnly \/ LsNext)
    BY <1>4, LsKeeps
  <1>. QED BY <1>1, <1>2, <1>3, <1>4

LEMMA GroupsAre ==
    ASSUME NEW dirs, NEW filter \in BOOLEAN, NEW order \in BOOLEAN,
           NEW k \in DOMAIN dirs
    PROVE  LET e == Groups(dirs, filter, order)[k]
               l == ls(dirs[k], filter, order)
           IN  /\ Len(e) = Len(l) + 2 /\ Len(l) \in Nat
               /\ e[1] = [heading |-> dirs[k]]
               /\ \A j \in 1 .. Len(l) : e[1 + j] = l[j] /\ l[j] \in EntryLine
               /\ e[Len(l) + 2] = EmptyLine
  <1>1. dirs[k] \in Range(dirs)
    BY DEF Range
  <1>2. Groups(dirs, filter, order)[k] = Group(dirs[k], filter, order)
    BY DEF Groups
  <1>3. LET g == Group(dirs[k], filter, order)
            l == ls(dirs[k], filter, order)
        IN  /\ Len(g) = Len(l) + 2 /\ Len(l) \in Nat
            /\ g[1] = [heading |-> dirs[k]]
            /\ \A j \in 1 .. Len(l) : g[1 + j] = l[j] /\ l[j] \in EntryLine
            /\ g[Len(l) + 2] = EmptyLine
    BY <1>1, GroupIs
  <1>. QED BY <1>2, <1>3

\* Where the groups of a listing of several directories begin and end.
GroupsListed(s, dirs, filter, order) ==
    LET heads  == {j \in DOMAIN s : "heading" \in DOMAIN s[j]}
        at(k)  == Ascending(heads)[k]
        end(k) == Min({j \in DOMAIN s : j > at(k) /\ s[j] = EmptyLine})
        l(k)   == ls(dirs[k], filter, order)
    IN  /\ Kept(s, heads) = [k \in DOMAIN dirs |-> [heading |-> dirs[k]]]
        /\ \A k \in DOMAIN dirs :
              /\ at(k) \in Nat /\ at(k) = IF k = 1 THEN 1 ELSE end(k - 1) + 1
              /\ k = Len(dirs) => end(k) = Len(s)
              /\ end(k) = at(k) + Len(l(k)) + 1
              /\ \A j \in 1 .. Len(l(k)) : s[at(k) + j] = l(k)[j]

LEMMA GroupsAt ==
    ASSUME NEW dirs, dirs \in Seq(Range(dirs)), NEW filter \in BOOLEAN, NEW order \in BOOLEAN,
           NEW s \in Seq(Line(dirs)),
           Grouped(s, Heading(dirs), Groups(dirs, filter, order), Len(dirs))
    PROVE  GroupsListed(s, dirs, filter, order)
  <1>. DEFINE heads  == {j \in DOMAIN s : "heading" \in DOMAIN s[j]}
              first  == Ascending(heads)
              at(k)  == first[k]
              end(k) == Min({j \in DOMAIN s : j > at(k) /\ s[j] = EmptyLine})
              l(k)   == ls(dirs[k], filter, order)
              p      == Groups(dirs, filter, order)
              H      == Heading(dirs)
              n      == Len(dirs)
              len    == Len(s)
  <1>1. /\ n \in Nat /\ DOMAIN dirs = 1 .. n /\ len \in Nat /\ DOMAIN s = 1 .. len
        /\ \A k \in 1 .. n : dirs[k] \in Range(dirs)
    BY DEF Range
  <1>2. heads = Heads(s, H)
    <2>1. ASSUME NEW j \in DOMAIN s PROVE "heading" \in DOMAIN s[j] <=> s[j] \in H
      <3>1. s[j] \in Line(dirs)
        BY <2>1
      <3>. QED BY <3>1, LinesApart DEF Line
    <2>. HIDE DEF H
    <2>. QED BY <2>1 DEF Heads
  <1>3. /\ Cardinality(Heads(s, H)) = n
        /\ \A k \in 1 .. n :
              /\ first[k] \in Nat \ {0} /\ (k = 1 => first[k] = 1)
              /\ first[k] + Len(p[k]) = IF k = n THEN len + 1 ELSE first[k + 1]
              /\ \A j \in 1 .. Len(p[k]) :
                    first[k] - 1 + j \in 1 .. len /\ s[first[k] - 1 + j] = p[k][j]
    <2>1. Grouped(s, H, p, n) /\ first = Ascending(Heads(s, H))
      BY <1>2
    <2>. HIDE DEF H, p, n, first, heads
    <2>. QED BY <2>1 DEF Grouped, len
  <1>4. Len(first) = n /\ DOMAIN first = 1 .. n
    BY <1>2, <1>3, HeadsFacts, AscendingFacts DEF first
  <1>5. ASSUME NEW k \in 1 .. n
        PROVE  /\ Len(p[k]) = Len(l(k)) + 2 /\ Len(l(k)) \in Nat
               /\ p[k][1] = [heading |-> dirs[k]]
               /\ \A j \in 1 .. Len(l(k)) : p[k][1 + j] = l(k)[j] /\ l(k)[j] \in EntryLine
               /\ p[k][Len(l(k)) + 2] = EmptyLine
    BY <1>1, GroupsAre DEF p, l
  <1>. HIDE DEF heads, first, l, p, H, n, len
  <1>6. Kept(s, heads) = [k \in DOMAIN dirs |-> [heading |-> dirs[k]]]
    <2>1. ASSUME NEW k \in 1 .. n PROVE s[first[k]] = [heading |-> dirs[k]]
      <3>0. Len(p[k]) = Len(l(k)) + 2 /\ Len(l(k)) \in Nat
        BY <1>5
      <3>1. 1 \in 1 .. Len(p[k])
        BY <3>0
      <3>2. first[k] - 1 + 1 = first[k]
        BY <1>3
      <3>3. s[first[k] - 1 + 1] = p[k][1]
        BY <1>3, <3>1
      <3>4. p[k][1] = [heading |-> dirs[k]]
        BY <1>5
      <3>. QED BY <3>2, <3>3, <3>4
    <2>2. Kept(s, heads) = [k \in DOMAIN first |-> s[first[k]]]
      BY DEF Kept, first
    <2>. QED BY <1>1, <1>4, <2>1, <2>2
  <1>7. ASSUME NEW k \in 1 .. n
        PROVE  /\ at(k) \in Nat /\ end(k) = at(k) + Len(l(k)) + 1
               /\ \A j \in 1 .. Len(l(k)) : s[at(k) + j] = l(k)[j]
    <2>. DEFINE a == first[k]
                w == Len(l(k))
                m == a + w + 1
                S == {j \in DOMAIN s : j > a /\ s[j] = EmptyLine}
    <2>1. /\ a \in Nat \ {0} /\ w \in Nat /\ Len(p[k]) = w + 2
          /\ \A j \in 1 .. (w + 2) : a - 1 + j \in 1 .. len /\ s[a - 1 + j] = p[k][j]
          /\ \A j \in 1 .. w : p[k][1 + j] = l(k)[j] /\ l(k)[j] \in EntryLine
          /\ p[k][w + 2] = EmptyLine
      <3>1. /\ Len(p[k]) = w + 2 /\ w \in Nat
            /\ \A j \in 1 .. w : p[k][1 + j] = l(k)[j] /\ l(k)[j] \in EntryLine
            /\ p[k][w + 2] = EmptyLine
        BY <1>5
      <3>. HIDE DEF w
      <3>2. /\ a \in Nat \ {0}
            /\ \A j \in 1 .. Len(p[k]) : a - 1 + j \in 1 .. len /\ s[a - 1 + j] = p[k][j]
        BY <1>3
      <3>. HIDE DEF a
      <3>. QED BY <3>1, <3>2
    <2>. HIDE DEF a, w
    <2>2. ASSUME NEW j \in 1 .. w
          PROVE  s[a + j] = l(k)[j] /\ s[a + j] # EmptyLine
      <3>1. 1 + j \in 1 .. (w + 2) /\ a - 1 + (1 + j) = a + j
        BY <2>1
      <3>2. s[a + j] = p[k][1 + j]
        BY <2>1, <3>1
      <3>. QED BY <2>1, <3>2, LinesApart
    <2>3. m \in S /\ S \subseteq Nat
      <3>1. w + 2 \in 1 .. (w + 2) /\ a - 1 + (w + 2) = m /\ m > a
        BY <2>1
      <3>. HIDE DEF m
      <3>2. m \in 1 .. len /\ s[m] = EmptyLine
        BY <2>1, <3>1
      <3>. QED BY <1>1, <3>1, <3>2
    <2>4. ASSUME NEW j \in S PROVE m <= j
      <3>1. j \in Nat /\ j > a /\ s[j] = EmptyLine
        BY <1>1
      <3>2. CASE j < m
        <4>1. j - a \in 1 .. w /\ a + (j - a) = j
          BY <2>1, <3>1, <3>2
        <4>. QED BY <2>2, <3>1, <4>1
      <3>. QED BY <2>1, <3>1, <3>2
    <2>. HIDE DEF m, S
    <2>5. Min(S) = m
      BY <2>3, <2>4, MinIs
    <2>6. end(k) = m /\ at(k) = a
      BY <2>5 DEF S, a
    <2>. HIDE DEF at, end
    <2>. QED BY <2>1, <2>2, <2>6 DEF m, w
  <1>8. ASSUME NEW k \in 1 .. n
        PROVE  /\ at(k) = IF k = 1 THEN 1 ELSE end(k - 1) + 1
               /\ k = n => end(k) = len
    <2>1. \A i \in 1 .. n : end(i) + 1 = IF i = n THEN len + 1 ELSE at(i + 1)
      <3>1. ASSUME NEW i \in 1 .. n
            PROVE  end(i) + 1 = first[i] + Len(p[i])
        <4>1. end(i) = first[i] + Len(l(i)) + 1 /\ first[i] \in Nat
          BY <1>7
        <4>2. Len(p[i]) = Len(l(i)) + 2 /\ Len(l(i)) \in Nat
          BY <1>5
        <4>. HIDE DEF end
        <4>. QED BY <4>1, <4>2
      <3>. HIDE DEF end
      <3>. QED BY <1>3, <3>1
    <2>2. end(k) \in Nat
      <3>1. end(k) = at(k) + Len(l(k)) + 1 /\ at(k) \in Nat /\ Len(l(k)) \in Nat
        BY <1>5, <1>7
      <3>. HIDE DEF end, at
      <3>. QED BY <3>1
    <2>3. k = 1 => at(k) = 1
      BY <1>3
    <2>. HIDE DEF end, at
    <2>4. CASE k # 1
      <3>1. k - 1 \in 1 .. n /\ k - 1 # n /\ (k - 1) + 1 = k
        BY <1>1, <2>4
      <3>. QED BY <2>1, <2>2, <2>4, <3>1, <1>1
    <2>5. CASE k = 1
      BY <2>1, <2>2, <2>3, <2>5, <1>1, SMTT(60)
    <2>. QED BY <2>4, <2>5
  <1>. HIDE DEF end
  <1>9. \A k \in DOMAIN dirs :
            /\ at(k) \in Nat /\ at(k) = IF k = 1 THEN 1 ELSE end(k - 1) + 1
            /\ k = Len(dirs) => end(k) = Len(s)
            /\ end(k) = at(k) + Len(l(k)) + 1
            /\ \A j \in 1 .. Len(l(k)) : s[at(k) + j] = l(k)[j]
    BY <1>1, <1>7, <1>8 DEF n, len
  <1>. QED BY <1>6, <1>9, Zenon DEF GroupsListed, end, first, heads, l

\* The entries of a directory, read from the lines s after at and before end.
BlockListed(s, at, end, l, order) ==
    /\ {s[j].entry : j \in (at + 1) .. (end - 1)} = {l[k].entry : k \in 1 .. Len(l)}
    /\ \A j \in (at + 1) .. (end - 2) : Earlier(order, s[j].entry, s[j + 1].entry)

LEMMA BlockIs ==
    ASSUME NEW l \in Seq(EntryLine), NEW s, NEW at \in Nat, NEW end, end = at + Len(l) + 1,
           \A j \in 1 .. Len(l) : s[at + j] = l[j],
           NEW order, \A k \in 1 .. (Len(l) - 1) : Earlier(order, l[k].entry, l[k + 1].entry)
    PROVE  BlockListed(s, at, end, l, order)
  <1>. DEFINE n == Len(l)
  <1>1. n \in Nat /\ end - 1 = at + n /\ end - 2 = at + n - 1
    OBVIOUS
  <1>. HIDE DEF n
  <1>2. \A j \in (at + 1) .. (at + n) : j - at \in 1 .. n /\ at + (j - at) = j
    BY <1>1
  <1>3. \A j \in (at + 1) .. (at + n) : s[j] = l[j - at]
    BY <1>2 DEF n
  <1>4. \A k \in 1 .. n : at + k \in (at + 1) .. (at + n) /\ s[at + k] = l[k]
    BY <1>1 DEF n
  <1>5. {s[j].entry : j \in (at + 1) .. (at + n)} = {l[k].entry : k \in 1 .. n}
    <2>1. \A j \in (at + 1) .. (at + n) : \E k \in 1 .. n : s[j] = l[k]
      BY <1>2, <1>3
    <2>2. \A k \in 1 .. n : \E j \in (at + 1) .. (at + n) : s[j] = l[k]
      BY <1>4
    <2>3. {s[j].entry : j \in (at + 1) .. (at + n)} \subseteq {l[k].entry : k \in 1 .. n}
      BY <2>1
    <2>4. {l[k].entry : k \in 1 .. n} \subseteq {s[j].entry : j \in (at + 1) .. (at + n)}
      BY <2>2
    <2>. QED BY <2>3, <2>4
  <1>6. ASSUME NEW j \in (at + 1) .. (at + n - 1)
        PROVE  Earlier(order, s[j].entry, s[j + 1].entry)
    <2>1. /\ j \in (at + 1) .. (at + n) /\ j + 1 \in (at + 1) .. (at + n)
          /\ j - at \in 1 .. (n - 1) /\ (j + 1) - at = (j - at) + 1
      BY <1>1
    <2>2. s[j] = l[j - at] /\ s[j + 1] = l[(j - at) + 1]
      BY <1>3, <2>1
    <2>. QED BY <2>1, <2>2 DEF n
  <1>. QED BY <1>1, <1>5, <1>6 DEF n, BlockListed
LEMMA MylsHolds == MylsInv => ListingRight
  <1>. SUFFICES ASSUME MylsInv, pc = "done", "dirs" \in DOMAIN arg PROVE ListingRight
    BY DEF ListingRight
  <1>. DEFINE several == Len(arg.dirs) >= 2
              dirs    == IF arg.dirs = <<>> THEN <<Cwd>> ELSE arg.dirs
              has(o)  == \E k \in DOMAIN arg.options : arg.options[k] = o
              heads   == {j \in DOMAIN out : "heading" \in DOMAIN out[j]}
              at(k)   == IF several THEN Ascending(heads)[k] ELSE 0
              end(k)  == IF several THEN Min({j \in DOMAIN out : j > at(k) /\ out[j] = EmptyLine})
                                    ELSE Len(out) + 1
              before(x, y) == \/ has("z") /\ x.dir /\ ~y.dir
                              \/ (has("z") => x.dir = y.dir) /\ x.name < y.name
              listed(k) == {d \in (IF dirs[k] \in DOMAIN Tree THEN Tree[dirs[k]] ELSE {}) :
                                d.name \in Hidden => has("a")}
              filter == loc.filter
              order == loc.order
              l(k) == ls(dirs[k], filter, order)
  <1>1. /\ arg.dirs \in Seq(Range(arg.dirs)) /\ Len(arg.dirs) \in Nat
        /\ DOMAIN arg.dirs = 1 .. Len(arg.dirs)
        /\ filter \in BOOLEAN /\ order \in BOOLEAN
        /\ (filter <=> ~has("a")) /\ (order <=> has("z"))
        /\ Len(arg.dirs) < 2 => out = ls(IF arg.dirs = <<>> THEN Cwd ELSE arg.dirs[1], filter, order)
        /\ Len(arg.dirs) >= 2 =>
              /\ out \in Seq(Line(arg.dirs))
              /\ Grouped(out, Heading(arg.dirs), Groups(arg.dirs, filter, order), Len(arg.dirs))
    BY DEF MylsInv, Config, Option
  <1>2. ASSUME NEW k \in DOMAIN dirs
        PROVE  /\ l(k) \in Seq(EntryLine)
               /\ {l(k)[j].entry : j \in 1 .. Len(l(k))} = listed(k)
               /\ \A j \in 1 .. (Len(l(k)) - 1) : Earlier(order, l(k)[j].entry, l(k)[j + 1].entry)
    <2>. DEFINE dir == dirs[k]
    <2>1. listed(k) = Shown(Entries(dir), filter)
      BY <1>1 DEF Entries, Shown, dot_filter
    <2>2. filter \in BOOLEAN /\ order \in BOOLEAN
      BY <1>1
    <2>. HIDE DEF dir, filter, order, listed
    <2>3. LET ll == ls(dir, filter, order)
          IN  /\ ll \in Seq(EntryLine)
              /\ {ll[j].entry : j \in 1 .. Len(ll)} = Shown(Entries(dir), filter)
              /\ \A j \in 1 .. (Len(ll) - 1) : Earlier(order, ll[j].entry, ll[j + 1].entry)
      BY <2>2, LsIs
    <2>. QED BY <2>1, <2>3 DEF dir
  <1>3. \A x, y : Earlier(order, x, y) => before(x, y)
    BY <1>1 DEF Earlier
  <1>. HIDE DEF l, listed, before, order, filter
  <1>4. /\ several => /\ Kept(out, heads) = [k \in DOMAIN dirs |-> [heading |-> dirs[k]]]
                      /\ end(Len(dirs)) = Len(out)
        /\ \A k \in DOMAIN dirs :
              /\ several => at(k) = IF k = 1 THEN 1 ELSE end(k - 1) + 1
              /\ at(k) \in Nat /\ end(k) = at(k) + Len(l(k)) + 1
              /\ \A j \in 1 .. Len(l(k)) : out[at(k) + j] = l(k)[j]
    <2>a. CASE ~several
      <3>1. DOMAIN dirs = {1} /\ out = l(1)
        <4>1. CASE arg.dirs = <<>>
          <5>1. dirs = <<Cwd>> /\ DOMAIN <<Cwd>> = {1} /\ <<Cwd>>[1] = Cwd /\ Len(arg.dirs) < 2
            BY <4>1
          <5>. QED BY <1>1, <4>1, <5>1 DEF l
        <4>2. CASE arg.dirs # <<>>
          <5>0. dirs = arg.dirs
            BY <4>2
          <5>1. Len(arg.dirs) = 1 /\ dirs = arg.dirs
            <6>1. Len(arg.dirs) # 0
              BY <1>1, <4>2
            <6>2. ~(Len(arg.dirs) >= 2)
              BY <2>a
            <6>3. Len(arg.dirs) \in Nat
              BY <1>1
            <6>4. Len(arg.dirs) = 1
              BY <6>1, <6>2, <6>3, SMTT(60)
            <6>. QED BY <5>0, <6>4
          <5>2. DOMAIN dirs = {1}
            BY <1>1, <5>1
          <5>. QED BY <1>1, <4>2, <5>1, <5>2 DEF l
        <4>. QED BY <4>1, <4>2
      <3>2. at(1) = 0 /\ end(1) = Len(out) + 1
        BY <2>a
      <3>. HIDE DEF several, dirs, at, end, heads
      <3>3. l(1) \in Seq(EntryLine) /\ Len(l(1)) \in Nat /\ \A j \in 1 .. Len(l(1)) : out[0 + j] = l(1)[j]
        BY <1>2, <3>1
      <3>4. ASSUME NEW k \in DOMAIN dirs
            PROVE  /\ at(k) \in Nat /\ end(k) = at(k) + Len(l(k)) + 1
                   /\ \A j \in 1 .. Len(l(k)) : out[at(k) + j] = l(k)[j]
        <4>1. k = 1
          BY <3>1
        <4>2. at(1) \in Nat /\ end(1) = at(1) + Len(l(1)) + 1
          BY <3>1, <3>2, <3>3
        <4>. QED BY <3>2, <3>3, <4>1, <4>2
      <3>. QED BY <2>a, <3>4
    <2>b. CASE several
      <3>1. dirs = arg.dirs /\ Len(dirs) \in Nat /\ Len(dirs) >= 2 /\ DOMAIN dirs = 1 .. Len(dirs)
        <4>1. Len(<<>>) = 0
          OBVIOUS
        <4>2. arg.dirs # <<>>
          BY <2>b, <4>1
        <4>. QED BY <1>1, <2>b, <4>2
      <3>2. /\ dirs \in Seq(Range(dirs)) /\ filter \in BOOLEAN /\ order \in BOOLEAN
            /\ out \in Seq(Line(dirs))
            /\ Grouped(out, Heading(dirs), Groups(dirs, filter, order), Len(dirs))
        BY <1>1, <2>b, <3>1
      <3>. HIDE DEF dirs, several
      <3>. DEFINE s == out
      <3>3. GroupsListed(s, dirs, filter, order)
        <4>1. s \in Seq(Line(dirs)) /\ Grouped(s, Heading(dirs), Groups(dirs, filter, order), Len(dirs))
          BY <3>2
        <4>. HIDE DEF s
        <4>. QED BY <3>2, <4>1, GroupsAt
      <3>4. Len(dirs) \in DOMAIN dirs
        BY <3>1
      <3>5. /\ \A k : at(k) = Ascending(heads)[k]
            /\ \A k : end(k) = Min({j \in DOMAIN out : j > Ascending(heads)[k] /\ out[j] = EmptyLine})
        BY <2>b
      <3>. HIDE DEF at, end
      <3>6. /\ Kept(out, heads) = [k \in DOMAIN dirs |-> [heading |-> dirs[k]]]
            /\ \A k \in DOMAIN dirs :
                  /\ at(k) \in Nat /\ at(k) = IF k = 1 THEN 1 ELSE end(k - 1) + 1
                  /\ k = Len(dirs) => end(k) = Len(out)
                  /\ end(k) = at(k) + Len(l(k)) + 1
                  /\ \A j \in 1 .. Len(l(k)) : out[at(k) + j] = l(k)[j]
        BY <3>3, <3>5, Zenon DEF l, heads, GroupsListed
      <3>. QED BY <3>4, <3>6
    <2>. QED BY <2>a, <2>b
  <1>. HIDE DEF several, heads, at, end, dirs
  <1>5. ASSUME NEW k \in DOMAIN dirs
        PROVE  /\ {out[j].entry : j \in (at(k) + 1) .. (end(k) - 1)} = listed(k)
               /\ \A j \in (at(k) + 1) .. (end(k) - 2) : before(out[j].entry, out[j + 1].entry)
    <2>. DEFINE ll == l(k)
                a == at(k)
                e == end(k)
    <2>1. /\ ll \in Seq(EntryLine) /\ a \in Nat /\ e = a + Len(ll) + 1
          /\ \A j \in 1 .. Len(ll) : out[a + j] = ll[j]
          /\ \A j \in 1 .. (Len(ll) - 1) : Earlier(order, ll[j].entry, ll[j + 1].entry)
      BY <1>2, <1>4
    <2>. HIDE DEF ll, a, e
    <2>2. /\ {out[j].entry : j \in (a + 1) .. (e - 1)} = {ll[j].entry : j \in 1 .. Len(ll)}
          /\ \A j \in (a + 1) .. (e - 2) : Earlier(order, out[j].entry, out[j + 1].entry)
      <3>. DEFINE s == out
      <3>1. \A j \in 1 .. Len(ll) : s[a + j] = ll[j]
        BY <2>1
      <3>2. BlockListed(s, a, e, ll, order)
        <4>. HIDE DEF s
        <4>. QED BY <2>1, <3>1, BlockIs
      <3>. QED BY <3>2 DEF BlockListed
    <2>3. {ll[j].entry : j \in 1 .. Len(ll)} = listed(k)
      BY <1>2 DEF ll
    <2>4. \A j \in (a + 1) .. (e - 2) : before(out[j].entry, out[j + 1].entry)
      BY <1>3, <2>2
    <2>. QED BY <2>2, <2>3, <2>4 DEF a, e
  <1>6. /\ several => /\ Kept(out, heads) = [k \in DOMAIN dirs |-> [heading |-> dirs[k]]]
                      /\ end(Len(dirs)) = Len(out)
        /\ \A k \in DOMAIN dirs :
              /\ several => at(k) = IF k = 1 THEN 1 ELSE end(k - 1) + 1
              /\ {out[j].entry : j \in (at(k) + 1) .. (end(k) - 1)} = listed(k)
              /\ \A j \in (at(k) + 1) .. (end(k) - 2) : before(out[j].entry, out[j + 1].entry)
    BY <1>4, <1>5
  <1>. QED BY <1>6, Zenon DEF ListingRight, several, dirs, heads, at, end, before, listed

\* myls lists the directories it is given, each under its name if there are
\* several, and in each the entries that the options ask for, once and in their
\* order (ls, LsNext), for every tree and every list of arguments.
THEOREM DirectoriesListed == Spec => []ListingRight
  <1>. QED BY MylsInit, MylsNext, MylsHolds, PTL DEF Spec
=============================================================================
