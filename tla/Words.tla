-------------------------------- MODULE Words --------------------------------
(***************************************************************************)
(* Programs on the bits of a word: sat, utf8 and automata of src/assign1,  *)
(* triangle of src/assign0, the bit exercises of src/lab1 and atoi of      *)
(* src/lab2.  They are started from the same shell as those of Strings.    *)
(*                                                                         *)
(* An integer keeps its width, and wraps; where single bits matter a word  *)
(* is the set of the positions that are on.                                *)
(***************************************************************************)
EXTENDS Strings, Combinatorics

CONSTANTS
    LONG, INT, CHAR_BIT,    \* bits of a long, an int and a byte
    BYTES,                  \* bytes of the word that zero_byte is about
    NaN,                    \* an argument that strtol does not take for a number
    MinWidth,               \* the smallest bit width of sat
    Widths, Sums,           \* arguments of sat: a width, and lists of operands
    CodePoints,             \* lists of sets of bits, and of NaN, for utf8
    CELLS, N_GENERATIONS, DEFAULT_GEN_0,    \* of automata
    Rules, Generation0,     \* arguments of automata
    Levels,                 \* arguments of triangle
    Plus, Numerals          \* the character "+"; arguments of atoi

ASSUME WordsAssumption ==
    /\ {LONG, INT, CHAR_BIT, BYTES, MinWidth, CELLS, N_GENERATIONS} \subseteq Nat \ {0}
    /\ INT < LONG /\ CELLS > 2
    /\ DEFAULT_GEN_0 \subseteq 0 .. (CELLS - 1)
    /\ \A points \in CodePoints : points \in Seq(Range(points))
    /\ NaN \notin Int /\ Widths \subseteq Int \cup {NaN} /\ Sums \subseteq Seq(Int \cup {NaN})

\* The integer with the lowest w bits of n, signed.
signed(n, w) == ((n + 2^(w - 1)) % 2^w) - 2^(w - 1)
unsigned(n, w) == n % 2^w
Ints(w) == -(2^(w - 1)) .. (2^(w - 1) - 1)

\* Sets of bits.
Shl(S, k) == {b + k : b \in S}
Shr(S, k) == {b - k : b \in {x \in S : x >= k}}
Bits(n)   == {k \in 0 .. LONG : (n \div 2^k) % 2 = 1}
Number(S) == SumSet({2^k : k \in S})

\* convert_arg lets n pass; it ends the program otherwise.
convert_arg(n, low, high) == n # NaN /\ low <= n /\ n <= high

-----------------------------------------------------------------------------
(* sat.c.  Variants named ..._bug are what a plausible mistake would make   *)
(* of the definition after them; nothing here uses them.                    *)

\* The 1 that is shifted is an int, and the processor shifts by the distance
\* modulo the bits of an int.
signed_max(bitwidth) == signed(2^((bitwidth - 1) % INT), INT) - 1
signed_min(bitwidth) == -(signed_max(bitwidth) + 1)

\* Two negative operands are taken for two that cannot overflow.
sat_add_bug(x, y, bitwidth) ==
    LET sign(n) == n \div 2^(bitwidth - 1)
        result  == signed(x + y, LONG)
    IN  IF sign(x) = 0 /\ sign(y) = 0 /\ sign(result) # 0 THEN signed_max(bitwidth) ELSE result

sat_add(x, y, bitwidth) ==
    LET sign(n) == n \div 2^(bitwidth - 1)      \* >>, which keeps the sign
        result  == signed(x + y, LONG)
    IN  CASE sign(x) = 0 /\ sign(y) = 0 /\ sign(result) # 0 -> signed_max(bitwidth)
          [] sign(x) # 0 /\ sign(y) # 0 /\ sign(signed(-result, LONG)) # 0 -> signed_min(bitwidth)
          [] OTHER -> result

\* With less than two operands sat prints the range of the width.
SatMain ==
    \E bitwidth \in Widths, operands \in Sums :
        Starts(IF ~convert_arg(bitwidth, MinWidth, LONG) THEN "refused"
               ELSE IF Len(operands) < 2 THEN "range"
               ELSE "sum",
               [bitwidth |-> bitwidth, operands |-> operands], [i |-> 1, sum |-> 0])

PrintRange ==
    /\ pc = "range" /\ pc' = "done"
    /\ out' = <<signed_min(arg.bitwidth), signed_max(arg.bitwidth)>>
    /\ UNCHANGED <<arg, loc>>

\* The next operand.
Add ==
    LET n == arg.operands[loc.i]
    IN  /\ pc = "sum" /\ loc.i <= Len(arg.operands)
        /\ IF convert_arg(n, signed_min(arg.bitwidth), signed_max(arg.bitwidth))
           THEN /\ loc' = [i |-> loc.i + 1,
                           sum |-> IF loc.i = 1 THEN n ELSE sat_add(loc.sum, n, arg.bitwidth)]
                /\ UNCHANGED pc
           ELSE pc' = "refused" /\ UNCHANGED loc
        /\ UNCHANGED <<arg, out>>

PrintSum ==
    /\ pc = "sum" /\ loc.i > Len(arg.operands)
    /\ pc' = "done" /\ out' = <<loc.sum>>
    /\ UNCHANGED <<arg, loc>>

-----------------------------------------------------------------------------
(* utf8.c.  A code point is the set of its bits, 0 .. 15.                   *)

Byte(S) == S \cap (0 .. 7)

\* The two-byte form is used for one bit too many.
to_utf8_bug(c) ==
    IF c \subseteq 0 .. 6 THEN <<c>>
    ELSE IF c \subseteq 0 .. 11
         THEN <<Byte((Shr(c, 6) \cup Shl({1, 2}, 5)) \ {5}), Byte((c \cup Shl({1}, 6)) \ {6})>>
         ELSE <<Byte((Shr(c, 12) \cup Shl({1, 2, 3}, 4)) \ {4}),
                Byte((Shr(c, 6) \cup Shl({1}, 6)) \ {6}), Byte((c \cup Shl({1}, 6)) \ {6})>>

\* Bytes marked 10, behind one marked 110 or 1110; what is left of the code
\* point above a byte is lost when it is stored.
to_utf8(c) ==
    LET head(k, mark, zero) == Byte((Shr(c, k) \cup Shl(mark, zero)) \ {zero})
        tail(k)             == Byte((Shr(c, k) \cup Shl({1}, 6)) \ {6})
    IN  IF c \subseteq 0 .. 6 THEN <<c>>
        ELSE IF c \subseteq 0 .. 10 THEN <<head(6, {1, 2}, 5), tail(0)>>
        ELSE <<head(12, {1, 2, 3}, 4), tail(6), tail(0)>>

Utf8Main ==
    \E points \in CodePoints :
        Starts(IF points = <<>> THEN "refused" ELSE "utf8", [points |-> points], [i |-> 1])

\* The next argument, which is refused unless it is a number of 16 bits.
Utf8Next ==
    /\ pc = "utf8" /\ loc.i <= Len(arg.points)
    /\ IF arg.points[loc.i] # NaN /\ arg.points[loc.i] \subseteq 0 .. 15
       THEN /\ out' = Append(out, to_utf8(arg.points[loc.i]))
            /\ loc' = [i |-> loc.i + 1] /\ UNCHANGED pc
       ELSE pc' = "refused" /\ UNCHANGED <<loc, out>>
    /\ UNCHANGED arg

Utf8End == /\ pc = "utf8" /\ loc.i > Len(arg.points)
           /\ pc' = "done" /\ UNCHANGED <<arg, loc, out>>

-----------------------------------------------------------------------------
(* automata.c.  A generation is the set of the cells that are live, cell    *)
(* CELLS - 1 being drawn first; a rule is a set of bits, 0 .. 7.            *)

on(gen, k) == IF k \in gen THEN 1 ELSE 0

load_index(i, gen) == 4 * on(gen, i + 1) + 2 * on(gen, i) + on(gen, i - 1)
load_index_63(i, gen) == 2 * on(gen, i) + on(gen, i - 1)

\* The last cell is not shifted to its place.
load_index_0_bug(i, gen) == 2 * on(gen, i + 1) + on(gen, i)

load_index_0(i, gen) == 2 * (2 * on(gen, i + 1) + on(gen, i))

advance(gen, rule) ==
    {i \in 0 .. (CELLS - 1) :
        CASE i = CELLS - 1 -> load_index_63(i, gen) \in rule
          [] i = 0         -> load_index_0(i, gen) \in rule
          [] OTHER         -> load_index(i, gen) \in rule}

\* A rule, and a generation to start from or NULL; a set with a bit beyond the
\* width stands for a number that is out of range.
AutomataMain ==
    \E rule \in Rules, gen_0 \in Generation0 :
        Starts(IF rule \subseteq 0 .. 7 /\ (gen_0 # NULL => gen_0 \subseteq 0 .. (CELLS - 1))
               THEN "automata" ELSE "refused",
               [rule |-> rule], [gen |-> IF gen_0 = NULL THEN DEFAULT_GEN_0 ELSE gen_0])

\* The generation is drawn; main stops after it, or goes on with the next.
Generation ==
    LET next == advance(loc.gen, arg.rule)
    IN  /\ pc = "automata"
        /\ out' = Append(out, loc.gen)
        /\ IF arg.rule = {} \/ next = loc.gen \/ Len(out') = N_GENERATIONS
           THEN pc' = "done" /\ UNCHANGED loc
           ELSE loc' = [gen |-> next] /\ UNCHANGED pc
        /\ UNCHANGED arg

-----------------------------------------------------------------------------
(* lab1, lab2/atoi.c and triangle.c.                                        *)

midpoint_original(x, y) ==                  \* / rounds towards zero
    LET s == signed(x + y, INT) IN IF s >= 0 THEN s \div 2 ELSE -((-s) \div 2)
midpoint_A(x, y) ==
    LET d == signed(y - x, INT)
    IN  signed(x + (IF d >= 0 THEN d \div 2 ELSE -((-d) \div 2)), INT)
midpoint_B(x, y) == signed(unsigned(unsigned(x, INT) + unsigned(y, INT), INT) \div 2, INT)
midpoint_C(x, y) ==
    LET X == Bits(unsigned(x, INT))
        Y == Bits(unsigned(y, INT))
    IN  signed(Number(X \cap Y), INT) + signed(Number((X \cup Y) \ (X \cap Y)), INT) \div 2

MidMain == \E x, y \in Ints(INT) : Starts("mid", [x |-> x, y |-> y], NoRecord)

TryMid ==
    /\ pc = "mid" /\ pc' = "done"
    /\ out' = <<midpoint_original(arg.x, arg.y), midpoint_A(arg.x, arg.y),
                midpoint_B(arg.x, arg.y), midpoint_C(arg.x, arg.y)>>
    /\ UNCHANGED <<arg, loc>>

ParityMain ==
    \E val \in Ints(INT) :
        Starts("parity", [val |-> val], [x |-> val, result |-> 0])

\* x is shifted as a signed integer.
ParityNext_bug ==
    /\ pc = "parity" /\ loc.x # 0
    /\ loc' = [x |-> loc.x \div 2, result |-> (loc.result + loc.x) % 2]
    /\ UNCHANGED <<pc, arg, out>>

ParityNext ==
    /\ pc = "parity" /\ loc.x # 0
    /\ loc' = [x |-> unsigned(loc.x, INT) \div 2, result |-> (loc.result + loc.x) % 2]
    /\ UNCHANGED <<pc, arg, out>>

ParityEnd == /\ pc = "parity" /\ loc.x = 0
             /\ pc' = "done" /\ out' = <<loc.result>>
             /\ UNCHANGED <<arg, loc>>

is_power_of_2(num) == num # 0 /\ Bits(num) \cap Bits(num - 1) = {}

round_up(value, multiple) ==
    LET up == unsigned(value + multiple - 1, INT)
    IN  IF is_power_of_2(multiple) THEN Number(Bits(up) \ Bits(multiple - 1))
                                   ELSE (up \div multiple) * multiple

RoundMain ==
    \E value \in 0 .. (2^INT - 1), multiple \in 1 .. (2^INT - 1) :
        Starts("round", [value |-> value, multiple |-> multiple], NoRecord)

RoundUp ==
    /\ pc = "round" /\ pc' = "done"
    /\ out' = <<round_up(arg.value, arg.multiple)>>
    /\ UNCHANGED <<arg, loc>>

\* The ones of val itself are not taken out.
has_zero_byte_bug(val) ==
    LET w     == BYTES * CHAR_BIT
        ones  == (2^w - 1) \div (2^CHAR_BIT - 1)
        highs == Bits(unsigned(ones * 2^(CHAR_BIT - 1), w))
    IN  Bits(unsigned(val - ones, w)) \cap highs # {}

has_zero_byte(val) ==
    LET w     == BYTES * CHAR_BIT
        ones  == (2^w - 1) \div (2^CHAR_BIT - 1)
        highs == Bits(unsigned(ones * 2^(CHAR_BIT - 1), w))
    IN  (Bits(unsigned(val - ones, w)) \cap highs) \ Bits(val) # {}

ZeroByteMain == \E val \in 0 .. (2^(BYTES * CHAR_BIT) - 1) : Starts("zero_byte", [word |-> val], NoRecord)

ZeroByte ==
    /\ pc = "zero_byte" /\ pc' = "done"
    /\ out' = <<has_zero_byte(arg.word)>>
    /\ UNCHANGED <<arg, loc>>

\* The number in the digits of s after blanks and a sign, added up negative.  A
\* text is a sequence of Space, Plus, Dash, other characters and digits.
musl_atoi(s) ==
    LET t        == From(s, strspn(s, {Space}))
        negative == t # <<>> /\ t[1] = Dash
        u        == IF t # <<>> /\ t[1] \in {Dash, Plus} THEN Tail(t) ELSE t
        digits   == First(u, strspn(u, 0 .. 9))
        number   == FoldLeft(LAMBDA n, d : signed(10 * n - d, INT), 0, digits)
    IN  IF negative THEN number ELSE signed(-number, INT)

AtoiMain == \E s \in Numerals : Starts("atoi", [digits |-> s], NoRecord)

Atoi ==
    /\ pc = "atoi" /\ pc' = "done"
    /\ out' = <<musl_atoi(arg.digits)>>
    /\ UNCHANGED <<arg, loc>>

\* triangle with a number of levels; a row is its indentation and its stars.
TriangleMain ==
    \E nlevels \in Levels :
        Starts(IF nlevels \in 0 .. 8 THEN "triangle" ELSE "refused",
               [size |-> 2^nlevels], [row |-> 2^nlevels - 1])

TriangleRow ==
    /\ pc = "triangle" /\ loc.row >= 0
    /\ out' = Append(out, [indent |-> loc.row,
                           star |-> [k \in 1 .. (arg.size - loc.row) |->
                                        Bits(k - 1) \cap Bits(loc.row) = {}]])
    /\ loc' = [row |-> loc.row - 1]
    /\ UNCHANGED <<pc, arg>>

TriangleEnd == /\ pc = "triangle" /\ loc.row < 0
               /\ pc' = "done" /\ UNCHANGED <<arg, loc, out>>

-----------------------------------------------------------------------------
WordMain ==
    \/ SatMain \/ Utf8Main \/ AutomataMain \/ TriangleMain
    \/ MidMain \/ ParityMain \/ RoundMain \/ ZeroByteMain \/ AtoiMain

WordStep ==
    \/ PrintRange \/ Add \/ PrintSum
    \/ Utf8Next \/ Utf8End
    \/ Generation
    \/ TryMid \/ RoundUp \/ ZeroByte \/ Atoi
    \/ ParityNext \/ ParityEnd
    \/ TriangleRow \/ TriangleEnd

-----------------------------------------------------------------------------
(* Properties.                                                             *)

\* The sums of the first operands, each kept between lo and hi.
Saturated(operands, lo, hi) ==
    LET sum[k \in DOMAIN operands] ==
            IF k = 1 THEN operands[1] ELSE Max({lo, Min({hi, sum[k - 1] + operands[k]})})
    IN  sum

\* sat prints the range of its width and takes every operand in it, and its sum
\* is the sum that stays at a bound when it would pass it, after every operand:
\* for widths below that of an int, the largest that signed_max is right for.
SatRight ==
    "bitwidth" \in DOMAIN arg /\ arg.bitwidth \in MinWidth .. (INT - 1) =>
        LET lo == -(2^(arg.bitwidth - 1))
            hi == 2^(arg.bitwidth - 1) - 1
        IN  CASE pc \in {"range", "sum"} -> TRUE
              [] pc = "refused" -> \E n \in ToSet(arg.operands) : n \notin lo .. hi
              [] pc = "done" /\ Len(arg.operands) < 2 -> out = <<lo, hi>>
              [] OTHER -> out = <<Saturated(arg.operands, lo, hi)[Len(arg.operands)]>>

mark(b) == Min({k \in 0 .. 8 : 7 - k \notin b})    \* leading ones of a byte

\* A reader of UTF-8 gets the code points back, from as few bytes as can hold
\* them, whatever is next to what: a byte marked 10 goes with the one before it.
Utf8Right ==
    LET bytes == FlattenSeq(out)
        first == Ascending({k \in DOMAIN bytes : mark(bytes[k]) # 1})
        length(k) == (IF k = Len(first) THEN Len(bytes) + 1 ELSE first[k + 1]) - first[k]
        read(k) == UNION {LET b == bytes[first[k] + j]
                          IN  Shl(b \cap (0 .. (6 - mark(b))), 6 * (length(k) - 1 - j))
                             : j \in 0 .. (length(k) - 1)}
    IN  "points" \in DOMAIN arg =>
            /\ Len(first) = Len(out)
            /\ \A k \in DOMAIN first :
                  /\ read(k) = arg.points[k]
                  /\ mark(bytes[first[k]]) = (IF length(k) = 1 THEN 0 ELSE length(k))
                  /\ length(k) = IF read(k) \subseteq 0 .. 6 THEN 1
                                 ELSE IF read(k) \subseteq 0 .. 10 THEN 2
                                 ELSE 3

mirror(gen)      == {CELLS - 1 - k : k \in gen}
mirrored(rule)   == {4 * (k % 2) + 2 * ((k \div 2) % 2) + (k \div 4) : k \in rule}

\* Every line drawn follows from the one before it, the two ends no worse than
\* the middle: with a dead cell beyond each end, and so that the mirrored rule
\* draws the mirrored lines.  A drawing that is short ends in a line that stays
\* as it is, or is one of rule 0.
Generations ==
    LET pattern(gen, k) == 4 * on(gen, k + 1) + 2 * on(gen, k) + on(gen, k - 1)
        after(gen) == {k \in 0 .. (CELLS - 1) : pattern(gen, k) \in arg.rule}
    IN  "rule" \in DOMAIN arg =>
            /\ \A k \in 1 .. (Len(out) - 1) :
                  /\ out[k + 1] = after(out[k]) /\ out[k + 1] # out[k]
                  /\ advance(mirror(out[k]), mirrored(arg.rule)) = mirror(out[k + 1])
            /\ Len(out) <= N_GENERATIONS
            /\ pc = "done" /\ Len(out) < N_GENERATIONS =>
                  arg.rule = {} \/ after(Last(out)) = Last(out)

\* The exercises on bits do what arithmetic says.  midpoint_C rounds the middle
\* down for every two integers, which none of the others does; parity counts the
\* bits; round_up gives the next multiple if that is an unsigned int, has_zero_byte
\* finds a zero byte and nothing else, atoi reads every number that is an int,
\* the least included, and the triangle has a star where Pascal's is odd.
LabsRight ==
    /\ pc = "done" /\ "y" \in DOMAIN arg => out[4] = (arg.x + arg.y) \div 2
    /\ pc = "done" /\ "val" \in DOMAIN arg =>
           out[1] = Cardinality(Bits(unsigned(arg.val, INT))) % 2
    /\ pc = "done" /\ "multiple" \in DOMAIN arg =>
           LET above == {n \in arg.value .. (arg.value + arg.multiple - 1) : n % arg.multiple = 0}
           IN  arg.value + arg.multiple - 1 < 2^INT => above = {out[1]}
    /\ pc = "done" /\ "word" \in DOMAIN arg =>
           out[1] = \E k \in 0 .. (BYTES - 1) :
                        (arg.word \div 2^(k * CHAR_BIT)) % 2^CHAR_BIT = 0
    /\ pc = "done" /\ "digits" \in DOMAIN arg =>
           LET minus  == SelectSeq(arg.digits, LAMBDA c : c = Dash)
               digits == SelectSeq(arg.digits, LAMBDA c : c \in 0 .. 9)
               n      == FoldLeft(LAMBDA a, d : 10 * a + d, 0, digits)
               v      == IF minus = <<>> THEN n ELSE -n
           IN  (\E sign \in {<<>>, <<Plus>>, <<Dash>>}, k \in 0 .. Len(arg.digits) :
                   arg.digits = [j \in 1 .. k |-> Space] \o sign \o digits) /\ v \in Ints(INT) =>
                       out[1] = v
    /\ pc \in {"triangle", "done"} /\ "size" \in DOMAIN arg =>
           \A r \in DOMAIN out :
               /\ out[r].indent = arg.size - r
               /\ \A k \in DOMAIN out[r].star :
                     out[r].star[k] <=> choose(out[r].indent + k - 1, k - 1) % 2 = 1

=============================================================================
