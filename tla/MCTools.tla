------------------------------- MODULE MCTools -------------------------------
(* A small instance of the programs of Strings, Words and Arrays.            *)
EXTENDS Arrays

UpTo(S, n) == UNION {[1 .. k -> S] : k \in 0 .. n}

MCChar == {"a", "e", "w", "y", "t", "d", "A", "B", Dash, Space, Colon, Eq, Junk}
MCVowel == {"a", "e"}
MCConsonant == {"w", "y", "t"}

MCTexts == UpTo({"a", Dash, Space}, 5)
MCDelimiters == {{Space}, {Space, Dash}, {}}
MCLengths == 2 .. 4

\* Names A and AB; entries that hold a name elsewhere, twice, alone or not at all.
A == <<"A">>
AB == <<"A", "B">>
B == <<"B">>
Entry == {<<"A", Eq>>, <<"A", Eq, "B">>, <<"A", "B", Eq, "A">>, <<"B", "A", Eq, "B">>,
          <<"B", Eq, "A", "B">>, <<"B", Eq, "A">>, <<"A", "A", Eq>>, <<"A">>}
\* The search path is a variable of its own: PATH is A, MYPATH is B.
Paths == {<<"A", Eq, "d", Colon, "e">>, <<"B", Eq, "e", Colon, Colon, "d">>}
MCEnvs == UpTo(Entry, 2) \cup UpTo(Paths, 2)
MCKeys == UpTo({A, AB, B}, 2)
MCNames == UpTo({"ls", "cc"}, 2)
MCExecutable == {<< <<"d">>, "ls">>, << <<"e">>, "ls">>, << <<"e">>, "cc">>}

MCBuffers == [1 .. 2 -> UpTo({"a", Dash, Space}, 3)]
MCSentences == UpTo({<<"a">>, <<"t", "a">>, <<"t", "w", "e">>, <<"w", "y">>, <<Dash, "a">>, <<>>}, 3)

\* Widths on both sides of what an int can shift; operands around the bounds.
MCWidths == (1 .. 13) \cup {NaN}
MCSums == UpTo({0, 1, 3, 4, 15, 16, NaN} \cup {-1, -2, -4, -5, -16}, 3)

Intervals == {a .. b : a \in 0 .. 15, b \in 0 .. 15}
Points == Intervals \cup {(0 .. 15) \ S : S \in Intervals}
MCCodePoints == {<<p>> : p \in Points}
                \cup UpTo({{0}, {7}, {10, 0}, {11}, 0 .. 15, {16}, NaN}, 2)

MCRules == SUBSET (0 .. 7) \cup {{8}}
MCGeneration0 == SUBSET (0 .. 4) \cup {{5}, NULL}
MCGen0 == {2}

MCNumerals == {[k \in 1 .. n |-> Space] \o sign \o digits \o rest :
                   n \in 0 .. 1, sign \in {<<>>, <<Plus>>, <<Dash>>, <<Dash, Dash>>},
                   digits \in UpTo({0, 1, 2, 3, 9}, 3), rest \in {<<>>, <<Junk, 1>>}}

MCTree == [x \in {"one", "two", "."} |->
             CASE x = "one" -> {[name |-> k, dir |-> k \in {2, 3}] : k \in 1 .. 4}
               [] x = "two" -> {}
               [] OTHER     -> {[name |-> k, dir |-> k = 4] : k \in 1 .. 4}]
MCHidden == {1, 3}
MCOptions == UpTo({"a", "z", "q"}, 2)
MCDirs == UpTo({"one", "two", "none"}, 3)
=============================================================================
