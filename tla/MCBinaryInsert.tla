---------------------------- MODULE MCBinaryInsert ----------------------------
(***************************************************************************)
(* Instances of BinaryInsert for TLC.                                      *)
(***************************************************************************)
EXTENDS BinaryInsert

CONSTANTS a, b, c, d

\* Four lines; two have the same length and two others the same number.
ByName   == [x \in Line |-> CASE x = a -> 1 [] x = b -> 2 [] x = c -> 3 [] OTHER -> 4]
ByLength == [x \in Line |-> CASE x = a -> 2 [] x = b -> 1 [] x = c -> 2 [] OTHER -> 3]
ByNumber == [x \in Line |-> CASE x = a -> 0 [] x = b -> 5 [] x = c -> 2 [] OTHER -> 0]

\* Every option alone and with others, the comparisons in both orders, and one
\* that there is not.
CommandLines == {<<>>, <<"r">>, <<"u">>, <<"l", "u">>, <<"u", "n", "r">>, <<"l", "n", "u">>,
                 <<"n", "l", "r">>, <<"x", "u">>}
=============================================================================
