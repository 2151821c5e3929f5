---------------------------- MODULE MCLineTools ----------------------------
(***************************************************************************)
(* Instances of LineTools for TLC.                                         *)
(***************************************************************************)
EXTENDS LineTools

CONSTANTS x, y, MaxFile, MaxScript

\* Well formed requests and malformed ones, the largest id and one out of range.
Requests ==
    {[char |-> "a", fields |-> 3, id |-> 0, size |-> 2],
     [char |-> "r", fields |-> 3, id |-> 1, size |-> 1],
     [char |-> "f", fields |-> 2, id |-> 2, size |-> 0],
     [char |-> "a", fields |-> 2, id |-> 0, size |-> 0],
     [char |-> "a", fields |-> 3, id |-> 0 - 1, size |-> 3]}

\* All sequences of at most m elements of S.
Upto(S, m) == UNION {[1 .. k -> S] : k \in 0 .. m}

AllFiles   == Upto(Char \cup {NL}, MaxFile)
AllScripts == Upto({NL, Blank, Hash, x} \cup Request, MaxScript)
=============================================================================
