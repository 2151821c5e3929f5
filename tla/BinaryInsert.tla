----------------------------- MODULE BinaryInsert -----------------------------
(***************************************************************************)
(* mysort of src/assign4: main takes its options, sort_lines reads the     *)
(* lines into an array that it grows as it goes, and then sorts them with  *)
(* qsort, or with -u puts them one by one into a second array by binsert   *)
(* of src/assign4/util.c, in order and without duplicates.                 *)
(*                                                                         *)
(* An array is indexed by element.  An iteration of binsert's loop is a    *)
(* step; the memmove and memcpy that end an unsuccessful search are one.   *)
(***************************************************************************)
EXTENDS Integers, Sequences, FiniteSets, Functions

CONSTANTS
    Line,           \* the lines a file may hold
    NoLine,         \* what an element holds before it is written
    cmp_pstr, cmp_pstr_len, cmp_pstr_numeric,
                    \* rankings of the lines: cmp(p, q) has the sign of cmp[p] - cmp[q]
    Options,        \* lists of options that mysort is called with
    MIN_NLINES,     \* lines the first array has room for to begin with
    MaxLines        \* bound on the lines of a file

ASSUME LinesAssumption ==
    /\ NoLine \notin Line
    /\ {cmp_pstr, cmp_pstr_len, cmp_pstr_numeric} \subseteq [Line -> Int]
    /\ \A options \in Options : options \in Seq(STRING)
    /\ MIN_NLINES \in Nat \ {0}
    /\ MaxLines \in Nat

VARIABLES
    argv, optind,           \* the options, and how many getopt has returned
    cmp, uniq, reverse,     \* what they have chosen
    str_array,      \* the lines read: a sequence of size_used of them
    size_limit,     \* lines str_array has room for
    uniq_array,     \* the array binsert works on
    nelem,          \* *p_nelem: its elements in use
    i,              \* index in str_array of the line to insert
    base, nremain,  \* binsert's locals: element index and length of the range
    out,            \* the lines printed
    pc              \* "getopt", "read", "next", "search", "done" or "exit"

args   == <<argv, optind, cmp, uniq, reverse>>
arrays == <<str_array, size_limit, uniq_array, nelem, i, base, nremain>>
vars   == <<args, arrays, out, pc>>

size_used == Len(str_array)
key       == str_array[i + 1]
Room      == 0 .. (size_used - 1)      \* the elements uniq_array is malloc'ed

Init == /\ str_array = <<>> /\ size_limit = MIN_NLINES
        /\ uniq_array = [j \in {} |-> NoLine]
        /\ nelem = 0 /\ i = 0 /\ base = 0 /\ nremain = 0
        /\ argv \in Options /\ optind = 0
        /\ cmp = cmp_pstr /\ uniq = FALSE /\ reverse = FALSE
        /\ out = <<>> /\ pc = "getopt"

-----------------------------------------------------------------------------
(* Variants named ..._bug are what a plausible mistake would make of the    *)
(* definition after them; nothing here uses them.                           *)

\* The next option; one that getopt does not know ends the program.
Getopt ==
    /\ pc = "getopt" /\ optind < Len(argv)
    /\ LET opt == argv[optind + 1]
       IN  /\ cmp' = CASE opt = "l" -> cmp_pstr_len
                        [] opt = "n" -> cmp_pstr_numeric
                        [] OTHER     -> cmp
           /\ reverse' = (reverse \/ opt = "r")
           /\ uniq' = (uniq \/ opt = "u")
           /\ pc' = IF opt \in {"l", "n", "r", "u"} THEN pc ELSE "exit"
    /\ optind' = optind + 1
    /\ UNCHANGED <<argv, arrays, out>>

\* fopen, which may fail.
Open ==
    /\ pc = "getopt" /\ optind = Len(argv)
    /\ pc' \in {"read", "exit"}
    /\ UNCHANGED <<args, arrays, out>>

\* The array grows one line too late: when a line has been written behind it.
Grown_bug == IF size_used > size_limit THEN 2 * size_limit ELSE size_limit

\* The room of str_array when the next line is stored.
Grown == IF size_used = size_limit - 1 THEN 2 * size_limit ELSE size_limit

\* fgets returns a line.
ReadLine(line) ==
    /\ pc = "read" /\ size_used < MaxLines
    /\ size_limit' = Grown
    /\ str_array' = Append(str_array, line)
    /\ UNCHANGED <<args, uniq_array, nelem, i, base, nremain, out, pc>>

\* The first of the lines is not printed in the reverse order.
print_helper_bug(a) ==
    IF reverse THEN [k \in 1 .. (Len(a) - 1) |-> a[Len(a) + 1 - k]] ELSE a

\* The lines in the order they are printed in.
print_helper(a) == IF reverse THEN [k \in DOMAIN a |-> a[Len(a) + 1 - k]] ELSE a

\* qsort may leave elements that compare equal in any order.
Qsorted(a) ==
    LET times(q, line) == Cardinality({k \in DOMAIN q : q[k] = line})
    IN  {q \in [DOMAIN a -> Range(a)] :
            /\ \A k \in 2 .. Len(a) : cmp[q[k - 1]] <= cmp[q[k]]
            /\ \A line \in Range(a) : times(q, line) = times(a, line)}

\* fgets returns NULL: without -u the array is sorted and printed.
EndOfFileSort ==
    /\ pc = "read" /\ ~uniq
    /\ str_array' \in Qsorted(str_array)
    /\ out' = print_helper(str_array')
    /\ pc' = "done"
    /\ UNCHANGED <<args, size_limit, uniq_array, nelem, i, base, nremain>>

\* With -u the array for binsert is allocated.
EndOfFile ==
    /\ pc = "read" /\ uniq
    /\ uniq_array' = [j \in Room |-> NoLine]
    /\ pc' = "next"
    /\ UNCHANGED <<args, str_array, size_limit, nelem, i, base, nremain, out>>

\* binsert is called for line i.
Call ==
    /\ pc = "next" /\ i < size_used
    /\ base' = 0 /\ nremain' = nelem
    /\ pc' = "search"
    /\ UNCHANGED <<args, str_array, size_limit, uniq_array, nelem, i, out>>

\* The last line has been inserted: the elements in use are printed.
Finish ==
    /\ pc = "next" /\ i = size_used
    /\ out' = print_helper([k \in 1 .. nelem |-> uniq_array[k - 1]])
    /\ pc' = "done"
    /\ UNCHANGED <<args, arrays>>

middle == base + nremain \div 2

\* The sign of compar(key, p) at the middle of the range.
sign == cmp[key] - cmp[uniq_array[middle]]

\* binsert returns; sort_lines goes on to the next line.
Return == /\ pc' = "next" /\ i' = i + 1
          /\ UNCHANGED <<args, str_array, size_limit, base, nremain, out>>

\* An equal element is there already.
Found ==
    /\ pc = "search" /\ nremain # 0 /\ sign = 0
    /\ Return /\ UNCHANGED <<uniq_array, nelem>>

MoveRight ==
    /\ pc = "search" /\ nremain # 0 /\ sign > 0
    /\ base' = middle + 1 /\ nremain' = (nremain - 1) \div 2
    /\ UNCHANGED <<args, str_array, size_limit, uniq_array, nelem, i, out, pc>>

\* The middle itself stays in the range.
MoveLeft_bug ==
    /\ pc = "search" /\ nremain # 0 /\ sign < 0
    /\ nremain' = (nremain + 1) \div 2
    /\ UNCHANGED <<args, str_array, size_limit, uniq_array, nelem, i, base, out, pc>>

MoveLeft ==
    /\ pc = "search" /\ nremain # 0 /\ sign < 0
    /\ nremain' = nremain \div 2
    /\ UNCHANGED <<args, str_array, size_limit, uniq_array, nelem, i, base, out, pc>>

\* The elements from base on are overwritten, not moved.
Opened_bug(a) == [j \in Room |-> IF j = base THEN key ELSE a[j]]

\* The array after the n elements from base on have moved up by one and key is
\* in the gap.
Opened(a) ==
    LET n == nelem - base
    IN  [j \in Room |-> CASE j = base                          -> key
                          [] j \in (base + 1) .. (base + n)    -> a[j - 1]
                          [] OTHER                             -> a[j]]

\* The range is empty: key belongs at base.
Insert ==
    /\ pc = "search" /\ nremain = 0
    /\ uniq_array' = Opened(uniq_array)
    /\ nelem' = nelem + 1
    /\ Return

binsert == Found \/ MoveRight \/ MoveLeft \/ Insert

Next ==
    \/ \E line \in Line : ReadLine(line)
    \/ Getopt
    \/ Open
    \/ EndOfFile
    \/ EndOfFileSort
    \/ Call
    \/ Finish
    \/ binsert

Spec     == Init /\ [][Next]_vars
FairSpec == Spec /\ WF_vars(Getopt \/ Open)
                 /\ WF_vars(EndOfFile \/ EndOfFileSort) /\ WF_vars(Call \/ Finish \/ binsert)

-----------------------------------------------------------------------------
(* Properties.                                                             *)

\* The locals and the arrays, which are never written out of their room.
TypeOK ==
    /\ str_array \in Seq(Line) /\ size_limit \in Nat
    /\ cmp \in [Line -> Int] /\ uniq \in BOOLEAN
    /\ pc \in {"getopt", "read", "next", "search", "done", "exit"}
    /\ pc \in {"next", "search"} => uniq
    /\ uniq_array \in [IF uniq /\ pc \in {"next", "search", "done"} THEN Room ELSE {}
                           -> Line \cup {NoLine}]
    /\ nelem \in Nat /\ i \in Nat /\ base \in Nat /\ nremain \in Nat

\* Neither array is too small: the first has room for every line read, the
\* second, allocated once, for every line that may still be inserted.
RoomEnough ==
    /\ size_used <= size_limit
    /\ nelem <= i /\ i <= size_used
    /\ pc = "search" => i < size_used

\* The elements in use are lines, in strictly increasing order.
Sorted ==
    \A j \in 0 .. (nelem - 1) :
        /\ uniq_array[j] \in Line
        /\ \A k \in 0 .. (j - 1) : cmp[uniq_array[k]] < cmp[uniq_array[j]]

\* What binsert has ruled out: key is behind every element before the range and
\* before every element behind it.
SearchRange ==
    pc = "search" =>
        /\ base + nremain <= nelem
        /\ \A j \in 0 .. (base - 1) : cmp[uniq_array[j]] < cmp[key]
        /\ \A j \in (base + nremain) .. (nelem - 1) : cmp[key] < cmp[uniq_array[j]]

\* Of the lines inserted so far, and of those only, the array holds the first
\* of each kind: none is lost, replaced or there twice.
FirstOfEachKind ==
    \A line \in Line :
        (\E j \in 0 .. (nelem - 1) : uniq_array[j] = line)
            <=> \E m \in 1 .. i :
                    /\ str_array[m] = line
                    /\ \A k \in 1 .. (m - 1) : cmp[str_array[k]] # cmp[line]

\* The two arrays and the indices into them: nothing outside is ever touched.
ArraysSound == TypeOK /\ RoomEnough

\* binsert's search and what it has built so far.
InsertSound == Sorted /\ SearchRange /\ FirstOfEachKind

\* What mysort prints is what its options ask for: the lines in the order of the
\* last comparison given, or in the opposite order with -r, and with -u the first
\* line of each kind only, wherever among the options -r and -u stand.
Output ==
    pc = "done" =>
        LET given(o) == {k \in DOMAIN argv : argv[k] = o}
            last     == {k \in given("l") \cup given("n") :
                            \A l \in given("l") \cup given("n") : l <= k}
            rank     == IF last = {} THEN cmp_pstr
                        ELSE IF last \subseteq given("l") THEN cmp_pstr_len ELSE cmp_pstr_numeric
            way      == IF given("r") = {} THEN 1 ELSE 0 - 1
            first(k) == \A l \in 1 .. (k - 1) : rank[str_array[l]] # rank[str_array[k]]
        IN  /\ \A k \in 2 .. Len(out) : way * rank[out[k - 1]] <= way * rank[out[k]]
            /\ IF given("u") = {} THEN Len(out) = size_used
               ELSE /\ \A k \in 2 .. Len(out) : rank[out[k - 1]] # rank[out[k]]
                    /\ {out[k] : k \in DOMAIN out}
                          = {str_array[k] : k \in {k \in DOMAIN str_array : first(k)}}

\* mysort ends on every file that does.
Ends == <>(pc \in {"done", "exit"})
=============================================================================
