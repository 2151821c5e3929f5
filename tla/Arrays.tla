------------------------------- MODULE Arrays -------------------------------
(***************************************************************************)
(* Programs that move and sort the elements of an array: memmove.c of      *)
(* src/lab4, isort.c of src/lab7 and myls.c of src/assign4.  They are       *)
(* started from the same shell as those of Strings and Words.              *)
(***************************************************************************)
EXTENDS Words

CONSTANTS
    Bytes,          \* size of the memory that memmove is used in
    Elems,          \* arguments of isort: numbers of elements
    Trials,         \* swap routines that isort tries
    Tree,           \* the accessible directories: name -> set of [name, dir]
    Hidden,         \* the names that begin with a dot; a name is a number, and
                    \* strcmp orders names as numbers
    Options, Dirs,  \* arguments of myls: lists of options, lists of directories
    Cwd             \* "."

ASSUME ArraysAssumption ==
    /\ Bytes \in Nat /\ Elems \subseteq Nat /\ Trials \in Nat \ {0}
    /\ \A args \in Options \cup Dirs : args \in Seq(Range(args))
    /\ \A x \in DOMAIN Tree :
          /\ IsFiniteSet(Tree[x]) /\ Tree[x] \subseteq [name : Nat, dir : BOOLEAN]
          /\ \A d, e \in Tree[x] : d.name = e.name => d = e

-----------------------------------------------------------------------------
(* musl_memmove.  Variants named ..._bug are what a plausible mistake would *)
(* make of the definition after them; nothing here uses them.               *)

\* A call, with all the bytes of memory told apart.
MemmoveMain ==
    \E dest, src, n \in 0 .. Bytes :
        /\ dest + n <= Bytes /\ src + n <= Bytes
        /\ Starts(CASE dest = src                                           -> "done"
                    [] dest # src /\ (src + n <= dest \/ dest + n <= src)   -> "memcpy"
                    [] OTHER -> IF dest < src THEN "forward" ELSE "backward",
                  [dest |-> dest, src |-> src, nbytes |-> n],
                  [mem |-> [k \in 0 .. (Bytes - 1) |-> k], i |-> IF dest < src THEN 0 ELSE n - 1])

Memcpy ==
    /\ pc = "memcpy" /\ pc' = "done"
    /\ loc' = [loc EXCEPT !.mem = [k \in DOMAIN @ |->
                   IF k \in arg.dest .. (arg.dest + arg.nbytes - 1)
                   THEN @[k - arg.dest + arg.src] ELSE @[k]]]
    /\ UNCHANGED <<arg, out>>

\* One byte, in a loop upwards or downwards.
MoveByte ==
    /\ pc \in {"forward", "backward"}
    /\ IF loc.i \in 0 .. (arg.nbytes - 1)
       THEN /\ loc' = [mem |-> [loc.mem EXCEPT ![arg.dest + loc.i] = loc.mem[arg.src + loc.i]],
                       i   |-> IF pc = "forward" THEN loc.i + 1 ELSE loc.i - 1]
            /\ UNCHANGED pc
       ELSE pc' = "done" /\ UNCHANGED loc
    /\ UNCHANGED <<arg, out>>

-----------------------------------------------------------------------------
(* isort.c: main sorts the same descending array with every swap routine.   *)

unsorted(nelems) == [j \in 0 .. (nelems - 1) |-> nelems - j]

IsortMain ==
    \E nelems \in Elems :
        Starts("isort", [nelems |-> nelems],
               [arr |-> unsorted(nelems), i |-> 1, j |-> 0, nswaps |-> 0])

\* Element 0 is never compared.
OutOfOrder_bug == loc.i < arg.nelems /\ loc.j > 0 /\ loc.arr[loc.j + 1] < loc.arr[loc.j]

\* The condition of insertion_sort's inner loop.
OutOfOrder == loc.i < arg.nelems /\ loc.j >= 0 /\ loc.arr[loc.j + 1] < loc.arr[loc.j]

Swap ==
    /\ pc = "isort" /\ OutOfOrder
    /\ loc' = [loc EXCEPT !.arr[loc.j] = loc.arr[loc.j + 1], !.arr[loc.j + 1] = loc.arr[loc.j],
                          !.j = @ - 1, !.nswaps = @ + 1]
    /\ UNCHANGED <<pc, arg, out>>

NextElem ==
    /\ pc = "isort" /\ loc.i < arg.nelems /\ ~OutOfOrder
    /\ loc' = [loc EXCEPT !.i = @ + 1, !.j = loc.i]
    /\ UNCHANGED <<pc, arg, out>>

\* The number of swaps is printed; the array is set up again for the next trial.
TrialEnd ==
    /\ pc = "isort" /\ loc.i >= arg.nelems
    /\ out' = Append(out, loc.nswaps)
    /\ IF Len(out') = Trials THEN pc' = "done" /\ UNCHANGED loc
       ELSE /\ loc' = [arr |-> unsorted(arg.nelems), i |-> 1, j |-> 0, nswaps |-> 0]
            /\ UNCHANGED pc
    /\ UNCHANGED arg

-----------------------------------------------------------------------------
(* myls.c.  A line of output is a heading, an entry or empty.               *)

string_order(d1, d2) == d1.name - d2.name

type_order(d1, d2) == CASE d1.dir /\ ~d2.dir -> -1
                        [] ~d1.dir /\ d2.dir -> 1
                        [] OTHER             -> string_order(d1, d2)

dot_filter(d) == d.name \notin Hidden

\* scandir: the entries that pass the filter, sorted.
scandir(entries, filter, order) ==
    LET list         == {d \in entries : filter => dot_filter(d)}
        less(d1, d2) == (IF order THEN type_order(d1, d2) ELSE string_order(d1, d2)) < 0
    IN  [k \in 1 .. Cardinality(list) |->
            CHOOSE d \in list : Cardinality({e \in list : less(e, d)}) = k - 1]

EmptyLine == [empty |-> TRUE]

\* The lines of a directory; one that is not accessible has none.
ls(dir, filter, order) ==
    IF dir \in DOMAIN Tree THEN [k \in 1 .. Len(scandir(Tree[dir], filter, order)) |->
                                    [entry |-> scandir(Tree[dir], filter, order)[k]]]
                           ELSE <<>>

MylsMain ==
    \E options \in Options, dirs \in Dirs :
        Starts("getopt", [options |-> options, dirs |-> dirs],
               [i |-> 1, filter |-> TRUE, order |-> FALSE])

\* The next option: "a", "z" or one that getopt refuses.
Getopt ==
    /\ pc = "getopt"
    /\ IF loc.i > Len(arg.options) THEN pc' = "ls" /\ loc' = [loc EXCEPT !.i = 1]
       ELSE CASE arg.options[loc.i] = "a" -> loc' = [loc EXCEPT !.i = @ + 1, !.filter = FALSE] /\ UNCHANGED pc
              [] arg.options[loc.i] = "z" -> loc' = [loc EXCEPT !.i = @ + 1, !.order = TRUE] /\ UNCHANGED pc
              [] OTHER                    -> pc' = "refused" /\ UNCHANGED loc
    /\ UNCHANGED <<arg, out>>

\* No directory or one: no heading.
LsOnly ==
    /\ pc = "ls" /\ Len(arg.dirs) < 2
    /\ out' = ls(IF arg.dirs = <<>> THEN Cwd ELSE arg.dirs[1], loc.filter, loc.order)
    /\ pc' = "done" /\ UNCHANGED <<arg, loc>>

\* A directory that is not accessible ends the program.
LsNext_bug ==
    /\ pc = "ls" /\ Len(arg.dirs) >= 2
    /\ IF loc.i > Len(arg.dirs) \/ arg.dirs[loc.i] \notin DOMAIN Tree
       THEN pc' = "done" /\ UNCHANGED <<loc, out>>
       ELSE /\ out' = out \o <<[heading |-> arg.dirs[loc.i]]>>
                          \o ls(arg.dirs[loc.i], loc.filter, loc.order) \o <<EmptyLine>>
            /\ loc' = [loc EXCEPT !.i = @ + 1] /\ UNCHANGED pc
    /\ UNCHANGED arg

LsNext ==
    /\ pc = "ls" /\ Len(arg.dirs) >= 2
    /\ IF loc.i > Len(arg.dirs)
       THEN pc' = "done" /\ UNCHANGED <<loc, out>>
       ELSE /\ out' = out \o <<[heading |-> arg.dirs[loc.i]]>>
                          \o ls(arg.dirs[loc.i], loc.filter, loc.order) \o <<EmptyLine>>
            /\ loc' = [loc EXCEPT !.i = @ + 1] /\ UNCHANGED pc
    /\ UNCHANGED arg

-----------------------------------------------------------------------------
ArrayMain == MemmoveMain \/ IsortMain \/ MylsMain

ArrayStep ==
    \/ Memcpy \/ MoveByte
    \/ Swap \/ NextElem \/ TrialEnd
    \/ Getopt \/ LsOnly \/ LsNext

\* The program has ended.
Exit == pc \in {"done", "refused", "crashed"} /\ UNCHANGED vars

Init == StringMain \/ WordMain \/ ArrayMain

Next == StringStep \/ WordStep \/ ArrayStep \/ Exit

Spec == Init /\ [][Next]_vars

\* A program that can go on does.
FairSpec == Spec /\ WF_vars(Next)

-----------------------------------------------------------------------------
(* Properties.                                                             *)

Inversions(a) == {p \in (DOMAIN a) \X (DOMAIN a) : p[1] < p[2] /\ a[p[1]] > a[p[2]]}

\* memmove leaves in dest what was in src, whichever way they overlap, and the
\* rest of memory as it was.  Every swap of insertion_sort removes one inversion
\* of the array and makes none, so that the count that is printed is the number
\* the array began with, for every swap routine.
ArraysRight ==
    /\ pc = "done" /\ "nbytes" \in DOMAIN arg =>
           \A k \in DOMAIN loc.mem :
               loc.mem[k] = IF k - arg.dest \in 0 .. (arg.nbytes - 1)
                            THEN k - arg.dest + arg.src ELSE k
    /\ "nelems" \in DOMAIN arg =>
           LET all == Cardinality(Inversions(unsorted(arg.nelems)))
           IN  /\ loc.nswaps + Cardinality(Inversions(loc.arr)) = all
               /\ ToSet([k \in 1 .. arg.nelems |-> loc.arr[k - 1]]) = 1 .. arg.nelems
               /\ \A k \in DOMAIN out : out[k] = all

\* myls lists every directory it is given that is accessible, each under its
\* name if there are several, with no line between two listings; in it every
\* entry once, the hidden ones only with -a, in the order of the names, or with
\* -z the directories in that order and then the rest.
ListingRight ==
    pc = "done" /\ "dirs" \in DOMAIN arg =>
        LET several == Len(arg.dirs) >= 2
            dirs    == IF arg.dirs = <<>> THEN <<Cwd>> ELSE arg.dirs
            has(o)  == \E k \in DOMAIN arg.options : arg.options[k] = o
            heads   == {j \in DOMAIN out : "heading" \in DOMAIN out[j]}
            at(k)   == IF several THEN Ascending(heads)[k] ELSE 0
            end(k)  == IF several THEN Min({j \in DOMAIN out : j > at(k) /\ out[j] = EmptyLine})
                                  ELSE Len(out) + 1
            before(x, y) == \/ has("z") /\ x.dir /\ ~y.dir
                            \/ (has("z") => x.dir = y.dir) /\ x.name < y.name
        IN  /\ several => /\ Kept(out, heads) = [k \in DOMAIN dirs |-> [heading |-> dirs[k]]]
                          /\ end(Len(dirs)) = Len(out)
            /\ \A k \in DOMAIN dirs :
                  /\ several => at(k) = IF k = 1 THEN 1 ELSE end(k - 1) + 1
                  /\ {out[j].entry : j \in (at(k) + 1) .. (end(k) - 1)}
                        = {d \in (IF dirs[k] \in DOMAIN Tree THEN Tree[dirs[k]] ELSE {}) :
                              d.name \in Hidden => has("a")}
                  /\ \A j \in (at(k) + 1) .. (end(k) - 2) : before(out[j].entry, out[j + 1].entry)

\* Every program comes to its end, whatever it is started with.
Ends == <>(pc \in {"done", "refused", "crashed"})
=============================================================================
