------------------------------ MODULE LineTools ------------------------------
(***************************************************************************)
(* The programs that read a file line by line: mycat, mytail and myuniq of *)
(* src/assign3, which share the read_line of its util.c, and parse_script  *)
(* of src/assign6/test_harness.c, which has a read_line of its own.        *)
(*                                                                         *)
(* A file is a sequence of cells: a cell is a character or, in a script,   *)
(* the text of a request.  A step is one call of fgets or the handling of  *)
(* one line.                                                               *)
(***************************************************************************)
EXTENDS Integers, FiniteSets, FiniteSetsExt, SequencesExt

CONSTANTS
    NL, Blank, Hash,    \* newline, white space, and the # of a comment
    Char,               \* any other character
    Request,            \* texts of requests: [char, fields, id, size]
    Junk,               \* a character found in memory that nobody has written
    NULL,
    MINIMUM_SIZE,       \* of read_line's buffer in util.c
    ESTIMATE,           \* entries by which myuniq's table grows
    MAX_NUM_LINES,      \* of mytail
    MAX_SCRIPT_LINE_LEN, OPS_RESIZE_AMOUNT, MAX_REQUEST_SIZE, INT_MAX,
    Files, Scripts,     \* the files and the scripts considered
    Numbers             \* the numbers given to mytail

ASSUME SizesAssumption ==
    /\ MINIMUM_SIZE \in Nat \ {0, 1} /\ MAX_SCRIPT_LINE_LEN \in Nat \ {0, 1}
    /\ ESTIMATE \in Nat \ {0} /\ OPS_RESIZE_AMOUNT \in Nat \ {0}
    /\ MAX_NUM_LINES \in Nat /\ INT_MAX \in Nat

ASSUME InputAssumption ==
    /\ Files \subseteq Seq(Char \cup {NL})
    /\ Scripts \subseteq Seq(Char \cup {NL, Blank, Hash} \cup Request)
    /\ Numbers \subseteq Int
    /\ \A r \in Request : r.id \in Int

VARIABLES
    prog,       \* the program
    file, rest, \* the file, and what of it is not yet read
    buf, old_size, cumulative_factor,   \* the locals of read_line in util.c
    n,          \* mytail's n; parse_script's num_ids
    array,      \* array_of_strings, each_line or script.ops
    used,       \* index_number, curr_number, num_ops, or lines mycat has numbered
    lineno, maxid,      \* locals of parse_script
    out,        \* what is printed
    pc,         \* "main", "read", "grow", "eof", "done" or "error"
    unwritten   \* auxiliary: memory nobody has written has been used

vars   == <<prog, file, rest, buf, old_size, cumulative_factor, n, array, used,
            lineno, maxid, out, pc, unwritten>>
reader == <<buf, old_size, cumulative_factor, unwritten>>
input  == <<prog, file>>
parser == <<lineno, maxid>>

Init == /\ \/ prog \in {"mycat", "mytail", "myuniq"} /\ file \in Files
           \/ prog = "parse_script" /\ file \in Scripts
        /\ rest = file /\ buf = <<>> /\ old_size = 0 /\ cumulative_factor = 0
        /\ n \in (IF prog = "mytail" THEN Numbers ELSE {0})
        /\ array = [j \in {} |-> NULL] /\ used = 0 /\ lineno = 0 /\ maxid = 0
        /\ out = <<>> /\ pc = "main" /\ unwritten = FALSE

-----------------------------------------------------------------------------
(* Reading.  Variants named ..._bug are what a plausible mistake would make *)
(* of the definition after them; nothing here uses them.                    *)

\* What fgets(s, size, fp) stores when file f is not at its end: at most
\* size - 1 cells, up to and with a newline.
Chunk(f, size) ==
    SubSeq(f, 1, Min({i \in 1 .. Len(f) : f[i] = NL \/ i = size - 1 \/ i = Len(f)}))

Behind(f, size) == SubSeq(f, Len(Chunk(f, size)) + 1, Len(f))

\* The string without a trailing newline.
Chomp(s) == IF s # <<>> /\ Last(s) = NL THEN Front(s) ELSE s

\* read_line's first fgets.
FirstRead ==
    /\ pc = "read" /\ prog # "parse_script"
    /\ IF rest = <<>>
       THEN pc' = "eof" /\ UNCHANGED <<rest, reader>>
       ELSE /\ buf' = Chunk(rest, MINIMUM_SIZE) /\ rest' = Behind(rest, MINIMUM_SIZE)
            /\ old_size' = MINIMUM_SIZE /\ cumulative_factor' = 1
            /\ pc' = "grow" /\ UNCHANGED unwritten
    /\ UNCHANGED <<input, n, array, used, parser, out>>

\* A full buffer always grows.
Full_bug == Len(buf) = old_size - cumulative_factor

\* The condition of read_line's loop, and the break that leaves it.
Full == Len(buf) = old_size - cumulative_factor /\ Last(buf) # NL

\* At the end of the file the loop tries again.
Grow_bug ==
    /\ pc = "grow" /\ Full
    /\ IF rest = <<>>
       THEN UNCHANGED <<rest, reader>>
       ELSE /\ buf' = buf \o Chunk(rest, old_size) /\ rest' = Behind(rest, old_size)
            /\ old_size' = 2 * old_size /\ cumulative_factor' = cumulative_factor + 1
            /\ UNCHANGED unwritten
    /\ UNCHANGED <<input, n, array, used, parser, out, pc>>

\* An iteration of the loop.  At the end of the file fgets stores nothing, and
\* what malloc returned is appended as if it were a string: none or one
\* character of it stands for any number.
Grow ==
    /\ pc = "grow" /\ Full
    /\ IF rest = <<>>
       THEN /\ \E str \in {<<>>, <<Junk>>} : buf' = buf \o str
            /\ unwritten' = TRUE /\ UNCHANGED rest
       ELSE /\ buf' = buf \o Chunk(rest, old_size) /\ rest' = Behind(rest, old_size)
            /\ UNCHANGED unwritten
    /\ old_size' = 2 * old_size /\ cumulative_factor' = cumulative_factor + 1
    /\ UNCHANGED <<input, n, array, used, parser, out, pc>>

\* read_line returns Line to program p, which goes on to the next.
Line == Chomp(buf)

Returned(p) ==
    /\ pc = "grow" /\ ~Full /\ prog = p /\ pc' = "read"
    /\ UNCHANGED <<input, rest, reader, n, parser>>

AtEnd(p) ==
    /\ pc = "eof" /\ prog = p /\ pc' = "done"
    /\ UNCHANGED <<input, rest, reader, n, array, used, parser>>

\* main of program p: it may fail to open its file.
Opens(p) ==
    /\ pc = "main" /\ prog = p
    /\ pc' \in {"read", "error"}
    /\ UNCHANGED <<input, rest, reader, n, used, parser, out>>

-----------------------------------------------------------------------------
(* mycat.                                                                  *)

CatMain == Opens("mycat") /\ UNCHANGED array

\* Only lines that are not empty have a number.
CatLine ==
    /\ Returned("mycat")
    /\ IF Line = <<>>
       THEN out' = Append(out, [number |-> NULL, text |-> Line]) /\ UNCHANGED used
       ELSE out' = Append(out, [number |-> used + 1, text |-> Line]) /\ used' = used + 1
    /\ UNCHANGED array

CatEnd == AtEnd("mycat") /\ UNCHANGED out

-----------------------------------------------------------------------------
(* mytail.                                                                 *)

\* convert_arg ends the program when the number is not in range.
InRange == n \in 1 .. MAX_NUM_LINES

array_of_strings == [i \in 0 .. (n - 1) |-> NULL]

TailMain ==
    /\ Opens("mytail")
    /\ ~InRange => pc' = "error"
    /\ array' = array_of_strings

TailLine ==
    /\ Returned("mytail")
    /\ array' = [array EXCEPT ![used % n] = Line]
    /\ used' = used + 1
    /\ UNCHANGED out

\* The file is taken to hold at least n lines.
TailEnd_bug ==
    /\ AtEnd("mytail")
    /\ out' = [i \in 1 .. n |-> array[(used + i - 1) % n]]

\* What is printed once n has become the number of lines there are to print.
TailEnd ==
    LET m == IF used < n THEN used ELSE n
    IN  /\ AtEnd("mytail")
        /\ out' = [i \in 1 .. m |-> array[(used + i - 1) % m]]

-----------------------------------------------------------------------------
(* myuniq.                                                                 *)

Unused(room, first) == [i \in first .. (first + room - 1) |-> [txt |-> NULL, count |-> 0]]

UniqMain == Opens("myuniq") /\ array' = Unused(ESTIMATE, 0)

\* The table grows when it is found to be full.
Roomy(a) ==
    IF used \in DOMAIN a THEN a
    ELSE LET more == Unused(ESTIMATE, used)
         IN  [i \in DOMAIN a \cup DOMAIN more |-> IF i \in DOMAIN a THEN a[i] ELSE more[i]]

\* Every entry with the text is counted up; without one, an entry is begun.
UniqLine ==
    LET a     == Roomy(array)
        Found == {i \in 0 .. (used - 1) : a[i].txt = Line}
    IN  /\ Returned("myuniq")
        /\ IF Found = {}
           THEN /\ array' = [a EXCEPT ![used] = [txt |-> Line, count |-> @.count + 1]]
                /\ used' = used + 1
           ELSE /\ array' = [i \in DOMAIN a |->
                               IF i \in Found THEN [a[i] EXCEPT !.count = @ + 1] ELSE a[i]]
                /\ UNCHANGED used
        /\ UNCHANGED out

\* Entries are printed up to the first without a count.
UniqEnd ==
    LET m == Min({Cardinality(DOMAIN array)} \cup {i \in DOMAIN array : array[i].count = 0})
    IN  AtEnd("myuniq") /\ out' = [i \in 1 .. m |-> array[i - 1]]

-----------------------------------------------------------------------------
(* parse_script.                                                           *)

ScriptMain == Opens("parse_script") /\ UNCHANGED array

\* The first cell that is not white space, if there is one.
FirstMark(s) == LET marks == SelectSeq(s, LAMBDA c : c # Blank)
                IN  IF marks = <<>> THEN Blank ELSE Head(marks)

Skipped(s) == FirstMark(s) \in {Blank, Hash}

\* The operation that parse_script_line finds in a request, 0 for none.
op(r) == CASE r.char = "a" /\ r.fields = 3 -> "ALLOC"
           [] r.char = "r" /\ r.fields = 3 -> "REALLOC"
           [] r.char = "f" /\ r.fields = 2 -> "FREE"
           [] OTHER                        -> "0"

Malformed(r) == r \notin Request \/ op(r) = "0" \/ r.id < 0 \/ r.size > MAX_REQUEST_SIZE

\* The buffer is one call of fgets, and counts as a line, however long the line.
buffer == Chomp(Chunk(rest, MAX_SCRIPT_LINE_LEN))

ScriptSkip ==
    /\ pc = "read" /\ prog = "parse_script" /\ rest # <<>> /\ Skipped(buffer)
    /\ rest' = Behind(rest, MAX_SCRIPT_LINE_LEN) /\ lineno' = lineno + 1
    /\ UNCHANGED <<input, reader, n, array, used, maxid, out, pc>>

\* The line's number is that of the request.
Parsed_bug(r) == [op |-> op(r), id |-> r.id, size |-> r.size, lineno |-> used + 1]

Parsed(r) == [op |-> op(r), id |-> r.id, size |-> r.size, lineno |-> lineno + 1]

ScriptLine ==
    LET r == FirstMark(buffer)
    IN  /\ pc = "read" /\ prog = "parse_script" /\ rest # <<>> /\ ~Skipped(buffer)
        /\ rest' = Behind(rest, MAX_SCRIPT_LINE_LEN) /\ lineno' = lineno + 1
        /\ IF Malformed(r)
           THEN pc' = "error" /\ UNCHANGED <<array, used, maxid>>
           ELSE /\ array' = [i \in DOMAIN array \cup (IF used \in DOMAIN array THEN {}
                                 ELSE used .. (used + OPS_RESIZE_AMOUNT - 1)) |->
                               CASE i = used -> Parsed(r)
                                 [] i \in DOMAIN array \ {used} -> array[i]
                                 [] OTHER -> NULL]
                /\ maxid' = Max({maxid, r.id})
                /\ used' = used + 1 /\ UNCHANGED pc
        /\ UNCHANGED <<input, reader, n, out>>

\* num_ids, and the table of so many blocks: none can be had for a negative one.
ScriptEnd ==
    /\ pc = "read" /\ prog = "parse_script" /\ rest = <<>>
    /\ n' = IF maxid = INT_MAX THEN -INT_MAX - 1 ELSE maxid + 1
    /\ pc' = IF n' < 0 THEN "error" ELSE "done"
    /\ UNCHANGED <<input, rest, reader, array, used, parser, out>>

-----------------------------------------------------------------------------
Exit == pc \in {"done", "error"} /\ UNCHANGED vars

Next == \/ FirstRead \/ Grow
        \/ CatMain \/ CatLine \/ CatEnd
        \/ TailMain \/ TailLine \/ TailEnd
        \/ UniqMain \/ UniqLine \/ UniqEnd
        \/ ScriptMain \/ ScriptSkip \/ ScriptLine \/ ScriptEnd
        \/ Exit

Spec     == Init /\ [][Next]_vars
FairSpec == Spec /\ WF_vars(Next)

-----------------------------------------------------------------------------
(* Properties.                                                             *)

\* The numbers in S, a finite set, in increasing order.
Ascending(S) ==
    [k \in 1 .. Cardinality(S) |-> CHOOSE m \in S : Cardinality({l \in S : l <= m}) = k]

\* The lines of file f.
Lines(f) ==
    LET end == Ascending({i \in 1 .. Len(f) : f[i] = NL \/ i = Len(f)})
    IN  [k \in DOMAIN end |->
            Chomp(SubSeq(f, IF k = 1 THEN 1 ELSE end[k - 1] + 1, end[k]))]

consumed == SubSeq(file, 1, Len(file) - Len(rest))

\* read_line returns a line: all that is left of it, and no more of the file has
\* been consumed (util.c, read_line).  This is so wherever in a buffer that has
\* grown any number of times the line ends.
WholeLine ==
    pc = "grow" /\ ~Full =>
        /\ Line = Last(Lines(consumed))
        /\ Last(consumed) = NL \/ rest = <<>>

\* What holds of the code: the same unless read_line has used what fgets did not
\* write, and that only at the end of a file that does not end in a newline.
WholeLineUnlessCutOff ==
    /\ unwritten => rest = <<>> /\ Last(file) # NL
    /\ ~unwritten => WholeLine

\* mycat prints every line and numbers those that are not empty 1, 2, ... (mycat.c).
Numbered ==
    LET L == Lines(file)
    IN  pc = "done" /\ prog = "mycat" /\ ~unwritten =>
            /\ Len(out) = Len(L)
            /\ \A k \in DOMAIN L :
                  /\ out[k].text = L[k]
                  /\ out[k].number =
                        IF L[k] = <<>> THEN NULL
                        ELSE Cardinality({j \in 1 .. k : L[j] # <<>>})

\* mytail prints the last n lines in their order, all when there are fewer,
\* whatever the position in the ring (print_last_n).
LastLines ==
    LET L == Lines(file)
    IN  pc = "done" /\ prog = "mytail" /\ ~unwritten =>
            out = SubSeq(L, Max({0, Len(L) - n}) + 1, Len(L))

\* myuniq prints every line once, where it first appears, with the number of
\* times it appears, however often its table has grown (print_uniq_lines).
LineCounts ==
    LET L     == Lines(file)
        first == Ascending({k \in DOMAIN L : \A j \in 1 .. (k - 1) : L[j] # L[k]})
    IN  pc = "done" /\ prog = "myuniq" /\ ~unwritten =>
            out = [m \in DOMAIN first |->
                     [txt   |-> L[first[m]],
                      count |-> Cardinality({k \in DOMAIN L : L[k] = L[first[m]]})]]

\* What the three programs of assign3 print is what the lines of their file are.
Printed == Numbered /\ LastLines /\ LineCounts

\* The script is the requests of its lines in order, each with the number of
\* its line, if no line is too long for the buffer; every id has its block in the
\* table, and the operations theirs in the array (parse_script).
RequestsRight ==
    LET L    == Lines(file)
        kept == Ascending({k \in DOMAIN L : ~Skipped(L[k])})
    IN  pc = "done" /\ prog = "parse_script" =>
            /\ \A i \in 0 .. (used - 1) : array[i].id \in 0 .. (n - 1)
            /\ (\A k \in DOMAIN L : Len(L[k]) + 1 < MAX_SCRIPT_LINE_LEN) =>
                  /\ used = Len(kept)
                  /\ \A i \in 1 .. used :
                        LET r == FirstMark(L[kept[i]])
                        IN  array[i - 1] = [op |-> op(r), id |-> r.id, size |-> r.size,
                                            lineno |-> kept[i]]

\* The programs end on every file.
Ends == <>(pc \in {"done", "error"})
=============================================================================
