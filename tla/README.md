# Verification of the CS107 programs

TLA+ models, model-checking runs and machine-checked proofs for the C programs
of this repository.  The repository is the coursework of a systems course:
seven assignments (`src/assign0` .. `src/assign6`) and seven labs
(`src/lab1` .. `src/lab7`), about 4600 lines of C; everything else is test
scripts, sample data and compiled programs.  The largest and hardest part is
the heap allocator of `assign6`, and the project is built around it.

## 1. Inventory

### The heap allocator (src/assign6)

| part | state | operations |
|---|---|---|
| `explicit.c` | the segment's words; `ffh`, `nheaders`, `nfreeheaders` | `myinit`, `mymalloc`, `myfree`, `myrealloc`, `validate_heap` |
| `implicit.c` | the segment's words; `nheaders`; the cursors `cur_*` | the same |
| `bump.c` | `nused` | the same |
| `segment.c` | `segment_start`, `segment_size`, the mapping | `init_heap_segment` |
| `allocator.h` | - | the contract of the five operations |
| `test_harness.c` | `script.ops`, `script.blocks` | replays a script: a call, the checks on its result, a `memset` of the block |
| `my_optional_program.c` | - | one call of `mymalloc`, for profiling |

The harness owns the segment, hands it to `myinit` at the start of every
script and is the only caller of the allocator.  The three allocators are
linked to it one at a time.  Headers, list links and the harness's payload
share the segment, so what one component writes is what another reads: a
header written one word off is a corrupted payload, a payload written one word
too far is a corrupted list.  There is no concurrency.  What is hard is the
length and order of call sequences (a free list in a particular order, a
neighbour freed before or after), calls that change the heap and then fail
(`myrealloc` absorbs its neighbours before it knows that they are enough), the
order of the steps inside a call (copy before free, relink before relabel),
boundaries (the smallest block worth splitting off, the last block of the
segment), loops over a linked structure that must end, and hand-kept counters.
Correct means: headers tile the segment; the list holds exactly the free
blocks, linked both ways; every block of the client is in the segment, apart
from the others and large enough; no payload byte changes under the client;
a request fails only when nothing fits; every call returns.

### Bits and bytes (src/assign0, src/assign1, src/lab1)

`sat.c` (saturating addition at a chosen width), `utf8.c` (encoding of a
16-bit code point), `automata.c` (a 64-cell automaton, one generation per
step until a fixed point or 32 generations), `mid.c`, `parity.c`, `round.c`,
`zero_byte.c`, `triangle.c` (a triangle drawn from a bit test).  Pure functions
apart from the loops of `automata.c`, `parity.c` and `triangle.c`.  Hard:
shifts at the width of the type, sign, the two edge cells.

### Strings and files (src/assign2, src/assign3, src/lab2, src/lab3)

`assign2/util.c` (`scan_token`, `get_env_value`) under `tokenize.c`,
`mywhich.c` and `myprintenv.c`; `assign3/util.c` (`read_line`, a buffer that
doubles) under `mycat.c`, `mytail.c` (a ring of the last n lines) and
`myuniq.c` (a growing table of counts); `lab2/atoi.c`, `lab2/token.c`
(`musl_strtok` with its static cursor); `lab3/pig_latin.c` and its small
companions.  Hard: the size of a buffer against the length of the input, the
end of input at an exact boundary, a cursor that outlives the call, who frees
what.

### Generic containers (src/assign4, src/lab4, src/lab6, src/lab7)

`assign4/util.c` (`binsert`: binary search that inserts), `mysort.c` (a
growing table sorted with `qsort` or `binsert`), `myls.c`; `lab4/memmove.c`,
`generic.c`, `bsearch_bug.c`; `lab7/isort.c`, `copy.c`, `trials.c`.  Hard: the
insertion point and the shift by a width, overlap of source and destination,
comparison functions that overflow.

### The teller machine and the vault (src/assign5)

`samples/atm.c` (withdrawals against a minimum balance) and
`samples/minivault.c`; both are programs given to be inspected; of the
first its comment says that "bugs lurk within" (`atm.c:4`).

### Exercises (src/lab5, the rest of the labs)

`lab5/code.c`, `lab6/*.c`: small programs written to be
stepped through in a debugger; several are meant to crash.

## 2. Modules

| module | models |
|---|---|
| `Allocator` | what an allocator owes its client (`allocator.h` as `test_harness.c` tests it) |
| `HeapWords` | what `explicit.c` and `implicit.c` share: the segment's words, headers and statuses, `roundup`, `memcpy` and `memset`, and what it means for headers to tile a segment and for the client to own the used blocks |
| `ExplicitHeap` | `explicit.c` with the harness as its client |
| `ImplicitHeap` | `implicit.c` with the harness as its client |
| `BumpHeap` | `bump.c` with the harness as its client |
| `Segment` | `segment.c` and the address space around the segment |
| `Harness` | the checks of `test_harness.c` against an allocator that may answer anything |
| `BinaryInsert` | `mysort.c`, and `binsert` of `assign4/util.c` under it |
| `LineTools` | `read_line` of `assign3/util.c` under `mycat.c`, `mytail.c` and `myuniq.c`, and `parse_script` of `test_harness.c` |
| `Strings` | `scan_token` and `get_env_value` of `assign2/util.c` under `tokenize.c`, `myprintenv.c` and `mywhich.c`; `token.c`; `pig_latin.c` |
| `Words` | `sat.c`, `utf8.c`, `automata.c`, `triangle.c`, the bit exercises of `lab1` and `atoi.c` |
| `Arrays` | `memmove.c`, `isort.c`, `myls.c`, and the shell that starts a program of `Strings`, `Words` or `Arrays` |
| `MCExplicitHeap`, `MCImplicitHeap`, `MCBumpHeap`, `MCHarness`, `MCBinaryInsert`, `MCLineTools`, `MCTools` | their instances for TLC (`MCTools` is that of `Strings`, `Words` and `Arrays`, `MCHarness` that of `Harness` and `Segment`) |
| `HeapWordsProofs` | lemmas about words, tilings and ownership |
| `ExplicitHeapProofs`, `ImplicitHeapProofs`, `BumpHeapProofs`, `HarnessProofs` (also of `Segment`), `BinaryInsertProofs`, `LineToolsProofs`, `ToolsProofs` (of `Strings`, `Words` and `Arrays`) | theorems about these modules and their proofs |

`ExplicitHeap`, `ImplicitHeap` and `BumpHeap` extend `HeapWords` and
instantiate `Allocator` with their own state as its refinement mapping; the
proof modules of the first two extend `HeapWordsProofs`.  The three allocators
and the harness meet in `Allocator`: it is what the allocators are shown to
implement, and what the checks of `Harness` accept.  `Words` extends `Strings`
and `Arrays` extends `Words`: their programs have nothing in common but the
variables `pc`, `arg`, `loc` and `out` of whichever has been started.

### Allocator

State: `blk`, the pointer and size of each identifier's block
(`script.blocks`), and `data`, the words of each block.  A step allocates,
resizes, releases or writes the block of one identifier, or resets all of
them.  After a call every block is inside the segment and clear of the others
(`verify_block`), the blocks and the data of the other identifiers are
untouched, and a resize keeps the common prefix (`verify_payload`).  It says
nothing of headers, lists or of where blocks go.

### ExplicitHeap

State:

| variable | code |
|---|---|
| `heap.mem` | the segment, one integer per 8-byte word, indexed by word address |
| `heap.ffh`, `heap.nheaders`, `heap.nfreeheaders` | the statics of the same names |
| `heap.hdrs`, `heap.flist` | auxiliary: the set of header addresses and the free list as a sequence; no step depends on them |
| `live` | the harness's `blocks[]` |
| `pc` | where control is: `idle` or `fill` in the client, `find` in `find_free_block`, `absorb` in the loop of `myrealloc`, `crashed` after the `memcpy` through NULL |
| `call` | arguments and locals of the call in progress |

The functions of the C file that run to completion (`add_free_block`,
`remove_free_block`, `split_block`, `col`, `myfree`, ...) are operators from
heap to heap, with their writes in the order of the code.  The two loops are
unrolled: an iteration of `find_free_block` is `FindNext` (too small),
`MallocFit` / `ReallocMove` (found; what follows the loop is part of the
step) or `FindFail`; an iteration of `myrealloc`'s loop is `Absorb`, its exit
`AbsorbEnd`.  `Malloc`, `MallocReject`, `Free`, `ReallocInPlace` and
`ReallocGrow` are the calls up to their first loop or to their return,
`ClientFill` the harness's `memset` of the block it got, `Restart` the
`myinit` of the next script on a segment that is freshly mapped or holds the
words of the last script.

The client calls in any order, with any identifier and any size of
`Requests`; it allocates only into an identifier that holds no block and frees
only what it holds, which `readme.txt` states as the allocator's assumption.
Unlike the harness it goes on after a failed `mymalloc`, as an ordinary
program would.

Abstractions: a payload is one integer per word (`Fill[id]`) because
properties compare whole words only; alignment of requests to 16 and of words
to 8 is kept exactly.  Addresses are word addresses.  Status bits and masks
are arithmetic (`% 8`, and subtraction).  Integers are unbounded: no size in
reach is near 2^64.  The calls to `breakpoint()` and the messages are left out;
their conditions (a NULL block, a size of 0) are excluded by `LiveBlocks`,
`CallInProgress` and the guards.

### ImplicitHeap

State: `heap` (the words, `nheaders`, and the auxiliary `hdrs`), `live`, `pc`
and `call` as above.  `pc` is `idle`, `fill` or `failed` in the client
(`failed`: it has been given NULL), `find` in the loop of `mymalloc`, and
`crashed` after the `memcpy` through NULL.  `call.cur` is `cur_position`,
`call.i` the loop counter; `cur_header`, `first_61_bits` and `last_3_bits`
are what the header at `cur` says and are read from it.

`Malloc` and `Realloc` are the calls up to the loop (a refusal of the size
included), `MallocZero` and `Free` calls that return at once.  An iteration of
the loop is `FindNext`, an iteration that leaves it at the last block
`FindFail`, one that finds a block `MallocFit` or, inside `myrealloc`,
`ReallocMove` with the copy and the `myfree` that follow.  `place` is the body
of the `if` that hands a block out.  `ClientSeesNull`, `ClientFill` and
`Restart` are the client's.

The client is that of `ExplicitHeap`.  `memcpy` and `memset` work on whole
words: the last word of a block whose size is not a multiple of 8 counts as
written when one of its bytes is.  Both allocators copy at least the words
they must keep, so nothing is hidden by it; sizes in requests are bytes and
are rounded as the code rounds them.

### BumpHeap

State: `heap.mem` as above and `heap.nused`, the bytes handed out; `live`;
`pc`, `idle` or `fill` in the client and `crashed` after a `memcpy` with a
NULL; `call`, the block of the call that has just returned and how many of its
bytes must have been kept.  There is no loop, so a call is a step: `Malloc`,
`MallocFull` (NULL is returned), `Realloc`, `ReallocNull` (`myrealloc(NULL, 0)`),
`ReallocCrash`, `Free`, `ClientFill`, `Restart`.

`myrealloc` copies `new_size` bytes from a block that may be shorter.  Blocks
lie below the new one, so the bytes read run through later blocks and into the
new block itself; `memcpy`'s regions then overlap and its result is not
defined.  `Copyings` is the set of the ways it may go: a word that the copy
may already have overwritten is read as it was or as it has become.

### Segment

State: the statics `segment_start` and `segment_size`, and for every page of a
small address space who has mapped it.  `Reserve`, `DiscardFails` and
`ReserveFails` are the three ways out of `init_heap_segment`; `OtherMaps` is
the rest of the process.  `munmap` and `mmap` are modelled from their manual:
`munmap` unmaps a range whatever is mapped there, `mmap` takes the hint if the
range there is free and any free range otherwise, and either may fail.  A
length of 0 fails in both.  `Aborted` is the end of the process in the
assertion, where `segment.h:18` promises NULL.  Sizes are in pages.

### Harness

State: `mem`, the bytes of the segment; `blocks` as in `script->blocks`;
`cur_size`, `peak_size` (`script->peak_size`) and `heap_end` of
`eval_correctness`; `pc`, whether the script is running, has failed or has
succeeded; and the auxiliary `spoiled`, the blocks that the allocator has
written to and that are still the harness's to check.

A step is a request of the script with its call and its checks: `Alloc`,
`Realloc`, `FreeBlock`, then `Exit` for the checks at the end and `NextScript`.
The allocator is external and arbitrary: it returns any address in or next to
the segment or NULL, its `myrealloc` copies or not, and any of its calls may
spoil a byte anywhere.  A request on which a check fails ends the script
(`Fail`), and nothing of its state is looked at again.  A script is drawn
request by request, from ids and sizes as `parse_script_line` lets them
through: it may free or resize an id that holds nothing and allocate one that
is held (the auxiliary `twice` says that it has).  `validate_heap` may say no
after any request.

### BinaryInsert

State: what the command line has set (`argv`, `reverse`, `uniq`, `cmp`);
`str_array` and `size_limit`, the lines read and the room for them;
`uniq_array` and `nelem`, the array that `binsert` inserts into; `i`, the line
that is inserted; `base` (as an index) and `nremain`, the locals of `binsert`;
`out`; `pc`.  `Getopt` handles an option (an unknown one ends the program),
`Open` the file name, `ReadLine` is an iteration of the reading loop.  Without
`-u`, `EndOfFileSort` sorts and prints.  With it, `EndOfFile` allocates the
second array, `Call` is the call of `binsert`, `Found`, `MoveRight` and
`MoveLeft` an iteration of its loop, `Insert` what follows the loop, and
`Finish` prints.  A line is a value, and the three comparisons `cmp_pstr`,
`cmp_pstr_len` and `cmp_pstr_numeric` are rankings, so that lines that compare
equal need not be the same, as with `-l` and `-n`.  `qsort` (external) gives
any order that the comparison allows.  `uniq_array` is a function on exactly
the elements that were allocated: a write outside is an error of type.  The
width of an element is 1; the shift by bytes is a shift by elements.

The rankings abstract one thing away: `mysort.c:39` subtracts two results of
`atoi` in an `int`, and for numbers far apart the difference overflows.  What
the comparison then returns is not that of any order, and neither `qsort` nor
`binsert` promises anything.

### LineTools

State: `file` and `rest`, what of it has not been read; `buf`, `old_size` and
`cumulative_factor` of `read_line`; the tables of the programs in one variable
`array` (the ring of `mytail`, the counts of `myuniq`, `script.ops`) with
`used` and `n`; `lineno`, `maxid`; `out`; `pc`.  `FirstRead` and `Grow` are the
two `fgets` of `read_line`, a step each, `CatLine`, `TailLine` and `UniqLine`
what a program does with the line that `read_line` returns, `ScriptSkip` and
`ScriptLine` a line of `parse_script`, whose reader is a single `fgets`.  The
`...Main` steps open the file or do not.  A file is a sequence of characters;
in a script a request is one cell, with the fields that `sscanf` finds in it.

When the file ends where the buffer is full, the second `fgets` stores nothing
and `strcat` appends what `malloc` returned (`assign3/util.c:37-44`).  That is
undefined; the model appends nothing or a character `Junk` and notes it in the
auxiliary `unwritten`.

### Strings, Words, Arrays

Each program begins with its `...Main`, which draws its command line from sets
in the instance, and runs by steps of its loop: a call of the scanner
(`Tokenize`, `StrtokFirst`, `StrtokNext`), a directory of the search path
(`Which`), a word (`PigNext`), an operand (`Add`), a generation (`Generation`),
a row (`TriangleRow`), a bit (`ParityNext`), a byte (`MoveByte`), a swap
(`Swap`), an option or a directory (`Getopt`, `LsNext`).  `arg` is the command
line, `loc` the locals, `out` what has been printed.  Functions without a loop
of interest are operators (`to_utf8`, `signed_max`, `has_zero_byte`,
`musl_atoi`, the three `load_index` functions and `advance`).

Integers keep their width: `signed(n, w)` and `unsigned(n, w)` wrap, and the
shift of `sat.c:12` is made in an `int` even when the width is that of a
`long`.  Where bits are tested one by one a word is the set of the positions
that are on.  Buffers keep their length and hold `Junk` until they are
written, and a buffer has one more cell in the model than in C: `scan_token`
writes there.  `scandir` of `myls.c`, `access` of `mywhich.c` and `memcpy` of
`memmove.c` are external.

## 3. Runs

All runs are small instances of the modules above with the bounds below.
`CHECK_DEADLOCK` is on in the runs of `LineTools` and of `Arrays`, where only a
program that has ended may stutter (`Exit`).  It is off in the others, where the program can
really stop: in a crash (`crashed`), in the assertion of `segment.c`, or at
the end of `mysort`.

`harness_checks` has `Harness` and `Segment` side by side (`SideBySide` of
`MCHarness`): neither has a variable of the other, so that what one does is the
same whatever the other does, and one of them moves while the other is as it was
at first.  The properties are each about the variables of one of them.

| run | instance | checks |
|---|---|---|
| `explicit_structure` | 112 bytes, 3 interchangeable identifiers, sizes 1, 17, limit 64 | `HeapStructure`, `FailsOnlyIfNoFit` |
| `explicit_contract` | 88 bytes, 2 identifiers with distinct fills, sizes 0, 1, 17, 40, 50, limit 48 | `StateSound`, `PayloadIntact`, `CheckerAccepts`, `ImplementsAllocator`, `MovesOnlyWhenBoxedIn`, and `CallsEnd` under `FairSpec` |
| `explicit_realloc_fails` | 64 bytes, limit 64, which refuses none of the requests | `ReallocFailureIsReported`, violated |
| `implicit_checks` | 64 bytes, 3 identifiers with distinct fills, sizes 1, 9, 24, 40, limit 40 | `StateSound`, `PayloadIntact`, `CheckerAccepts`, `ImplementsAllocator`, `FirstFit`, and `CallsEnd` under `FairSpec` |
| `bump_checks` | 40 bytes, 3 identifiers with distinct fills, sizes 0, 1, 9, 24 | `HeapSound`, `ImplementsAllocator` |
| `harness_checks` | 4 bytes, alignment 2, 2 ids, sizes 0 to 3; for the segment 7 pages, hint 3, size 2 | `TableSound`, `VerdictsRight`, `Utilization`, `SegmentSound`, `OthersKept` |
| `binsert_checks` | files of at most 5 lines of 4 kinds that tie by length or by number, 8 lists of options, room for 2 lines at first | `ArraysSound`, `InsertSound`, `Output`, and `Ends` under `FairSpec` |
| `lines_checks` | files of at most 6 characters, scripts of at most 5 cells, a buffer of 2 that doubles and one of 4 | `WholeLineUnlessCutOff`, `Printed`, `RequestsRight`, and `Ends` under `FairSpec` |
| `lines_cut_off` | files of at most 3 characters | `WholeLine`, violated |
| `tools_checks` | the command lines of `MCTools`; a `long` of 12 bits, an `int` of 6, bytes of 3, 5 cells, 6 bytes of memory, arrays of at most 5 elements | `TokensRight`, `EnvValueUnlessConfused`, `FirstInPath`, `PigRightUnlessUntranslatable`, `SatRight`, `Utf8Right`, `Generations`, `LabsRight`, `ArraysRight`, `ListingRight`, and `Ends` under `FairSpec` |
| `tokens_cut_off` | the same | `PieceStored`, violated |
| `pig_untranslatable` | the same | `PigRight`, violated |

What the names with several parts stand for.  `StateSound` is the types, the
ownership of the used blocks and the locals of the call in progress;
`HeapStructure` the tiling, the doubly-linked list, and that the list has
exactly the free blocks; `HeapSound` the types, blocks apart, and payloads;
`SegmentSound` that what is mapped is the segment and nothing else of it;
`TableSound` the harness's table, `VerdictsRight` that it neither accuses
unjustly nor lets damage pass; `ArraysSound` the two arrays of `mysort` and
their room; `InsertSound` the order, the range of the search, and that the
first line of each kind is kept; `Printed` what `mycat`, `mytail` and `myuniq`
print; `TokensRight` both tokenizers; `LabsRight` the exercises on bits, `atoi`
and the triangle; `ArraysRight` `memmove` and `isort`.

Bounds.  A block takes a header and at least 16 bytes, so 88 bytes hold three
blocks and 112 four, with room to spare.  112 bytes with three
identifiers is the smallest instance in which the fourth case of
`remove_free_block` (a block in the middle of the list) happens; sizes 1 and
17 make blocks of 16 and 32 bytes, so that splits, exact fits and fits with a
remainder of 8 (too small to split) all occur.  The other run keeps two
identifiers and widens the requests: 0 and sizes above the limit, a size equal
to a block, a size that needs one neighbour and one that needs two.  Words of
payload that belong to different blocks differ, so a write through the wrong
pointer is visible.  In the implicit heap a block is a header and at least 8
bytes, so 64 bytes hold four blocks; sizes 1, 9 and 24 make payloads of one,
two and three words, so that splits, exact fits and a remainder of one word
(too small to split) occur at the start, in the middle and at the end of the
segment, and 40 is the limit itself.  In the bump allocator 40 bytes hold
blocks of one to three words for three identifiers, enough for a resize that
reads through another block into its own copy, for a block that ends with the
segment and for one of no bytes behind it.  Seven pages around a hint in the
middle leave room for a segment at the hint, on either side of it, and for
mappings of others next to all of these.  Four bytes with an alignment of 2
give the harness blocks that touch, overlap by a byte, enclose one another,
end at the end of the segment and pass it; `MaxTotal` bounds only `cur_size`
of scripts that allocate an id twice, which nothing takes off again.

Five lines make ranges of every length from 0 to 4 and let the first array of
`mysort` double twice; `MaxLines` bounds the file.  The 8 lists of options
have each alone and with others and the comparisons in both orders.  Six characters (`MaxFile`) are a
line that makes a buffer of 2 grow to 8, or several lines that make a ring of
1 to 3 go round and a table that grows by one entry at a time grow more than
once; `MaxScript` lets the array of operations, which grows by two, grow twice,
and a line of a script be longer than its buffer of 4.  `INT_MAX` is 2, so that
the largest id is within reach.

With a `long` of 12 bits and an `int` of 6 every width of `sat` from 1 to 13 is
tried, those below the width of an `int`, from it on, and too large ones.
Code points keep their 16 bits, and all intervals of bits and their
complements stand for the rest: `to_utf8` moves each bit on its own.  Five
cells are the two ends, which have functions of their own, and three cells in
between; all rules and all generations are tried.  Words of 9 bits in bytes of
3 make the masks of `zero_byte.c` carry from a byte into the next.  Six bytes
of memory have every overlap of source and destination on both sides.

Fairness.  `CallsEnd` assumes weak fairness of `CallStep` only: the program is
sequential, and a call that has begun keeps executing.  Nothing is assumed of
the client, who may never call again.  The `Ends` of `BinaryInsert` assumes
weak fairness of the steps of `mysort` for the same reason, and of the end of
the file: a file has an end.  Those of `LineTools` and `Arrays` assume weak fairness of
`Next`: a program that can go on does.

The violated properties are what the comments, the readme and the harness say
and the code does not do:

* `ReallocFailureIsReported`: the harness expects `myrealloc` to return NULL
  when the heap is exhausted (`test_harness.c:309-311`); the code first copies
  to that NULL (`explicit.c:349-350`).  The run gets there by a request below
  the limit for which the only block is too small (`FindFail`).  `implicit.c:133-138` does the same;
  there the model's `crashed` stands for it.
* `WholeLine`: `read_line` "reads out one line" (`assign3/util.c:7-9`); at the
  end of a file without a newline, exactly where the buffer is full, bytes
  that nobody has written are appended (`assign3/util.c:42`).
  `WholeLineUnlessCutOff` says that this is the only exception.
* `PieceStored`: of a token that does not fit, "the buf would store the first
  bquflen-1 item" (`assign2/readme.txt:25-26`); the terminator goes one cell
  behind the buffer and the last cell stays as it was (`assign2/util.c:43-44`).
  `TokensRight` leaves out that last cell and has the rest.
* `PigRight`: "If the word can't be translated, just make a copy as-is on the
  heap" (`pig_latin.c:94`), and one of the lab's own tests has such words
  (`lab3/custom_tests:16`, "the 12th sheep"); for a word that is not the first
  the code asks for the length of NULL before it comes to that
  (`pig_latin.c:95`).  `PigRightUnlessUntranslatable` says that this is the
  only exception.

Other differences met, each small enough to be seen at its line:

* "Realloc resizes a block in-place whenever possible" (`explicit.c:6`);
  `explicit.c:320-325` compares the size rounded up to 16 with a block that
  may be 8 bytes longer than a multiple of 16, so a request for 17 bytes
  leaves a block of 24.
* `MAX_REQUEST_SIZE` is the "maximum size of block that must be accommodated"
  (`allocator.h:14`); `implicit.c:65` refuses that size where `explicit.c:207`
  does not.
* A second `init_heap_segment` "discards the current heap segment"
  (`segment.h:16`); `segment.c:33` unmaps the size of the new one, so of a
  larger one pages stay behind.  The harness uses one size.
* `get_env_value` looks for the key anywhere in an entry
  (`assign2/util.c:14`), and takes an entry whose name is as long as the key
  for it when the key is in its value; `EnvValueUnlessConfused` says that
  nothing else can go wrong.
* `sat.c:12` shifts an `int`, so from the width of an `int` on the bounds
  are not those of the width (`SatRight` is about widths below).

## 4. Proofs

`ExplicitHeapProofs` proves, from `HeapAssumption` alone (a segment of whole
words, at least 24 bytes long, that does not start at address 0), for every
segment size, every set of identifiers, fills and requests:

| theorem | states |
|---|---|
| `Invariance` | `Spec => []IInv`, the inductive invariant |
| `StateHolds` | `Spec => []StateSound` |
| `StructureSound` | `Spec => []HeapStructure` |
| `BlocksOwned` | `Spec => []LiveBlocks` |
| `PayloadKept` | `Spec => []PayloadIntact` |
| `LocalsSound` | `Spec => []CallInProgress` |
| `CheckerHolds` | `Spec => []CheckerAccepts` |
| `SearchComplete` | `Spec => FailsOnlyIfNoFit` |
| `MovesJustified` | `Spec => MovesOnlyWhenBoxedIn` |
| `Refinement` | `Spec => ImplementsAllocator` |

`IInv` is the conjunction of the type invariant, the heap's structure, the
ownership of used blocks, the locals of the call in progress and the payload.
None of these is inductive alone.  The structure needs ownership, because
`myfree` and `myrealloc` trust the client's pointer to be a header; ownership
needs the structure, because a block handed out must be one that nobody
holds; both need the locals, because a call keeps a pointer into the list
across steps; the payload needs all of them, because a link or a header
written to the wrong word is a payload overwritten.

The argument goes in layers.  Lemmas about words and sequences come first;
then `AddFreeBlock` and `RemoveFreeBlock` (a well linked list stays one, and
only link words change); then the tiling under a mark, a split and a merge;
then one lemma per C function on a whole heap, each with a frame: which used
blocks keep which words; then the handover of a block between the client and
the heap; and on these one lemma per action of `Next`.

`ImplicitHeapProofs` proves from the same assumption `Invariance`,
`StateHolds` (`StateSound`), `StructureSound` (`Tiling`), `BlocksOwned`,
`PayloadKept`, `LocalsSound`, `CheckerHolds` (`CheckerAccepts`),
`FirstFitHolds` (`Spec => FirstFit`) and `Refinement`.  Its `IInv` has no list.  What takes its place is the loop's
count: `i` is the number of headers before `cur`, so `i = nheaders - 1` says
exactly that `cur` is the last block (`BeforeLast`), and otherwise that the
next address is a header again (`BeforeNext`); both are counting arguments on
finite sets.  The operations are shorter, the layers the same: the lemmas of
`HeapWordsProofs` on a mark, a split, a write and a copy inside one block, a
lemma per C function, one per action.

`CheckerHolds` says for both what the loops of `validate_heap` find.  The loops
are recursive functions over the number of headers, so the proofs are
inductions.  They rest on `LeastNatural` (a set of naturals that is not empty
has a least member, from the well-foundedness of `<`), which gives
`IntervalInduction` without an operator as a parameter: a set that has 0 and
with every number the next, up to n, has all of `0 .. n`.  By it a function
defined by recursion exists (`WalkExists`), and so has the values of its
equation.  Then the walk is at a header after every step, has summed the sizes
and the free blocks of those behind it (`WalkAddsUp`), and after `nheaders`
steps is at the end of the segment, because the headers behind it are
`nheaders` different ones.  In the explicit heap the second loop is at the k-th
element of the list after k steps (`ListWalkFollows`), and the number of free
blocks that the first has counted is the length of the list (`FreeCount`).

In both, the refinement follows from the invariant before and after a step:
except between a call's return and the client's `memset`, a block's words are
its fill.

`BumpHeapProofs` proves `Invariance`, `HeapHolds` (`HeapSound`), `BlocksSound`
(`BlocksApart`), `PayloadKept` (`PayloadIntact`) and `Refinement`
(`ImplementsAllocator`), again from `HeapAssumption` alone.  The argument is
about the overlapping copy: a word of the old block lies below the new one, so
no way the copy may go can have overwritten it before it is read, and the
words the copy writes are all above what was handed out before.

The second part of `HarnessProofs` proves, of `Segment`, `OneSegment` (`SegmentSound`) and `OthersSafe`
(`OthersKept`) under `OneSize`: `init_heap_segment` is called with one size
only, as by the harness (`test_harness.c:162`).  Without it both are false.
The invariant adds that `segment_size` is that size whenever there is a
segment, so that what `munmap` is given is what was mapped.

`HarnessProofs` proves, from `HarnessAssumption` (an aligned segment, and a
byte `Junk` that is no id's fill), for every segment, every ids and sizes and
every allocator: `Invariance`, `TableHolds` (`TableSound`), `VerdictsHold`
(`VerdictsRight`) and `UtilizationHolds` (`Utilization`).  The invariant adds
three things to the properties.  A block that has been written to shows it as
long as it is recorded (`SpoiledIsBad`); this needs the blocks apart, because
the `memset` of another block must not repair it.  An id without a block has
no bytes (`NullIsEmpty`).  And `cur_size` is at least the number of bytes held
and equal to it unless an id was allocated twice (`Counted`), which is a
counting argument: the blocks are apart, so replacing one changes the number
by the difference of the two sizes (`HeldChange`).  That a good block is never
refused is the converse reading of the three comparisons in `verify_block`
(`NoOverlap`, `OverlapShares`).

`BinaryInsertProofs` proves, from `LinesAssumption`, for files of any length,
any rankings and any list of options: `Invariance`, `ArraysNeverLeft`
(`ArraysSound`), `InsertRight` (`InsertSound`), `RangeRight` (`SearchRange`) and
`UniqueLinesKept` (`FirstOfEachKind`).  The properties are inductive together:
the insertion point is right because the range excludes only what it may,
that rests on the order, and the order after the insertion rests on both.
`RoomEnough`, that the lines read fit into `str_array`, is not: with the array
full the test in `sort_lines`, which is for one free element, would never be
true again.  `SpareRoom` adds that between two lines one is always free.
`OutputRight` (`Output`) adds `OInv`: while options are read, `cmp`, `uniq` and
`reverse` are what the options so far ask for, and what is printed is the
lines kept, which `print_helper` at most reverses (`PrintedOrder`).

`LineToolsProofs` proves, from `SizesAssumption` (the sizes are positive, a
buffer has room for a character and the terminator) and `InputAssumption`
(files are sequences of characters), for files and scripts of any length, every
size of a buffer or a table and every n: `ReadRight` (`ReadInv`),
`WholeLineHolds` (`WholeLineUnlessCutOff`), `ToolsRight` (`IInv`),
`PrintedHolds` (`Printed`) and `RequestsHold` (`RequestsRight`).  `ReadInv` is
about `read_line` alone: what is left of the file is its end; the buffer holds
what lies between the beginning of a line and where `fgets` has come, which is
`old_size - cumulative_factor` characters unless the line has been read to its
end.  On that rests that the test for a full buffer is right, which is the
whole of `WholeLineUnlessCutOff`.  `ToolInv` says what each program has made of
the lines that it has had (`Seen`): `Catted`, `Ringed`, `Counted`, `Listed`, one
each for the numbering, the ring, the table and the operations.  That the lines
of the file up to the next boundary are the lines before it and one more
(`LinesAppend`) makes every step an append, and the rest is what an append does
to a count, to the places modulo n and to the first places of each line.

Two things came out of the proofs and not out of the runs.  The cases of
`ScriptLine` overlapped, which TLC resolves by their order and the language
does not; they are disjoint now, here and in `Strings` and `Words`.  And
that the sizes are naturals and the ids integers had been used without being
assumed.

`ToolsProofs` proves the properties of the small programs, for all command
lines:

| theorem | states |
|---|---|
| `StringsSplit` | `Spec => []TokensRight` |
| `EnvironmentRead` | `Spec => []EnvValueUnlessConfused` |
| `FirstHitPrinted` | `Spec => []FirstInPath` |
| `WordsInPigLatin` | `Spec => []PigRightUnlessUntranslatable` |
| `SumsSaturated` | `Spec => []SatRight` |
| `CodePointsRead` | `Spec => []Utf8Right` |
| `LinesFollow` | `Spec => []Generations` |
| `ArraysHandled` | `Spec => []ArraysRight` |
| `DirectoriesListed` | `Spec => []ListingRight` |

A behaviour is one program's, and `arg` never changes, so each program has an
invariant of its own (`TokenizeInv`, `FixedInv`, `StrtokInv`, `EnvInv`,
`WhichInv`, `PigInv`, `SatInv`, `Utf8Inv`, `GenInv`, `MoveInv`, `IsortInv`, `MylsInv`), which says how
far it has come:

* `scan_token` takes the next piece between delimiters, as much of it as its
  buffer holds (`ScanPiece`), and where a piece ends another may begin.  So the
  characters taken so far are those of the string up to a position that are no
  delimiters (`Split`, `CleanPiece`), and a token that does not end with its
  piece was too long for the buffer (`LongToken`).
* `musl_strtok` writes a terminator behind each token; from its pointer on, the
  memory is as the string was, and the pointer is not inside of a token
  (`Current`, `StrtokToken`).  The tokens are counted by where they begin:
  `Ascending` lists a set of naturals by rank, and ranks tell the members apart.
* `get_env_value` can only be wrong about an entry in which the key stands
  somewhere else than at the beginning (`GetEnvRight`).  `mywhich` starts again
  with its path for every command, and has printed the hits of those before.
* A sum between the bounds of a width below an `int`'s is at most one bit longer
  than the width, so its sign tells whether it has left the range (`SatAddIs`);
  2^n comes as the number of subsets of n numbers, since the library says
  nothing of powers.
* What `utf8` prints is the encodings of its code points, one behind the other,
  of which each begins with a byte that is not marked 10 and has no other: so
  the bytes that are not tell where they begin (`Grouped`, `GroupedNext`).  A
  byte carries the bits of its place and its mark (`HeadByte`, `TailByte`), and
  the bits of the places make up the code point (`Utf8Bytes`).
* The two ends of an automaton are as if a dead cell were beyond each, and the
  mirror of a pattern is the pattern of the mirror (`MirrorAdvance`).
* A swap of two neighbours maps the other inversions onto inversions, so there
  is exactly one less (`OneInversionLess`); swaps and what is left add up.
* `memmove` has copied the bytes from one end up to `i`, and those it has still
  to read lie on the other side (`CopyUp`, `CopyDown`).
* Each entry of a directory is ranked by the number of entries before it, and
  the two orders of `myls` are strict and total where the names differ, so that
  the ranks are 0 up to the number of entries, each once (`SortedFacts`,
  `ScandirIs`).  Several directories are groups of lines as the bytes of a code
  point are, with headings for first bytes (`GroupsListed`).

The assumptions say what the enumerated inputs are.  `StringsAssumption`: texts
are sequences over the characters `Char`, which include the contents of fresh
memory but not the terminator; NULL is neither a string nor a position; no letter is
a vowel and a consonant; and a buffer has room for two characters, which
`assign2/readme.txt:32` asks of the caller.  `WordsAssumption`: an `int` is
shorter than a `long`, as on the machines the program is built for; there are
more than two cells, as there are functions for the two ends; NaN is no number.
`ArraysAssumption`: sizes are naturals, and isort makes at least one trial; a
directory has finitely many entries, whose names differ and are ordered as
numbers are.  Lists of arguments are sequences.

Only model-checked: `CallsEnd` and `Ends`, which are liveness properties, and
`LabsRight`.  It is about single bits of sums and differences, the value of a
text of digits and the parity of binomial coefficients: facts by induction over
data, which the provers cannot do.  It is checked on all integers of the width,
all pairs of them where there are two, and texts with every sign and the least
integer.

## 5. Not modelled

* `dump_heap`, and of `test_harness.c` the options, the reports and the timing
  of a script: they only print.
* `my_optional_program.c`: one call of `mymalloc`.
* `assign5/samples/atm.c` and `minivault.c`: programs given with planted
  mistakes for inspection.  No document says what they promise, and their code
  is not meant to be correct.
* `lab5`, `lab6`, `lab2/buggy.c`, the programs of `lab3` other than
  `pig_latin.c`, `lab4/bsearch_bug.c` and `gdb_practice.c`: exercises for a
  debugger or a memory checker, several meant to crash, or about the compiled
  code and the stack.
* `lab4/generic.c`: calls of `qsort` on fixed arrays, one with a comparison that
  is left to be written.
* `lab7/copy.c` and `trials.c`: nothing is left from one trial for the next;
  they exist to be timed.
* `main` of `memmove.c`, which calls with a length of -1 to show what happens;
  the model calls with ranges inside of memory.
* A `malloc` that fails in `mysort`, `read_line` or `myuniq`: the code asserts
  that it does not.
* The `Makefile`s, `tools/`, `samples/` other than C, and data: no logic of the
  programs.
