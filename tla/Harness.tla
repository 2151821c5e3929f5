------------------------------- MODULE Harness -------------------------------
(***************************************************************************)
(* The correctness test of src/assign6/test_harness.c, run against an      *)
(* allocator of which nothing is known: a call may return any address,     *)
(* copy the block it resizes or not, and spoil a byte of the segment.      *)
(*                                                                         *)
(* Addresses are bytes.  The script is drawn one request at a time; a      *)
(* request with the call it makes and all the checks on it is a step.      *)
(***************************************************************************)
EXTENDS Integers, FiniteSets, FiniteSetsExt

CONSTANTS
    Start, End,     \* heap_segment_start(), and the end of the segment
    ALIGNMENT,
    Ids,            \* the ids of the script
    Fill,           \* id & 0xFF, for each id
    Sizes,          \* the sizes requested
    Junk,           \* what the allocator leaves where it should not write
    MaxTotal        \* bound on cur_size in a script that allocates an id twice

ASSUME HarnessAssumption ==
    /\ ALIGNMENT \in Nat \ {0}
    /\ Start \in Nat \ {0} /\ Start % ALIGNMENT = 0
    /\ End \in Nat /\ End > Start
    /\ Sizes \subseteq Nat
    /\ Junk \notin {Fill[i] : i \in Ids}
    /\ MaxTotal \in Nat

NULL == 0
Addr == Start .. (End - 1)

VARIABLES
    mem,        \* the bytes of the segment
    blocks,     \* script->blocks: pointer and size for every id
    cur_size, peak_size, heap_end,      \* the locals of eval_correctness
    pc,         \* "running", "failed" or "success"
    spoiled,    \* auxiliary: the ids whose block the allocator has written to
    twice       \* auxiliary: the script has allocated an id that it held

vars  == <<mem, blocks, cur_size, peak_size, heap_end, pc, spoiled, twice>>
tally == <<cur_size, peak_size, heap_end>>

Bytes(b) == b.ptr .. (b.ptr + b.size - 1)

Init == /\ mem = [a \in Addr |-> 0]
        /\ blocks = [i \in Ids |-> [ptr |-> NULL, size |-> 0]]
        /\ cur_size = 0 /\ peak_size = 0 /\ heap_end = Start
        /\ pc = "running" /\ spoiled = {} /\ twice = FALSE

-----------------------------------------------------------------------------
(* The checks.  Variants named ..._bug are what a plausible mistake would    *)
(* make of the definition after them; nothing here uses them.               *)

\* A block that encloses another is not seen to overlap it.
Overlaps_bug(ptr, end, b) ==
    LET other_end == b.ptr + b.size
    IN  (ptr >= b.ptr /\ ptr < other_end) \/ (end > b.ptr /\ end < other_end)

\* The test of [ptr, end) against a recorded block.
Overlaps(ptr, end, b) ==
    LET other_end == b.ptr + b.size
    IN  \/ ptr >= b.ptr /\ ptr < other_end
        \/ end > b.ptr /\ end < other_end
        \/ ptr < b.ptr /\ end >= other_end

\* verify_block with the table at bl.
verify_block(ptr, size, bl) ==
    /\ ptr % ALIGNMENT = 0
    /\ \/ ptr = NULL /\ size = 0
       \/ /\ ptr >= Start /\ ptr + size <= End
          /\ \A i \in Ids : \/ bl[i].ptr = NULL \/ bl[i].size = 0
                            \/ ~Overlaps(ptr, ptr + size, bl[i])

\* verify_payload in memory m.
verify_payload(m, ptr, size, id) ==
    \A a \in ptr .. (ptr + size - 1) : m[a] = Fill[id]

memset(m, ptr, size, id) ==
    [a \in Addr |-> IF a \in ptr .. (ptr + size - 1) THEN Fill[id] ELSE m[a]]

-----------------------------------------------------------------------------
(* The allocator: any answer, and memory as it was or with a byte spoiled.  *)

Answers   == {NULL} \cup (Start - 1) .. (End + 1)
Spoilt(m) == {m} \cup {[m EXCEPT ![a] = Junk] : a \in Addr}

\* What myrealloc of b to n bytes may leave in memory if it returns ptr.
Moved(b, ptr, n) ==
    LET k == Min({n, b.size})
    IN  {mem, [a \in Addr |-> IF a \in ptr .. (ptr + k - 1) /\ b.ptr + (a - ptr) \in Addr
                              THEN mem[b.ptr + (a - ptr)] ELSE mem[a]]}

\* The ids other than id whose block differs between memory and m.
Hit(m, id) == {i \in Ids \ {id} : \E a \in Bytes(blocks[i]) : m[a] # mem[a]}

-----------------------------------------------------------------------------
(* The requests of a script.                                               *)

\* An error is reported, and nothing of the script is looked at again.
Fail == /\ pc' = "failed"
        /\ UNCHANGED <<mem, blocks, tally, spoiled, twice>>

\* The block at p is filled and recorded, and the totals are brought up to
\* date; before the peak is, validate_heap may say no.
Accept(id, p, n, m) ==
    /\ mem' = memset(m, p, n, id)
    /\ blocks' = [blocks EXCEPT ![id] = [ptr |-> p, size |-> n]]
    /\ heap_end' = Max({heap_end, p + n})

Validated == \/ pc' = "running" /\ peak_size' = Max({peak_size, cur_size'})
             \/ pc' = "failed" /\ UNCHANGED peak_size

\* A block whose id is allocated again is no longer the harness's to check.
Forgotten(id) == IF blocks[id].ptr # NULL THEN {id} ELSE {}

Alloc(id, n) ==
    /\ pc = "running"
    /\ twice \/ blocks[id].ptr # NULL => cur_size + n <= MaxTotal
    /\ \E p \in Answers : \E m \in Spoilt(mem) :
          IF (p = NULL /\ n # 0) \/ ~verify_block(p, n, blocks)
          THEN Fail
          ELSE /\ Accept(id, p, n, m)
               /\ cur_size' = cur_size + n
               /\ spoiled' = (spoiled \ Forgotten(id)) \cup Hit(m, id)
               /\ twice' = (twice \/ blocks[id].ptr # NULL)
               /\ Validated

\* The old size is not taken off.
Realloc_bug(id, n) ==
    LET b == blocks[id]
    IN  /\ pc = "running"
        /\ IF ~verify_payload(mem, b.ptr, b.size, id)
           THEN Fail
           ELSE \E p \in Answers : \E moved \in Moved(b, p, n) : \E m \in Spoilt(moved) :
                   IF \/ p = NULL /\ n # 0
                      \/ ~verify_block(p, n, [blocks EXCEPT ![id].size = 0])
                      \/ ~verify_payload(m, p, Min({b.size, n}), id)
                   THEN Fail
                   ELSE /\ Accept(id, p, n, m)
                        /\ cur_size' = cur_size + n
                        /\ spoiled' = spoiled \cup Hit(m, id)
                        /\ UNCHANGED twice /\ Validated

Realloc(id, n) ==
    LET b == blocks[id]
    IN  /\ pc = "running"
        /\ IF ~verify_payload(mem, b.ptr, b.size, id)
           THEN Fail
           ELSE \E p \in Answers : \E moved \in Moved(b, p, n) : \E m \in Spoilt(moved) :
                   IF \/ p = NULL /\ n # 0
                      \/ ~verify_block(p, n, [blocks EXCEPT ![id].size = 0])
                      \/ ~verify_payload(m, p, Min({b.size, n}), id)
                   THEN Fail
                   ELSE /\ Accept(id, p, n, m)
                        /\ cur_size' = cur_size + (n - b.size)
                        /\ spoiled' = spoiled \cup Hit(m, id)
                        /\ UNCHANGED twice /\ Validated

\* The payload is not checked.
FreeBlock_bug(id) ==
    /\ pc = "running"
    /\ \E m \in Spoilt(mem) :
          /\ mem' = m
          /\ spoiled' = spoiled \cup Hit(m, id)
    /\ blocks' = [blocks EXCEPT ![id] = [ptr |-> NULL, size |-> 0]]
    /\ cur_size' = cur_size - blocks[id].size
    /\ UNCHANGED <<heap_end, twice>> /\ Validated

FreeBlock(id) ==
    LET b == blocks[id]
    IN  /\ pc = "running"
        /\ IF ~verify_payload(mem, b.ptr, b.size, id)
           THEN Fail
           ELSE /\ \E m \in Spoilt(mem) :
                      /\ mem' = m
                      /\ spoiled' = spoiled \cup Hit(m, id)
                /\ blocks' = [blocks EXCEPT ![id] = [ptr |-> NULL, size |-> 0]]
                /\ cur_size' = cur_size - b.size
                /\ UNCHANGED <<heap_end, twice>> /\ Validated

\* The end of the script: every block still held is checked.
Exit ==
    /\ pc = "running"
    /\ pc' = IF \A i \in Ids : verify_payload(mem, blocks[i].ptr, blocks[i].size, i)
             THEN "success" ELSE "failed"
    /\ UNCHANGED <<mem, blocks, tally, spoiled, twice>>

\* init_heap_segment, and a myinit that succeeds or not, for the next script.
NextScript ==
    /\ pc # "running"
    /\ mem' = [a \in Addr |-> 0]
    /\ blocks' = [i \in Ids |-> [ptr |-> NULL, size |-> 0]]
    /\ cur_size' = 0 /\ peak_size' = 0 /\ heap_end' = Start
    /\ pc' \in {"running", "failed"} /\ spoiled' = {} /\ twice' = FALSE

Next ==
    \/ \E id \in Ids, n \in Sizes : Alloc(id, n) \/ Realloc(id, n)
    \/ \E id \in Ids : FreeBlock(id)
    \/ Exit
    \/ NextScript

Spec == Init /\ [][Next]_vars

-----------------------------------------------------------------------------
(* Properties.                                                             *)

TypeOK ==
    /\ mem \in [Addr -> {Fill[i] : i \in Ids} \cup {0, Junk}]
    /\ blocks \in [Ids -> [ptr : Addr \cup {NULL, End}, size : Nat]]
    /\ cur_size \in Nat /\ peak_size \in Nat /\ heap_end \in Start .. End
    /\ pc \in {"running", "failed", "success"}
    /\ spoiled \subseteq Ids /\ twice \in BOOLEAN

\* Whatever the allocator returned, the blocks the harness has accepted are
\* aligned, inside the segment and apart (verify_block).
BlocksApart ==
    \A i \in Ids : blocks[i].ptr # NULL =>
        /\ blocks[i].ptr % ALIGNMENT = 0
        /\ Bytes(blocks[i]) \subseteq Addr
        /\ \A j \in Ids \ {i} : Bytes(blocks[i]) \cap Bytes(blocks[j]) = {}

\* The harness's own state: its table describes blocks that are apart.
TableSound == TypeOK /\ BlocksApart

\* verify_block blames no allocator unjustly: it accepts every aligned block of
\* the segment that shares no byte with a recorded one.
GoodBlocksAccepted ==
    \A p \in Answers, n \in Sizes \ {0} :
        LET b == [ptr |-> p, size |-> n]
        IN  /\ p % ALIGNMENT = 0 /\ Bytes(b) \subseteq Addr
            /\ \A i \in Ids : Bytes(b) \cap Bytes(blocks[i]) = {}
            => verify_block(p, n, blocks)

\* An allocator that writes into a live block, in whatever call, does not get
\* through the script: the block is found out when it is resized or freed or
\* at the end (verify_payload in eval_correctness and eval_realloc).
SpoilingIsFound == pc = "success" => spoiled = {}

\* The harness accuses no allocator unjustly and lets no damage pass.
VerdictsRight == GoodBlocksAccepted /\ SpoilingIsFound

\* The bytes of the recorded blocks.
Held == UNION {Bytes(blocks[i]) : i \in Ids}

\* Unless the script has allocated an id twice, cur_size is the number of bytes
\* that the recorded blocks hold, and the payload at its peak fits below
\* heap_end: no script is reported to use more than all of the segment
\* (test_scripts, eval_correctness).
Utilization ==
    ~twice => /\ cur_size = Cardinality(Held)
              /\ peak_size <= heap_end - Start
=============================================================================
