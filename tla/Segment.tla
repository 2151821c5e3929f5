-------------------------------- MODULE Segment --------------------------------
(***************************************************************************)
(* The segment that src/assign6/segment.c reserves for the heap, and the   *)
(* pages of the address space around it, where the rest of the process     *)
(* maps and unmaps its own.                                                *)
(*                                                                         *)
(* A second init_heap_segment unmaps as many bytes as the new segment is   *)
(* to have, whatever the old one had.                                      *)
(***************************************************************************)
EXTENDS Integers

CONSTANTS
    NPages,     \* pages of the address space
    Hint,       \* the page of HEAP_START_HINT
    SegmentSizes    \* the sizes, in pages, init_heap_segment is called with

ASSUME SegmentAssumption ==
    /\ NPages \in Nat /\ Hint \in 1 .. NPages
    /\ SegmentSizes \subseteq Nat

NULL_PAGE  == 0
MAP_FAILED == -1
Page == 1 .. NPages
Pages(start, n) == start .. (start + n - 1)

VARIABLES
    segment_start,      \* first page of the segment, or NULL, or MAP_FAILED
    segment_size,       \* in pages
    owner               \* of every page: "none", "heap" or "other"

segment_vars == <<segment_start, segment_size, owner>>

\* The assertion on mmap has failed and the process is gone.
Aborted == segment_start = MAP_FAILED

SegmentInit ==
    /\ segment_start = NULL_PAGE /\ segment_size = 0
    /\ owner \in [Page -> {"none", "other"}]

\* The pages are left mapped.
munmap_bug(o, start, n) == o

\* A page too many goes.
munmap_more_bug(o, start, n) ==
    [p \in Page |-> IF p \in Pages(start, n + 1) THEN "none" ELSE o[p]]

\* munmap(start, n) of whatever is mapped there.
munmap(o, start, n) == [p \in Page |-> IF p \in Pages(start, n) THEN "none" ELSE o[p]]

\* Where mmap(Hint, n) may place its pages: at the hint if that is free.
mmap_choices(o, n) ==
    LET Free(s) == Pages(s, n) \subseteq Page /\ \A p \in Pages(s, n) : o[p] = "none"
    IN  {s \in Page : n > 0 /\ Free(s) /\ (Free(Hint) => s = Hint)}

\* The address space once the current segment has been discarded.
Discarded(n) == IF segment_start = NULL_PAGE THEN owner ELSE munmap(owner, segment_start, n)

\* munmap refuses a length of 0, so a call with n = 0 gets past it only if
\* there was no segment.
Discards(n) == ~Aborted /\ (segment_start = NULL_PAGE \/ n > 0)

\* init_heap_segment(n) succeeds.
Reserve(n) ==
    /\ Discards(n)
    /\ \E s \in mmap_choices(Discarded(n), n) :
          /\ segment_start' = s
          /\ owner' = [p \in Page |-> IF p \in Pages(s, n) THEN "heap" ELSE Discarded(n)[p]]
    /\ segment_size' = n

\* munmap fails: NULL is returned and nothing has changed.
DiscardFails(n) ==
    /\ ~Aborted /\ segment_start # NULL_PAGE
    /\ UNCHANGED segment_vars

\* mmap fails, for want of room or otherwise, and with it the assertion.
ReserveFails(n) ==
    /\ Discards(n)
    /\ owner' = Discarded(n)
    /\ segment_start' = MAP_FAILED /\ segment_size' = 0

\* The rest of the process maps a free page, or unmaps one of its own.
OtherMaps(p) ==
    /\ ~Aborted /\ owner[p] # "heap"
    /\ owner' = [owner EXCEPT ![p] = IF @ = "none" THEN "other" ELSE "none"]
    /\ UNCHANGED <<segment_start, segment_size>>

SegmentNext ==
    \/ \E n \in SegmentSizes : Reserve(n) \/ DiscardFails(n) \/ ReserveFails(n)
    \/ \E p \in Page : OtherMaps(p)

SegmentSpec == SegmentInit /\ [][SegmentNext]_segment_vars

-----------------------------------------------------------------------------
(* Properties.                                                             *)

\* The statics: a start goes with a size.
SegmentTypeOK ==
    /\ segment_start \in Page \cup {NULL_PAGE, MAP_FAILED} /\ segment_size \in Nat
    /\ owner \in [Page -> {"none", "heap", "other"}]
    /\ segment_start \in Page <=> segment_size > 0

\* The pages mapped for the heap are those of the current segment, all and no
\* others: init_heap_segment "discards the current heap segment and
\* re-configures" (segment.h:16).
SegmentIsAll ==
    ~Aborted => {p \in Page : owner[p] = "heap"} =
                    IF segment_start = NULL_PAGE THEN {} ELSE Pages(segment_start, segment_size)

\* The statics describe the pages that are mapped.
SegmentSound == SegmentTypeOK /\ SegmentIsAll

\* init_heap_segment leaves every page of the rest of the process mapped: only
\* the rest unmaps one.
OthersKept ==
    [][ \A p \in {q \in Page : owner[q] = "other"} :
            owner'[p] # "other" => OtherMaps(p) ]_segment_vars
=============================================================================
