------------------------------- MODULE MCHarness -------------------------------
(***************************************************************************)
(* Instances of Harness and of Segment for TLC, side by side.              *)
(*                                                                         *)
(* Neither module has a variable of the other: what the harness sees of    *)
(* the segment is where it begins and ends, and these are constants.  What *)
(* one does is the same whatever the other does, so one of them moves      *)
(* while the other is still as it was at first.                            *)
(***************************************************************************)
EXTENDS Harness, Segment

CONSTANTS i1, i2, i3

\* The low byte of each id: 0, as memory is at first, for one of them.
FillById == [i \in Ids |-> CASE i = i1 -> 0 [] i = i2 -> 1 [] OTHER -> 2]

\* No page has been mapped, for the heap or for the rest of the process.
Unmapped == segment_start = NULL_PAGE /\ \A p \in Page : owner[p] = "none"

\* No request has been made, or none that left anything.
NoRequest == mem = [a \in Addr |-> 0] /\ heap_end = Start /\ pc = "running"

BesideInit == Init /\ SegmentInit

BesideNext == \/ Unmapped /\ Next /\ UNCHANGED segment_vars
              \/ NoRequest /\ SegmentNext /\ UNCHANGED vars

SideBySide == BesideInit /\ [][BesideNext]_<<vars, segment_vars>>
=============================================================================
