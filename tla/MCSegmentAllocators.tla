------------------------ MODULE MCSegmentAllocators ------------------------
(* Instances of SegmentAllocators for TLC. *)
EXTENDS SegmentAllocators

\* A segment of each kind, and one whose sizes are scaled down to the core.
Four == {<<"offset", 60>>, <<"offset", 62>>, <<"first_fit", 60>>, <<"binned", 60>>}
\* Ranges that meet, overlap, leave gaps, are empty or reach past the end.
Restored == {[off |-> 0, size |-> 17], [off |-> 17, size |-> 21], [off |-> 30, size |-> 17],
             [off |-> 50, size |-> 17], [off |-> 5, size |-> 0]}
=============================================================================
