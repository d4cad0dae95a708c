-------------------------- MODULE MC_StorageData --------------------------
(* Small instance of StorageData: logs of up to four blocks of zero or   *)
(* one byte.  Block 3 is the first whose offset sums two roots (flat 1    *)
(* and 4); blocks of different lengths make a wrong root visible as a     *)
(* wrong offset, and an empty block takes put_data's early return.  One   *)
(* byte value suffices: a misplaced block shows as a wrong range.         *)
EXTENDS StorageData

CONSTANTS v1, zero

MCValues == {v1}
MCLens == {0, 1}
\* States that differ only in the ghost `result` (what the last put_data or
\* get_data returned) have the same successors: no action reads it.  The
\* view keeps one of them, so every transition is still generated and
\* every property that does not mention `result` is checked in full.
ResultlessView == <<blocks, treeSeg, stored, data, written>>

=============================================================================
