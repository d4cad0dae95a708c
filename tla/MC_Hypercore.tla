--------------------------- MODULE MC_Hypercore ---------------------------
(* Small instance of Hypercore for TLC: two byte values, blocks of one or *)
(* two bytes (so a later slice can overlap an earlier block partly), three *)
(* entries per session and three process starts (enough for a write, a   *)
(* crash, a restart and a second one after a failed reopen).              *)
EXTENDS Hypercore, TLC

CONSTANTS v1, v2, zero

MCValues == {v1, v2}
MCLens == {1, 2}

\* The properties never name a byte value, so values are interchangeable.
MCSymmetry == Permutations(MCValues)
=============================================================================
