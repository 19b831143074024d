--------------------------- MODULE MC_PollEngine ---------------------------
(* Small instance of PollEngine for TLC: two attributes, a default and a   *)
(* requested interval, a backoff of one second and a few seconds of clock. *)
EXTENDS PollEngine, TLC

MC_Intervals == {0, 2}
MC_DefaultInterval == 3
MC_Backoff == 1
MC_MaxTime == 4

Symmetry == Permutations(Attr)
=============================================================================
