---------------------------- MODULE MCMissionFile ----------------------------
(* MissionFile for TLC: missions and processes are interchangeable. *)
EXTENDS MissionFile, TLC

Interchangeable == Permutations(Mission) \union Permutations(Process)
=============================================================================
