----------------------------- MODULE MCRegistry -----------------------------
(* A small instance of Registry for TLC.                                   *)
EXTENDS Registry, TLC

(* Commands, entries and directories are interchangeable; slots are not.   *)
Symmetry ==
    Permutations(Commands) \cup Permutations(Entries) \cup Permutations(Dirs)
=============================================================================
