---------------------------- MODULE MCConfigFile ----------------------------
(***************************************************************************)
(* Two processes on one file: every pair of commands, edits by hand, and a *)
(* cut in every write.                                                     *)
(***************************************************************************)
EXTENDS ConfigFile, TLC

Symmetry == Permutations(Procs)
=============================================================================
