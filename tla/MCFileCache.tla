---------------------------- MODULE MCFileCache ----------------------------
(***************************************************************************)
(* A small FileCache: two threads, in one process or in two, two keys and  *)
(* room for one entry.                                                     *)
(***************************************************************************)
EXTENDS FileCache, TLC

Symmetry == Permutations(Keys) \cup Permutations(Processes)
=============================================================================
