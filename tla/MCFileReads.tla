----------------------------- MODULE MCFileReads -----------------------------
(* A small instance of FileReads: which file and which block is which does   *)
(* not matter.                                                               *)
EXTENDS FileReads, TLC

FileSymmetry == Permutations(Inodes) \cup Permutations(Blocks)
==============================================================================
