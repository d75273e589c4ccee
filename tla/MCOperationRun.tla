--------------------------- MODULE MCOperationRun ---------------------------
(* Small instances of OperationRun.                                         *)
EXTENDS OperationRun, TLC

CONSTANTS n1, a1, a2, k1, k2

OneProfile == [n \in Names |-> [account |-> a1, key |-> k1]]
ProcSymmetry == Permutations(Procs)
==============================================================================
