--------------------------- MODULE MCProfileStore ---------------------------
(* Small instances of ProfileStore: which commands the invocations choose   *)
(* from.                                                                    *)
EXTENDS ProfileStore, TLC

CONSTANTS n1, n2, a1, a2, k1, k2, k3

AddCommand(n, a, k, r) ==
    [op |-> "add", name |-> n, account |-> a, key |-> k, replace |-> r]
RotateCommand(k, new) == [op |-> "rotate", key |-> k, newKey |-> new]
RemoveCommand(n) == [op |-> "remove", name |-> n]

\* Every command that writes, on two names.  An add that overlaps a rotation leaves
\* a store under two keys, which the next rotation, from either of them, meets.
MixedMenu == {AddCommand(n1, a1, k1, FALSE), AddCommand(n2, a2, k1, TRUE), RemoveCommand(n1),
              RotateCommand(k1, k3), RotateCommand(k3, k2)}

\* Adds without --replace and rotations.
RotationMenu == {AddCommand(n1, a1, k1, FALSE), AddCommand(n2, a2, k1, FALSE),
                 RotateCommand(k1, k2)}

ProcSymmetry == Permutations(Procs)
==============================================================================
