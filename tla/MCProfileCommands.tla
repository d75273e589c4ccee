-------------------------- MODULE MCProfileCommands --------------------------
(* A small instance of ProfileCommands: two accounts under two names, and a  *)
(* rotation in each direction.                                               *)
EXTENDS ProfileCommands, TLC

CONSTANTS n1, n2, a1, a2, k1, k2

OperatorMenu ==
    [op : {"add"}, name : {n1}, account : {a1}, key : Keys, replace : {FALSE}]
    \cup [op : {"add"}, name : {n1}, account : {a2}, key : Keys, replace : {TRUE}]
    \cup [op : {"add"}, name : {n2}, account : {a1}, key : Keys, replace : {FALSE}]
    \cup {c \in [op : {"rotate"}, key : Keys, newKey : Keys] : c.key # c.newKey}
    \cup {[op |-> "remove", name |-> n1], [op |-> "list"]}

HostAndUser == [a \in Accounts |-> a]
ProcSymmetry == Permutations(Procs)
==============================================================================
