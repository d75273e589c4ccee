--------------------------- MODULE TwoStepApproval ---------------------------
(***************************************************************************)
(* What the two-command workflow for destructive operations promises,      *)
(* without processes, files or a network.  A request is approved for a     *)
(* limited time; an invocation is granted a request only while an approval *)
(* of exactly that request lasts; and what is performed was granted, once  *)
(* for each grant.                                                         *)
(*                                                                         *)
(* An approval may be granted to many invocations, and a grant may be      *)
(* performed after the approval has expired: the workflow promises neither *)
(* single use nor a deadline for the effect.                               *)
(***************************************************************************)
EXTENDS Naturals

CONSTANTS Requests, Invocations, Lifetime

VARIABLES now, approvals, grants, performed

Init == /\ now = 0
        /\ approvals = {}
        /\ grants = {}
        /\ performed = {}

Tick == /\ now' = now + 1
        /\ UNCHANGED <<approvals, grants, performed>>

Approve(a) == /\ a.request \in Requests
              /\ a.expires = now + Lifetime
              /\ approvals' = approvals \cup {a}
              /\ UNCHANGED <<now, grants, performed>>

Grant(i, a) ==
    /\ now <= a.expires
    /\ \A g \in grants : g.by # i
    /\ grants' = grants \cup {[by |-> i, request |-> a.request]}
    /\ UNCHANGED <<now, approvals, performed>>

Perform(g) == /\ g \in grants \ performed
              /\ performed' = performed \cup {g}
              /\ UNCHANGED <<now, approvals, grants>>

Next == \/ Tick
        \/ \E a \in approvals' : Approve(a)
        \/ \E i \in Invocations, a \in approvals : Grant(i, a)
        \/ \E g \in grants : Perform(g)

Spec == Init /\ [][Next]_<<now, approvals, grants, performed>>
==============================================================================
