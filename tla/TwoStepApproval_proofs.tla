----------------------- MODULE TwoStepApproval_proofs -----------------------
(***************************************************************************)
(* OperationRun implements TwoStepApproval, for any number of invocations  *)
(* and any values of the constants.                                        *)
(***************************************************************************)
EXTENDS OperationRun_proofs

\* The abstract variables.
approvals == {[request |-> [key |-> x.digest.key, profile |-> x.digest.profile,
                            operation |-> x.digest.operation,
                            parameters |-> x.digest.parameters],
               expires |-> x.digest.expires] : x \in plans}
grants == {GrantOf(p) : p \in {q \in Procs : granted[q] # NoTime}}
performed == {GrantOf(e.by) : e \in {f \in effects : Destructive(f)}}

Abstract == <<clock, approvals, grants, performed>>

\* An invocation without a right and without effects may change its inputs
\* unseen.
LEMMA Unseen ==
    ASSUME Inv, NEW p \in Procs, granted[p] = NoTime,
           granted' = granted, effects' = effects,
           \A r \in effects : r.by # p,
           \A q \in Procs \ {p} : cmd'[q] = cmd[q] /\ key'[q] = key[q] /\ value'[q] = value[q]
                                  /\ listing'[q] = listing[q]
    PROVE  grants' = grants /\ performed' = performed
<1>1. ASSUME NEW q \in Procs, q # p PROVE GrantOf(q)' = GrantOf(q)
  BY <1>1 DEF GrantOf, RequestOf, SafeParameters
<1>2. grants' = grants
  BY <1>1 DEF grants
<1>3. \A e \in effects : e.by \in Procs \ {p}
  BY DEF Inv, TypeOK, Effects
<1>4. performed' = performed
  BY <1>1, <1>3 DEF performed, Destructive
<1>5. QED
  BY <1>2, <1>4

\* Nothing is seen either of a step that changes no inputs.
LEMMA SameInputs ==
    ASSUME UNCHANGED <<cmd, inputs>>
    PROVE  \A q \in Procs : GrantOf(q)' = GrantOf(q)
BY DEF GrantOf, RequestOf, SafeParameters, inputs

LEMMA DryRunApproves ==
    ASSUME Inv, NEW p \in Procs, DryRun(p)
    PROVE  (\E a \in approvals' : Approval!Approve(a)) \/ UNCHANGED Abstract
<1>1. /\ clock' = clock /\ granted' = granted /\ effects' = effects
      /\ UNCHANGED <<cmd, inputs>>
  BY DEF DryRun, world, network
<1>2. grants' = grants /\ performed' = performed
  BY <1>1, SameInputs DEF grants, performed, Destructive, Inv, TypeOK, Effects
<1>3. CASE ~Risky(p)
  <2>1. plans' = plans
    BY <1>3 DEF DryRun
  <2>2. QED
    BY <1>1, <1>2, <2>1 DEF Abstract, approvals
<1>4. CASE Risky(p)
  <2> DEFINE d == Plan(key[p], cmd[p].profile, cmd[p].operation, SafeParameters(p), clock).digest
             x == [digest |-> d, account |-> profile[p].account, listing |-> listing[p]]
             a == [request |-> RequestOf(p), expires |-> clock + Lifetime]
  <2>1. plans' = plans \cup {x}
    BY <1>4 DEF DryRun
  <2>2. /\ d.key = key[p] /\ d.profile = cmd[p].profile /\ d.operation = cmd[p].operation
        /\ d.parameters = SafeParameters(p) /\ d.expires = clock + Lifetime
    BY DEF Plan, Sign
  <2>3. approvals' = approvals \cup {a}
    <3>1. x.digest = d
      OBVIOUS
    <3>2. a = [request |-> [key |-> d.key, profile |-> d.profile, operation |-> d.operation,
                            parameters |-> d.parameters],
               expires |-> d.expires]
      BY <2>2 DEF RequestOf
    <3> HIDE DEF d, x, a
    <3>3. QED
      BY <2>1, <3>1, <3>2 DEF approvals
  <2>4. a.request \in [key : Keys, profile : Names, operation : Ops, parameters : Parameters]
    BY Started, SafeParametersType DEF DryRun, Inv, TypeOK, RequestOf
  <2>5. PICK b : b = a
    OBVIOUS
  <2>6. Approval!Approve(b)
    BY <1>1, <1>2, <2>3, <2>4, <2>5 DEF Approval!Approve, approvals, grants, performed
  <2>7. b \in approvals'
    BY <2>3, <2>5
  <2>8. QED
    BY <2>6, <2>7
<1>5. QED
  BY <1>3, <1>4

LEMMA AuthoriseGrants ==
    ASSUME Inv, NEW p \in Procs, Authorise(p)
    PROVE  (\E a \in approvals : Approval!Grant(p, a)) \/ UNCHANGED Abstract
<1>1. /\ clock' = clock /\ effects' = effects /\ plans' = plans
      /\ UNCHANGED <<cmd, inputs>>
  BY DEF Authorise, world, network
<1>2. /\ granted[p] = NoTime /\ \A r \in effects : r.by # p
  BY Early DEF Authorise, Past
<1>3. approvals' = approvals
  BY <1>1 DEF approvals
<1>4. performed' = performed
  BY <1>1, SameInputs DEF performed, Destructive, Inv, TypeOK, Effects
<1>5. CASE Risky(p) /\ Confirmed(p)
  <2>1. granted' = [granted EXCEPT ![p] = clock] /\ clock # NoTime
    BY <1>5, RunAssumption DEF Authorise, Inv, TypeOK
  <2>2. /\ cmd[p].confirm = Sign(key[p], cmd[p].profile, cmd[p].operation,
                                 SafeParameters(p), cmd[p].expires)
        /\ cmd[p].confirm # NoDigest /\ clock <= cmd[p].expires
    BY <1>5 DEF Confirmed, Verify
  <2>3. PICK x \in plans : x.digest = cmd[p].confirm
    BY <2>2 DEF Authorise, Inv, GrantInv
  <2> DEFINE a == [request |-> [key |-> x.digest.key, profile |-> x.digest.profile,
                                operation |-> x.digest.operation,
                                parameters |-> x.digest.parameters],
                   expires |-> x.digest.expires]
  <2>4. a \in approvals /\ a.request = RequestOf(p) /\ a.expires = cmd[p].expires
    <3>1. a \in approvals
      BY DEF approvals
    <3>2. /\ x.digest.key = key[p] /\ x.digest.profile = cmd[p].profile
          /\ x.digest.operation = cmd[p].operation
          /\ x.digest.parameters = SafeParameters(p) /\ x.digest.expires = cmd[p].expires
      BY <2>2, <2>3 DEF Sign
    <3>3. a.request = RequestOf(p) /\ a.expires = cmd[p].expires
      BY <3>2 DEF RequestOf
    <3>4. QED
      BY <3>1, <3>3
  <2> HIDE DEF a
  <2>5. \A q \in Procs : granted'[q] # NoTime <=> q = p \/ granted[q] # NoTime
    BY <2>1 DEF Inv, TypeOK
  <2>6. grants' = grants \cup {[by |-> p, request |-> a.request]}
    <3>1. GrantOf(p) = [by |-> p, request |-> a.request]
      BY <2>4 DEF GrantOf
    <3>2. grants' = {GrantOf(q) : q \in {s \in Procs : granted'[s] # NoTime}}
      BY <1>1, SameInputs DEF grants
    <3>3. QED
      BY <2>5, <3>1, <3>2 DEF grants
  <2>7. \A g \in grants : g.by # p
    BY <1>2 DEF grants, GrantOf
  <2>8. Approval!Grant(p, a)
    BY <1>1, <1>3, <1>4, <2>2, <2>4, <2>6, <2>7 DEF Approval!Grant, approvals, grants, performed
  <2>9. QED
    BY <2>4, <2>8
<1>6. CASE ~(Risky(p) /\ Confirmed(p))
  <2>1. granted' = granted
    BY <1>6 DEF Authorise
  <2>2. grants' = grants
    BY <1>1, <2>1, SameInputs DEF grants
  <2>3. QED
    BY <1>1, <1>3, <1>4, <2>2 DEF Abstract
<1>7. QED
  BY <1>5, <1>6

LEMMA ExecutionPerforms ==
    ASSUME Inv, NEW r \in requests, Execute(r)
    PROVE  (\E g \in grants : Approval!Perform(g)) \/ UNCHANGED Abstract
<1>1. /\ clock' = clock /\ granted' = granted /\ plans' = plans
      /\ UNCHANGED <<cmd, inputs>>
  BY DEF Execute
<1>2. approvals' = approvals /\ grants' = grants
  BY <1>1, SameInputs DEF approvals, grants
<1>3. \A e \in effects : e.by \in Procs
  BY DEF Inv, TypeOK, Effects
<1>4. r.by \in Procs /\ SentInv(r)
  BY DEF Inv, TypeOK, Requests
<1>5. performed' = {GrantOf(e.by) : e \in {f \in effects' : Destructive(f)}}
  <2>1. \A e \in effects' : e.by \in Procs
    BY <1>3, <1>4 DEF Execute
  <2>2. QED
    BY <1>1, <2>1, SameInputs DEF performed, Destructive
<1>6. CASE Destructive(r)
  <2>1. effects' = effects \cup {r}
    BY <1>6 DEF Execute, Mutates, Destructive, DestructiveOperations, ReadOperations
  <2>2. performed' = performed \cup {GrantOf(r.by)}
    BY <1>5, <1>6, <2>1 DEF performed
  <2>3. granted[r.by] # NoTime
    BY <1>4, <1>6 DEF SentInv, RecordOf, Risky, Destructive
  <2>4. GrantOf(r.by) \in grants
    BY <1>4, <2>3 DEF grants
  <2>5. CASE GrantOf(r.by) \in performed
    BY <1>1, <1>2, <2>2, <2>5 DEF Abstract
  <2>6. CASE GrantOf(r.by) \notin performed
    <3>1. Approval!Perform(GrantOf(r.by))
      BY <1>1, <1>2, <2>2, <2>4, <2>6 DEF Approval!Perform, approvals, grants, performed
    <3>2. QED
      BY <2>4, <3>1
  <2>7. QED
    BY <2>5, <2>6
<1>7. CASE ~Destructive(r)
  <2>1. {f \in effects' : Destructive(f)} = {f \in effects : Destructive(f)}
    BY <1>7 DEF Execute
  <2>2. performed' = performed
    BY <1>5, <2>1 DEF performed
  <2>3. QED
    BY <1>1, <1>2, <2>2 DEF Abstract
<1>8. QED
  BY <1>6, <1>7

\* Steps that only read, end, send or lose something are not seen.
LEMMA HiddenSteps ==
    ASSUME Inv, NEW p \in Procs,
           \/ Begin(p) \/ GetProfile(p) \/ ReadKey(p) \/ ReadContent(p) \/ Preflight(p)
           \/ InputFails(p)
    PROVE  UNCHANGED Abstract
<1>1. pc[p] \in {"idle", "profile", "key", "content", "preflight"}
  BY DEF Begin, GetProfile, ReadKey, ReadContent, Preflight, InputFails
<1>2. granted[p] = NoTime /\ \A r \in effects : r.by # p
  BY <1>1, Early DEF Past
<1>3. /\ clock' = clock /\ granted' = granted /\ effects' = effects /\ plans' = plans
  BY DEF Begin, GetProfile, ReadKey, ReadContent, Preflight, InputFails, world, network
<1>4. \A q \in Procs \ {p} : cmd'[q] = cmd[q] /\ key'[q] = key[q] /\ value'[q] = value[q]
                             /\ listing'[q] = listing[q]
  BY DEF Begin, GetProfile, ReadKey, ReadContent, Preflight, InputFails, inputs, Inv, TypeOK
<1>5. grants' = grants /\ performed' = performed
  BY <1>2, <1>3, <1>4, Unseen
<1>6. QED
  BY <1>3, <1>5 DEF Abstract, approvals

LEMMA UnseenChange ==
    ASSUME Inv, UNCHANGED <<clock, granted, effects, plans, cmd, inputs>>
    PROVE  UNCHANGED Abstract
<1>1. \A e \in effects : e.by \in Procs
  BY DEF Inv, TypeOK, Effects
<1>2. QED
  BY <1>1, SameInputs DEF Abstract, approvals, grants, performed, Destructive

LEMMA StepsApproved ==
    ASSUME Inv, [Next]_vars
    PROVE  Approval!Next \/ UNCHANGED Abstract
<1>1. CASE UNCHANGED vars
  BY <1>1, UnseenChange DEF vars, world, network
<1>2. ASSUME NEW p \in Procs, DryRun(p) PROVE Approval!Next \/ UNCHANGED Abstract
  BY <1>2, DryRunApproves DEF Approval!Next, approvals
<1>3. ASSUME NEW p \in Procs, Authorise(p) PROVE Approval!Next \/ UNCHANGED Abstract
  BY <1>3, AuthoriseGrants DEF Approval!Next, approvals
<1>4. ASSUME NEW r \in requests, Execute(r) PROVE Approval!Next \/ UNCHANGED Abstract
  BY <1>4, ExecutionPerforms DEF Approval!Next, grants
<1>5. ASSUME NEW p \in Procs,
             RefuseUpload(p) \/ Send(p) \/ Receive(p) \/ GiveUp(p) \/ Kill(p)
      PROVE  UNCHANGED Abstract
  BY <1>5, UnseenChange DEF RefuseUpload, Send, Receive, GiveUp, Kill, world, network
<1>6. ASSUME NEW r \in requests, Drop(r) PROVE UNCHANGED Abstract
  BY <1>6, UnseenChange DEF Drop, world
<1>7. CASE EditProfiles \/ PromoteKey \/ EditSource \/ EditRemote
  BY <1>7, UnseenChange DEF EditProfiles, PromoteKey, EditSource, EditRemote, network
<1>8. CASE Tick
  <2>1. /\ clock' = clock + 1
        /\ UNCHANGED <<granted, effects, plans, cmd, inputs>>
    BY <1>8 DEF Tick, network
  <2>2. \A e \in effects : e.by \in Procs
    BY DEF Inv, TypeOK, Effects
  <2>3. UNCHANGED <<approvals, grants, performed>>
    BY <2>1, <2>2, SameInputs DEF approvals, grants, performed, Destructive
  <2>4. QED
    BY <2>1, <2>3 DEF Approval!Next, Approval!Tick, approvals, grants, performed
<1>9. QED
  BY <1>1, <1>2, <1>3, <1>4, <1>5, <1>6, <1>7, <1>8, HiddenSteps DEF Next, Step

\* The workflow implements two-step approval: every destructive effect was
\* granted to its invocation while an approval of exactly that request lasted.
THEOREM RunImplementsApproval == Spec => ImplementsApproval
<1>1. Init => Approval!Init
  BY DEF Init, Approval!Init
<1>2. Inv /\ [Next]_vars => [Approval!Next]_Abstract
  BY StepsApproved
<1>3. QED
  BY <1>1, <1>2, InvHolds, PTL DEF Spec, ImplementsApproval, Approval!Spec, Abstract,
                                   approvals, grants, performed
==============================================================================
