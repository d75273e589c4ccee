------------------------- MODULE OperationRun_proofs -------------------------
(***************************************************************************)
(* Proofs about OperationRun: what its invocations may do, for any number  *)
(* of them, any operations, accounts, keys and contents, and any length of *)
(* the clock.                                                              *)
(***************************************************************************)
EXTENDS OperationRun, TLAPS

LEMMA RekeyedIsImage ==
    ASSUME NEW image \in Images, NEW k \in Keys
    PROVE  Rekeyed(image, k) \in Images
BY DEF Images, Profiles, Rekeyed

LEMMA EditIsImage ==
    ASSUME NEW image \in Images, NEW n \in Names, NEW a \in Accounts, NEW k \in Keys
    PROVE  /\ WithProfile(image, n, a, k) \in Images
           /\ [image EXCEPT ![n] = NoProfile] \in Images
BY DEF Images, Profiles, WithProfile

\* What an invocation that has started carries.
LEMMA Started ==
    ASSUME TypeOK, NEW p \in Procs, pc[p] # "idle"
    PROVE  /\ cmd[p] \in Commands
           /\ cmd[p].profile \in Names /\ cmd[p].operation \in Ops /\ cmd[p].value \in Values
           /\ cmd[p].dryRun \in BOOLEAN
           /\ cmd[p].confirm \in Digests \cup {NoDigest}
           /\ cmd[p].expires \in Nat \cup {NoTime}
<1>1. cmd[p] \in Commands
  BY DEF TypeOK
<1>2. QED
  BY <1>1 DEF Commands

\* The parameters that a plan binds, as an invocation computes them.
LEMMA SafeParametersType ==
    ASSUME TypeOK, NEW p \in Procs
    PROVE  SafeParameters(p) \in Parameters
<1>1. listing[p] \in Listings \cup {NoListing} /\ value[p] \in Values
  BY DEF TypeOK
<1>2. listing[p] # NoListing => listing[p].shown \in Nat
  BY <1>1 DEF Listings
<1>3. QED
  BY <1>1, <1>2 DEF SafeParameters, Parameters

LEMMA InitTypes == Init => TypeOK
<1> SUFFICES ASSUME Init PROVE TypeOK
  OBVIOUS
<1>1. activeKey \in Keys /\ source \in Values
  BY DEF Init
<1>2. \A p \in Procs : cmd[p] = NoCommand /\ pc[p] = "idle"
  BY DEF Init
<1>3. QED
  BY <1>1, <1>2, RunAssumption DEF Init, TypeOK, Labels, Results, Answers, Listings

\* The part of TypeOK that speaks of one process.
ProcTypes(p) ==
    /\ cmd[p] = NoCommand <=> pc[p] = "idle"
    /\ pc[p] \in {"key", "content", "preflight", "decide", "send", "waiting"}
       => profile[p] \in Profiles

\* A step of p that leaves everything alone but its label, result and some inputs.
LEMMA LocalStepTypes ==
    ASSUME TypeOK, NEW p \in Procs, pc[p] # "idle",
           UNCHANGED <<world, network, cmd>>,
           NEW label \in Labels \ {"idle"}, Goto(p, label),
           result' = result \/ \E r \in Results : result' = [result EXCEPT ![p] = r],
           profile' = profile \/ (profile' = [profile EXCEPT ![p] = profile'[p]]
                                  /\ profile'[p] \in Profiles),
           label \in {"done", "dead"} \/ profile'[p] \in Profiles,
           key' \in [Procs -> Keys], value' \in [Procs -> Values],
           listing' \in [Procs -> Listings \cup {NoListing}],
           granted' \in [Procs -> Nat \cup {NoTime}],
           plans' \subseteq Plans
    PROVE  TypeOK'
<1>1. /\ pc' \in [Procs -> Labels]
      /\ pc'[p] = label /\ \A q \in Procs : q # p => pc'[q] = pc[q]
  BY DEF TypeOK, Goto
<1>2. result' \in [Procs -> Results]
  BY DEF TypeOK
<1>3. /\ profile' \in [Procs -> Profiles \cup {NoProfile}]
      /\ \A q \in Procs : q # p => profile'[q] = profile[q]
  BY DEF TypeOK
<1>4. cmd' = cmd /\ cmd[p] # NoCommand
  BY DEF TypeOK
<1>5. \A q \in Procs : ProcTypes(q)'
  BY <1>1, <1>3, <1>4 DEF TypeOK, ProcTypes
<1>6. QED
  BY <1>1, <1>2, <1>3, <1>4, <1>5 DEF TypeOK, ProcTypes, world, network

LEMMA StepTypes ==
    ASSUME TypeOK, NEW p \in Procs, Step(p)
    PROVE  TypeOK'
<1> USE DEF inputs, Labels, Results, Answers
<1>1. CASE GetProfile(p)
  <2>1. profiles[cmd[p].profile] \in Profiles \cup {NoProfile}
    BY <1>1, Started DEF GetProfile, TypeOK, Images
  <2>2. CASE cmd[p].profile \in Present(profiles)
    <3>1. profiles[cmd[p].profile] \in Profiles
      BY <2>1, <2>2 DEF Present
    <3>2. profile'[p] = profiles[cmd[p].profile]
      BY <1>1, <2>2 DEF GetProfile, TypeOK
    <3>3. QED
      BY <1>1, <2>2, <3>1, <3>2, LocalStepTypes DEF GetProfile, Proceed, TypeOK
  <2>3. CASE cmd[p].profile \notin Present(profiles)
    BY <1>1, <2>3, LocalStepTypes DEF GetProfile, Return, TypeOK
  <2>4. QED
    BY <2>2, <2>3
<1>2. CASE ReadKey(p)
  <2>1. key' \in [Procs -> Keys]
    BY <1>2 DEF ReadKey, TypeOK
  <2>2. CASE profile[p].key = activeKey
    BY <1>2, <2>1, <2>2, LocalStepTypes DEF ReadKey, Proceed, TypeOK
  <2>3. CASE profile[p].key # activeKey
    BY <1>2, <2>1, <2>3, LocalStepTypes DEF ReadKey, Return, TypeOK
  <2>4. QED
    BY <2>2, <2>3
<1>3. CASE ReadContent(p)
  <2>1. value' \in [Procs -> Values]
    BY <1>3, Started DEF ReadContent, TypeOK
  <2>2. CASE cmd[p].operation \in Preflighted
    BY <1>3, <2>1, <2>2, LocalStepTypes DEF ReadContent, Proceed, TypeOK
  <2>3. CASE cmd[p].operation \notin Preflighted
    BY <1>3, <2>1, <2>3, LocalStepTypes DEF ReadContent, Proceed, TypeOK
  <2>4. QED
    BY <2>2, <2>3
<1>4. CASE Preflight(p)
  <2>1. profile[p] \in Profiles
    BY <1>4 DEF Preflight, TypeOK
  <2>2. remote[profile[p].account] \in Nat
    BY <2>1 DEF TypeOK, Profiles
  <2>3. [shown |-> Listed(remote[profile[p].account]),
         actual |-> remote[profile[p].account]] \in Listings
    BY <2>2 DEF Listed, Listings
  <2>4. listing' \in [Procs -> Listings \cup {NoListing}]
    BY <1>4, <2>3 DEF Preflight, TypeOK
  <2>5. QED
    BY <1>4, <2>1, <2>4, LocalStepTypes DEF Preflight, Proceed, TypeOK
<1>5. CASE InputFails(p)
  <2>1. PICK r \in {"usage", "config", "transport", "uapi", "internal"} : Return(p, r)
    BY <1>5 DEF InputFails
  <2>2. QED
    BY <1>5, <2>1, LocalStepTypes DEF InputFails, Return, TypeOK
<1>6. CASE DryRun(p)
  <2>1. /\ cmd[p].profile \in Names /\ cmd[p].operation \in Ops
        /\ profile[p] \in Profiles /\ key[p] \in Keys /\ clock \in Nat
        /\ listing[p] \in Listings \cup {NoListing}
    BY <1>6, Started DEF DryRun, TypeOK
  <2>2. Plan(key[p], cmd[p].profile, cmd[p].operation, SafeParameters(p), clock).digest
        \in Digests
    BY <2>1, SafeParametersType, LifetimeAssumption DEF Plan, Sign, Digests
  <2>3. profile[p].account \in Accounts
    BY <2>1 DEF Profiles
  <2>4. plans' \subseteq Plans
    BY <1>6, <2>1, <2>2, <2>3 DEF DryRun, Plans, TypeOK
  <2>5. QED
    BY <1>6, <2>4, LocalStepTypes DEF DryRun, Return, TypeOK
<1>7. CASE Authorise(p)
  <2>1. profile[p] \in Profiles /\ clock \in Nat
    BY <1>7 DEF Authorise, TypeOK
  <2>2. granted' \in [Procs -> Nat \cup {NoTime}]
    BY <1>7, <2>1 DEF Authorise, TypeOK
  <2>3. PICK label \in {"send", "done"} : Goto(p, label)
    BY <1>7 DEF Authorise, Proceed, Return
  <2>4. result' = result \/ \E r \in Results : result' = [result EXCEPT ![p] = r]
    BY <1>7 DEF Authorise, Proceed, Return
  <2>5. QED
    BY <1>7, <2>1, <2>2, <2>3, <2>4, LocalStepTypes DEF Authorise, TypeOK
<1>8. CASE RefuseUpload(p)
  BY <1>8, LocalStepTypes DEF RefuseUpload, Return, TypeOK
<1>9. CASE Send(p)
  <2>1. /\ cmd[p].operation \in Ops /\ profile[p] \in Profiles /\ value[p] \in Values
    BY <1>9, Started DEF Send, TypeOK
  <2>2. requests' \subseteq Requests
    BY <1>9, <2>1 DEF Send, Requests, Profiles, TypeOK
  <2>3. /\ pc' \in [Procs -> Labels]
        /\ pc'[p] = "waiting" /\ \A q \in Procs : q # p => pc'[q] = pc[q]
    BY <1>9 DEF Send, Proceed, Goto, TypeOK
  <2>4. \A q \in Procs : ProcTypes(q)'
    BY <1>9, <2>1, <2>3 DEF Send, TypeOK, ProcTypes
  <2>5. QED
    BY <1>9, <2>2, <2>3, <2>4 DEF Send, Proceed, TypeOK, ProcTypes, world
<1>10. CASE Receive(p)
  <2>1. PICK r \in Results : Return(p, r)
    BY <1>10 DEF Receive, TypeOK
  <2>2. QED
    BY <1>10, <2>1, LocalStepTypes DEF Receive, Return, TypeOK
<1>11. CASE GiveUp(p)
  <2>1. PICK r \in {"transport", "internal"} : Return(p, r)
    BY <1>11 DEF GiveUp
  <2>2. QED
    BY <1>11, <2>1, LocalStepTypes DEF GiveUp, Return, TypeOK
<1>12. QED
  BY <1>1, <1>2, <1>3, <1>4, <1>5, <1>6, <1>7, <1>8, <1>9, <1>10, <1>11 DEF Step

LEMMA BeginTypes ==
    ASSUME TypeOK, NEW p \in Procs, Begin(p)
    PROVE  TypeOK'
<1> USE DEF inputs, network, world
<1>1. PICK c \in Commands : cmd' = [cmd EXCEPT ![p] = c]
  <2>1. PICK n \in Names, op \in Ops, v \in Values, dry \in BOOLEAN,
             d \in {x.digest : x \in plans} \cup {NoDigest},
             t \in {x.digest.expires : x \in plans} \cup {NoTime} :
           cmd' = [cmd EXCEPT ![p] = [profile |-> n, operation |-> op, value |-> v,
                                      dryRun |-> dry, confirm |-> d, expires |-> t]]
    BY DEF Begin
  <2>2. \A x \in plans : x.digest \in Digests /\ x.digest.expires \in Nat
    BY DEF TypeOK, Plans, Digests
  <2>3. d \in Digests \cup {NoDigest} /\ t \in Nat \cup {NoTime}
    BY <2>2
  <2>4. [profile |-> n, operation |-> op, value |-> v, dryRun |-> dry,
         confirm |-> d, expires |-> t] \in Commands
    BY <2>3 DEF Commands
  <2>5. QED
    BY <2>1, <2>4
<1>2. /\ pc' \in [Procs -> Labels]
      /\ pc'[p] = "profile" /\ \A q \in Procs : q # p => pc'[q] = pc[q]
  BY DEF Begin, Goto, TypeOK, Labels
<1>3. \A q \in Procs : ProcTypes(q)'
  BY <1>1, <1>2, RunAssumption DEF Begin, TypeOK, ProcTypes
<1>4. cmd' \in [Procs -> Commands \cup {NoCommand}]
  BY <1>1 DEF TypeOK
<1>5. QED
  BY <1>2, <1>3, <1>4 DEF Begin, TypeOK, ProcTypes

LEMMA KillTypes ==
    ASSUME TypeOK, NEW p \in Procs, Kill(p)
    PROVE  TypeOK'
BY LocalStepTypes DEF Kill, TypeOK, inputs, Labels

LEMMA ServerTypes ==
    ASSUME TypeOK, NEW r \in requests, Execute(r) \/ Drop(r)
    PROVE  TypeOK'
<1> USE DEF inputs, world
<1>1. r \in Requests /\ r \in Effects /\ r.by \in Procs /\ r.account \in Accounts
  BY DEF TypeOK, Requests, Effects
<1>2. answers' \in [Procs -> Answers] /\ requests' \subseteq Requests
  BY <1>1 DEF Execute, Drop, TypeOK, Answers
<1>3. effects' \subseteq Effects
  BY <1>1 DEF Execute, Drop, TypeOK
<1>4. remote' \in [Accounts -> Nat] /\ stamp' \in Nat
  BY <1>1 DEF Execute, Drop, TypeOK
<1>5. CASE Execute(r)
  BY <1>2, <1>3, <1>4, <1>5 DEF Execute, TypeOK
<1>6. CASE Drop(r)
  BY <1>2, <1>3, <1>4, <1>6 DEF Drop, TypeOK
<1>7. QED
  BY <1>5, <1>6

LEMMA OthersTypes ==
    ASSUME TypeOK, Tick \/ EditProfiles \/ PromoteKey \/ EditSource \/ EditRemote
    PROVE  TypeOK'
<1> USE RunAssumption DEF inputs, network
<1>1. CASE Tick
  BY <1>1 DEF Tick, TypeOK
<1>2. CASE EditProfiles
  <2>1. profiles' \in Images
    <3>1. profiles \in Images /\ activeKey \in Keys /\ Present(profiles) \subseteq Names
      BY DEF TypeOK, Present
    <3>2. CASE \E k \in Keys : profiles' = Rekeyed(profiles, k)
      BY <3>1, <3>2, RekeyedIsImage
    <3>3. CASE \E n \in Present(profiles), a \in Accounts :
                 profiles' = WithProfile(profiles, n, a, activeKey)
      BY <3>1, <3>3, EditIsImage
    <3>4. CASE \E n \in Present(profiles) : profiles' = [profiles EXCEPT ![n] = NoProfile]
      BY <3>1, <3>4 DEF Images
    <3>5. QED
      BY <1>2, <3>2, <3>3, <3>4 DEF EditProfiles
  <2>2. QED
    BY <1>2, <2>1 DEF EditProfiles, Edit, TypeOK
<1>3. CASE PromoteKey
  BY <1>3 DEF PromoteKey, TypeOK
<1>4. CASE EditSource
  BY <1>4 DEF EditSource, Edit, TypeOK
<1>5. CASE EditRemote
  <2>1. stamp' \in Nat
    BY <1>5 DEF EditRemote, TypeOK
  <2>2. remote' \in [Accounts -> Nat]
    BY <1>5, <2>1 DEF EditRemote, TypeOK
  <2>3. QED
    BY <1>5, <2>1, <2>2 DEF EditRemote, Edit, TypeOK
<1>6. QED
  BY <1>1, <1>2, <1>3, <1>4, <1>5

LEMMA NextTypes == TypeOK /\ [Next]_vars => TypeOK'
<1> SUFFICES ASSUME TypeOK, [Next]_vars PROVE TypeOK'
  OBVIOUS
<1>1. CASE UNCHANGED vars
  BY <1>1 DEF TypeOK, vars, world, network, inputs
<1>2. CASE Next
  BY <1>2, BeginTypes, StepTypes, KillTypes, ServerTypes, OthersTypes DEF Next
<1>3. QED
  BY <1>1, <1>2

\* The state of the invocations, of the world they read and of the requests
\* under way has its types, and an invocation past its reading of the profile
\* holds one.
THEOREM RunTypes == Spec => []TypeOK
BY InitTypes, NextTypes, PTL DEF Spec

------------------------------------------------------------------------------
(* What invocations have the right to do.  The invariant follows a request  *)
(* from the step that lets it be sent to its effect: up to there its        *)
(* invocation's inputs are frozen, whatever becomes of the invocation.      *)

Past == {"waiting", "done", "dead"}
Refused == {"usage", "config", "confirmation"}

RecordOf(p) == [by |-> p, account |-> profile[p].account,
                operation |-> cmd[p].operation, value |-> value[p]]

\* A plan that was issued allows what p does, and still did when p was let through.
Approved(p) ==
    \E x \in plans : /\ x.digest = cmd[p].confirm
                     /\ x.digest.profile = cmd[p].profile
                     /\ x.digest.operation = cmd[p].operation
                     /\ x.digest.parameters = SafeParameters(p)
                     /\ granted[p] <= x.digest.expires

GrantInv(p) ==
    /\ granted[p] # NoTime => pc[p] \in {"send"} \cup Past /\ Approved(p)
    /\ pc[p] \in {"send", "waiting"} => ~cmd[p].dryRun /\ (Risky(p) => granted[p] # NoTime)
    /\ pc[p] # "idle" /\ cmd[p].confirm # NoDigest => \E x \in plans : x.digest = cmd[p].confirm

AnswerInv(p) ==
    /\ answers[p] # "none" => pc[p] \in Past /\ \A r \in requests : r.by # p
    /\ answers[p] = "ok" /\ cmd[p].operation \notin ReadOperations => RecordOf(p) \in effects
    /\ result[p] # "none" => pc[p] = "done"
    /\ result[p] = "ok" => cmd[p].dryRun \/ answers[p] = "ok"

SentInv(r) ==
    /\ pc[r.by] \in Past
    /\ r = RecordOf(r.by)
    /\ ~cmd[r.by].dryRun
    /\ Risky(r.by) => granted[r.by] # NoTime
    /\ result[r.by] \notin Refused

Inv == /\ TypeOK
       /\ \A p \in Procs : GrantInv(p) /\ AnswerInv(p)
       /\ \A r \in requests \cup effects : SentInv(r)

\* A process whose own state does not change keeps its rights: plans are never
\* withdrawn.
LEMMA Unaffected ==
    ASSUME NEW q \in Procs, UNCHANGED cmd, plans \subseteq plans',
           pc'[q] = pc[q], value'[q] = value[q], listing'[q] = listing[q],
           granted'[q] = granted[q], GrantInv(q)
    PROVE  GrantInv(q)'
BY DEF GrantInv, Approved, SafeParameters, Risky

\* The steps of one process that do not touch the network.
LEMMA LocalInv ==
    ASSUME Inv, TypeOK', NEW p \in Procs, UNCHANGED <<network, cmd>>, plans \subseteq plans',
           \A q \in Procs \ {p} :
               /\ pc'[q] = pc[q] /\ result'[q] = result[q] /\ granted'[q] = granted[q]
               /\ profile'[q] = profile[q] /\ value'[q] = value[q] /\ listing'[q] = listing[q],
           GrantInv(p)', AnswerInv(p)',
           pc[p] \in Past => /\ pc'[p] \in Past /\ result'[p] \notin Refused
                             /\ granted'[p] = granted[p]
                             /\ profile'[p] = profile[p] /\ value'[p] = value[p]
    PROVE  Inv'
<1>1. ASSUME NEW q \in Procs PROVE GrantInv(q)' /\ AnswerInv(q)'
  <2>1. CASE q = p
    BY <2>1
  <2>2. CASE q # p
    <3>1. GrantInv(q)'
      BY <2>2, Unaffected DEF Inv
    <3>2. AnswerInv(q)'
      BY <2>2 DEF Inv, AnswerInv, RecordOf, network
    <3>3. QED
      BY <3>1, <3>2
  <2>3. QED
    BY <2>1, <2>2
<1>2. ASSUME NEW r \in (requests \cup effects)' PROVE SentInv(r)'
  <2>1. r \in requests \cup effects /\ SentInv(r)
    BY DEF network, Inv
  <2>2. r.by \in Procs
    BY <2>1 DEF Inv, TypeOK, Requests, Effects
  <2>3. QED
    BY <2>1, <2>2 DEF SentInv, RecordOf, Risky
<1>3. QED
  BY <1>1, <1>2 DEF Inv

\* A process that has read its inputs but sent nothing has no rights and no answer.
LEMMA Early ==
    ASSUME Inv, NEW p \in Procs, pc[p] \notin Past
    PROVE  /\ pc[p] # "send" => granted[p] = NoTime
           /\ answers[p] = "none" /\ result[p] = "none"
           /\ \A r \in requests \cup effects : r.by # p
BY DEF Inv, GrantInv, AnswerInv, SentInv, Past

\* The steps that read inputs, and their failures.
LEMMA ReadingInv ==
    ASSUME Inv, NEW p \in Procs,
           \/ GetProfile(p) \/ ReadKey(p) \/ ReadContent(p) \/ Preflight(p) \/ InputFails(p)
    PROVE  Inv'
<1>1. TypeOK'
  BY StepTypes DEF Inv, Step
<1>2. pc[p] \in {"profile", "key", "content", "preflight"}
  BY DEF GetProfile, ReadKey, ReadContent, Preflight, InputFails
<1>3. UNCHANGED <<network, cmd, plans, granted>>
  BY DEF GetProfile, ReadKey, ReadContent, Preflight, InputFails
<1>4. granted[p] = NoTime /\ answers[p] = "none" /\ result[p] = "none"
  BY <1>2, Early DEF Past
<1>5. PICK label \in {"key", "content", "preflight", "decide", "done"} : Goto(p, label)
  BY DEF GetProfile, ReadKey, ReadContent, Preflight, InputFails, Proceed, Return
<1>6. \/ UNCHANGED result
      \/ \E s \in Results \ {"none", "ok"} : Return(p, s)
  <2>1. CASE InputFails(p)
    <3>1. PICK s \in {"usage", "config", "transport", "uapi", "internal"} : Return(p, s)
      BY <2>1 DEF InputFails
    <3>2. QED
      BY <3>1 DEF Results, Answers
  <2>2. CASE ~InputFails(p)
    <3>1. UNCHANGED result \/ Return(p, "config")
      BY <2>2 DEF GetProfile, ReadKey, ReadContent, Preflight, Proceed
    <3>2. QED
      BY <3>1 DEF Results, Answers
  <2>3. QED
    BY <2>1, <2>2
<1>7. pc'[p] = label /\ \A q \in Procs \ {p} : pc'[q] = pc[q]
  BY <1>5 DEF Goto, Inv, TypeOK
<1>8. result'[p] # "ok" /\ \A q \in Procs \ {p} : result'[q] = result[q]
  BY <1>4, <1>6 DEF Return, Inv, TypeOK
<1>9. result'[p] # "none" => pc'[p] = "done"
  BY <1>4, <1>6 DEF Return, Goto, Inv, TypeOK
<1>10. GrantInv(p)'
  BY <1>2, <1>3, <1>4, <1>7 DEF GrantInv, Inv
<1>11. AnswerInv(p)'
  BY <1>3, <1>4, <1>8, <1>9 DEF AnswerInv, network
<1>12. \A q \in Procs \ {p} :
          profile'[q] = profile[q] /\ value'[q] = value[q] /\ listing'[q] = listing[q]
  BY DEF GetProfile, ReadKey, ReadContent, Preflight, InputFails, inputs, Inv, TypeOK
<1>13. QED
  BY <1>1, <1>2, <1>3, <1>7, <1>8, <1>10, <1>11, <1>12, LocalInv DEF Past

LEMMA DryRunInv ==
    ASSUME Inv, NEW p \in Procs, DryRun(p)
    PROVE  Inv'
<1>1. TypeOK'
  BY StepTypes DEF Inv, Step
<1>2. granted[p] = NoTime /\ answers[p] = "none" /\ result[p] = "none"
  BY Early DEF DryRun, Past
<1>3. UNCHANGED <<network, cmd, inputs, granted>> /\ plans \subseteq plans'
  BY DEF DryRun
<1>4. /\ pc'[p] = "done" /\ result'[p] = "ok"
      /\ \A q \in Procs \ {p} : pc'[q] = pc[q] /\ result'[q] = result[q]
  BY DEF DryRun, Return, Goto, Inv, TypeOK
<1>5. GrantInv(p)'
  BY <1>2, <1>3, <1>4 DEF DryRun, GrantInv, Inv
<1>6. AnswerInv(p)'
  BY <1>2, <1>3, <1>4 DEF DryRun, AnswerInv, network
<1>7. QED
  BY <1>1, <1>3, <1>4, <1>5, <1>6, LocalInv DEF DryRun, Past, inputs

\* The digest given is one that was issued, and verification ties it to the
\* command, the inputs and the clock.
LEMMA AuthoriseInv ==
    ASSUME Inv, NEW p \in Procs, Authorise(p)
    PROVE  Inv'
<1>1. TypeOK'
  BY StepTypes DEF Inv, Step
<1>2. granted[p] = NoTime /\ answers[p] = "none" /\ result[p] = "none"
  BY Early DEF Authorise, Past
<1>3. UNCHANGED <<network, cmd, inputs, plans>>
  BY DEF Authorise
<1>4. /\ pc'[p] \in {"send", "done"} /\ result'[p] # "ok"
      /\ result'[p] # "none" => pc'[p] = "done"
      /\ \A q \in Procs \ {p} :
            pc'[q] = pc[q] /\ result'[q] = result[q] /\ granted'[q] = granted[q]
  BY <1>2 DEF Authorise, Proceed, Return, Goto, Inv, TypeOK
<1>5. AnswerInv(p)'
  BY <1>2, <1>3, <1>4 DEF AnswerInv, network
<1>6. CASE Risky(p) /\ Confirmed(p)
  <2>1. /\ cmd[p].confirm = Sign(key[p], cmd[p].profile, cmd[p].operation,
                                 SafeParameters(p), cmd[p].expires)
        /\ cmd[p].confirm # NoDigest /\ clock <= cmd[p].expires
    BY <1>6 DEF Confirmed, Verify
  <2>2. PICK x \in plans : x.digest = cmd[p].confirm
    BY <2>1 DEF Authorise, Inv, GrantInv
  <2>3. granted'[p] = clock /\ pc'[p] = "send"
    BY <1>6 DEF Authorise, Proceed, Goto, Inv, TypeOK
  <2>4. Approved(p)'
    BY <1>3, <2>1, <2>2, <2>3 DEF Approved, Sign, SafeParameters, inputs
  <2>5. clock # NoTime
    BY RunAssumption DEF Inv, TypeOK
  <2>6. ~cmd'[p].dryRun /\ \E y \in plans' : y.digest = cmd'[p].confirm
    BY <1>3, <2>2 DEF Authorise
  <2>7. GrantInv(p)'
    BY <2>3, <2>4, <2>5, <2>6 DEF GrantInv
  <2>8. QED
    BY <1>1, <1>3, <1>4, <1>5, <2>7, LocalInv DEF Authorise, Past, inputs
<1>7. CASE ~(Risky(p) /\ Confirmed(p))
  <2>1. granted' = granted
    BY <1>7 DEF Authorise
  <2>2. pc'[p] = "send" => ~Risky(p)
    BY <1>7 DEF Authorise, Proceed, Return, Goto, Inv, TypeOK
  <2>3. GrantInv(p)'
    BY <1>2, <1>3, <1>4, <2>1, <2>2 DEF Authorise, GrantInv, Inv, Risky
  <2>4. QED
    BY <1>1, <1>3, <1>4, <1>5, <2>1, <2>3, LocalInv DEF Authorise, Past, inputs
<1>8. QED
  BY <1>6, <1>7

LEMMA RefuseUploadInv ==
    ASSUME Inv, NEW p \in Procs, RefuseUpload(p)
    PROVE  Inv'
<1>1. TypeOK'
  BY StepTypes DEF Inv, Step
<1>2. answers[p] = "none"
  BY Early DEF RefuseUpload, Past
<1>3. UNCHANGED <<network, cmd, inputs, granted, plans>>
  BY DEF RefuseUpload
<1>4. /\ pc'[p] = "done" /\ result'[p] = "usage"
      /\ \A q \in Procs \ {p} : pc'[q] = pc[q] /\ result'[q] = result[q]
  BY DEF RefuseUpload, Return, Goto, Inv, TypeOK
<1>5. GrantInv(p)'
  BY <1>3, <1>4 DEF RefuseUpload, GrantInv, Approved, SafeParameters, Inv, Past, inputs
<1>6. AnswerInv(p)'
  BY <1>2, <1>3, <1>4 DEF AnswerInv, network
<1>7. QED
  BY <1>1, <1>3, <1>4, <1>5, <1>6, LocalInv DEF RefuseUpload, Past, inputs

\* An answer, the lack of one, and a kill end an invocation without changing
\* what it has sent.
LEMMA EndingInv ==
    ASSUME Inv, TypeOK', NEW p \in Procs, UNCHANGED <<network, cmd, inputs, granted, plans>>,
           NEW r \in Results \ Refused,
           \/ pc[p] = "waiting" /\ Return(p, r) /\ r # "none" /\ (r = "ok" => answers[p] = "ok")
           \/ Kill(p)
    PROVE  Inv'
<1>1. /\ pc[p] \notin {"idle", "done"} /\ pc'[p] \in {"done", "dead"}
      /\ \A q \in Procs \ {p} : pc'[q] = pc[q] /\ result'[q] = result[q]
  BY DEF Return, Goto, Kill, Inv, TypeOK
<1>2. /\ result'[p] \notin Refused
      /\ result'[p] # "none" => pc'[p] = "done"
      /\ result'[p] = "ok" => answers[p] = "ok"
  BY <1>1 DEF Return, Goto, Kill, Inv, TypeOK, AnswerInv, Refused
<1>3. GrantInv(p)'
  BY <1>1 DEF GrantInv, Approved, SafeParameters, Inv, Past, inputs
<1>4. AnswerInv(p)'
  BY <1>1, <1>2 DEF AnswerInv, RecordOf, Inv, Past, network, inputs
<1>5. QED
  BY <1>1, <1>2, <1>3, <1>4, LocalInv DEF Past, inputs

LEMMA ReceiveInv ==
    ASSUME Inv, NEW p \in Procs, Receive(p) \/ GiveUp(p)
    PROVE  Inv'
<1>1. TypeOK'
  BY StepTypes DEF Inv, Step
<1>2. PICK r \in {"ok", "uapi", "internal", "transport"} :
         /\ Return(p, r)
         /\ r = "ok" => answers[p] = "ok"
  <2>1. CASE Receive(p)
    <3>1. answers[p] \in {"ok", "uapi"}
      BY <2>1 DEF Receive, Inv, TypeOK, Answers
    <3>2. QED
      BY <2>1, <3>1 DEF Receive
  <2>2. CASE GiveUp(p)
    BY <2>2 DEF GiveUp
  <2>3. QED
    BY <2>1, <2>2
<1>3. r \in Results \ Refused /\ r # "none"
  BY DEF Results, Answers, Refused
<1>4. pc[p] = "waiting" /\ UNCHANGED <<network, cmd, inputs, granted, plans>>
  BY DEF Receive, GiveUp
<1>5. QED
  BY <1>1, <1>2, <1>3, <1>4, EndingInv

\* From here on the request speaks for the invocation: its inputs are frozen.
LEMMA SendInv ==
    ASSUME Inv, NEW p \in Procs, Send(p)
    PROVE  Inv'
<1>1. TypeOK'
  BY StepTypes DEF Inv, Step
<1>2. /\ pc[p] = "send" /\ requests' = requests \cup {RecordOf(p)}
      /\ UNCHANGED <<answers, effects, cmd, inputs, granted, result, plans>>
  BY DEF Send, RecordOf, Proceed
<1>3. pc'[p] = "waiting" /\ \A q \in Procs \ {p} : pc'[q] = pc[q]
  BY DEF Send, Proceed, Goto, Inv, TypeOK
<1>4. answers[p] = "none" /\ result[p] = "none"
  BY <1>2, Early DEF Past
<1>5. ASSUME NEW q \in Procs PROVE GrantInv(q)'
  <2>1. CASE q = p
    BY <1>2, <1>3, <2>1 DEF GrantInv, Approved, SafeParameters, Risky, Inv, Past, inputs
  <2>2. CASE q # p
    BY <1>2, <1>3, <2>2, Unaffected DEF Inv, inputs
  <2>3. QED
    BY <2>1, <2>2
<1>6. RecordOf(p).by = p
  BY DEF RecordOf
<1>7. ASSUME NEW q \in Procs PROVE AnswerInv(q)'
  <2>1. CASE q = p
    BY <1>2, <1>4, <2>1 DEF AnswerInv
  <2>2. CASE q # p
    BY <1>2, <1>3, <1>6, <2>2 DEF AnswerInv, RecordOf, Inv, inputs
  <2>3. QED
    BY <2>1, <2>2
<1>8. ASSUME NEW r \in (requests \cup effects)' PROVE SentInv(r)'
  <2>1. CASE r = RecordOf(p)
    BY <1>2, <1>3, <1>4, <1>6, <2>1
       DEF SentInv, RecordOf, Risky, GrantInv, Inv, Past, Refused, inputs
  <2>2. CASE r \in requests \cup effects
    <3>1. SentInv(r) /\ r.by # p /\ r.by \in Procs
      BY <1>2, <2>2, Early DEF Inv, Past, TypeOK, Requests, Effects
    <3>2. QED
      BY <1>2, <1>3, <3>1 DEF SentInv, RecordOf, Risky, inputs
  <2>3. QED
    BY <1>2, <2>1, <2>2
<1>9. QED
  BY <1>1, <1>5, <1>7, <1>8 DEF Inv

LEMMA BeginInv ==
    ASSUME Inv, NEW p \in Procs, Begin(p)
    PROVE  Inv'
<1>1. TypeOK'
  BY BeginTypes DEF Inv
<1>2. pc[p] = "idle" /\ UNCHANGED <<network, inputs, granted, result, plans>>
  BY DEF Begin
<1>3. /\ pc'[p] = "profile" /\ \A q \in Procs \ {p} : pc'[q] = pc[q] /\ cmd'[q] = cmd[q]
  BY DEF Begin, Goto, Inv, TypeOK
<1>4. granted[p] = NoTime /\ answers[p] = "none" /\ result[p] = "none"
  BY <1>2, Early DEF Past
<1>5. cmd'[p].confirm # NoDigest => \E x \in plans : x.digest = cmd'[p].confirm
  <2>1. PICK n \in Names, op \in Ops, v \in Values, dry \in BOOLEAN,
             d \in {x.digest : x \in plans} \cup {NoDigest},
             t \in {x.digest.expires : x \in plans} \cup {NoTime} :
           cmd' = [cmd EXCEPT ![p] = [profile |-> n, operation |-> op, value |-> v,
                                      dryRun |-> dry, confirm |-> d, expires |-> t]]
    BY DEF Begin
  <2>2. cmd'[p].confirm = d
    BY <2>1 DEF Inv, TypeOK
  <2>3. QED
    BY <2>2
<1>6. ASSUME NEW q \in Procs PROVE GrantInv(q)' /\ AnswerInv(q)'
  <2>1. CASE q = p
    BY <1>2, <1>3, <1>4, <1>5, <2>1 DEF GrantInv, AnswerInv, network
  <2>2. CASE q # p
    BY <1>2, <1>3, <2>2 DEF GrantInv, AnswerInv, Approved, SafeParameters, Risky, RecordOf,
                            Inv, network, inputs
  <2>3. QED
    BY <2>1, <2>2
<1>7. ASSUME NEW r \in (requests \cup effects)' PROVE SentInv(r)'
  <2>1. r \in requests \cup effects /\ SentInv(r) /\ r.by # p /\ r.by \in Procs
    BY <1>2, Early DEF Inv, Past, TypeOK, Requests, Effects, network
  <2>2. QED
    BY <1>2, <1>3, <2>1 DEF SentInv, RecordOf, Risky, inputs
<1>8. QED
  BY <1>1, <1>6, <1>7 DEF Inv

\* The server acts on what was sent, whenever it does.
LEMMA ServerInv ==
    ASSUME Inv, NEW r \in requests, Execute(r) \/ Drop(r)
    PROVE  Inv'
<1>1. TypeOK'
  BY ServerTypes DEF Inv
<1>2. UNCHANGED <<cmd, pc, inputs, granted, result, plans>>
  BY DEF Execute, Drop
<1>3. r.by \in Procs /\ SentInv(r)
  BY DEF Inv, TypeOK, Requests
<1>4. /\ requests' = requests \ {r}
      /\ effects \subseteq effects' /\ effects' \subseteq effects \cup {r}
      /\ \A q \in Procs : q # r.by => answers'[q] = answers[q]
  BY <1>3 DEF Execute, Drop, Inv, TypeOK
<1>5. answers'[r.by] = "ok" => r \in effects' \/ r.operation \in ReadOperations
  <2>1. CASE Execute(r)
    BY <2>1 DEF Execute, Mutates
  <2>2. CASE Drop(r)
    BY <1>3, <2>2 DEF Drop, Inv, TypeOK, AnswerInv
  <2>3. QED
    BY <2>1, <2>2
<1>6. r = RecordOf(r.by) /\ r.operation = cmd[r.by].operation
  BY <1>3 DEF SentInv, RecordOf
<1>7. ASSUME NEW q \in Procs PROVE GrantInv(q)'
  BY <1>2, Unaffected DEF Inv, inputs
<1>8. ASSUME NEW s \in requests, s.by = r.by PROVE s = r
  BY <1>6, <1>8 DEF Inv, SentInv
<1>9. ASSUME NEW q \in Procs PROVE AnswerInv(q)'
  <2>1. CASE q = r.by
    <3>1. \A s \in requests' : s.by # q
      BY <1>4, <1>8, <2>1
    <3>2. answers'[q] = "ok" /\ cmd[q].operation \notin ReadOperations => RecordOf(q)' \in effects'
      BY <1>2, <1>5, <1>6, <2>1 DEF RecordOf, inputs
    <3>3. result[q] # "ok"
      BY <1>3, <2>1 DEF Inv, AnswerInv, SentInv
    <3>4. QED
      BY <1>2, <1>3, <2>1, <3>1, <3>2, <3>3 DEF AnswerInv, Inv, SentInv
  <2>2. CASE q # r.by
    BY <1>2, <1>4, <2>2 DEF AnswerInv, RecordOf, Inv, inputs
  <2>3. QED
    BY <2>1, <2>2
<1>10. ASSUME NEW s \in (requests \cup effects)' PROVE SentInv(s)'
  <2>1. s \in requests \cup effects /\ SentInv(s)
    BY <1>4 DEF Inv
  <2>2. QED
    BY <1>2, <2>1 DEF SentInv, RecordOf, Risky, inputs
<1>11. QED
  BY <1>1, <1>7, <1>9, <1>10 DEF Inv

\* No change of the world outside touches what was granted or sent.
LEMMA OthersInv ==
    ASSUME Inv, Tick \/ EditProfiles \/ PromoteKey \/ EditSource \/ EditRemote
    PROVE  Inv'
<1>1. TypeOK'
  BY OthersTypes DEF Inv
<1>2. UNCHANGED <<network, cmd, pc, inputs, granted, result, plans>>
  BY DEF Tick, EditProfiles, PromoteKey, EditSource, EditRemote
<1>3. QED
  BY <1>1, <1>2 DEF Inv, GrantInv, AnswerInv, SentInv, Approved, SafeParameters, Risky,
                    RecordOf, network, inputs

LEMMA InitInv == Init => Inv
BY InitTypes DEF Init, Inv, GrantInv, AnswerInv

LEMMA NextInv == Inv /\ [Next]_vars => Inv'
<1> SUFFICES ASSUME Inv, [Next]_vars PROVE Inv'
  OBVIOUS
<1>1. TypeOK'
  BY NextTypes DEF Inv
<1>2. CASE UNCHANGED vars
  BY <1>1, <1>2 DEF Inv, GrantInv, AnswerInv, SentInv, Approved, SafeParameters, Risky,
                    RecordOf, vars, network, inputs
<1>3. ASSUME NEW p \in Procs, Step(p) PROVE Inv'
  BY <1>3, ReadingInv, DryRunInv, AuthoriseInv, RefuseUploadInv, SendInv, ReceiveInv DEF Step
<1>4. ASSUME NEW p \in Procs, Kill(p) PROVE Inv'
  <2>1. "uapi" \in Results \ Refused
    BY DEF Results, Answers, Refused
  <2>2. QED
    BY <1>1, <1>4, <2>1, EndingInv DEF Kill
<1>5. CASE Next
  BY <1>3, <1>4, <1>5, BeginInv, ServerInv, OthersInv DEF Next
<1>6. QED
  BY <1>2, <1>5

LEMMA InvHolds == Spec => []Inv
BY InitInv, NextInv, PTL DEF Spec

\* Every destructive effect, however late it lands and whatever changed since,
\* was shown in a plan that its invocation confirmed in time: same profile name,
\* operation, content and target state.
THEOREM DestructionIsPlanned == Spec => []EffectsWerePlanned
<1>1. Inv => EffectsWerePlanned
  <2> SUFFICES ASSUME Inv, NEW e \in effects, Destructive(e)
               PROVE  \E x \in plans :
                        /\ PlanOf(e, x)
                        /\ x.digest.profile = cmd[e.by].profile
                        /\ x.digest.operation = e.operation
                        /\ x.digest.parameters = [value |-> e.value,
                                                  preflight |-> SafeParameters(e.by).preflight]
                        /\ granted[e.by] <= x.digest.expires
    BY DEF EffectsWerePlanned
  <2>1. SentInv(e) /\ e.by \in Procs
    BY DEF Inv, TypeOK, Effects
  <2>2. e.operation = cmd[e.by].operation /\ e.value = value[e.by]
    BY <2>1 DEF SentInv, RecordOf
  <2>3. Approved(e.by)
    BY <2>1, <2>2 DEF SentInv, Risky, Destructive, Inv, GrantInv
  <2>4. QED
    BY <2>2, <2>3 DEF Approved, SafeParameters, PlanOf
<1>2. QED
  BY <1>1, InvHolds, PTL

\* A dry run never has an effect, for mutations of any risk.
THEOREM DryRunsAreDry == Spec => []DryRunsHaveNoEffect
<1>1. Inv => DryRunsHaveNoEffect
  BY DEF Inv, SentInv, DryRunsHaveNoEffect
<1>2. QED
  BY <1>1, InvHolds, PTL

\* An invocation that reports a refusal has sent nothing and will not.
THEOREM RefusalsAreClean == Spec => []RefusalsHaveNoEffect
<1>1. Inv => RefusalsHaveNoEffect
  BY DEF Inv, SentInv, Refused, RefusalsHaveNoEffect
<1>2. QED
  BY <1>1, InvHolds, PTL

\* A mutation that is reported as done was done, with the account and content
\* that the invocation loaded.
THEOREM SuccessIsReal == Spec => []SuccessHasEffect
<1>1. Inv => SuccessHasEffect
  BY DEF Inv, AnswerInv, RecordOf, SuccessHasEffect
<1>2. QED
  BY <1>1, InvHolds, PTL
==============================================================================
