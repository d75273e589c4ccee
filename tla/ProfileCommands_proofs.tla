----------------------- MODULE ProfileCommands_proofs -----------------------
(***************************************************************************)
(* Proofs about ProfileCommands: an operator who runs one command at a     *)
(* time loses no token to a rotation and removes what a plan has shown,    *)
(* for any number of invocations, names, accounts, keys and faults.        *)
(***************************************************************************)
EXTENDS ProfileCommands, ProfileStore_proofs

------------------------------------------------------------------------------
(* The invariant.                                                           *)

Stages == {"idle", "get", "verify", "store", "done"}
Views == [name : Names, public : {Public[a] : a \in Accounts}]
Digests == [key : Keys, profile : Names, operation : {"profiles.remove"},
            parameters : Views, expires : Nat]
Plans == [expires : Nat, digest : Digests]
Invocations ==
    [stage : Stages, cmd : Commands \cup {NoCommand}, dry : BOOLEAN,
     confirm : Digests \cup {NoDigest}, expires : Nat \cup {NoTime},
     key : Keys \cup {NoCommand}, shown : Views \cup {NoProfile}, verified : Nat \cup {NoTime},
     result : {"none", "ok", "config", "confirmation"}]

CliTypes ==
    /\ cli \in [Procs -> Invocations]
    /\ plans \subseteq Plans
    /\ active \in Keys
    /\ held \subseteq Keys
    /\ clock \in Nat
    /\ reverted \in BOOLEAN

\* An invocation that the operator waits for, or has not drawn the consequence of.
Busy(p) == Running(p) \/ cli[p].stage \in {"get", "verify"} \/ Rotated(p)

OneIsBusy == \A p, q \in Procs : Busy(p) /\ Busy(q) => p = q

\* How the stage of an invocation and the method of the store that it runs go together.
Staged(p) ==
    /\ cli[p].stage \in {"idle", "get", "verify"} => pc[p] = "idle"
    /\ cli[p].stage = "done" => ~Running(p)
    /\ cli[p].stage = "store" => pc[p] # "idle" /\ cmd[p] \in Commands
    /\ cli[p].stage \in {"get", "verify"} =>
         cli[p].cmd \in Commands /\ cli[p].cmd.op = "remove"

\* A busy invocation has the operator's key, and a rotation the new one as well.
UsesKeys(p) ==
    Busy(p) =>
        /\ cli[p].key = active
        /\ cli[p].stage = "store" =>
             /\ cmd[p].op \in {"add", "rotate"} => cmd[p].key = active
             /\ cmd[p].op = "rotate" => cmd[p].newKey \in held

\* While a rotation waits for its promotion, the store is under the new key.
RotationIsDone == ~reverted => \A p \in Procs : Rotated(p) => UnderKey(live, cmd[p].newKey)

TokensAreHeld ==
    /\ active \in held
    /\ ~reverted => \A n \in Names : live[n] # NoProfile => live[n].key \in held

\* Without a fault the store is under the active key, but between the replace of a
\* rotation and its promotion.
Moving(p) == (pc[p] = "chmod" /\ cmd[p].op = "rotate") \/ Rotated(p)
StoreIsCurrent ==
    /\ reverted => faults # 0
    /\ faults = 0 => UnderKey(live, active) \/ \E p \in Procs : Moving(p)

PlansAreMadeOut == \A plan \in plans : plan.expires = plan.digest.expires

\* A removal shows what is there, confirms no digest but one it was given, and runs
\* on what is there still as long as it has not replaced the store.
ShowsTheStore(p) ==
    /\ cli[p].confirm # NoDigest => \E plan \in plans : plan.digest = cli[p].confirm
    /\ cli[p].stage = "verify" =>
         LET name == cli[p].cmd.name
         IN  Found(name) /\ cli[p].shown = PublicDict(name, live[name])

Approved(p) ==
    \E plan \in plans :
        /\ plan.digest = Sign(active, cmd[p].name, "profiles.remove",
                              PublicDict(cmd[p].name, live[cmd[p].name]), plan.expires)
        /\ cli[p].verified <= plan.expires

RemovalsAreApproved ==
    \A p \in Procs : Running(p) /\ pc[p] # "chmod" /\ cmd[p].op = "remove" => Approved(p)

CliInv ==
    /\ SerialInv /\ CliTypes /\ OneIsBusy
    /\ \A p \in Procs : Staged(p) /\ UsesKeys(p) /\ ShowsTheStore(p)
    /\ RotationIsDone /\ TokensAreHeld /\ StoreIsCurrent
    /\ PlansAreMadeOut /\ RemovalsAreApproved

LEMMA CliInitInv == CliInit => CliInv
<1> SUFFICES ASSUME CliInit PROVE CliInv
  OBVIOUS
<1>1. SerialInv
  BY SerialInit DEF CliInit
<1>2. \A p \in Procs : cli[p] = Idle /\ pc[p] = "idle"
  BY DEF CliInit, Init
<1>3. CliTypes
  BY DEF CliInit, CliTypes, Invocations, Idle, Stages
<1>4. \A p \in Procs : ~Busy(p)
  BY <1>2 DEF Busy, Running, Rotated, Idle
<1>5. \A p \in Procs : Staged(p) /\ UsesKeys(p) /\ ShowsTheStore(p)
  BY <1>2, <1>4 DEF Staged, UsesKeys, ShowsTheStore, Idle
<1>6. \A n \in Names : live[n] = NoProfile
  BY DEF CliInit, Init, EmptyStore
<1>7. QED
  BY <1>1, <1>2, <1>3, <1>4, <1>5, <1>6
     DEF CliInv, CliInit, OneIsBusy, RotationIsDone, TokensAreHeld, StoreIsCurrent, UnderKey,
         Present, PlansAreMadeOut, RemovalsAreApproved, Busy

\* What a step of a method changes, as its caller sees it.
LEMMA MethodStep ==
    ASSUME SerialInv, NEW p \in Procs, Step(p)
    PROVE  /\ Running(p) /\ cmd' = cmd /\ cmd[p] \in Commands
           /\ \A q \in Procs : q # p => pc'[q] = pc[q] /\ result'[q] = result[q]
           /\ pc'[p] # "idle"
           /\ faults \in Nat /\ faults' \in Nat /\ faults' >= faults
           /\ ~Replace(p) => live' = live /\ pc'[p] # "chmod"
           /\ pc[p] = "chmod" => (faults' >= 1 /\ pc'[p] \in {"done", "dead"})
                                  \/ (pc'[p] = "done" /\ result'[p] = "ok")
           /\ cmd[p].op = "rotate" /\ pc'[p] = "done" /\ result'[p] = "ok" => pc[p] = "chmod"
<1> USE StoreAssumption
    DEF SerialInv, Inv, TypeOK, Labels, Goto, Return, Refuse, Keep, Fault, disk, Running, Prepared
<1>1. CASE Get(p) \/ LoadFails(p)
  BY <1>1 DEF Get, LoadFails
<1>2. CASE AddLoad(p) \/ RemoveLoad(p) \/ RotateLoad(p)
  BY <1>2 DEF AddLoad, RemoveLoad, RotateLoad
<1>3. CASE CreateTemp(p) \/ Dump(p) \/ Sync(p)
  BY <1>3 DEF CreateTemp, Dump, Sync
<1>4. CASE CreateFails(p)
  BY <1>4 DEF CreateFails
<1>5. CASE Replace(p)
  BY <1>5 DEF Replace
<1>6. CASE Chmod(p)
  BY <1>6 DEF Chmod
<1>7. CASE WriteFails(p)
  BY <1>7 DEF WriteFails
<1>8. CASE Cleanup(p)
  BY <1>8 DEF Cleanup
<1>9. CASE Kill(p)
  BY <1>9 DEF Kill
<1>10. QED
  BY <1>1, <1>2, <1>3, <1>4, <1>5, <1>6, <1>7, <1>8, <1>9 DEF Step

LEMMA StepIsSerial == ASSUME SerialInv, NEW p \in Procs, Step(p) PROVE SerialInv'
BY SerialNextInv DEF SerialNext

\* Nobody but p is busy while p is.
LEMMA OthersAreIdle ==
    ASSUME CliInv, NEW p \in Procs, Busy(p)
    PROVE  \A q \in Procs : q # p => ~Busy(q) /\ ~Running(q) /\ ~Rotated(q)
BY DEF CliInv, OneIsBusy, Busy

\* What a replace puts in the store: tokens under keys the operator has, all of them
\* under the new key after a rotation, and under the old one after anything else if
\* they were before.
LEMMA ReplaceKeepsKeys ==
    ASSUME CliInv, NEW p \in Procs, Replace(p), cli[p].stage = "store"
    PROVE  /\ ~reverted => \A n \in Names : live'[n] # NoProfile => live'[n].key \in held
           /\ cmd[p].op = "rotate" => UnderKey(live', cmd[p].newKey)
           /\ cmd[p].op # "rotate" /\ UnderKey(live, active) => UnderKey(live', active)
<1>1. /\ SerialInv /\ Inv /\ Ready(p) /\ Prepared(p) /\ cmd[p] \in Commands
      /\ live' = value[p] /\ live' \in Images /\ live \in Images /\ Running(p)
  BY ReplaceInv
     DEF CliInv, SerialInv, CopiesAreCurrent, Inv, TypeOK, StoreComplete, Replace, Prepared, Running
<1>2. Busy(p)
  BY <1>1 DEF Busy
<1>3. /\ cmd[p].op \in {"add", "rotate"} => cmd[p].key = active
      /\ cmd[p].op = "rotate" => cmd[p].newKey \in held
      /\ active \in held /\ active \in Keys
      /\ ~reverted => \A n \in Names : live[n] # NoProfile => live[n].key \in held
  BY <1>2 DEF CliInv, UsesKeys, TokensAreHeld, CliTypes
<1>4. CASE cmd[p].op = "add"
  <2>1. /\ cmd[p].name \in Names
        /\ live' = [live EXCEPT ![cmd[p].name] = [account |-> cmd[p].account, key |-> active]]
    BY <1>1, <1>3, <1>4, CommandFields DEF Ready, WithProfile
  <2>2. \A n \in Names : live'[n] = live[n] \/ live'[n].key = active
    BY <1>1, <2>1 DEF Images
  <2>3. QED
    BY <1>3, <1>4, <2>2 DEF UnderKey, Present
<1>5. CASE cmd[p].op = "remove"
  <2>1. \A n \in Names : live'[n] = live[n] \/ live'[n] = NoProfile
    BY <1>1, <1>5 DEF Ready, Images
  <2>2. QED
    BY <1>3, <1>5, <2>1 DEF UnderKey, Present
<1>6. CASE cmd[p].op = "rotate"
  <2>1. UnderKey(live', cmd[p].newKey)
    BY <1>1, <1>6 DEF Prepared
  <2>2. QED
    BY <1>3, <1>6, <2>1 DEF UnderKey, Present
<1>7. QED
  BY <1>1, <1>4, <1>5, <1>6 DEF Prepared

LEMMA StoreInv == ASSUME CliInv, NEW p \in Procs, Store(p) PROVE CliInv'
<1>0. /\ SerialInv /\ SerialInv' /\ Step(p) /\ cli[p].stage = "store" /\ UNCHANGED cliVars
      /\ UNCHANGED <<cli, plans, active, held, clock, reverted>>
  BY StepIsSerial DEF CliInv, Store, cliVars
<1>1. /\ Running(p) /\ cmd' = cmd /\ cmd[p] \in Commands
      /\ \A q \in Procs : q # p => pc'[q] = pc[q] /\ result'[q] = result[q]
      /\ pc'[p] # "idle"
      /\ faults \in Nat /\ faults' \in Nat /\ faults' >= faults
      /\ ~Replace(p) => live' = live /\ pc'[p] # "chmod"
      /\ pc[p] = "chmod" => (faults' >= 1 /\ pc'[p] \in {"done", "dead"})
                             \/ (pc'[p] = "done" /\ result'[p] = "ok")
      /\ cmd[p].op = "rotate" /\ pc'[p] = "done" /\ result'[p] = "ok" => pc[p] = "chmod"
  BY <1>0, MethodStep
<1>2. Busy(p) /\ \A q \in Procs : q # p => ~Busy(q) /\ ~Running(q) /\ ~Rotated(q)
  BY <1>1, OthersAreIdle DEF Busy
<1>3. \A q \in Procs : q # p => ~Busy(q)' /\ ~Running(q)' /\ ~Rotated(q)'
  BY <1>0, <1>1, <1>2 DEF Busy, Running, Rotated
<1>4. CliTypes' /\ PlansAreMadeOut' /\ OneIsBusy'
  BY <1>0, <1>3 DEF CliInv, CliTypes, PlansAreMadeOut, OneIsBusy
<1>5. \A q \in Procs : Staged(q)'
  BY <1>0, <1>1 DEF CliInv, Staged, Running
<1>6. \A q \in Procs : UsesKeys(q)'
  BY <1>0, <1>1, <1>2, <1>3 DEF CliInv, UsesKeys
<1>7. \A q \in Procs : ShowsTheStore(q)'
  BY <1>0, <1>2 DEF CliInv, ShowsTheStore, Busy
<1>8. RotationIsDone'
  <2>1. Rotated(p)' => pc[p] = "chmod" /\ cmd[p].op = "rotate"
    BY <1>1 DEF Rotated
  <2>2. pc[p] = "chmod" => ~Replace(p)
    BY DEF Replace
  <2>3. pc[p] = "chmod" /\ cmd[p].op = "rotate" => UnderKey(live, cmd[p].newKey)
    BY <1>0 DEF SerialInv, WritesAreDone, Achieved
  <2>4. QED
    BY <1>1, <1>3, <2>1, <2>2, <2>3 DEF RotationIsDone
<1>9. TokensAreHeld'
  <2>1. CASE Replace(p)
    BY <1>0, <2>1, ReplaceKeepsKeys DEF CliInv, TokensAreHeld
  <2>2. CASE ~Replace(p)
    BY <1>0, <1>1, <2>2 DEF CliInv, TokensAreHeld
  <2>3. QED
    BY <2>1, <2>2
<1>10. StoreIsCurrent'
  <2> SUFFICES ASSUME faults' = 0, ~Moving(p)' PROVE UnderKey(live', active)
    BY <1>0, <1>1 DEF CliInv, StoreIsCurrent
  <2>1. faults = 0
    BY <1>1
  <2>2. ~Rotated(p)
    BY <1>1 DEF Running, Rotated
  <2>3. \A q \in Procs : q # p => ~Moving(q)
    BY <1>2 DEF Moving, Running
  <2>4. ~(pc[p] = "chmod" /\ cmd[p].op = "rotate")
    BY <1>0, <1>1 DEF Moving, Rotated
  <2>5. UnderKey(live, active)
    BY <2>1, <2>2, <2>3, <2>4 DEF CliInv, StoreIsCurrent, Moving
  <2>6. CASE Replace(p)
    <3>1. pc'[p] = "chmod"
      BY <1>0, <2>6 DEF Replace, Goto, SerialInv, Inv, TypeOK
    <3>2. cmd[p].op # "rotate"
      BY <1>1, <3>1 DEF Moving
    <3>3. QED
      BY <1>0, <2>5, <2>6, <3>2, ReplaceKeepsKeys
  <2>7. CASE ~Replace(p)
    BY <1>1, <2>5, <2>7
  <2>8. QED
    BY <2>6, <2>7
<1>11. RemovalsAreApproved'
  <2> SUFFICES ASSUME Running(p)', pc'[p] # "chmod", cmd[p].op = "remove" PROVE Approved(p)'
    BY <1>1, <1>3 DEF RemovalsAreApproved
  <2>1. ~Replace(p)
    BY <1>0 DEF Replace, Goto, SerialInv, Inv, TypeOK
  <2>2. pc[p] # "chmod"
    BY <1>1 DEF Running
  <2>3. Approved(p)
    BY <1>1, <2>2 DEF CliInv, RemovalsAreApproved
  <2>4. QED
    BY <1>0, <1>1, <2>1, <2>3 DEF Approved
<1>12. QED
  BY <1>0, <1>4, <1>5, <1>6, <1>7, <1>8, <1>9, <1>10, <1>11 DEF CliInv

LEMMA InvokeInv == ASSUME CliInv, NEW p \in Procs, Invoke(p) PROVE CliInv'
<1>0. /\ cli[p].stage = "idle" /\ Alone /\ UNCHANGED <<plans, active, clock, reverted>>
      /\ SerialInv /\ Inv /\ CliTypes /\ pc[p] = "idle" /\ active \in Keys
  BY DEF Invoke, CliInv, CliTypes, Staged, SerialInv
<1>1. \A q \in Procs : ~Busy(q) /\ ~Running(q) /\ ~Rotated(q)
  BY <1>0 DEF Alone, Busy
<1>2. ASSUME NEW c \in Menu,
             /\ c.op \in {"add", "rotate"} => c.key = active
             /\ c.op # "remove"
             /\ Begin(p) /\ cmd'[p] = c
             /\ cli' = [cli EXCEPT ![p] = [Idle EXCEPT !.stage = "store", !.cmd = c, !.key = active]]
             /\ held' = IF c.op = "rotate" THEN held \cup {c.newKey} ELSE held
      PROVE  CliInv'
  <2>1. c \in Commands /\ (c.op = "rotate" => c.newKey \in Keys)
    BY StoreAssumption, CommandFields
  <2>2. SerialInv'
    BY <1>0, <1>1, <1>2, SerialNextInv DEF SerialNext, BeginAlone
  <2>3. /\ pc'[p] \in {"get", "load"} /\ UNCHANGED <<live, faults, result>>
        /\ \A q \in Procs : q # p => pc'[q] = pc[q] /\ cmd'[q] = cmd[q]
    BY <1>0, <1>2 DEF Begin, Goto, disk, Inv, TypeOK
  <2>4. /\ cli'[p] = [Idle EXCEPT !.stage = "store", !.cmd = c, !.key = active]
        /\ cli'[p].stage = "store" /\ cli'[p].key = active /\ cli'[p].confirm = NoDigest
        /\ \A q \in Procs : q # p => cli'[q] = cli[q]
    BY <1>0, <1>2 DEF CliTypes, Idle
  <2>5. CliTypes'
    <3>1. cli'[p] \in Invocations
      BY <1>0, <2>1, <2>4 DEF Invocations, Idle, Stages
    <3>2. QED
      BY <1>0, <1>2, <2>1, <3>1 DEF CliTypes
  <2>6. \A q \in Procs : q # p => ~Busy(q)' /\ ~Running(q)' /\ ~Rotated(q)'
    BY <1>1, <2>3, <2>4 DEF Busy, Running, Rotated
  <2>7. ~Rotated(p)'
    BY <2>3 DEF Rotated
  <2>8. \A q \in Procs : Staged(q)'
    BY <1>2, <2>1, <2>3, <2>4 DEF CliInv, Staged, Running
  <2>9. \A q \in Procs : UsesKeys(q)'
    BY <1>0, <1>2, <2>4, <2>6 DEF UsesKeys
  <2>10. \A q \in Procs : ShowsTheStore(q)'
    <3>1. ShowsTheStore(p)'
      BY <2>4 DEF ShowsTheStore
    <3>2. \A q \in Procs : q # p => ShowsTheStore(q)'
      BY <1>0, <2>3, <2>4 DEF CliInv, ShowsTheStore, Found, Present, PublicDict
    <3>3. QED
      BY <3>1, <3>2
  <2>11. RotationIsDone' /\ OneIsBusy'
    BY <2>6, <2>7 DEF RotationIsDone, OneIsBusy
  <2>12. TokensAreHeld'
    BY <1>0, <1>2, <2>3 DEF CliInv, TokensAreHeld
  <2>13. StoreIsCurrent'
    <3>1. \A q \in Procs : ~Moving(q)
      BY <1>1 DEF Moving, Running
    <3>2. QED
      BY <1>0, <2>3, <3>1 DEF CliInv, StoreIsCurrent
  <2>14. PlansAreMadeOut' /\ RemovalsAreApproved'
    BY <1>0, <1>2, <2>6 DEF CliInv, PlansAreMadeOut, RemovalsAreApproved
  <2>15. QED
    BY <2>2, <2>5, <2>8, <2>9, <2>10, <2>11, <2>12, <2>13, <2>14 DEF CliInv
<1>3. ASSUME NEW c \in Menu, NEW dry \in BOOLEAN, c.op = "remove",
             NEW confirm \in {plan.digest : plan \in plans} \cup {NoDigest},
             NEW expires \in {plan.expires : plan \in plans} \cup {NoTime},
             cli' = [cli EXCEPT ![p] =
                        [Idle EXCEPT !.stage = "get", !.cmd = c, !.dry = dry, !.key = active,
                                     !.confirm = confirm, !.expires = expires]],
             UNCHANGED <<vars, held>>
      PROVE  CliInv'
  <2>1. c \in Commands
    BY StoreAssumption
  <2>2. UNCHANGED <<live, durable, temp, pc, cmd, value, result, faults>>
    BY <1>3 DEF vars
  <2>3. SerialInv'
    BY <1>0, <1>3, SerialNextInv
  <2>4. /\ cli'[p] = [Idle EXCEPT !.stage = "get", !.cmd = c, !.dry = dry, !.key = active,
                                  !.confirm = confirm, !.expires = expires]
        /\ cli'[p].stage = "get" /\ cli'[p].key = active /\ cli'[p].confirm = confirm
        /\ cli'[p].cmd = c
        /\ \A q \in Procs : q # p => cli'[q] = cli[q]
    BY <1>0, <1>3 DEF CliTypes, Idle
  <2>5. CliTypes'
    <3>1. confirm \in Digests \cup {NoDigest} /\ expires \in Nat \cup {NoTime}
      BY <1>0 DEF CliTypes, Plans
    <3>2. cli'[p] \in Invocations
      BY <1>0, <2>1, <2>4, <3>1 DEF Invocations, Idle, Stages
    <3>3. QED
      BY <1>0, <1>3, <3>2 DEF CliTypes
  <2>6. \A q \in Procs : ~Running(q)' /\ ~Rotated(q)' /\ (q # p => ~Busy(q)')
    BY <1>0, <1>1, <2>2, <2>4 DEF Busy, Running, Rotated
  <2>7. \A q \in Procs : Staged(q)'
    BY <1>0, <1>3, <2>1, <2>2, <2>4 DEF CliInv, Staged, Running
  <2>8. \A q \in Procs : UsesKeys(q)'
    BY <1>0, <2>4, <2>6 DEF UsesKeys
  <2>9. \A q \in Procs : ShowsTheStore(q)'
    <3>1. confirm # NoDigest => \E plan \in plans : plan.digest = confirm
      OBVIOUS
    <3>2. ShowsTheStore(p)'
      BY <1>0, <2>4, <3>1 DEF ShowsTheStore
    <3>3. \A q \in Procs : q # p => ShowsTheStore(q)'
      BY <1>0, <2>2, <2>4 DEF CliInv, ShowsTheStore, Found, Present, PublicDict
    <3>4. QED
      BY <3>2, <3>3
  <2>10. RotationIsDone' /\ OneIsBusy' /\ RemovalsAreApproved'
    BY <2>6 DEF RotationIsDone, OneIsBusy, RemovalsAreApproved
  <2>11. TokensAreHeld' /\ PlansAreMadeOut'
    BY <1>0, <1>3, <2>2 DEF CliInv, TokensAreHeld, PlansAreMadeOut
  <2>12. StoreIsCurrent'
    <3>1. \A q \in Procs : ~Moving(q)
      BY <1>1 DEF Moving, Running
    <3>2. QED
      BY <1>0, <2>2, <3>1 DEF CliInv, StoreIsCurrent
  <2>13. QED
    BY <2>3, <2>5, <2>7, <2>8, <2>9, <2>10, <2>11, <2>12 DEF CliInv
<1>4. QED
  BY <1>2, <1>3 DEF Invoke

\* An invocation ends without a further call of the store.
LEMMA EndInv ==
    ASSUME CliInv, NEW p \in Procs, cli[p].stage \in {"get", "verify"},
           NEW r \in {"ok", "config", "confirmation"}, End(p, r),
           plans' \subseteq Plans, plans \subseteq plans', PlansAreMadeOut',
           UNCHANGED <<active, held, clock, reverted>>
    PROVE  CliInv'
<1>1. /\ SerialInv /\ SerialInv' /\ CliTypes /\ cli[p] \in Invocations /\ pc[p] = "idle"
      /\ UNCHANGED <<live, durable, temp, pc, cmd, value, result, faults>>
  BY SerialNextInv DEF CliInv, CliTypes, End, vars, Staged
<1>2. /\ cli'[p] = [cli[p] EXCEPT !.stage = "done", !.result = r]
      /\ \A q \in Procs : q # p => cli'[q] = cli[q]
  <2>1. cli' = [cli EXCEPT ![p] = [cli[p] EXCEPT !.stage = "done", !.result = r]]
    BY <1>1 DEF End, CliTypes, Invocations
  <2>2. QED
    BY <1>1, <2>1 DEF CliTypes
<1>3. cli'[p] \in Invocations /\ cli'[p].stage = "done" /\ cli'[p].confirm = cli[p].confirm
  BY <1>1, <1>2 DEF Invocations, Stages
<1>4. CliTypes'
  BY <1>1, <1>2, <1>3 DEF CliTypes, End
<1>5. \A q \in Procs : Busy(q)' => Busy(q) /\ q # p
  BY <1>1, <1>2, <1>3 DEF Busy, Running, Rotated
<1>6. \A q \in Procs : Staged(q)' /\ UsesKeys(q)'
  <2>1. Staged(p)'
    BY <1>1, <1>3 DEF Staged, Running
  <2>2. \A q \in Procs : q # p => Staged(q)'
    BY <1>1, <1>2 DEF CliInv, Staged, Running
  <2>3. \A q \in Procs : q # p => UsesKeys(q)'
    BY <1>1, <1>2, <1>5 DEF CliInv, UsesKeys
  <2>4. UsesKeys(p)'
    BY <1>5 DEF UsesKeys
  <2>5. QED
    BY <2>1, <2>2, <2>3, <2>4
<1>7. \A q \in Procs : ShowsTheStore(q)'
  <2>1. ShowsTheStore(p)'
    BY <1>3 DEF CliInv, ShowsTheStore
  <2>2. \A q \in Procs : q # p => ShowsTheStore(q)'
    BY <1>1, <1>2 DEF CliInv, ShowsTheStore, Found, Present, PublicDict
  <2>3. QED
    BY <2>1, <2>2
<1>8. \A q \in Procs : Rotated(q)' => Rotated(q)
  BY <1>1, <1>2, <1>3 DEF Rotated
<1>9. OneIsBusy'
  BY <1>5 DEF CliInv, OneIsBusy
<1>a. RotationIsDone'
  BY <1>1, <1>8 DEF CliInv, RotationIsDone, UnderKey, Present
<1>b. TokensAreHeld'
  BY <1>1 DEF CliInv, TokensAreHeld
<1>10. StoreIsCurrent'
  <2>1. \A q \in Procs : Moving(q) => Moving(q)'
    BY <1>1, <1>2 DEF Moving, Rotated
  <2>2. QED
    BY <1>1, <2>1 DEF CliInv, StoreIsCurrent
<1>11. RemovalsAreApproved'
  <2> SUFFICES ASSUME NEW q \in Procs, Running(q), pc[q] # "chmod", cmd[q].op = "remove"
               PROVE  Approved(q)'
    BY <1>1 DEF RemovalsAreApproved, Running
  <2>1. q # p
    BY <1>1 DEF Running
  <2>2. Approved(q)
    BY DEF CliInv, RemovalsAreApproved
  <2>3. QED
    BY <1>1, <1>2, <2>1, <2>2 DEF Approved
<1>12. QED
  BY <1>1, <1>4, <1>6, <1>7, <1>9, <1>a, <1>b, <1>10, <1>11 DEF CliInv

LEMMA PublicIsView ==
    ASSUME CliInv, NEW n \in Names, Found(n)
    PROVE  PublicDict(n, live[n]) \in Views
BY DEF CliInv, SerialInv, Inv, TypeOK, StoreComplete, Found, Present, Images, Profiles,
       PublicDict, Views

LEMMA RemoveGetInv == ASSUME CliInv, NEW p \in Procs, RemoveGet(p) PROVE CliInv'
<1> DEFINE name == cli[p].cmd.name
<1>0. /\ cli[p].stage = "get" /\ UNCHANGED <<plans, active, held, clock, reverted>>
      /\ CliTypes /\ PlansAreMadeOut /\ name \in Names
  BY CommandFields DEF RemoveGet, CliInv, Staged
<1>1. CASE End(p, "config")
  <2>1. PlansAreMadeOut' /\ plans' \subseteq Plans
    BY <1>0 DEF CliTypes, PlansAreMadeOut
  <2>2. QED
    BY <1>0, <1>1, <2>1, EndInv
<1>2. CASE /\ Found(name)
           /\ cli' = [cli EXCEPT ![p].stage = "verify", ![p].shown = PublicDict(name, live[name])]
           /\ UNCHANGED vars
  <2>1. /\ SerialInv /\ SerialInv' /\ cli[p] \in Invocations
        /\ UNCHANGED <<live, durable, temp, pc, cmd, value, result, faults>>
        /\ pc[p] = "idle"
    BY <1>0, <1>2, SerialNextInv DEF CliInv, CliTypes, RemoveGet, vars, Staged
  <2>2. /\ cli'[p] = [cli[p] EXCEPT !.stage = "verify", !.shown = PublicDict(name, live[name])]
        /\ \A q \in Procs : q # p => cli'[q] = cli[q]
    <3>1. cli' = [cli EXCEPT ![p] = [cli[p] EXCEPT !.stage = "verify",
                                                   !.shown = PublicDict(name, live[name])]]
      BY <1>2, <2>1 DEF RemoveGet, Invocations
    <3>2. QED
      BY <1>0, <3>1 DEF CliTypes
  <2>3. /\ cli'[p].stage = "verify" /\ cli'[p].shown = PublicDict(name, live[name])
        /\ cli'[p].cmd = cli[p].cmd /\ cli'[p].confirm = cli[p].confirm /\ cli'[p].key = cli[p].key
        /\ cli'[p] \in Invocations
    <3>1. Found(name) /\ live \in Images
      BY <1>2, <2>1 DEF SerialInv, Inv, TypeOK, Found
    <3>2. QED
      BY <1>0, <2>1, <2>2, <3>1, PublicIsView DEF Invocations, Stages
  <2>4. CliTypes'
    BY <1>0, <1>2, <2>3 DEF CliTypes, RemoveGet
  <2>5. \A q \in Procs : Busy(q)' => Busy(q)
    BY <1>0, <2>1, <2>2 DEF Busy, Running, Rotated
  <2>6. \A q \in Procs : Staged(q)'
    <3>1. Staged(p)'
      BY <1>0, <2>1, <2>3 DEF CliInv, Staged
    <3>2. \A q \in Procs : q # p => Staged(q)'
      BY <1>0, <2>1, <2>2 DEF CliInv, Staged, Running
    <3>3. QED
      BY <3>1, <3>2
  <2>7. \A q \in Procs : UsesKeys(q)'
    BY <1>0, <2>1, <2>2, <2>3, <2>5 DEF CliInv, UsesKeys
  <2>8. \A q \in Procs : ShowsTheStore(q)'
    <3>1. ShowsTheStore(p)'
      BY <1>0, <1>2, <2>1, <2>3 DEF CliInv, ShowsTheStore, Found, Present, PublicDict
    <3>2. \A q \in Procs : q # p => ShowsTheStore(q)'
      BY <1>0, <2>1, <2>2 DEF CliInv, ShowsTheStore, Found, Present, PublicDict
    <3>3. QED
      BY <3>1, <3>2
  <2>9. \A q \in Procs : Rotated(q)' <=> Rotated(q)
    BY <1>0, <2>1, <2>2, <2>3 DEF Rotated
  <2>10. OneIsBusy' /\ RotationIsDone' /\ TokensAreHeld' /\ PlansAreMadeOut'
    BY <1>0, <2>1, <2>5, <2>9
       DEF CliInv, OneIsBusy, RotationIsDone, TokensAreHeld, PlansAreMadeOut, UnderKey, Present
  <2>11. StoreIsCurrent'
    BY <1>0, <2>1, <2>9 DEF CliInv, StoreIsCurrent, Moving, UnderKey, Present
  <2>12. RemovalsAreApproved'
    <3> SUFFICES ASSUME NEW q \in Procs, Running(q), pc[q] # "chmod", cmd[q].op = "remove"
                 PROVE  Approved(q)'
      BY <2>1 DEF RemovalsAreApproved, Running
    <3>1. q # p /\ Approved(q)
      BY <2>1 DEF CliInv, RemovalsAreApproved, Running
    <3>2. QED
      BY <1>0, <2>1, <2>2, <3>1 DEF Approved
  <2>13. QED
    BY <2>1, <2>4, <2>6, <2>7, <2>8, <2>10, <2>11, <2>12 DEF CliInv
<1>3. QED
  BY <1>1, <1>2 DEF RemoveGet

\* A plan is made out for what is shown, under the key of the environment.
LEMMA RemovePlanInv == ASSUME CliInv, NEW p \in Procs, RemovePlan(p) PROVE CliInv'
<1> DEFINE name == cli[p].cmd.name
           plan == Plan(cli[p].key, name, "profiles.remove", cli[p].shown, clock)
<1>1. /\ cli[p].stage = "verify" /\ End(p, "ok") /\ plans' = plans \cup {plan}
      /\ UNCHANGED <<active, held, clock, reverted>>
      /\ CliTypes /\ PlansAreMadeOut /\ name \in Names /\ Found(name)
      /\ cli[p].key = active /\ cli[p].shown = PublicDict(name, live[name])
  BY CommandFields DEF RemovePlan, CliInv, Staged, UsesKeys, ShowsTheStore, Busy
<1>2. plan \in Plans /\ plan.expires = plan.digest.expires
  BY <1>1, PublicIsView, LifetimeAssumption DEF CliTypes, Plans, Digests, Plan, Sign
<1>3. plans' \subseteq Plans /\ PlansAreMadeOut'
  BY <1>1, <1>2 DEF CliTypes, PlansAreMadeOut
<1>4. QED
  BY <1>1, <1>3, EndInv

\* What is verified is what is there, under the key of the operator, in time.
LEMMA RemoveVerifyInv == ASSUME CliInv, NEW p \in Procs, RemoveVerify(p) PROVE CliInv'
<1> DEFINE name == cli[p].cmd.name
           Verified == Verify(cli[p].key, cli[p].confirm, name, "profiles.remove",
                              cli[p].shown, cli[p].expires, clock)
<1>0. /\ cli[p].stage = "verify" /\ UNCHANGED <<plans, active, held, clock, reverted>>
      /\ CliTypes /\ PlansAreMadeOut /\ name \in Names
      /\ cli[p].cmd \in Commands /\ cli[p].cmd.op = "remove" /\ cli[p].key = active
      /\ cli[p].shown = PublicDict(name, live[name])
      /\ pc[p] = "idle" /\ SerialInv /\ Inv /\ Busy(p) /\ cli[p] \in Invocations
  BY CommandFields
     DEF RemoveVerify, CliInv, CliTypes, Staged, UsesKeys, ShowsTheStore, Busy, SerialInv
<1>1. CASE ~Verified
  <2>1. PlansAreMadeOut' /\ plans' \subseteq Plans
    BY <1>0 DEF CliTypes, PlansAreMadeOut
  <2>2. End(p, "confirmation")
    BY <1>1 DEF RemoveVerify
  <2>3. QED
    BY <1>0, <2>1, <2>2, EndInv
<1>2. CASE Verified
  <2>1. /\ Begin(p) /\ cmd'[p] = cli[p].cmd
        /\ cli' = [cli EXCEPT ![p] = [cli[p] EXCEPT !.stage = "store", !.verified = clock]]
    BY <1>0, <1>2 DEF RemoveVerify, Invocations
  <2>2. \A q \in Procs : ~Running(q) /\ ~Rotated(q) /\ (q # p => ~Busy(q))
    BY <1>0, OthersAreIdle DEF Running, Rotated
  <2>3. SerialInv'
    BY <1>0, <2>1, <2>2, SerialNextInv DEF SerialNext, BeginAlone
  <2>4. /\ pc'[p] \in {"get", "load"} /\ UNCHANGED <<live, faults, result>>
        /\ \A q \in Procs : q # p => pc'[q] = pc[q] /\ cmd'[q] = cmd[q]
    BY <1>0, <2>1 DEF Begin, Goto, disk, Inv, TypeOK
  <2>5. /\ cli'[p] = [cli[p] EXCEPT !.stage = "store", !.verified = clock]
        /\ \A q \in Procs : q # p => cli'[q] = cli[q]
    BY <1>0, <2>1 DEF CliTypes
  <2>6. /\ cli'[p].stage = "store" /\ cli'[p].verified = clock
        /\ cli'[p].confirm = cli[p].confirm /\ cli'[p].key = cli[p].key
        /\ cli'[p] \in Invocations
    BY <1>0, <2>5 DEF Invocations, Stages, CliTypes
  <2>7. CliTypes'
    BY <1>0, <2>1, <2>6 DEF CliTypes
  <2>8. \A q \in Procs : (q # p => ~Busy(q)' /\ ~Running(q)') /\ ~Rotated(q)'
    BY <2>2, <2>4, <2>5 DEF Busy, Running, Rotated
  <2>9. \A q \in Procs : Staged(q)'
    <3>1. Staged(p)'
      BY <1>0, <2>1, <2>4, <2>6 DEF Staged
    <3>2. \A q \in Procs : q # p => Staged(q)'
      BY <1>0, <2>4, <2>5 DEF CliInv, Staged, Running
    <3>3. QED
      BY <3>1, <3>2
  <2>10. \A q \in Procs : UsesKeys(q)'
    BY <1>0, <2>1, <2>6, <2>8 DEF UsesKeys
  <2>11. \A q \in Procs : ShowsTheStore(q)'
    <3>1. ShowsTheStore(p)'
      BY <1>0, <2>6 DEF CliInv, ShowsTheStore
    <3>2. \A q \in Procs : q # p => ShowsTheStore(q)'
      BY <1>0, <2>4, <2>5 DEF CliInv, ShowsTheStore, Found, Present, PublicDict
    <3>3. QED
      BY <3>1, <3>2
  <2>12. OneIsBusy' /\ RotationIsDone'
    BY <2>8 DEF OneIsBusy, RotationIsDone
  <2>13. TokensAreHeld' /\ PlansAreMadeOut'
    BY <1>0, <2>4 DEF CliInv, TokensAreHeld, PlansAreMadeOut
  <2>14. StoreIsCurrent'
    <3>1. \A q \in Procs : ~Moving(q)
      BY <2>2 DEF Moving, Running
    <3>2. QED
      BY <1>0, <2>4, <3>1 DEF CliInv, StoreIsCurrent
  <2>15. RemovalsAreApproved'
    <3>1. PICK plan \in plans : plan.digest = cli[p].confirm
      BY <1>2 DEF CliInv, ShowsTheStore, Verify
    <3>2. /\ cli[p].confirm = Sign(active, name, "profiles.remove",
                                   PublicDict(name, live[name]), cli[p].expires)
          /\ clock <= cli[p].expires
      BY <1>0, <1>2 DEF Verify
    <3>3. plan.expires = cli[p].expires
      BY <1>0, <3>1, <3>2 DEF PlansAreMadeOut, Sign
    <3>4. Approved(p)'
      BY <1>0, <2>1, <2>4, <2>6, <3>1, <3>2, <3>3 DEF Approved, PublicDict
    <3>5. QED
      BY <2>8, <3>4 DEF RemovalsAreApproved
  <2>16. QED
    BY <2>3, <2>7, <2>9, <2>10, <2>11, <2>12, <2>13, <2>14, <2>15 DEF CliInv
<1>3. QED
  BY <1>1, <1>2

\* When the key is promoted, every token is under it.
LEMMA PromoteInv == ASSUME CliInv, NEW p \in Procs, Promote(p) PROVE CliInv'
<1>0. /\ Rotated(p) /\ Busy(p) /\ SerialInv /\ SerialInv' /\ CliTypes
      /\ active' = cmd[p].newKey /\ held' = {active'} /\ UNCHANGED <<plans, clock, reverted>>
      /\ UNCHANGED <<live, durable, temp, pc, cmd, value, result, faults>>
      /\ cli[p] \in Invocations /\ cmd[p] \in Commands /\ active' \in Keys
      /\ (~reverted => UnderKey(live, active')) /\ cli[p].stage = "store" /\ pc[p] = "done"
  BY SerialNextInv, CommandFields
     DEF Promote, CliInv, CliTypes, vars, Busy, Rotated, Staged, RotationIsDone
<1>1. \A q \in Procs : ~Running(q) /\ (q # p => ~Busy(q) /\ ~Rotated(q))
  BY <1>0, OthersAreIdle DEF Running
<1>2. /\ cli'[p] = [cli[p] EXCEPT !.stage = "done"]
      /\ cli'[p].stage = "done" /\ cli'[p].confirm = cli[p].confirm
      /\ cli'[p] \in Invocations
      /\ \A q \in Procs : q # p => cli'[q] = cli[q]
  <2>1. cli' = [cli EXCEPT ![p] = [cli[p] EXCEPT !.stage = "done"]]
    BY <1>0 DEF Promote, Invocations
  <2>2. QED
    BY <1>0, <2>1 DEF CliTypes, Invocations, Stages
<1>3. CliTypes'
  BY <1>0, <1>2 DEF CliTypes, Promote
<1>4. \A q \in Procs : ~Busy(q)' /\ ~Running(q)' /\ ~Rotated(q)'
  BY <1>0, <1>1, <1>2 DEF Busy, Running, Rotated
<1>5. \A q \in Procs : Staged(q)'
  <2>1. Staged(p)'
    BY <1>0, <1>2 DEF Staged, Running
  <2>2. \A q \in Procs : q # p => Staged(q)'
    BY <1>0, <1>2 DEF CliInv, Staged, Running
  <2>3. QED
    BY <2>1, <2>2
<1>6. \A q \in Procs : ShowsTheStore(q)'
  <2>1. ShowsTheStore(p)'
    BY <1>0, <1>2 DEF CliInv, ShowsTheStore
  <2>2. \A q \in Procs : q # p => ShowsTheStore(q)'
    BY <1>0, <1>2 DEF CliInv, ShowsTheStore, Found, Present, PublicDict
  <2>3. QED
    BY <2>1, <2>2
<1>7. TokensAreHeld' /\ StoreIsCurrent' /\ PlansAreMadeOut'
  BY <1>0 DEF CliInv, TokensAreHeld, StoreIsCurrent, PlansAreMadeOut, UnderKey, Present
<1>8. QED
  BY <1>0, <1>3, <1>4, <1>5, <1>6, <1>7
     DEF CliInv, UsesKeys, OneIsBusy, RotationIsDone, RemovalsAreApproved

LEMMA CliStutterInv ==
    ASSUME CliInv, UNCHANGED <<vars, cli, plans, active, held, reverted>>, clock' \in Nat
    PROVE  CliInv'
<1>0. /\ SerialInv'
      /\ UNCHANGED <<live, durable, temp, pc, cmd, value, result, faults, cli, plans, active, held, reverted>>
  BY SerialNextInv DEF CliInv, vars
<1>1. \A q \in Procs : /\ Busy(q)' <=> Busy(q)
                       /\ Running(q)' <=> Running(q)
                       /\ Rotated(q)' <=> Rotated(q)
                       /\ Moving(q)' <=> Moving(q)
  BY <1>0 DEF Busy, Running, Rotated, Moving
<1>2. CliTypes' /\ PlansAreMadeOut' /\ OneIsBusy' /\ TokensAreHeld'
  BY <1>0, <1>1 DEF CliInv, CliTypes, PlansAreMadeOut, OneIsBusy, TokensAreHeld
<1>3. \A q \in Procs : Staged(q)' /\ UsesKeys(q)' /\ ShowsTheStore(q)'
  BY <1>0, <1>1 DEF CliInv, Staged, UsesKeys, ShowsTheStore, Found, Present, PublicDict
<1>4. RotationIsDone' /\ StoreIsCurrent'
  BY <1>0, <1>1 DEF CliInv, RotationIsDone, StoreIsCurrent, UnderKey, Present
<1>5. RemovalsAreApproved'
  BY <1>0, <1>1 DEF CliInv, RemovalsAreApproved, Approved, PublicDict
<1>6. QED
  BY <1>0, <1>2, <1>3, <1>4, <1>5 DEF CliInv

\* A power loss ends every invocation that runs.  What is in the store then may be
\* older, and the invariant says no more of its tokens' keys.
LEMMA PowerFailsInv == ASSUME CliInv, PowerFails PROVE CliInv'
<1>0. /\ SerialInv /\ SerialInv' /\ CliTypes
      /\ UNCHANGED <<cmd, result, plans, active, held, clock>>
      /\ faults \in Nat /\ faults' = faults + 1
      /\ reverted' = (reverted \/ live' # live)
      /\ pc' = [p \in Procs |-> IF Running(p) THEN "dead" ELSE pc[p]]
      /\ cli' = [p \in Procs |-> IF cli[p].stage \in {"get", "verify"}
                                 THEN [cli[p] EXCEPT !.stage = "done"] ELSE cli[p]]
  BY SerialNextInv, StoreAssumption
     DEF CliInv, SerialInv, Inv, TypeOK, PowerFails, PowerLoss, Fault, SerialNext
<1>1. \A q \in Procs :
        /\ cli'[q] = IF cli[q].stage \in {"get", "verify"}
                     THEN [cli[q] EXCEPT !.stage = "done"] ELSE cli[q]
        /\ cli[q] \in Invocations /\ cli'[q] \in Invocations
        /\ cli[q].stage \notin {"get", "verify"} => cli'[q] = cli[q]
        /\ cli'[q].stage = IF cli[q].stage \in {"get", "verify"} THEN "done" ELSE cli[q].stage
        /\ cli'[q].key = cli[q].key /\ cli'[q].confirm = cli[q].confirm
        /\ pc'[q] = IF Running(q) THEN "dead" ELSE pc[q]
  BY <1>0 DEF CliTypes, Invocations, Stages
<1>2. \A q \in Procs : ~Running(q)'
  BY <1>1 DEF Running
<1>3. \A q \in Procs : Rotated(q)' => Rotated(q) /\ cli'[q] = cli[q] /\ ~Running(q)
  BY <1>0, <1>1 DEF Rotated, Running
<1>4. \A q \in Procs : Busy(q)' => Rotated(q)' /\ Busy(q)
  BY <1>1, <1>2, <1>3 DEF Busy
<1>5. CliTypes'
  BY <1>0, <1>1 DEF CliTypes
<1>6. \A q \in Procs : Staged(q)'
  BY <1>0, <1>1 DEF CliInv, Staged, Running
<1>7. \A q \in Procs : UsesKeys(q)'
  BY <1>0, <1>3, <1>4 DEF CliInv, UsesKeys
<1>8. \A q \in Procs : ShowsTheStore(q)'
  BY <1>0, <1>1 DEF CliInv, ShowsTheStore
<1>9. OneIsBusy'
  BY <1>4 DEF CliInv, OneIsBusy
<1>10. RotationIsDone'
  BY <1>0, <1>3 DEF CliInv, RotationIsDone, UnderKey, Present
<1>11. TokensAreHeld'
  BY <1>0 DEF CliInv, TokensAreHeld
<1>12. StoreIsCurrent'
  BY <1>0 DEF StoreIsCurrent
<1>13. PlansAreMadeOut' /\ RemovalsAreApproved'
  BY <1>0, <1>2 DEF CliInv, PlansAreMadeOut, RemovalsAreApproved
<1>14. QED
  BY <1>0, <1>5, <1>6, <1>7, <1>8, <1>9, <1>10, <1>11, <1>12, <1>13 DEF CliInv

LEMMA CliNextInv == CliInv /\ [CliNext]_allVars => CliInv'
<1> SUFFICES ASSUME CliInv, [CliNext]_allVars PROVE CliInv'
  OBVIOUS
<1>0. clock \in Nat
  BY DEF CliInv, CliTypes
<1>1. CASE UNCHANGED allVars
  BY <1>0, <1>1, CliStutterInv DEF allVars, cliVars
<1>2. CASE Tick
  BY <1>0, <1>2, CliStutterInv DEF Tick
<1>3. ASSUME NEW p \in Procs,
             Invoke(p) \/ RemoveGet(p) \/ RemovePlan(p) \/ RemoveVerify(p) \/ Store(p) \/ Promote(p)
      PROVE  CliInv'
  BY <1>3, InvokeInv, RemoveGetInv, RemovePlanInv, RemoveVerifyInv, StoreInv, PromoteInv
<1>4. CASE PowerFails
  BY <1>4, PowerFailsInv
<1>5. QED
  BY <1>1, <1>2, <1>3, <1>4 DEF CliNext

------------------------------------------------------------------------------
(* The theorems.                                                            *)

\* Whatever fails or is killed, every token in the store is under a key that the
\* operator still has, unless a power loss brought an older store back; without a
\* fault it is under the active one between commands.
THEOREM NoTokenLosesItsKey == CliSpec => []NoTokenIsOrphaned
<1>1. CliInv => NoTokenIsOrphaned
  <2> SUFFICES ASSUME CliInv PROVE NoTokenIsOrphaned
    OBVIOUS
  <2>1. ~reverted => \A n \in Present(live) : live[n].key \in held
    BY DEF CliInv, TokensAreHeld, Present
  <2>2. Alone => \A q \in Procs : ~Moving(q)
    BY DEF Alone, Moving, Running
  <2>3. QED
    BY <2>1, <2>2 DEF CliInv, StoreIsCurrent, NoTokenIsOrphaned
<1>2. QED
  BY <1>1, CliInitInv, CliNextInv, PTL DEF CliSpec

\* A removal deletes only what the plan it was confirmed with has shown.
THEOREM RemovalFollowsItsPlan == CliSpec => RemovedAsPlanned
<1>1. ASSUME CliInv
      PROVE  [\A p \in Procs :
                Replace(p) /\ cmd[p].op = "remove" =>
                   \E plan \in plans :
                       /\ plan.digest = Sign(active, cmd[p].name, "profiles.remove",
                                             PublicDict(cmd[p].name, live[cmd[p].name]),
                                             plan.expires)
                       /\ cli[p].verified <= plan.expires]_allVars
  <2>1. \A p \in Procs : Replace(p) /\ cmd[p].op = "remove" => Approved(p)
    BY <1>1 DEF CliInv, RemovalsAreApproved, Replace, Running
  <2>2. QED
    BY <2>1 DEF Approved
<1>2. QED
  BY <1>1, CliInitInv, CliNextInv, PTL DEF CliSpec, RemovedAsPlanned

\* An invocation of the command line is one caller of the store at a time.
LEMMA CliStepIsSerial ==
    ASSUME CliInv, [CliNext]_allVars
    PROVE  [SerialNext]_vars
<1>1. CASE UNCHANGED allVars
  BY <1>1 DEF allVars
<1>2. CASE Tick
  BY <1>2 DEF Tick
<1>3. ASSUME NEW p \in Procs, Invoke(p) PROVE [SerialNext]_vars
  BY <1>3 DEF Invoke, Alone, SerialNext, BeginAlone
<1>4. ASSUME NEW p \in Procs, RemoveGet(p) \/ RemovePlan(p) \/ Promote(p) PROVE UNCHANGED vars
  BY <1>4 DEF RemoveGet, RemovePlan, Promote, End
<1>5. ASSUME NEW p \in Procs, RemoveVerify(p) PROVE [SerialNext]_vars
  <2>1. Busy(p) /\ ~Running(p)
    BY <1>5 DEF RemoveVerify, Busy, CliInv, Staged, Running
  <2>2. \A q \in Procs : ~Running(q)
    BY <2>1, OthersAreIdle
  <2>3. QED
    BY <1>5, <2>2 DEF RemoveVerify, End, SerialNext, BeginAlone
<1>6. ASSUME NEW p \in Procs, Store(p) PROVE SerialNext
  BY <1>6 DEF Store, SerialNext
<1>7. CASE PowerFails
  BY <1>7 DEF PowerFails, SerialNext
<1>8. QED
  BY <1>1, <1>2, <1>3, <1>4, <1>5, <1>6, <1>7 DEF CliNext

\* The operator's commands use the store as one caller does, and so see a book of
\* profiles that changes in whole commands, through faults of every kind, are told no
\* success that did not happen, and replace no profile they were not asked to.
THEOREM CommandsUseTheBook ==
    CliSpec => SerialStoreIsABook /\ SuccessIsTrue /\ ReplaceIsExplicit
<1>1. CliInit => Init
  BY DEF CliInit
<1>2. CliSpec => SerialSpec
  BY <1>1, CliInitInv, CliNextInv, CliStepIsSerial, PTL DEF CliSpec, SerialSpec
<1>3. QED
  BY <1>2, SerialStoreImplementsBook, SerialSuccessIsTrue, SerialReplaceIsExplicit

==============================================================================
