------------------------- MODULE ProfileStore_proofs -------------------------
(***************************************************************************)
(* Proofs about ProfileStore, for any number of invocations, names and     *)
(* keys: for overlapping ones, the types, the integrity of the store file, *)
(* the temporary files after one fault and where profiles come from; for   *)
(* one at a time, that the store implements ProfileBook.                   *)
(***************************************************************************)
EXTENDS ProfileStore, TLAPS

\* What a command of each kind carries.
LEMMA CommandFields ==
    ASSUME NEW c \in Commands
    PROVE  /\ c.op \in {"list", "get", "remove", "add", "rotate"}
           /\ c.op \in {"get", "remove", "add"} => c.name \in Names
           /\ c.op = "add" => c.account \in Accounts /\ c.key \in Keys /\ c.replace \in BOOLEAN
           /\ c.op = "rotate" => c.key \in Keys /\ c.newKey \in Keys
BY DEF Commands

\* Every way a command changes its copy of the store yields a store.
LEMMA WithProfileIsImage ==
    ASSUME NEW image \in Images, NEW n \in Names, NEW a \in Accounts, NEW k \in Keys
    PROVE  WithProfile(image, n, a, k) \in Images
BY DEF Images, Profiles, WithProfile

LEMMA RemovalIsImage ==
    ASSUME NEW image \in Images, NEW n \in Names
    PROVE  [image EXCEPT ![n] = NoProfile] \in Images
BY DEF Images

\* Rotation keeps the names and the accounts, and puts every token under one key.
LEMMA RekeyedIsUnderKey ==
    ASSUME NEW image \in Images, NEW k \in Keys
    PROVE  /\ Rekeyed(image, k) \in Images
           /\ UnderKey(Rekeyed(image, k), k)
           /\ Present(Rekeyed(image, k)) = Present(image)
<1> USE ProfileAssumption DEF Images, Profiles, Rekeyed, UnderKey, Present
<1>1. \A n \in Names : image[n] # NoProfile => [account |-> image[n].account, key |-> k] \in Profiles
  OBVIOUS
<1>2. QED
  BY <1>1

LEMMA EmptyIsImage == EmptyStore \in Images
BY DEF EmptyStore, Images

Inv == TypeOK /\ StoreComplete

LEMMA InitInv == Init => Inv
BY EmptyIsImage, StoreAssumption DEF Init, Inv, TypeOK, StoreComplete, Labels, Results

\* Steps that leave the file system, the copies and the commands alone.
LEMMA KeepsInv ==
    ASSUME Inv, NEW p \in Procs, UNCHANGED <<disk, cmd, value>>,
           faults' \in 0..MaxFaults,
           result' = result \/ \E r \in Results : result' = [result EXCEPT ![p] = r],
           NEW label \in {"load", "done", "dead", "cleanup"}, Goto(p, label),
           label = "load" => pc[p] = "get" /\ cmd[p].op = "remove",
           label = "cleanup" => pc[p] \in {"dump", "sync", "replace"}
    PROVE  Inv'
<1> USE DEF Inv, TypeOK, Goto, disk, Labels, Prepared
<1>1. StoreComplete'
  BY DEF StoreComplete
<1>2. result' \in [Procs -> Results]
  OBVIOUS
<1>3. pc' \in [Procs -> Labels]
  OBVIOUS
<1>4. \A q \in Procs : q # p => pc'[q] = pc[q]
  OBVIOUS
<1>5. pc'[p] = label
  OBVIOUS
<1>6. QED
  BY <1>1, <1>2, <1>3, <1>4, <1>5

\* Refusing a load, or keeping a modified copy of what was loaded.
LEMMA LoadInv ==
    ASSUME Inv, NEW p \in Procs, pc[p] = "load", UNCHANGED <<disk, cmd, faults>>,
           \/ \E r \in Results : Refuse(p, r)
           \/ \E image \in Images :
                 /\ Keep(p, image)
                 /\ cmd[p].op = "rotate" => UnderKey(image, cmd[p].newKey)
    PROVE  Inv'
<1>1. CASE \E r \in Results : Refuse(p, r)
  BY <1>1, KeepsInv DEF Refuse, Return, Inv, TypeOK
<1>2. ASSUME NEW image \in Images, Keep(p, image),
             cmd[p].op = "rotate" => UnderKey(image, cmd[p].newKey)
      PROVE  Inv'
  <2> USE <1>2 DEF Inv, TypeOK, Keep, Goto, disk, Labels
  <2>1. value'[p] = image /\ pc'[p] = "create" /\ pc' \in [Procs -> Labels]
    OBVIOUS
  <2>2. \A q \in Procs : q # p => pc'[q] = pc[q] /\ value'[q] = value[q]
    OBVIOUS
  <2>3. Prepared(p)'
    BY <2>1 DEF Prepared
  <2>4. \A q \in Procs : q # p => (Prepared(q) => Prepared(q)')
    BY <2>2 DEF Prepared
  <2>5. StoreComplete'
    BY DEF StoreComplete
  <2>6. value' \in [Procs -> Images]
    OBVIOUS
  <2>7. QED
    BY <2>1, <2>2, <2>3, <2>4, <2>5, <2>6
<1>3. QED
  BY <1>1, <1>2

LEMMA BeginInv == ASSUME Inv, NEW p \in Procs, Begin(p) PROVE Inv'
<1> PICK c \in Menu :
      /\ cmd' = [cmd EXCEPT ![p] = c]
      /\ Goto(p, IF c.op \in {"list", "get", "remove"} THEN "get" ELSE "load")
  BY DEF Begin
<1> USE DEF Inv, TypeOK, Begin, Goto, disk, Labels
<1>1. c \in Commands /\ c.op \in {"list", "get", "remove", "add", "rotate"}
  BY StoreAssumption, CommandFields
<1>2. /\ cmd'[p] = c /\ cmd' \in [Procs -> Commands \cup {NoCommand}]
      /\ pc'[p] \in {"get", "load"} /\ pc' \in [Procs -> Labels]
      /\ pc'[p] = "get" => c.op \in {"list", "get", "remove"}
      /\ pc'[p] = "load" => c.op \in {"add", "rotate"}
  BY <1>1
<1>3. \A q \in Procs : q # p => pc'[q] = pc[q] /\ cmd'[q] = cmd[q]
  OBVIOUS
<1>4. \A q \in Procs : q # p => (Prepared(q) => Prepared(q)')
  BY <1>3 DEF Prepared
<1>5. StoreComplete'
  BY DEF StoreComplete
<1>6. QED
  BY <1>1, <1>2, <1>3, <1>4, <1>5

LEMMA CopiesInv ==
    ASSUME Inv, NEW p \in Procs, AddLoad(p) \/ RemoveLoad(p) \/ RotateLoad(p)
    PROVE  Inv'
<1>0. /\ cmd[p] \in Commands /\ pc[p] = "load" /\ live \in Images
      /\ {"config", "internal"} \subseteq Results
      /\ UNCHANGED <<disk, cmd, faults>>
  BY DEF Inv, TypeOK, StoreComplete, AddLoad, RemoveLoad, RotateLoad, Results
<1>1. CASE AddLoad(p)
  BY <1>0, <1>1, LoadInv, CommandFields, WithProfileIsImage DEF AddLoad
<1>2. CASE RemoveLoad(p)
  BY <1>0, <1>2, LoadInv, CommandFields, RemovalIsImage DEF RemoveLoad
<1>3. CASE RotateLoad(p)
  BY <1>0, <1>3, LoadInv, CommandFields, RekeyedIsUnderKey DEF RotateLoad
<1>4. QED
  BY <1>1, <1>2, <1>3

LEMMA TempInv ==
    ASSUME Inv, NEW p \in Procs, CreateTemp(p) \/ Dump(p) \/ Sync(p)
    PROVE  Inv'
<1> USE DEF Inv, TypeOK, Goto, Labels
<1> DEFINE Written == /\ UNCHANGED <<live, durable, cmd, value, result, faults>>
                      /\ pc' \in [Procs -> Labels]
                      /\ temp' \in [Procs -> Files \cup {NoFile}]
                      /\ temp'[p] \in Files
                      /\ pc'[p] \in {"dump", "sync", "replace"}
                      /\ pc'[p] \in {"sync", "replace"} => temp'[p].data = value[p]
                      /\ pc'[p] = "replace" => temp'[p].synced
<1>a. ASSUME CreateTemp(p) PROVE Written
  <2>1. [data |-> Torn, synced |-> FALSE] \in Files
    BY DEF Files
  <2>2. QED
    BY <1>a, <2>1 DEF CreateTemp
<1>b. ASSUME Dump(p) PROVE Written
  <2>1. temp[p] \in Files /\ value[p] \in Images
    BY <1>b DEF Dump
  <2>2. /\ [temp[p] EXCEPT !.data = value[p]] \in Files
        /\ [temp[p] EXCEPT !.data = value[p]].data = value[p]
    BY <2>1 DEF Files
  <2>3. temp' = [temp EXCEPT ![p] = [temp[p] EXCEPT !.data = value[p]]]
    BY <1>b DEF Dump
  <2>4. QED
    BY <1>b, <2>2, <2>3 DEF Dump
<1>c. ASSUME Sync(p) PROVE Written
  <2>1. temp[p] \in Files /\ temp[p].data = value[p]
    BY <1>c DEF Sync
  <2>2. /\ [temp[p] EXCEPT !.synced = TRUE] \in Files
        /\ [temp[p] EXCEPT !.synced = TRUE].data = value[p]
        /\ [temp[p] EXCEPT !.synced = TRUE].synced
    BY <2>1 DEF Files
  <2>3. temp' = [temp EXCEPT ![p] = [temp[p] EXCEPT !.synced = TRUE]]
    BY <1>c DEF Sync
  <2>4. QED
    BY <1>c, <2>2, <2>3 DEF Sync
<1>1. Written
  BY <1>a, <1>b, <1>c
<1>2. \A q \in Procs : q # p => pc'[q] = pc[q] /\ temp'[q] = temp[q]
  BY DEF CreateTemp, Dump, Sync
<1>3. \A q \in Procs : Prepared(q) => Prepared(q)'
  BY <1>1 DEF Prepared
<1>4. Prepared(p)
  BY DEF CreateTemp, Dump, Sync
<1>5. StoreComplete'
  BY <1>1 DEF StoreComplete
<1>6. QED
  BY <1>1, <1>2, <1>3, <1>4, <1>5

\* The one step that changes the store file: what it installs is complete and synced.
LEMMA ReplaceInv ==
    ASSUME Inv, NEW p \in Procs, Replace(p)
    PROVE  Inv' /\ live' = value[p] /\ live' \in Images
<1> USE DEF Inv, TypeOK, Goto, Labels, Replace
<1>1. temp[p].data = value[p] /\ temp[p].synced /\ value[p] \in Images /\ value[p] # Torn
  BY StoreAssumption
<1>2. live' = value[p] /\ durable' = durable \cup {value[p]}
  BY <1>1 DEF OnDisk
<1>3. StoreComplete'
  BY <1>1, <1>2 DEF StoreComplete
<1>4. /\ pc' \in [Procs -> Labels] /\ pc'[p] = "chmod"
      /\ temp' \in [Procs -> Files \cup {NoFile}]
      /\ \A q \in Procs : q # p => pc'[q] = pc[q] /\ temp'[q] = temp[q]
  OBVIOUS
<1>5. \A q \in Procs : Prepared(q) => Prepared(q)'
  BY DEF Prepared
<1>6. TypeOK'
  BY <1>1, <1>2, <1>4, <1>5
<1>7. QED
  BY <1>1, <1>2, <1>3, <1>6

LEMMA OtherStepsInv ==
    ASSUME Inv, NEW p \in Procs,
           \/ Get(p) \/ LoadFails(p) \/ CreateFails(p) \/ Chmod(p) \/ WriteFails(p) \/ Kill(p)
    PROVE  Inv'
<1> USE KeepsInv, StoreAssumption
<1> USE DEF Fault, Return
<1>0. faults \in 0..MaxFaults /\ {"config", "internal", "ok"} \subseteq Results
  BY DEF Inv, TypeOK, Results
<1>1. CASE Get(p)
  BY <1>0, <1>1 DEF Get
<1>2. CASE CreateFails(p)
  <2>1. PICK r \in {"internal", "config"} : Return(p, r)
    BY <1>2 DEF CreateFails
  <2>2. faults' \in 0..MaxFaults
    BY <1>0, <1>2 DEF CreateFails
  <2>3. r \in Results
    BY <1>0
  <2>4. QED
    BY <1>2, <2>1, <2>2, <2>3 DEF CreateFails
<1>3. CASE Chmod(p)
  BY <1>0, <1>3 DEF Chmod
<1>4. CASE WriteFails(p)
  BY <1>0, <1>4 DEF WriteFails
<1>5. CASE Kill(p)
  BY <1>0, <1>5 DEF Kill
<1>6. CASE LoadFails(p)
  <2>1. faults' \in 0..MaxFaults /\ Return(p, "config")
    BY <1>0, <1>6 DEF LoadFails
  <2>2. "config" \in Results
    BY <1>0
  <2>3. QED
    BY <1>6, <2>1, <2>2 DEF LoadFails
<1>7. QED
  BY <1>1, <1>2, <1>3, <1>4, <1>5, <1>6

LEMMA CleanupInv == ASSUME Inv, NEW p \in Procs, Cleanup(p) PROVE Inv'
<1> USE DEF Inv, TypeOK, Goto, Labels, Cleanup, Return, Results, Fault
<1>1. /\ faults' \in 0..MaxFaults
      /\ temp' \in [Procs -> Files \cup {NoFile}]
      /\ \A q \in Procs : q # p => temp'[q] = temp[q]
  BY StoreAssumption
<1>2. /\ pc' \in [Procs -> Labels] /\ pc'[p] = "done"
      /\ \A q \in Procs : q # p => pc'[q] = pc[q]
      /\ result' \in [Procs -> Results]
  OBVIOUS
<1>3. \A q \in Procs : Prepared(q) => Prepared(q)'
  BY DEF Prepared
<1>4. StoreComplete'
  BY DEF StoreComplete
<1>5. QED
  BY <1>1, <1>2, <1>3, <1>4

LEMMA PowerLossInv == ASSUME Inv, PowerLoss PROVE Inv'
<1> USE DEF Inv, TypeOK, PowerLoss, Fault, Labels
<1>1. live' \in durable /\ live' # Torn /\ live' \in Images /\ durable' = {live'}
  BY DEF StoreComplete
<1>2. StoreComplete'
  BY <1>1 DEF StoreComplete
<1>3. /\ pc' \in [Procs -> Labels]
      /\ \A q \in Procs : pc'[q] = "dead" \/ pc'[q] = pc[q]
  BY DEF Running
<1>4. \A q \in Procs : Prepared(q) => Prepared(q)'
  BY DEF Prepared
<1>5. faults' \in 0..MaxFaults
  BY StoreAssumption
<1>6. QED
  BY <1>1, <1>2, <1>3, <1>4, <1>5

LEMMA NextInv == Inv /\ [Next]_vars => Inv'
<1> SUFFICES ASSUME Inv, [Next]_vars PROVE Inv'
  OBVIOUS
<1>1. CASE UNCHANGED vars
  BY <1>1 DEF vars, disk, Inv, TypeOK, StoreComplete, Prepared
<1>2. CASE PowerLoss
  BY <1>2, PowerLossInv
<1>3. ASSUME NEW p \in Procs, Begin(p) PROVE Inv'
  BY <1>3, BeginInv
<1>4. ASSUME NEW p \in Procs, Step(p) PROVE Inv'
  BY <1>4, CopiesInv, TempInv, ReplaceInv, OtherStepsInv, CleanupInv DEF Step
<1>5. QED
  BY <1>1, <1>2, <1>3, <1>4 DEF Next

------------------------------------------------------------------------------
(* The theorems.                                                            *)

\* Type correctness, with what every process holds at each of its steps.
THEOREM StoreTypes == Spec => []TypeOK
<1>1. Inv => TypeOK
  BY DEF Inv
<1>2. QED
  BY <1>1, InitInv, NextInv, PTL DEF Spec

\* However many commands overlap, fail or are killed, and whenever the power
\* goes, the store file is a complete document (write, sync, then rename).
THEOREM StoreAlwaysComplete == Spec => []StoreComplete
<1>1. Inv => StoreComplete
  BY DEF Inv
<1>2. QED
  BY <1>1, InitInv, NextInv, PTL DEF Spec

------------------------------------------------------------------------------
(* What one fault can leave behind.                                         *)

\* A process has a temporary file only from its creation to its replace or its
\* removal, which it reaches through one fault and fails by another.
TempsAreCleared ==
    \A p \in Procs :
        /\ pc[p] \in {"idle", "get", "load", "create", "chmod"} => temp[p] = NoFile
        /\ pc[p] = "cleanup" => faults >= 1
        /\ pc[p] = "done" => temp[p] = NoFile \/ faults >= 2

LEMMA TempsInit == Init => TempsAreCleared
BY DEF Init, TempsAreCleared

\* What a step does to the control, the temporary file and the number of faults.
LEMMA TempStep ==
    ASSUME Inv, TempsAreCleared, NEW p \in Procs, Begin(p) \/ Step(p)
    PROVE  /\ faults' \in Nat /\ faults' >= faults
           /\ \A q \in Procs : q # p => pc'[q] = pc[q] /\ temp'[q] = temp[q]
           /\ pc'[p] \in {"idle", "get", "load", "create", "chmod"} => temp'[p] = NoFile
           /\ pc'[p] = "cleanup" => faults' >= 1
           /\ pc'[p] = "done" => temp'[p] = NoFile \/ faults' >= 2
<1> USE StoreAssumption DEF Inv, TypeOK, TempsAreCleared, Goto, Return, Fault, disk, Labels
<1>1. CASE Begin(p)
  BY <1>1 DEF Begin
<1>2. CASE Get(p) \/ LoadFails(p)
  BY <1>2 DEF Get, LoadFails
<1>3. CASE AddLoad(p) \/ RemoveLoad(p) \/ RotateLoad(p)
  BY <1>3 DEF AddLoad, RemoveLoad, RotateLoad, Keep, Refuse
<1>4. CASE CreateTemp(p) \/ Dump(p) \/ Sync(p)
  BY <1>4 DEF CreateTemp, Dump, Sync
<1>5. CASE CreateFails(p)
  BY <1>5 DEF CreateFails
<1>6. CASE Replace(p)
  BY <1>6 DEF Replace
<1>7. CASE Chmod(p)
  BY <1>7 DEF Chmod
<1>8. CASE WriteFails(p) \/ Kill(p)
  BY <1>8 DEF WriteFails, Kill
<1>9. CASE Cleanup(p)
  BY <1>9 DEF Cleanup
<1>10. QED
  BY <1>1, <1>2, <1>3, <1>4, <1>5, <1>6, <1>7, <1>8, <1>9 DEF Step

LEMMA TempsNext == Inv /\ TempsAreCleared /\ [Next]_vars => TempsAreCleared'
<1> SUFFICES ASSUME Inv, TempsAreCleared, [Next]_vars PROVE TempsAreCleared'
  OBVIOUS
<1>0. faults \in Nat
  BY StoreAssumption DEF Inv, TypeOK
<1>1. CASE UNCHANGED vars
  BY <1>1 DEF vars, TempsAreCleared
<1>2. CASE PowerLoss
  <2>1. /\ faults' = faults + 1 /\ temp' = temp
        /\ \A q \in Procs : pc'[q] = "dead" \/ (pc'[q] = pc[q] /\ ~Running(q))
    BY <1>2 DEF PowerLoss, Fault
  <2>2. QED
    BY <1>0, <2>1 DEF TempsAreCleared, Running
<1>3. ASSUME NEW p \in Procs, Begin(p) \/ Step(p) PROVE TempsAreCleared'
  BY <1>0, <1>3, TempStep DEF TempsAreCleared
<1>4. QED
  BY <1>1, <1>2, <1>3 DEF Next

\* After one fault, whichever it is, no command that returned has left a file behind.
THEOREM OneFaultIsCleanedUp == Spec => []OneFaultLeavesNoTemp
<1>1. Inv /\ TempsAreCleared => OneFaultLeavesNoTemp
  BY StoreAssumption DEF Inv, TypeOK, TempsAreCleared, OneFaultLeavesNoTemp
<1>2. QED
  BY <1>1, InitInv, NextInv, TempsInit, TempsNext, PTL DEF Spec

------------------------------------------------------------------------------
(* Where the profiles in a store come from.                                 *)

\* The commands given so far include an add of this account under the name, and an
\* add under the name or a rotation with this key.
Submitted(n, profile) ==
    /\ \E p \in Procs : /\ cmd[p] # NoCommand /\ cmd[p].op = "add"
                        /\ cmd[p].name = n /\ cmd[p].account = profile.account
    /\ \E p \in Procs : \/ /\ cmd[p] # NoCommand /\ cmd[p].op = "add"
                           /\ cmd[p].name = n /\ cmd[p].key = profile.key
                        \/ /\ cmd[p] # NoCommand /\ cmd[p].op = "rotate"
                           /\ cmd[p].newKey = profile.key

\* The key is one that an add under the name gave, or one that rotations lead to from it.
Opened(n, k) ==
    \E p \in Procs : /\ cmd[p] # NoCommand /\ cmd[p].op = "add" /\ cmd[p].name = n
                      /\ k \in RotatedFrom(cmd[p].key)

AllSubmitted(image) ==
    \A n \in Names : image[n] # NoProfile => Submitted(n, image[n]) /\ Opened(n, image[n].key)

\* Every version of the store that can still become the store file: what is there,
\* what a power loss may bring back, and every copy in memory.
Origins ==
    /\ \A p \in Procs : pc[p] = "idle" => cmd[p] = NoCommand
    /\ AllSubmitted(live)
    /\ \A image \in durable : AllSubmitted(image)
    /\ \A p \in Procs : AllSubmitted(value[p])

LEMMA OriginsInit == Init => Origins
BY DEF Init, Origins, AllSubmitted, EmptyStore

\* A command is never taken back, so what was submitted stays submitted.
LEMMA SubmittedStays ==
    ASSUME \A p \in Procs : cmd[p] # NoCommand => cmd'[p] = cmd[p]
    PROVE  \A image : AllSubmitted(image) => AllSubmitted(image)'
<1>1. \A k : RotatedFrom(k) \subseteq RotatedFrom(k)'
  <2>1. \A S : ClosedUnderRotation(S)' => ClosedUnderRotation(S)
    BY DEF ClosedUnderRotation
  <2>2. QED
    BY <2>1 DEF RotatedFrom
<1>2. \A n, k : Opened(n, k) => Opened(n, k)'
  BY <1>1 DEF Opened
<1>3. \A n, profile : Submitted(n, profile) => Submitted(n, profile)'
  BY DEF Submitted
<1>4. QED
  BY <1>2, <1>3 DEF AllSubmitted

\* A key leads to itself, and through a rotation to the rotation's new key.
LEMMA RotationLeadsOn ==
    ASSUME NEW k, NEW p \in Procs, cmd[p] \in Commands
    PROVE  /\ k \in Keys => k \in RotatedFrom(k)
           /\ cmd[p].op = "rotate" /\ cmd[p].key \in RotatedFrom(k)
              => cmd[p].newKey \in RotatedFrom(k)
<1>1. cmd[p] # NoCommand
  BY StoreAssumption
<1>2. cmd[p].op = "rotate" => cmd[p].newKey \in Keys
  BY CommandFields
<1>3. QED
  BY <1>1, <1>2 DEF RotatedFrom, ClosedUnderRotation

\* What a command makes of a store of submitted profiles is one again.
LEMMA OutcomeIsSubmitted ==
    ASSUME NEW image \in Images, AllSubmitted(image), NEW p \in Procs, cmd[p] \in Commands
    PROVE  /\ cmd[p].op = "add" =>
                AllSubmitted(WithProfile(image, cmd[p].name, cmd[p].account, cmd[p].key))
           /\ cmd[p].op = "remove" => AllSubmitted([image EXCEPT ![cmd[p].name] = NoProfile])
           /\ cmd[p].op = "rotate" /\ UnderKey(image, cmd[p].key)
              => AllSubmitted(Rekeyed(image, cmd[p].newKey))
<1>0. cmd[p] # NoCommand
  BY StoreAssumption
<1>1. ASSUME cmd[p].op = "add"
      PROVE  AllSubmitted(WithProfile(image, cmd[p].name, cmd[p].account, cmd[p].key))
  <2> DEFINE profile == [account |-> cmd[p].account, key |-> cmd[p].key]
  <2>1. /\ WithProfile(image, cmd[p].name, cmd[p].account, cmd[p].key)
             = [image EXCEPT ![cmd[p].name] = profile]
        /\ cmd[p].name \in Names
    BY <1>1, CommandFields DEF WithProfile
  <2>2. Submitted(cmd[p].name, profile) /\ Opened(cmd[p].name, profile.key)
    BY <1>0, <1>1, CommandFields, RotationLeadsOn DEF Submitted, Opened
  <2>3. QED
    BY <2>1, <2>2 DEF AllSubmitted, Images
<1>2. ASSUME cmd[p].op = "remove"
      PROVE  AllSubmitted([image EXCEPT ![cmd[p].name] = NoProfile])
  BY <1>2 DEF AllSubmitted, Images
<1>3. ASSUME cmd[p].op = "rotate", UnderKey(image, cmd[p].key)
      PROVE  AllSubmitted(Rekeyed(image, cmd[p].newKey))
  <2> SUFFICES ASSUME NEW n \in Names, Rekeyed(image, cmd[p].newKey)[n] # NoProfile
               PROVE  /\ Submitted(n, Rekeyed(image, cmd[p].newKey)[n])
                      /\ Opened(n, Rekeyed(image, cmd[p].newKey)[n].key)
    BY DEF AllSubmitted
  <2>1. /\ image[n] # NoProfile
        /\ Rekeyed(image, cmd[p].newKey)[n] = [account |-> image[n].account, key |-> cmd[p].newKey]
    BY DEF Rekeyed
  <2>2. Submitted(n, image[n]) /\ Opened(n, cmd[p].key)
    BY <1>3, <2>1 DEF AllSubmitted, UnderKey, Present
  <2>3. Opened(n, cmd[p].newKey)
    BY <1>3, <2>2, RotationLeadsOn DEF Opened
  <2>4. QED
    BY <1>0, <1>3, <2>1, <2>2, <2>3 DEF Submitted
<1>4. QED
  BY <1>1, <1>2, <1>3

LEMMA OriginsCopies ==
    ASSUME Inv, Origins, NEW p \in Procs, AddLoad(p) \/ RemoveLoad(p) \/ RotateLoad(p)
    PROVE  Origins'
<1>0. /\ live \in Images /\ cmd[p] \in Commands /\ UNCHANGED <<live, durable, cmd>>
      /\ pc[p] = "load" /\ pc' \in [Procs -> Labels] /\ value' \in [Procs -> Images]
      /\ \A q \in Procs : q # p => pc'[q] = pc[q] /\ value'[q] = value[q]
      /\ pc'[p] # "idle"
  <2> USE DEF Inv, TypeOK, StoreComplete, AddLoad, RemoveLoad, RotateLoad, Keep, Refuse, Return,
              Goto, disk
  <2>1. live \in Images /\ cmd[p] \in Commands /\ UNCHANGED <<live, durable, cmd>> /\ pc[p] = "load"
    OBVIOUS
  <2>2. pc' \in [Procs -> Labels] /\ value' \in [Procs -> Images]
    BY CopiesInv
  <2>3. QED
    BY <2>1, <2>2
<1>1. value'[p] = value[p] \/ AllSubmitted(value'[p])
  <2>0. value \in [Procs -> Images] /\ AllSubmitted(live)
    BY DEF Inv, TypeOK, Origins
  <2>1. CASE AddLoad(p)
    <3>1. \/ value' = value
          \/ value'[p] = WithProfile(live, cmd[p].name, cmd[p].account, cmd[p].key)
      BY <2>0, <2>1 DEF AddLoad, Keep, Refuse
    <3>2. QED
      BY <1>0, <2>0, <2>1, <3>1, OutcomeIsSubmitted DEF AddLoad
  <2>2. CASE RemoveLoad(p)
    <3>1. \/ value' = value
          \/ value'[p] = [live EXCEPT ![cmd[p].name] = NoProfile]
      BY <2>0, <2>2 DEF RemoveLoad, Keep, Refuse
    <3>2. QED
      BY <1>0, <2>0, <2>2, <3>1, OutcomeIsSubmitted DEF RemoveLoad
  <2>3. CASE RotateLoad(p)
    <3>1. \/ value' = value
          \/ value'[p] = Rekeyed(live, cmd[p].newKey) /\ UnderKey(live, cmd[p].key)
      BY <2>0, <2>3 DEF RotateLoad, Keep, Refuse
    <3>2. QED
      BY <1>0, <2>0, <2>3, <3>1, OutcomeIsSubmitted DEF RotateLoad
  <2>4. QED
    BY <2>1, <2>2, <2>3
<1>2. \A image : AllSubmitted(image) => AllSubmitted(image)'
  BY <1>0, SubmittedStays
<1>3. \A q \in Procs : AllSubmitted(value'[q])
  BY <1>0, <1>1 DEF Origins
<1>4. (\A q \in Procs : AllSubmitted(value[q]))'
  BY <1>0, <1>3 DEF AllSubmitted, Submitted, Opened, RotatedFrom, ClosedUnderRotation
<1>5. QED
  BY <1>0, <1>2, <1>4 DEF Origins

LEMMA OriginsNext == Inv /\ Origins /\ [Next]_vars => Origins'
<1> SUFFICES ASSUME Inv, Origins, [Next]_vars PROVE Origins'
  OBVIOUS
<1>1. CASE UNCHANGED vars
  BY <1>1 DEF vars, Origins, AllSubmitted, Submitted, Opened, RotatedFrom, ClosedUnderRotation
<1>2. CASE PowerLoss
  <2>1. /\ UNCHANGED <<cmd, value>> /\ live' \in durable /\ durable' = {live'}
        /\ \A p \in Procs : pc'[p] = "idle" => pc[p] = "idle"
    BY <1>2 DEF PowerLoss, Running
  <2>2. \A image : AllSubmitted(image) => AllSubmitted(image)'
    BY <2>1, SubmittedStays
  <2>3. QED
    BY <2>1, <2>2 DEF Origins
<1>3. ASSUME NEW p \in Procs, Begin(p) PROVE Origins'
  <2>1. /\ UNCHANGED <<live, durable, value>> /\ pc[p] = "idle"
        /\ \A q \in Procs : q # p => cmd'[q] = cmd[q] /\ pc'[q] = pc[q]
        /\ pc'[p] \in {"get", "load"}
    BY <1>3 DEF Begin, Inv, TypeOK, Goto, disk
  <2>2. \A q \in Procs : cmd[q] # NoCommand => cmd'[q] = cmd[q]
    BY <2>1 DEF Origins
  <2>3. \A image : AllSubmitted(image) => AllSubmitted(image)'
    BY <2>2, SubmittedStays
  <2>4. QED
    BY <2>1, <2>2, <2>3 DEF Origins
<1>4. ASSUME NEW p \in Procs, Replace(p) PROVE Origins'
  <2>1. /\ UNCHANGED <<cmd, value>> /\ live' = value[p] /\ durable' = durable \cup {live'}
        /\ \A q \in Procs : pc'[q] = "idle" => pc[q] = "idle"
    BY <1>4, ReplaceInv DEF Replace, Inv, TypeOK, OnDisk, Goto
  <2>2. \A image : AllSubmitted(image) => AllSubmitted(image)'
    BY <2>1, SubmittedStays
  <2>3. QED
    BY <2>1, <2>2 DEF Origins
<1>5. ASSUME NEW p \in Procs, AddLoad(p) \/ RemoveLoad(p) \/ RotateLoad(p) PROVE Origins'
  BY <1>5, OriginsCopies
<1>6. ASSUME NEW p \in Procs,
             \/ Get(p) \/ LoadFails(p) \/ CreateTemp(p) \/ CreateFails(p) \/ Dump(p) \/ Sync(p)
             \/ Chmod(p) \/ WriteFails(p) \/ Cleanup(p) \/ Kill(p)
      PROVE  Origins'
  <2>1. /\ UNCHANGED <<live, durable, cmd, value>>
        /\ \A q \in Procs : pc'[q] = "idle" => pc[q] = "idle"
    BY <1>6 DEF Get, LoadFails, CreateTemp, CreateFails, Dump, Sync, Chmod, WriteFails, Cleanup, Kill,
                Goto, Return, disk, Inv, TypeOK
  <2>2. QED
    BY <2>1 DEF Origins, AllSubmitted, Submitted, Opened, RotatedFrom, ClosedUnderRotation
<1>7. QED
  BY <1>1, <1>2, <1>3, <1>4, <1>5, <1>6 DEF Next, Step

\* Overlapping commands may lose each other's work, but no name ever designates an
\* account that was not added under it, nor a token a key that no command was given.
THEOREM ProfilesAreAsSubmitted == Spec => []ProfilesAsSubmitted
<1>1. Origins => ProfilesAsSubmitted
  <2>1. Origins => \A n \in Present(live) : Submitted(n, live[n])
    BY DEF Origins, AllSubmitted, Present
  <2>2. ASSUME NEW n, Submitted(n, live[n])
        PROVE  /\ \E p \in Procs : cmd[p] # NoCommand /\ cmd[p].op = "add"
                                  /\ cmd[p].name = n /\ cmd[p].account = live[n].account
               /\ \E p \in Procs : \/ cmd[p] # NoCommand /\ cmd[p].op = "add"
                                      /\ cmd[p].name = n /\ cmd[p].key = live[n].key
                                   \/ cmd[p] # NoCommand /\ cmd[p].op = "rotate"
                                      /\ cmd[p].newKey = live[n].key
    BY <2>2 DEF Submitted
  <2>3. QED
    BY <2>1, <2>2 DEF ProfilesAsSubmitted
<1>2. QED
  BY <1>1, InitInv, NextInv, OriginsInit, OriginsNext, PTL DEF Spec

\* No rotation moves a token that it could not open: each is under the key that an
\* add of its name gave, or one that rotations given its former key lead to from it.
THEOREM TokensAreOpened == Spec => []TokensAreOpenedFirst
<1>1. Origins => TokensAreOpenedFirst
  BY DEF Origins, AllSubmitted, Opened, Present, TokensAreOpenedFirst
<1>2. QED
  BY <1>1, InitInv, NextInv, OriginsInit, OriginsNext, PTL DEF Spec

------------------------------------------------------------------------------
(* One caller who waits for each command to end: the store implements       *)
(* ProfileBook and reports success truthfully, through I/O errors, kills    *)
(* and power losses at any step.                                            *)

\* The command of p would be a whole step of the book, and its copy of the store
\* is the outcome of that step on the store as it is now.
Ready(p) ==
    /\ cmd[p].op = "add" =>
         /\ cmd[p].name \in Present(live) => cmd[p].replace
         /\ value[p] = WithProfile(live, cmd[p].name, cmd[p].account, cmd[p].key)
    /\ cmd[p].op = "remove" =>
         /\ cmd[p].name \in Present(live)
         /\ value[p] = [live EXCEPT ![cmd[p].name] = NoProfile]
    /\ cmd[p].op = "rotate" =>
         /\ UnderKey(live, cmd[p].key)
         /\ value[p] = Rekeyed(live, cmd[p].newKey)

OneRuns == \A p, q \in Procs : Running(p) /\ Running(q) => p = q

CopiesAreCurrent ==
    \A p \in Procs : pc[p] \in {"create", "dump", "sync", "replace"} => Ready(p)

WritesAreDone == \A p \in Procs : pc[p] = "chmod" => Achieved(cmd[p], live)

SerialInv == Inv /\ OneRuns /\ CopiesAreCurrent /\ WritesAreDone

LEMMA SerialInit == Init => SerialInv
BY InitInv DEF Init, SerialInv, OneRuns, CopiesAreCurrent, WritesAreDone, Running

LEMMA SerialNextIsNext == SerialNext => Next
BY DEF SerialNext, Next, BeginAlone

\* What the load of a command prepares.
LEMMA LoadIsReady ==
    ASSUME Inv, NEW p \in Procs, AddLoad(p) \/ RemoveLoad(p) \/ RotateLoad(p),
           pc'[p] = "create"
    PROVE  Ready(p)'
<1> USE DEF Inv, TypeOK, Keep, Refuse, Return, Goto, Found, disk, Ready
<1>1. CASE AddLoad(p)
  BY <1>1 DEF AddLoad
<1>2. CASE RemoveLoad(p)
  BY <1>2 DEF RemoveLoad
<1>3. CASE RotateLoad(p)
  BY <1>3 DEF RotateLoad
<1>4. QED
  BY <1>1, <1>2, <1>3

\* Once its copy has replaced the store, the command has achieved what it reports.
LEMMA ReadyIsAchieved ==
    ASSUME Inv, NEW p \in Procs, Replace(p), Ready(p)
    PROVE  Achieved(cmd[p], live')
<1>1. live' = value[p] /\ cmd[p] \in Commands /\ live \in Images
  BY ReplaceInv DEF Inv, TypeOK, StoreComplete, Replace, Prepared
<1>2. CASE cmd[p].op = "add"
  BY <1>1, <1>2, CommandFields DEF Ready, Achieved, WithProfile, Images
<1>3. CASE cmd[p].op = "remove"
  <2>1. cmd[p].name \in Names
    BY <1>1, <1>3, CommandFields
  <2>2. live' = [live EXCEPT ![cmd[p].name] = NoProfile]
    BY <1>1, <1>3 DEF Ready
  <2>3. live'[cmd[p].name] = NoProfile
    BY <1>1, <2>1, <2>2 DEF Images
  <2>4. QED
    BY <1>3, <2>3 DEF Achieved
<1>4. CASE cmd[p].op = "rotate"
  BY <1>1, <1>4, CommandFields, RekeyedIsUnderKey DEF Ready, Achieved
<1>5. QED
  BY <1>2, <1>3, <1>4 DEF Achieved

\* What a step of p does to the control of all processes.
LEMMA StepIsLocal ==
    ASSUME Inv, NEW p \in Procs, Begin(p) \/ Step(p)
    PROVE  /\ \A q \in Procs : q # p => pc'[q] = pc[q] /\ cmd'[q] = cmd[q] /\ value'[q] = value[q]
           /\ Begin(p) \/ Running(p)
           /\ live' = live \/ Replace(p)
<1> USE DEF Inv, TypeOK, Goto, Return, Running, disk, Keep, Refuse
<1>1. CASE Begin(p)
  BY <1>1 DEF Begin
<1>2. CASE Get(p) \/ LoadFails(p)
  BY <1>2 DEF Get, LoadFails
<1>3. CASE AddLoad(p) \/ RemoveLoad(p) \/ RotateLoad(p)
  BY <1>3 DEF AddLoad, RemoveLoad, RotateLoad
<1>4. CASE CreateTemp(p) \/ CreateFails(p) \/ Dump(p) \/ Sync(p) \/ Replace(p)
  BY <1>4 DEF CreateTemp, CreateFails, Dump, Sync, Replace
<1>5. CASE Chmod(p) \/ WriteFails(p) \/ Cleanup(p) \/ Kill(p)
  BY <1>5 DEF Chmod, WriteFails, Cleanup, Kill
<1>6. QED
  BY <1>1, <1>2, <1>3, <1>4, <1>5 DEF Step

\* Where a step can bring its own process to the later steps of _write_raw.
LEMMA StepLabels ==
    ASSUME Inv, NEW p \in Procs, Begin(p) \/ Step(p)
    PROVE  /\ pc'[p] = "create" => AddLoad(p) \/ RemoveLoad(p) \/ RotateLoad(p)
           /\ pc'[p] \in {"dump", "sync", "replace"} =>
                /\ pc[p] \in {"create", "dump", "sync"}
                /\ UNCHANGED <<live, cmd, value>>
           /\ pc'[p] = "chmod" => Replace(p)
<1> USE DEF Inv, TypeOK, Goto, Return, disk, Keep, Refuse
<1>1. CASE Begin(p)
  BY <1>1 DEF Begin
<1>2. CASE Get(p) \/ LoadFails(p)
  BY <1>2 DEF Get, LoadFails
<1>3. CASE AddLoad(p) \/ RemoveLoad(p) \/ RotateLoad(p)
  BY <1>3 DEF AddLoad, RemoveLoad, RotateLoad
<1>4. CASE CreateTemp(p) \/ CreateFails(p) \/ Dump(p) \/ Sync(p) \/ Replace(p)
  BY <1>4 DEF CreateTemp, CreateFails, Dump, Sync, Replace
<1>5. CASE Chmod(p) \/ WriteFails(p) \/ Cleanup(p) \/ Kill(p)
  BY <1>5 DEF Chmod, WriteFails, Cleanup, Kill
<1>6. QED
  BY <1>1, <1>2, <1>3, <1>4, <1>5 DEF Step

LEMMA SerialNextInv == SerialInv /\ [SerialNext]_vars => SerialInv'
<1> SUFFICES ASSUME SerialInv, [SerialNext]_vars PROVE SerialInv'
  OBVIOUS
<1>0. Inv /\ Inv'
  BY NextInv, SerialNextIsNext DEF SerialInv
<1>1. CASE UNCHANGED vars
  BY <1>0, <1>1 DEF vars, SerialInv, OneRuns, CopiesAreCurrent, WritesAreDone, Running, Ready
<1>2. CASE PowerLoss
  <2>1. \A p \in Procs : pc'[p] \in {"idle", "done", "dead"}
    BY <1>0, <1>2 DEF PowerLoss, Running, Inv, TypeOK
  <2>2. QED
    BY <1>0, <2>1 DEF SerialInv, OneRuns, CopiesAreCurrent, WritesAreDone, Running
<1>3. ASSUME NEW p \in Procs, BeginAlone(p) \/ Step(p)
      PROVE  SerialInv'
  <2>1. \A q \in Procs : q # p =>
           /\ ~Running(q)
           /\ pc'[q] = pc[q]
    <3> TAKE q \in Procs
    <3> HAVE q # p
    <3>1. pc'[q] = pc[q]
      BY <1>0, <1>3, StepIsLocal DEF BeginAlone
    <3>2. CASE BeginAlone(p)
      BY <3>1, <3>2 DEF BeginAlone
    <3>3. CASE Step(p)
      <4>1. Begin(p) \/ Running(p)
        BY <1>0, <3>3, StepIsLocal
      <4>2. ~Begin(p)
        BY <3>3 DEF Begin, Step, Get, LoadFails, AddLoad, RemoveLoad, RotateLoad, CreateTemp,
                    CreateFails, Dump, Sync, Replace, Chmod, WriteFails, Cleanup, Kill, Running
      <4>3. QED
        BY <3>1, <4>1, <4>2 DEF SerialInv, OneRuns
    <3>4. QED
      BY <1>3, <3>2, <3>3
  <2>2. OneRuns'
    BY <2>1 DEF OneRuns, Running
  <2>3. CopiesAreCurrent'
    <3> SUFFICES ASSUME NEW q \in Procs, pc'[q] \in {"create", "dump", "sync", "replace"}
                 PROVE  Ready(q)'
      BY DEF CopiesAreCurrent
    <3>1. q = p
      BY <2>1 DEF Running
    <3>2. CASE pc'[p] = "create"
      BY <1>0, <1>3, <3>1, <3>2, StepLabels, LoadIsReady DEF BeginAlone
    <3>3. CASE pc'[p] \in {"dump", "sync", "replace"}
      <4>1. Ready(p) /\ UNCHANGED <<live, cmd, value>>
        BY <1>0, <1>3, <3>3, StepLabels DEF BeginAlone, SerialInv, CopiesAreCurrent
      <4>2. QED
        BY <3>1, <4>1 DEF Ready
    <3>4. QED
      BY <3>1, <3>2, <3>3
  <2>4. WritesAreDone'
    <3> SUFFICES ASSUME NEW q \in Procs, pc'[q] = "chmod"
                 PROVE  Achieved(cmd'[q], live')
      BY DEF WritesAreDone
    <3>1. q = p /\ Replace(p)
      BY <1>0, <1>3, <2>1, StepLabels DEF BeginAlone, Running
    <3>2. Ready(p) /\ cmd' = cmd
      BY <3>1 DEF SerialInv, CopiesAreCurrent, Replace
    <3>3. QED
      BY <1>0, <3>1, <3>2, ReadyIsAchieved
  <2>5. QED
    BY <1>0, <2>2, <2>3, <2>4 DEF SerialInv
<1>4. QED
  BY <1>1, <1>2, <1>3 DEF SerialNext

\* A replace is the whole command, applied to the book; every other step of a
\* process leaves the book alone.
LEMMA ReplaceIsBookStep ==
    ASSUME SerialInv, NEW p \in Procs, Replace(p)
    PROVE  Book!Next
<1>1. /\ Ready(p) /\ Prepared(p) /\ cmd[p] \in Commands
      /\ live' = value[p] /\ durable' = durable \cup {live'}
  BY ReplaceInv DEF SerialInv, CopiesAreCurrent, Inv, TypeOK, Replace, OnDisk, Prepared
<1>2. CASE cmd[p].op = "add"
  BY <1>1, <1>2, CommandFields
     DEF Ready, Book!Next, Book!Add, Book!Become, WithProfile, Book!WithProfile,
         Present, Book!Present
<1>3. CASE cmd[p].op = "remove"
  <2>1. cmd[p].name \in Names
    BY <1>1, <1>3, CommandFields
  <2>2. Book!Remove(cmd[p].name)
    BY <1>1, <1>3 DEF Ready, Book!Remove, Book!Become, Present, Book!Present
  <2>3. QED
    BY <2>1, <2>2 DEF Book!Next
<1>4. CASE cmd[p].op = "rotate"
  <2>1. cmd[p].key \in Keys /\ cmd[p].newKey \in Keys
    BY <1>1, <1>4, CommandFields
  <2>2. Book!Rotate(cmd[p].key, cmd[p].newKey)
    BY <1>1, <1>4
       DEF Ready, Book!Rotate, Book!Become, Rekeyed, Book!Rekeyed,
           UnderKey, Book!UnderKey, Present, Book!Present
  <2>3. QED
    BY <2>1, <2>2 DEF Book!Next
<1>5. QED
  BY <1>1, <1>2, <1>3, <1>4 DEF Prepared

LEMMA StepIsBookStep ==
    ASSUME SerialInv, [SerialNext]_vars
    PROVE  [Book!Next]_<<live, durable>>
<1>1. CASE PowerLoss
  BY <1>1 DEF PowerLoss, Book!Next, Book!PowerLoss
<1>2. ASSUME NEW p \in Procs, Replace(p) PROVE Book!Next
  BY <1>2, ReplaceIsBookStep
<1>3. ASSUME NEW p \in Procs, BeginAlone(p) \/ Step(p), ~Replace(p)
      PROVE  UNCHANGED <<live, durable>>
  BY <1>3 DEF BeginAlone, Begin, Step, Get, LoadFails, AddLoad, RemoveLoad, RotateLoad, CreateTemp,
              CreateFails, Dump, Sync, Chmod, WriteFails, Cleanup, Kill, disk
<1>4. CASE UNCHANGED vars
  BY <1>4 DEF vars, disk
<1>5. QED
  BY <1>1, <1>2, <1>3, <1>4 DEF SerialNext

\* For one caller at a time, the store is a book that changes in whole commands.
THEOREM SerialStoreImplementsBook == SerialSpec => SerialStoreIsABook
<1>1. Init => Book!Init
  BY DEF Init, Book!Init, EmptyStore, Book!EmptyStore
<1>2. QED
  BY <1>1, SerialInit, SerialNextInv, StepIsBookStep, PTL DEF SerialSpec, SerialStoreIsABook, Book!Spec

\* For one caller at a time, a success that is reported is a success that happened.
THEOREM SerialSuccessIsTrue == SerialSpec => SuccessIsTrue
<1>1. ASSUME SerialInv, [SerialNext]_vars
      PROVE  [\A p \in Procs : result[p] = "none" /\ result'[p] = "ok"
                               => Achieved(cmd[p], live')]_vars
  <2> SUFFICES ASSUME NEW p \in Procs, result[p] = "none", result'[p] = "ok", ~UNCHANGED vars
               PROVE  Achieved(cmd[p], live')
    OBVIOUS
  <2>1. PICK q \in Procs : BeginAlone(q) \/ Step(q)
    BY <1>1 DEF SerialNext, PowerLoss
  <2>2. q = p /\ (Get(p) \/ Chmod(p))
    BY <1>1, <2>1 DEF SerialInv, Inv, TypeOK, BeginAlone, Begin, Step, Get, LoadFails, AddLoad,
       RemoveLoad, RotateLoad, CreateTemp, CreateFails, Dump, Sync, Replace, Chmod,
       WriteFails, Cleanup, Kill, disk, Return, Refuse, Keep
  <2>3. CASE Get(p)
    <3>1. cmd[p].op \notin {"add", "remove", "rotate"}
      BY <2>3, <1>1 DEF Get, SerialInv, Inv, TypeOK, Return, Goto
    <3>2. QED
      BY <3>1 DEF Achieved
  <2>4. CASE Chmod(p)
    BY <2>4, <1>1 DEF Chmod, SerialInv, WritesAreDone, disk
  <2>5. QED
    BY <2>2, <2>3, <2>4
<1>2. QED
  BY <1>1, SerialInit, SerialNextInv, PTL DEF SerialSpec, SuccessIsTrue

\* For one caller at a time, an existing profile is replaced only with --replace:
\* the profile that add has looked for is the one that its replace overwrites.
THEOREM SerialReplaceIsExplicit == SerialSpec => ReplaceIsExplicit
<1>1. ASSUME SerialInv
      PROVE  [\A p \in Procs : Replace(p) /\ cmd[p].op = "add" /\ cmd[p].name \in Present(live)
                               => cmd[p].replace]_vars
  BY <1>1 DEF SerialInv, CopiesAreCurrent, Ready, Replace
<1>2. QED
  BY <1>1, SerialInit, SerialNextInv, PTL DEF SerialSpec, ReplaceIsExplicit

==============================================================================
