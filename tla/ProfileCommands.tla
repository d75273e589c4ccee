--------------------------- MODULE ProfileCommands ---------------------------
(***************************************************************************)
(* The profile commands of src/cpanel_admin/cli.py (_run_profiles): the    *)
(* profile store used by an operator who plans and confirms removals and   *)
(* rotates the key, one command at a time, with the Confirmation service   *)
(* between the operator and ProfileStore.remove.                           *)
(*                                                                         *)
(*   cli      each invocation: its stage, its command and options, the key *)
(*            in its environment, the profile it showed or verified, when  *)
(*            it verified, and its result if it ends without the store     *)
(*   plans    the plans that dry runs have printed                         *)
(*   active   the key in the operator's environment                        *)
(*   held     the keys the operator still has: the active one and those    *)
(*            given to rotations that have not been promoted               *)
(*   reverted a power loss has brought back an older version of the store  *)
(*                                                                         *)
(* I/O errors, kills and power losses strike as in ProfileStore.           *)
(***************************************************************************)
EXTENDS ProfileStore, Confirmation

CONSTANTS
    Public,    \* host and user name of an account: what public_dict shows of it
    MaxTime    \* bound on the clock

ASSUME CommandAssumption == MaxTime \in Nat

VARIABLES cli, plans, active, held, clock, reverted

cliVars == <<cli, plans, active, held, clock, reverted>>
allVars == <<vars, cliVars>>

Idle == [stage |-> "idle", cmd |-> NoCommand, dry |-> FALSE, confirm |-> NoDigest,
         expires |-> NoTime, key |-> NoCommand, shown |-> NoProfile, verified |-> NoTime,
         result |-> "none"]

CliInit ==
    /\ Init
    /\ cli = [p \in Procs |-> Idle]
    /\ plans = {}
    /\ active \in Keys
    /\ held = {active}
    /\ clock = 0
    /\ reverted = FALSE

------------------------------------------------------------------------------
(* One invocation.                                                          *)

\* A rotation that has succeeded and whose key has not been promoted yet.
Rotated(p) ==
    cli[p].stage = "store" /\ cmd[p].op = "rotate" /\ pc[p] = "done" /\ result[p] = "ok"

\* The operator waits for each command, and promotes the new key before anything
\* else once a rotation has succeeded, as the README has it.
Alone == \A q \in Procs : /\ ~Running(q)
                          /\ cli[q].stage \notin {"get", "verify"}
                          /\ ~Rotated(q)

\* ConfirmationService signs with the key of the environment.
Invoke(p) ==
    /\ cli[p].stage = "idle" /\ Alone
    /\ \/ \E c \in Menu :
            /\ c.op \in {"add", "rotate"} => c.key = active
            /\ c.op # "remove"
            /\ Begin(p) /\ cmd'[p] = c
            /\ cli' = [cli EXCEPT ![p] = [Idle EXCEPT !.stage = "store", !.cmd = c, !.key = active]]
            /\ held' = IF c.op = "rotate" THEN held \cup {c.newKey} ELSE held
       \/ \E c \in {d \in Menu : d.op = "remove"}, dry \in BOOLEAN,
             confirm \in {plan.digest : plan \in plans} \cup {NoDigest},
             expires \in {plan.expires : plan \in plans} \cup {NoTime} :
            /\ dry => confirm = NoDigest /\ expires = NoTime
            /\ cli' = [cli EXCEPT ![p] =
                        [Idle EXCEPT !.stage = "get", !.cmd = c, !.dry = dry, !.key = active,
                                     !.confirm = confirm, !.expires = expires]]
            /\ UNCHANGED <<vars, held>>
    /\ UNCHANGED <<plans, active, clock, reverted>>

PublicDict(name, profile) == [name |-> name, public |-> Public[profile.account]]

\* The command ends with no further call of the store.
End(p, r) == /\ cli' = [cli EXCEPT ![p].stage = "done", ![p].result = r]
             /\ UNCHANGED vars

\* The first of the three loads of a removal, whose public fields are planned
\* or verified.  It fails for an unknown name, and may for any when the file
\* cannot be read.
RemoveGet(p) ==
    /\ cli[p].stage = "get"
    /\ LET name == cli[p].cmd.name
       IN  \/ /\ Found(name)
              /\ cli' = [cli EXCEPT ![p].stage = "verify", ![p].shown = PublicDict(name, live[name])]
              /\ UNCHANGED vars
           \/ End(p, "config")
    /\ UNCHANGED <<plans, active, held, clock, reverted>>

RemovePlan(p) ==
    /\ cli[p].stage = "verify" /\ cli[p].dry
    /\ plans' = plans \cup {Plan(cli[p].key, cli[p].cmd.name, "profiles.remove",
                                 cli[p].shown, clock)}
    /\ End(p, "ok")
    /\ UNCHANGED <<active, held, clock, reverted>>

\* Mutant of RemoveVerify: the plan is made out for the name alone.
RemoveVerifyName(p) ==
    /\ cli[p].stage = "verify" /\ ~cli[p].dry
    /\ IF \E shown \in {plan.digest.parameters : plan \in plans} :
            Verify(cli[p].key, cli[p].confirm, cli[p].cmd.name, "profiles.remove",
                   shown, cli[p].expires, clock)
       THEN /\ Begin(p) /\ cmd'[p] = cli[p].cmd
            /\ cli' = [cli EXCEPT ![p].stage = "store", ![p].verified = clock]
       ELSE End(p, "confirmation")
    /\ UNCHANGED <<plans, active, held, clock, reverted>>

\* ProfileStore.remove is called with the name that was verified; it loads twice.
RemoveVerify(p) ==
    /\ cli[p].stage = "verify" /\ ~cli[p].dry
    /\ IF Verify(cli[p].key, cli[p].confirm, cli[p].cmd.name, "profiles.remove",
                 cli[p].shown, cli[p].expires, clock)
       THEN /\ Begin(p) /\ cmd'[p] = cli[p].cmd
            /\ cli' = [cli EXCEPT ![p].stage = "store", ![p].verified = clock]
       ELSE End(p, "confirmation")
    /\ UNCHANGED <<plans, active, held, clock, reverted>>

\* The method of the store runs.
Store(p) == cli[p].stage = "store" /\ Step(p) /\ UNCHANGED cliVars

------------------------------------------------------------------------------
(* The operator.                                                            *)

\* The old key is given up when the rotation has succeeded.
Promote(p) ==
    /\ Rotated(p)
    /\ cli' = [cli EXCEPT ![p].stage = "done"]
    /\ active' = cmd[p].newKey
    /\ held' = {cmd[p].newKey}
    /\ UNCHANGED <<vars, plans, clock, reverted>>

Tick == /\ clock < MaxTime
        /\ clock' = clock + 1
        /\ UNCHANGED <<vars, cli, plans, active, held, reverted>>

\* The power fails: nothing runs on, and what the store is afterwards may be older.
PowerFails ==
    /\ PowerLoss
    /\ cli' = [p \in Procs |-> IF cli[p].stage \in {"get", "verify"}
                               THEN [cli[p] EXCEPT !.stage = "done"] ELSE cli[p]]
    /\ reverted' = (reverted \/ live' # live)
    /\ UNCHANGED <<plans, active, held, clock>>

CliNext ==
    \/ Tick
    \/ PowerFails
    \/ \E p \in Procs : Invoke(p) \/ RemoveGet(p) \/ RemovePlan(p) \/ RemoveVerify(p)
                        \/ Store(p) \/ Promote(p)

CliSpec == CliInit /\ [][CliNext]_allVars

------------------------------------------------------------------------------
(* Properties.                                                              *)

\* What a removal deletes is what the plan it was confirmed with has shown, under
\* the key the operator uses now: a profile replaced since, a rotation of the key
\* or the end of the plan's life make the plan useless.  (For an operator who runs
\* one command at a time; the code loads the profile three times.)
RemovedAsPlanned ==
    [][\A p \in Procs :
         Replace(p) /\ cmd[p].op = "remove" =>
            \E plan \in plans :
                /\ plan.digest = Sign(active, cmd[p].name, "profiles.remove",
                                      PublicDict(cmd[p].name, live[cmd[p].name]), plan.expires)
                /\ cli[p].verified <= plan.expires]_allVars

\* The README has the operator keep the old key until a rotation has succeeded and
\* promote the new one then: whatever fails or is killed on the way, every token
\* in the store is under a key that the operator still has, and without a fault
\* they are all under the active one whenever no command runs.  (A power loss after
\* a promotion may bring back the store from before: the code syncs no directory.)
NoTokenIsOrphaned ==
    /\ ~reverted => \A n \in Present(live) : live[n].key \in held
    /\ faults = 0 /\ Alone => UnderKey(live, active)
==============================================================================
