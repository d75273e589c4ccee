---------------------------- MODULE OperationRun ----------------------------
(***************************************************************************)
(* _run_operation of src/cpanel_admin/cli.py: how a command line           *)
(* invocation plans, confirms and executes one cPanel operation, while     *)
(* other invocations and the rest of the world go on.                      *)
(*                                                                         *)
(* A process is one invocation.  It reads the profile store, the key, the  *)
(* upload source, the remote file listing and the clock one after the      *)
(* other, and any of them can change in between.  What happens at the      *)
(* server is apart from what the client hears of it: a request can be      *)
(* executed after the client gave up, or be lost.                          *)
(*                                                                         *)
(*   profiles   the profile store (ProfileStore; its commands are atomic   *)
(*              here, as they are for callers who do not overlap)          *)
(*   activeKey  the Fernet key in the environment or the key file          *)
(*   source     the content of the local file that uploads send            *)
(*   remote     each account's target file: 0 when there is none, else a   *)
(*              version, which stands for its size and modification time   *)
(*   requests   requests that have left a client and not been answered     *)
(*   answers    what the server answered                                   *)
(*   effects    mutations that took place, a history                       *)
(*   plans      plans that were issued, with what they were made from      *)
(*                                                                         *)
(* A value stands for the parameters of an operation as a plan binds them: *)
(* a name, or the hash and length of a content, which determine it.        *)
(***************************************************************************)
EXTENDS ProfileData, Confirmation, Operations

CONSTANTS
    Procs,          \* invocations of the command line
    Ops,            \* the operations they run
    Values,
    HiddenTarget,   \* the target's name starts with a dot
    NoCommand, NoListing,
    InitialProfiles,
    MaxTime, MaxEdits   \* bounds on the clock and on changes made by others

VARIABLES
    profiles, activeKey, source, remote, stamp, clock, edits,
    cmd, pc, profile, key, value, listing, granted, result,
    requests, answers, effects, plans

world == <<profiles, activeKey, source, remote, stamp, clock, edits>>
network == <<requests, answers, effects>>
inputs == <<profile, key, value, listing>>
vars == <<world, network, cmd, pc, inputs, granted, result, plans>>

\* Fileman/list_files leaves out hidden files unless it is asked for them, and
\* the preflight does not ask.
Listed(version) == IF HiddenTarget THEN 0 ELSE version

Listings == [shown : Nat, actual : Nat]
Parameters == [value : Values, preflight : Nat \cup {NoListing}]
Digests == [key : Keys, profile : Names, operation : Ops, parameters : Parameters,
            expires : Nat]
Plans == [digest : Digests, account : Accounts, listing : Listings \cup {NoListing}]
Commands == [profile : Names, operation : Ops, value : Values, dryRun : BOOLEAN,
             confirm : Digests \cup {NoDigest}, expires : Nat \cup {NoTime}]
Requests == [by : Procs, account : Accounts, operation : Ops, value : Values]
Effects == [by : Procs, account : Accounts, operation : Ops, value : Values]

ASSUME RunAssumption ==
    /\ Ops \subseteq OPERATIONS
    /\ HiddenTarget \in BOOLEAN
    /\ InitialProfiles \in Images
    /\ MaxTime \in Nat /\ MaxEdits \in Nat
    /\ NoListing \notin Nat /\ NoListing \notin Listings
    /\ NoDigest \notin Digests /\ NoCommand \notin Commands
    /\ NoTime \notin Nat

Init ==
    /\ profiles = InitialProfiles
    /\ activeKey \in {k \in Keys : UnderKey(InitialProfiles, k)}
    /\ source \in Values
    /\ remote = [a \in Accounts |-> 0]
    /\ stamp = 0 /\ clock = 0 /\ edits = 0
    /\ cmd = [p \in Procs |-> NoCommand]
    /\ pc = [p \in Procs |-> "idle"]
    /\ profile = [p \in Procs |-> NoProfile]
    /\ key = [p \in Procs |-> activeKey]
    /\ value = [p \in Procs |-> source]
    /\ listing = [p \in Procs |-> NoListing]
    /\ granted = [p \in Procs |-> NoTime]
    /\ result = [p \in Procs |-> "none"]
    /\ requests = {} /\ effects = {} /\ plans = {}
    /\ answers = [p \in Procs |-> "none"]

Goto(p, label) == pc' = [pc EXCEPT ![p] = label]
Return(p, r) == Goto(p, "done") /\ result' = [result EXCEPT ![p] = r]
Proceed(p, label) == Goto(p, label) /\ UNCHANGED result

Risky(p) == cmd[p].operation \in DestructiveOperations

------------------------------------------------------------------------------
(* The steps of an invocation, in the order of _run_operation.              *)

\* The operator runs a dry run, or the real command with a digest and an expiry
\* taken from plans, not necessarily from the same one; either can be left
\* out.  In a dry run and for other operations they are not looked at, and not given.
Begin(p) ==
    /\ pc[p] = "idle"
    /\ \E n \in Names, op \in Ops, v \in Values, dry \in BOOLEAN,
          d \in {x.digest : x \in plans} \cup {NoDigest},
          t \in {x.digest.expires : x \in plans} \cup {NoTime} :
         /\ dry \/ op \notin DestructiveOperations => d = NoDigest /\ t = NoTime
         /\ cmd' = [cmd EXCEPT ![p] = [profile |-> n, operation |-> op, value |-> v,
                                       dryRun |-> dry, confirm |-> d, expires |-> t]]
    /\ Goto(p, "profile")
    /\ UNCHANGED <<world, network, inputs, granted, result, plans>>

\* Mutant of GetProfile: a profile that is gone is not refused.
GetProfileUnchecked(p) ==
    /\ pc[p] = "profile"
    /\ profile' = [profile EXCEPT ![p] = profiles[cmd[p].profile]]
    /\ Proceed(p, "key")
    /\ UNCHANGED <<world, network, cmd, key, value, listing, granted, plans>>

GetProfile(p) ==
    /\ pc[p] = "profile"
    /\ IF cmd[p].profile \in Present(profiles)
       THEN /\ profile' = [profile EXCEPT ![p] = profiles[cmd[p].profile]]
            /\ Proceed(p, "key")
       ELSE Return(p, "config") /\ UNCHANGED profile
    /\ UNCHANGED <<world, network, cmd, key, value, listing, granted, plans>>

\* SecretCodec.from_environment, then decrypt: the token opens only under the
\* key it was encrypted with.
ReadKey(p) ==
    /\ pc[p] = "key"
    /\ key' = [key EXCEPT ![p] = activeKey]
    /\ IF profile[p].key = activeKey THEN Proceed(p, "content") ELSE Return(p, "config")
    /\ UNCHANGED <<world, network, cmd, profile, value, listing, granted, plans>>

\* An upload's source is read here, once: these bytes are hashed for the plan
\* or for its verification, and these bytes are sent.
ReadContent(p) ==
    /\ pc[p] = "content"
    /\ value' = [value EXCEPT ![p] =
                   IF cmd[p].operation \in Uploads THEN source ELSE cmd[p].value]
    /\ Proceed(p, IF cmd[p].operation \in Preflighted THEN "preflight" ELSE "decide")
    /\ UNCHANGED <<world, network, cmd, profile, key, listing, granted, plans>>

Preflight(p) ==
    /\ pc[p] = "preflight"
    /\ LET version == remote[profile[p].account]
       IN  listing' = [listing EXCEPT ![p] = [shown |-> Listed(version), actual |-> version]]
    /\ Proceed(p, "decide")
    /\ UNCHANGED <<world, network, cmd, profile, key, value, granted, plans>>

\* Input that is not valid; a store, key or source that cannot be read; a
\* listing that does not arrive.
InputFails(p) ==
    /\ \/ pc[p] = "profile" /\ Return(p, "usage")
       \/ pc[p] \in {"profile", "key"} /\ Return(p, "config")
       \/ pc[p] = "content" /\ cmd[p].operation \in Uploads /\ Return(p, "usage")
       \/ pc[p] = "preflight" /\ \E r \in {"transport", "uapi", "internal"} : Return(p, r)
    /\ UNCHANGED <<world, network, cmd, inputs, granted, plans>>

\* The safe parameters that a plan shows and a digest binds.
SafeParameters(p) ==
    [value |-> value[p],
     preflight |-> IF listing[p] = NoListing THEN NoListing ELSE listing[p].shown]

DryRun(p) ==
    /\ pc[p] = "decide" /\ cmd[p].dryRun
    /\ plans' = IF Risky(p)
                THEN plans \cup
                     {[digest |-> Plan(key[p], cmd[p].profile, cmd[p].operation,
                                       SafeParameters(p), clock).digest,
                       account |-> profile[p].account,
                       listing |-> listing[p]]}
                ELSE plans
    /\ Return(p, "ok")
    /\ UNCHANGED <<world, network, cmd, inputs, granted>>

Confirmed(p) == Verify(key[p], cmd[p].confirm, cmd[p].profile, cmd[p].operation,
                       SafeParameters(p), cmd[p].expires, clock)

\* Mutant of Authorise: a dry run returns early for destructive operations only.
AuthoriseDryMutation(p) ==
    /\ pc[p] = "decide" /\ ~(cmd[p].dryRun /\ Risky(p))
    /\ IF ~Risky(p) THEN Proceed(p, "send") /\ UNCHANGED granted
       ELSE IF Confirmed(p)
            THEN Proceed(p, "send") /\ granted' = [granted EXCEPT ![p] = clock]
            ELSE Return(p, "confirmation") /\ UNCHANGED granted
    /\ UNCHANGED <<world, network, cmd, inputs, plans>>

Authorise(p) ==
    /\ pc[p] = "decide" /\ ~cmd[p].dryRun
    /\ IF ~Risky(p) THEN Proceed(p, "send") /\ UNCHANGED granted
       ELSE IF Confirmed(p)
            THEN Proceed(p, "send") /\ granted' = [granted EXCEPT ![p] = clock]
            ELSE Return(p, "confirmation") /\ UNCHANGED granted
    /\ UNCHANGED <<world, network, cmd, inputs, plans>>

\* Mutant of RefuseUpload: the file name is checked when the request is under way.
RefuseUploadLate(p) ==
    /\ pc[p] = "waiting" /\ cmd[p].operation \in Uploads
    /\ Return(p, "usage")
    /\ UNCHANGED <<world, network, cmd, inputs, granted, plans>>

\* An upload whose file name cannot be sent is refused only here.
RefuseUpload(p) ==
    /\ pc[p] = "send" /\ cmd[p].operation \in Uploads
    /\ Return(p, "usage")
    /\ UNCHANGED <<world, network, cmd, inputs, granted, plans>>

\* Mutant of Send: the upload source is read again for the request.
SendReread(p) ==
    /\ pc[p] = "send"
    /\ requests' = requests \cup
         {[by |-> p, account |-> profile[p].account, operation |-> cmd[p].operation,
           value |-> IF cmd[p].operation \in Uploads THEN source ELSE value[p]]}
    /\ Proceed(p, "waiting")
    /\ UNCHANGED <<world, answers, effects, cmd, inputs, granted, plans>>

Send(p) ==
    /\ pc[p] = "send"
    /\ requests' = requests \cup
         {[by |-> p, account |-> profile[p].account,
           operation |-> cmd[p].operation, value |-> value[p]]}
    /\ Proceed(p, "waiting")
    /\ UNCHANGED <<world, answers, effects, cmd, inputs, granted, plans>>

\* Mutant of Receive: the status in the answer is not looked at.
ReceiveAnyStatus(p) ==
    /\ pc[p] = "waiting" /\ answers[p] # "none"
    /\ Return(p, "ok")
    /\ UNCHANGED <<world, network, cmd, inputs, granted, plans>>

\* The answer of the server; printing the result may fail after that.
Receive(p) ==
    /\ pc[p] = "waiting" /\ answers[p] # "none"
    /\ \/ Return(p, answers[p])
       \/ answers[p] = "ok" /\ Return(p, "internal")
    /\ UNCHANGED <<world, network, cmd, inputs, granted, plans>>

\* Mutant of GiveUp: a request without an answer is waited for forever.
GiveUpWithAnswer(p) ==
    /\ pc[p] = "waiting" /\ answers[p] # "none"
    /\ Return(p, "transport")
    /\ UNCHANGED <<world, network, cmd, inputs, granted, plans>>

\* A timeout, a connection error or a response that cannot be used (Transport),
\* whether or not the server has executed the request or will.
GiveUp(p) ==
    /\ pc[p] = "waiting"
    /\ \E r \in {"transport", "internal"} : Return(p, r)
    /\ UNCHANGED <<world, network, cmd, inputs, granted, plans>>

Step(p) == \/ GetProfile(p) \/ ReadKey(p) \/ ReadContent(p) \/ Preflight(p)
           \/ InputFails(p) \/ DryRun(p) \/ Authorise(p) \/ RefuseUpload(p)
           \/ Send(p) \/ Receive(p) \/ GiveUp(p)

------------------------------------------------------------------------------
(* The server and the network.                                              *)

Mutates(r) == r.operation \notin ReadOperations

\* The server executes a request and answers that it did.
Execute(r) ==
    /\ r \in requests
    /\ requests' = requests \ {r}
    /\ effects' = IF Mutates(r) THEN effects \cup {r} ELSE effects
    /\ IF r.operation \in Preflighted
       THEN stamp' = stamp + 1 /\ remote' = [remote EXCEPT ![r.account] = stamp']
       ELSE UNCHANGED <<stamp, remote>>
    /\ answers' = [answers EXCEPT ![r.by] = "ok"]
    /\ UNCHANGED <<profiles, activeKey, source, clock, edits, cmd, pc, inputs, granted,
                   result, plans>>

\* The server refuses a request, or it never arrives.
Drop(r) ==
    /\ r \in requests
    /\ requests' = requests \ {r}
    /\ \/ answers' = [answers EXCEPT ![r.by] = "uapi"]
       \/ UNCHANGED answers
    /\ UNCHANGED <<world, effects, cmd, pc, inputs, granted, result, plans>>

------------------------------------------------------------------------------
(* Everybody else.                                                          *)

Tick == /\ clock < MaxTime
        /\ clock' = clock + 1
        /\ UNCHANGED <<profiles, activeKey, source, remote, stamp, edits, network, cmd, pc,
                       inputs, granted, result, plans>>

Edit == edits < MaxEdits /\ edits' = edits + 1

\* profiles add --replace, profiles remove, profiles rotate-key.
EditProfiles ==
    /\ Edit
    /\ \/ \E n \in Present(profiles) :
            \/ \E a \in Accounts : profiles' = WithProfile(profiles, n, a, activeKey)
            \/ profiles' = [profiles EXCEPT ![n] = NoProfile]
       \/ UnderKey(profiles, activeKey) /\ \E k \in Keys : profiles' = Rekeyed(profiles, k)
    /\ UNCHANGED <<activeKey, source, remote, stamp, clock, network, cmd, pc, inputs,
                   granted, result, plans>>

\* After a rotation the operator promotes the new key.
PromoteKey ==
    /\ \E k \in Keys \ {activeKey} :
         /\ Present(profiles) # {} /\ UnderKey(profiles, k)
         /\ activeKey' = k
    /\ UNCHANGED <<profiles, source, remote, stamp, clock, edits, network, cmd, pc, inputs,
                   granted, result, plans>>

EditSource ==
    /\ Edit
    /\ source' \in Values \ {source}
    /\ UNCHANGED <<profiles, activeKey, remote, stamp, clock, network, cmd, pc, inputs,
                   granted, result, plans>>

\* The target file is written or deleted by other means than this program.
EditRemote ==
    /\ Edit
    /\ stamp' = stamp + 1
    /\ \E a \in Accounts, version \in {0, stamp'} : remote' = [remote EXCEPT ![a] = version]
    /\ UNCHANGED <<profiles, activeKey, source, clock, network, cmd, pc, inputs, granted,
                   result, plans>>

Kill(p) == /\ pc[p] \notin {"idle", "done", "dead"}
           /\ Goto(p, "dead")
           /\ UNCHANGED <<world, network, cmd, inputs, granted, result, plans>>

Next == \/ \E p \in Procs : Begin(p) \/ Step(p) \/ Kill(p)
        \/ \E r \in requests : Execute(r) \/ Drop(r)
        \/ Tick \/ EditProfiles \/ PromoteKey \/ EditSource \/ EditRemote

Spec == Init /\ [][Next]_vars

\* A started invocation keeps running: its reads end, and its network calls are
\* given a timeout of at most 120 seconds.
Fairness == \A p \in Procs : WF_vars(Step(p))
FairSpec == Spec /\ Fairness

------------------------------------------------------------------------------
(* Properties.                                                              *)

Labels == {"idle", "profile", "key", "content", "preflight", "decide", "send", "waiting",
           "done", "dead"}
Answers == {"none", "ok", "uapi"}
Results == Answers \cup {"usage", "config", "confirmation", "transport", "internal"}

TypeOK ==
    /\ profiles \in Images /\ activeKey \in Keys /\ source \in Values
    /\ remote \in [Accounts -> Nat] /\ stamp \in Nat
    /\ clock \in 0..MaxTime /\ edits \in 0..MaxEdits
    /\ cmd \in [Procs -> Commands \cup {NoCommand}]
    /\ pc \in [Procs -> Labels]
    /\ profile \in [Procs -> Profiles \cup {NoProfile}]
    /\ key \in [Procs -> Keys]
    /\ value \in [Procs -> Values]
    /\ listing \in [Procs -> Listings \cup {NoListing}]
    /\ granted \in [Procs -> Nat \cup {NoTime}]
    /\ result \in [Procs -> Results]
    /\ requests \subseteq Requests /\ effects \subseteq Effects
    /\ answers \in [Procs -> Answers]
    /\ plans \subseteq Plans
    /\ \A p \in Procs :
         /\ cmd[p] = NoCommand <=> pc[p] = "idle"
         /\ pc[p] \in {"key", "content", "preflight", "decide", "send", "waiting"}
            => profile[p] \in Profiles

Destructive(e) == e.operation \in DestructiveOperations

\* The plan that an effect was confirmed with: the digest its invocation was given.
PlanOf(e, x) == x.digest = cmd[e.by].confirm

\* Every destructive effect, however late it lands and whatever changed since,
\* was shown in a plan: same profile name, operation, content, and target state
\* as its own preflight saw, confirmed before that plan expired.
EffectsWerePlanned ==
    \A e \in effects : Destructive(e) =>
        \E x \in plans :
            /\ PlanOf(e, x)
            /\ x.digest.profile = cmd[e.by].profile
            /\ x.digest.operation = e.operation
            /\ x.digest.parameters = [value |-> e.value,
                                      preflight |-> SafeParameters(e.by).preflight]
            /\ granted[e.by] <= x.digest.expires

\* A dry run reaches the server for reads only, for mutations of every risk.
DryRunsHaveNoEffect == \A e \in effects : ~cmd[e.by].dryRun

\* An invocation that reports a refusal of its own (usage, configuration or
\* confirmation) has changed nothing and never will.
RefusalsHaveNoEffect ==
    \A p \in Procs : result[p] \in {"usage", "config", "confirmation"} =>
        \A r \in requests \cup effects : r.by # p

\* An invocation reports success of a mutation only when it took place, with
\* the account and the content this invocation loaded.
SuccessHasEffect ==
    \A p \in Procs :
        result[p] = "ok" /\ ~cmd[p].dryRun /\ cmd[p].operation \notin ReadOperations =>
            [by |-> p, account |-> profile[p].account,
             operation |-> cmd[p].operation, value |-> value[p]] \in effects

\* The workflow implements two-step approval: destructive requests are granted
\* only while approved, and performed once for each grant.
RequestOf(p) == [key |-> key[p], profile |-> cmd[p].profile,
                 operation |-> cmd[p].operation, parameters |-> SafeParameters(p)]
GrantOf(p) == [by |-> p, request |-> RequestOf(p)]

Approval == INSTANCE TwoStepApproval WITH
    Requests <- [key : Keys, profile : Names, operation : Ops, parameters : Parameters],
    Invocations <- Procs,
    now <- clock,
    approvals <- {[request |-> [key |-> x.digest.key, profile |-> x.digest.profile,
                                operation |-> x.digest.operation,
                                parameters |-> x.digest.parameters],
                   expires |-> x.digest.expires] : x \in plans},
    grants <- {GrantOf(p) : p \in {q \in Procs : granted[q] # NoTime}},
    performed <- {GrantOf(e.by) : e \in {f \in effects : Destructive(f)}}

ImplementsApproval == Approval!Spec

\* An invocation that was started comes to an end or is killed: no answer that
\* fails to come keeps it waiting.
InvocationsEnd == \A p \in Procs : pc[p] = "profile" ~> pc[p] \in {"done", "dead"}

\* The design has a confirmation bound to the account, and the README has it
\* invalidated by changing the profile: an effect lands on the account that the
\* plan was made for.
EffectsHitThePlannedAccount ==
    \A e \in effects, x \in plans : Destructive(e) /\ PlanOf(e, x) => e.account = x.account
==============================================================================
