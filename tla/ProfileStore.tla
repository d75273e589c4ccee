---------------------------- MODULE ProfileStore ----------------------------
(***************************************************************************)
(* The profile store of src/cpanel_admin/profiles.py under concurrent use. *)
(*                                                                         *)
(* Every command line invocation is a process of its own, and the store    *)
(* has no lock: each command loads the whole JSON file, changes its copy   *)
(* and replaces the file.  A process of this module is one invocation of   *)
(* one ProfileStore method; its steps are the points where it touches the  *)
(* file system, where another process, an I/O error, a kill or a power     *)
(* loss can come between.                                                  *)
(*                                                                         *)
(*   live     the store file as other processes see it                     *)
(*   durable  the contents a power loss may leave: the file is synced      *)
(*            before it is renamed, its directory never is                 *)
(*   temp     each process's temporary file                                *)
(*   value    each process's modified copy, from load to replace           *)
(*   faults   how many I/O errors, kills and power losses there were       *)
(***************************************************************************)
EXTENDS Naturals, ProfileData

CONSTANTS
    Procs,      \* invocations of the command line
    Menu,       \* the commands the invocations choose from
    NoFile, NoCommand, Torn,
    MaxFaults   \* bound on faults

Commands ==
    [op : {"list"}] \cup [op : {"get", "remove"}, name : Names]
    \cup [op : {"add"}, name : Names, account : Accounts, key : Keys, replace : BOOLEAN]
    \cup [op : {"rotate"}, key : Keys, newKey : Keys]

ASSUME StoreAssumption ==
    /\ Menu \subseteq Commands
    /\ MaxFaults \in Nat
    /\ Torn \notin Images
    /\ NoFile \notin [data : Images \cup {Torn}, synced : BOOLEAN]
    /\ NoCommand \notin Commands

VARIABLES live, durable, temp, pc, cmd, value, result, faults

vars == <<live, durable, temp, pc, cmd, value, result, faults>>

\* What a process can still see or change of the file system.
disk == <<live, durable, temp>>

Init ==
    /\ live = EmptyStore
    /\ durable = {EmptyStore}
    /\ temp = [p \in Procs |-> NoFile]
    /\ pc = [p \in Procs |-> "idle"]
    /\ cmd = [p \in Procs |-> NoCommand]
    /\ value = [p \in Procs |-> EmptyStore]
    /\ result = [p \in Procs |-> "none"]
    /\ faults = 0

Goto(p, label) == pc' = [pc EXCEPT ![p] = label]

\* The command returns r to its caller.
Return(p, r) == /\ Goto(p, "done")
                /\ result' = [result EXCEPT ![p] = r]

Fault == /\ faults < MaxFaults
         /\ faults' = faults + 1

Begin(p) ==
    /\ pc[p] = "idle"
    /\ \E c \in Menu :
         /\ cmd' = [cmd EXCEPT ![p] = c]
         /\ Goto(p, IF c.op \in {"list", "get", "remove"} THEN "get" ELSE "load")
    /\ UNCHANGED <<disk, value, result, faults>>

------------------------------------------------------------------------------
(* The methods of ProfileStore up to _write_raw.  A load is one step: the   *)
(* file is never modified in place, so an open file is one whole version.   *)

Found(name) == live # Torn /\ name \in Present(live)

\* list, get, and the first of the two loads of remove.
Get(p) ==
    /\ pc[p] = "get"
    /\ IF live = Torn \/ (cmd[p].op # "list" /\ ~Found(cmd[p].name))
       THEN Return(p, "config")
       ELSE IF cmd[p].op = "remove"
            THEN Goto(p, "load") /\ UNCHANGED result
            ELSE Return(p, "ok")
    /\ UNCHANGED <<disk, cmd, value, faults>>

\* The process has its modified copy and enters _write_raw.
Keep(p, image) == /\ value' = [value EXCEPT ![p] = image]
                  /\ Goto(p, "create")
                  /\ UNCHANGED result

Refuse(p, r) == Return(p, r) /\ UNCHANGED value

\* The file cannot be read, or not as JSON: no command has changed anything yet.
LoadFails(p) ==
    /\ pc[p] \in {"get", "load"}
    /\ Fault
    /\ Return(p, "config")
    /\ UNCHANGED <<disk, cmd, value>>

\* Mutant of AddLoad: an existing profile is replaced without --replace.
AddLoadUnasked(p) ==
    /\ pc[p] = "load" /\ cmd[p].op = "add"
    /\ Keep(p, WithProfile(live, cmd[p].name, cmd[p].account, cmd[p].key))
    /\ UNCHANGED <<disk, cmd, faults>>

AddLoad(p) ==
    /\ pc[p] = "load" /\ cmd[p].op = "add"
    /\ IF live = Torn \/ (Found(cmd[p].name) /\ ~cmd[p].replace)
       THEN Refuse(p, "config")
       ELSE Keep(p, WithProfile(live, cmd[p].name, cmd[p].account, cmd[p].key))
    /\ UNCHANGED <<disk, cmd, faults>>

\* The second load of remove: a name that has gone since the first is a
\* KeyError, which the command line reports as an internal failure.
RemoveLoad(p) ==
    /\ pc[p] = "load" /\ cmd[p].op = "remove"
    /\ IF live = Torn THEN Refuse(p, "config")
       ELSE IF ~Found(cmd[p].name) THEN Refuse(p, "internal")
       ELSE Keep(p, [live EXCEPT ![cmd[p].name] = NoProfile])
    /\ UNCHANGED <<disk, cmd, faults>>

\* Mutant of RotateLoad: a token that the given key does not open is no obstacle.
RotateLoadUnopened(p) ==
    /\ pc[p] = "load" /\ cmd[p].op = "rotate"
    /\ IF live = Torn
       THEN Refuse(p, "config")
       ELSE Keep(p, Rekeyed(live, cmd[p].newKey))
    /\ UNCHANGED <<disk, cmd, faults>>

\* All tokens are decrypted before any is replaced.
RotateLoad(p) ==
    /\ pc[p] = "load" /\ cmd[p].op = "rotate"
    /\ IF live = Torn \/ ~UnderKey(live, cmd[p].key)
       THEN Refuse(p, "config")
       ELSE Keep(p, Rekeyed(live, cmd[p].newKey))
    /\ UNCHANGED <<disk, cmd, faults>>

------------------------------------------------------------------------------
(* ProfileStore._write_raw.                                                 *)

CreateTemp(p) ==
    /\ pc[p] = "create"
    /\ temp' = [temp EXCEPT ![p] = [data |-> Torn, synced |-> FALSE]]
    /\ Goto(p, "dump")
    /\ UNCHANGED <<live, durable, cmd, value, result, faults>>

\* mkdir is outside the try block: its OSError is not turned into a
\* ConfigError.  The temporary file is inside it.
CreateFails(p) ==
    /\ pc[p] = "create"
    /\ Fault
    /\ \E r \in {"internal", "config"} : Return(p, r)
    /\ UNCHANGED <<disk, cmd, value>>

Dump(p) ==
    /\ pc[p] = "dump"
    /\ temp' = [temp EXCEPT ![p].data = value[p]]
    /\ Goto(p, "sync")
    /\ UNCHANGED <<live, durable, cmd, value, result, faults>>

\* Mutant of Sync: the file is closed and renamed without fsync.
SyncOmitted(p) ==
    /\ pc[p] = "sync"
    /\ Goto(p, "replace")
    /\ UNCHANGED <<disk, cmd, value, result, faults>>

Sync(p) ==
    /\ pc[p] = "sync"
    /\ temp' = [temp EXCEPT ![p].synced = TRUE]
    /\ Goto(p, "replace")
    /\ UNCHANGED <<live, durable, cmd, value, result, faults>>

\* What the disk holds of a file whose machine loses power.
OnDisk(file) == IF file.synced THEN file.data ELSE Torn

Replace(p) ==
    /\ pc[p] = "replace"
    /\ live' = temp[p].data
    /\ durable' = durable \cup {OnDisk(temp[p])}
    /\ temp' = [temp EXCEPT ![p] = NoFile]
    /\ Goto(p, "chmod")
    /\ UNCHANGED <<cmd, value, result, faults>>

\* The mode is set again after the replace.  An error here is reported like
\* any other, although the new store is in place.
Chmod(p) ==
    /\ pc[p] = "chmod"
    /\ \/ Return(p, "ok") /\ UNCHANGED faults
       \/ Return(p, "config") /\ Fault
    /\ UNCHANGED <<disk, cmd, value>>

\* Mutant of WriteFails: the error is suppressed.
WriteFailsUnnoticed(p) ==
    /\ pc[p] \in {"dump", "sync", "replace"}
    /\ Fault
    /\ Goto(p, "chmod")
    /\ UNCHANGED <<disk, cmd, value, result>>

WriteFails(p) ==
    /\ pc[p] \in {"dump", "sync", "replace"}
    /\ Fault
    /\ Goto(p, "cleanup")
    /\ UNCHANGED <<disk, cmd, value, result>>

\* Mutant of Cleanup: the temporary file is left.
CleanupOmitted(p) ==
    /\ pc[p] = "cleanup"
    /\ Return(p, "config")
    /\ UNCHANGED <<disk, cmd, value, faults>>

\* The finally clause; an error of its own is suppressed.
Cleanup(p) ==
    /\ pc[p] = "cleanup"
    /\ \/ temp' = [temp EXCEPT ![p] = NoFile] /\ UNCHANGED faults
       \/ UNCHANGED temp /\ Fault
    /\ Return(p, "config")
    /\ UNCHANGED <<live, durable, cmd, value>>

------------------------------------------------------------------------------
(* The environment.                                                         *)

Running(p) == pc[p] \notin {"idle", "done", "dead"}

Kill(p) ==
    /\ Running(p)
    /\ Fault
    /\ Goto(p, "dead")
    /\ UNCHANGED <<disk, cmd, value, result>>

PowerLoss ==
    /\ Fault
    /\ live' \in durable
    /\ durable' = {live'}
    /\ pc' = [p \in Procs |-> IF Running(p) THEN "dead" ELSE pc[p]]
    /\ UNCHANGED <<temp, cmd, value, result>>

Step(p) ==
    \/ Get(p) \/ LoadFails(p) \/ AddLoad(p) \/ RemoveLoad(p) \/ RotateLoad(p)
    \/ CreateTemp(p) \/ CreateFails(p) \/ Dump(p) \/ Sync(p) \/ Replace(p)
    \/ Chmod(p) \/ WriteFails(p) \/ Cleanup(p) \/ Kill(p)

Next == PowerLoss \/ \E p \in Procs : Begin(p) \/ Step(p)

Spec == Init /\ [][Next]_vars

\* The same system used by one caller who waits for each command to end.
BeginAlone(p) == Begin(p) /\ \A q \in Procs : ~Running(q)

SerialNext == PowerLoss \/ \E p \in Procs : BeginAlone(p) \/ Step(p)

SerialSpec == Init /\ [][SerialNext]_vars

------------------------------------------------------------------------------
(* Properties.                                                              *)

Labels == {"idle", "get", "load", "create", "dump", "sync", "replace", "chmod",
           "cleanup", "done", "dead"}
Results == {"none", "ok", "config", "internal"}
Files == [data : Images \cup {Torn}, synced : BOOLEAN]

\* What a process that has modified its copy of the store has in hand: the copy
\* carries out its command.
Prepared(p) ==
    /\ cmd[p] \in Commands
    /\ cmd[p].op \in {"add", "remove", "rotate"}
    /\ cmd[p].op = "rotate" => UnderKey(value[p], cmd[p].newKey)

\* The types of the state, and what a process holds at each of its steps.
TypeOK ==
    /\ live \in Images \cup {Torn}
    /\ durable \subseteq Images \cup {Torn}
    /\ temp \in [Procs -> Files \cup {NoFile}]
    /\ pc \in [Procs -> Labels]
    /\ cmd \in [Procs -> Commands \cup {NoCommand}]
    /\ value \in [Procs -> Images]
    /\ result \in [Procs -> Results]
    /\ faults \in 0..MaxFaults
    /\ \A p \in Procs :
         /\ pc[p] = "get" => cmd[p] \in Commands /\ cmd[p].op \in {"list", "get", "remove"}
         /\ pc[p] = "load" => cmd[p] \in Commands /\ cmd[p].op \in {"add", "remove", "rotate"}
         /\ pc[p] \in {"create", "dump", "sync", "replace", "chmod", "cleanup"} => Prepared(p)
         /\ pc[p] \in {"dump", "sync", "replace"} => temp[p] \in Files
         /\ pc[p] \in {"sync", "replace"} => temp[p].data = value[p]
         /\ pc[p] = "replace" => temp[p].synced

\* The store is a complete document at every instant, for every reader, and
\* stays one through a power loss at any moment (_write_raw writes and syncs a
\* sibling file before it renames it).
StoreComplete == live # Torn /\ Torn \notin durable

\* No name ever designates an account nobody registered under it: overlapping
\* adds, removals and rotations may lose each other's work but never mix two
\* profiles up, and no token is under a key no command was given.
ProfilesAsSubmitted ==
    \A n \in Present(live) :
        /\ \E p \in Procs : cmd[p] # NoCommand /\ cmd[p].op = "add"
                            /\ cmd[p].name = n /\ cmd[p].account = live[n].account
        /\ \E p \in Procs : \/ cmd[p] # NoCommand /\ cmd[p].op = "add"
                               /\ cmd[p].name = n /\ cmd[p].key = live[n].key
                            \/ cmd[p] # NoCommand /\ cmd[p].op = "rotate"
                               /\ cmd[p].newKey = live[n].key

\* The keys a token can be under that was encrypted with k: it takes a rotation
\* that was given the key the token is under to move it to another.
ClosedUnderRotation(S) ==
    \A p \in Procs : cmd[p] # NoCommand /\ cmd[p].op = "rotate" /\ cmd[p].key \in S
                    => cmd[p].newKey \in S
RotatedFrom(k) ==
    {j \in Keys : \A S \in SUBSET Keys : k \in S /\ ClosedUnderRotation(S) => j \in S}

\* A rotation opens every token of the store it has loaded before it writes any:
\* however adds, removals and rotations overlap and whatever is lost of them, each
\* token is under the key that an add of its name gave it, or under one to which
\* rotations have moved it each of which was given the key before.  In a store
\* under two keys, none is moved by a rotation that could not read it.
TokensAreOpenedFirst ==
    \A n \in Present(live) :
        \E p \in Procs : /\ cmd[p] # NoCommand /\ cmd[p].op = "add" /\ cmd[p].name = n
                          /\ live[n].key \in RotatedFrom(cmd[p].key)

\* One fault alone, whether an I/O error at any step or a chmod error after the
\* replace, leaves no temporary file behind a command that returned.
OneFaultLeavesNoTemp ==
    \A p \in Procs : pc[p] = "done" /\ faults <= 1 => temp[p] = NoFile

\* What a command that reports success has achieved, for its caller.
Achieved(c, image) ==
    /\ c.op = "add" => image[c.name] = [account |-> c.account, key |-> c.key]
    /\ c.op = "remove" => image[c.name] = NoProfile
    /\ c.op = "rotate" => UnderKey(image, c.newKey)

\* For a caller who runs one command at a time, a success that is reported is
\* a success that happened.
SuccessIsTrue ==
    [][\A p \in Procs : result[p] = "none" /\ result'[p] = "ok"
                        => Achieved(cmd[p], live')]_vars

\* For a caller who runs one command at a time, the store is a book of
\* profiles that changes in whole commands (ProfileBook).
Book == INSTANCE ProfileBook WITH book <- live, past <- durable
SerialStoreIsABook == Book!Spec

\* References state that rotation is atomic: its replace re-encrypts the
\* profiles that are in the store at that moment, and changes nothing else.
RotationIsAtomic ==
    [][\A p \in Procs :
         Replace(p) /\ cmd[p].op = "rotate" => live' = Rekeyed(live, cmd[p].newKey)]_vars

\* The design requires --replace before an existing profile is modified.
ReplaceIsExplicit ==
    [][\A p \in Procs :
         Replace(p) /\ cmd[p].op = "add" /\ cmd[p].name \in Present(live)
         => cmd[p].replace]_vars

\* The README has the operator keep the old key until rotate-key succeeds: a
\* rotation that reports failure must not have moved the store to the new key.
FailedRotationKeepsOldKey ==
    [][\A p \in Procs :
         result[p] = "none" /\ result'[p] \in {"config", "internal"} /\ cmd[p].op = "rotate"
         => \A n \in Present(live') : live'[n].key # cmd[p].newKey]_vars
==============================================================================
