# Verification of cpanel-integration

TLA+ models of `cpanel-admin`, the command line in `src/src/cpanel_admin` that
administers cPanel accounts: the profile store, the two-step confirmation of
destructive operations, the execution of an operation, the calls of the UAPI and their
reports, the profile commands, the input resolver and the reading of local files; and of
the reviewed policy, the catalog it is packaged in and the script that generates the two.
TLC checks the models on small instances; TLAPS proves the main results for every value
of the constants.

Source paths below are relative to `src/src/cpanel_admin`, but for `scripts/`, which is
`src/scripts`.

## The system

The program has no server and no lock. Every command is a process that reads a
JSON file of profiles, a Fernet key and perhaps local files, calls cPanel's UAPI
over HTTPS at most twice, and may replace the JSON file. Its hard behaviours
come from what other processes, the file system, the network, the clock and the
operator do between those steps.

| Component | State | Operations | Talks to | Hard part | Correct when |
|---|---|---|---|---|---|
| Profile store (`profiles.py`) | one JSON file, temporary siblings | `list get add remove rotate` | file system | no lock; write, sync, rename, chmod can fail or be cut at any point | the file is always whole; commands happen as a whole or not at all; success and failure are reported truthfully |
| Secret codec (`secrets.py`) | none (key in environment or file) | `encrypt decrypt`, key file reading | store, confirmation | key replaced while in use | a token opens only under its key; the key comes from a private file |
| Confirmation (`confirmation.py`) | none | `plan verify` | runner, profile commands | clock, everything a plan is made from can change | what executes was planned, in time |
| Operation runner (`cli.py`) | none of its own | `_run_operation`, `_preflight` | all of the above, transport | reads five things one after the other, then sends | effects were planned; refusals change nothing; success is true |
| Profile commands (`cli.py`) | none | `_run_profiles` | store, confirmation, transport | the profile is loaded three times for one removal | what is deleted is what the plan showed |
| Transport (`transport.py`) | none | `call` | network | timeouts, redirects, size limits, malformed answers | an answer is the answer to the request |
| Local file readers (`inputs.py`, `secrets.py`, `cli.py`) | none | protected, upload, key and plain reads | file system | files and paths change between system calls | a read is one version of one private file within its limit |
| Input resolver (`inputs.py`) | none | `resolve` | readers, store | one source for each parameter | equal plans make equal calls; protected content shows as fingerprints only; every secret is known for redaction |
| Operation registry (`operations.py`) | none | `get_operation validate_parameters` | runner | | argument tables are consistent |
| Policy registry, catalog (`policy.py`, `catalog.py`) | none once loaded | parse, validate, serialise, look up | generator, runtime | lists in three places must agree; the packaged form is parsed again | every included operation is fully specified and reached by its own command only |
| Catalog generation (`scripts/`) | two artifacts | generate, check | catalog, file system | two writes | a checked pair matches |
| Redaction (`redaction.py`) | none | `redact` | runner, transport | a server repeats, splits and joins what it was sent; two lists of secrets | no secret is left |

The hazards this design meets are listed, each at its line, in `PROJECT.json`.

## Modules

| Module | Models | Notes |
|---|---|---|
| `ProfileData` | the contents of the store | profiles are an account (host, user name and token together) and the key of their token |
| `ProfileBook` | abstract | the store as an indivisible map, with the older states a power loss may bring back |
| `ProfileStore` | `profiles.py` | processes running store methods against one file, with faults |
| `Operations` | registry of `operations.py` | names, risks |
| `Confirmation` | `confirmation.py` | digests as records of what they sign |
| `TwoStepApproval` | abstract | requests are approved for a time, granted while approved, performed once for each grant |
| `OperationRun` | `_run_operation` of `cli.py` | invocations, server, network, clock and operator |
| `Transport` | `UAPITransport.call` of `transport.py` | one call, a server that redirects at will |
| `FileReads` | readers of `inputs.py`, `secrets.py`, `cli.py` | one reader, a changing file system |
| `ProfileCommands` | `_run_profiles` of `cli.py` | extends `ProfileStore` and `Confirmation` |
| `Redaction` | `redaction.py`, the lists of secrets of `cli.py` and `transport.py` | operators on texts |
| `Reports` | what a call reports | extends `Transport` and `Redaction` |
| `InputResolver` | `InputResolver` of `inputs.py` | resolutions against changing files and a changing profile |
| `PolicyRegistry` | `policy.py` | operators: which documents are accepted, what becomes of them |
| `Catalog` | `catalog.py` | operators: normalisation, serialisation, loading with the policy |
| `CatalogGeneration` | `scripts/generate_catalog.py` | extends `Catalog`; the script, the maintainers and the runtime |
| `MCProfileStore`, `MCOperationRun`, `MCReports`, `MCFileReads`, `MCProfileCommands`, `MCInputResolver`, `MCCatalogGeneration` | | model values and menus of the runs |
| `ProfileStore_proofs`, `ProfileCommands_proofs`, `FileReads_proofs`, `OperationRun_proofs`, `TwoStepApproval_proofs`, `Reports_proofs`, `InputResolver_proofs`, `CatalogGeneration_proofs` | | theorems |

### ProfileStore

A process is one invocation of one method. `pc` names the next point at which it
touches the file system: `get` and `load` read the file (one step each, since the
file is never modified in place), `create`, `dump`, `sync`, `replace` and `chmod`
are the lines of `_write_raw`, `cleanup` its `finally`. `value` is the modified copy
that the code keeps in `value` between `_load_raw` and `_write_raw`.
`live` is what other processes read. `durable` is the set of contents that a power
loss may leave: the code syncs the file before it renames it and never syncs
the directory, so that older versions can come back but no torn one. `remove`
loads twice, as in the code, and ends in an internal failure when the name has gone
in between.

Faults are an I/O error of a step, the loads included (`LoadFails`), a kill, and a power
loss; `MaxFaults` bounds their number. Names, hosts and user names are taken as valid.

### OperationRun

A process is one invocation of `_run_operation`: `GetProfile`, `ReadKey`,
`ReadContent`, `Preflight`, `DryRun` or `Authorise`, `Send`, then `Receive` or
`GiveUp`. Each reads one thing that the environment changes meanwhile
(`EditProfiles`, `PromoteKey`, `EditSource`, `EditRemote`, `Tick`). The server
executes or drops a request whether or not the client still waits for it.
Commands take their digest and expiry from issued plans, in any combination or with one
of them left out, so that a digest can be used late, twice, with another expiry, or for
another command.

A value stands for the parameters as a plan binds them. A file listing is what
the preflight saw and what was there; they differ for hidden targets only
(`HiddenTarget`). The profile commands that the environment runs are atomic here;
`ProfileStore` says how far that is true. A call is one request and at
most one answer to it: the server does not redirect a request that it executes
(`Transport` has the redirects), so that `SuccessHasEffect` is about what this
program does with the server's word. `effects` and `plans` are histories for the
properties.

### Transport

`Send`, then what the server does: `Redirect` with any code to any origin and
location, `Answer`, or one of the failures, which `Fail` and `Garbled` divide by what
the caller gets. `SameOrigin` is the program's, `Followed`, `Redirected` and `Endless`
are urllib's `HTTPRedirectHandler`. A redirected POST becomes a GET without a body;
the code then takes the answer to that GET for the operation's.

### Reports and Redaction

`Reports` adds to a call what was submitted and what is shown of its outcome.
A text is a sequence of a few characters. The server answers with any of `Messages`,
among them ones that repeat a secret twice, cut it, or leave it to the joining of two
error messages. A result is redacted by the runner with the secrets by kind of
parameter, an error by the transport with those by UAPI name, and the reason
of a network failure with the token alone, as in the code. `Given` keeps one place for
each parameter, with an empty text where there is no secret: the code leaves the place
out, and `RedactString` skips it. `ReportAssumption` says that texts are sequences of
`Characters` and that no secret is empty (`validate_parameters` and the profile store refuse
such values); a secret may share characters with the marker `[REDACTED]`, and most do.

A marker next to the right characters can then spell a secret that nobody repeated, and
the code does not look at its own result again. So the model keeps with each character
where it is from: it was said, by the server or the network, or it belongs to a marker.
`OccursAt`, which is what the code compares, looks at the characters only.
`NoSecretIsReported` says that no occurrence of a secret in a report is made of said
characters alone (`Told`): wherever one can still be read, a marker's character is in it.

Limits of the code that lie outside the property: of a secret that contains an
earlier one a fragment stays, and the keys of a result are not redacted. Left
out of the model are the fixed words around the reason of a failure, and `str(item)` of
`_string_list`, which is the identity on the texts that errors are.

### ProfileCommands

The operator runs one command at a time (`Alone`). `RemoveGet`, `RemovePlan` and
`RemoveVerify` come before `ProfileStore`'s `remove`, which loads twice more. A rotation
gives the operator a second key to hold; `Promote` gives up the old one after a success, as
README.md:74 says. I/O errors and kills are those of `ProfileStore`; `PowerFails` is its
power loss, and records in `reverted` that an older version of the store has come back:
after a promotion that may be one whose key has been given up, since the code syncs no
directory, so `NoTokenIsOrphaned` says nothing of the keys from then on.

### InputResolver

Resolutions are processes: each parameter is one step (`FromArgument`, `FromStdin`,
`FromProtectedFile`, `FromEnvironment`, `FromEncryptedProfile`, `FromLocalFile`) that
reads what is there at that time; `EditFile` and `ReplaceProfile` come in between. The
properties compare two resolutions, as a plan and its execution would be: the
class is not called by the command line yet at this commit. `UploadNames` are the names
that `Upload()` accepts of a local file. `ResolverAssumption` states what
`PolicyRegistry` guarantees of the operations. A digest is what it digests.

### PolicyRegistry, Catalog and CatalogGeneration

`PolicyRegistry!FromDict` is the conjunction of the checks of `from_dict`, since every
failure is the same error; documents are functions from fields, so that a field can be
missing, unknown, null or `Malformed`. `Catalog` has `NormalizeDocument` for the
API document, `ToJson`, and `LoadCatalog` with the policy attached. In
`CatalogGeneration` the script reads source, lock and policy one after the other, then
writes the two artifacts, each emptied before it is filled, or compares
them; maintainers edit every file, and move the digests in the code (`Approve`),
at any time, and `Stop` is an I/O error or kill at any step. `Runtime` is what a
command started in that state would load. `run.pins` are the digests in
the code of the process that runs, `pins` those in the repository.

### FileReads

One reader goes through `Inspect` (lstat, is_symlink or stat), `Open`, `Check`
(fstat), `Read` (block by block) and `Finish` (fstat again), as far as its kind has
these steps; between them `Repoint` and `Modify` change the path and the files. All the
kinds of reader are in `reads`. The readers of `cli.py` (`plain`), through which the fixed
operations read uploads, certificates and keys, compare the size first and then read
all there is; `reads_limit` holds that against the documented limit.

## Runs

| Run | Checks | Shows |
|---|---|---|
| `store_concurrent` | `TypeOK StoreComplete ProfilesAsSubmitted TokensAreOpenedFirst OneFaultLeavesNoTemp` | overlapping commands lose work and can leave a store under two keys, but never tear the file, mix up profiles, move a token to a new key without the old one, or leave rubbish after one fault |
| `run_upload` | `TypeOK EffectsWerePlanned RefusalsHaveNoEffect InvocationsEnd` | the bytes that are sent are those that were planned; every started invocation ends |
| `run_mixed` | `EffectsWerePlanned DryRunsHaveNoEffect SuccessHasEffect ImplementsApproval` | plans, accounts, digests and expiries in any combination implement two-step approval |
| `reports` | `TypeOK TokenStaysHome ContentIsSentOnce NoSecretIsReported` | no chain of redirects takes the token to another origin or sends content again, every chain ends, and no report has a secret in it |
| `reads` | `TypeOK ReadsAreSnapshots SecretsComeFromPrivateFiles` | protected reads are snapshots of private files |
| `profile_commands` | `RemovedAsPlanned NoTokenIsOrphaned SerialStoreIsABook SuccessIsTrue ReplaceIsExplicit` | for an operator who does not overlap commands the store is an atomic book; a removal deletes what its plan showed; through rotations and their failures no token loses its key |
| `inputs` | `SameSafeValuesSameCall SafeValuesDiscloseNothing SecretsAreKnown` | what a plan shows of its inputs determines the call and gives nothing protected away |
| `generation` | `CommandsAreUnambiguous SecretsAreInventoried RequiredInputsAreSupplied RuntimeRunsTrustedPolicy GeneratedCatalogLoads ArtifactsAgree NothingIsDropped` | what is accepted is unambiguous and complete; what is loaded is what was approved; a checked pair matches |

Four runs end in a violation on purpose; each compares one sentence of the
documentation with the code:

| Run | Documentation | What the code does |
|---|---|---|
| `store_rotation_race` | "Profile rotation is atomic." (README.md:66) | a profile added during a rotation is lost |
| `store_chmod_fails` | "Keep the old key active until the command succeeds" (README.md:74) | a chmod error after the rename reports failure with the store under the new key |
| `run_rebind` | "Changing the profile ... invalidates the digest." (README.md:110) | the digest binds the profile's name, not the account behind it |
| `reads_limit` | "Local upload, certificate, and key files are limited to 10 MiB." (references/operations.md:52-53) | a file that grows after the stat is read whole (cli.py:211-217, 223-229) |

Other things the models take from the code and a reader may want to know, none of them
a property:

- list_files is asked without hidden files, so a hidden target is planned as
  absent (`Listed`);
- an answer that is not HTTP ends as an internal failure, exit code 1, and not as one of
  the network, exit code 5 (`Garbled`);
- a catalog stripped of all its generated metadata loads without a policy, and at load
  only the policy is compared with a digest, the rest of the catalog with none;
- the last loop of `_validate_stable_mvp_operation_contracts` can never raise: uniqueness
  and the contracts imply it;
- a removal loads the profile three times, so an overlapping command escapes
  `RemovedAsPlanned`.

The race of `store_rotation_race` has other forms: two overlapping adds of one name
without `--replace` both succeed, and the later overwrites the earlier. So
`ReplaceIsExplicit` is a property of `profile_commands` only.

### Bounds

- `store_concurrent`: four processes, two names and accounts, three keys, one fault.
  Every race of this store is between one writer's load and replace and another's,
  so two writers show it; the others give a race something to lose (a profile to
  overwrite, rotate or remove) and meet what it leaves: an add that overlaps a
  rotation leaves a store under two keys, which the next rotation loads.
- `run_*`: an invocation that plans and one that executes, a third where reuse or a
  second plan matters; `Lifetime` 1 with `MaxTime` 2, so that a plan is used before, at
  and after its expiry and a second one overlaps it (`run_rebind` needs no expiry and stops
  at 1); `MaxEdits` 1: one change of a profile, the source or the target, at any point,
  beside the promotion of a key, the clock and the effects of the other invocations.
  `run_upload` has two keys and one
  account, `run_mixed` and `run_rebind` two accounts and one key.
- `reports`: two schemes, hosts and ports, so that an origin can differ in each alone;
  three locations; 2 repeats and 3 locations in place of urllib's 4 and 10, so that each of the
  two limits is reached first on some path. Texts of up to four characters and messages of
  up to five, so that secrets overlap, repeat and meet at a join; one secret
  and one token share characters with the marker.
- `reads`, `reads_limit`: limit 2 blocks, files of up to 3, two changes: exact, over by
  one, a change that is hidden by a second, and a change between two blocks that would
  make what is read a mixture of two versions.
- `profile_commands`: four invocations, two names, accounts and keys, one fault: an add,
  a plan, a replacement or rotation, and a removal or a second rotation; the clock passes
  the plan's expiry. Faults hit every step of every command, a rotation's included; that
  the properties hold for any number of them is proved.
- `inputs`: two resolutions of nine operations that have every source and every
  refusal between them, one change, of what the operation's sources can see; the
  properties compare two resolutions at a time.
- `generation`: two runs of the script and two edits. An edit takes its file to any of
  a menu of documents, each of which meets one rule of the registry or the
  catalog from the wrong side, or from the right one in another form; a second
  edit comes on top of the first or on another file.

`CHECK_DEADLOCK FALSE` everywhere: the system stops when every invocation has ended.

### Fairness

Only `run_upload` assumes any: weak fairness of each process's own steps. The
code justifies it: a process does nothing but local reads and at most two calls. A call
makes a bounded number of requests (`CallTypes`), each with a socket timeout of 1 to
120 seconds (`cli.py:494`, `transport.py:216`) and a bounded body, so that `GiveUp` is
always possible while it waits. The server and the network are
given none.

## Proofs

All theorems hold for any sets of processes, names, accounts, keys, files, texts,
documents and values, under the named assumptions on the constants. `ProfileAssumption`,
`StoreAssumption`, `CommandAssumption`, `RunAssumption`, `LifetimeAssumption`,
`ReadAssumption`, `TransportAssumption`, `NullAssumption`, `SelectionAssumption` and
`GenerationAssumption` say that special values differ from ordinary ones, that bounds
are numbers and that lists in the code have no duplicates; `ResolverAssumption` and
`ContractAssumption` also say of operations and contracts what the code's tables and
checks do, and `ReportAssumption` that secrets and the marker are not empty. Every
safety property of the passing runs is a theorem, the invariants, the action properties
and both refinements. What follows is the argument of each.

Profile store (`ProfileStore_proofs`):

- `StoreTypes`, `StoreAlwaysComplete`. `TypeOK` carries what
  a process has in hand at each step: from `create` on its copy carries out its command,
  from `sync` on its temporary file equals that copy, and at `replace` it is synced. That
  makes it inductive, and `StoreComplete` inductive relative to it: a rename moves a whole,
  synced file into place, whoever else writes.
- `OneFaultIsCleanedUp`. `TempsAreCleared` counts: a process reaches `cleanup` through one
  fault, and ends with a temporary file only through another.
- `ProfilesAreAsSubmitted`. `Origins` says of every version that can still become the
  store file (the live one, those a power loss brings back, every copy in memory) what the
  property says of the live one; commands are never taken back.
- `TokensAreOpened`, from `Origins` too: a rotation's copy has been opened whole with the
  rotation's key, so that whatever led to that key leads on to the new one
  (`RotationLeadsOn`). No version can have a token under a key that the rotations of
  those who had its keys do not lead to.
- `SerialStoreImplementsBook`, `SerialSuccessIsTrue`, `SerialReplaceIsExplicit`. The
  refinement maps `book` to the live file and `past` to the durable set. The
  invariant says that one process runs at a time and that its copy is the live
  store with its command applied until the replace, and the live store itself after;
  so the replace is the abstract command and every other step stutters.
  Without the first half this is false, as the races show. Proved of `SerialSpec`, any
  caller who waits; the run checks the three properties of the profile commands.

Profile commands (`ProfileCommands_proofs`), with the invariant `CliInv` on top of that of
the serial store:

- `NoTokenLosesItsKey`. While a rotation runs the operator holds both its keys; once it
  has replaced the file, all tokens are under the new one; the old one is given up only then.
- `RemovalFollowsItsPlan`. Between the verification of the digest and the replace nothing
  else runs, so the profile that was loaded for the digest is the one that is removed.
- `CommandsUseTheBook`. Every step of a command is a step of the serial store (`SerialSpec`
  of `ProfileStore`) or none, so what is proved of that holds of the commands.

Local files (`FileReads_proofs`): `ReadTypes`, `SecretsArePrivate`,
`StrictReadsAreSnapshots`. The invariant ties what has been read to the version that was
checked: either the file under the descriptor is still that version and what was read is
how it begins, or its time is later, and stays so. The last theorem has the hypothesis
`~CoarseClock`, that two changes of a file bear different times; where they need not,
the property is false, and the run assumes the same.

Operations (`OperationRun_proofs`, `TwoStepApproval_proofs`):

- `RunTypes`, `DestructionIsPlanned`, `DryRunsAreDry`, `RefusalsAreClean`,
  `SuccessIsReal`. The properties speak of effects, which come
  long after the decision that allowed them, so the invariant follows a request from
  there: an invocation that was granted its request, or sent it, has its inputs frozen
  (`GrantInv`); a request and the effect it becomes are the record of those inputs,
  of an invocation that was no dry run, was granted if destructive, and did not refuse
  (`SentInv`); and an answer `ok` means that the effect is there (`AnswerInv`). Plans are
  never withdrawn, so what was approved stays approved.
- `RunImplementsApproval`. Approvals are the issued plans,
  grants the invocations let through, and performed the destructive effects. With the
  invariant above, a dry run is an approval, an authorisation a grant, an execution a
  performance; every other step stutters, because inputs change only while nothing is
  granted.

Calls and reports (`Reports_proofs`):

- `CallTypes`, `TokenIsKept`, `PostIsSentOnce`. The invariant is that the
  request under way has the profile's origin, and is a POST only before anything
  was sent. Each redirect is compared with the request before it, so that equality
  with the first one follows by induction over the chain. `ReportedCallsKeepHome`: every
  step with its report is a step of `Transport` or none, so the facts carry over.
- `SecretsAreRedacted`, for texts over any characters, the marker's among them. Its weight
  is in the lemmas on redaction. A run of said characters in the result of a replacement
  can only have been copied, and the copied ones stood side by side where the scan had
  come to (`RunsAreKept`); so what is told by the result was told by the text before
  (`OccurrencesAreOld`), and the replaced secret itself is told no more
  (`ReplacedHides`). A replaced secret is therefore gone and no later replacement brings
  it back (`RedactedHides`), in a text, in every leaf of a result (`RedactHides`) and in
  joined errors (`JoinedIsPlain`); and both lists of secrets are complete, because what is
  submitted as a secret is sent under a sensitive name (`ListsAreComplete`).

Inputs (`InputResolver_proofs`):

- `SecretsAreListed`. Inductive once a resolution
  is known to have what its parameters' sources need, so that every value taken is a
  text: a value and its entry among the secrets come in one step, names are unique,
  and a secret is never taken from a local file.
- `SameShownSameSent`, `SafeValuesAreDiscreet`. `SafeInv` says parameter by parameter what
  is shown of a value or an upload, and that the uploads are numbered as the parameters that
  have one come. Two resolutions that show the same then have gone through the same
  parameters, with equal values and equal numbers.

Policy and catalog (`CatalogGeneration_proofs`):

- `NamesAreUnambiguous`, `SecretsAreKnownToPolicy`, `TrustedPolicyOrNone`,
  `InputsAreSupplied`. `FromDictIsSound` derives from the checks of
  `from_dict` what an accepted registry is, for any document; the invariant says
  that the script holds none but such a one, accepted for the catalog it holds. The last
  two theorems need no invariant of the packaged catalog: `LoadedCatalog` holds of any value
  that is there.
- `GeneratedCatalogIsLoaded`, `ArtifactsDescribeOneSurface`. Records written by `to_dict`
  are accepted again and read as the operations they were (`Reloads`), check by check.
  `GenInv` carries that from the reading of the policy to the writing, with the pins of
  the process equal to those of the repository while nobody edits.
- `NoOperationIsLost`. A normalised catalog has as many parameters for each operation
  as the document, because names are checked to be unique before they become keys.

Hypotheses beside the assumptions: `NoObjects` says that JSON null, wrong types and failed
loads are no objects, which TLC's model values are not and TLA+ leaves open;
`ClosedUnderEdits(documents)` names a set of documents that edits stay in, whose
parameters are sequences, since arrays of the JSON document are.

Recursive functions over texts and lists of secrets are reasoned about with the least
element of a set of numbers (`Least`, `UpTo`), which the library's theorem on
well-founded relations yields without a predicate as parameter.

Checked by TLC only: liveness (`InvocationsEnd`), which is out of the prover's reach. What is false
of the code, the four properties of the runs that end in a violation, is refuted there.

## Not modelled

- Fernet, HMAC, TLS, JSON, argparse and urllib are taken to work, but for urllib's redirects.
- The validators of `operations.py` and `inputs.py` (regular expressions, certificate
  and host name syntax) decide about one string and change nothing; only
  what they do to empty texts and the case of a domain is in `InputResolver`.
- Of the data of a catalog that decides about nothing else: a parameter whose schema,
  enumeration or default `normalize_document` refuses has a `Malformed` schema
  (`catalog.py:295-300`); what is accepted, with enumerations sorted, and the summaries
  are left out. So are request bodies and their media types (`catalog.py:373-381`), with
  their refusals, and the encoding of a multipart body.
- The OpenAPI and UAPI versions inside the source document (`generate_catalog.py:53-57`)
  follow from its digest, and that the lock lists its two paths without a repetition
  (`generate_catalog.py:74`) is left out; the versions in the lock are one flag, `current`.
- JSON values of a wrong type are one value, `Malformed`; comparison without case has
  two spellings.
- `profiles test` changes nothing and is a call like others.
- The skill, the references and the specifications are documents and data.

## Plan

Done: every component with state or control of its own, and a theorem for every safety property
that the runs check. Left, in the order of their use: abstract specifications for the file
readers (an atomic read of a checked version) and for a call (one request, one outcome);
what stays of secrets that contain one another; reference
definitions of the validators.
