-------------------------- MODULE CatalogGeneration --------------------------
(***************************************************************************)
(* scripts/generate_catalog.py: the packaged catalog and the support       *)
(* matrix are generated from the pinned OpenAPI document and the reviewed  *)
(* policy, and checked against them; the runtime loads the catalog.        *)
(* Maintainers edit the inputs, the pinned digests and, against the notice *)
(* in it, the generated catalog, while the script runs and between runs.   *)
(*                                                                         *)
(*   source, lock, policy   the input files; the lock is current when its  *)
(*             schema, OpenAPI and UAPI versions are those of the code       *)
(*   pins      EXPECTED_SHA256 and EXPECTED_POLICY_SHA256 in the code      *)
(*   output, support        the two artifacts                              *)
(*   run       the script: pc, mode, the pins it was started with, and     *)
(*             what it has read and computed so far                        *)
(*   touched   somebody else changed artifacts or pins since it started    *)
(***************************************************************************)
EXTENDS Catalog

CONSTANTS
    Source, Policy,             \* the inputs as first approved
    SourceEdits(_), PolicyEdits(_), CatalogEdits(_),   \* what an edit can lead to
    EXPECTED_NONCANONICAL_PATHS,
    NoCatalog,                  \* not computed yet
    MaxEdits, MaxRuns           \* bounds on edits and on runs of the script

ASSUME GenerationAssumption ==
    /\ MaxEdits \in Nat /\ MaxRuns \in Nat
    /\ NoCatalog # Rejected /\ NotJson # Rejected

VARIABLES source, lock, policy, pins, output, support, run, touched, edits, runs

inputs == <<source, lock, policy>>
vars == <<inputs, pins, output, support, run, touched, edits, runs>>

\* The two artifacts of a catalog and a registry accepted for it.
Generated(catalog, registry) ==
    LET bare == ToJson(catalog)
    IN  [f \in DOMAIN bare \cup Metadata |->
            CASE f = "generator_schema" -> GENERATOR_SCHEMA
              [] f = "generated_notice" -> GENERATED_NOTICE
              [] f = "policy_sha256" -> Records(registry)
              [] f = "operations" ->
                    [id \in DOMAIN bare.operations |->
                        [g \in DOMAIN bare.operations[id]
                               \cup (IF id \in DOMAIN registry THEN {"policy"} ELSE {}) |->
                            IF g = "policy" THEN ToDict(registry[id])
                                            ELSE bare.operations[id][g]]]
              [] OTHER -> bare[f]]

SupportMatrix(catalog, registry) ==
    [source_sha256 |-> catalog.source_sha256,
     rows |-> [id \in DOMAIN registry |->
                  [f \in {"status", "capability", "risk", "reason"} |-> registry[id][f]]]]

Idle == [pc |-> "idle", mode |-> "generate", pins |-> NoCatalog, source |-> NoCatalog,
         catalog |-> NoCatalog, registry |-> NoCatalog, result |-> "none"]

RunGenerated == Generated(run.catalog, run.registry)
RunSupport == SupportMatrix(run.catalog, run.registry)

Init ==
    /\ source = Source /\ policy = Policy
    /\ lock = [sha256 |-> Source, excluded |-> EXPECTED_NONCANONICAL_PATHS, current |-> TRUE]
    /\ LET catalog == NormalizeDocument(Source, EXPECTED_NONCANONICAL_PATHS)
           registry == FromDict(catalog, Policy)
       IN  /\ pins = [source |-> Source, policy |-> Records(registry)]
           /\ output = Generated(catalog, registry)
           /\ support = SupportMatrix(catalog, registry)
    /\ run = Idle
    /\ touched = FALSE /\ edits = 0 /\ runs = 0

------------------------------------------------------------------------------
(* The script.                                                              *)

Running == run.pc \notin {"idle", "done"}

\* It ends with exit code 0, or with "catalog generation failed" and 1, and what
\* it had in memory is gone.
Finish(r) == run' = [Idle EXCEPT !.pc = "done", !.result = r]

Begin(mode) ==
    /\ ~Running
    /\ runs < MaxRuns
    /\ runs' = runs + 1
    /\ run' = [Idle EXCEPT !.pc = "source", !.mode = mode, !.pins = pins]
    /\ touched' = FALSE
    /\ UNCHANGED <<inputs, pins, output, support, edits>>

\* The bytes that are hashed are the bytes that are parsed.
ReadSource ==
    /\ run.pc = "source"
    /\ run' = [run EXCEPT !.pc = "lock", !.source = source]
    /\ UNCHANGED <<inputs, pins, output, support, touched, edits, runs>>

ReadLock ==
    /\ run.pc = "lock"
    /\ LET catalog == NormalizeDocument(run.source, lock.excluded)
       IN  IF /\ lock.current
              /\ lock.sha256 = run.pins.source
              /\ run.source = run.pins.source
              /\ lock.excluded = EXPECTED_NONCANONICAL_PATHS
              /\ catalog # Rejected
           THEN run' = [run EXCEPT !.pc = "policy", !.catalog = catalog]
           ELSE Finish("failed")
    /\ UNCHANGED <<inputs, pins, output, support, touched, edits, runs>>

ReadPolicy ==
    /\ run.pc = "policy"
    /\ LET registry == FromDict(run.catalog, policy)
       IN  IF registry = Rejected THEN Finish("failed")
           ELSE run' = [run EXCEPT !.pc = "digest", !.registry = registry]
    /\ UNCHANGED <<inputs, pins, output, support, touched, edits, runs>>

ComparePolicy ==
    /\ run.pc = "digest"
    /\ IF Records(run.registry) # run.pins.policy THEN Finish("failed")
       ELSE run' = [run EXCEPT !.pc = IF run.mode = "check" THEN "check output" ELSE "open output"]
    /\ UNCHANGED <<inputs, pins, output, support, touched, edits, runs>>

Goto(label) == run' = [run EXCEPT !.pc = label]

\* write_text empties the file, then fills it; the catalog first.
OpenOutput ==
    /\ run.pc = "open output"
    /\ output' = NotJson
    /\ Goto("write output")
    /\ UNCHANGED <<inputs, pins, support, touched, edits, runs>>

WriteOutput ==
    /\ run.pc = "write output"
    /\ output' = RunGenerated
    /\ Goto("open support")
    /\ UNCHANGED <<inputs, pins, support, touched, edits, runs>>

OpenSupport ==
    /\ run.pc = "open support"
    /\ support' = NotJson
    /\ Goto("write support")
    /\ UNCHANGED <<inputs, pins, output, touched, edits, runs>>

WriteSupport ==
    /\ run.pc = "write support"
    /\ support' = RunSupport
    /\ Finish("generated")
    /\ UNCHANGED <<inputs, pins, output, touched, edits, runs>>

CheckOutput ==
    /\ run.pc = "check output"
    /\ IF output = RunGenerated THEN Goto("check support") ELSE Finish("failed")
    /\ UNCHANGED <<inputs, pins, output, support, touched, edits, runs>>

\* Mutant of CheckSupport: the catalog alone is compared.
CheckSupportSkipped ==
    /\ run.pc = "check support"
    /\ Finish("current")
    /\ UNCHANGED <<inputs, pins, output, support, touched, edits, runs>>

CheckSupport ==
    /\ run.pc = "check support"
    /\ Finish(IF support = RunSupport THEN "current" ELSE "failed")
    /\ UNCHANGED <<inputs, pins, output, support, touched, edits, runs>>

\* An I/O error, or a kill: either leaves the artifacts as they are.
Stop ==
    /\ Running
    /\ Finish("failed")
    /\ UNCHANGED <<inputs, pins, output, support, touched, edits, runs>>

------------------------------------------------------------------------------
(* The maintainers.                                                         *)

Edit == edits < MaxEdits /\ edits' = edits + 1

EditSource ==
    /\ Edit
    /\ source' \in SourceEdits(source)
    /\ UNCHANGED <<lock, policy, pins, output, support, run, touched, runs>>

\* The lock is brought up to the source, with or without the exceptions.
EditLock ==
    /\ Edit
    /\ \E excluded \in {EXPECTED_NONCANONICAL_PATHS, {}}, current \in BOOLEAN :
         lock' = [sha256 |-> source, excluded |-> excluded, current |-> current]
    /\ UNCHANGED <<source, policy, pins, output, support, run, touched, runs>>

EditPolicy ==
    /\ Edit
    /\ policy' \in PolicyEdits(policy)
    /\ UNCHANGED <<source, lock, pins, output, support, run, touched, runs>>

\* The reviewed digests in the code are moved to the present inputs.
Approve ==
    LET catalog == NormalizeDocument(source, EXPECTED_NONCANONICAL_PATHS)
        registry == IF catalog = Rejected THEN Rejected ELSE FromDict(catalog, policy)
    IN  /\ registry # Rejected
        /\ pins' = [source |-> source, policy |-> Records(registry)]
        /\ pins' # pins
        /\ touched' = TRUE
        /\ UNCHANGED <<inputs, output, support, run, edits, runs>>

EditCatalog ==
    /\ Edit
    /\ output # NotJson
    /\ output' \in CatalogEdits(output)
    /\ touched' = TRUE
    /\ UNCHANGED <<inputs, pins, support, run, runs>>

Next ==
    \/ Begin("generate") \/ Begin("check")
    \/ ReadSource \/ ReadLock \/ ReadPolicy \/ ComparePolicy
    \/ OpenOutput \/ WriteOutput \/ OpenSupport \/ WriteSupport
    \/ CheckOutput \/ CheckSupport \/ Stop
    \/ EditSource \/ EditLock \/ EditPolicy \/ Approve \/ EditCatalog

Spec == Init /\ [][Next]_vars

------------------------------------------------------------------------------
(* Properties.                                                              *)

Loaded == run.registry # NoCatalog

\* What a command line started now would have for a catalog, and the policies in it.
Runtime == LoadCatalog(output, pins.policy)
HasPolicy(catalog) == catalog # Rejected /\ catalog.policy_sha256 # Null
Policies(catalog) ==
    [id \in {i \in DOMAIN catalog.operations : catalog.operations[i].policy # Null} |->
        catalog.operations[id].policy]

\* A command or name leads to the one operation it was reviewed for, stable ones
\* to the identity the contracts give them, and to nothing that is excluded
\* (PolicyRegistry.get and by_command over what from_dict accepts).
CommandsAreUnambiguous ==
    Loaded =>
        /\ \A id \in DOMAIN run.registry :
             LET o == run.registry[id]
             IN  IF o.status = "included"
                 THEN Get(run.registry, o.name) = id /\ ByCommand(run.registry, o.command) = id
                 ELSE Get(run.registry, o.name) = Rejected
        /\ \A id \in DOMAIN STABLE_MVP_OPERATION_CONTRACTS :
             ByCommand(run.registry, STABLE_MVP_OPERATION_CONTRACTS[id].command) = id

\* Secret inputs are the inventoried ones, come from protected sources, and are
\* neither audited nor shown; all of them are there.
SecretsAreInventoried ==
    Loaded =>
        /\ \A id \in DOMAIN run.registry : \A n \in DOMAIN run.registry[id].parameters :
             LET q == run.registry[id].parameters[n]
             IN  q.secret => /\ <<id, n>> \in DOMAIN PROTECTED_INPUT_CONTRACTS
                             /\ Elements(q.sources) \subseteq ProtectedSources
                             /\ q.sensitive_output
                             /\ n \notin Elements(run.registry[id].audit_fields)
        /\ \A c \in DOMAIN PROTECTED_INPUT_CONTRACTS :
             run.registry[c[1]].parameters[c[2]].secret

\* Whatever inputs the API requires of an operation, one mandatory parameter of
\* its policy supplies; no other is sent twice or unknown to the API.  This holds
\* of what the generator accepts and of what a runtime loads, whatever was edited.
Supplied(operation, registry, id) ==
    LET q == registry[id].parameters
    IN  registry[id].status = "included" =>
        /\ \A u \in DOMAIN operation.parameters :
             LET feeds == {n \in DOMAIN q : q[n].uapi_name = u}
             IN  /\ Cardinality(feeds) <= 1
                 /\ operation.parameters[u].required => \E n \in feeds : q[n].required
        /\ \A n \in DOMAIN q : id = UploadIdentity \/ q[n].uapi_name \in DOMAIN operation.parameters
        /\ ~operation.deprecated

RequiredInputsAreSupplied ==
    /\ Loaded => \A id \in DOMAIN run.registry :
                   Supplied(run.catalog.operations[id], run.registry, id)
    /\ LET c == Runtime
       IN  HasPolicy(c) => \A id \in DOMAIN Policies(c) :
                             Supplied(c.operations[id], Policies(c), id)

\* Whatever became of the packaged catalog, a runtime runs the policy that its
\* code trusts, whole, or none at all.
RuntimeRunsTrustedPolicy ==
    LET c == Runtime
    IN  c # Rejected =>
            \/ /\ c.policy_sha256 = Null
               /\ DOMAIN Policies(c) = {}
            \/ /\ c.policy_sha256 = pins.policy
               /\ Records(Policies(c)) = pins.policy

\* What the generator computes, a runtime of the same code accepts and reads back
\* as the catalog and the registry it was made from.
GeneratedCatalogLoads ==
    Loaded /\ Records(run.registry) = run.pins.policy => LoadCatalog(RunGenerated, run.pins.policy)
                = WithPolicy(run.catalog, run.registry, run.pins.policy)

\* After a generation that succeeded or a check that passed, unless somebody
\* changed them since it began, the two artifacts describe one and the same
\* surface, that of the approved source and policy.
ArtifactsAgree ==
    run.result \in {"generated", "current"} /\ ~touched =>
        LET c == Runtime
        IN  /\ HasPolicy(c)
            /\ c.source_sha256 = pins.source
            /\ support = SupportMatrix(c, Policies(c))

\* No operation of the API document is lost or merged with another in silence.
NothingIsDropped ==
    run.catalog # NoCatalog =>
        \A p \in DOMAIN run.source.paths : \A m \in DOMAIN run.source.paths[p].methods :
            \/ p \in run.catalog.excluded_paths
            \/ /\ run.catalog.operations[p.segments].method = m
               /\ Cardinality(DOMAIN run.catalog.operations[p.segments].parameters)
                    = Len(RawParameters(run.source, <<p, m>>))
==============================================================================
