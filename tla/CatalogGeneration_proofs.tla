---------------------- MODULE CatalogGeneration_proofs ----------------------
(***************************************************************************)
(* Proofs about CatalogGeneration, for any documents, contracts and edits: *)
(* what PolicyRegistry.from_dict accepts; what a runtime makes of any      *)
(* packaged catalog; that what the script generates is loaded again as it  *)
(* was, that the two artifacts it approves describe one surface, and that  *)
(* its catalog has every operation of the API document.                    *)
(***************************************************************************)
EXTENDS CatalogGeneration, FiniteSetTheorems, TLAPS

------------------------------------------------------------------------------
(* Registries that from_dict accepts.                                       *)

\* An operation of a registry: what is known of its status, command and inputs.
SoundOperation(o, id) ==
    /\ DOMAIN o = OperationFields
    /\ o.identity = id
    /\ o.status \in {"included", "excluded"}
    /\ o.status = "included" <=> o.command # <<>>
    /\ HonoursProtectedInputs(id, o.parameters) \/ DOMAIN o.parameters = {}
    /\ \A n \in DOMAIN o.parameters :
         o.parameters[n].secret =>
            /\ Elements(o.parameters[n].sources) \subseteq ProtectedSources
            /\ n \notin Elements(o.audit_fields)

Sound(registry) ==
    /\ \A id \in DOMAIN registry : SoundOperation(registry[id], id)
    /\ \A i, j \in DOMAIN registry : i # j =>
         /\ registry[i].name # registry[j].name
         /\ registry[i].command # <<>> => registry[i].command # registry[j].command
    /\ HonoursStableContracts(registry)
    /\ SecretInventory(registry)

\* What is accepted of one record makes a sound operation.
LEMMA AcceptableIsSound ==
    ASSUME NEW catalog, NEW id, NEW raw, Acceptable(catalog, id, raw)
    PROVE  SoundOperation(Operation(id, raw), id)
<1> DEFINE o == Operation(id, raw)
<1>1. /\ DOMAIN o = OperationFields
      /\ o.identity = id
      /\ o.status = Field(raw, "status", Null)
      /\ o.command = Field(raw, "command", Null)
      /\ o.audit_fields = Field(raw, "audit_fields", Null)
      /\ o.parameters = ParsedParameters(raw.parameters)
  BY DEF Operation, OperationFields
<1> HIDE DEF o
<1> SUFFICES SoundOperation(o, id)
  BY DEF o
<1>2. CASE Field(raw, "status", Null) = "excluded" /\ AcceptableExclusion(raw)
  <2>1. raw.command = <<>> /\ raw.parameters = <<>>
    BY <1>2 DEF AcceptableExclusion
  <2>2. "command" \in DOMAIN raw
    BY <1>2 DEF AcceptableExclusion, OperationFields
  <2>3. o.command = <<>>
    BY <1>1, <2>1, <2>2 DEF Field
  <2>4. DOMAIN o.parameters = DOMAIN raw.parameters
    BY <1>1 DEF ParsedParameters
  <2>5. DOMAIN o.parameters = {}
    BY <2>1, <2>4
  <2>6. QED
    BY <1>1, <1>2, <2>3, <2>5 DEF SoundOperation
<1>3. CASE /\ Field(raw, "status", Null) = "included"
           /\ AcceptableInclusion(catalog.operations[id], id, raw)
  <2>1. /\ Field(raw, "command", Null) \notin {Null, <<>>}
        /\ AcceptableParameters(catalog.operations[id], id, Field(raw, "parameters", Null))
        /\ Field(raw, "parameters", Null) # Null
        /\ Field(raw, "audit_fields", Null) # Null
        /\ \A n \in Elements(raw.audit_fields) :
              n \in DOMAIN raw.parameters /\ ~Parameter(raw.parameters[n]).secret
    BY <1>3 DEF AcceptableInclusion, AcceptableParameters, IsArray, Field
  <2>2. /\ Field(raw, "parameters", Null) = raw.parameters
        /\ Field(raw, "audit_fields", Null) = raw.audit_fields
    BY <2>1 DEF Field
  <2>3. HonoursProtectedInputs(id, o.parameters)
    BY <1>1, <2>1, <2>2 DEF AcceptableParameters
  <2>4. ASSUME NEW n \in DOMAIN o.parameters, o.parameters[n].secret
        PROVE  /\ Elements(o.parameters[n].sources) \subseteq ProtectedSources
               /\ n \notin Elements(o.audit_fields)
    <3>1. n \in DOMAIN raw.parameters /\ o.parameters[n] = Parameter(raw.parameters[n])
      BY <1>1 DEF ParsedParameters
    <3>2. WellFormed(raw.parameters[n], n)
      BY <2>1, <2>2, <3>1 DEF AcceptableParameters
    <3>3. Elements(raw.parameters[n].sources) \subseteq ProtectedSources
      BY <2>4, <3>1, <3>2 DEF WellFormed
    <3>4. o.parameters[n].sources = raw.parameters[n].sources
      BY <3>1 DEF Parameter, ParameterFields
    <3>5. QED
      BY <1>1, <2>1, <2>2, <2>4, <3>1, <3>3, <3>4
  <2>5. QED
    BY <1>1, <1>3, <2>1, <2>3, <2>4 DEF SoundOperation
<1>4. QED
  BY <1>2, <1>3 DEF Acceptable

\* An included operation feeds each input of the API at most once, the required
\* ones with a mandatory parameter, and no others: Supplied of one operation.
Feeds(operation, o, id) ==
    LET q == o.parameters
    IN  o.status = "included" =>
        /\ \A u \in DOMAIN operation.parameters :
             LET feeds == {n \in DOMAIN q : q[n].uapi_name = u}
             IN  /\ Cardinality(feeds) <= 1
                 /\ operation.parameters[u].required => \E n \in feeds : q[n].required
        /\ \A n \in DOMAIN q : id = UploadIdentity \/ q[n].uapi_name \in DOMAIN operation.parameters
        /\ ~operation.deprecated

LEMMA AtMostOne ==
    ASSUME NEW S, \A x, y \in S : x = y
    PROVE  Cardinality(S) <= 1
<1>1. CASE S = {}
  BY <1>1, FS_EmptySet
<1>2. CASE S # {}
  <2>1. PICK x : S = {x}
    BY <1>2
  <2>2. QED
    BY <2>1, FS_Singleton
<1>3. QED
  BY <1>1, <1>2

LEMMA AcceptableFeeds ==
    ASSUME NEW catalog, NEW id, NEW raw, Acceptable(catalog, id, raw)
    PROVE  Feeds(catalog.operations[id], Operation(id, raw), id)
<1> DEFINE o == Operation(id, raw)
           q == o.parameters
           operation == catalog.operations[id]
<1>1. o.status = Field(raw, "status", Null) /\ q = ParsedParameters(raw.parameters)
  BY DEF Operation, OperationFields
<1> HIDE DEF o, operation
<1> SUFFICES ASSUME o.status = "included" PROVE Feeds(operation, o, id)
  BY DEF Feeds, o, operation
<1>2. AcceptableInclusion(operation, id, raw)
  BY <1>1 DEF Acceptable, operation
<1>3. ~operation.deprecated /\ AcceptableParameters(operation, id, Field(raw, "parameters", Null))
  BY <1>2 DEF AcceptableInclusion
<1>4. Field(raw, "parameters", Null) = raw.parameters
  BY <1>3 DEF AcceptableParameters, IsArray, Field
<1>5. /\ \A n, m \in DOMAIN q : q[n].uapi_name = q[m].uapi_name => n = m
      /\ FeedsRequired(operation, q)
  BY <1>1, <1>3, <1>4 DEF AcceptableParameters
<1>6. ASSUME NEW n \in DOMAIN q
      PROVE  id = UploadIdentity \/ q[n].uapi_name \in DOMAIN operation.parameters
  <2>1. n \in DOMAIN raw.parameters /\ q[n] = Parameter(raw.parameters[n])
    BY <1>1 DEF ParsedParameters
  <2>2. q[n].uapi_name = raw.parameters[n].uapi_name
    BY <2>1 DEF Parameter, ParameterFields
  <2>3. InCatalog(id, operation, raw.parameters[n].uapi_name)
    BY <1>3, <1>4, <2>1 DEF AcceptableParameters
  <2>4. QED
    BY <2>2, <2>3 DEF InCatalog
<1>7. ASSUME NEW u \in DOMAIN operation.parameters
      PROVE  /\ Cardinality({n \in DOMAIN q : q[n].uapi_name = u}) <= 1
             /\ operation.parameters[u].required =>
                   \E n \in {m \in DOMAIN q : q[m].uapi_name = u} : q[n].required
  <2> DEFINE feeds == {n \in DOMAIN q : q[n].uapi_name = u}
  <2>1. \A n, m \in feeds : n = m
    BY <1>5
  <2> HIDE DEF q
  <2>2. Cardinality(feeds) <= 1
    <3> HIDE DEF feeds
    <3>1. QED
      BY <2>1, AtMostOne
  <2>3. operation.parameters[u].required => \E n \in feeds : q[n].required
    BY <1>5 DEF FeedsRequired
  <2>4. QED
    BY <2>2, <2>3
<1>8. QED
  BY <1>3, <1>6, <1>7 DEF Feeds

LEMMA FromDictIsSound ==
    ASSUME NEW catalog, NEW document, FromDict(catalog, document) # Rejected
    PROVE  /\ Sound(FromDict(catalog, document))
           /\ \A id \in DOMAIN FromDict(catalog, document) :
                Feeds(catalog.operations[id], FromDict(catalog, document)[id], id)
           /\ DOMAIN FromDict(catalog, document) = Candidates(catalog)
<1> DEFINE items == document.operations.items
           identity(i) == RecordIdentity(document.operations, i)
           parsed == [i \in DOMAIN items |-> Operation(identity(i), items[i])]
           registry == ByIdentity(parsed)
<1>1. /\ FromDict(catalog, document) = registry
      /\ \A i \in DOMAIN items : Acceptable(catalog, identity(i), items[i])
      /\ Unique(parsed)
      /\ DOMAIN registry = Candidates(catalog)
      /\ HonoursStableContracts(registry)
      /\ SecretInventory(registry)
  BY DEF FromDict
<1>2. ASSUME NEW i \in DOMAIN items
      PROVE  /\ parsed[i] = Operation(identity(i), items[i])
             /\ SoundOperation(parsed[i], identity(i))
             /\ Feeds(catalog.operations[identity(i)], parsed[i], identity(i))
  BY <1>1, AcceptableIsSound, AcceptableFeeds
<1>3. ASSUME NEW id \in DOMAIN registry
      PROVE  \E i \in DOMAIN items : registry[id] = parsed[i] /\ identity(i) = id
  <2>1. id \in {parsed[i].identity : i \in DOMAIN parsed}
    BY DEF ByIdentity
  <2>2. \E o \in {parsed[i] : i \in DOMAIN parsed} : o.identity = id
    BY <2>1
  <2>3. registry[id] = CHOOSE o \in {parsed[i] : i \in DOMAIN parsed} : o.identity = id
    BY <2>1 DEF ByIdentity
  <2>4. registry[id] \in {parsed[i] : i \in DOMAIN parsed} /\ registry[id].identity = id
    BY <2>2, <2>3
  <2>5. PICK i \in DOMAIN items : registry[id] = parsed[i]
    BY <2>4
  <2>6. parsed[i].identity = identity(i)
    BY <1>2 DEF SoundOperation
  <2>7. QED
    BY <2>4, <2>5, <2>6
<1>4. \A id \in DOMAIN registry : /\ SoundOperation(registry[id], id)
                                  /\ Feeds(catalog.operations[id], registry[id], id)
  BY <1>2, <1>3
<1>5. ASSUME NEW m \in DOMAIN registry, NEW n \in DOMAIN registry, m # n
      PROVE  /\ registry[m].name # registry[n].name
             /\ registry[m].command # <<>> => registry[m].command # registry[n].command
  <2>1. PICK i \in DOMAIN items : registry[m] = parsed[i] /\ identity(i) = m
    BY <1>3
  <2>2. PICK j \in DOMAIN items : registry[n] = parsed[j] /\ identity(j) = n
    BY <1>3
  <2>3. i # j /\ i \in DOMAIN parsed /\ j \in DOMAIN parsed
    BY <1>5, <2>1, <2>2
  <2>4. Unique(parsed)
    BY <1>1
  <2> HIDE DEF registry, parsed
  <2>5. /\ parsed[i].name # parsed[j].name
        /\ parsed[i].command # <<>> => parsed[i].command # parsed[j].command
    BY <2>3, <2>4 DEF Unique
  <2>6. QED
    BY <2>1, <2>2, <2>5
<1> HIDE DEF registry
<1>6. QED
  BY <1>1, <1>4, <1>5 DEF Sound

------------------------------------------------------------------------------
(* The generator.                                                           *)

\* What the script holds for a registry is one that from_dict has accepted.
RunInv ==
    /\ DOMAIN run = DOMAIN Idle
    /\ run.pc \in {"source", "lock"} => run.registry = NoCatalog
    /\ run.registry # NoCatalog =>
          /\ Sound(run.registry)
          /\ \A id \in DOMAIN run.registry :
                Feeds(run.catalog.operations[id], run.registry[id], id)

LEMMA RunInvInit == Init => RunInv
BY DEF Init, RunInv, Idle

LEMMA RunInvNext == RunInv /\ [Next]_vars => RunInv'
<1> SUFFICES ASSUME RunInv, [Next]_vars PROVE RunInv'
  OBVIOUS
<1>1. ASSUME NEW r, Finish(r) PROVE RunInv'
  BY <1>1 DEF Finish, Idle, RunInv
<1>2. ASSUME NEW label, label \notin {"source", "lock"}, Goto(label) PROVE RunInv'
  BY <1>2 DEF Goto, RunInv, Idle
<1>3. ASSUME UNCHANGED run PROVE RunInv'
  BY <1>3 DEF RunInv
<1>4. ASSUME NEW mode, Begin(mode) PROVE RunInv'
  BY <1>4 DEF Begin, Idle, RunInv
<1>5. CASE ReadSource
  BY <1>5 DEF ReadSource, RunInv, Idle
<1>6. CASE ReadLock
  BY <1>6, <1>1 DEF ReadLock, RunInv, Idle
<1>7. CASE ReadPolicy
  <2> DEFINE registry == FromDict(run.catalog, policy)
  <2>1. CASE registry = Rejected
    BY <1>7, <1>1, <2>1 DEF ReadPolicy
  <2>2. CASE registry # Rejected
    <3>1. Sound(registry) /\ \A id \in DOMAIN registry :
                                Feeds(run.catalog.operations[id], registry[id], id)
      BY <2>2, FromDictIsSound
    <3> HIDE DEF registry
    <3>2. run' = [run EXCEPT !.pc = "digest", !.registry = registry]
      BY <1>7, <2>2 DEF ReadPolicy, registry
    <3>3. DOMAIN run' = DOMAIN Idle /\ run'.registry = registry /\ run'.catalog = run.catalog
          /\ run'.pc = "digest"
      BY <3>2 DEF RunInv, Idle
    <3>4. QED
      BY <3>1, <3>3 DEF RunInv
  <2>3. QED
    BY <2>1, <2>2
<1>8. CASE ComparePolicy
  BY <1>8, <1>1 DEF ComparePolicy, RunInv, Idle
<1>9. CASE OpenOutput \/ WriteOutput \/ OpenSupport
  BY <1>9, <1>2 DEF OpenOutput, WriteOutput, OpenSupport
<1>10. CASE WriteSupport \/ CheckOutput \/ CheckSupport \/ Stop
  BY <1>10, <1>1, <1>2 DEF WriteSupport, CheckOutput, CheckSupport, Stop
<1>11. CASE EditSource \/ EditLock \/ EditPolicy \/ Approve \/ EditCatalog \/ UNCHANGED vars
  BY <1>11, <1>3 DEF EditSource, EditLock, EditPolicy, Approve, EditCatalog, vars
<1>12. QED
  BY <1>4, <1>5, <1>6, <1>7, <1>8, <1>9, <1>10, <1>11 DEF Next

\* Every command and every name of a registry that was accepted belongs to one
\* included operation, those of the stable contracts to the identities they name.
THEOREM NamesAreUnambiguous == Spec => []CommandsAreUnambiguous
<1>1. ASSUME NEW registry, Sound(registry), NEW id \in DOMAIN registry
      PROVE  /\ Get(registry, registry[id].name)
                  = IF registry[id].status = "included" THEN id ELSE Rejected
             /\ registry[id].status = "included" => ByCommand(registry, registry[id].command) = id
  <2>1. {i \in DOMAIN registry : registry[i].name = registry[id].name} = {id}
    BY <1>1 DEF Sound
  <2>2. (CHOOSE i \in {id} : TRUE) = id
    OBVIOUS
  <2>3. Get(registry, registry[id].name)
            = IF registry[id].status = "included" THEN id ELSE Rejected
    BY <2>1, <2>2 DEF Get
  <2>4. ASSUME registry[id].status = "included"
        PROVE  ByCommand(registry, registry[id].command) = id
    <3>1. registry[id].command # <<>>
      BY <1>1, <2>4 DEF Sound, SoundOperation
    <3>2. {i \in DOMAIN registry : /\ registry[i].command = registry[id].command
                                   /\ registry[id].command # <<>>} = {id}
      BY <1>1, <3>1 DEF Sound
    <3>3. QED
      BY <2>2, <3>2 DEF ByCommand
  <2>5. QED
    BY <2>3, <2>4
<1>2. ASSUME NEW registry, Sound(registry), NEW id \in DOMAIN STABLE_MVP_OPERATION_CONTRACTS
      PROVE  ByCommand(registry, STABLE_MVP_OPERATION_CONTRACTS[id].command) = id
  <2>1. /\ id \in DOMAIN registry /\ registry[id].status = "included"
        /\ registry[id].command = STABLE_MVP_OPERATION_CONTRACTS[id].command
    BY <1>2 DEF Sound, HonoursStableContracts
  <2>2. QED
    BY <1>1, <1>2, <2>1
<1>3. RunInv => CommandsAreUnambiguous
  BY <1>1, <1>2 DEF RunInv, CommandsAreUnambiguous, Loaded
<1>4. QED
  BY <1>3, RunInvInit, RunInvNext, PTL DEF Spec

\* The secret inputs of an accepted registry are those of the contracts, from
\* protected sources, hidden and not audited.
THEOREM SecretsAreKnownToPolicy == Spec => []SecretsAreInventoried
<1> DEFINE inputsOf(registry) ==
        UNION {{id} \X DOMAIN registry[id].parameters : id \in DOMAIN registry}
<1>1. ASSUME NEW registry, Sound(registry), NEW id \in DOMAIN registry,
             NEW n \in DOMAIN registry[id].parameters, registry[id].parameters[n].secret
      PROVE  /\ <<id, n>> \in DOMAIN PROTECTED_INPUT_CONTRACTS
             /\ Elements(registry[id].parameters[n].sources) \subseteq ProtectedSources
             /\ registry[id].parameters[n].sensitive_output
             /\ n \notin Elements(registry[id].audit_fields)
  <2>1. <<id, n>> \in inputsOf(registry)
    OBVIOUS
  <2>2. <<id, n>> \in DOMAIN PROTECTED_INPUT_CONTRACTS
    BY <1>1, <2>1 DEF Sound, SecretInventory
  <2>3. SoundOperation(registry[id], id)
    BY <1>1 DEF Sound
  <2>4. registry[id].parameters[n] = PROTECTED_INPUT_CONTRACTS[<<id, n>>]
    BY <2>2, <2>3 DEF SoundOperation, HonoursProtectedInputs
  <2>5. QED
    BY <1>1, <2>2, <2>3, <2>4, ContractAssumption DEF SoundOperation
<1>2. ASSUME NEW registry, Sound(registry), NEW c \in DOMAIN PROTECTED_INPUT_CONTRACTS
      PROVE  registry[c[1]].parameters[c[2]].secret
  BY <1>2 DEF Sound, SecretInventory
<1>3. RunInv => SecretsAreInventoried
  BY <1>1, <1>2 DEF RunInv, SecretsAreInventoried, Loaded
<1>4. QED
  BY <1>3, RunInvInit, RunInvNext, PTL DEF Spec

------------------------------------------------------------------------------
(* The runtime.                                                             *)

\* A catalog is loaded without a policy, or with one that has the trusted records
\* and feeds the operations of the very catalog.  Null is no operation.
LEMMA LoadedCatalog ==
    ASSUME DOMAIN Null # OperationFields,
           NEW value, NEW digest, NEW c, c = LoadCatalog(value, digest), c # Rejected
    PROVE  /\ \/ c.policy_sha256 = Null /\ DOMAIN Policies(c) = {}
              \/ c.policy_sha256 = digest /\ Records(Policies(c)) = digest
           /\ \A id \in DOMAIN Policies(c) : Feeds(c.operations[id], Policies(c)[id], id)
<1> DEFINE bare == BareCatalog(value)
           registry == FromDict(bare, Manifest(Embedded(value)))
<1>1. /\ bare.policy_sha256 = Null
      /\ \A id \in DOMAIN bare.operations : bare.operations[id].policy = Null
  BY DEF BareCatalog, OperationFromDict
<1>2. DOMAIN bare = {"source_sha256", "excluded_paths", "operations", "policy_sha256"}
  BY DEF BareCatalog
<1>3. c = bare \/ (/\ c = WithPolicy(bare, registry, digest)
                   /\ registry # Rejected
                   /\ Records(registry) = digest)
  BY DEF LoadCatalog, AttachGeneratedPolicy
<1>4. CASE c = bare
  <2>1. DOMAIN Policies(c) = {}
    BY <1>1, <1>4 DEF Policies
  <2>2. QED
    BY <1>1, <1>4, <2>1
<1>5. CASE /\ c = WithPolicy(bare, registry, digest)
           /\ registry # Rejected
           /\ Records(registry) = digest
  <2>1. Sound(registry) /\ DOMAIN registry = Candidates(bare)
    BY <1>5, FromDictIsSound
  <2> HIDE DEF registry, bare
  <2>2. DOMAIN registry \subseteq DOMAIN bare.operations
    BY <2>1 DEF Candidates
  <2>3. \A id \in DOMAIN registry : registry[id] # Null
    BY <2>1 DEF Sound, SoundOperation
  <2>4. /\ c.policy_sha256 = digest
        /\ c.operations = [id \in DOMAIN bare.operations |->
              [bare.operations[id] EXCEPT
                  !.policy = IF id \in DOMAIN registry THEN registry[id] ELSE Null]]
    BY <1>2, <1>5 DEF WithPolicy
  <2>5. \A id \in DOMAIN bare.operations :
           c.operations[id].policy = IF id \in DOMAIN registry THEN registry[id] ELSE Null
    BY <2>4, <1>2 DEF bare, BareCatalog, OperationFromDict
  <2>6. DOMAIN c.operations = DOMAIN bare.operations
    BY <2>4
  <2>7. /\ DOMAIN Policies(c) = DOMAIN registry
        /\ \A id \in DOMAIN registry : Policies(c)[id] = registry[id]
    BY <2>2, <2>3, <2>5, <2>6 DEF Policies
  <2>8. Records(Policies(c)) = Records(registry)
    BY <2>7 DEF Records
  <2>9. ASSUME NEW id \in DOMAIN Policies(c)
        PROVE  Feeds(c.operations[id], Policies(c)[id], id)
    <3>1. /\ id \in DOMAIN registry /\ id \in DOMAIN bare.operations
          /\ Policies(c)[id] = registry[id]
          /\ Feeds(bare.operations[id], registry[id], id)
      BY <1>5, <2>1, <2>2, <2>7, FromDictIsSound DEF registry
    <3>2. /\ c.operations[id].parameters = bare.operations[id].parameters
          /\ c.operations[id].deprecated = bare.operations[id].deprecated
      BY <2>4, <3>1 DEF bare, BareCatalog, OperationFromDict
    <3>3. QED
      BY <3>1, <3>2 DEF Feeds
  <2>10. QED
    BY <1>5, <2>4, <2>8, <2>9
<1>6. QED
  BY <1>3, <1>4, <1>5

\* Whatever the packaged catalog has become, it is loaded with the policy that the
\* code trusts, or with none, or not at all.
THEOREM TrustedPolicyOrNone ==
    ASSUME DOMAIN Null # OperationFields
    PROVE  Spec => []RuntimeRunsTrustedPolicy
<1>1. RuntimeRunsTrustedPolicy
  BY LoadedCatalog DEF RuntimeRunsTrustedPolicy, Runtime
<1>2. QED
  BY <1>1, PTL

\* Both in the generator and in a runtime, whatever was edited, every input that
\* the API requires of an included operation is supplied by one mandatory parameter.
THEOREM InputsAreSupplied ==
    ASSUME DOMAIN Null # OperationFields
    PROVE  Spec => []RequiredInputsAreSupplied
<1>1. ASSUME NEW operation, NEW registry, NEW id
      PROVE  Supplied(operation, registry, id) <=> Feeds(operation, registry[id], id)
  BY DEF Supplied, Feeds
<1>2. RunInv /\ Loaded => \A id \in DOMAIN run.registry :
                            Supplied(run.catalog.operations[id], run.registry, id)
  BY <1>1 DEF RunInv, Loaded
<1>3. HasPolicy(Runtime) => \A id \in DOMAIN Policies(Runtime) :
                              Supplied(Runtime.operations[id], Policies(Runtime), id)
  BY <1>1, LoadedCatalog DEF Runtime, HasPolicy
<1>4. RunInv => RequiredInputsAreSupplied
  BY <1>2, <1>3 DEF RequiredInputsAreSupplied
<1>5. QED
  BY <1>4, RunInvInit, RunInvNext, PTL DEF Spec

------------------------------------------------------------------------------
(* Records that from_dict accepted are accepted again.                      *)

\* JSON null, a value of a wrong type, a failed load and a file that is not JSON
\* are no JSON objects.
IsObject(x) == x = [f \in DOMAIN x |-> x[f]]
NoObjects == \A x \in {Null, Malformed, Rejected, NotJson} : ~IsObject(x)

LEMMA EmptyObject ==
    ASSUME NEW x, IsObject(x), DOMAIN x = {}
    PROVE  x = <<>>
<1>1. <<>> = [i \in {} |-> x[i]]
  OBVIOUS
<1>2. QED
  BY <1>1 DEF IsObject

LEMMA NoEmptyDomain == DOMAIN <<>> = {}
OBVIOUS

\* A parameter has every field once it is parsed, and is then written as it is.
LEMMA ParameterIsFixed ==
    ASSUME NEW raw, NEW n, WellFormed(raw, n)
    PROVE  /\ Parameter(Parameter(raw)) = Parameter(raw)
           /\ [g \in ParameterFields |-> Parameter(raw)[g]] = Parameter(raw)
           /\ WellFormed(Parameter(raw), n)
<1> DEFINE q == Parameter(raw)
<1>1. /\ q = [f \in ParameterFields |->
                IF f \in {"secret", "sensitive_output"} THEN Field(raw, f, FALSE) ELSE raw[f]]
      /\ DOMAIN q = ParameterFields
      /\ \A f \in ParameterFields : Field(q, f, FALSE) = q[f] /\ Field(q, f, Null) = q[f]
  BY DEF Parameter, Field
<1>2. /\ {"sources", "uapi_name", "validator", "required", "name"} \subseteq DOMAIN raw
      /\ \A f \in DOMAIN raw : Field(raw, f, Null) = raw[f]
  BY NullAssumption DEF WellFormed, IsArray, IsText, Field
<1>3. /\ q.name = raw.name /\ q.sources = raw.sources /\ q.uapi_name = raw.uapi_name
      /\ q.validator = raw.validator /\ q.required = raw.required
      /\ q.secret = Field(raw, "secret", FALSE)
      /\ q.sensitive_output = Field(raw, "sensitive_output", FALSE)
  BY <1>1 DEF ParameterFields
<1> HIDE DEF q
<1>4. Parameter(q) = q
  BY <1>1 DEF Parameter
<1>5. [g \in ParameterFields |-> q[g]] = q
  BY <1>1
<1>6. WellFormed(q, n)
  BY <1>1, <1>2, <1>3, <1>4 DEF WellFormed, ParameterFields, q
<1>7. QED
  BY <1>4, <1>5, <1>6 DEF q

LEMMA ParametersAreFixed ==
    ASSUME NEW raw, \A n \in DOMAIN raw : WellFormed(raw[n], n)
    PROVE  LET q == ParsedParameters(raw)
           IN  /\ DOMAIN q = DOMAIN raw
               /\ [n \in DOMAIN q |-> [g \in ParameterFields |-> q[n][g]]] = q
               /\ ParsedParameters(q) = q
               /\ \A n \in DOMAIN q : WellFormed(q[n], n) /\ Parameter(q[n]) = q[n]
<1> DEFINE q == ParsedParameters(raw)
<1>1. DOMAIN q = DOMAIN raw /\ q = [n \in DOMAIN q |-> q[n]]
  BY DEF ParsedParameters
<1>2. \A n \in DOMAIN q : q[n] = Parameter(raw[n])
  BY DEF ParsedParameters
<1> HIDE DEF q
<1>3. \A n \in DOMAIN q : /\ WellFormed(q[n], n) /\ Parameter(q[n]) = q[n]
                          /\ [g \in ParameterFields |-> q[n][g]] = q[n]
  BY <1>1, <1>2, ParameterIsFixed
<1>4. [n \in DOMAIN q |-> [g \in ParameterFields |-> q[n][g]]] = q
  BY <1>1, <1>3
<1>5. ParsedParameters(q) = q
  BY <1>1, <1>3 DEF ParsedParameters
<1>6. QED
  BY <1>1, <1>3, <1>4, <1>5 DEF q

\* A record that is accepted is accepted again in the form it was parsed to, which
\* is the form it is written in, and parses to itself.
LEMMA OperationIsFixed ==
    ASSUME NoObjects, NEW catalog, NEW id, NEW raw, Acceptable(catalog, id, raw)
    PROVE  LET o == Operation(id, raw)
           IN  ToDict(o) = o /\ Operation(id, o) = o /\ Acceptable(catalog, id, o)
<1> DEFINE o == Operation(id, raw)
           q == ParsedParameters(raw.parameters)
<1>1. /\ o = [f \in OperationFields |-> o[f]]
      /\ DOMAIN o = OperationFields
      /\ o.identity = id /\ o.parameters = q
      /\ \A f \in OperationFields \ {"identity", "parameters"} : o[f] = Field(raw, f, Null)
      /\ \A f \in OperationFields : \A d : Field(o, f, d) = o[f]
  BY DEF Operation, OperationFields, Field
<1>2. "parameters" \in DOMAIN raw /\ \A n \in DOMAIN raw.parameters : WellFormed(raw.parameters[n], n)
  <2>1. CASE AcceptableExclusion(raw)
    <3>1. "parameters" \in DOMAIN raw /\ raw.parameters = <<>>
      BY <2>1 DEF AcceptableExclusion, OperationFields
    <3>2. QED
      BY <3>1, NoEmptyDomain
  <2>2. CASE AcceptableInclusion(catalog.operations[id], id, raw)
    BY <2>2 DEF AcceptableInclusion, AcceptableParameters, IsArray, Field
  <2>3. QED
    BY <2>1, <2>2 DEF Acceptable
<1>3. /\ [n \in DOMAIN q |-> [g \in ParameterFields |-> q[n][g]]] = q
      /\ ParsedParameters(q) = q
      /\ DOMAIN q = DOMAIN raw.parameters
      /\ \A n \in DOMAIN q : WellFormed(q[n], n) /\ Parameter(q[n]) = q[n]
  BY <1>2, ParametersAreFixed
<1>4. IsObject(q) /\ IsObject(o) /\ \A n \in DOMAIN q : q[n] = Parameter(raw.parameters[n])
  BY <1>1 DEF IsObject, ParsedParameters
<1> HIDE DEF q, o
<1>5. ToDict(o) = o
  BY <1>1, <1>3 DEF ToDict
<1>6. Operation(id, o) = o
  BY <1>1, <1>3 DEF Operation
<1>7. o # Malformed /\ IsArray(q)
  BY <1>4 DEF NoObjects, IsArray
<1>8. CASE Field(raw, "status", Null) = "excluded" /\ AcceptableExclusion(raw)
  <2>1. \A f \in OperationFields \ {"identity", "parameters"} : o[f] = raw[f]
    BY <1>1, <1>8 DEF AcceptableExclusion, Field
  <2>2. q = <<>>
    <3>1. DOMAIN q = {}
      BY <1>3, <1>8, NoEmptyDomain DEF AcceptableExclusion
    <3>2. QED
      BY <3>1, <1>4, EmptyObject
  <2>3. AcceptableExclusion(o)
    BY <1>1, <1>8, <2>1, <2>2 DEF AcceptableExclusion, OperationFields
  <2>4. QED
    BY <1>1, <1>5, <1>6, <1>7, <1>8, <2>3 DEF Acceptable, o, OperationFields
<1>9. CASE /\ Field(raw, "status", Null) = "included"
           /\ AcceptableInclusion(catalog.operations[id], id, raw)
  <2> DEFINE operation == catalog.operations[id]
  <2>1. /\ AcceptableParameters(operation, id, raw.parameters)
        /\ \A f \in OperationFields \ {"identity", "parameters"} :
              Field(raw, f, Null) # Null => f \in DOMAIN raw /\ o[f] = raw[f]
    BY <1>1, <1>2, <1>9 DEF AcceptableInclusion, Field
  <2>2. AcceptableParameters(operation, id, q)
    <3>1. /\ DOMAIN raw.parameters \cap ReservedNames = {}
          /\ \A n \in DOMAIN raw.parameters : InCatalog(id, operation, raw.parameters[n].uapi_name)
          /\ id = UploadIdentity => q = UploadContract
          /\ HonoursProtectedInputs(id, q)
          /\ \A n, m \in DOMAIN q : q[n].uapi_name = q[m].uapi_name => n = m
          /\ FeedsRequired(operation, q)
      BY <2>1 DEF AcceptableParameters, q
    <3>2. ASSUME NEW n \in DOMAIN q PROVE q[n].uapi_name = raw.parameters[n].uapi_name
      <4>1. q[n] = Parameter(raw.parameters[n])
        BY <1>4
      <4>2. QED
        BY <4>1 DEF Parameter, ParameterFields
    <3>3. \A n \in DOMAIN q : InCatalog(id, operation, q[n].uapi_name)
      BY <1>3, <3>1, <3>2
    <3> HIDE DEF operation
    <3>4. QED
      BY <1>3, <1>7, <3>1, <3>3 DEF AcceptableParameters
  <2>3. /\ o.risk = raw.risk /\ o.command = raw.command /\ o.audit_fields = raw.audit_fields
        /\ o.impact = raw.impact /\ o.recovery = raw.recovery
    <3>1. Null \notin Risks
      BY NullAssumption
    <3>2. \A f \in {"risk", "command", "audit_fields", "impact", "recovery"} :
             Field(raw, f, Null) # Null
      BY <1>9, <3>1 DEF AcceptableInclusion, IsArray, IsString
    <3>3. QED
      BY <2>1, <3>2 DEF OperationFields
  <2>4. AcceptableInclusion(operation, id, o)
    <3>1. \A f \in OperationFields \ {"identity", "parameters"} :
             Field(o, f, Null) = Field(raw, f, Null)
      BY <1>1
    <3>2. Field(o, "parameters", Null) = q /\ o.parameters = q
      BY <1>1 DEF OperationFields
    <3>3. \A n \in Elements(o.audit_fields) : n \in DOMAIN q /\ ~Parameter(q[n]).secret
      BY <1>3, <1>4, <1>9, <2>3 DEF AcceptableInclusion
    <3> HIDE DEF operation
    <3>4. AcceptableInclusion(operation, id, raw)
      BY <1>9 DEF operation
    <3>5. QED
      BY <2>2, <2>3, <3>1, <3>2, <3>3, <3>4 DEF AcceptableInclusion, OperationFields
  <2>5. QED
    BY <1>1, <1>5, <1>6, <1>7, <1>9, <2>4 DEF Acceptable, o, OperationFields
<1>10. QED
  BY <1>8, <1>9 DEF Acceptable

\* What from_dict returns is a map of operations, each of them as it was accepted.
LEMMA RegistryIsFixed ==
    ASSUME NoObjects, NEW catalog, NEW document, FromDict(catalog, document) # Rejected
    PROVE  LET registry == FromDict(catalog, document)
           IN  /\ IsObject(registry)
               /\ \A id \in DOMAIN registry :
                    /\ ToDict(registry[id]) = registry[id]
                    /\ Operation(id, registry[id]) = registry[id]
                    /\ Acceptable(catalog, id, registry[id])
<1> DEFINE items == document.operations.items
           identity(i) == RecordIdentity(document.operations, i)
           parsed == [i \in DOMAIN items |-> Operation(identity(i), items[i])]
           registry == ByIdentity(parsed)
<1>1. /\ FromDict(catalog, document) = registry
      /\ \A i \in DOMAIN items : Acceptable(catalog, identity(i), items[i])
  BY DEF FromDict
<1>2. ASSUME NEW i \in DOMAIN items
      PROVE  /\ ToDict(parsed[i]) = parsed[i]
             /\ Operation(identity(i), parsed[i]) = parsed[i]
             /\ Acceptable(catalog, identity(i), parsed[i])
             /\ parsed[i].identity = identity(i)
  <2>1. parsed[i] = Operation(identity(i), items[i])
    OBVIOUS
  <2>2. parsed[i].identity = identity(i)
    BY <2>1 DEF Operation, OperationFields
  <2> HIDE DEF parsed, identity
  <2>3. Acceptable(catalog, identity(i), items[i])
    BY <1>1
  <2>4. QED
    BY <2>1, <2>2, <2>3, OperationIsFixed
<1>3. ASSUME NEW id \in DOMAIN registry
      PROVE  \E i \in DOMAIN items : registry[id] = parsed[i] /\ parsed[i].identity = id
  <2>1. id \in {parsed[i].identity : i \in DOMAIN parsed}
    BY DEF ByIdentity
  <2>2. \E o \in {parsed[i] : i \in DOMAIN parsed} : o.identity = id
    BY <2>1
  <2>3. registry[id] = CHOOSE o \in {parsed[i] : i \in DOMAIN parsed} : o.identity = id
    BY <2>1 DEF ByIdentity
  <2>4. registry[id] \in {parsed[i] : i \in DOMAIN parsed} /\ registry[id].identity = id
    BY <2>2, <2>3
  <2>5. QED
    BY <2>4
<1>4. IsObject(registry)
  BY DEF IsObject, ByIdentity
<1> HIDE DEF registry, parsed, identity
<1>5. ASSUME NEW id \in DOMAIN registry
      PROVE  /\ ToDict(registry[id]) = registry[id]
             /\ Operation(id, registry[id]) = registry[id]
             /\ Acceptable(catalog, id, registry[id])
  <2>1. PICK i \in DOMAIN items : registry[id] = parsed[i] /\ parsed[i].identity = id
    BY <1>3
  <2>2. QED
    BY <1>2, <2>1
<1>6. QED
  BY <1>1, <1>4, <1>5

\* The records of an accepted registry, in a manifest of their own, are accepted as
\* the same registry (policy_operation_to_dict and _policy_from_generated).
LEMMA RegistryReloads ==
    ASSUME NoObjects, NEW catalog, NEW document, FromDict(catalog, document) # Rejected
    PROVE  /\ Records(FromDict(catalog, document)) = FromDict(catalog, document)
           /\ FromDict(catalog, Manifest(Records(FromDict(catalog, document))))
                = FromDict(catalog, document)
           /\ DOMAIN FromDict(catalog, document) = ReviewedCandidates
           /\ DOMAIN FromDict(catalog, document) = Candidates(catalog)
<1> DEFINE registry == FromDict(catalog, document)
           manifest == Manifest(Records(registry))
           parsed == [id \in DOMAIN registry |-> Operation(id, registry[id])]
<1>1. /\ IsObject(registry)
      /\ \A id \in DOMAIN registry : /\ ToDict(registry[id]) = registry[id]
                                     /\ Operation(id, registry[id]) = registry[id]
                                     /\ Acceptable(catalog, id, registry[id])
  BY RegistryIsFixed
<1>2. Sound(registry) /\ DOMAIN registry = Candidates(catalog)
  BY FromDictIsSound
<1>3. DOMAIN registry = ReviewedCandidates
  BY <1>2 DEF FromDict
<1> HIDE DEF registry
<1>4. Records(registry) = registry
  BY <1>1 DEF Records, IsObject
<1>5. parsed = registry
  BY <1>1 DEF IsObject
<1>6. /\ Unique(parsed)
      /\ \A id \in DOMAIN registry : registry[id].identity = id
  BY <1>2, <1>5 DEF Sound, SoundOperation, Unique
<1>7. ByIdentity(parsed) = registry
  <2>1. {parsed[id].identity : id \in DOMAIN parsed} = DOMAIN registry
    <3> HIDE DEF parsed
    <3>1. {registry[id].identity : id \in DOMAIN registry} = {id : id \in DOMAIN registry}
      BY <1>6
    <3>2. QED
      BY <1>5, <3>1
  <2>2. ASSUME NEW id \in DOMAIN registry
        PROVE  (CHOOSE o \in {parsed[i] : i \in DOMAIN parsed} : o.identity = id) = registry[id]
    <3>1. \A o \in {registry[i] : i \in DOMAIN registry} : o.identity = id => o = registry[id]
      BY <1>6
    <3>2. registry[id] \in {registry[i] : i \in DOMAIN registry} /\ registry[id].identity = id
      BY <1>6
    <3> HIDE DEF parsed
    <3>3. QED
      BY <1>5, <3>1, <3>2
  <2> HIDE DEF parsed
  <2>3. ByIdentity(parsed) = [id \in DOMAIN registry |-> registry[id]]
    BY <2>1, <2>2 DEF ByIdentity
  <2>4. QED
    BY <1>1, <2>3 DEF IsObject
<1>8. /\ DOMAIN manifest = {"schema_version", "selected_modules", "operations"}
      /\ manifest.schema_version = 1 /\ manifest.selected_modules = SELECTED_MODULES
      /\ manifest.operations.items = registry
      /\ \A i \in DOMAIN registry : RecordIdentity(manifest.operations, i) = i
  BY <1>4 DEF Manifest, RecordIdentity
<1>9. \A i \in DOMAIN manifest.operations.items :
         Acceptable(catalog, RecordIdentity(manifest.operations, i), manifest.operations.items[i])
  BY <1>1, <1>8
<1>10. [i \in DOMAIN manifest.operations.items |->
          Operation(RecordIdentity(manifest.operations, i), manifest.operations.items[i])] = parsed
  BY <1>8
<1>11. HonoursStableContracts(registry) /\ SecretInventory(registry)
  BY <1>2 DEF Sound
<1> HIDE DEF manifest, parsed
<1>12. FromDict(catalog, manifest) = registry
  BY <1>2, <1>3, <1>6, <1>7, <1>8, <1>9, <1>10, <1>11, SelectionAssumption DEF FromDict
<1>13. QED
  BY <1>2, <1>3, <1>4, <1>12 DEF manifest, registry

------------------------------------------------------------------------------
(* What is generated is read back.                                          *)

\* The registry passes for a document of its own records.
Reloads(catalog, registry) ==
    /\ registry # Rejected
    /\ FromDict(catalog, Manifest(Records(registry))) = registry

\* The catalog of a document: operations without policy, inputs of the one location.
LEMMA NormalizedCatalog ==
    ASSUME NEW document, NEW excluded, NormalizeDocument(document, excluded) # Rejected
    PROVE  LET catalog == NormalizeDocument(document, excluded)
               operations == catalog.operations
           IN  /\ catalog = [source_sha256 |-> document, excluded_paths |-> catalog.excluded_paths,
                             operations |-> operations, policy_sha256 |-> Null]
               /\ operations = [id \in DOMAIN operations |->
                                   [method |-> operations[id].method,
                                    deprecated |-> operations[id].deprecated,
                                    parameters |-> operations[id].parameters,
                                    policy |-> Null]]
               /\ \A id \in DOMAIN operations :
                    /\ operations[id].deprecated \in BOOLEAN
                    /\ \A n \in DOMAIN operations[id].parameters :
                         /\ operations[id].parameters[n].location = "query"
                         /\ operations[id].parameters[n].required \in BOOLEAN
<1> DEFINE occurrences == Occurrences(document)
           at(id) == CHOOSE o \in occurrences : o[1].segments = id
           operation(id) ==
               [method |-> at(id)[2],
                deprecated |-> document.paths[at(id)[1]].methods[at(id)[2]].deprecated,
                parameters |-> NormalizedParameters(RawParameters(document, at(id))),
                policy |-> Null]
           catalog == [source_sha256 |-> document,
                       excluded_paths |-> {p \in DOMAIN document.paths : ~Canonical(p)},
                       operations |-> [id \in {o[1].segments : o \in occurrences} |-> operation(id)],
                       policy_sha256 |-> Null]
<1>1. /\ NormalizeDocument(document, excluded) = catalog
      /\ \A o \in occurrences :
            /\ NormalizableParameters(RawParameters(document, o))
            /\ document.paths[o[1]].methods[o[2]].deprecated \in BOOLEAN
  BY DEF NormalizeDocument
<1>2. ASSUME NEW id \in {o[1].segments : o \in occurrences} PROVE at(id) \in occurrences
  OBVIOUS
<1>3. ASSUME NEW raw, NormalizableParameters(raw), NEW n \in DOMAIN NormalizedParameters(raw)
      PROVE  /\ NormalizedParameters(raw)[n].location = "query"
             /\ NormalizedParameters(raw)[n].required \in BOOLEAN
  <2> DEFINE i == CHOOSE i \in DOMAIN raw : raw[i].name = n
  <2>1. n \in {raw[k].name : k \in DOMAIN raw}
    BY DEF NormalizedParameters
  <2>2. i \in DOMAIN raw
    BY <2>1
  <2>3. NormalizedParameters(raw)[n]
           = [location |-> raw[i].in, required |-> Field(raw[i], "required", FALSE)]
    BY <2>1 DEF NormalizedParameters
  <2> HIDE DEF i
  <2>4. raw[i].in = "query" /\ Field(raw[i], "required", FALSE) \in BOOLEAN
    BY <1>3, <2>2 DEF NormalizableParameters
  <2>5. /\ NormalizedParameters(raw)[n].location = raw[i].in
        /\ NormalizedParameters(raw)[n].required = Field(raw[i], "required", FALSE)
    BY <2>3
  <2>6. QED
    BY <2>4, <2>5
<1> HIDE DEF occurrences, at
<1>4. ASSUME NEW id \in DOMAIN catalog.operations
      PROVE  /\ catalog.operations[id] = operation(id)
             /\ operation(id).deprecated \in BOOLEAN
             /\ \A n \in DOMAIN operation(id).parameters :
                  /\ operation(id).parameters[n].location = "query"
                  /\ operation(id).parameters[n].required \in BOOLEAN
  <2>1. at(id) \in occurrences
    BY <1>2
  <2>2. /\ NormalizableParameters(RawParameters(document, at(id)))
        /\ operation(id).parameters = NormalizedParameters(RawParameters(document, at(id)))
        /\ document.paths[at(id)[1]].methods[at(id)[2]].deprecated \in BOOLEAN
    BY <1>1, <2>1
  <2>3. QED
    BY <1>3, <2>2
<1>5. catalog.operations = [id \in DOMAIN catalog.operations |->
                              [method |-> catalog.operations[id].method,
                               deprecated |-> catalog.operations[id].deprecated,
                               parameters |-> catalog.operations[id].parameters,
                               policy |-> Null]]
  OBVIOUS
<1>6. catalog = [source_sha256 |-> document, excluded_paths |-> catalog.excluded_paths,
                 operations |-> catalog.operations, policy_sha256 |-> Null]
  OBVIOUS
<1> HIDE DEF catalog, operation
<1>7. QED
  BY <1>1, <1>4, <1>5, <1>6

\* What the generator computes is loaded as what it was computed from.
LEMMA GeneratedIsReadBack ==
    ASSUME NoObjects, NEW document, NEW excluded, NEW registry,
           NormalizeDocument(document, excluded) # Rejected,
           Reloads(NormalizeDocument(document, excluded), registry)
    PROVE  LET catalog == NormalizeDocument(document, excluded)
           IN  /\ LoadCatalog(Generated(catalog, registry), Records(registry))
                    = WithPolicy(catalog, registry, Records(registry))
               /\ IsObject(registry) /\ DOMAIN registry \subseteq DOMAIN catalog.operations
               /\ \A id \in DOMAIN registry : registry[id] # Null
<1> DEFINE catalog == NormalizeDocument(document, excluded)
           operations == catalog.operations
           value == Generated(catalog, registry)
           bare == ToJson(catalog)
           fields(id) == {"identity", "method", "deprecated", "parameters"}
                         \cup (IF id \in DOMAIN registry THEN {"policy"} ELSE {})
<1>1. /\ catalog = [source_sha256 |-> document, excluded_paths |-> catalog.excluded_paths,
                    operations |-> operations, policy_sha256 |-> Null]
      /\ operations = [id \in DOMAIN operations |->
                          [method |-> operations[id].method,
                           deprecated |-> operations[id].deprecated,
                           parameters |-> operations[id].parameters,
                           policy |-> Null]]
      /\ \A id \in DOMAIN operations :
           /\ operations[id].deprecated \in BOOLEAN
           /\ \A n \in DOMAIN operations[id].parameters :
                /\ operations[id].parameters[n].location = "query"
                /\ operations[id].parameters[n].required \in BOOLEAN
  BY NormalizedCatalog
<1>2. registry = FromDict(catalog, Manifest(Records(registry))) /\ registry # Rejected
  BY DEF Reloads
<1> HIDE DEF catalog
<1>3. /\ Records(registry) = registry
      /\ DOMAIN registry = ReviewedCandidates /\ DOMAIN registry = Candidates(catalog)
      /\ IsObject(registry)
      /\ \A id \in DOMAIN registry : ToDict(registry[id]) = registry[id]
      /\ \A id \in DOMAIN registry : IsObject(registry[id])
  <2> DEFINE manifest == Manifest(Records(registry))
  <2>1. FromDict(catalog, manifest) = registry /\ FromDict(catalog, manifest) # Rejected
    BY <1>2
  <2> HIDE DEF manifest
  <2>2. /\ Records(registry) = registry
        /\ DOMAIN registry = ReviewedCandidates /\ DOMAIN registry = Candidates(catalog)
    BY <2>1, RegistryReloads
  <2>3. /\ IsObject(registry)
        /\ \A id \in DOMAIN registry : /\ ToDict(registry[id]) = registry[id]
                                       /\ Operation(id, registry[id]) = registry[id]
    BY <2>1, RegistryIsFixed
  <2>4. ASSUME NEW id \in DOMAIN registry PROVE IsObject(registry[id])
    <3>1. IsObject(Operation(id, registry[id]))
      BY DEF IsObject, Operation
    <3>2. QED
      BY <2>3, <3>1
  <2>5. QED
    BY <2>2, <2>3, <2>4
<1>4. DOMAIN registry # {} /\ DOMAIN registry \subseteq DOMAIN operations
  BY <1>3, SelectionAssumption DEF Candidates
<1>5. /\ DOMAIN bare = {"source_sha256", "excluded_paths", "operations"}
      /\ bare.source_sha256 = catalog.source_sha256
      /\ bare.excluded_paths = catalog.excluded_paths
      /\ DOMAIN bare.operations = DOMAIN operations
      /\ \A id \in DOMAIN operations :
            /\ DOMAIN bare.operations[id] = {"identity", "method", "deprecated", "parameters"}
            /\ bare.operations[id].identity = id
            /\ bare.operations[id].method = operations[id].method
            /\ bare.operations[id].deprecated = operations[id].deprecated
            /\ bare.operations[id].parameters = operations[id].parameters
  <2>1. \A id \in DOMAIN operations : operations[id].policy = Null
    BY <1>1
  <2>2. QED
    BY <2>1 DEF ToJson, OperationToDict
<1> HIDE DEF bare, operations
<1>6. /\ value = [f \in DOMAIN bare \cup Metadata |->
                    CASE f = "generator_schema" -> GENERATOR_SCHEMA
                      [] f = "generated_notice" -> GENERATED_NOTICE
                      [] f = "policy_sha256" -> Records(registry)
                      [] f = "operations" ->
                            [id \in DOMAIN bare.operations |->
                                [g \in fields(id) |-> IF g = "policy" THEN ToDict(registry[id])
                                                      ELSE bare.operations[id][g]]]
                      [] OTHER -> bare[f]]
      /\ DOMAIN value = DOMAIN bare \cup Metadata
  <2>1. \A id \in DOMAIN bare.operations :
           DOMAIN bare.operations[id] \cup (IF id \in DOMAIN registry THEN {"policy"} ELSE {})
             = fields(id)
    BY <1>5
  <2>2. QED
    BY <2>1 DEF Generated, bare
<1>7. /\ value.generator_schema = GENERATOR_SCHEMA
      /\ value.generated_notice = GENERATED_NOTICE
      /\ value.policy_sha256 = Records(registry)
      /\ value.source_sha256 = catalog.source_sha256
      /\ value.excluded_paths = catalog.excluded_paths
      /\ value.operations = [id \in DOMAIN operations |->
                                [g \in fields(id) |-> IF g = "policy" THEN ToDict(registry[id])
                                                      ELSE bare.operations[id][g]]]
      /\ IsObject(value)
  BY <1>5, <1>6 DEF Metadata, IsObject
<1> HIDE DEF value
<1>8. ASSUME NEW id \in DOMAIN operations
      PROVE  /\ DOMAIN value.operations[id] = fields(id)
             /\ value.operations[id].identity = id
             /\ value.operations[id].method = operations[id].method
             /\ value.operations[id].deprecated = operations[id].deprecated
             /\ value.operations[id].parameters = operations[id].parameters
             /\ id \in DOMAIN registry => value.operations[id].policy = registry[id]
  BY <1>3, <1>5, <1>7
<1>9. DOMAIN value.operations = DOMAIN operations
  BY <1>7
<1>10. \A id \in DOMAIN value.operations : ReadableOperation(id, value.operations[id])
  BY <1>1, <1>8, <1>9 DEF ReadableOperation
<1>11. BareCatalog(value) = catalog
  <2>1. \A id \in DOMAIN value.operations : OperationFromDict(id, value.operations[id])
           = [method |-> operations[id].method, deprecated |-> operations[id].deprecated,
              parameters |-> operations[id].parameters, policy |-> Null]
    BY <1>8, <1>9 DEF OperationFromDict
  <2>2. [id \in DOMAIN value.operations |-> OperationFromDict(id, value.operations[id])] = operations
    BY <1>1, <1>9, <2>1
  <2>3. BareCatalog(value)
           = [source_sha256 |-> catalog.source_sha256, excluded_paths |-> catalog.excluded_paths,
              operations |-> operations, policy_sha256 |-> Null]
    BY <1>7, <2>2 DEF BareCatalog
  <2>4. catalog.source_sha256 = document
    BY <1>1
  <2>5. QED
    BY <1>1, <2>3, <2>4
<1>12. Embedded(value) = registry
  <2>1. {id \in DOMAIN value.operations : "policy" \in DOMAIN value.operations[id]} = DOMAIN registry
    <3>1. \A id \in DOMAIN operations : "policy" \in fields(id) <=> id \in DOMAIN registry
      OBVIOUS
    <3> HIDE DEF fields
    <3>2. \A id \in DOMAIN operations :
             "policy" \in DOMAIN value.operations[id] <=> id \in DOMAIN registry
      BY <1>8, <3>1
    <3>3. QED
      BY <1>4, <1>9, <3>2
  <2>2. \A id \in DOMAIN registry : value.operations[id].policy = registry[id]
    BY <1>4, <1>8
  <2>3. Embedded(value) = [id \in DOMAIN registry |-> registry[id]]
    BY <2>1, <2>2 DEF Embedded
  <2>4. QED
    BY <1>3, <2>3 DEF IsObject
<1>13. value # NotJson /\ \A id \in DOMAIN registry : registry[id] # Null
  BY <1>3, <1>7 DEF NoObjects
<1>14. Metadata \subseteq DOMAIN value /\ Metadata # {}
  BY <1>6 DEF Metadata
<1>15. AttachGeneratedPolicy(catalog, value, Records(registry))
         = WithPolicy(catalog, registry, Records(registry))
  <2>1. Embedded(value) = Records(registry)
    BY <1>3, <1>12
  <2>2. FromDict(catalog, Manifest(Embedded(value))) = registry /\ registry # Rejected
    BY ONLY <1>2, <2>1
  <2>3. ~(Metadata \cap DOMAIN value = {} /\ DOMAIN Embedded(value) = {})
    BY <1>4, <1>12
  <2>4. Records(FromDict(catalog, Manifest(Embedded(value)))) = Records(registry)
    BY ONLY <2>2
  <2>5. DOMAIN Embedded(value) # {} /\ Metadata \subseteq DOMAIN value
    BY <1>4, <1>12, <1>14
  <2>6. /\ value.generator_schema = GENERATOR_SCHEMA
        /\ value.generated_notice = GENERATED_NOTICE
        /\ value.policy_sha256 = Records(registry)
    BY <1>7
  <2>7. QED
    BY ONLY <2>1, <2>2, <2>3, <2>4, <2>5, <2>6, Zenon DEF AttachGeneratedPolicy
<1>16. LoadCatalog(value, Records(registry)) = WithPolicy(catalog, registry, Records(registry))
  BY <1>10, <1>11, <1>13, <1>15 DEF LoadCatalog
<1>17. QED
  BY <1>3, <1>4, <1>13, <1>16 DEF catalog, value, operations

\* What is read back describes the surface that the support matrix shows.
LEMMA ReadBackSurface ==
    ASSUME NoObjects, NEW document, NEW excluded, NEW registry,
           NormalizeDocument(document, excluded) # Rejected,
           Reloads(NormalizeDocument(document, excluded), registry)
    PROVE  LET catalog == NormalizeDocument(document, excluded)
               c == LoadCatalog(Generated(catalog, registry), Records(registry))
           IN  /\ HasPolicy(c)
               /\ c.source_sha256 = document
               /\ SupportMatrix(c, Policies(c)) = SupportMatrix(catalog, registry)
<1> DEFINE catalog == NormalizeDocument(document, excluded)
           c == LoadCatalog(Generated(catalog, registry), Records(registry))
<1>1. /\ c = WithPolicy(catalog, registry, Records(registry))
      /\ IsObject(registry) /\ DOMAIN registry \subseteq DOMAIN catalog.operations
      /\ \A id \in DOMAIN registry : registry[id] # Null
  BY GeneratedIsReadBack
<1>2. /\ catalog = [source_sha256 |-> document, excluded_paths |-> catalog.excluded_paths,
                    operations |-> catalog.operations, policy_sha256 |-> Null]
      /\ catalog.operations = [id \in DOMAIN catalog.operations |->
                                  [method |-> catalog.operations[id].method,
                                   deprecated |-> catalog.operations[id].deprecated,
                                   parameters |-> catalog.operations[id].parameters,
                                   policy |-> Null]]
  BY NormalizedCatalog
<1> HIDE DEF catalog, c
<1>3. /\ c = [catalog EXCEPT !.operations = [id \in DOMAIN catalog.operations |->
                                [catalog.operations[id] EXCEPT
                                    !.policy = IF id \in DOMAIN registry THEN registry[id] ELSE Null]],
                             !.policy_sha256 = Records(registry)]
      /\ DOMAIN catalog = {"source_sha256", "excluded_paths", "operations", "policy_sha256"}
      /\ catalog.source_sha256 = document
      /\ \A id \in DOMAIN catalog.operations :
            DOMAIN catalog.operations[id] = {"method", "deprecated", "parameters", "policy"}
  BY <1>1, <1>2 DEF WithPolicy
<1>4. /\ IsObject(c) /\ c.source_sha256 = document /\ c.policy_sha256 = Records(registry)
      /\ c.operations = [id \in DOMAIN catalog.operations |->
                            [catalog.operations[id] EXCEPT
                                !.policy = IF id \in DOMAIN registry THEN registry[id] ELSE Null]]
  BY <1>3 DEF IsObject
<1>5. /\ DOMAIN c.operations = DOMAIN catalog.operations
      /\ \A id \in DOMAIN catalog.operations :
            c.operations[id].policy = IF id \in DOMAIN registry THEN registry[id] ELSE Null
  BY <1>3, <1>4
<1>6. IsObject(Records(registry))
  BY DEF IsObject, Records
<1>7. HasPolicy(c)
  BY <1>4, <1>6 DEF HasPolicy, NoObjects
<1>8. Policies(c) = registry
  <2>1. {id \in DOMAIN c.operations : c.operations[id].policy # Null} = DOMAIN registry
    BY <1>1, <1>5
  <2>2. \A id \in DOMAIN registry : c.operations[id].policy = registry[id]
    BY <1>1, <1>5
  <2>3. Policies(c) = [id \in DOMAIN registry |-> registry[id]]
    BY <2>1, <2>2 DEF Policies
  <2>4. QED
    BY <1>1, <2>3 DEF IsObject
<1>9. SupportMatrix(c, Policies(c)) = SupportMatrix(catalog, registry)
  BY <1>3, <1>4, <1>8 DEF SupportMatrix
<1>10. QED
  BY <1>4, <1>7, <1>9 DEF catalog, c

------------------------------------------------------------------------------
(* The script and its artifacts.                                            *)

\* What the script has of its inputs at each of its steps, and what it knows of them.
Approved == {"digest"}
Trusted == {"check output", "check support", "open output", "write output", "open support",
            "write support"}

HoldsCatalog ==
    IF run.pc \in {"policy"} \cup Approved \cup Trusted
    THEN /\ run.catalog = NormalizeDocument(run.source, EXPECTED_NONCANONICAL_PATHS)
         /\ run.catalog # Rejected
         /\ run.source = run.pins.source
    ELSE run.catalog = NoCatalog

HoldsRegistry ==
    IF run.pc \in Approved \cup Trusted
    THEN /\ Reloads(run.catalog, run.registry)
         /\ run.pc \in Trusted => Records(run.registry) = run.pins.policy
    ELSE run.registry = NoCatalog

\* While nobody else touches them, the artifacts are what the run wrote or compared,
\* for the pins that are in the code.
HoldsArtifacts ==
    /\ run.pc # "done" => run.result = "none"
    /\ Running /\ ~touched =>
         /\ run.pins = pins
         /\ run.pc \in {"open support", "write support", "check support"} => output = RunGenerated

GenInv == RunInv /\ HoldsCatalog /\ HoldsRegistry /\ HoldsArtifacts /\ ArtifactsAgree

LEMMA GenInvInit == Init => GenInv
BY RunInvInit
   DEF Init, GenInv, HoldsCatalog, HoldsRegistry, HoldsArtifacts, ArtifactsAgree, Idle,
       Approved, Trusted, Running

\* The script ends without success.
LEMMA FailureInv == ASSUME GenInv, Finish("failed"), RunInv' PROVE GenInv'
BY DEF Finish, Idle, GenInv, HoldsCatalog, HoldsRegistry, HoldsArtifacts, ArtifactsAgree,
       Approved, Trusted, Running

\* It goes on to its next step, with what it had.
LEMMA GoOnInv ==
    ASSUME GenInv, RunInv', NEW label \in Trusted, Goto(label), UNCHANGED <<pins, touched>>,
           run.pc \in Approved \cup Trusted,
           Records(run.registry) = run.pins.policy,
           ~touched /\ label \in {"open support", "write support", "check support"} =>
               output' = RunGenerated
    PROVE  GenInv'
<1>1. /\ run'.pc = label /\ run'.catalog = run.catalog /\ run'.registry = run.registry
      /\ run'.source = run.source /\ run'.pins = run.pins /\ run'.result = run.result
  BY DEF GenInv, RunInv, Goto, Idle
<1>2. /\ label \notin {"idle", "done", "source", "lock", "policy"}
      /\ run.pc \notin {"idle", "done", "source", "lock", "policy"}
  BY DEF Approved, Trusted
<1>3. HoldsCatalog' /\ HoldsRegistry'
  BY <1>1, <1>2 DEF GenInv, HoldsCatalog, HoldsRegistry
<1>4. HoldsArtifacts'
  BY <1>1, <1>2 DEF GenInv, HoldsArtifacts, Running, RunGenerated
<1>5. ArtifactsAgree'
  BY <1>1, <1>2 DEF GenInv, HoldsArtifacts, ArtifactsAgree
<1>6. QED
  BY <1>3, <1>4, <1>5 DEF GenInv

\* It ends with both artifacts as they should be.
LEMMA SuccessInv ==
    ASSUME NoObjects, GenInv, RunInv', NEW r, Finish(r), UNCHANGED <<pins, touched, output>>,
           run.pc \in Trusted,
           ~touched => output = RunGenerated /\ support' = RunSupport
    PROVE  GenInv'
<1>1. /\ run'.pc = "done" /\ run'.catalog = NoCatalog /\ run'.registry = NoCatalog
  BY DEF Finish, Idle
<1>2. HoldsCatalog' /\ HoldsRegistry' /\ HoldsArtifacts'
  BY <1>1 DEF HoldsCatalog, HoldsRegistry, HoldsArtifacts, Approved, Trusted, Running
<1>3. ASSUME ~touched
      PROVE  LET c == Runtime'
             IN  HasPolicy(c) /\ c.source_sha256 = pins.source
                 /\ support' = SupportMatrix(c, Policies(c))
  <2>1. /\ run.catalog = NormalizeDocument(run.source, EXPECTED_NONCANONICAL_PATHS)
        /\ run.catalog # Rejected /\ run.source = run.pins.source
        /\ Reloads(run.catalog, run.registry)
        /\ Records(run.registry) = run.pins.policy
        /\ run.pins = pins
    BY <1>3 DEF GenInv, HoldsCatalog, HoldsRegistry, HoldsArtifacts, Running, Trusted
  <2>2. Runtime' = LoadCatalog(Generated(run.catalog, run.registry), Records(run.registry))
    BY <1>3, <2>1 DEF Runtime, RunGenerated
  <2>3. support' = SupportMatrix(run.catalog, run.registry)
    BY <1>3 DEF RunSupport
  <2>4. QED
    BY <2>1, <2>2, <2>3, ReadBackSurface
<1>4. ArtifactsAgree'
  BY <1>3 DEF ArtifactsAgree
<1>5. QED
  BY <1>2, <1>4 DEF GenInv

\* Nothing happens to the script or to what it has written, or it happens openly.
LEMMA MaintainerInv ==
    ASSUME GenInv, RunInv', UNCHANGED run,
           touched' = TRUE \/ UNCHANGED <<pins, output, support, touched>>
    PROVE  GenInv'
<1>1. HoldsCatalog' /\ HoldsRegistry'
  BY DEF GenInv, HoldsCatalog, HoldsRegistry
<1>2. HoldsArtifacts'
  BY DEF GenInv, HoldsArtifacts, Running, RunGenerated
<1>3. ArtifactsAgree'
  BY DEF GenInv, ArtifactsAgree, Runtime
<1>4. QED
  BY <1>1, <1>2, <1>3 DEF GenInv

LEMMA GenInvNext == NoObjects /\ GenInv /\ [Next]_vars => GenInv'
<1> SUFFICES ASSUME NoObjects, GenInv, [Next]_vars PROVE GenInv'
  OBVIOUS
<1>0. RunInv'
  BY RunInvNext DEF GenInv
<1>1. ASSUME NEW mode, Begin(mode) PROVE GenInv'
  BY <1>0, <1>1 DEF Begin, Idle, GenInv, HoldsCatalog, HoldsRegistry, HoldsArtifacts,
     ArtifactsAgree, Approved, Trusted, Running
<1>2. CASE ReadSource
  BY <1>0, <1>2 DEF ReadSource, Idle, GenInv, RunInv, HoldsCatalog, HoldsRegistry,
     HoldsArtifacts, ArtifactsAgree, Approved, Trusted, Running
<1>3. CASE ReadLock
  <2> DEFINE catalog == NormalizeDocument(run.source, lock.excluded)
  <2>1. CASE Finish("failed")
    BY <1>0, <2>1, FailureInv
  <2>2. CASE ~Finish("failed")
    <3>1. /\ run' = [run EXCEPT !.pc = "policy", !.catalog = catalog]
          /\ run.source = run.pins.source
          /\ catalog = NormalizeDocument(run.source, EXPECTED_NONCANONICAL_PATHS)
          /\ catalog # Rejected
      BY <1>3, <2>2 DEF ReadLock
    <3> HIDE DEF catalog
    <3>2. QED
      BY <1>0, <1>3, <3>1 DEF ReadLock, Idle, GenInv, RunInv, HoldsCatalog, HoldsRegistry,
         HoldsArtifacts, ArtifactsAgree, Approved, Trusted, Running
  <2>3. QED
    BY <2>1, <2>2
<1>4. CASE ReadPolicy
  <2> DEFINE registry == FromDict(run.catalog, policy)
  <2>1. CASE registry = Rejected
    BY <1>0, <1>4, <2>1, FailureInv DEF ReadPolicy
  <2>2. CASE registry # Rejected
    <3>1. Reloads(run.catalog, registry)
      BY <2>2, RegistryReloads DEF Reloads
    <3>2. run' = [run EXCEPT !.pc = "digest", !.registry = registry]
      BY <1>4, <2>2 DEF ReadPolicy
    <3> HIDE DEF registry
    <3>3. QED
      BY <1>0, <1>4, <3>1, <3>2 DEF ReadPolicy, Idle, GenInv, RunInv, HoldsCatalog,
         HoldsRegistry, HoldsArtifacts, ArtifactsAgree, Approved, Trusted, Running
  <2>3. QED
    BY <2>1, <2>2
<1>5. CASE ComparePolicy
  <2>1. CASE Finish("failed")
    BY <1>0, <2>1, FailureInv
  <2>2. CASE ~Finish("failed")
    <3>1. PICK label \in {"check output", "open output"} : Goto(label)
      BY <1>5, <2>2 DEF ComparePolicy, Goto
    <3>2. QED
      BY <1>0, <1>5, <2>2, <3>1, GoOnInv DEF ComparePolicy, Approved, Trusted
  <2>3. QED
    BY <2>1, <2>2
<1>6. ASSUME run.pc \in Trusted PROVE Records(run.registry) = run.pins.policy
  BY <1>6 DEF GenInv, HoldsRegistry
<1>7. CASE OpenOutput
  BY <1>0, <1>6, <1>7, GoOnInv DEF OpenOutput, Trusted
<1>8. CASE WriteOutput
  BY <1>0, <1>6, <1>8, GoOnInv DEF WriteOutput, Trusted
<1>9. CASE OpenSupport
  <2>1. ~touched => output = RunGenerated
    BY <1>9 DEF OpenSupport, GenInv, HoldsArtifacts, Running
  <2>2. QED
    BY <1>0, <1>6, <1>9, <2>1, GoOnInv DEF OpenSupport, Trusted
<1>10. CASE WriteSupport
  <2>1. ~touched => output = RunGenerated
    BY <1>10 DEF WriteSupport, GenInv, HoldsArtifacts, Running
  <2>2. QED
    BY <1>0, <1>10, <2>1, SuccessInv DEF WriteSupport, Trusted
<1>11. CASE CheckOutput
  BY <1>0, <1>6, <1>11, GoOnInv, FailureInv DEF CheckOutput, Trusted
<1>12. CASE CheckSupport
  <2>1. ~touched => output = RunGenerated
    BY <1>12 DEF CheckSupport, GenInv, HoldsArtifacts, Running
  <2>2. QED
    BY <1>0, <1>12, <2>1, SuccessInv, FailureInv DEF CheckSupport, Trusted
<1>13. CASE Stop
  BY <1>0, <1>13, FailureInv DEF Stop
<1>14. CASE EditSource \/ EditLock \/ EditPolicy \/ Approve \/ EditCatalog \/ UNCHANGED vars
  BY <1>0, <1>14, MaintainerInv DEF EditSource, EditLock, EditPolicy, Approve, EditCatalog, vars
<1>15. QED
  BY <1>1, <1>2, <1>3, <1>4, <1>5, <1>7, <1>8, <1>9, <1>10, <1>11, <1>12, <1>13, <1>14 DEF Next

\* What the generator computes from documents and policies it accepts, a runtime of
\* the same code loads as the catalog and the registry it was computed from.
THEOREM GeneratedCatalogIsLoaded == ASSUME NoObjects PROVE Spec => []GeneratedCatalogLoads
<1>1. GenInv => GeneratedCatalogLoads
  <2> SUFFICES ASSUME GenInv, Loaded, Records(run.registry) = run.pins.policy
               PROVE  LoadCatalog(RunGenerated, run.pins.policy)
                        = WithPolicy(run.catalog, run.registry, run.pins.policy)
    BY DEF GeneratedCatalogLoads
  <2>1. run.pc \in Approved \cup Trusted
    BY DEF GenInv, HoldsRegistry, Loaded
  <2>2. /\ run.catalog = NormalizeDocument(run.source, EXPECTED_NONCANONICAL_PATHS)
        /\ run.catalog # Rejected
        /\ Reloads(run.catalog, run.registry)
    BY <2>1 DEF GenInv, HoldsCatalog, HoldsRegistry
  <2>3. QED
    BY <2>2, GeneratedIsReadBack DEF RunGenerated
<1>2. QED
  BY <1>1, GenInvInit, GenInvNext, PTL DEF Spec

\* After a generation or a check that succeeded, the two artifacts describe the
\* surface of the pinned source and policy, unless somebody else changed them.
THEOREM ArtifactsDescribeOneSurface == ASSUME NoObjects PROVE Spec => []ArtifactsAgree
<1>1. GenInv => ArtifactsAgree
  BY DEF GenInv
<1>2. QED
  BY <1>1, GenInvInit, GenInvNext, PTL DEF Spec

------------------------------------------------------------------------------
(* The operations of the API document.                                      *)

\* The parameters in a document are arrays.
IsDocument(document) ==
    \E S : \A p \in DOMAIN document.paths :
              /\ document.paths[p].parameters \in Seq(S)
              /\ \A m \in DOMAIN document.paths[p].methods :
                    document.paths[p].methods[m].parameters \in Seq(S)

\* A set of documents with the one that was approved first and all that edits make of it.
ClosedUnderEdits(documents) ==
    /\ Source \in documents
    /\ \A document \in documents : IsDocument(document) /\ SourceEdits(document) \subseteq documents

\* As many names as there are parameters, when no two have the same.
LEMMA DistinctNamesAreKept ==
    ASSUME NEW S, NEW raw \in Seq(S), NormalizableParameters(raw)
    PROVE  Cardinality(DOMAIN NormalizedParameters(raw)) = Len(raw)
<1> DEFINE I == 1..Len(raw)
           T == {raw[i].name : i \in DOMAIN raw}
           f == [i \in I |-> raw[i].name]
<1>1. DOMAIN raw = I /\ Len(raw) \in Nat
  OBVIOUS
<1>2. DOMAIN NormalizedParameters(raw) = T
  BY DEF NormalizedParameters
<1>3. f \in Bijection(I, T)
  <2>1. f \in [I -> T]
    BY <1>1
  <2>2. \A t \in T : \E i \in I : f[i] = t
    BY <1>1
  <2>3. \A i, j \in I : f[i] = f[j] => i = j
    BY <1>1 DEF NormalizableParameters
  <2>4. QED
    BY <2>1, <2>2, <2>3 DEF Bijection, Injection, Surjection, IsInjective
<1>4. IsFiniteSet(I) /\ Cardinality(I) = Len(raw)
  BY <1>1, FS_Interval
<1>5. Cardinality(T) = Cardinality(I)
  BY <1>3, <1>4, FS_Bijection DEF ExistsBijection
<1>6. QED
  BY <1>2, <1>4, <1>5

\* An operation of a document that is accepted is in its catalog under its identity,
\* with all its parameters, unless its path is one of the exceptions.
LEMMA EveryOperationIsKept ==
    ASSUME NEW document, NEW excluded, IsDocument(document),
           NormalizeDocument(document, excluded) # Rejected,
           NEW p \in DOMAIN document.paths, NEW m \in DOMAIN document.paths[p].methods
    PROVE  LET catalog == NormalizeDocument(document, excluded)
           IN  \/ p \in catalog.excluded_paths
               \/ /\ catalog.operations[p.segments].method = m
                  /\ Cardinality(DOMAIN catalog.operations[p.segments].parameters)
                       = Len(RawParameters(document, <<p, m>>))
<1> DEFINE occurrences == Occurrences(document)
           at(id) == CHOOSE o \in occurrences : o[1].segments = id
           catalog == NormalizeDocument(document, excluded)
           raw == RawParameters(document, <<p, m>>)
<1> DEFINE operation(id) ==
               [method |-> at(id)[2],
                deprecated |-> document.paths[at(id)[1]].methods[at(id)[2]].deprecated,
                parameters |-> NormalizedParameters(RawParameters(document, at(id))),
                policy |-> Null]
<1>1. /\ catalog = [source_sha256 |-> document,
                    excluded_paths |-> {q \in DOMAIN document.paths : ~Canonical(q)},
                    operations |-> [id \in {o[1].segments : o \in occurrences} |-> operation(id)],
                    policy_sha256 |-> Null]
      /\ DistinctIdentities(document)
      /\ \A o \in occurrences : NormalizableParameters(RawParameters(document, o))
  BY DEF NormalizeDocument
<1> SUFFICES \/ p \in catalog.excluded_paths
             \/ /\ catalog.operations[p.segments].method = m
                /\ Cardinality(DOMAIN catalog.operations[p.segments].parameters) = Len(raw)
  OBVIOUS
<1> HIDE DEF catalog
<1>2. CASE ~Canonical(p)
  <2>1. p \in {q \in DOMAIN document.paths : ~Canonical(q)}
    BY <1>2
  <2>2. QED
    BY <1>1, <2>1
<1>3. CASE Canonical(p)
  <2>1. <<p, m>> \in occurrences
    BY <1>3 DEF Occurrences
  <2>2. at(p.segments) = <<p, m>>
    BY <1>1, <2>1 DEF DistinctIdentities
  <2>3. p.segments \in {o[1].segments : o \in occurrences}
    BY <2>1
  <2> HIDE DEF at, occurrences
  <2>4. operation(p.segments).method = m /\ operation(p.segments).parameters = NormalizedParameters(raw)
    BY <2>2
  <2> HIDE DEF operation, raw
  <2>5. catalog.operations[p.segments] = operation(p.segments)
    BY <1>1, <2>3
  <2>6. PICK S : raw \in Seq(S)
    <3>1. PICK S : /\ document.paths[p].parameters \in Seq(S)
                   /\ document.paths[p].methods[m].parameters \in Seq(S)
      BY DEF IsDocument
    <3>2. raw \in Seq(S)
      BY <3>1 DEF raw, RawParameters
    <3>3. QED
      BY <3>2
  <2>7. NormalizableParameters(raw)
    BY <1>1, <2>1 DEF raw
  <2>8. Cardinality(DOMAIN NormalizedParameters(raw)) = Len(raw)
    BY <2>6, <2>7, DistinctNamesAreKept
  <2>9. QED
    BY <2>4, <2>5, <2>8
<1>4. QED
  BY <1>2, <1>3

\* The script has a document whenever it has read the source.
HoldsDocument(documents) ==
    /\ source \in documents
    /\ run.pc \notin {"idle", "done", "source"} => run.source \in documents

LEMMA HoldsDocumentNext ==
    ASSUME NEW documents, ClosedUnderEdits(documents)
    PROVE  RunInv /\ HoldsDocument(documents) /\ [Next]_vars => HoldsDocument(documents)'
<1> SUFFICES ASSUME RunInv, HoldsDocument(documents), [Next]_vars
             PROVE  HoldsDocument(documents)'
  OBVIOUS
<1>1. CASE EditSource
  BY <1>1 DEF EditSource, ClosedUnderEdits, HoldsDocument
<1>2. ASSUME NEW r, Finish(r), UNCHANGED source PROVE HoldsDocument(documents)'
  BY <1>2 DEF Finish, Idle, HoldsDocument
<1>3. ASSUME NEW label, Goto(label), run.pc \notin {"idle", "done", "source"}, UNCHANGED source
      PROVE  HoldsDocument(documents)'
  BY <1>3 DEF Goto, RunInv, Idle, HoldsDocument
<1>4. ASSUME NEW mode, Begin(mode) PROVE HoldsDocument(documents)'
  BY <1>4 DEF Begin, Idle, HoldsDocument, inputs
<1>5. CASE ReadSource
  BY <1>5 DEF ReadSource, RunInv, Idle, HoldsDocument, inputs
<1>6. CASE ReadLock
  BY <1>6, <1>2 DEF ReadLock, RunInv, Idle, HoldsDocument, inputs
<1>7. CASE ReadPolicy
  BY <1>7, <1>2 DEF ReadPolicy, RunInv, Idle, HoldsDocument, inputs
<1>8. CASE ComparePolicy
  BY <1>8, <1>2 DEF ComparePolicy, RunInv, Idle, HoldsDocument, inputs
<1>9. CASE OpenOutput \/ WriteOutput \/ OpenSupport
  BY <1>9, <1>3 DEF OpenOutput, WriteOutput, OpenSupport, inputs
<1>10. CASE WriteSupport \/ CheckOutput \/ CheckSupport \/ Stop
  BY <1>10, <1>2, <1>3 DEF WriteSupport, CheckOutput, CheckSupport, Stop, inputs
<1>11. CASE EditLock \/ EditPolicy \/ Approve \/ EditCatalog \/ UNCHANGED vars
  BY <1>11 DEF EditLock, EditPolicy, Approve, EditCatalog, vars, inputs, HoldsDocument
<1>12. QED
  BY <1>1, <1>4, <1>5, <1>6, <1>7, <1>8, <1>9, <1>10, <1>11 DEF Next

\* Every operation of the document that was read is in the catalog, under its own
\* identity and with all its parameters, or its path is a known exception.
THEOREM NoOperationIsLost ==
    ASSUME NoObjects, NEW documents, ClosedUnderEdits(documents)
    PROVE  Spec => []NothingIsDropped
<1>1. Init => HoldsDocument(documents)
  BY DEF Init, HoldsDocument, Idle, ClosedUnderEdits
<1>2. GenInv /\ HoldsDocument(documents) => NothingIsDropped
  <2> SUFFICES ASSUME GenInv, HoldsDocument(documents), run.catalog # NoCatalog,
                      NEW p \in DOMAIN run.source.paths,
                      NEW m \in DOMAIN run.source.paths[p].methods
               PROVE  \/ p \in run.catalog.excluded_paths
                      \/ /\ run.catalog.operations[p.segments].method = m
                         /\ Cardinality(DOMAIN run.catalog.operations[p.segments].parameters)
                              = Len(RawParameters(run.source, <<p, m>>))
    BY DEF NothingIsDropped
  <2>1. run.pc \in {"policy"} \cup Approved \cup Trusted
    BY DEF GenInv, HoldsCatalog
  <2>2. /\ run.catalog = NormalizeDocument(run.source, EXPECTED_NONCANONICAL_PATHS)
        /\ run.catalog # Rejected
    BY <2>1 DEF GenInv, HoldsCatalog
  <2>3. IsDocument(run.source)
    BY <2>1 DEF HoldsDocument, ClosedUnderEdits, Approved, Trusted
  <2>4. QED
    BY <2>2, <2>3, EveryOperationIsKept
<1>3. GenInv => RunInv
  BY DEF GenInv
<1>4. QED
  BY <1>1, <1>2, <1>3, GenInvInit, GenInvNext, HoldsDocumentNext, PTL DEF Spec

==============================================================================
