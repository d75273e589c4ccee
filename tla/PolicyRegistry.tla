--------------------------- MODULE PolicyRegistry ---------------------------
(***************************************************************************)
(* The policy registry of src/cpanel_admin/policy.py: which documents      *)
(* PolicyRegistry.from_dict accepts and what it makes of them.             *)
(*                                                                         *)
(* A JSON object is a function from the fields it has; the identity        *)
(* Module/function of an operation is the pair <<Module, function>>.  An   *)
(* array of operation records is a function from positions, an object one  *)
(* from identities.  Every failure is the same PolicyError, so the checks  *)
(* are a conjunction.                                                      *)
(***************************************************************************)
EXTENDS Naturals, Sequences, FiniteSets

CONSTANTS
    SELECTED_MODULES,      \* the approved modules, a sequence
    ReviewedCandidates,    \* the identities behind EXPECTED_CANDIDATE_IDENTITY_SHA256
    STABLE_MVP_OPERATION_CONTRACTS,   \* identity -> the name and command it keeps
    PROTECTED_INPUT_CONTRACTS,        \* identity, parameter -> the parameter it keeps
    Null,                  \* JSON null
    Malformed,             \* a value of a JSON type the field does not have
    Rejected               \* a load that raises

ASSUME ContractAssumption ==
    \A c \in DOMAIN PROTECTED_INPUT_CONTRACTS :
        /\ c = <<c[1], c[2]>>
        /\ PROTECTED_INPUT_CONTRACTS[c].secret /\ PROTECTED_INPUT_CONTRACTS[c].sensitive_output

Sources == {"argument", "stdin", "protected_file", "local_file", "environment",
            "encrypted_profile"}
ProtectedSources == {"stdin", "protected_file", "environment", "encrypted_profile"}
Risks == {"read", "mutate", "destructive"}

ASSUME NullAssumption == Null \notin BOOLEAN /\ Null \notin Risks

UploadIdentity == <<"Fileman", "upload_files">>

\* Names are compared without case; two spellings stand for all of them.
ReservedNames == {"module", "MODULE", "function", "FUNCTION"}

OperationFields ==
    {"name", "identity", "command", "capability", "status", "reason", "risk",
     "elevated_impact", "parameters", "impact", "recovery", "preflight",
     "verification", "feature", "audit_fields"}
ParameterFields ==
    {"name", "uapi_name", "sources", "validator", "required", "secret",
     "sensitive_output"}

\* value.get(field, default)
Field(object, field, default) ==
    IF field \in DOMAIN object THEN object[field] ELSE default

Elements(seq) == {seq[i] : i \in DOMAIN seq}
Distinct(seq) == Cardinality(Elements(seq)) = Len(seq)

ASSUME SelectionAssumption == Distinct(SELECTED_MODULES) /\ ReviewedCandidates # {}

IsText(x) == x \notin {Null, Malformed, ""}
IsString(x) == x \notin {Null, Malformed}
IsOptionalText(x) == x = Null \/ IsText(x)
IsArray(x) == x \notin {Null, Malformed}

------------------------------------------------------------------------------
(* Parameters.                                                              *)

\* The two flags may be left out and are then false.
Parameter(raw) ==
    [f \in ParameterFields |->
        IF f \in {"secret", "sensitive_output"} THEN Field(raw, f, FALSE) ELSE raw[f]]

WellFormed(raw, name) ==
    /\ name # ""
    /\ DOMAIN raw \subseteq ParameterFields
    /\ "name" \in DOMAIN raw /\ raw.name = name
    /\ IsArray(Field(raw, "sources", Null))
    /\ raw.sources # <<>> /\ Elements(raw.sources) \subseteq Sources /\ Distinct(raw.sources)
    /\ IsText(Field(raw, "uapi_name", Null)) /\ IsText(Field(raw, "validator", Null))
    /\ Field(raw, "required", Null) \in BOOLEAN
    /\ {Field(raw, "secret", FALSE), Field(raw, "sensitive_output", FALSE)} \subseteq BOOLEAN
    /\ Parameter(raw).secret => Elements(raw.sources) \subseteq ProtectedSources

\* What a call sends is named in the catalog; an upload's file is not.
InCatalog(identity, operation, uapi) ==
    /\ uapi \notin ReservedNames
    /\ \/ uapi \in DOMAIN operation.parameters
       \/ identity = UploadIdentity /\ uapi \in {"dir", "source"}

UploadContract ==
    [directory |-> [name |-> "directory", uapi_name |-> "dir", sources |-> <<"argument">>,
                    validator |-> "path", required |-> TRUE, secret |-> FALSE,
                    sensitive_output |-> FALSE],
     source |-> [name |-> "source", uapi_name |-> "source", sources |-> <<"local_file">>,
                 validator |-> "local_file", required |-> TRUE, secret |-> FALSE,
                 sensitive_output |-> FALSE]]

HonoursProtectedInputs(identity, parameters) ==
    \A c \in DOMAIN PROTECTED_INPUT_CONTRACTS :
        c[1] = identity => /\ c[2] \in DOMAIN parameters
                           /\ parameters[c[2]] = PROTECTED_INPUT_CONTRACTS[c]

ParsedParameters(raw) == [n \in DOMAIN raw |-> Parameter(raw[n])]

\* Mutant of FeedsRequired: the policy's parameter may be optional.
FeedsRequiredLoosely(operation, parameters) ==
    \A u \in DOMAIN operation.parameters :
        operation.parameters[u].required => \E n \in DOMAIN parameters : parameters[n].uapi_name = u

FeedsRequired(operation, parameters) ==
    \A u \in DOMAIN operation.parameters :
        operation.parameters[u].required =>
            \E n \in DOMAIN parameters : parameters[n].uapi_name = u /\ parameters[n].required

AcceptableParameters(operation, identity, raw) ==
    /\ IsArray(raw)
    /\ DOMAIN raw \cap ReservedNames = {}
    /\ \A n \in DOMAIN raw : /\ WellFormed(raw[n], n)
                             /\ InCatalog(identity, operation, raw[n].uapi_name)
    /\ LET parameters == ParsedParameters(raw)
       IN  /\ identity = UploadIdentity => parameters = UploadContract
           /\ HonoursProtectedInputs(identity, parameters)
           /\ \A n, o \in DOMAIN parameters :
                parameters[n].uapi_name = parameters[o].uapi_name => n = o
           /\ FeedsRequired(operation, parameters)

------------------------------------------------------------------------------
(* Operations.                                                              *)

\* An excluded operation has every field, and nothing in it that could be run.
AcceptableExclusion(raw) ==
    /\ OperationFields \ {"identity"} \subseteq DOMAIN raw
    /\ raw.command = <<>> /\ raw.parameters = <<>> /\ raw.audit_fields = <<>>
    /\ raw.elevated_impact = FALSE
    /\ raw.impact = "" /\ raw.recovery = ""
    /\ {raw.risk, raw.preflight, raw.verification, raw.feature} = {Null}
    /\ IsText(raw.capability) /\ IsText(raw.name)

AcceptableInclusion(operation, identity, raw) ==
    LET get(f) == Field(raw, f, Null)
    IN  /\ ~operation.deprecated
        /\ get("risk") \in Risks
        /\ IsArray(get("command")) /\ raw.command # <<>>
        /\ \A word \in Elements(raw.command) : IsText(word)
        /\ IsText(get("capability")) /\ IsText(get("name"))
        /\ AcceptableParameters(operation, identity, get("parameters"))
        /\ get("elevated_impact") \in BOOLEAN
        /\ IsString(get("impact")) /\ IsString(get("recovery"))
        /\ raw.risk # "read" => raw.impact # "" /\ raw.recovery # ""
        /\ IsArray(get("audit_fields"))
        /\ \A n \in Elements(raw.audit_fields) :
              n \in DOMAIN raw.parameters /\ ~Parameter(raw.parameters[n]).secret
        /\ \A f \in {"preflight", "verification", "feature"} : IsOptionalText(get(f))

Acceptable(catalog, identity, raw) ==
    /\ raw # Malformed
    /\ DOMAIN raw \subseteq OperationFields
    /\ Field(raw, "identity", identity) = identity
    /\ identity \in DOMAIN catalog.operations
    /\ IsText(Field(raw, "reason", Null))
    /\ \/ Field(raw, "status", Null) = "excluded" /\ AcceptableExclusion(raw)
       \/ /\ Field(raw, "status", Null) = "included"
          /\ AcceptableInclusion(catalog.operations[identity], identity, raw)

Operation(identity, raw) ==
    [f \in OperationFields |->
        IF f = "identity" THEN identity
        ELSE IF f = "parameters" THEN ParsedParameters(raw.parameters)
        ELSE Field(raw, f, Null)]

------------------------------------------------------------------------------
(* Documents.                                                               *)

\* An array names each record's identity in the record, an object in its key.
RecordIdentity(records, i) ==
    IF records.form = "object" THEN i ELSE Field(records.items[i], "identity", Null)

Candidates(catalog) == {id \in DOMAIN catalog.operations : id[1] \in Elements(SELECTED_MODULES)}

Unique(parsed) ==
    \A i, j \in DOMAIN parsed : i # j =>
        /\ parsed[i].identity # parsed[j].identity
        /\ parsed[i].name # parsed[j].name
        /\ parsed[i].command # <<>> => parsed[i].command # parsed[j].command

\* Mutant of HonoursStableContracts: the names alone are compared.
HonoursStableNames(registry) ==
    \A id \in DOMAIN STABLE_MVP_OPERATION_CONTRACTS :
        /\ id \in DOMAIN registry
        /\ registry[id].name = STABLE_MVP_OPERATION_CONTRACTS[id].name

HonoursStableContracts(registry) ==
    LET contracts == STABLE_MVP_OPERATION_CONTRACTS
    IN  /\ \A id \in DOMAIN contracts :
             /\ id \in DOMAIN registry
             /\ registry[id].status = "included"
             /\ registry[id].name = contracts[id].name
             /\ registry[id].command = contracts[id].command
        /\ \A id \in DOMAIN contracts, other \in DOMAIN registry :
             \/ registry[other].name = contracts[id].name
             \/ registry[other].command = contracts[id].command
             => other = id

\* Mutant of SecretInventory: secrets beyond the inventory are let in.
SecretInventoryOpen(registry) ==
    \A c \in DOMAIN PROTECTED_INPUT_CONTRACTS :
        c[1] \in DOMAIN registry /\ registry[c[1]].status = "included"

\* The secret inputs are those of the contracts, all of them and no more.
SecretInventory(registry) ==
    /\ \A c \in DOMAIN PROTECTED_INPUT_CONTRACTS :
         c[1] \in DOMAIN registry /\ registry[c[1]].status = "included"
    /\ {i \in UNION {{id} \X DOMAIN registry[id].parameters : id \in DOMAIN registry} :
            registry[i[1]].parameters[i[2]].secret} = DOMAIN PROTECTED_INPUT_CONTRACTS

ByIdentity(parsed) ==
    [id \in {parsed[i].identity : i \in DOMAIN parsed} |->
        CHOOSE o \in {parsed[i] : i \in DOMAIN parsed} : o.identity = id]

\* PolicyRegistry.from_dict: the registry, as a function from identities.
FromDict(catalog, document) ==
    LET records == document.operations
        identity(i) == RecordIdentity(records, i)
        parsed == [i \in DOMAIN records.items |-> Operation(identity(i), records.items[i])]
        registry == ByIdentity(parsed)
    IN  IF /\ DOMAIN document = {"schema_version", "selected_modules", "operations"}
           /\ document.schema_version = 1
           /\ Elements(document.selected_modules) = Elements(SELECTED_MODULES)
           /\ Distinct(document.selected_modules)
           /\ Candidates(catalog) = ReviewedCandidates
           /\ \A i \in DOMAIN records.items : Acceptable(catalog, identity(i), records.items[i])
           /\ Unique(parsed)
           /\ DOMAIN registry = Candidates(catalog)
           /\ HonoursStableContracts(registry)
           /\ SecretInventory(registry)
        THEN registry ELSE Rejected

------------------------------------------------------------------------------
(* The registry.                                                            *)

\* Mutant of ToDict: fields that have their default are left out.
ToDictBrief(operation) ==
    [f \in {g \in OperationFields : operation[g] # Null} |->
        IF f # "parameters" THEN operation[f]
        ELSE [n \in DOMAIN operation.parameters |->
                [g \in ParameterFields |-> operation.parameters[n][g]]]]

\* policy_operation_to_dict: every field, in the form from_dict reads.
ToDict(operation) ==
    [f \in OperationFields |->
        IF f # "parameters" THEN operation[f]
        ELSE [n \in DOMAIN operation.parameters |->
                [g \in ParameterFields |-> operation.parameters[n][g]]]]

\* canonical_policy_sha256; a digest is what it digests.
Records(registry) == [id \in DOMAIN registry |-> ToDict(registry[id])]

\* PolicyRegistry.get and by_command: of operations that share a name or a
\* command, the table keeps the last one.
Get(registry, name) ==
    LET named == {id \in DOMAIN registry : registry[id].name = name}
        found == CHOOSE id \in named : TRUE
    IN  IF named # {} /\ registry[found].status = "included" THEN found ELSE Rejected

ByCommand(registry, command) ==
    LET owners == {id \in DOMAIN registry : registry[id].command = command /\ command # <<>>}
    IN  IF owners # {} THEN CHOOSE id \in owners : TRUE ELSE Rejected

==============================================================================
