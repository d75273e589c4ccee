------------------------------- MODULE Catalog -------------------------------
(***************************************************************************)
(* The capability catalog of src/cpanel_admin/catalog.py: an OpenAPI       *)
(* document is normalised into operations by identity; the packaged        *)
(* catalog is read back together with the policy it embeds.                *)
(*                                                                         *)
(* A path is its segments and whether it ends in a slash.  What a schema,  *)
(* an enumeration or a default says is left out, and so are summaries and  *)
(* media types: a schema that is not Malformed is one that the code can    *)
(* normalise.  A digest is what it digests.                                *)
(***************************************************************************)
EXTENDS PolicyRegistry

CONSTANT NotJson   \* an artifact that is missing, empty or cut short

GENERATOR_SCHEMA == 1
GENERATED_NOTICE == "Generated from pinned cPanel metadata"

------------------------------------------------------------------------------
(* normalize_document.                                                      *)

\* _path_identity: one trailing slash is ignored, so that two paths can have one
\* identity.
Canonical(path) == Len(path.segments) = 2 /\ "" \notin Elements(path.segments)
SingleSegment(path) == Len(path.segments) = 1 /\ ~path.slash

Occurrences(document) ==
    {o \in UNION {{p} \X DOMAIN document.paths[p].methods : p \in DOMAIN document.paths} :
        Canonical(o[1])}

\* The parameters of the path, then those of the operation.
RawParameters(document, o) ==
    document.paths[o[1]].parameters \o document.paths[o[1]].methods[o[2]].parameters

NormalizableParameters(raw) ==
    /\ \A i \in DOMAIN raw : /\ IsText(raw[i].name)
                             /\ raw[i].in = "query"
                             /\ Field(raw[i], "required", FALSE) \in BOOLEAN
                             /\ Field(raw[i], "schema", Null) # Malformed
    /\ \A i, j \in DOMAIN raw : raw[i].name = raw[j].name => i = j

NormalizedParameters(raw) ==
    [n \in {raw[i].name : i \in DOMAIN raw} |->
        LET i == CHOOSE i \in DOMAIN raw : raw[i].name = n
        IN  [location |-> raw[i].in, required |-> Field(raw[i], "required", FALSE)]]

\* Mutant of DistinctIdentities: a later operation silently takes the place.
DistinctUnchecked(document) == TRUE

DistinctIdentities(document) ==
    \A o, p \in Occurrences(document) : o[1].segments = p[1].segments => o = p

NormalizeDocument(document, excluded) ==
    LET occurrences == Occurrences(document)
        at(id) == CHOOSE o \in occurrences : o[1].segments = id
    IN  IF /\ document.openapi = "3.0.2"
           /\ \A p \in DOMAIN document.paths :
                 Canonical(p) \/ (p \in excluded /\ SingleSegment(p))
           /\ DistinctIdentities(document)
           /\ \A o \in occurrences :
                 /\ NormalizableParameters(RawParameters(document, o))
                 /\ document.paths[o[1]].methods[o[2]].deprecated \in BOOLEAN
        THEN [source_sha256 |-> document,
              excluded_paths |-> {p \in DOMAIN document.paths : ~Canonical(p)},
              operations |->
                [id \in {o[1].segments : o \in occurrences} |->
                    [method |-> at(id)[2],
                     deprecated |-> document.paths[at(id)[1]].methods[at(id)[2]].deprecated,
                     parameters |-> NormalizedParameters(RawParameters(document, at(id))),
                     policy |-> Null]],
              policy_sha256 |-> Null]
        ELSE Rejected

------------------------------------------------------------------------------
(* Catalog.to_json and from_dict.                                           *)

\* The embedded policy is a field that an operation has or has not.
OperationToDict(identity, operation) ==
    [f \in {"identity", "method", "deprecated", "parameters"}
           \cup (IF operation.policy = Null THEN {} ELSE {"policy"}) |->
        CASE f = "identity" -> identity
          [] f = "policy" -> ToDict(operation.policy)
          [] OTHER -> operation[f]]

ToJson(catalog) ==
    [source_sha256 |-> catalog.source_sha256,
     excluded_paths |-> catalog.excluded_paths,
     operations |-> [id \in DOMAIN catalog.operations |->
                        OperationToDict(id, catalog.operations[id])]]

OperationFromDict(identity, raw) ==
    [method |-> raw.method, deprecated |-> raw.deprecated,
     parameters |-> raw.parameters, policy |-> Null]

ReadableOperation(identity, raw) ==
    /\ {"identity", "method", "deprecated", "parameters"} \subseteq DOMAIN raw
    /\ DOMAIN raw \subseteq {"identity", "method", "deprecated", "parameters", "policy"}
    /\ raw.identity = identity
    /\ raw.deprecated \in BOOLEAN
    /\ \A n \in DOMAIN raw.parameters : /\ raw.parameters[n].location = "query"
                                        /\ raw.parameters[n].required \in BOOLEAN

BareCatalog(value) ==
    [source_sha256 |-> value.source_sha256,
     excluded_paths |-> value.excluded_paths,
     operations |-> [id \in DOMAIN value.operations |->
                        OperationFromDict(id, value.operations[id])],
     policy_sha256 |-> Null]

Embedded(value) ==
    LET owners == {id \in DOMAIN value.operations : "policy" \in DOMAIN value.operations[id]}
    IN  [id \in owners |-> value.operations[id].policy]

\* The manifest that the embedded records are validated as.
Manifest(embedded) ==
    [schema_version |-> 1, selected_modules |-> SELECTED_MODULES,
     operations |-> [form |-> "object", items |-> embedded]]

WithPolicy(catalog, registry, digest) ==
    [catalog EXCEPT
        !.operations = [id \in DOMAIN catalog.operations |->
            [catalog.operations[id] EXCEPT
                !.policy = IF id \in DOMAIN registry THEN registry[id] ELSE Null]],
        !.policy_sha256 = digest]

Metadata == {"generator_schema", "generated_notice", "policy_sha256"}

\* Mutant of AttachGeneratedPolicy: the declared digest is taken at its word.
AttachDeclared(catalog, value, digest) ==
    LET embedded == Embedded(value)
        registry == FromDict(catalog, Manifest(embedded))
    IN  IF Metadata \cap DOMAIN value = {} /\ DOMAIN embedded = {} THEN catalog
        ELSE IF /\ Metadata \subseteq DOMAIN value /\ DOMAIN embedded # {}
                /\ value.generator_schema = GENERATOR_SCHEMA
                /\ value.generated_notice = GENERATED_NOTICE
                /\ value.policy_sha256 = digest
                /\ registry # Rejected
             THEN WithPolicy(catalog, registry, digest)
        ELSE Rejected

\* A catalog without any generated metadata has no policy; one that lacks a
\* part of it, or whose records are not the trusted ones, is refused.
AttachGeneratedPolicy(catalog, value, digest) ==
    LET embedded == Embedded(value)
        registry == FromDict(catalog, Manifest(embedded))
    IN  IF Metadata \cap DOMAIN value = {} /\ DOMAIN embedded = {} THEN catalog
        ELSE IF /\ Metadata \subseteq DOMAIN value /\ DOMAIN embedded # {}
                /\ value.generator_schema = GENERATOR_SCHEMA
                /\ value.generated_notice = GENERATED_NOTICE
                /\ value.policy_sha256 = digest
                /\ embedded = digest
                /\ registry # Rejected
                /\ Records(registry) = digest
             THEN WithPolicy(catalog, registry, digest)
        ELSE Rejected

\* Catalog.load with the digest that the code trusts.
LoadCatalog(value, digest) ==
    IF \/ value = NotJson
       \/ \E id \in DOMAIN value.operations : ~ReadableOperation(id, value.operations[id])
    THEN Rejected
    ELSE AttachGeneratedPolicy(BareCatalog(value), value, digest)

==============================================================================
