------------------------ MODULE MCCatalogGeneration ------------------------
(* A small surface: an upload, an operation with a secret input, one that is *)
(* excluded, one outside the selected modules and a path without identity;   *)
(* and what edits of the files around it can lead to.                        *)
EXTENDS CatalogGeneration, TLC

CreateUser == <<"Mysql", "create_user">>
Stats == <<"StatsBar", "get_stats">>
Other == <<"Bogus", "call">>

At(segments) == [segments |-> segments, slash |-> FALSE]
Api(name, required) == [name |-> name, in |-> "query", required |-> required]
Call(parameters) == [parameters |-> parameters, deprecated |-> FALSE]
PathItem(parameters) == [parameters |-> <<>>, methods |-> [get |-> Call(parameters)]]

MCSelected == <<"Fileman", "Mysql", "StatsBar">>
MCCandidates == {UploadIdentity, CreateUser, Stats}
MCNoncanonical == {At(<<"get_recommendations">>)}

MCSource ==
    [openapi |-> "3.0.2",
     paths |-> At(UploadIdentity) :> PathItem(<<>>)
            @@ At(CreateUser) :> PathItem(<<Api("name", TRUE), Api("password", TRUE)>>)
            @@ At(Stats) :> PathItem(<<Api("display", TRUE),
                                       [name |-> "rows", in |-> "query"]>>)
            @@ At(Other) :> PathItem(<<>>)
            @@ At(<<"get_recommendations">>) :> PathItem(<<>>)]

Password == [name |-> "password", uapi_name |-> "password", sources |-> <<"stdin">>,
             validator |-> "secret", required |-> TRUE, secret |-> TRUE,
             sensitive_output |-> TRUE]
Plain(name, uapi) == [name |-> name, uapi_name |-> uapi, sources |-> <<"argument">>,
                      validator |-> "text", required |-> TRUE]

MCContracts ==
    UploadIdentity :> [name |-> "files.upload", command |-> <<"files", "upload">>]
    @@ CreateUser :> [name |-> "databases.create-user",
                      command |-> <<"databases", "create-user">>]
MCProtected == <<CreateUser, "password">> :> Password

Included(name, command, risk, parameters) ==
    [name |-> name, command |-> command, capability |-> "some", status |-> "included",
     reason |-> "reviewed", risk |-> risk, elevated_impact |-> FALSE,
     parameters |-> parameters, impact |-> "some", recovery |-> "some",
     preflight |-> Null, verification |-> Null, feature |-> Null, audit_fields |-> <<>>]
Excluded == [Included("stats", <<>>, Null, <<>>) EXCEPT
                !.status = "excluded", !.impact = "", !.recovery = ""]

MCPolicy ==
    [schema_version |-> 1, selected_modules |-> MCSelected,
     operations |-> [form |-> "object", items |->
        UploadIdentity :> Included("files.upload", <<"files", "upload">>, "destructive",
                                   UploadContract)
        @@ CreateUser :> Included("databases.create-user", <<"databases", "create-user">>, "mutate",
                                  [name |-> Plain("name", "name"), password |-> Password])
        @@ Stats :> Excluded]]

------------------------------------------------------------------------------
Set(object, field, value) == (field :> value) @@ object
Without(object, field) == [f \in DOMAIN object \ {field} |-> object[f]]

ParameterEdits(q) ==
    {Set(q, e[1], e[2]) : e \in {
        <<"name", "other">>, <<"uapi_name", "name">>, <<"uapi_name", "rows">>,
        <<"uapi_name", "module">>, <<"uapi_name", "bogus">>, <<"sources", <<"argument">>>>,
        <<"sources", <<"stdin">>>>, <<"sources", <<"stdin", "stdin">>>>,
        <<"required", FALSE>>, <<"secret", TRUE>>, <<"validator", "">>,
        <<"wildcard", TRUE>>}}
    \cup {Without(q, f) : f \in {"secret", "required"} \cap DOMAIN q}

StatsWith(q) == Included("stats", <<"stats", "show">>, "read", [display |-> q])

\* Ways to include the excluded operation.
Inclusions ==
    LET stats(q) == StatsWith(q)
        display == Plain("display", "display")
    IN  {stats(display),
         [stats(display) EXCEPT !.command = <<"files", "upload">>],
         [stats(display) EXCEPT !.name = "files.upload"],
         [stats(display) EXCEPT !.audit_fields = <<"display">>],
         stats([Password EXCEPT !.name = "display", !.uapi_name = "display"]),
         stats(Set(display, "required", FALSE)),
         stats([display EXCEPT !.uapi_name = "rows"])}

RecordEdits(id, r) ==
    {Set(r, e[1], e[2]) : e \in {
        <<"status", "excluded">>, <<"status", "pending">>, <<"name", "files.upload">>,
        <<"command", <<"files", "upload">>>>, <<"audit_fields", <<"password">>>>,
        <<"risk", Null>>, <<"impact", "">>, <<"reason", "">>, <<"preflight", Malformed>>,
        <<"identity", Stats>>, <<"identity", Other>>, <<"parameters", <<>>>>}}
    \cup {Without(r, f) : f \in {"identity", "elevated_impact", "preflight"} \cap DOMAIN r}
    \cup (IF id = Stats THEN Inclusions ELSE {})
    \cup UNION {{Set(r, "parameters", Set(r.parameters, n, q)) : q \in ParameterEdits(r.parameters[n])}
                : n \in DOMAIN r.parameters}

\* The two forms of the records, as each other.
Array(items) ==
    LET ids == <<UploadIdentity, CreateUser, Stats>>
    IN  [form |-> "array", items |-> [i \in 1..3 |-> Set(items[ids[i]], "identity", ids[i])]]

\* Two operations trade their names, or their commands.
Swapped(items, f) ==
    [items EXCEPT ![CreateUser][f] = items[UploadIdentity][f],
                  ![UploadIdentity][f] = items[CreateUser][f]]

FirstEdits(items) ==
    UNION {{Set(items, id, r) : r \in RecordEdits(id, items[id])} : id \in {CreateUser, Stats}}
    \cup {[items EXCEPT ![UploadIdentity].parameters.source.sources = <<"argument">>]}
    \cup {Without(items, id) : id \in DOMAIN items}
    \cup {Swapped(items, f) : f \in {"name", "command"}}

\* A document that has been edited before is turned into an array, gets a record
\* too many, or includes what was excluded.
LaterEdits(records) ==
    IF records.form = "array"
    THEN {[records EXCEPT !.items = Append(@, records.items[3])]}
    ELSE {Array(records.items) : s \in {1} \cap {Cardinality(DOMAIN records.items) - 2}}
         \cup {[records EXCEPT !.items = Set(@, Stats, StatsWith(Plain("display", "display")))]}
         \cup {[records EXCEPT !.items = Set(@, Other, Excluded)]}

MCPolicyEdits(document) ==
    {[document EXCEPT !.operations = r] : r \in LaterEdits(document.operations)}
    \cup (IF document = MCPolicy
          THEN {[document EXCEPT !.operations.items = i] : i \in FirstEdits(MCPolicy.operations.items)}
               \cup {[document EXCEPT !.selected_modules = MCSelected \o <<"Bogus">>]}
          ELSE {})

MCSourceEdits(document) ==
    LET paths == document.paths
        with(p, item) == [document EXCEPT !.paths = Set(paths, p, item)]
        stats == At(Stats)
    IN  IF document # MCSource THEN {} ELSE
        {with([segments |-> Stats, slash |-> TRUE], PathItem(<<>>)),
         with(At(<<"StatsBar", "new_call">>), PathItem(<<>>)),
         with(At(<<"ping">>), PathItem(<<>>)),
         with(At(Other), PathItem(<<Api("x", TRUE)>>)),
         with(stats, [parameters |-> <<>>, methods |-> [m \in {"get", "post"} |-> Call(<<>>)]]),
         with(stats, [paths[stats] EXCEPT !.parameters = <<Api("rows", FALSE)>>]),
         with(stats, [paths[stats] EXCEPT !.methods.get.deprecated = TRUE]),
         with(stats, PathItem(<<Set(Api("rows", TRUE), "schema", Malformed)>>)),
         with(stats, PathItem(<<Api("rows", TRUE)>>))}

MCCatalogEdits(value) ==
    {Without(value, f) : f \in Metadata \cap DOMAIN value}
    \cup {[f \in DOMAIN value \ Metadata |->
             IF f = "operations"
             THEN [id \in DOMAIN value.operations |-> Without(value.operations[id], "policy")]
             ELSE value[f]]}
    \cup {[value EXCEPT !.operations[CreateUser] = o] :
            o \in LET old == value.operations[CreateUser]
                  IN  {Without(old, "policy"), [old EXCEPT !.deprecated = TRUE],
                       [old EXCEPT !.parameters = Without(@, "name")],
                       [old EXCEPT !.parameters =
                            Set(@, "host", [location |-> "query", required |-> TRUE])]}
                      \cup (IF "policy" \in DOMAIN old
                            THEN {[old EXCEPT !.policy.risk = "read"]} ELSE {})}
==============================================================================
