------------------------------- MODULE Reports -------------------------------
(***************************************************************************)
(* What the command line reports of a call that carried secrets: Transport *)
(* with the texts of the server's answer and of a network failure, as they *)
(* are after redaction by UAPITransport.call and by _run_operation.        *)
(*                                                                         *)
(*   operation, values, token   what is sent: the operation, its validated *)
(*            parameters and the API token                                 *)
(*   shown    the report: texts on the standard output or error            *)
(***************************************************************************)
EXTENDS Transport, Redaction, Functions

CONSTANTS
    Characters,  \* what texts are made of
    Texts,       \* what can be submitted
    Tokens,
    Messages,    \* what a server or a network failure can say
    DataPaths    \* where texts stand in a result

Param(name, kind, uapi_name, required) ==
    [name |-> name, kind |-> kind, uapi_name |-> uapi_name, required |-> required]

\* The parameters of the operations that submit secrets, and of one that does not.
ParametersOf ==
    [write |-> <<Param("directory", "path", "dir", TRUE), Param("filename", "filename", "file", TRUE),
                 Param("content", "content", "content", TRUE)>>,
     install |-> <<Param("domain", "domain", "domain", TRUE),
                   Param("certificate", "certificate", "cert", TRUE),
                   Param("private_key", "private_key", "key", TRUE),
                   Param("cabundle", "certificate", "cabundle", FALSE)>>,
     create_user |-> <<Param("name", "database", "name", TRUE),
                       Param("password", "secret", "password", TRUE)>>,
     remove |-> <<Param("domain", "domain", "domain", TRUE)>>]

MethodOf(op) == IF op = "remove" THEN "GET" ELSE "POST"

\* Parameters that are no secrets are one text.
Plain == CHOOSE text \in Texts : TRUE

\* Every required parameter has a value that is not empty (validate_parameters).
Submittable(parameters) ==
    LET all == Range(parameters)
        required == {q.name : q \in {r \in all : r.required}}
        plain == {q.name : q \in {r \in all : r.kind \notin SecretKinds}}
    IN  UNION {{v \in [names -> Texts] : \A n \in names \cap plain : v[n] = Plain} :
               names \in {n \in SUBSET {q.name : q \in all} : required \subseteq n}}

\* What the errors of an answer are joined with.
Between == <<";", " ">>

VARIABLES operation, values, token, shown

submitted == <<operation, values, token>>
reportVars == <<vars, submitted, shown>>

ASSUME ReportAssumption ==
    /\ Texts \cup Tokens \cup Messages \subseteq Seq(Characters)
    /\ DataPaths \subseteq Seq(STRING \cup Nat)
    /\ Between \in Seq(Characters)
    /\ REDACTED \in Seq(Characters) /\ REDACTED # <<>>
    /\ <<>> \notin Texts \cup Tokens

ReportInit ==
    /\ Init
    /\ operation \in {op \in DOMAIN ParametersOf : MethodOf(op) = called.method}
    /\ values \in Submittable(ParametersOf[operation])
    /\ token \in Tokens
    /\ shown = <<>>

------------------------------------------------------------------------------
(* The steps of the call, with what they report.                            *)

Joined(errors) ==
    LET upto[k \in 0..Len(errors)] ==
            IF k = 0 THEN <<>>
            ELSE IF k = 1 THEN errors[1]
            ELSE upto[k - 1] \o Between \o errors[k]
    IN  upto[Len(errors)]

\* The request, and a redirect that is followed, report nothing.
Silent == (Send \/ (Redirect /\ pc' # "done")) /\ UNCHANGED <<submitted, shown>>

\* A refused redirect, a status, a timeout, a malformed body or an error of the
\* function without a text is reported in fixed words; so is an internal failure.
Fixed ==
    /\ (Redirect /\ pc' = "done") \/ Fail \/ Garbled \/ (Answer /\ result' = "uapi")
    /\ UNCHANGED <<submitted, shown>>

\* Any other failure of the network is reported with its reason.
NetworkFails ==
    /\ Fail
    /\ \E reason \in Messages :
         shown' = [path \in {<<"reason">>} |-> RedactString(Said(reason), <<token>>)]
    /\ UNCHANGED submitted

\* The runner redacts the whole result with the token and what was submitted.
Succeed ==
    /\ Answer /\ result' = "ok"
    /\ \E data \in [DataPaths -> {Said(message) : message \in Messages}] :
         shown' = Redact(data, <<token>> \o SubmittedSecrets(ParametersOf[operation], values))
    /\ UNCHANGED submitted

\* The transport redacts the errors of the function once they are joined.
Refused ==
    /\ Answer /\ result' = "uapi"
    /\ \E errors \in {<<a>> : a \in Messages} \cup {<<a, b>> : a, b \in Messages} :
         shown' = [path \in {<<"reason">>} |->
                    RedactString(Said(Joined(errors)),
                        <<token>> \o RequestSecrets(ParametersOf[operation], values))]
    /\ UNCHANGED submitted

ReportNext == Silent \/ Fixed \/ NetworkFails \/ Succeed \/ Refused

ReportSpec == ReportInit /\ [][ReportNext]_reportVars

------------------------------------------------------------------------------
(* Properties.                                                              *)

\* Whatever the server answers and however it cuts and joins what was sent, nothing
\* that was said stays the token in a report, nor, in the report of an answer, a
\* password, a key, a certificate or a content that was submitted, on the standard
\* output and in an error alike: where one of them can be read, a marker is in it.
NoSecretIsReported ==
    \A path \in DOMAIN shown :
        /\ ~Told(token, shown[path])
        /\ result \in {"ok", "uapi"} =>
              \A q \in Range(ParametersOf[operation]) :
                  q.kind \in SecretKinds /\ q.name \in DOMAIN values
                  => ~Told(values[q.name], shown[path])

==============================================================================
