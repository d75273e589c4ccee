---------------------------- MODULE InputResolver ----------------------------
(***************************************************************************)
(* InputResolver.resolve of src/cpanel_admin/inputs.py: the parameters of  *)
(* one policy operation are taken one after the other, in the order of     *)
(* their names, each from the one source its policy gives it.  Every       *)
(* resolution is a process of its own; files and the profile's token       *)
(* change between the steps of one and between two of them.                *)
(*                                                                         *)
(*   operation   the operation all resolutions are for                     *)
(*   files       what is at each path: nothing, or a content and whether   *)
(*               the file is the user's with mode 0600                     *)
(*   token       the decrypted token of the profile                        *)
(*   job         each resolution: pc, the position k of the parameter that *)
(*               is next, the arguments, standard input and environment it *)
(*               was started with, and the four results                    *)
(*                                                                         *)
(* A text has a body and may end in a newline.  A fingerprint is what it   *)
(* is taken of.  One read of a file is one step: FileReads has the rest.   *)
(***************************************************************************)
EXTENDS Naturals, Sequences, FiniteSets

CONSTANTS
    Resolutions,
    Operations,     \* policy operations, parameters sorted by name
    Texts,          \* records of a body and whether a newline follows it
    Binary,         \* a content that is not UTF-8
    Paths,          \* records of a directory and a file name
    UploadNames,    \* the file names that an Upload may have
    Variables,      \* names of environment variables
    Empty,          \* an empty argument
    Null,           \* an argument that was not given
    NoFile, NoToken, Unreadable,
    InitialFiles, InitialToken,
    MaxEdits        \* bound on changes made by others

Contents == [content : Texts \cup {Binary}, private : BOOLEAN]
TokenTexts == {t \in Texts : ~t.eol}
ProtectedSources == {"stdin", "protected_file", "environment", "encrypted_profile"}

PolicyParameters ==
    [name : STRING, sources : Seq(ProtectedSources \cup {"argument", "local_file"}),
     validator : STRING, required : BOOLEAN, secret : BOOLEAN, sensitive_output : BOOLEAN]

\* What PolicyRegistry.from_dict lets through (PolicyRegistry!WellFormed).
ASSUME ResolverAssumption ==
    /\ \A op \in Operations : op.parameters \in Seq(PolicyParameters)
    /\ \A op \in Operations : \A i \in DOMAIN op.parameters :
         /\ op.parameters[i].secret =>
              \A j \in DOMAIN op.parameters[i].sources :
                 op.parameters[i].sources[j] \in ProtectedSources
         /\ \A j \in DOMAIN op.parameters :
              op.parameters[i].name = op.parameters[j].name => i = j
    /\ Texts \subseteq [body : STRING, eol : BOOLEAN] /\ Binary \notin Texts
    /\ InitialFiles \in [Paths -> Contents \cup {NoFile}]
    /\ InitialToken \in TokenTexts
    /\ Null \notin Texts \cup Paths \cup Variables \cup {Empty}
    /\ Empty \notin Paths \cup Variables
    /\ NoFile \notin Contents /\ NoToken \notin Texts /\ Unreadable \notin Texts
    /\ MaxEdits \in Nat

VARIABLES operation, files, token, job, edits

vars == <<operation, files, token, job, edits>>

Parameters == operation.parameters
Named(n) == CHOOSE q \in {Parameters[i] : i \in DOMAIN Parameters} : q.name = n

\* What an argument of the namespace is, by the source of its parameter.
Suppliable(q) ==
    {Null} \cup (CASE q.sources[1] = "argument" -> Texts
                   [] q.sources[1] \in {"protected_file", "local_file"} -> Paths \cup {Empty}
                   [] q.sources[1] = "environment" -> Variables \cup {Empty}
                   [] OTHER -> {})

Idle == [pc |-> "idle", k |-> 1, namespace |-> Null, stdin |-> Null, env |-> Null,
         values |-> <<>>, safe |-> <<>>, uploads |-> <<>>, secrets |-> <<>>]

Init ==
    /\ operation \in Operations
    /\ files = InitialFiles
    /\ token = InitialToken
    /\ job = [r \in Resolutions |-> Idle]
    /\ edits = 0

------------------------------------------------------------------------------
(* One resolution.                                                          *)

SourcesOf == {Parameters[i].sources[1] : i \in DOMAIN Parameters}

Resolvable ==
    /\ operation.status = "included"
    /\ \A i \in DOMAIN Parameters : Len(Parameters[i].sources) = 1
    /\ Cardinality({i \in DOMAIN Parameters : Parameters[i].sources[1] = "stdin"}) <= 1

\* Only what the operation's sources can see is told apart.
Begin(r) ==
    /\ job[r].pc = "idle"
    /\ \E namespace \in {f \in [1..Len(Parameters) ->
                                  UNION {Suppliable(Parameters[i]) : i \in DOMAIN Parameters}] :
                           \A i \in DOMAIN f : f[i] \in Suppliable(Parameters[i])},
          stdin \in IF "stdin" \in SourcesOf THEN Texts \cup {Unreadable} ELSE {Null},
          env \in IF "environment" \in SourcesOf THEN [Variables -> Texts \cup {Null}] ELSE {Null} :
         job' = [job EXCEPT ![r] =
                   [Idle EXCEPT !.pc = IF Resolvable THEN "next" ELSE "refused",
                                !.namespace = namespace, !.stdin = stdin, !.env = env]]
    /\ UNCHANGED <<operation, files, token, edits>>

\* The parameter whose turn it is, with the argument of its name.
Turn(r, source) ==
    /\ job[r].pc = "next" /\ job[r].k <= Len(Parameters)
    /\ Parameters[job[r].k].sources[1] = source
    /\ UNCHANGED <<operation, files, token, edits>>

Current(r) == Parameters[job[r].k]
Argument(r) == job[r].namespace[job[r].k]

Refuse(r) == job' = [job EXCEPT ![r] = [Idle EXCEPT !.pc = "refused"]]

\* An optional parameter is left out, a required one is missed.
Absent(r) ==
    IF Current(r).required THEN Refuse(r) ELSE job' = [job EXCEPT ![r].k = @ + 1]

\* validate_value: a text must not be empty; a domain has no space around it and
\* is turned into lower case, where the other spelling of "x" is "X".
Valid(validator, text) ==
    /\ text.body # "" \/ text.eol
    /\ validator = "domain" => ~text.eol /\ text.body # ""
Normal(validator, text) ==
    IF validator = "domain" /\ text.body = "X" THEN [text EXCEPT !.body = "x"] ELSE text

Fingerprint(content) == [sha256 |-> content]

Protected(q) == q.secret \/ q.sensitive_output \/ q.sources[1] \in ProtectedSources

\* Mutant of SafeValue: what is printed anyway needs no fingerprint.
SafeValueOfFlags(q, text) ==
    IF q.secret \/ q.sensitive_output THEN Fingerprint(text) ELSE text

SafeValue(q, text) == IF Protected(q) THEN Fingerprint(text) ELSE text

With(f, n, x) == [m \in DOMAIN f \cup {n} |-> IF m = n THEN x ELSE f[m]]

\* Mutant of Take: a secret that may be printed is not listed.
TakeSensitive(r, raw) ==
    LET q == Current(r)
        text == Normal(q.validator, raw)
    IN  IF ~Valid(q.validator, raw) THEN Refuse(r)
        ELSE job' = [job EXCEPT
                ![r].k = @ + 1,
                ![r].values = With(@, q.name, text),
                ![r].safe = With(@, q.name, SafeValue(q, text)),
                ![r].secrets = IF q.sensitive_output THEN Append(@, text) ELSE @]

\* A value is validated and normalised, and recorded in that form: in full, as
\* it may be shown, and among the secrets if it is one.
Take(r, raw) ==
    LET q == Current(r)
        text == Normal(q.validator, raw)
    IN  IF ~Valid(q.validator, raw) THEN Refuse(r)
        ELSE job' = [job EXCEPT
                ![r].k = @ + 1,
                ![r].values = With(@, q.name, text),
                ![r].safe = With(@, q.name, SafeValue(q, text)),
                ![r].secrets = IF q.secret THEN Append(@, text) ELSE @]

FromArgument(r) ==
    /\ Turn(r, "argument")
    /\ IF Argument(r) = Null THEN Absent(r) ELSE Take(r, Argument(r))

\* Line ends are stripped from all but a content.
Stripped(q, text) == IF q.validator = "content" THEN text ELSE [text EXCEPT !.eol = FALSE]

FromStdin(r) ==
    /\ Turn(r, "stdin")
    /\ IF job[r].stdin = Unreadable THEN Refuse(r)
       ELSE Take(r, Stripped(Current(r), job[r].stdin))

\* read_protected_file, then decoded.
FromProtectedFile(r) ==
    /\ Turn(r, "protected_file")
    /\ IF Argument(r) = Null THEN Absent(r)
       ELSE IF /\ Argument(r) # Empty /\ files[Argument(r)] # NoFile
               /\ files[Argument(r)].private
               /\ files[Argument(r)].content # Binary
       THEN Take(r, files[Argument(r)].content)
       ELSE Refuse(r)

FromEnvironment(r) ==
    /\ Turn(r, "environment")
    /\ IF Argument(r) = Null THEN Absent(r)
       ELSE IF /\ Current(r).secret /\ Argument(r) # Empty
               /\ job[r].env[Argument(r)] # Null
       THEN Take(r, job[r].env[Argument(r)])
       ELSE Refuse(r)

\* Only the profile's token is stored encrypted.
FromEncryptedProfile(r) ==
    /\ Turn(r, "encrypted_profile")
    /\ IF Current(r).name = "encrypted_token" /\ Current(r).secret /\ token # NoToken
       THEN Take(r, token)
       ELSE Refuse(r)

Upload(path, content) == [filename |-> path.name, content |-> content]

\* Mutant of SafeUpload: the fingerprint leaves out the file's name.
SafeUploadNameless(upload) == Fingerprint(upload.content)

SafeUpload(upload) == [name |-> upload.filename, sha256 |-> upload.content]

\* The path is a value; the file's content, read once, is the next upload and is
\* shown by its fingerprint and the last part of the path.
FromLocalFile(r) ==
    /\ Turn(r, "local_file")
    /\ LET path == Argument(r)
           upload == Upload(path, files[path].content)
       IN  IF path = Null THEN Absent(r)
           ELSE IF path = Empty \/ files[path] = NoFile \/ path.name \notin UploadNames
                THEN Refuse(r)
           ELSE job' = [job EXCEPT
                   ![r].k = @ + 1,
                   ![r].values = With(@, Current(r).name, path),
                   ![r].uploads = Append(@, upload),
                   ![r].safe = With(@, Current(r).name, SafeUpload(upload))]

Finish(r) ==
    /\ job[r].pc = "next" /\ job[r].k > Len(Parameters)
    /\ job' = [job EXCEPT ![r].pc = "done"]
    /\ UNCHANGED <<operation, files, token, edits>>

Step(r) == \/ FromArgument(r) \/ FromStdin(r) \/ FromProtectedFile(r) \/ FromEnvironment(r)
           \/ FromEncryptedProfile(r) \/ FromLocalFile(r) \/ Finish(r)

------------------------------------------------------------------------------
(* The rest of the world, as far as the operation's sources can see it.     *)

EditFile ==
    /\ edits < MaxEdits /\ edits' = edits + 1
    /\ SourcesOf \cap {"protected_file", "local_file"} # {}
    /\ \E path \in Paths, file \in Contents \cup {NoFile} :
         files' = [files EXCEPT ![path] = file]
    /\ UNCHANGED <<operation, token, job>>

ReplaceProfile ==
    /\ edits < MaxEdits /\ edits' = edits + 1
    /\ "encrypted_profile" \in SourcesOf
    /\ token' \in TokenTexts \cup {NoToken}
    /\ UNCHANGED <<operation, files, job>>

Next == EditFile \/ ReplaceProfile \/ \E r \in Resolutions : Begin(r) \/ Step(r)

Spec == Init /\ [][Next]_vars

------------------------------------------------------------------------------
(* Properties.                                                              *)

\* What a call made from a resolution would send: all values but the local paths,
\* which stay behind, and the uploads.
Sent(r) ==
    [values |-> [n \in {m \in DOMAIN job[r].values : Named(m).sources[1] # "local_file"} |->
                    job[r].values[n]],
     uploads |-> job[r].uploads]

\* A plan shows the safe values and its digest binds them: when those of a later
\* resolution are the same, what it sends is the same, whatever files, standard
\* input, environment or token have become in between, down to which upload is which.
SameSafeValuesSameCall ==
    \A r, q \in Resolutions :
        job[r].pc = "done" /\ job[q].pc = "done" /\ job[r].safe = job[q].safe
        => Sent(r) = Sent(q)

\* The safe values with every fingerprint blanked out.
Readable(r) ==
    [n \in DOMAIN job[r].safe |->
        IF Named(n).sources[1] = "local_file" THEN [job[r].safe[n] EXCEPT !.sha256 = Null]
        ELSE IF job[r].safe[n] \in Texts THEN job[r].safe[n] ELSE Null]

\* Of what comes from a file, standard input, the environment or the profile, safe
\* values tell nothing but the fingerprint: with the same arguments they read the same.
SafeValuesDiscloseNothing ==
    \A r, q \in Resolutions :
        job[r].pc = "done" /\ job[q].pc = "done" /\ job[r].namespace = job[q].namespace
        => Readable(r) = Readable(q)

\* Every secret that would be sent is among those to be redacted, in the very form
\* in which it is sent.
SecretsAreKnown ==
    \A r \in Resolutions : \A i \in DOMAIN Parameters :
        LET q == Parameters[i]
        IN  q.secret /\ q.name \in DOMAIN job[r].values
            => \E j \in DOMAIN job[r].secrets : job[r].secrets[j] = job[r].values[q.name]
==============================================================================
