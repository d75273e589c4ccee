------------------------ MODULE InputResolver_proofs ------------------------
(***************************************************************************)
(* Proofs about InputResolver, for any operations, texts, files and number *)
(* of resolutions: every secret a resolution returns is among the ones it  *)
(* lists for redaction (Inv); its safe values tell what it would send, and *)
(* read the same for the same arguments (SafeInv).                         *)
(***************************************************************************)
EXTENDS InputResolver, FiniteSetTheorems, TLAPS

Text == [body : STRING \cup {"x"}, eol : BOOLEAN]

\* A secret value is listed.
Listed(j) ==
    \A i \in DOMAIN Parameters :
        Parameters[i].secret /\ Parameters[i].name \in DOMAIN j.values
        => \E m \in DOMAIN j.secrets : j.secrets[m] = j.values[Parameters[i].name]

\* A resolution that was not refused has what its parameters' sources need.
Supplied(j) ==
    /\ Resolvable
    /\ \A i \in DOMAIN Parameters : j.namespace[i] \in Suppliable(Parameters[i])
    /\ "stdin" \in SourcesOf => j.stdin \in Texts \cup {Unreadable}
    /\ "environment" \in SourcesOf => j.env \in [Variables -> Texts \cup {Null}]

JobInv(j) ==
    /\ DOMAIN j = DOMAIN Idle
    /\ j.k \in Nat \ {0}
    /\ j.secrets \in Seq(Text)
    /\ j.pc \in {"next", "done"} => Supplied(j)
    /\ Listed(j)

Inv ==
    /\ operation \in Operations
    /\ files \in [Paths -> Contents \cup {NoFile}]
    /\ token \in TokenTexts \cup {NoToken}
    /\ DOMAIN job = Resolutions
    /\ \A r \in Resolutions : JobInv(job[r])

------------------------------------------------------------------------------
\* Names are unique, and a secret has a protected source.
LEMMA ParametersAreSound ==
    ASSUME operation \in Operations
    PROVE  /\ Parameters \in Seq(PolicyParameters)
           /\ \A i \in DOMAIN Parameters :
                 Parameters[i].secret =>
                    \A j \in DOMAIN Parameters[i].sources : Parameters[i].sources[j] \in ProtectedSources
           /\ \A i, j \in DOMAIN Parameters : Parameters[i].name = Parameters[j].name => i = j
BY ResolverAssumption DEF Parameters

\* A resolution that has taken nothing yet.
LEMMA FreshIsSound ==
    ASSUME NEW j, DOMAIN j = DOMAIN Idle, j.k = 1, j.values = <<>>, j.secrets = <<>>,
           j.pc \in {"next", "done"} => Supplied(j)
    PROVE  JobInv(j)
<1>1. Listed(j)
  <2>1. DOMAIN j.values = {}
    OBVIOUS
  <2>2. QED
    BY <2>1 DEF Listed
<1>2. j.secrets \in Seq(Text)
  OBVIOUS
<1>3. j.k \in Nat \ {0}
  OBVIOUS
<1>4. QED
  BY <1>1, <1>2, <1>3 DEF JobInv

\* The parameter whose turn it is.
LEMMA CurrentIsSound ==
    ASSUME Inv, NEW r \in Resolutions, NEW source, Turn(r, source)
    PROVE  /\ job[r].k \in DOMAIN Parameters
           /\ Supplied(job[r])
           /\ Argument(r) \in Suppliable(Current(r))
           /\ Current(r).sources[1] = source
           /\ source \in SourcesOf
           /\ Current(r).secret => source \in ProtectedSources
<1>1. /\ job[r].k \in Nat \ {0} /\ Supplied(job[r])
      /\ job[r].k <= Len(Parameters)
      /\ Parameters[job[r].k].sources[1] = source
  BY DEF Inv, JobInv, Turn
<1>2. Parameters \in Seq(PolicyParameters)
  BY ParametersAreSound DEF Inv
<1>3. job[r].k \in DOMAIN Parameters
  BY <1>1, <1>2
<1>4. Argument(r) \in Suppliable(Current(r))
  BY <1>1, <1>3 DEF Argument, Current, Supplied
<1>5. 1 \in DOMAIN Parameters[job[r].k].sources
  <2>1. Parameters[job[r].k] \in PolicyParameters
    BY <1>2, <1>3
  <2>2. Parameters[job[r].k].sources \in Seq(ProtectedSources \cup {"argument", "local_file"})
    BY <2>1 DEF PolicyParameters
  <2>3. Len(Parameters[job[r].k].sources) = 1
    BY <1>1, <1>3 DEF Supplied, Resolvable
  <2>4. QED
    BY <2>2, <2>3
<1>6. Current(r).secret => source \in ProtectedSources
  BY <1>1, <1>3, <1>5, ParametersAreSound DEF Current, Inv
<1>7. QED
  BY <1>1, <1>3, <1>4, <1>6 DEF Current, SourcesOf

\* Of one step of a resolution only its own record changes.
LEMMA OneJob ==
    ASSUME Inv, NEW r \in Resolutions, UNCHANGED <<operation, files, token>>,
           NEW j, job' = [job EXCEPT ![r] = j], JobInv(j)
    PROVE  Inv'
<1>1. \A q : JobInv(q)' <=> JobInv(q)
  BY DEF JobInv, Supplied, Listed, Resolvable, Parameters, SourcesOf, Suppliable, Idle
<1>2. QED
  BY <1>1 DEF Inv

LEMMA RefuseKeeps ==
    ASSUME Inv, NEW r \in Resolutions, UNCHANGED <<operation, files, token>>, Refuse(r)
    PROVE  Inv'
<1> DEFINE j == [Idle EXCEPT !.pc = "refused"]
<1>1. JobInv(j)
  <2>1. j.pc = "refused" /\ j.values = <<>> /\ j.secrets = <<>> /\ j.k = 1 /\ DOMAIN j = DOMAIN Idle
    BY DEF Idle
  <2> HIDE DEF j
  <2>2. QED
    BY <2>1, FreshIsSound
<1> HIDE DEF j
<1>2. job' = [job EXCEPT ![r] = j]
  BY DEF Refuse, j
<1>3. QED
  BY <1>1, <1>2, OneJob

LEMMA AbsentKeeps ==
    ASSUME Inv, NEW r \in Resolutions, UNCHANGED <<operation, files, token>>, Absent(r)
    PROVE  Inv'
<1>1. CASE Current(r).required
  BY <1>1, RefuseKeeps DEF Absent
<1>2. CASE ~Current(r).required
  <2> DEFINE j == [job[r] EXCEPT !.k = @ + 1]
  <2>1. JobInv(job[r])
    BY DEF Inv
  <2>2. /\ DOMAIN j = DOMAIN Idle /\ j.k = job[r].k + 1
        /\ j.pc = job[r].pc /\ j.namespace = job[r].namespace /\ j.stdin = job[r].stdin
        /\ j.env = job[r].env /\ j.values = job[r].values /\ j.secrets = job[r].secrets
    BY <2>1 DEF JobInv, Idle
  <2> HIDE DEF j
  <2>3. JobInv(j)
    BY <2>1, <2>2 DEF JobInv, Supplied, Listed
  <2>4. job' = [job EXCEPT ![r] = j]
    BY <1>2 DEF Absent, j
  <2>5. QED
    BY <2>3, <2>4, OneJob
<1>3. QED
  BY <1>1, <1>2

\* A record that goes on with one value more, which is listed if it is secret.
LEMMA TakenIsSound ==
    ASSUME Inv, NEW r \in Resolutions, NEW source, Turn(r, source), NEW j, NEW value,
           DOMAIN j = DOMAIN Idle, j.k = job[r].k + 1,
           j.pc = job[r].pc, j.namespace = job[r].namespace, j.stdin = job[r].stdin,
           j.env = job[r].env, j.values = With(job[r].values, Current(r).name, value),
           \/ j.secrets = job[r].secrets /\ ~Current(r).secret
           \/ j.secrets = Append(job[r].secrets, value) /\ value \in Text
    PROVE  JobInv(j)
<1>1. JobInv(job[r])
  BY DEF Inv
<1>2. job[r].secrets \in Seq(Text) /\ j.secrets \in Seq(Text)
  <2>1. job[r].secrets \in Seq(Text)
    BY <1>1 DEF JobInv
  <2>2. CASE j.secrets = job[r].secrets
    BY <2>1, <2>2
  <2>3. CASE j.secrets = Append(job[r].secrets, value) /\ value \in Text
    BY <2>1, <2>3
  <2>4. QED
    BY <2>1, <2>2, <2>3
<1>3. \A m \in DOMAIN job[r].secrets : m \in DOMAIN j.secrets /\ j.secrets[m] = job[r].secrets[m]
  BY <1>2
<1>4. ASSUME NEW i \in DOMAIN Parameters,
             Parameters[i].secret, Parameters[i].name \in DOMAIN j.values
      PROVE  \E m \in DOMAIN j.secrets : j.secrets[m] = j.values[Parameters[i].name]
  <2>1. CASE i = job[r].k
    <3>1. j.secrets = Append(job[r].secrets, value) /\ value \in Text
      BY <1>4, <2>1 DEF Current
    <3>2. j.values[Parameters[i].name] = value
      BY <1>4, <2>1 DEF With, Current
    <3>3. Len(job[r].secrets) + 1 \in DOMAIN j.secrets /\ j.secrets[Len(job[r].secrets) + 1] = value
      BY <1>1, <3>1 DEF JobInv
    <3>4. QED
      BY <3>2, <3>3
  <2>2. CASE i # job[r].k
    <3>1. Parameters[i].name # Current(r).name
      BY <2>2, CurrentIsSound, ParametersAreSound DEF Inv, Current
    <3>2. /\ Parameters[i].name \in DOMAIN job[r].values
          /\ j.values[Parameters[i].name] = job[r].values[Parameters[i].name]
      BY <1>4, <3>1 DEF With
    <3>3. QED
      BY <1>1, <1>3, <1>4, <3>2 DEF JobInv, Listed
  <2>3. QED
    BY <2>1, <2>2
<1>5. QED
  BY <1>1, <1>2, <1>4 DEF JobInv, Supplied, Listed

LEMMA NormalIsText ==
    ASSUME NEW validator, NEW raw \in Text PROVE Normal(validator, raw) \in Text
<1>1. raw.eol \in BOOLEAN /\ [raw EXCEPT !.body = "x"] = [body |-> "x", eol |-> raw.eol]
  BY DEF Text
<1>2. [body |-> "x", eol |-> raw.eol] \in Text
  BY <1>1 DEF Text
<1>3. QED
  BY <1>1, <1>2 DEF Normal

LEMMA TakeKeeps ==
    ASSUME Inv, NEW r \in Resolutions, NEW source, Turn(r, source), NEW raw \in Text, Take(r, raw)
    PROVE  Inv'
<1>1. UNCHANGED <<operation, files, token>>
  BY DEF Turn
<1>2. CASE ~Valid(Current(r).validator, raw)
  BY <1>1, <1>2, RefuseKeeps DEF Take
<1>3. CASE Valid(Current(r).validator, raw)
  <2> DEFINE q == Current(r)
             text == Normal(q.validator, raw)
             j == [job[r] EXCEPT !.k = @ + 1,
                                 !.values = With(@, q.name, text),
                                 !.safe = With(@, q.name, SafeValue(q, text)),
                                 !.secrets = IF q.secret THEN Append(@, text) ELSE @]
  <2>1. text \in Text
    BY NormalIsText
  <2>2. job' = [job EXCEPT ![r] = j]
    BY <1>3 DEF Take
  <2> HIDE DEF text
  <2>3. JobInv(job[r])
    BY DEF Inv
  <2>4. /\ DOMAIN j = DOMAIN Idle /\ j.k = job[r].k + 1
        /\ j.pc = job[r].pc /\ j.namespace = job[r].namespace /\ j.stdin = job[r].stdin
        /\ j.env = job[r].env /\ j.values = With(job[r].values, q.name, text)
        /\ j.secrets = IF q.secret THEN Append(job[r].secrets, text) ELSE job[r].secrets
    BY <2>3 DEF JobInv, Idle
  <2> HIDE DEF j, q
  <2>5. JobInv(j)
    BY <2>1, <2>4, TakenIsSound DEF q
  <2>6. QED
    BY <1>1, <2>2, <2>5, OneJob
<1>4. QED
  BY <1>2, <1>3

------------------------------------------------------------------------------
\* What comes from a source is a text; a local path is taken for a parameter that
\* is no secret.
LEMMA LocalFileKeeps ==
    ASSUME Inv, NEW r \in Resolutions, FromLocalFile(r)
    PROVE  Inv'
<1>1. UNCHANGED <<operation, files, token>> /\ Turn(r, "local_file")
  BY DEF FromLocalFile, Turn
<1> DEFINE path == Argument(r)
           upload == Upload(path, files[path].content)
           j == [job[r] EXCEPT !.k = @ + 1,
                               !.values = With(@, Current(r).name, path),
                               !.uploads = Append(@, upload),
                               !.safe = With(@, Current(r).name, SafeUpload(upload))]
<1>2. CASE path = Null
  BY <1>1, <1>2, AbsentKeeps DEF FromLocalFile
<1>3. CASE path # Null /\ (path = Empty \/ files[path] = NoFile \/ path.name \notin UploadNames)
  BY <1>1, <1>3, RefuseKeeps DEF FromLocalFile
<1>4. CASE path # Null /\ ~(path = Empty \/ files[path] = NoFile \/ path.name \notin UploadNames)
  <2>1. job' = [job EXCEPT ![r] = j]
    BY <1>4 DEF FromLocalFile
  <2>2. JobInv(job[r])
    BY DEF Inv
  <2> HIDE DEF path, upload
  <2>3. /\ DOMAIN j = DOMAIN Idle /\ j.k = job[r].k + 1
        /\ j.pc = job[r].pc /\ j.namespace = job[r].namespace /\ j.stdin = job[r].stdin
        /\ j.env = job[r].env /\ j.values = With(job[r].values, Current(r).name, path)
        /\ j.secrets = job[r].secrets
    BY <2>2 DEF JobInv, Idle
  <2>4. ~Current(r).secret
    BY <1>1, CurrentIsSound DEF ProtectedSources
  <2> HIDE DEF j
  <2>5. JobInv(j)
    BY <1>1, <2>3, <2>4, TakenIsSound
  <2>6. QED
    BY <1>1, <2>1, <2>5, OneJob
<1>5. QED
  BY <1>2, <1>3, <1>4

LEMMA TextsAreTexts ==
    /\ Texts \subseteq Text
    /\ TokenTexts \subseteq Text
    /\ \A text \in Text : \A q : Stripped(q, text) \in Text
<1>1. Texts \subseteq Text
  BY ResolverAssumption DEF Text
<1>2. ASSUME NEW text \in Text PROVE [text EXCEPT !.eol = FALSE] \in Text
  BY DEF Text
<1>3. QED
  BY <1>1, <1>2 DEF TokenTexts, Stripped

LEMMA SourcesKeep ==
    ASSUME Inv, NEW r \in Resolutions,
           \/ FromArgument(r) \/ FromStdin(r) \/ FromProtectedFile(r)
           \/ FromEnvironment(r) \/ FromEncryptedProfile(r)
    PROVE  Inv'
<1> USE TextsAreTexts
<1>1. CASE FromArgument(r)
  <2>1. Turn(r, "argument") /\ UNCHANGED <<operation, files, token>>
    BY <1>1 DEF FromArgument, Turn
  <2>2. Argument(r) \in {Null} \cup Texts
    BY <2>1, CurrentIsSound DEF Suppliable
  <2>3. QED
    BY <1>1, <2>1, <2>2, AbsentKeeps, TakeKeeps DEF FromArgument
<1>2. CASE FromStdin(r)
  <2>1. Turn(r, "stdin") /\ UNCHANGED <<operation, files, token>>
    BY <1>2 DEF FromStdin, Turn
  <2>2. job[r].stdin \in Texts \cup {Unreadable}
    BY <2>1, CurrentIsSound DEF Supplied
  <2>3. QED
    BY <1>2, <2>1, <2>2, RefuseKeeps, TakeKeeps DEF FromStdin
<1>3. CASE FromProtectedFile(r)
  <2>1. Turn(r, "protected_file") /\ UNCHANGED <<operation, files, token>>
    BY <1>3 DEF FromProtectedFile, Turn
  <2>2. Argument(r) \in {Null, Empty} \cup Paths
    BY <2>1, CurrentIsSound DEF Suppliable
  <2>3. ASSUME Argument(r) \in Paths, files[Argument(r)] # NoFile,
               files[Argument(r)].content # Binary
        PROVE  files[Argument(r)].content \in Text
    BY <2>3 DEF Inv, Contents
  <2>4. QED
    BY <1>3, <2>1, <2>2, <2>3, AbsentKeeps, RefuseKeeps, TakeKeeps DEF FromProtectedFile
<1>4. CASE FromEnvironment(r)
  <2>1. Turn(r, "environment") /\ UNCHANGED <<operation, files, token>>
    BY <1>4 DEF FromEnvironment, Turn
  <2>2. /\ Argument(r) \in {Null, Empty} \cup Variables
        /\ job[r].env \in [Variables -> Texts \cup {Null}]
    BY <2>1, CurrentIsSound DEF Suppliable, Supplied
  <2>3. QED
    BY <1>4, <2>1, <2>2, AbsentKeeps, RefuseKeeps, TakeKeeps DEF FromEnvironment
<1>5. CASE FromEncryptedProfile(r)
  <2>1. Turn(r, "encrypted_profile") /\ UNCHANGED <<operation, files, token>>
    BY <1>5 DEF FromEncryptedProfile, Turn
  <2>2. token \in TokenTexts \cup {NoToken}
    BY DEF Inv
  <2>3. QED
    BY <1>5, <2>1, <2>2, RefuseKeeps, TakeKeeps DEF FromEncryptedProfile
<1>6. QED
  BY <1>1, <1>2, <1>3, <1>4, <1>5

LEMMA BeginKeeps ==
    ASSUME Inv, NEW r \in Resolutions, Begin(r)
    PROVE  Inv'
<1>1. PICK namespace, stdin, env :
         /\ \A i \in 1..Len(Parameters) : namespace[i] \in Suppliable(Parameters[i])
         /\ stdin \in IF "stdin" \in SourcesOf THEN Texts \cup {Unreadable} ELSE {Null}
         /\ env \in IF "environment" \in SourcesOf THEN [Variables -> Texts \cup {Null}]
                                                   ELSE {Null}
         /\ job' = [job EXCEPT ![r] =
                      [Idle EXCEPT !.pc = IF Resolvable THEN "next" ELSE "refused",
                                   !.namespace = namespace, !.stdin = stdin, !.env = env]]
  BY DEF Begin
<1> DEFINE j == [Idle EXCEPT !.pc = IF Resolvable THEN "next" ELSE "refused",
                             !.namespace = namespace, !.stdin = stdin, !.env = env]
<1>2. DOMAIN Parameters = 1..Len(Parameters)
  BY ParametersAreSound DEF Inv
<1>3. /\ DOMAIN j = DOMAIN Idle /\ j.k = 1 /\ j.values = <<>> /\ j.secrets = <<>>
      /\ j.pc = (IF Resolvable THEN "next" ELSE "refused")
      /\ j.namespace = namespace /\ j.stdin = stdin /\ j.env = env
  BY DEF Idle
<1>4. UNCHANGED <<operation, files, token>> /\ job' = [job EXCEPT ![r] = j]
  BY <1>1 DEF Begin
<1> HIDE DEF j
<1>5. j.pc \in {"next", "done"} => Supplied(j)
  BY <1>1, <1>2, <1>3 DEF Supplied
<1>6. QED
  BY <1>3, <1>4, <1>5, FreshIsSound, OneJob

LEMMA FinishKeeps ==
    ASSUME Inv, NEW r \in Resolutions, Finish(r)
    PROVE  Inv'
<1> DEFINE j == [job[r] EXCEPT !.pc = "done"]
<1>1. JobInv(job[r])
  BY DEF Inv
<1>2. /\ DOMAIN j = DOMAIN Idle /\ j.k = job[r].k /\ j.pc = "done"
      /\ j.values = job[r].values /\ j.secrets = job[r].secrets
      /\ j.namespace = job[r].namespace /\ j.stdin = job[r].stdin /\ j.env = job[r].env
  BY <1>1 DEF JobInv, Idle
<1>3. UNCHANGED <<operation, files, token>> /\ job' = [job EXCEPT ![r] = j] /\ job[r].pc = "next"
  BY DEF Finish
<1> HIDE DEF j
<1>4. JobInv(j)
  BY <1>1, <1>2, <1>3 DEF JobInv, Supplied, Listed
<1>5. QED
  BY <1>3, <1>4, OneJob

------------------------------------------------------------------------------
LEMMA InitInv == Init => Inv
<1> SUFFICES ASSUME Init PROVE Inv
  OBVIOUS
<1>1. Idle.pc = "idle" /\ Idle.k = 1 /\ Idle.values = <<>> /\ Idle.secrets = <<>>
  BY DEF Idle
<1>2. JobInv(Idle)
  BY <1>1, FreshIsSound
<1>3. QED
  BY <1>2, ResolverAssumption DEF Init, Inv

LEMMA NextInv == Inv /\ [Next]_vars => Inv'
<1> SUFFICES ASSUME Inv, [Next]_vars PROVE Inv'
  OBVIOUS
<1>1. ASSUME UNCHANGED <<operation, job>>,
             files' \in [Paths -> Contents \cup {NoFile}], token' \in TokenTexts \cup {NoToken}
      PROVE  Inv'
  <2>1. \A j : JobInv(j)' <=> JobInv(j)
    BY <1>1 DEF JobInv, Supplied, Listed, Resolvable, Parameters, SourcesOf, Suppliable, Idle
  <2>2. QED
    BY <1>1, <2>1 DEF Inv
<1>2. CASE EditFile
  BY <1>1, <1>2 DEF EditFile, Inv
<1>3. CASE ReplaceProfile
  BY <1>1, <1>3 DEF ReplaceProfile, Inv
<1>4. CASE UNCHANGED vars
  BY <1>1, <1>4 DEF vars, Inv
<1>5. ASSUME NEW r \in Resolutions, Begin(r) \/ Step(r) PROVE Inv'
  BY <1>5, BeginKeeps, SourcesKeep, LocalFileKeeps, FinishKeeps DEF Step
<1>6. QED
  BY <1>2, <1>3, <1>4, <1>5 DEF Next

\* Every secret value that a resolution holds is among those it returns to be
\* redacted, in the form in which it is sent.
THEOREM SecretsAreListed == Spec => []SecretsAreKnown
<1>1. Inv => SecretsAreKnown
  BY DEF Inv, JobInv, Listed, SecretsAreKnown
<1>2. QED
  BY <1>1, InitInv, NextInv, PTL DEF Spec

------------------------------------------------------------------------------
(* What the safe values say.                                                *)

IsLocal(i) == Parameters[i].sources[1] = "local_file"

\* Only what is named by an argument can be left out; standard input and the
\* profile are always used.
LeftOut(j, i) ==
    /\ Parameters[i].sources[1] \in {"argument", "protected_file", "environment", "local_file"}
    /\ j.namespace[i] = Null

Settled(j) == {i \in DOMAIN Parameters : i < j.k /\ ~LeftOut(j, i)}

\* The uploads of the parameters up to one of them, when these names have a value.
UploadsUpTo(names, i) ==
    {m \in DOMAIN Parameters : m <= i /\ IsLocal(m) /\ Parameters[m].name \in names}
Number(names, i) == Cardinality(UploadsUpTo(names, i))

Uploads == [filename : {path.name : path \in Paths}, content : Texts \cup {Binary}]

\* A value is shown as itself or by its fingerprint.
ShowsValue(j, i) ==
    LET q == Parameters[i]
    IN  /\ j.safe[q.name] = SafeValue(q, j.values[q.name])
        /\ q.sources[1] = "argument" => j.values[q.name] = Normal(q.validator, j.namespace[i])

\* An upload is shown by its fingerprint, under the parameter that it is for.
ShowsUpload(j, i) ==
    LET n == Number(DOMAIN j.safe, i)
    IN  /\ n \in DOMAIN j.uploads
        /\ j.safe[Parameters[i].name] = SafeUpload(j.uploads[n])
        /\ j.uploads[n].filename = j.namespace[i].name

\* What a resolution has recorded, of the parameters it has been through.
Follows(j) ==
    /\ DOMAIN j.values = DOMAIN j.safe
    /\ DOMAIN j.safe = {Parameters[i].name : i \in Settled(j)}
    /\ j.uploads \in Seq(Uploads)
    /\ Len(j.uploads) = Number(DOMAIN j.safe, j.k - 1)
    /\ \A n \in DOMAIN j.uploads :
         \E i \in Settled(j) : IsLocal(i) /\ n = Number(DOMAIN j.safe, i)
    /\ \A i \in Settled(j) : IF IsLocal(i) THEN ShowsUpload(j, i) ELSE ShowsValue(j, i)

SafeInv ==
    /\ Inv
    /\ \A r \in Resolutions :
         /\ job[r].pc \in {"next", "done"} => Follows(job[r])
         /\ job[r].pc = "done" => job[r].k > Len(Parameters)

\* A number of uploads is a number.
LEMMA NumberIsNatural ==
    ASSUME Inv, NEW names, NEW i
    PROVE  IsFiniteSet(UploadsUpTo(names, i)) /\ Number(names, i) \in Nat
<1>1. IsFiniteSet(DOMAIN Parameters)
  <2>1. DOMAIN Parameters = 1..Len(Parameters) /\ Len(Parameters) \in Nat
    BY ParametersAreSound DEF Inv
  <2>2. QED
    BY <2>1, FS_Interval
<1>2. UploadsUpTo(names, i) \subseteq DOMAIN Parameters
  BY DEF UploadsUpTo
<1>3. IsFiniteSet(UploadsUpTo(names, i))
  BY <1>1, <1>2, FS_Subset
<1>4. QED
  BY <1>3, FS_CardinalityType DEF Number

\* A later parameter does not change the number of an earlier one; the next
\* parameter is the next upload if it is one.
LEMMA NextNumber ==
    ASSUME Inv, NEW k \in DOMAIN Parameters, NEW names, Parameters[k].name \notin names
    PROVE  LET more == names \cup {Parameters[k].name}
           IN  /\ \A i \in DOMAIN Parameters : i < k => Number(more, i) = Number(names, i)
               /\ Number(names, k) = Number(names, k - 1)
               /\ Number(more, k) = IF IsLocal(k) THEN Number(names, k - 1) + 1
                                                  ELSE Number(names, k - 1)
<1> DEFINE more == names \cup {Parameters[k].name}
<1>1. k \in Nat /\ DOMAIN Parameters \subseteq Nat
  <2>1. DOMAIN Parameters = 1..Len(Parameters) /\ Len(Parameters) \in Nat
    BY ParametersAreSound DEF Inv
  <2>2. QED
    BY <2>1
<1>2. \A m \in DOMAIN Parameters : Parameters[m].name = Parameters[k].name => m = k
  BY ParametersAreSound DEF Inv
<1>3. ASSUME NEW i \in DOMAIN Parameters, i < k
      PROVE  UploadsUpTo(more, i) = UploadsUpTo(names, i)
  BY <1>1, <1>2, <1>3 DEF UploadsUpTo
<1>4. UploadsUpTo(names, k) = UploadsUpTo(names, k - 1)
  BY <1>1 DEF UploadsUpTo
<1>5. UploadsUpTo(more, k) = IF IsLocal(k) THEN UploadsUpTo(names, k - 1) \cup {k}
                                           ELSE UploadsUpTo(names, k - 1)
  BY <1>1, <1>2 DEF UploadsUpTo
<1>6. k \notin UploadsUpTo(names, k - 1)
  BY <1>1 DEF UploadsUpTo
<1>7. Cardinality(UploadsUpTo(names, k - 1) \cup {k}) = Cardinality(UploadsUpTo(names, k - 1)) + 1
  BY <1>6, NumberIsNatural, FS_AddElement
<1>8. QED
  BY <1>3, <1>4, <1>5, <1>7 DEF Number

\* The parameters that are settled when one more has been.
LEMMA NextSettled ==
    ASSUME Inv, NEW j, NEW k \in DOMAIN Parameters, j.k = k,
           NEW h, h.k = k + 1, h.namespace = j.namespace
    PROVE  /\ Settled(h) = Settled(j) \cup (IF LeftOut(j, k) THEN {} ELSE {k})
           /\ k \notin Settled(j)
           /\ \A i \in Settled(j) : i < k /\ i \in DOMAIN Parameters /\ Parameters[i].name # Parameters[k].name
<1>1. k \in Nat /\ DOMAIN Parameters \subseteq Nat
  <2>1. DOMAIN Parameters = 1..Len(Parameters) /\ Len(Parameters) \in Nat
    BY ParametersAreSound DEF Inv
  <2>2. QED
    BY <2>1
<1>2. \A m \in DOMAIN Parameters : Parameters[m].name = Parameters[k].name => m = k
  BY ParametersAreSound DEF Inv
<1>3. \A i : LeftOut(h, i) <=> LeftOut(j, i)
  BY DEF LeftOut
<1>4. QED
  BY <1>1, <1>2, <1>3 DEF Settled

LEMMA SkippedFollows ==
    ASSUME Inv, NEW j, Follows(j), j.k \in DOMAIN Parameters, LeftOut(j, j.k),
           NEW h, h.k = j.k + 1, h.namespace = j.namespace,
           h.values = j.values, h.safe = j.safe, h.uploads = j.uploads
    PROVE  Follows(h)
<1> DEFINE k == j.k
<1>1. /\ Settled(h) = Settled(j) /\ k \notin Settled(j)
      /\ \A i \in Settled(j) : Parameters[i].name # Parameters[k].name
  BY NextSettled
<1>2. Parameters[k].name \notin DOMAIN j.safe
  BY <1>1 DEF Follows
<1>3. Number(DOMAIN j.safe, k) = Number(DOMAIN j.safe, k - 1)
  BY <1>2, NextNumber
<1>4. h.k - 1 = k
  BY ParametersAreSound DEF Inv
<1>5. ASSUME NEW i PROVE /\ ShowsValue(h, i) <=> ShowsValue(j, i)
                         /\ ShowsUpload(h, i) <=> ShowsUpload(j, i)
  BY DEF ShowsValue, ShowsUpload
<1>6. QED
  BY <1>1, <1>3, <1>4, <1>5 DEF Follows

LEMMA ValueFollows ==
    ASSUME Inv, NEW j, Follows(j), j.k \in DOMAIN Parameters, ~LeftOut(j, j.k), ~IsLocal(j.k),
           NEW text, Parameters[j.k].sources[1] = "argument" =>
                       text = Normal(Parameters[j.k].validator, j.namespace[j.k]),
           NEW h, h.k = j.k + 1, h.namespace = j.namespace,
           h.values = With(j.values, Parameters[j.k].name, text),
           h.safe = With(j.safe, Parameters[j.k].name, SafeValue(Parameters[j.k], text)),
           h.uploads = j.uploads
    PROVE  Follows(h)
<1> DEFINE k == j.k
           more == DOMAIN j.safe \cup {Parameters[k].name}
<1>1. /\ Settled(h) = Settled(j) \cup {k} /\ k \notin Settled(j)
      /\ \A i \in Settled(j) : i \in DOMAIN Parameters /\ i < k /\ Parameters[i].name # Parameters[k].name
  BY NextSettled
<1>2. Parameters[k].name \notin DOMAIN j.safe
  BY <1>1 DEF Follows
<1>3. /\ \A i \in DOMAIN Parameters : i < k => Number(more, i) = Number(DOMAIN j.safe, i)
      /\ Number(more, k) = Number(DOMAIN j.safe, k - 1)
  BY <1>2, NextNumber
<1>4. h.k - 1 = k
  BY ParametersAreSound DEF Inv
<1>5. /\ DOMAIN h.values = DOMAIN j.values \cup {Parameters[k].name}
      /\ DOMAIN h.safe = more
      /\ h.values[Parameters[k].name] = text
      /\ h.safe[Parameters[k].name] = SafeValue(Parameters[k], text)
      /\ \A n \in DOMAIN j.safe : n # Parameters[k].name => h.safe[n] = j.safe[n]
      /\ \A n \in DOMAIN j.values : n # Parameters[k].name => h.values[n] = j.values[n]
  BY DEF With
<1>6. ASSUME NEW i \in Settled(j)
      PROVE  IF IsLocal(i) THEN ShowsUpload(h, i) ELSE ShowsValue(h, i)
  <2>1. IF IsLocal(i) THEN ShowsUpload(j, i) ELSE ShowsValue(j, i)
    BY DEF Follows
  <2>2. Parameters[i].name \in DOMAIN j.safe /\ DOMAIN j.values = DOMAIN j.safe
    BY DEF Follows
  <2>3. /\ h.safe[Parameters[i].name] = j.safe[Parameters[i].name]
        /\ h.values[Parameters[i].name] = j.values[Parameters[i].name]
    BY <1>1, <1>5, <2>2
  <2>4. Number(DOMAIN h.safe, i) = Number(DOMAIN j.safe, i)
    BY <1>1, <1>3, <1>5
  <2>5. QED
    BY <2>1, <2>3, <2>4 DEF ShowsUpload, ShowsValue
<1>7. ShowsValue(h, k)
  BY <1>5 DEF ShowsValue
<1>8. ASSUME NEW n \in DOMAIN h.uploads
      PROVE  \E i \in Settled(h) : IsLocal(i) /\ n = Number(DOMAIN h.safe, i)
  <2>1. PICK i \in Settled(j) : IsLocal(i) /\ n = Number(DOMAIN j.safe, i)
    BY DEF Follows
  <2>2. Number(DOMAIN h.safe, i) = Number(DOMAIN j.safe, i)
    BY <1>1, <1>3, <1>5
  <2>3. QED
    BY <1>1, <2>1, <2>2
<1>9. DOMAIN h.safe = {Parameters[i].name : i \in Settled(h)}
  BY <1>1, <1>5 DEF Follows
<1>10. Len(h.uploads) = Number(DOMAIN h.safe, h.k - 1) /\ h.uploads \in Seq(Uploads)
  BY <1>3, <1>4, <1>5 DEF Follows
<1>11. DOMAIN h.values = DOMAIN h.safe
  BY <1>5 DEF Follows
<1>12. QED
  BY <1>1, <1>6, <1>7, <1>8, <1>9, <1>10, <1>11 DEF Follows

LEMMA UploadFollows ==
    ASSUME Inv, NEW j, Follows(j), j.k \in DOMAIN Parameters, ~LeftOut(j, j.k), IsLocal(j.k),
           NEW path, path = j.namespace[j.k],
           NEW upload \in Uploads, upload.filename = path.name,
           NEW h, h.k = j.k + 1, h.namespace = j.namespace,
           h.values = With(j.values, Parameters[j.k].name, path),
           h.safe = With(j.safe, Parameters[j.k].name, SafeUpload(upload)),
           h.uploads = Append(j.uploads, upload)
    PROVE  Follows(h)
<1> DEFINE k == j.k
           more == DOMAIN j.safe \cup {Parameters[k].name}
           last == Len(j.uploads) + 1
<1>1. /\ Settled(h) = Settled(j) \cup {k} /\ k \notin Settled(j)
      /\ \A i \in Settled(j) : i \in DOMAIN Parameters /\ i < k /\ Parameters[i].name # Parameters[k].name
  BY NextSettled
<1>2. Parameters[k].name \notin DOMAIN j.safe
  BY <1>1 DEF Follows
<1>3. /\ \A i \in DOMAIN Parameters : i < k => Number(more, i) = Number(DOMAIN j.safe, i)
      /\ Number(more, k) = Number(DOMAIN j.safe, k - 1) + 1
  BY <1>2, NextNumber
<1>4. h.k - 1 = k
  BY ParametersAreSound DEF Inv
<1>5. /\ DOMAIN h.values = DOMAIN j.values \cup {Parameters[k].name}
      /\ DOMAIN h.safe = more
      /\ h.safe[Parameters[k].name] = SafeUpload(upload)
      /\ \A n \in DOMAIN j.safe : n # Parameters[k].name => h.safe[n] = j.safe[n]
      /\ \A n \in DOMAIN j.values : n # Parameters[k].name => h.values[n] = j.values[n]
  BY DEF With
<1>6. /\ h.uploads \in Seq(Uploads) /\ Len(h.uploads) = last
      /\ DOMAIN h.uploads = DOMAIN j.uploads \cup {last}
      /\ h.uploads[last] = upload
      /\ \A n \in DOMAIN j.uploads : h.uploads[n] = j.uploads[n]
  <2>1. j.uploads \in Seq(Uploads)
    BY DEF Follows
  <2>2. QED
    BY <2>1
<1>7. last = Number(DOMAIN h.safe, k)
  BY <1>3, <1>5 DEF Follows
<1>8. ASSUME NEW i \in Settled(j)
      PROVE  IF IsLocal(i) THEN ShowsUpload(h, i) ELSE ShowsValue(h, i)
  <2>1. IF IsLocal(i) THEN ShowsUpload(j, i) ELSE ShowsValue(j, i)
    BY DEF Follows
  <2>2. Parameters[i].name \in DOMAIN j.safe /\ DOMAIN j.values = DOMAIN j.safe
    BY DEF Follows
  <2>3. /\ h.safe[Parameters[i].name] = j.safe[Parameters[i].name]
        /\ h.values[Parameters[i].name] = j.values[Parameters[i].name]
    BY <1>1, <1>5, <2>2
  <2>4. Number(DOMAIN h.safe, i) = Number(DOMAIN j.safe, i)
    BY <1>1, <1>3, <1>5
  <2>5. QED
    BY <1>6, <2>1, <2>3, <2>4 DEF ShowsUpload, ShowsValue
<1>9. ShowsUpload(h, k)
  BY <1>5, <1>6, <1>7 DEF ShowsUpload
<1>10. \A n \in DOMAIN h.uploads :
         \E i \in Settled(h) : IsLocal(i) /\ n = Number(DOMAIN h.safe, i)
  <2>1. ASSUME NEW n \in DOMAIN j.uploads
        PROVE  \E i \in Settled(j) : IsLocal(i) /\ n = Number(DOMAIN h.safe, i)
    <3>1. PICK i \in Settled(j) : IsLocal(i) /\ n = Number(DOMAIN j.safe, i)
      BY DEF Follows
    <3>2. Number(DOMAIN h.safe, i) = Number(DOMAIN j.safe, i)
      BY <1>1, <1>3, <1>5
    <3>3. QED
      BY <3>1, <3>2
  <2>2. QED
    BY <1>1, <1>6, <1>7, <2>1
<1>11. DOMAIN h.safe = {Parameters[i].name : i \in Settled(h)}
  BY <1>1, <1>5 DEF Follows
<1>12. DOMAIN h.values = DOMAIN h.safe
  BY <1>5 DEF Follows
<1>13. Len(h.uploads) = Number(DOMAIN h.safe, h.k - 1)
  BY <1>4, <1>6, <1>7
<1>14. QED
  BY <1>1, <1>6, <1>8, <1>9, <1>10, <1>11, <1>12, <1>13 DEF Follows

------------------------------------------------------------------------------
\* Of one step of a resolution only its own record changes.
LEMMA OneFollows ==
    ASSUME SafeInv, NEW r \in Resolutions, UNCHANGED <<operation, files, token>>, Inv',
           NEW j, job' = [job EXCEPT ![r] = j],
           j.pc \in {"next", "done"} => Follows(j),
           j.pc = "done" => j.k > Len(Parameters)
    PROVE  SafeInv'
<1>1. \A q : Follows(q)' <=> Follows(q)
  BY DEF Follows, ShowsValue, ShowsUpload, Settled, LeftOut, Number, UploadsUpTo, IsLocal, Parameters
<1>2. Len(Parameters)' = Len(Parameters) /\ DOMAIN job = Resolutions
  BY DEF Parameters, SafeInv, Inv
<1>3. QED
  BY <1>1, <1>2 DEF SafeInv

LEMMA RefuseFollows ==
    ASSUME SafeInv, NEW r \in Resolutions, UNCHANGED <<operation, files, token>>, Refuse(r)
    PROVE  SafeInv'
<1> DEFINE j == [Idle EXCEPT !.pc = "refused"]
<1>1. j.pc = "refused" /\ job' = [job EXCEPT ![r] = j]
  BY DEF Refuse, Idle
<1> HIDE DEF j
<1>2. Inv'
  BY RefuseKeeps DEF SafeInv
<1>3. QED
  BY <1>1, <1>2, OneFollows

LEMMA AbsentFollows ==
    ASSUME SafeInv, NEW r \in Resolutions, NEW source, Turn(r, source),
           source \in {"argument", "protected_file", "environment", "local_file"},
           Argument(r) = Null, Absent(r)
    PROVE  SafeInv'
<1>1. UNCHANGED <<operation, files, token>> /\ job[r].pc = "next" /\ Inv
  BY DEF Turn, SafeInv
<1>2. CASE Current(r).required
  BY <1>1, <1>2, RefuseFollows DEF Absent
<1>3. CASE ~Current(r).required
  <2> DEFINE j == [job[r] EXCEPT !.k = @ + 1]
  <2>1. JobInv(job[r]) /\ Follows(job[r])
    BY <1>1 DEF Inv, SafeInv
  <2>2. /\ j.k = job[r].k + 1 /\ j.pc = job[r].pc /\ j.namespace = job[r].namespace
        /\ j.values = job[r].values /\ j.safe = job[r].safe /\ j.uploads = job[r].uploads
    BY <2>1 DEF JobInv, Idle
  <2>3. job' = [job EXCEPT ![r] = j]
    BY <1>3 DEF Absent
  <2> HIDE DEF j
  <2>4. job[r].k \in DOMAIN Parameters /\ LeftOut(job[r], job[r].k)
    BY <1>1, CurrentIsSound DEF LeftOut, Argument, Turn
  <2>5. Follows(j)
    BY <1>1, <2>1, <2>2, <2>4, SkippedFollows
  <2>6. Inv'
    BY <1>1, AbsentKeeps
  <2>7. QED
    BY <1>1, <2>2, <2>3, <2>5, <2>6, OneFollows
<1>4. QED
  BY <1>2, <1>3

LEMMA TakeFollows ==
    ASSUME SafeInv, NEW r \in Resolutions, NEW source, Turn(r, source), source # "local_file",
           NEW raw \in Text, Take(r, raw),
           \/ source \in {"stdin", "encrypted_profile"}
           \/ Argument(r) # Null /\ (source = "argument" => raw = Argument(r))
    PROVE  SafeInv'
<1>1. UNCHANGED <<operation, files, token>> /\ job[r].pc = "next" /\ Inv
  BY DEF Turn, SafeInv
<1>2. CASE ~Valid(Current(r).validator, raw)
  BY <1>1, <1>2, RefuseFollows DEF Take
<1>3. CASE Valid(Current(r).validator, raw)
  <2> DEFINE q == Current(r)
             text == Normal(q.validator, raw)
             j == [job[r] EXCEPT !.k = @ + 1,
                                 !.values = With(@, q.name, text),
                                 !.safe = With(@, q.name, SafeValue(q, text)),
                                 !.secrets = IF q.secret THEN Append(@, text) ELSE @]
  <2>1. job' = [job EXCEPT ![r] = j]
    BY <1>3 DEF Take
  <2>2. JobInv(job[r]) /\ Follows(job[r])
    BY <1>1 DEF Inv, SafeInv
  <2>3. /\ job[r].k \in DOMAIN Parameters /\ ~LeftOut(job[r], job[r].k) /\ ~IsLocal(job[r].k)
        /\ Parameters[job[r].k].sources[1] = source
    BY <1>1, CurrentIsSound DEF LeftOut, IsLocal, Argument, Turn
  <2>4. Parameters[job[r].k].sources[1] = "argument" =>
           text = Normal(Parameters[job[r].k].validator, job[r].namespace[job[r].k])
    BY <2>3 DEF Argument, Current
  <2> HIDE DEF text
  <2>5. /\ j.k = job[r].k + 1 /\ j.pc = job[r].pc /\ j.namespace = job[r].namespace
        /\ j.values = With(job[r].values, q.name, text)
        /\ j.safe = With(job[r].safe, q.name, SafeValue(q, text))
        /\ j.uploads = job[r].uploads
    BY <2>2 DEF JobInv, Idle
  <2> HIDE DEF j, q
  <2>6. q = Parameters[job[r].k]
    BY DEF q, Current
  <2>7. Follows(j)
    BY <1>1, <2>2, <2>3, <2>4, <2>5, <2>6, ValueFollows
  <2>8. Inv'
    BY <1>1, TakeKeeps
  <2>9. QED
    BY <1>1, <2>1, <2>5, <2>7, <2>8, OneFollows
<1>4. QED
  BY <1>2, <1>3

LEMMA LocalFileFollows ==
    ASSUME SafeInv, NEW r \in Resolutions, FromLocalFile(r)
    PROVE  SafeInv'
<1>1. /\ UNCHANGED <<operation, files, token>> /\ Turn(r, "local_file")
      /\ job[r].pc = "next" /\ Inv
  BY DEF FromLocalFile, Turn, SafeInv
<1> DEFINE path == Argument(r)
           upload == Upload(path, files[path].content)
           j == [job[r] EXCEPT !.k = @ + 1,
                               !.values = With(@, Current(r).name, path),
                               !.uploads = Append(@, upload),
                               !.safe = With(@, Current(r).name, SafeUpload(upload))]
<1>2. CASE path = Null
  BY <1>1, <1>2, AbsentFollows DEF FromLocalFile
<1>3. CASE path # Null /\ (path = Empty \/ files[path] = NoFile \/ path.name \notin UploadNames)
  BY <1>1, <1>3, RefuseFollows DEF FromLocalFile
<1>4. CASE path # Null /\ ~(path = Empty \/ files[path] = NoFile \/ path.name \notin UploadNames)
  <2>1. job' = [job EXCEPT ![r] = j]
    BY <1>4 DEF FromLocalFile
  <2>2. JobInv(job[r]) /\ Follows(job[r])
    BY <1>1 DEF Inv, SafeInv
  <2>3. /\ job[r].k \in DOMAIN Parameters /\ ~LeftOut(job[r], job[r].k) /\ IsLocal(job[r].k)
        /\ path = job[r].namespace[job[r].k]
    BY <1>1, <1>4, CurrentIsSound DEF LeftOut, IsLocal, Argument, Turn
  <2>4. path \in Paths
    BY <1>1, <1>4, CurrentIsSound DEF Suppliable
  <2>5. upload \in Uploads /\ upload.filename = path.name
    <3>1. files[path] \in Contents
      BY <1>1, <1>4, <2>4 DEF Inv
    <3>2. QED
      BY <2>4, <3>1 DEF Upload, Uploads, Contents
  <2> HIDE DEF path, upload
  <2>6. /\ j.k = job[r].k + 1 /\ j.pc = job[r].pc /\ j.namespace = job[r].namespace
        /\ j.values = With(job[r].values, Current(r).name, path)
        /\ j.safe = With(job[r].safe, Current(r).name, SafeUpload(upload))
        /\ j.uploads = Append(job[r].uploads, upload)
    BY <2>2 DEF JobInv, Idle
  <2> HIDE DEF j
  <2>7. Current(r) = Parameters[job[r].k]
    BY DEF Current
  <2>8. Follows(j)
    BY <1>1, <2>2, <2>3, <2>5, <2>6, <2>7, UploadFollows
  <2>9. Inv'
    BY <1>1, LocalFileKeeps
  <2>10. QED
    BY <1>1, <2>1, <2>6, <2>8, <2>9, OneFollows
<1>5. QED
  BY <1>2, <1>3, <1>4

LEMMA SourcesFollow ==
    ASSUME SafeInv, NEW r \in Resolutions,
           \/ FromArgument(r) \/ FromStdin(r) \/ FromProtectedFile(r)
           \/ FromEnvironment(r) \/ FromEncryptedProfile(r)
    PROVE  SafeInv'
<1> USE TextsAreTexts
<1>0. Inv
  BY DEF SafeInv
<1>1. CASE FromArgument(r)
  <2>1. Turn(r, "argument")
    BY <1>1 DEF FromArgument
  <2>2. Argument(r) \in {Null} \cup Texts
    BY <1>0, <2>1, CurrentIsSound DEF Suppliable
  <2>3. QED
    BY <1>1, <2>1, <2>2, AbsentFollows, TakeFollows DEF FromArgument
<1>2. CASE FromStdin(r)
  <2>1. Turn(r, "stdin") /\ UNCHANGED <<operation, files, token>>
    BY <1>2 DEF FromStdin, Turn
  <2>2. job[r].stdin \in Texts \cup {Unreadable}
    BY <1>0, <2>1, CurrentIsSound DEF Supplied
  <2>3. QED
    BY <1>2, <2>1, <2>2, RefuseFollows, TakeFollows DEF FromStdin
<1>3. CASE FromProtectedFile(r)
  <2>1. Turn(r, "protected_file") /\ UNCHANGED <<operation, files, token>>
    BY <1>3 DEF FromProtectedFile, Turn
  <2>2. Argument(r) \in {Null, Empty} \cup Paths
    BY <1>0, <2>1, CurrentIsSound DEF Suppliable
  <2>3. ASSUME Argument(r) \in Paths, files[Argument(r)] # NoFile,
               files[Argument(r)].content # Binary
        PROVE  files[Argument(r)].content \in Text
    BY <1>0, <2>3 DEF Inv, Contents
  <2>4. CASE Argument(r) = Null
    BY <1>3, <2>1, <2>4, AbsentFollows DEF FromProtectedFile
  <2>5. CASE Argument(r) # Null
    BY <1>3, <2>1, <2>2, <2>3, <2>5, RefuseFollows, TakeFollows DEF FromProtectedFile
  <2>6. QED
    BY <2>4, <2>5
<1>4. CASE FromEnvironment(r)
  <2>1. Turn(r, "environment") /\ UNCHANGED <<operation, files, token>>
    BY <1>4 DEF FromEnvironment, Turn
  <2>2. /\ Argument(r) \in {Null, Empty} \cup Variables
        /\ job[r].env \in [Variables -> Texts \cup {Null}]
    BY <1>0, <2>1, CurrentIsSound DEF Suppliable, Supplied
  <2>3. CASE Argument(r) = Null
    BY <1>4, <2>1, <2>3, AbsentFollows DEF FromEnvironment
  <2>4. CASE Argument(r) # Null
    BY <1>4, <2>1, <2>2, <2>4, RefuseFollows, TakeFollows DEF FromEnvironment
  <2>5. QED
    BY <2>3, <2>4
<1>5. CASE FromEncryptedProfile(r)
  <2>1. Turn(r, "encrypted_profile") /\ UNCHANGED <<operation, files, token>>
    BY <1>5 DEF FromEncryptedProfile, Turn
  <2>2. token \in TokenTexts \cup {NoToken}
    BY <1>0 DEF Inv
  <2>3. QED
    BY <1>5, <2>1, <2>2, RefuseFollows, TakeFollows DEF FromEncryptedProfile
<1>6. QED
  BY <1>1, <1>2, <1>3, <1>4, <1>5

\* A resolution that has been through nothing yet has recorded nothing.
LEMMA NothingFollows ==
    ASSUME Inv, NEW j, j.k = 1, j.values = <<>>, j.safe = <<>>, j.uploads = <<>>
    PROVE  Follows(j)
<1>1. DOMAIN Parameters = 1..Len(Parameters) /\ Len(Parameters) \in Nat
  BY ParametersAreSound DEF Inv
<1>2. Settled(j) = {}
  BY <1>1 DEF Settled
<1>3. DOMAIN j.safe = {} /\ DOMAIN j.values = {}
  OBVIOUS
<1>4. UploadsUpTo(DOMAIN j.safe, j.k - 1) = {}
  BY <1>3 DEF UploadsUpTo
<1>5. Number(DOMAIN j.safe, j.k - 1) = 0
  BY <1>4, FS_EmptySet DEF Number
<1>6. j.uploads \in Seq(Uploads) /\ Len(j.uploads) = 0 /\ DOMAIN j.uploads = {}
  OBVIOUS
<1>7. DOMAIN j.safe = {Parameters[i].name : i \in Settled(j)}
  BY <1>2, <1>3
<1>8. QED
  BY <1>2, <1>3, <1>5, <1>6, <1>7 DEF Follows

LEMMA BeginFollows ==
    ASSUME SafeInv, NEW r \in Resolutions, Begin(r)
    PROVE  SafeInv'
<1>1. PICK namespace, stdin, env :
         job' = [job EXCEPT ![r] =
                   [Idle EXCEPT !.pc = IF Resolvable THEN "next" ELSE "refused",
                                !.namespace = namespace, !.stdin = stdin, !.env = env]]
  BY DEF Begin
<1> DEFINE j == [Idle EXCEPT !.pc = IF Resolvable THEN "next" ELSE "refused",
                             !.namespace = namespace, !.stdin = stdin, !.env = env]
<1>2. /\ j.k = 1 /\ j.values = <<>> /\ j.safe = <<>> /\ j.uploads = <<>>
      /\ j.pc = (IF Resolvable THEN "next" ELSE "refused")
  BY DEF Idle
<1>3. UNCHANGED <<operation, files, token>> /\ job' = [job EXCEPT ![r] = j] /\ Inv
  BY <1>1 DEF Begin, SafeInv
<1> HIDE DEF j
<1>4. Follows(j)
  BY <1>2, <1>3, NothingFollows
<1>5. Inv'
  BY <1>3, BeginKeeps
<1>6. QED
  BY <1>2, <1>3, <1>4, <1>5, OneFollows

LEMMA FinishFollows ==
    ASSUME SafeInv, NEW r \in Resolutions, Finish(r)
    PROVE  SafeInv'
<1> DEFINE j == [job[r] EXCEPT !.pc = "done"]
<1>1. Inv /\ JobInv(job[r]) /\ Follows(job[r])
  BY DEF SafeInv, Inv, Finish
<1>2. /\ j.k = job[r].k /\ j.pc = "done" /\ j.namespace = job[r].namespace
      /\ j.values = job[r].values /\ j.safe = job[r].safe /\ j.uploads = job[r].uploads
  BY <1>1 DEF JobInv, Idle
<1>3. UNCHANGED <<operation, files, token>> /\ job' = [job EXCEPT ![r] = j] /\ j.k > Len(Parameters)
  BY <1>2 DEF Finish
<1> HIDE DEF j
<1>4. Follows(j)
  <2>1. /\ Settled(j) = Settled(job[r])
        /\ \A i : /\ ShowsValue(j, i) <=> ShowsValue(job[r], i)
                  /\ ShowsUpload(j, i) <=> ShowsUpload(job[r], i)
    BY <1>2 DEF ShowsValue, ShowsUpload, Settled, LeftOut
  <2>2. QED
    BY <1>1, <1>2, <2>1 DEF Follows
<1>5. Inv'
  BY <1>1, FinishKeeps
<1>6. QED
  BY <1>3, <1>4, <1>5, OneFollows

LEMMA InitSafe == Init => SafeInv
BY InitInv DEF Init, SafeInv, Idle

LEMMA NextSafe == SafeInv /\ [Next]_vars => SafeInv'
<1> SUFFICES ASSUME SafeInv, [Next]_vars PROVE SafeInv'
  OBVIOUS
<1>1. ASSUME UNCHANGED <<operation, job>> PROVE SafeInv'
  <2>1. \A j : Follows(j)' <=> Follows(j)
    BY <1>1 DEF Follows, ShowsValue, ShowsUpload, Settled, LeftOut, Number, UploadsUpTo, IsLocal,
       Parameters
  <2>2. Len(Parameters)' = Len(Parameters)
    BY <1>1 DEF Parameters
  <2>3. Inv'
    BY NextInv DEF SafeInv
  <2>4. QED
    BY <1>1, <2>1, <2>2, <2>3 DEF SafeInv
<1>2. CASE EditFile \/ ReplaceProfile \/ UNCHANGED vars
  BY <1>1, <1>2 DEF EditFile, ReplaceProfile, vars
<1>3. ASSUME NEW r \in Resolutions, Begin(r) \/ Step(r) PROVE SafeInv'
  BY <1>3, BeginFollows, SourcesFollow, LocalFileFollows, FinishFollows DEF Step
<1>4. QED
  BY <1>2, <1>3 DEF Next

------------------------------------------------------------------------------
(* What two resolutions have in common.                                     *)

\* A finished resolution has been through every parameter.
LEMMA DoneIsSettled ==
    ASSUME SafeInv, NEW r \in Resolutions, job[r].pc = "done"
    PROVE  /\ Follows(job[r])
           /\ Settled(job[r]) = {i \in DOMAIN Parameters : ~LeftOut(job[r], i)}
           /\ Len(job[r].uploads) = Number(DOMAIN job[r].safe, Len(Parameters))
<1>1. DOMAIN Parameters = 1..Len(Parameters) /\ Len(Parameters) \in Nat
  BY ParametersAreSound DEF SafeInv, Inv
<1>2. Follows(job[r]) /\ job[r].k > Len(Parameters) /\ job[r].k \in Nat
  BY DEF SafeInv, Inv, JobInv
<1>3. \A names : UploadsUpTo(names, job[r].k - 1) = UploadsUpTo(names, Len(Parameters))
  BY <1>1, <1>2 DEF UploadsUpTo
<1>4. \A i \in DOMAIN Parameters : i < job[r].k
  BY <1>1, <1>2
<1>5. Settled(job[r]) = {i \in DOMAIN Parameters : ~LeftOut(job[r], i)}
  BY <1>4 DEF Settled
<1>6. Len(job[r].uploads) = Number(DOMAIN job[r].safe, Len(Parameters))
  BY <1>2, <1>3 DEF Follows, Number
<1>7. QED
  BY <1>2, <1>5, <1>6

LEMMA NamedIsTheParameter ==
    ASSUME Inv, NEW i \in DOMAIN Parameters
    PROVE  Named(Parameters[i].name) = Parameters[i]
BY ParametersAreSound DEF Inv, Named

\* The uploads are told by the safe values.
LEMMA SameUploads ==
    ASSUME SafeInv, NEW r \in Resolutions, NEW q \in Resolutions,
           job[r].pc = "done", job[q].pc = "done", job[r].safe = job[q].safe
    PROVE  job[r].uploads = job[q].uploads
<1>1. /\ Follows(job[r]) /\ Follows(job[q])
      /\ Len(job[r].uploads) = Len(job[q].uploads)
  BY DoneIsSettled
<1>2. job[r].uploads \in Seq(Uploads) /\ job[q].uploads \in Seq(Uploads)
  BY <1>1 DEF Follows
<1>3. ASSUME NEW n \in DOMAIN job[r].uploads
      PROVE  job[r].uploads[n] = job[q].uploads[n]
  <2>1. PICK i \in Settled(job[r]) : IsLocal(i) /\ n = Number(DOMAIN job[r].safe, i)
    BY <1>1 DEF Follows
  <2>2. Parameters[i].name \in DOMAIN job[q].safe
    BY <1>1, <2>1 DEF Follows
  <2>3. PICK h \in Settled(job[q]) : Parameters[h].name = Parameters[i].name
    BY <1>1, <2>2 DEF Follows
  <2>4. h = i
    BY <2>1, <2>3, ParametersAreSound DEF Settled, SafeInv, Inv
  <2>5. ShowsUpload(job[r], i) /\ ShowsUpload(job[q], i)
    BY <1>1, <2>1, <2>3, <2>4 DEF Follows
  <2>6. SafeUpload(job[r].uploads[n]) = SafeUpload(job[q].uploads[n]) /\ n \in DOMAIN job[q].uploads
    BY <2>1, <2>5 DEF ShowsUpload
  <2>7. job[r].uploads[n] \in Uploads /\ job[q].uploads[n] \in Uploads
    BY <1>2, <2>6
  <2>8. QED
    BY <2>6, <2>7 DEF SafeUpload, Uploads
<1>4. DOMAIN job[r].uploads = DOMAIN job[q].uploads
  BY <1>1, <1>2
<1>5. /\ job[r].uploads = [n \in DOMAIN job[r].uploads |-> job[r].uploads[n]]
      /\ job[q].uploads = [n \in DOMAIN job[q].uploads |-> job[q].uploads[n]]
  BY <1>2
<1>6. QED
  BY <1>3, <1>4, <1>5

\* Two resolutions that show the same send the same: a protected value is shown by
\* its fingerprint and any other value by itself, so the safe values tell them all.
THEOREM SameShownSameSent == Spec => []SameSafeValuesSameCall
<1>1. SafeInv => SameSafeValuesSameCall
  <2> SUFFICES ASSUME SafeInv, NEW r \in Resolutions, NEW q \in Resolutions,
                      job[r].pc = "done", job[q].pc = "done", job[r].safe = job[q].safe
               PROVE  Sent(r) = Sent(q)
    BY DEF SameSafeValuesSameCall
  <2> DEFINE names == {m \in DOMAIN job[r].values : Named(m).sources[1] # "local_file"}
  <2>1. Inv /\ Follows(job[r]) /\ Follows(job[q])
    BY DoneIsSettled DEF SafeInv
  <2>2. DOMAIN job[r].values = DOMAIN job[q].values
    BY <2>1 DEF Follows
  <2>3. ASSUME NEW n \in names PROVE job[r].values[n] = job[q].values[n]
    <3>1. PICK i \in Settled(job[r]) : n = Parameters[i].name
      BY <2>1 DEF Follows
    <3>2. PICK h \in Settled(job[q]) : n = Parameters[h].name
      BY <2>1, <2>2 DEF Follows
    <3>3. i \in DOMAIN Parameters /\ h = i
      BY <2>1, <3>1, <3>2, ParametersAreSound DEF Settled, Inv
    <3>4. ~IsLocal(i)
      BY <2>1, <3>1, <3>3, NamedIsTheParameter DEF IsLocal
    <3>5. ShowsValue(job[r], i) /\ ShowsValue(job[q], i)
      BY <2>1, <3>1, <3>2, <3>3, <3>4 DEF Follows
    <3>6. SafeValue(Parameters[i], job[r].values[n]) = SafeValue(Parameters[i], job[q].values[n])
      BY <3>1, <3>5 DEF ShowsValue
    <3>7. QED
      BY <3>6 DEF SafeValue, Fingerprint
  <2>4. job[r].uploads = job[q].uploads
    BY SameUploads
  <2> HIDE DEF names
  <2>5. [n \in names |-> job[r].values[n]] = [n \in names |-> job[q].values[n]]
    BY <2>3
  <2>6. QED
    BY <2>2, <2>4, <2>5 DEF Sent, names
<1>2. QED
  BY <1>1, InitSafe, NextSafe, PTL DEF Spec

LEMMA SourcesAreKnown ==
    ASSUME Inv, Resolvable, NEW i \in DOMAIN Parameters
    PROVE  Parameters[i].sources[1] \in ProtectedSources \cup {"argument", "local_file"}
<1>1. Parameters[i] \in PolicyParameters
  BY ParametersAreSound DEF Inv
<1>2. Parameters[i].sources \in Seq(ProtectedSources \cup {"argument", "local_file"})
  BY <1>1 DEF PolicyParameters
<1>3. Len(Parameters[i].sources) = 1
  BY DEF Resolvable
<1>4. QED
  BY <1>2, <1>3

\* What a safe value says is determined by the arguments.
LEMMA ReadableIsGiven ==
    ASSUME SafeInv, NEW r \in Resolutions, job[r].pc = "done",
           NEW i \in DOMAIN Parameters, ~LeftOut(job[r], i)
    PROVE  Readable(r)[Parameters[i].name] =
              IF IsLocal(i) THEN [name |-> job[r].namespace[i].name, sha256 |-> Null]
              ELSE IF Protected(Parameters[i]) THEN Null
              ELSE LET text == Normal(Parameters[i].validator, job[r].namespace[i])
                   IN  IF text \in Texts THEN text ELSE Null
<1> DEFINE q == Parameters[i]
           safe == job[r].safe[q.name]
<1>1. Inv /\ Follows(job[r]) /\ i \in Settled(job[r])
  BY DoneIsSettled DEF SafeInv
<1>2. q.name \in DOMAIN job[r].safe
  BY <1>1 DEF Follows
<1>3. Readable(r)[q.name] = IF IsLocal(i) THEN [safe EXCEPT !.sha256 = Null]
                            ELSE IF safe \in Texts THEN safe ELSE Null
  BY <1>1, <1>2, NamedIsTheParameter DEF Readable, IsLocal
<1>4. CASE IsLocal(i)
  <2>1. ShowsUpload(job[r], i)
    BY <1>1, <1>4 DEF Follows
  <2>2. PICK upload : safe = SafeUpload(upload) /\ upload.filename = job[r].namespace[i].name
    BY <2>1 DEF ShowsUpload
  <2>3. [safe EXCEPT !.sha256 = Null] = [name |-> upload.filename, sha256 |-> Null]
    BY <2>2 DEF SafeUpload
  <2>4. QED
    BY <1>3, <1>4, <2>2, <2>3
<1>5. CASE ~IsLocal(i) /\ Protected(q)
  <2>1. ShowsValue(job[r], i)
    BY <1>1, <1>5 DEF Follows
  <2>2. safe = Fingerprint(job[r].values[q.name])
    BY <1>5, <2>1 DEF ShowsValue, SafeValue
  <2>3. safe \notin Texts
    <3>1. DOMAIN safe = {"sha256"}
      BY <2>2 DEF Fingerprint
    <3>2. \A text \in Text : DOMAIN text = {"body", "eol"}
      BY DEF Text
    <3>3. QED
      BY <3>1, <3>2, TextsAreTexts
  <2>4. QED
    BY <1>3, <1>5, <2>3
<1>6. CASE ~IsLocal(i) /\ ~Protected(q)
  <2>1. ShowsValue(job[r], i)
    BY <1>1, <1>6 DEF Follows
  <2>2. q.sources[1] = "argument"
    BY <1>1, <1>6, SourcesAreKnown DEF IsLocal, Protected, SafeInv, Inv, JobInv, Supplied
  <2>3. safe = Normal(q.validator, job[r].namespace[i])
    BY <1>6, <2>1, <2>2 DEF ShowsValue, SafeValue
  <2>4. QED
    BY <1>3, <1>6, <2>3
<1>7. QED
  BY <1>4, <1>5, <1>6

\* What can be read in the safe values follows from the arguments: nothing that came
\* from a file, standard input, the environment or the profile shows in them.
THEOREM SafeValuesAreDiscreet == Spec => []SafeValuesDiscloseNothing
<1>1. SafeInv => SafeValuesDiscloseNothing
  <2> SUFFICES ASSUME SafeInv, NEW r \in Resolutions, NEW q \in Resolutions,
                      job[r].pc = "done", job[q].pc = "done",
                      job[r].namespace = job[q].namespace
               PROVE  Readable(r) = Readable(q)
    BY DEF SafeValuesDiscloseNothing
  <2>1. \A i : LeftOut(job[r], i) <=> LeftOut(job[q], i)
    BY DEF LeftOut
  <2>2. /\ Settled(job[r]) = {i \in DOMAIN Parameters : ~LeftOut(job[r], i)}
        /\ Settled(job[q]) = {i \in DOMAIN Parameters : ~LeftOut(job[q], i)}
        /\ Follows(job[r]) /\ Follows(job[q])
    BY DoneIsSettled
  <2>3. DOMAIN job[r].safe = {Parameters[i].name : i \in Settled(job[r])}
    BY <2>2 DEF Follows
  <2>4. DOMAIN job[q].safe = DOMAIN job[r].safe
    BY <2>1, <2>2 DEF Follows
  <2>5. ASSUME NEW n \in DOMAIN job[r].safe PROVE Readable(r)[n] = Readable(q)[n]
    <3>1. PICK i \in Settled(job[r]) : n = Parameters[i].name
      BY <2>3
    <3>2. i \in DOMAIN Parameters /\ ~LeftOut(job[r], i) /\ ~LeftOut(job[q], i)
      BY <2>1, <2>2
    <3>3. QED
      BY <3>1, <3>2, ReadableIsGiven
  <2>6. /\ Readable(r) = [n \in DOMAIN job[r].safe |-> Readable(r)[n]]
        /\ Readable(q) = [n \in DOMAIN job[q].safe |-> Readable(q)[n]]
    BY DEF Readable
  <2>7. QED
    BY <2>4, <2>5, <2>6
<1>2. QED
  BY <1>1, InitSafe, NextSafe, PTL DEF Spec
==============================================================================
