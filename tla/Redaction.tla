------------------------------ MODULE Redaction ------------------------------
(***************************************************************************)
(* redact of src/cpanel_admin/redaction.py, and the two lists of secrets   *)
(* that it is given: by the runner for a result (_submitted_secrets of     *)
(* cli.py) and by the transport for an error (_request_secrets of          *)
(* transport.py).                                                          *)
(*                                                                         *)
(* A secret is a sequence of characters.  A text that redaction works on   *)
(* is a sequence of characters that each know where they are from: they    *)
(* were said, or are part of a marker that replaced something.  The code   *)
(* cannot tell them apart, and no comparison here looks at it: a secret    *)
(* may share characters with the marker and be found in it.                *)
(* A JSON value is a function from the paths to its texts, a path being    *)
(* the keys and indices on the way; other scalars are returned as they are *)
(* and left out.  Keys are compared without case and are all lower case    *)
(* here.                                                                   *)
(***************************************************************************)
EXTENDS Naturals, Sequences, FiniteSets

CONSTANT REDACTED   \* the characters of the marker

SENSITIVE_KEYS ==
    {"token", "api_token", "password", "private_key", "key", "cert", "certificate",
     "cabundle", "authorization", "encrypted_token", "fernet_key"}

SENSITIVE_PARAMETER_NAMES ==
    {"api_token", "cabundle", "cert", "certificate", "content", "key", "password",
     "private_key", "token"}

From(characters, origin) == [i \in DOMAIN characters |-> [char |-> characters[i], origin |-> origin]]

Said(characters) == From(characters, "said")
Marker == From(REDACTED, "marker")

OccursAt(secret, text, i) ==
    /\ i + Len(secret) <= Len(text) + 1
    /\ \A j \in 1..Len(secret) : text[i + j - 1].char = secret[j]

\* An occurrence that is no work of a marker: every character of it was said.
SaidAt(secret, text, i) ==
    /\ OccursAt(secret, text, i)
    /\ \A j \in 1..Len(secret) : text[i + j - 1].origin = "said"

Told(secret, text) == \E i \in 1..Len(text) : SaidAt(secret, text, i)

\* str.replace: from left to right, without overlaps.
Replaced(text, secret) ==
    LET from[i \in 1..(Len(text) + 1)] ==
            IF i > Len(text) THEN <<>>
            ELSE IF OccursAt(secret, text, i) THEN Marker \o from[i + Len(secret)]
            ELSE <<text[i]>> \o from[i + 1]
    IN  from[1]

\* One secret after the other, in the order they are given.
RedactString(text, secrets) ==
    LET after[k \in 0..Len(secrets)] ==
            IF k = 0 THEN text
            ELSE IF secrets[k] = <<>> THEN after[k - 1]
            ELSE Replaced(after[k - 1], secrets[k])
    IN  after[Len(secrets)]

\* A whole value under a sensitive key becomes one marker.
Hidden(path) == \E i \in DOMAIN path : path[i] \in SENSITIVE_KEYS
Shown(path) ==
    IF ~Hidden(path) THEN path
    ELSE SubSeq(path, 1, CHOOSE i \in DOMAIN path :
                            path[i] \in SENSITIVE_KEYS
                            /\ \A j \in 1..(i - 1) : path[j] \notin SENSITIVE_KEYS)

Redact(value, secrets) ==
    [shown \in {Shown(path) : path \in DOMAIN value} |->
        IF Hidden(shown) THEN Marker ELSE RedactString(value[shown], secrets)]

------------------------------------------------------------------------------
(* Secrets of a call.  An operation's parameters are a sequence; the values *)
(* are a function from the names of those that were given.                  *)

SecretKinds == {"secret", "content", "certificate", "private_key"}

\* By parameter; where there is no secret stands an empty text, which is skipped.
Given(parameters, values, Test(_)) ==
    [i \in DOMAIN parameters |->
        IF parameters[i].name \in DOMAIN values /\ Test(parameters[i])
        THEN values[parameters[i].name] ELSE <<>>]

SubmittedSecrets(parameters, values) ==
    LET secret(p) == p.kind \in SecretKinds IN Given(parameters, values, secret)

\* Mutant of RequestSecrets: the other list of names is looked up.
RequestSecretsByKey(parameters, values) ==
    LET sensitive(p) == p.uapi_name \in SENSITIVE_KEYS
    IN  Given(parameters, values, sensitive)

\* By the names under which to_uapi sends them.
RequestSecrets(parameters, values) ==
    LET sensitive(p) == p.uapi_name \in SENSITIVE_PARAMETER_NAMES
    IN  Given(parameters, values, sensitive)

==============================================================================
