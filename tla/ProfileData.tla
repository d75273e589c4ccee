----------------------------- MODULE ProfileData -----------------------------
(***************************************************************************)
(* The contents of the profile store of src/cpanel_admin/profiles.py: a    *)
(* map from profile names to profiles.  A missing file and one with no     *)
(* profiles load as the same empty map.                                    *)
(***************************************************************************)
CONSTANTS
    Names,      \* profile names
    Accounts,   \* what host, user name and API token together designate
    Keys,       \* Fernet keys
    NoProfile

\* A stored profile: the account it designates, and the key that its token is
\* encrypted under.
Profiles == [account : Accounts, key : Keys]
Images == [Names -> Profiles \cup {NoProfile}]
EmptyStore == [n \in Names |-> NoProfile]

ASSUME ProfileAssumption == NoProfile \notin Profiles

Present(image) == {n \in Names : image[n] # NoProfile}
UnderKey(image, k) == \A n \in Present(image) : image[n].key = k

\* ProfileStore.add: the entry of one name is written, the rest kept.
WithProfile(image, n, a, k) == [image EXCEPT ![n] = [account |-> a, key |-> k]]

\* Mutant of Rekeyed: the loop ends after the first profile.
RekeyedFirstOnly(image, k) ==
    LET first == CHOOSE n \in Present(image) : TRUE
    IN  [n \in Names |-> IF image[n] = NoProfile \/ n # first THEN image[n]
                                                 ELSE [account |-> image[n].account, key |-> k]]

\* Mutant of Rekeyed: tokens and names are paired in different orders.
RekeyedMispaired(image, k) ==
    LET first == CHOOSE n \in Present(image) : TRUE
    IN  [n \in Names |-> IF image[n] = NoProfile THEN NoProfile
                         ELSE [account |-> image[first].account, key |-> k]]

\* ProfileStore.rotate: each token is re-encrypted in place, the rest kept.
Rekeyed(image, k) ==
    [n \in Names |-> IF image[n] = NoProfile THEN NoProfile
                                             ELSE [account |-> image[n].account, key |-> k]]
==============================================================================
