---------------------------- MODULE Confirmation ----------------------------
(***************************************************************************)
(* ConfirmationService of src/cpanel_admin/confirmation.py: plans and      *)
(* their digests.  The service keeps no state; what it accepts is decided  *)
(* by the key, the payload and the clock alone.                            *)
(*                                                                         *)
(* A digest is an HMAC under a key derived from the Fernet key.  It is the *)
(* record of what it signs: two digests are equal exactly when key and     *)
(* payload are.  (The code keeps 48 bits of the HMAC; a collision is not   *)
(* modelled.)                                                              *)
(***************************************************************************)
EXTENDS Naturals

CONSTANTS
    Lifetime,   \* how long a plan can be confirmed: timedelta(minutes=5)
    NoDigest,   \* --confirm not given
    NoTime      \* --expires-at not given

ASSUME LifetimeAssumption == Lifetime \in Nat

\* The canonical payload under the key: every argument is bound, expiry included.
Sign(key, profile, operation, parameters, expires) ==
    [key |-> key, profile |-> profile, operation |-> operation,
     parameters |-> parameters, expires |-> expires]

Plan(key, profile, operation, parameters, now) ==
    [expires |-> now + Lifetime,
     digest |-> Sign(key, profile, operation, parameters, now + Lifetime)]

\* Mutant of Verify: the digest does not bind the expiry.
VerifyUnboundExpiry(key, confirm, profile, operation, parameters, expires, now) ==
    /\ confirm # NoDigest /\ expires # NoTime
    /\ now <= expires
    /\ confirm = Sign(key, profile, operation, parameters, confirm.expires)

\* Mutant of Verify: the clock is not looked at.
VerifyUntimed(key, confirm, profile, operation, parameters, expires, now) ==
    /\ confirm # NoDigest /\ expires # NoTime
    /\ confirm = Sign(key, profile, operation, parameters, expires)

\* A plan can still be confirmed at the very instant it expires.
Verify(key, confirm, profile, operation, parameters, expires, now) ==
    /\ confirm # NoDigest /\ expires # NoTime
    /\ now <= expires
    /\ confirm = Sign(key, profile, operation, parameters, expires)

==============================================================================
