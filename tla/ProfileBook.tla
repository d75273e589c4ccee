----------------------------- MODULE ProfileBook -----------------------------
(***************************************************************************)
(* What the profile store promises to one caller at a time: a map from     *)
(* profile names to profiles that changes in whole, indivisible commands.  *)
(*                                                                         *)
(*   book    the profiles, by name                                         *)
(*   past    the states of the book a power loss may bring back: a rename  *)
(*           is visible at once, but reaches the disk later                *)
(*                                                                         *)
(* ProfileStore implements this when commands do not overlap; the runs of  *)
(* ProfileStore show where it stops doing so when they do.                 *)
(***************************************************************************)
EXTENDS ProfileData

VARIABLES book, past

Init == /\ book = EmptyStore
        /\ past = {EmptyStore}

Become(b) == /\ book' = b
             /\ past' = past \cup {b}

\* profiles add: an existing profile is modified only with --replace.
Add(n, a, k, replace) ==
    /\ n \in Present(book) => replace
    /\ Become(WithProfile(book, n, a, k))

Remove(n) == /\ n \in Present(book)
             /\ Become([book EXCEPT ![n] = NoProfile])

\* profiles rotate-key: every token or none.
Rotate(k, new) == /\ UnderKey(book, k)
                  /\ Become(Rekeyed(book, new))

PowerLoss == /\ book' \in past
             /\ past' = {book'}

Next == \/ \E n \in Names, a \in Accounts, k \in Keys, r \in BOOLEAN : Add(n, a, k, r)
        \/ \E n \in Names : Remove(n)
        \/ \E k, new \in Keys : Rotate(k, new)
        \/ PowerLoss

Spec == Init /\ [][Next]_<<book, past>>
==============================================================================
