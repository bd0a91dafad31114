-------------------------- MODULE MCLockDirectory ---------------------------
(* An instance of LockDirectory for TLC. *)
EXTENDS LockDirectory, TLC

CONSTANTS l1, l2, l3, blank, c1, c2, none, word

\* Two records of one device: the user's own and one of another.
TwoDevices == l1 :> c1 @@ l2 :> c2 @@ l3 :> c1

\* Both arrays; locks that are gone or moved to the other array.
TwoLists == {[owner |-> <<l1, l2>>, other |-> <<l3>>],
             [owner |-> <<l2>>, other |-> <<l1>>]}

\* The word finds the second lock of either array.
OneWord == none :> {l1, l2, l3, blank} @@ word :> {l2, l3}

TwoFrames == {<<c1>>, <<c2, c1>>}
=============================================================================
