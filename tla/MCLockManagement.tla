-------------------------- MODULE MCLockManagement --------------------------
(* Instances of LockManagement for TLC. *)
EXTENDS LockManagement, TLC

TwoTimes == <<5, 10>>

\* Passwords are interchangeable.
PasswordSymmetry == Permutations(Passwords)
=============================================================================
