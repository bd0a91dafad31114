----------------------------- MODULE MCSession -----------------------------
(* Instances of Session for TLC. *)
EXTENDS Session, TLC

\* Accounts are interchangeable; sound for the safety runs only.
AccountSymmetry == Permutations(Phones)
=============================================================================
