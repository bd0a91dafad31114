------------------------------ MODULE MCMembers -----------------------------
(* An instance of Members for TLC. *)
EXTENDS Members

CONSTANT u1

AllTexts == {"invited", "added", "deleted", "refused", "connected", "failed", "info"}

\* A text that finds the user, and one that finds nobody.
FindOrNot == {{u1}, {}}
=============================================================================
