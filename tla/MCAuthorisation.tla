-------------------------- MODULE MCAuthorisation ---------------------------
(* Instances of Authorisation for TLC. *)
EXTENDS Authorisation, TLC

CONSTANTS u1, u2, u3, sales, labour, unnamed

OneDepartment == u1 :> sales @@ u2 :> sales @@ Blank :> unnamed
TwoDepartments == u1 :> sales @@ u2 :> sales @@ u3 :> labour
                  @@ Blank :> unnamed

\* A user goes and another takes its place in the list.
TwoLists == {<<u1, u2>>, <<u2>>}

\* A section loses a row, two rows change places, a section goes, all go.
FourLists == {<<u1, u3, u2>>, <<u3, u2>>, <<u2, u1>>, <<>>}
=============================================================================
