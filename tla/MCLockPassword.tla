--------------------------- MODULE MCLockPassword ---------------------------
(* Instances of LockPassword for TLC. *)
EXTENDS LockPassword, TLC

CONSTANTS a, b, c

At(t, p) == [start |-> t, password |-> p]

\* No list, lists too short to have a slot, slots of one and several seconds, an
\* empty slot, a list out of order, and one with times that cannot be read.
SomeLists ==
  {<<>>, <<At(0, a)>>, <<At(0, a), At(4, b)>>, <<At(2, a), At(4, b), At(9, c)>>,
   <<At(0, a), At(4, b), At(4, c), At(8, a)>>, <<At(6, a), At(2, b), At(4, c)>>,
   <<At(0, a), At(Unreadable, b), At(3, c), At(Unreadable, a)>>}

PhoneClocks == {-3, 0, 3}
=============================================================================
