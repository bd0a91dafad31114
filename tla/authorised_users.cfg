\* Two users of one department, two lists, one cell on the screen.
SPECIFICATION Spec
CONSTANTS
  u1 = u1
  u2 = u2
  u3 = u3
  sales = sales
  labour = labour
  unnamed = unnamed
  Blank = Blank
  Users = {u1, u2}
  Department <- OneDepartment
  Lists <- TwoLists
  Fits = 1
  MaxFlight = 2
  MaxTrouble = 1
INVARIANTS
  MembersAgree
\* The user may stop, and a dead app does.
CHECK_DEADLOCK FALSE
