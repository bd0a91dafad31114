\* Three users of two departments, four lists, nothing lost or refused.
SPECIFICATION Spec
CONSTANTS
  u1 = u1
  u2 = u2
  u3 = u3
  sales = sales
  labour = labour
  unnamed = unnamed
  Blank = Blank
  Users = {u1, u2, u3}
  Department <- TwoDepartments
  Lists <- FourLists
  Fits = 2
  MaxFlight = 1
  MaxTrouble = 0
INVARIANTS
  DiesOnlyIfMoved
PROPERTIES
  OkAuthorisesTheMarked
\* The user may stop, and a dead app does.
CHECK_DEADLOCK FALSE
