\* One user, who is found or not, two messages under way, one break.
SPECIFICATION Spec
CONSTANTS
  u1 = u1
  Users = {u1}
  Blank = Blank
  Login = Login
  Connected = Connected
  Failed = Failed
  Searches <- FindOrNot
  Texts <- AllTexts
  NoText = "none"
  MaxFlight = 2
  MaxPosts = 1
  MaxBreaks = 1
INVARIANTS
  TypeOK
  MembersSettle
PROPERTIES
  DiesOnlyUnfilled
  AnswersAreTold
\* The user may stop, and a dead app does.
CHECK_DEADLOCK FALSE
