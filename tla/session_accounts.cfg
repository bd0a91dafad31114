\* Two accounts with one password each: logins, logouts, changes of the phone.
SPECIFICATION Spec
CONSTANTS
  Phones = {p, q}
  Passwords = {a}
  NoText = NoText
  MaxFlight = 2
  MaxBreaks = 1
SYMMETRY AccountSymmetry
INVARIANTS
  NeverMistaken
  RememberedWereAccepted
  AppMeansLoggedIn
PROPERTIES
  LogoutIsFinal
\* With no request under way nothing need happen.
CHECK_DEADLOCK FALSE
