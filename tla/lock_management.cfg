\* One lock, two offline times, two passwords.
SPECIFICATION Spec
CONSTANTS
  Times <- TwoTimes
  Passwords = {a, b}
  NoText = NoText
  NoLock = NoLock
  MaxFlight = 2
  MaxFrames = 1
  MaxTrouble = 1
SYMMETRY PasswordSymmetry
INVARIANTS
  OfflineTimeAgrees
  PasswordAgrees
PROPERTIES
  AnswersCloseTheirScreen
  LogoffKnowsPassword
  ScanKeepsRegistration
\* The user may stop and nothing be under way.
CHECK_DEADLOCK FALSE
