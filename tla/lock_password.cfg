\* Two ticks to a second, a phone behind, right and ahead.
SPECIFICATION Spec
CONSTANTS
  a = a
  b = b
  c = c
  Locks = {l}
  Passwords = {a, b, c}
  NoPassword = NoPassword
  Unreadable = Unreadable
  Lists <- SomeLists
  Second = 2
  MaxLatency = 2
  Skews <- PhoneClocks
  MaxTime = 10
INVARIANTS
  ReckonedTimeLags
PROPERTIES
  OpensWithValidPassword
  OpensBeforeTheEnd
  OpensWhenCovered
