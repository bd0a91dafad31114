\* One account and two passwords: wrong and changed passwords, reconnections.
SPECIFICATION Spec
CONSTANTS
  Phones = {p}
  Passwords = {a, b}
  NoText = NoText
  MaxFlight = 1
  MaxBreaks = 2
PROPERTIES
  RelogsIn
\* With no request under way nothing need happen.
CHECK_DEADLOCK FALSE
