\* Three texts, three views.
SPECIFICATION Spec
CONSTANTS
  Texts = {"a", "b", "c"}
  NoText = "none"
  MaxViews = 3
INVARIANTS
  OneAtATime
PROPERTIES
  BannersInOrder
\* Nothing need be shown.
CHECK_DEADLOCK FALSE
