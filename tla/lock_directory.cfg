\* Three locks of two devices, two lists, one word, two codes in a frame.
SPECIFICATION Spec
CONSTANTS
  l1 = l1
  l2 = l2
  l3 = l3
  blank = blank
  c1 = c1
  c2 = c2
  none = none
  word = word
  Locks = {l1, l2, l3}
  Blank = blank
  Device <- TwoDevices
  Lists <- TwoLists
  Texts = {none, word}
  NoText = none
  Matching <- OneWord
  Frames <- TwoFrames
  MaxPosts = 2
  MaxFrames = 2
INVARIANTS
  TypeOK
  ListFollows
  OneAbove
PROPERTIES
  TapOpensTheDrawn
  TapOpensCurrent
  ScanShowsTheLock
\* The user may stop, and a dead app does.
CHECK_DEADLOCK FALSE
