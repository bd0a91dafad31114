\* Two callback threads: what does not rest on the order of delivery.
SPECIFICATION Spec
CONSTANTS
  t1 = t1
  t2 = t2
  Threads <- TwoCallbackThreads
  MaxRequests = 1
  MaxVersion = 1
  MaxBacklog = 1
INVARIANTS
  WaitingIffQueued
  NoMissedRefresh
PROPERTIES
  ThreadsReturn
  AnswerIsServed
\* The server may stop sending and the user may stop acting.
CHECK_DEADLOCK FALSE
