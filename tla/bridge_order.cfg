\* One callback thread: order, the refinement of Delivery and liveness.
SPECIFICATION Spec
CONSTANTS
  t1 = t1
  t2 = t2
  Threads <- OneCallbackThread
  MaxRequests = 1
  MaxVersion = 2
  MaxBacklog = 2
INVARIANTS
  AnsweredOnce
PROPERTIES
  CacheNeverRegresses
  InOrderDelivery
  PushIsShown
\* The server may stop sending and the user may stop acting.
CHECK_DEADLOCK FALSE
