CONSTANTS
  Keys = {k1, k2}
  Contents = {x}
  Sockets = {s1, s2, s3}
  NoSocket = NoSocket
  MaxQueue = 1
  MaxStarts = 2
  MaxFaults = 1
  MaxUpdates = 1
SPECIFICATION Spec
INVARIANTS TypeOK OneLifecycleUnlessEarly RunsIffStarted PendingIsAnswered SubscribedOnce Attribution
PROPERTIES StartSettles EventuallySubscribed
CHECK_DEADLOCK FALSE
