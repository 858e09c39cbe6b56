CONSTANTS
  Keys = {k1, k2}
  Contents = {x}
  Sockets = {s1, s2, s3}
  NoSocket = NoSocket
  MaxQueue = 1
  MaxStarts = 2
  MaxFaults = 1
  MaxUpdates = 1
SPECIFICATION GapSpec
INVARIANT GapCoversResubscription
CHECK_DEADLOCK FALSE
