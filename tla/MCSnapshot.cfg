CONSTANTS
  Keys <- MCKeys
  Pools <- MCPools
  IsPump <- MCIsPump
  Contents <- MCContents
  Start <- MCStart
  Requests <- MCRequests
  GlobalKeys <- MCGlobalKeys
  Absent = Absent
  BatchLimit = 5
  MaxChanges = 2
SPECIFICATION Spec
INVARIANTS SnapshotIsHonest
CHECK_DEADLOCK FALSE
