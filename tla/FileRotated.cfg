SPECIFICATION FairSpec
CONSTANTS
  MaxWritten = 2
  MaxChanges = 2
  Changes = {"rename", "create"}
PROPERTY MoveStopsMonitoring
CHECK_DEADLOCK FALSE
