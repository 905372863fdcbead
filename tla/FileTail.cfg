SPECIFICATION FairSpec
CONSTANTS
  MaxWritten = 4
  MaxChanges = 3
  Changes = {"truncate", "rename", "unlink", "create", "touch", "read_error"}
INVARIANTS
  TypeOK
  NoGap
PROPERTIES
  ImplementsLogTail
  NoLostWakeup
  RotationNoticed
CHECK_DEADLOCK FALSE
