SPECIFICATION FairSpec
CONSTANTS
  ssh = ssh
  web = web
  Units = {ssh, web}
  UnitOf <- Repeated
  Capacity = 1
  Faults = {"unreadable", "reader"}
  MaxEntries = 2
  MaxRotations = 1
INVARIANTS
  TypeOK
  AloneStays
  NothingElseLost
PROPERTIES
  ImplementsUnitFeed
  EntriesMove
CHECK_DEADLOCK FALSE
