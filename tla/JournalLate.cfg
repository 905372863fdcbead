SPECIFICATION Spec
CONSTANTS
  ssh = ssh
  web = web
  Units = {ssh, web}
  UnitOf <- Distinct
  Capacity = 1
  Faults = {}
  MaxEntries = 1
  MaxRotations = 0
INVARIANT AllUnitsMatched
CHECK_DEADLOCK FALSE
