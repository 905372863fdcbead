SPECIFICATION Spec
CONSTANTS
  s1 = s1
  s2 = s2
  r1 = r1
  r2 = r2
  a1 = a1
  a2 = a2
  ip1 = ip1
  ip2 = ip2
  NoIP = NoIP
  Sources = {s1}
  Rules = {r1, r2}
  Actions = {a1, a2}
  IPs = {ip1, ip2}
  Whitelist = {ip2}
  RulesOf <- TwoRules
  Window <- Ones
  MaxAttempts <- TwoOne
  BanDuration <- Twos
  BanAction <- OwnAction
  Unbannable = {a1}
  TicksPerSecond = 2
  BatchSize = 1
  Faults = {"ban", "insert", "fetch", "mark", "unban", "crash", "reconfigure"}
  MaxTime = 4
  MaxDelay = 1
  MaxEntries = 2
  MaxRestarts = 1
INVARIANTS
  BanNeedsAttempts
  CleanerHoldsExpired
  BlockedUntilFirstExpiry
PROPERTIES
  RowsOnlyExpire
  ImplementsBanLedger
