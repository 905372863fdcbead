SPECIFICATION Spec
CONSTANTS
  s1 = s1
  s2 = s2
  r1 = r1
  r2 = r2
  a1 = a1
  a2 = a2
  ip1 = ip1
  ip2 = ip2
  NoIP = NoIP
  Sources = {s1, s2}
  Rules = {r1, r2}
  Actions = {a1}
  IPs = {ip1}
  Whitelist = {}
  RulesOf <- OneRuleEach
  Window <- Ones
  MaxAttempts <- TwoOne
  BanDuration <- Ones
  BanAction <- SharedAction
  Unbannable = {a1}
  TicksPerSecond = 1
  BatchSize = 2
  Faults = {"fetch", "mark", "unban"}
  MaxTime = 3
  MaxDelay = 1
  MaxEntries = 3
  MaxRestarts = 0
INVARIANTS
  TypeOK
  NoOrphanBlock
PROPERTY EvictOnlyStale
