SPECIFICATION Spec
CONSTANTS
  s1 = s1
  s2 = s2
  r1 = r1
  r2 = r2
  a1 = a1
  a2 = a2
  ip1 = ip1
  ip2 = ip2
  NoIP = NoIP
  Sources = {s1}
  Rules = {r1}
  Actions = {a1}
  IPs = {ip1}
  Whitelist = {}
  RulesOf <- OneRule
  Window <- Only1
  MaxAttempts <- Only1
  BanDuration <- Only2
  BanAction <- OnlyA1
  Unbannable = {a1}
  TicksPerSecond = 1
  BatchSize = 3
  Faults = {}
  MaxTime = 4
  MaxDelay = 0
  MaxEntries = 2
  MaxRestarts = 0
INVARIANT BlockedUntilExpiry
