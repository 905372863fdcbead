SPECIFICATION FairSpec
CONSTANTS
  c1 = c1
  c2 = c2
  c3 = c3
  NoCaller = NoCaller
  Callers = {c1, c2, c3}
INVARIANTS
  TypeOK
  InitOnce
  ScriptAfterInit
PROPERTIES
  ImplementsContract
  CallsReturn
