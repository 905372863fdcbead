SPECIFICATION Spec
CONSTANTS
  line = line
  addr = addr
  n1 = n1
  n2 = n2
  a1 = a1
  a2 = a2
  NoText = NoText
  NoName = NoName
  Texts = {line, addr}
  Addresses = {addr}
  Configs <- AllConfigs
INVARIANTS
  TypeOK
  ReadyForEngine
  OwnRule
  MatchesChain
CHECK_DEADLOCK FALSE
