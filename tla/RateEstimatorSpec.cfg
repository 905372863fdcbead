SPECIFICATION Spec
CONSTANTS
  Window = 3
  MaxTime = 8
  MaxEvents = 6
INVARIANTS
  TypeOK
  NeverOverCounts
  SpanWithinWindow
  ExactWithinFirstWindow
PROPERTY AcceptMovesForward
