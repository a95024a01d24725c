SPECIFICATION Spec
CONSTANTS
  None = None  Null = Null  Unused = Unused  Broken = Broken
  x1 = x1  x2 = x2  s1 = s1  g1 = g1  g2 = g2  b1 = b1  b2 = b2
  k1 = k1  k2 = k2  m1 = m1  m2 = m2
CHECK_DEADLOCK FALSE
INVARIANTS
  PacketIsTrue
  CyclesAgree
  AnswerIsExact
  ReadyIsVerified
  LineageIsTrue
  GuardProvesFree
  PayloadIsWhole
  CallIsBounded
  PagesReconstruct
  SelectionIsExact
  DeltaIsComplete
PROPERTIES
  AuthorityHolds
  RecoveriesHold
  EvidenceIsExact
