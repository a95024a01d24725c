SPECIFICATION FairSpec
CONSTANTS
  a = a  c = c  k1 = k1  k2 = k2  w1 = w1  r1 = r1
  Missing = Missing  Manifest = Manifest
  NoGen = NoGen  BadPointer = BadPointer
  Docs <- OneDoc
  Contents <- TwoContents
  Faulty <- SecondFaulty
  Configs <- TwoConfigs
  Writers <- OneWriter
  Readers <- OneReader
  Kinds <- LiveOnly
  Keep = 2
  MaxEdits = 2
  MaxConfigs = 1
  MaxCrashes = 1
  MaxFaults = 1
  MaxDamage = 1
  MaxEvents = 3
INVARIANTS
  PointerSelectsIntact
  FallbackHasCause
PROPERTIES
  RetentionKeepsWindow
  ReadsAreServed
