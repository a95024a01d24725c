SPECIFICATION Spec
CONSTANTS
  s1 = s1  s2 = s2  g1 = g1  g2 = g2  b1 = b1  b2 = b2
  k1 = k1  k2 = k2  m1 = m1  m2 = m2
  None = None  Broken = Broken
  Sessions <- TwoSessions
  Gens <- TwoGens
  Docs <- OneDoc
  Src <- SourceDoc
  Blocks <- TwoBlocks
  Rests = {"plain", "legacy", "bad"}
  Configs <- OneConfig
  Current <- OneExcluded
  Manifests <- TwoManifests
  Managed <- FirstManaged
  Selected = {TRUE, FALSE}
  Commands = {"preview", "write", "migrate", "recover", "interrupted", "migrate-interrupted"}
  MaxCommands = 3
  MaxEdits = 1
  MaxAuths = 1
  MaxCrashes = 1
CHECK_DEADLOCK FALSE
SYMMETRY Symmetry
CONSTRAINT Explored
INVARIANTS
  AppliedAsApproved
  ReportsTruly
PROPERTIES
  PublishedCurrent
  KeepsTheRest
