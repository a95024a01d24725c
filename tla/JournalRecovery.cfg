SPECIFICATION Spec
CONSTANTS
  p1 = p1  p2 = p2  g1 = g1  g2 = g2
  c1 = c1  c2 = c2  c3 = c3  s1 = s1  s2 = s2  v1 = v1  v2 = v2
  Absent = Absent  Unguarded = Unguarded
  NoProc = NoProc  NoGen = NoGen  NoStamp = NoStamp  Author = Author
  Procs <- OneProc
  Gens <- OneGen
  Paths <- TwoPaths
  Contents <- TwoContents
  Stamps <- TwoStamps
  Auths <- TwoAuths
  Selected <- SelectedOnly
  Commands <- AllCommands
  EditAnytime = FALSE
  ResolveFirst = FALSE
  MaxCrashes = 2
  MaxFaults = 1
  MaxEdits = 1
  MaxAuths = 1
SYMMETRY Symmetry
INVARIANTS
  TypeOK
  EvidenceMatchesSource
  OneRecoveryRoute
PROPERTIES
  ReplayFenced
  EvidenceImmutable
  NothingLost
  AuthorityBinding
  RecoveryAllOrNothing
