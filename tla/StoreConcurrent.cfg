SPECIFICATION Spec
CONSTANTS
  p1 = p1  p2 = p2  g1 = g1  g2 = g2
  c1 = c1  c2 = c2  s1 = s1  v1 = v1  v2 = v2  None = None
  Absent = Absent  Unguarded = Unguarded
  NoProc = NoProc  NoGen = NoGen  NoStamp = NoStamp  Author = Author
  Procs <- TwoProcs
  Gens <- TwoGens
  Paths <- TwoPaths
  Contents <- OneContent
  Stamps <- OneStamp
  Auths <- OneAuth
  Selected <- Direct
  Commands <- WriteAndCompleted
  EditAnytime = FALSE
  ResolveFirst = FALSE
  MaxCrashes = 0
  MaxFaults = 0
  MaxEdits = 1
  MaxAuths = 0
SYMMETRY Symmetry
INVARIANTS
  EvidenceInductive
PROPERTY ImplementsDocumentStore
