SPECIFICATION Spec
CONSTANTS
  p1 = p1  p2 = p2  g1 = g1  g2 = g2
  c1 = c1  c2 = c2  c3 = c3  s1 = s1  s2 = s2  v1 = v1  v2 = v2
  Absent = Absent  Unguarded = Unguarded
  NoProc = NoProc  NoGen = NoGen  NoStamp = NoStamp  Author = Author
  Procs <- OneProc
  Gens <- TwoGens
  Paths <- OnePath
  Contents <- TwoContents
  Stamps <- OneStamp
  Auths <- OneAuth
  Selected <- Direct
  Commands <- WriteAndCompleted
  EditAnytime = FALSE
  ResolveFirst = FALSE
  MaxCrashes = 0
  MaxFaults = 0
  MaxEdits = 0
  MaxAuths = 0
PROPERTY UndoesVerifiedWriteOnly
