SPECIFICATION CachesSpec
CONSTANTS
  a = a  b = b  c = c  w1 = w1  r1 = r1  k1 = k1  k2 = k2  x1 = x1  x2 = x2  y1 = y1
  Absent = Absent  Nothing = Nothing  Unreadable = Unreadable
  Missing = Missing  Manifest = Manifest  NoGen = NoGen  BadPointer = BadPointer
  Sources <- TwoSources
  Contents = {a, b, c}
  Unfit = {c}
  Manifests <- TwoManifests
  Writers = {w1}
  Readers = {r1}
  Keep = 2
  MaxEdits = 2
  MaxManifests = 1
  MaxCrashes = 1
  MaxDamage = 1
  MaxEvents = 2
INVARIANTS
  ServedIsTrue
  WriteYieldsCurrent
  PointerSelectsComplete
PROPERTIES
  AnswersAreFresh
  BuildIsSnapshot
SYMMETRY Symmetry
