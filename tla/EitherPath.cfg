SPECIFICATION Spec
CONSTANTS
  None = None
  Docs <- FourDocs
  Sections <- OneAnchor
  Metadata <- ByID
  Legacy <- ByPath
  Links <- SameTargetTwice
  Modes = {"strict", "resolve-with-warning"}
CHECK_DEADLOCK FALSE
INVARIANT EitherPathAgrees
