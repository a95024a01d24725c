SPECIFICATION Spec
CONSTANTS
  None = None
  Docs <- OneDoc
  Versions <- TwoTitles
  Extends <- NavigationOnly
  Queries <- Delta
CHECK_DEADLOCK FALSE
INVARIANT NavigationCarriesTitles
