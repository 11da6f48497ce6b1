CONSTANTS
  Kinds <- KindsModes
  Sort = "update"
  OriginBottom = FALSE
  MaxId = 4
  Stamps <- UpTo2
  Tags <- MCTags
  Contents <- MCContents
  Ptr = {p1, p2, p3}
  Freed = Freed
  HistoryLength = 1
  StickyHistory = FALSE
  StackDuplicates = TRUE
  NotificationLimit = 2
  IndicateHidden = TRUE
  IgnoreDbusClose = FALSE
  ShowAge = FALSE
  MouseActions <- NoClicks
  Fullscreens <- Booleans
  Idles <- No
  MouseOvers <- None
  PauseLevels <- Levels
  ClientIds = "none"
SYMMETRY Symmetry
SPECIFICATION Spec
INVARIANTS
  RestingDisplay
  WorkConserving
  MostRecentOnTop
