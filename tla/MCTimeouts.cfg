CONSTANTS
  Kinds <- KindsTimeouts
  Sort = "update"
  OriginBottom = TRUE
  MaxId = 4
  Stamps <- Apart
  Tags <- MCTags
  Contents <- MCContents
  Ptr = {p1, p2, p3}
  Freed = Freed
  HistoryLength = 1
  StickyHistory = FALSE
  StackDuplicates = FALSE
  NotificationLimit = 1
  IndicateHidden = FALSE
  IgnoreDbusClose = FALSE
  ShowAge = FALSE
  MouseActions <- NoClicks
  Fullscreens <- No
  Idles <- Booleans
  MouseOvers <- Booleans
  PauseLevels <- None
  ClientIds = "none"
SPECIFICATION FairSpec
INVARIANTS
  NoLostTimeout
PROPERTIES
  UpdateTerminates
  DueLeaves
