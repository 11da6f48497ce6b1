CONSTANTS
  Kinds <- KindsReplace
  Sort = "urgency_descending"
  OriginBottom = FALSE
  MaxId = 4
  Stamps <- Zero
  Tags <- MCTags
  Contents <- MCContents
  Ptr = {p1, p2, p3}
  Freed = Freed
  HistoryLength = 2
  StickyHistory = FALSE
  StackDuplicates = TRUE
  NotificationLimit = 2
  IndicateHidden = TRUE
  IgnoreDbusClose = FALSE
  ShowAge = FALSE
  MouseActions <- NoClicks
  Fullscreens <- No
  Idles <- No
  MouseOvers <- None
  PauseLevels <- None
  ClientIds = "open"
SYMMETRY Symmetry
SPECIFICATION Spec
INVARIANTS
  NothingLost
  TypeOK
  QueueOwnership
PROPERTIES
  ClientPromise
