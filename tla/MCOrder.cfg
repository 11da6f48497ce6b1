CONSTANTS
  Kinds <- KindsOrder
  Sort = "urgency_descending"
  OriginBottom = FALSE
  MaxId = 5
  Stamps <- Zero
  Tags <- MCTags
  Contents <- MCContents
  Ptr = {p1, p2, p3, p4}
  Freed = Freed
  HistoryLength = 2
  StickyHistory = TRUE
  StackDuplicates = FALSE
  NotificationLimit = 2
  IndicateHidden = TRUE
  IgnoreDbusClose = TRUE
  ShowAge = FALSE
  MouseActions <- Clicks
  Fullscreens <- No
  Idles <- No
  MouseOvers <- None
  PauseLevels <- None
  ClientIds = "none"
SYMMETRY Symmetry
SPECIFICATION Spec
INVARIANTS
  ShownAreMostImportant
  QueuesSorted
  DisplayLimit
  HistorySound
  AdvertisedLengths
  NoStaleMark
PROPERTIES
  RemovedIsGone
