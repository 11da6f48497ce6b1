CONSTANTS
  Kinds <- MCKinds
  Sort = "urgency_descending"
  OriginBottom = FALSE
  MaxId = 3
  Stamps <- Zero
  Tags <- MCTags
  Contents <- MCContents
  Ptr = {p1, p2}
  Freed = Freed
  HistoryLength = 1
  StickyHistory = FALSE
  StackDuplicates = FALSE
  NotificationLimit = 1
  IndicateHidden = FALSE
  IgnoreDbusClose = TRUE
  ShowAge = FALSE
  MouseActions <- MCClicks
  Fullscreens <- No
  Idles <- No
  MouseOvers <- Nobody
  PauseLevels <- Nobody
  ClientIds = "open"
  Slots = {s1, s2}
  MaxRefs = 3
  ThreadStarts <- Yes
SYMMETRY Symmetry
SPECIFICATION MenuSpec
INVARIANTS
  
  ReferencesBalance
PROPERTIES
  LockHolds
  InvokedIsOpen
