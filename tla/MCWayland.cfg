CONSTANTS
  o1 = o1
  o2 = o2
  s1 = s1
  Outputs = {o1, o2}
  NoOutput = NoOutput
  Windows = {w1}
  Seats = {s1}
  UserSettings <- MCUserSettings
  Contents <- Two
  Compositors <- MCCompositors
  CloseWaits = TRUE
  Stubborn <- OnlyNone
  MaxDepth = 2
  MaxTimers = 2
  MaxChanges = 1
SPECIFICATION WaylandFairSpec
INVARIANTS
  
  TimerArmed
PROPERTY
  ScreenCatchesUp
