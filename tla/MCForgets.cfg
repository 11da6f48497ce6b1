CONSTANTS
  Unset = Unset
  Invalid = Invalid
  NoNumber = NoNumber
  Colours <- MCColours
  Arguments <- MCArguments
  Disks <- MCDisks
  Messages <- MCMessages
  Paths <- MCPaths
  PauseWords <- MCPauseWords
  Switched = {"mail", "urgency_critical", "loud", "nobody"}
  MaxNotes = 1
  MaxReloads = 2
SPECIFICATION ServiceSpec
CHECK_DEADLOCK FALSE
PROPERTY
  ReloadForgets
