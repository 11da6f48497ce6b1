CONSTANTS
  NoIcon = NoIcon
  NoWindow = NoWindow
  MaxCards = 2
  UnsignedRange = 4096
  ClickedRows = {1, 16}
  Settings <- MCSettings
  Disks <- MCDisks
  Screens <- MCScreens
  Requests <- MCRequests
SPECIFICATION LayoutSpec
INVARIANTS
  NoThemeWithinItself
  FoundInPromisedOrder
  ClickMeansCardShown
  CardsFillWindow
  ContentFits
PROPERTY
  LoadingEnds
