CONSTANTS
  m1 = m1
  m2 = m2
  Monitors = {m1, m2}
  Nowhere = Nowhere
  UserSettings <- MCUserSettings
  Layouts <- MCLayouts
  Dpis = {96}
  Shortcuts <- Keys
  Rivals <- NoneOrBoth
  MaxEvents = 2
  MaxChanges = 3
SPECIFICATION X11FairSpec
INVARIANTS
  GrabsMatchWindow
  NoBlankWindow

  
