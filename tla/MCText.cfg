CONSTANTS
  Notes <- MCNotes
  MaxChars = 40
  Ages = {65, 3700}
  MaxDups = 1
  NoText = NoText
SPECIFICATION Spec
CHECK_DEADLOCK FALSE
INVARIANT
  OneLinePerAddress
PROPERTIES
  FormatReadOnce
  ShownAsMeant
