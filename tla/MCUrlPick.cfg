\* Three letters label three URLs with one letter each and more with two; a
\* screen has up to five URLs, the table holds four.
CONSTANTS
  Rows = 5
  Cols = 4
  Screen <- MCScreen
  Alphabet <- MCAlphabet
  OpenKey = "o"
  CopyKey = "c"
  QrKey = "q"
  Escape = "esc"
  OtherKey = "other"
  NoneDown = NoneDown
  MaxMatches = 4
  MaxUrlLen = 8
  MaxQrLen = 5
  MaxPresses = 4
SPECIFICATION PickSpec
INVARIANTS
  PickTypeOK
  EveryUrlSelectable
  ActsOnShownUrl
  PickerForgets
