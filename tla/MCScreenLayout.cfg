SPECIFICATION Spec
CONSTANTS
  Tab = {t1, t2, t3}
  Screen <- MCScreen
  MinFontSize = 1
  MaxFontSize = 2
  DefaultFontSize = 2
  LineHeight <- MCLineHeight
  CellWidth <- MCCellWidth
  KeyboardHeight = {4, 6}
  MenuHeight = {3}
  MaxVkbEvents = 2
CHECK_DEADLOCK FALSE
SYMMETRY MCSymmetry
INVARIANTS TypeOK GridsAgree
PROPERTY KeyboardKeepsClear
