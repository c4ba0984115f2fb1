\* The same files: what a start-up makes of one that fails.
CONSTANTS
  Trigger = {"a", "b", "c"}
  DefaultKeys <- MCDefaultKeys
  DefaultChords <- MCDefaultChords
  DefaultMenu <- MCDefaultMenu
  DefaultExempt <- MCDefaultExempt
  DefaultColor <- MCDefaultColor
  DefaultBox <- MCDefaultBox
  NaN = NaN
  Unbind = Unbind
  Bad <- MCBad
  Absent = Absent
  File <- MCFile
  NoFile = NoFile
SPECIFICATION Spec
INVARIANT StartFallsBack
