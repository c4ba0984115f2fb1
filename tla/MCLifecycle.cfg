\* Every end a start-up may come to, and runs of any length whose reloads meet
\* any of the files. Exited stutters: no deadlock.
CONSTANTS
  Trigger = {"a", "b", "c"}
  DefaultKeys <- MCDefaultKeys
  DefaultChords <- MCDefaultChords
  DefaultMenu <- MCDefaultMenu
  DefaultExempt <- MCDefaultExempt
  DefaultColor <- MCDefaultColor
  DefaultBox <- MCDefaultBox
  NaN = NaN
  Unbind = Unbind
  Bad <- MCBad
  Absent = Absent
  File <- MCFile
  NoFile = NoFile
SPECIFICATION FairSpec
INVARIANTS
  TypeOK
  TeardownOrder
  PointersLive
  ConfigIsWhole
PROPERTY AsksAreHeard
