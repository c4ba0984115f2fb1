\* Two rows of one column, one layer, and three addresses for two buffers.
CONSTANTS
  Row = {r1, r2}
  Col = {1}
  Layer = {menu}
  Buffer = {b1, b2, b3}
  Size = {portrait, landscape}
  NoCell = NoCell
  NoBuffer = NoBuffer
  NoSize = NoSize
SYMMETRY MCSymmetry
SPECIFICATION Spec
INVARIANTS
  TypeOK
  GateIsHonest
PROPERTIES
  FrameIsWhole
