CONSTANTS
  p1 = p1
  p2 = p2
  Procs = {p1}
  Byte = {0, 1}
  Quanta = {0, 1, 2}
  Qsets = {1, 2}
  Counts = {2}
  MaxPos = 2
  Modes <- AllModes
SPECIFICATION Spec
INVARIANTS
  NoOverrun
PROPERTIES
  FileSpec
CHECK_DEADLOCK FALSE
