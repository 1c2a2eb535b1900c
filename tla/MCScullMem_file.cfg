CONSTANTS
  p1 = p1
  p2 = p2
  Procs = {p1, p2}
  Byte = {0, 1}
  Quanta = {1}
  Qsets = {2}
  Counts = {1}
  MaxPos = 2
  Modes <- WriteModes
SPECIFICATION Spec
PROPERTIES
  FileSpec
  ReadAllocatesNothing
