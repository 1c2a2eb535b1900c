CONSTANTS
  p1 = p1
  p2 = p2
  p3 = p3
  Procs = {p1, p2}
  Byte = {0}
  Sizes = {2, 3}
  Counts = {2}
  Modes <- AnyMode
  Flags = {FALSE}
SYMMETRY Symm
SPECIFICATION Spec
INVARIANTS
  TypeOK
  MutualExclusion
  
  BufferLifetime
