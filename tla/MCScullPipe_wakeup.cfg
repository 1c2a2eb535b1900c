CONSTANTS
  p1 = p1
  p2 = p2
  p3 = p3
  Procs = {p1, p2, p3}
  Byte = {0}
  Sizes = {2}
  Counts = {1}
  Modes <- ReadOrWrite
  Flags = {FALSE}
SYMMETRY Symm
SPECIFICATION Spec
INVARIANTS
  NoLostReaderWakeup
  NoLostWriterWakeup
