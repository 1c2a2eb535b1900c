CONSTANTS
  p1 = p1
  p2 = p2
  p3 = p3
  Procs = {p1, p2}
  Byte = {0, 1}
  Sizes = {3}
  Counts = {1, 2}
  Modes <- ReadOrWrite
  Flags = {FALSE}
SPECIFICATION Spec
PROPERTY FifoSpec
