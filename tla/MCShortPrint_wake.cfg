CONSTANTS
  p1 = p1
  p2 = p2
  Procs = {p1}
  PAGE_SIZE = 4
  Numbers = 5
  Counts = {3}
  Ack = {FALSE}
SPECIFICATION Spec
INVARIANTS
  AwakenedBySpace
