CONSTANTS
  p1 = p1
  p2 = p2
  Procs = {p1}
  PAGE_SIZE = 3
  Numbers = 4
  Counts = {1, 2}
  Ack = {TRUE, FALSE}
SPECIFICATION FairSpec
INVARIANTS
  InOrder
  NeverStalls
  SleepsWhileFull
PROPERTIES
  NeverStrobesBusy
  EveryBytePrinted
