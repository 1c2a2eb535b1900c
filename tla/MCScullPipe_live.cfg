CONSTANTS
  p1 = p1
  p2 = p2
  p3 = p3
  Procs = {p1, p2}
  Byte = {0}
  Sizes = {2}
  Counts = {1}
  Modes <- ReadOrWrite
  Flags = {FALSE, TRUE}
SPECIFICATION FairSpec
PROPERTIES
  SemReleased
  SleepersWoken
