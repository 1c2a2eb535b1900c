CONSTANTS
  p1 = p1
  p2 = p2
  p3 = p3
  p4 = p4
  f1 = f1
  f2 = f2
  s1 = s1
  s2 = s2
  s3 = s3
  Null = Null
  Procs = {p1, p2, p3, p4}
  Files = {f1, f2}
  Skels = {s1, s2, s3}
  Callers = {p1, p2}
  Mappers = {p1}
  Quanta = {1, 2}
  Qset = 1
  MaxPos = 1
  Readers = {p1, p2}
  PageSize = 6
  NrTv = 2
  MaxIrq = 3
  MaxStudied = 3
  MaxCount = 3
  Users = {p1, p2, p3}
  Cap = 2
  MaxSent = 3
  Openers = {p1, p2, p3}
  Ports = {s1, s2}
  Disks = {p1, p2}
  Sectors = 3
  Lines = 2
  Ttys = {s1, s2}
CONSTRAINTS
  NotSpoilt
  FewLate
SPECIFICATION SumSpec
INVARIANTS
  OneHolder
  AvailableWhenFree
  UsbLifetimes
  BlocksWithin
  
  ModsBalanced
  ModsReady
  ShortWoken
  ShortInOrder
  StudiesKept
  FifosHold
  TtyTimer
  DiskSound
  DeferredSafe
  PrivHolds
