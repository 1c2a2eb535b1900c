CONSTANTS
  Procs = {"proc"}
  Mappers = {}
  Drivers = {"p"}
  Quanta = {2}
  Qset = 1
  MaxPos = 2
SPECIFICATION Spec
INVARIANT UpToTheEnd
