CONSTANTS
  p1 = p1
  p2 = p2
  p3 = p3
  p4 = p4
  alice = alice
  bob = bob
  root = root
  Procs = {p1, p3, p4}
  Users = {alice, bob, root}
  uid <- RealUid
  euid <- EffUid
  Capable = {p4}
  Waits = TRUE
SPECIFICATION FairSpec
INVARIANTS
  HoldersBelong
  NoLostWakeup
  TypeOK
PROPERTIES
  WaiterWoken
