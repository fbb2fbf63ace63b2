SPECIFICATION Spec
CONSTANTS
  r1 = r1
  r2 = r2
  t1 = t1
  t2 = t2
  Runs = {r1, r2}
  Threads = {t1, t2}
  ThreadOf <- Parallel
  Failures = {"kthread_create", "copy_to_user"}
  StdioSets <- AllOpen
  OtherNotifiers = 0
SYMMETRY RunSymmetry
INVARIANTS
  NxOwned
  NotifierEnabled
PROPERTIES
  NxHeld
