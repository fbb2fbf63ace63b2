SPECIFICATION Spec
CONSTANTS
  r1 = r1
  r2 = r2
  t1 = t1
  t2 = t2
  Runs = {r1}
  Threads = {t1}
  ThreadOf <- OneRun
  Failures <- NoFailures
  StdioSets <- AllOpen
  OtherNotifiers = 0
INVARIANTS
  FpuRestored
