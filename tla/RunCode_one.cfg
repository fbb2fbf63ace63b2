SPECIFICATION FairSpec
CONSTANTS
  r1 = r1
  r2 = r2
  t1 = t1
  t2 = t2
  Runs = {r1}
  Threads = {t1}
  ThreadOf <- OneRun
  Failures <- AllFailures
  StdioSets <- AnyOpen
  OtherNotifiers = 0
INVARIANTS
  TypeOK
  FrameSafe
  RunnerNeverCancelled
  TaskPinned
  ResultTrue
  RefsBalanced
  Protocol
PROPERTIES
  ServesRuns
  ForcedTermination
  EndNoticed
  FilesClosed
