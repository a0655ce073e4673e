\* CUDA, the pool sends the cancelled job again with its key.
CONSTANTS
  g1 = g1
  g2 = g2
  Backends <- OnlyCuda
  RepeatAfterCancel <- OnlyCuda
  Groups <- TwoGroups
  MaxJobs = 2
  MaxWrites = 3
SPECIFICATION Spec
INVARIANT OnlyOneGroupChanged
CHECK_DEADLOCK FALSE
