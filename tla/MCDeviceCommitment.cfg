\* All backends; CUDA gets a new key after a cancelled job.
CONSTANTS
  g1 = g1
  g2 = g2
  Backends <- AllBackends
  RepeatAfterCancel <- AllButCuda
  Groups <- TwoGroups
  MaxJobs = 3
  MaxWrites = 5
SPECIFICATION Spec
SYMMETRY GroupSymmetry
INVARIANTS TypeOK ScansCanBeProven
PROPERTY WitnessOfTheScan
\* The program may end when the last job has.
CHECK_DEADLOCK FALSE
