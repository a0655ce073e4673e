\* The Hexagon attempt in both modes.
CONSTANTS
  ScanModes <- BothModes
  Launches = 4
  PerPanel = 2
  SegLaunches = 2
  MaxMarked = 2
  MaxAttempts = 2
SPECIFICATION FairSpec
INVARIANTS TypeOK CheckedInPlace ResultIsRight DspIdleBetweenAttempts
PROPERTY AttemptReturns
