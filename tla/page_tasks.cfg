\* The tasks that have to end: two requests, two scans, one boot.
SPECIFICATION MCSpec
CONSTANTS
  Requests = {r1, r2}
  MaxFailures = 2
  MaxChunks = 2
  MinKeyframes = 2
  MaxKeyframes = 3
  Stride = 2
  MaxViews = 5
  MaxScans = 2
INVARIANTS
  PreviewIsOfThisScan
PROPERTIES
  ImplementsPromises
  CancelledFallsSilent
  RequestsSettle
  SolveComesToAnEnd
  BootEnds
CHECK_DEADLOCK FALSE
