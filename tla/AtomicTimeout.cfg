\* An inner block left by CancelledError, as under asyncio.timeout().
CONSTANTS
  t1 = t1
  t2 = t2
  main = main
  other = other
  Task = t1
  Tasks <- OneTask
  Roots <- OneTask
  Aliases <- OneAlias
  MaxFrames = 2
  MaxWrites = 1
  MaxCallbacks = 1
  MaxRequests = 4
  MayCancel = TRUE
  MayOutlive = FALSE
SPECIFICATION Spec
INVARIANT FailedBlocksLeaveNothing
CHECK_DEADLOCK FALSE
