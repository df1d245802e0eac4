\* Two gathered tasks enter blocks of their own before anything is written.
CONSTANTS
  t1 = t1
  t2 = t2
  main = main
  other = other
  Task = t1
  Tasks <- TwoTasks
  Roots <- OneTask
  Aliases <- OneAlias
  MaxFrames = 3
  MaxWrites = 0
  MaxCallbacks = 0
  MaxRequests = 3
  MayCancel = FALSE
  MayOutlive = FALSE
SPECIFICATION Spec
INVARIANT NestedBlocksAreEntered
CHECK_DEADLOCK FALSE
