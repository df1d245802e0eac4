\* Two tasks on one transaction, cancelled anywhere, outliving the block they
\* were created inside.
CONSTANTS
  t1 = t1
  t2 = t2
  main = main
  other = other
  Task = t1
  Tasks <- TwoTasks
  Roots <- OneTask
  Aliases <- OneAlias
  MaxFrames = 3
  MaxWrites = 2
  MaxCallbacks = 2
  MaxRequests = 4
  MayCancel = TRUE
  MayOutlive = TRUE
SPECIFICATION FairSpec
INVARIANTS
  DurableOnlyThroughCommit
  CommitInv
  CallbacksFollowCommit
  CallbacksInOrder
PROPERTIES
  CommitIsWhole
  OperationsReturn
CHECK_DEADLOCK FALSE
