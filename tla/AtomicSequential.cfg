\* One task, blocks on two databases: what the docstrings promise.
CONSTANTS
  t1 = t1
  t2 = t2
  main = main
  other = other
  Task = t1
  Tasks <- OneTask
  Roots <- OneTask
  Aliases <- TwoAliases
  MaxFrames = 3
  MaxWrites = 2
  MaxCallbacks = 2
  MaxRequests = 7
  MayCancel = FALSE
  MayOutlive = FALSE
SPECIFICATION Spec
PROPERTY AtomicImplementsTransactions
CHECK_DEADLOCK FALSE
