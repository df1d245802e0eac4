\* One event loop, calls raise or are cancelled anywhere.
CONSTANTS
  t1 = t1
  t2 = t2
  t3 = t3
  l1 = l1
  blog = blog
  shop = shop
  NoProject = NoProject
  Tasks <- ThreeTasks
  Loops <- OneLoop
  loop <- OnOneLoop
  Projects <- TwoProjects
  MayCancel = TRUE
  MayNest = FALSE
  MaxDepth = 2
  MaxCalls = 5
SPECIFICATION FairSpec
INVARIANTS
  TypeOK
  CallsKeepTheirCode
  ActiveIsCounted
PROPERTIES
  CallsAreAdmitted
CHECK_DEADLOCK FALSE
