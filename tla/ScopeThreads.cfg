\* A cancelled call leaves a thread behind.
CONSTANTS
  t1 = t1
  t2 = t2
  t3 = t3
  l1 = l1
  blog = blog
  shop = shop
  NoProject = NoProject
  Tasks <- ThreeTasks
  Loops <- OneLoop
  loop <- OnOneLoop
  Projects <- TwoProjects
  MayCancel = TRUE
  MayNest = FALSE
  MaxDepth = 2
  MaxCalls = 2
SPECIFICATION Spec
INVARIANTS
  ThreadsKeepTheirCode
CHECK_DEADLOCK FALSE
