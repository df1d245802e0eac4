CONSTANTS
  Part = {"upserts", "deletes", "features", "squashes", "detections"}
  Tasks = {t1, t2, t3}
  NoTask = NoTask
  Dialects = {"postgresql", "mysql", "sqlite"}
  MaxCalls = 3
  A = A
  B = B
  C = C
  a1 = a1
  a2 = a2
  b1 = b1
  c1 = c1
  Null = Null
  blog = blog
  notes = notes
  NoFeature = NoFeature
  post = post
  comment = comment
  note = note
  import = import
  blogTests = blogTests
  allTests = allTests
  Features = {blog, notes}
  Blocks = {post, comment, note}
  Imports = {import}
  Tests = {blogTests, allTests}
  owners <- Owners
  importOf <- ImportOf
  MaxStarts = 3
  MaxEdits = 1
  MaxCuts = 2
  Tables = {x, y, z}
  x = x
  y = y
  c = c
  d = d
  m = m
  n = n
  o = o
  Columns = {col}
  NoTable = NoTable
SPECIFICATION CallsSpec
INVARIANTS
  TypesOK
  DeletesAreWhole
  RefusalsAreRight
  SignalsPrecedeDeletes
  CallsSucceed
  NothingIsLost
  
  OptimizedListsAreEquivalent
  PlansReachTheModels
  RollbacksRestore
PROPERTY UpdatesAreKept
SYMMETRY Symmetry
CHECK_DEADLOCK FALSE
