\* SQLite: RELEASE commits what the transaction of the record should.
CONSTANTS
  p1 = p1
  p2 = p2
  Migrations <- AllMigrations
  dependencies <- AllDependencies
  replaces <- AllReplaces
  Initial = {1, 8, 13, 16}
  Irreversible = {10, 11}
  Processes <- TwoProcesses
  Operations <- AllOperations
  operations <- AllOperationLists
  buildsOn <- AllBuildsOn
  Data = {"h", "i"}
  NonAtomic = {12}
  Sites <- SQLite
  MayFail = FALSE
  MayCrash = TRUE
SPECIFICATION Spec
INVARIANTS
  SchemaFollowsRecord
CHECK_DEADLOCK FALSE
