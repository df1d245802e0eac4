\* A rollback where a branch was merged below what is applied.
CONSTANTS
  p1 = p1
  p2 = p2
  Migrations <- AllMigrations
  dependencies <- AllDependencies
  replaces <- AllReplaces
  Initial = {1, 8, 13, 16}
  Irreversible = {10, 11}
  Processes <- TwoProcesses
  Operations <- AllOperations
  operations <- AllOperationLists
  buildsOn <- AllBuildsOn
  Data = {"h", "i"}
  NonAtomic = {12}
  Sites <- Merged
  MayFail = FALSE
  MayCrash = FALSE
SPECIFICATION Spec
PROPERTIES
  RollbackUnappliesTheLast
CHECK_DEADLOCK FALSE
