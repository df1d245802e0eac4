\* Releases around squashes, MySQL, repairs: processes fail and die anywhere.
CONSTANTS
  p1 = p1
  p2 = p2
  Migrations <- AllMigrations
  dependencies <- AllDependencies
  replaces <- AllReplaces
  Initial = {1, 8, 13, 16}
  Irreversible = {10, 11}
  Processes <- TwoProcesses
  Operations <- AllOperations
  operations <- AllOperationLists
  buildsOn <- AllBuildsOn
  Data = {"h", "i"}
  NonAtomic = {12}
  Sites <- AllSites
  MayFail = TRUE
  MayCrash = TRUE
SPECIFICATION FairSpec
INVARIANTS
  TypeOK
  SchemaFollowsRecord
  OperationsFit
  PlanIsCurrent
  DependenciesAreApplied
  SquashesAreWhole
PROPERTIES
  RunsReachTheirTarget
  RollbackUnappliesTheLast
  IrreversibleStaysApplied
  RunsEnd
CHECK_DEADLOCK FALSE
