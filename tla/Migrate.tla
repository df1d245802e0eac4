------------------------------ MODULE Migrate ------------------------------
(***************************************************************************)
(* migrate and rollback runs on one database                               *)
(* (zeeb_orm/migrations/executor.py: _run, _migration_lock, _apply_plan,   *)
(* _execute).                                                              *)
(*                                                                         *)
(* Every process runs the files of its own release.  It loads them, waits  *)
(* for the database-wide lock, plans from what the database has recorded,  *)
(* runs the operations of one migration after the other and records each.  *)
(* It may die anywhere; a dead process loses its transaction and its lock. *)
(*                                                                         *)
(* The schema is the set of the operations in effect.  An operation runs   *)
(* forward when it is not in effect and what it builds on is, backward     *)
(* when it is in effect and nothing is built on it; it raises otherwise.   *)
(***************************************************************************)
EXTENDS MigrationGraph

CONSTANTS
  Processes,  \* the processes that migrate: replicas, a developer's shell
  Operations, \* the operations of all migrations
  operations, \* Migration.operations: a sequence for each migration
  buildsOn,   \* the operations an operation builds on
  Data,       \* the operations that are data statements, not DDL
  NonAtomic,  \* the migrations with atomic = False
  Sites,      \* the databases and what is asked of them, see Site
  MayFail,    \* may an operation or a statement raise of its own
  MayCrash    \* may a process die

Request == [files : SUBSET Migrations,
            target : [kind : {"latest", "zero", "to", "back"}, to : Nat],
            fake : BOOLEAN, fakeInitial : BOOLEAN]

(* schema: what the database starts with; runs: bound, how many there are.  *)
Site == [dialect : {"postgresql", "mysql", "sqlite"},
         processes : SUBSET Processes, requests : SUBSET Request,
         schema : SUBSET Operations, runs : Nat]

ASSUME MigrateAssumption ==
  /\ operations \in [Migrations -> Seq(Operations)]
  /\ buildsOn \in [Operations -> SUBSET Operations]
  /\ Data \subseteq Operations /\ NonAtomic \subseteq Migrations
  /\ Sites \subseteq Site
  /\ MayFail \in BOOLEAN /\ MayCrash \in BOOLEAN

VARIABLES
  recorded, \* the names in the zeeb_migrations table
  schema,   \* the committed schema
  holders,  \* who holds the migration lock
  pc,       \* where each process is
  run,      \* what each process runs, see NoRun
  view,     \* the schema in the transaction of each process
  site      \* where this happens, and how many runs are left

vars == <<recorded, schema, holders, pc, run, view, site>>
database == <<recorded, schema>>

(* recorded: the local set of _apply_plan; plan: the steps left, the first  *)
(* in progress; todo: its operations left; rest: the unused squashes left   *)
(* to look at.                                                              *)
NoRun == [request |-> [files |-> {}, target |-> Latest, fake |-> FALSE,
                       fakeInitial |-> FALSE],
          graph |-> Graph({}, {}), recorded |-> {}, plan |-> <<>>,
          todo |-> <<>>, rest |-> {}, outcome |-> "none"]

PC == {"idle", "waiting", "locked", "running", "squashing"}

TypeOK ==
  /\ recorded \subseteq Migrations
  /\ schema \subseteq Operations
  /\ holders \subseteq Processes
  /\ pc \in [Processes -> PC]
  /\ DOMAIN run = Processes
  /\ \A p \in Processes :
       /\ run[p].request \in site.requests \cup {NoRun.request}
       /\ run[p].recorded \subseteq Migrations
       /\ \A i \in DOMAIN run[p].plan :
            run[p].plan[i].name \in run[p].request.files
       /\ run[p].todo \in Seq(Operations)
       /\ run[p].rest \subseteq Migrations
       /\ run[p].outcome \in
            {"none", "done", "refused", "failed", "timeout", "crashed"}
  /\ view \in [Processes -> SUBSET Operations]
  /\ \E s \in Sites : site = [s EXCEPT !.runs = site.runs] /\ site.runs \in 0 .. s.runs

Init ==
  /\ site \in Sites
  /\ recorded = {} /\ schema = site.schema
  /\ holders = {}
  /\ pc = [p \in Processes |-> "idle"]
  /\ run = [p \in Processes |-> NoRun]
  /\ view = [p \in Processes |-> {}]

-----------------------------------------------------------------------------
(* What a step of a plan does. *)

Step(p) == Head(run[p].plan)

(* _execute(): the operations to run, last first when unapplying. *)
Body(step, fake) ==
  IF fake \/ step.skip THEN <<>>
  ELSE IF step.backward THEN Reverse(operations[step.name])
  ELSE operations[step.name]

(* The operation o runs on the schema s without an error of the database. *)
Fits(s, o, backward) ==
  IF backward THEN o \in s /\ \A q \in s : o \notin buildsOn[q]
  ELSE o \notin s /\ buildsOn[o] \subseteq s

Changed(s, o, backward) == IF backward THEN s \ {o} ELSE s \cup {o}

\* Mutated: no transaction spans the body and the record.
CommitsEarly(m, o, last) == TRUE

(* Is the schema committed with operation o, the last one of m or not,     *)
(* before the step is recorded?  MySQL commits with every DDL statement.   *)
(* On SQLite no BEGIN precedes the SAVEPOINT: its RELEASE commits.         *)
CommitsWith(m, o, last) ==
  \/ m \in NonAtomic
  \/ site.dialect = "mysql" /\ o \notin Data
  \/ site.dialect = "sqlite" /\ last

\* Mutated: the squashes stay.
UnrecordedAlone(g, m) == {m} \cup Replaced(m)

(* unrecord(): a migration goes with what it replaces, and with the        *)
(* squashes that replace it.                                               *)
Unrecorded(g, m) ==
  {m} \cup Replaced(m) \cup {s \in g.squashes \cup g.unused : m \in Replaced(s)}

\* Mutated: a squash is recorded alone.
RecordedAlone(m) == {m}

(* record(): a squash marks what it replaces applied, too. *)
NewlyRecorded(m) == {m} \cup Replaced(m)

(* The unused squashes of rest that m completes. *)
Completed(rest, m, names) ==
  {s \in rest \ names : m \in Replaced(s) /\ Replaced(s) \subseteq names}

(* --fake-initial: the initial migrations whose tables exist. *)
Adopted(request) ==
  {m \in Initial : /\ request.fakeInitial /\ operations[m] # <<>>
                   /\ ToSet(operations[m]) \subseteq schema}

GoalOf(request, g) ==
  IF request.target.kind = "back"
  THEN RollbackTarget(g, request.target.to) ELSE request.target

PlanOf(request, g) == Plan(g, GoalOf(request, g), Adopted(request))

(* Nothing refuses the run before it does anything. *)
Accepted(request, g) ==
  /\ ~IsBroken(g)
  /\ GoalOf(request, g).kind = "to" =>
       LET at == Target(g, GoalOf(request, g).to)
       IN at # None /\ (at \in g.nodes \/ IsInSquash(g, at))
  /\ PlanPasses(g, PlanOf(request, g), request.fake)

-----------------------------------------------------------------------------
(* A run. *)

Goto(p, l) == pc' = [pc EXCEPT ![p] = l]

\* Mutated: the lock is not exclusive.
LockIsOpen == TRUE

(* pg_advisory_lock, GET_LOCK, flock *)
LockIsFree == holders = {}

\* Mutated: the lock of a dead process stays.
StillHeld(p) == UNCHANGED holders

(* A process that dies loses its lock. *)
LockDies(p) == holders' = holders \ {p}

(* The run ends: rollback of what is not committed, and the lock is free. *)
End(p, outcome) ==
  /\ Goto(p, "idle")
  /\ run' = [run EXCEPT ![p] =
       [NoRun EXCEPT !.request = run[p].request, !.outcome = outcome]]
  /\ view' = [view EXCEPT ![p] = {}]

Release(p, outcome) == End(p, outcome) /\ holders' = holders \ {p}

(* The files are loaded; then the lock is asked for. *)
Start(p, request) ==
  /\ pc[p] = "idle" /\ p \in site.processes /\ site.runs > 0
  /\ site' = [site EXCEPT !.runs = @ - 1]
  /\ run' = [run EXCEPT ![p] = [NoRun EXCEPT !.request = request]]
  /\ Goto(p, "waiting")
  /\ UNCHANGED <<database, holders, view>>

Acquire(p) ==
  /\ pc[p] = "waiting" /\ LockIsFree
  /\ holders' = holders \cup {p}
  /\ Goto(p, "locked")
  /\ UNCHANGED <<database, run, view, site>>

(* GET_LOCK gives up after LOCK_TIMEOUT. *)
LockTimeout(p) ==
  /\ pc[p] = "waiting" /\ site.dialect = "mysql" /\ ~LockIsFree
  /\ End(p, "timeout")
  /\ UNCHANGED <<database, holders, site>>

(* Graph, rollback target and plan, from what is recorded now. *)
MakePlan(p) ==
  LET request == run[p].request
      g == Graph(request.files, recorded)
      plan == PlanOf(request, g) IN
  /\ pc[p] = "locked" /\ Accepted(request, g)
  /\ run' = [run EXCEPT ![p] = [@ EXCEPT
       !.graph = g, !.recorded = recorded, !.plan = plan,
       !.todo = IF plan = <<>> THEN <<>> ELSE Body(plan[1], request.fake)]]
  /\ view' = [view EXCEPT ![p] = schema]
  /\ Goto(p, "running")
  /\ UNCHANGED <<database, holders, site>>

Refuse(p) ==
  /\ pc[p] = "locked"
  /\ ~Accepted(run[p].request, Graph(run[p].request.files, recorded))
  /\ Release(p, "refused")
  /\ UNCHANGED <<database, site>>

RunOperation(p) ==
  /\ pc[p] = "running" /\ run[p].todo # <<>>
  /\ LET o == Head(run[p].todo)
         after == Changed(view[p], o, Step(p).backward)
     IN /\ Fits(view[p], o, Step(p).backward)
        /\ view' = [view EXCEPT ![p] = after]
        /\ run' = [run EXCEPT ![p].todo = Tail(@)]
        /\ schema' = IF CommitsWith(Step(p).name, o, Len(run[p].todo) = 1)
                     THEN after ELSE schema
  /\ UNCHANGED <<recorded, holders, pc, site>>

(* The step after the current one. *)
Advance(p, names) ==
  LET left == Tail(run[p].plan) IN
  /\ run' = [run EXCEPT ![p] = [@ EXCEPT
       !.recorded = names, !.plan = left, !.rest = {},
       !.todo = IF left = <<>> THEN <<>>
                ELSE Body(left[1], run[p].request.fake)]]
  /\ Goto(p, "running")

(* A migration is unapplied: its row goes, in the same transaction. *)
Unrecord(p) ==
  LET gone == Unrecorded(run[p].graph, Step(p).name) IN
  /\ pc[p] = "running" /\ run[p].plan # <<>> /\ run[p].todo = <<>>
  /\ Step(p).backward
  /\ recorded' = recorded \ gone
  /\ schema' = view[p]
  /\ Advance(p, run[p].recorded \ gone)
  /\ UNCHANGED <<holders, view, site>>

(* A migration is applied: its row is added, in the same transaction. *)
Record(p) ==
  LET new == NewlyRecorded(Step(p).name) IN
  /\ pc[p] = "running" /\ run[p].plan # <<>> /\ run[p].todo = <<>>
  /\ ~Step(p).backward
  /\ recorded' = recorded \cup (new \ run[p].recorded)
  /\ schema' = view[p]
  /\ run' = [run EXCEPT ![p] = [@ EXCEPT
       !.recorded = run[p].recorded \cup new, !.rest = run[p].graph.unused]]
  /\ Goto(p, "squashing")
  /\ UNCHANGED <<holders, view, site>>

(* The last original of an unused squash is applied: the squash is         *)
(* recorded, in a transaction of its own.                                  *)
RecordSquash(p) ==
  LET completed == Completed(run[p].rest, Step(p).name, run[p].recorded) IN
  /\ pc[p] = "squashing" /\ completed # {}
  /\ recorded' = recorded \cup {Min(completed)}
  /\ run' = [run EXCEPT ![p] = [@ EXCEPT
       !.recorded = run[p].recorded \cup {Min(completed)},
       !.rest = {s \in run[p].rest : s > Min(completed)}]]
  /\ UNCHANGED <<schema, holders, pc, view, site>>

NextStep(p) ==
  /\ pc[p] = "squashing"
  /\ Completed(run[p].rest, Step(p).name, run[p].recorded) = {}
  /\ Advance(p, run[p].recorded)
  /\ UNCHANGED <<database, holders, view, site>>

Finish(p) ==
  /\ pc[p] = "running" /\ run[p].plan = <<>>
  /\ Release(p, "done")
  /\ UNCHANGED <<database, site>>

(* An operation does not fit the schema, or something raises of its own. *)
Fail(p) ==
  /\ pc[p] \in {"running", "squashing"}
  /\ \/ MayFail
     \/ /\ run[p].todo # <<>>
        /\ ~Fits(view[p], Head(run[p].todo), Step(p).backward)
  /\ Release(p, "failed")
  /\ UNCHANGED <<database, site>>

Crash(p) ==
  /\ MayCrash /\ pc[p] # "idle"
  /\ End(p, "crashed")
  /\ LockDies(p)
  /\ UNCHANGED <<database, site>>

Proceed(p) ==
  \/ Acquire(p) \/ LockTimeout(p) \/ MakePlan(p) \/ Refuse(p)
  \/ RunOperation(p) \/ Unrecord(p) \/ Record(p) \/ RecordSquash(p)
  \/ NextStep(p) \/ Finish(p) \/ Fail(p)

Next ==
  \E p \in Processes :
    \/ \E request \in site.requests : Start(p, request)
    \/ Proceed(p)
    \/ Crash(p)

Spec == Init /\ [][Next]_vars

(* p has something to do: it runs, or the lock it asked for is free. *)
CanProceed(p) ==
  \/ pc[p] \notin {"idle", "waiting"}
  \/ pc[p] = "waiting" /\ (LockIsFree \/ site.dialect = "mysql")

(* A running process goes on, and the lock is granted when it is free: the  *)
(* weak fairness of Proceed(p), with its ENABLED spelled out.               *)
Fairness(p) == []<>(~CanProceed(p)) \/ []<><<Proceed(p)>>_vars

FairSpec == Spec /\ \A p \in Processes : Fairness(p)
-----------------------------------------------------------------------------
(* The properties. *)

Leaves == {m \in Migrations : ~IsSquash(m)}
LeavesOf(m) == IF IsSquash(m) THEN Replaced(m) \cap Leaves ELSE {m}

(* The leaves the files hold, themselves or in a squash. *)
Covered(files) == UNION {LeavesOf(m) : m \in files}

(* m and every squash of it change the database in one transaction. *)
Transactional(m) ==
  \A s \in Migrations : m \in {s} \cup Replaced(s) =>
    /\ s \notin NonAtomic
    /\ site.dialect = "mysql" => ToSet(operations[s]) \subseteq Data

(* The migrations of all releases that migrate this database. *)
Released == UNION {r.files : r \in site.requests}

(* --fake and --fake-initial change the record alone. *)
NobodyFakes == \A r \in site.requests : ~r.fake /\ ~r.fakeInitial

(* A migration of which all is transactional is recorded exactly when its   *)
(* operations are in effect, in every committed state: whatever fails or    *)
(* dies in a run, and whichever files a process has                         *)
(* (_execute: "in a savepoint inside the transaction that also records it").*)
SchemaFollowsRecord ==
  NobodyFakes => \A m \in {l \in Leaves : Transactional(l)} :
    IF m \in recorded THEN ToSet(operations[m]) \subseteq schema
    ELSE ToSet(operations[m]) \cap schema = {}

(* No run applies an operation to a schema it was not written for: not     *)
(* what another process applied first, not what a squash holds already,    *)
(* not before what it builds on (MigrationGraph, _build_plan under the     *)
(* lock).                                                                   *)
OperationsFit ==
  NobodyFakes /\ (\A m \in Released : Transactional(m)) => \A p \in Processes :
    pc[p] = "running" /\ run[p].todo # <<>>
      => Fits(view[p], Head(run[p].todo), Step(p).backward)

(* What _apply_plan believes recorded is what the database has recorded,    *)
(* however many processes migrate: record() relies on it to insert no name  *)
(* twice, and a plan made of old news would run migrations twice.           *)
PlanIsCurrent ==
  \A p \in Processes :
    pc[p] \in {"running", "squashing"} => run[p].recorded = recorded

(* Every release has what its migrations depend on, or a squash of it.      *)
FilesAreComplete ==
  \A r \in site.requests : \A m \in r.files : \A d \in dependencies[m] :
    d \in r.files \/ \E s \in r.files : d \in Replaced(s)

(* Where every release is complete, what is applied has its dependencies    *)
(* applied, at every commit on the way forward, backward and into a squash, *)
(* with --fake and --fake-initial too (_sort, _validate_dependencies,       *)
(* _apply_plan). A dependency that no file has is not looked for, so a      *)
(* release may not lack one that it has no squash of.                       *)
DependenciesAreApplied ==
  FilesAreComplete => \A m \in recorded \cap Leaves : \A d \in dependencies[m] :
    LeavesOf(d) \subseteq recorded

(* A recorded squash has all it replaces recorded: the name of a squash     *)
(* never outlives an original (unrecord of squashes in _apply_plan).        *)
SquashesAreWhole ==
  \A s \in recorded : Replaced(s) \subseteq recorded

(* The order in which a database without squashes applies the leaves.       *)
LeafOrder ==
  Sort(Leaves, [m \in Leaves |-> UNION {LeavesOf(d) : d \in dependencies[m]}])

(* The leaves up to the last one m stands for. *)
LeavesUpto(m) ==
  ToSet(Upto(LeafOrder, Max({IndexOf(LeafOrder, l) : l \in LeavesOf(m)})))

(* What a run to a target is to leave applied. *)
Goal(request) ==
  CASE request.target.kind = "latest" -> Covered(request.files)
    [] request.target.kind = "zero" -> {}
    [] request.target.kind = "to" ->
         Covered(request.files) \cap LeavesUpto(request.target.to)

(* A run that ends leaves exactly the migrations up to its target applied,  *)
(* and the same run once more would execute nothing: at most it records a   *)
(* squash of which all is applied by now                                    *)
(* (_build_plan: "afterwards exactly the migrations up to and including     *)
(* target (in apply order) are applied").                                   *)
RunsReachTheirTarget ==
  [][\A p \in Processes :
       LET request == run[p].request IN
       Finish(p) /\ request.target.kind # "back" =>
         /\ recorded \cap Covered(request.files) = Goal(request)
         /\ LET again == PlanOf(request, Graph(request.files, recorded))
            IN \A i \in DOMAIN again : again[i].skip]_vars

(* rollback(n) unapplies the last n steps of the history it found, and      *)
(* nothing else changes (rollback: "Unapply the last steps migrations").    *)
RollbackUnappliesTheLast ==
  [][\A p \in Processes :
       LET request == run[p].request
           before == AppliedHistory(run[p].graph)
           kept == IF request.target.to > Len(before) THEN 0
                   ELSE Len(before) - request.target.to IN
       Finish(p) /\ request.target.kind = "back" =>
         AppliedHistory(Graph(request.files, recorded)) = Upto(before, kept)]_vars

(* A migration with an irreversible operation stays applied once it is,     *)
(* in a squash or on its own, unless a run only fakes; and a run that would *)
(* come to one later does not unapply what is before it, either             *)
(* (_check_reversible looks at the whole plan before anything runs).        *)
IrreversibleStaysApplied ==
  [][/\ \A m \in Irreversible \cap Leaves \cap recorded :
          \/ m \in recorded'
          \/ \E p \in holders : run[p].request.fake
     /\ \A p \in Processes : ~run[p].request.fake =>
          \A i \in DOMAIN run[p].plan :
            run[p].plan[i].backward => run[p].plan[i].name \notin Irreversible]_vars

(* A run that waits for the lock gets it, gives up or dies, and one that    *)
(* holds it gives it back: nobody waits for a dead process                  *)
(* (_migration_lock: "a crashed migrate never wedges the next one").        *)
RunsEnd == \A p \in Processes : pc[p] = "waiting" ~> pc[p] = "idle"
-----------------------------------------------------------------------------
(* What the theorems ask of the migrations and of the requests. *)

(* Squashes are nested: a squash replaces what the squashes it replaces     *)
(* replace, and two that replace a migration are one in the other           *)
(* (squashmigrations in cli.py writes no other, lines 501 to 545).          *)
SquashesAreNested ==
  /\ \A s \in Migrations : s \notin Replaced(s)
  /\ \A s \in Migrations : \A r \in Replaced(s) : Replaced(r) \subseteq Replaced(s)
  /\ \A s, t \in Migrations :
       Replaced(s) \cap Replaced(t) # {} =>
         s = t \/ s \in Replaced(t) \/ t \in Replaced(s)

(* A squash does what its leaves do, and no operation is in two leaves.     *)
SquashesHoldTheirLeaves ==
  \A l \in Leaves, m \in Migrations :
    IF l \in LeavesOf(m) THEN ToSet(operations[l]) \subseteq ToSet(operations[m])
    ELSE ToSet(operations[l]) \cap ToSet(operations[m]) = {}

(* What replaces an irreversible migration is irreversible: no optimization *)
(* drops a RunSQL or a RunPython.                                           *)
SquashesStayIrreversible ==
  \A s \in Migrations : Replaced(s) \cap Irreversible # {} => s \in Irreversible

(* The names that can be recorded here. *)
Names == Released \cup UNION {Replaced(m) : m \in Released}

(* Whoever takes the database back has the file of every squash of what it  *)
(* has files of.                                                            *)
SquashesAreKnown ==
  \A r \in site.requests : r.target.kind # "latest" =>
    \A s \in Names : Replaced(s) \cap r.files # {} => s \in r.files

(* The database starts with nothing that a migration does. *)
StartsClean == \A l \in Leaves : ToSet(operations[l]) \cap site.schema = {}

(* A squash is numbered after all it replaces (squashmigrations, lines 565  *)
(* to 572): squash_number is above the last number of the range.            *)
SquashesComeLater == \A s \in Migrations : \A r \in Replaced(s) : r < s

(* The ends of squashes lead to a migration in two steps (resolve(): "a     *)
(* squash of squashes remaps at most twice").                               *)
SquashesAreShallow ==
  \A s \in Migrations :
    LET last == Last(replaces[s])
    IN IsSquash(s) /\ IsSquash(last) => ~IsSquash(Last(replaces[last]))

(* What a squash replaces is a chain in dependency order: no name is there  *)
(* twice, nothing in it depends on a later part, and all of it is in the    *)
(* last part or is what a later part depends on (squashmigrations takes a   *)
(* range of files, and makemigrations lets every new migration depend on    *)
(* the one before).                                                         *)
SquashesAreChains ==
  \A s \in Migrations : \A i \in DOMAIN replaces[s] :
    LET l == replaces[s][i] IN l \in Leaves =>
      /\ \A j \in 1 .. i - 1 : replaces[s][j] # l
      /\ \A d \in dependencies[l] :
           LeavesOf(d) \cap Replaced(s) \subseteq {replaces[s][j] : j \in 1 .. i - 1}
      /\ \/ l \in LeavesOf(Last(replaces[s]))
         \/ \E j \in i + 1 .. Len(replaces[s]) :
              /\ replaces[s][j] \in Leaves
              /\ \E d \in dependencies[replaces[s][j]] : l \in LeavesOf(d)

(* A squash depends on what its parts depend on outside of it               *)
(* (squashmigrations, lines 547 to 557).                                    *)
SquashesKeepDependencies ==
  \A s \in Migrations : \A l \in Replaced(s) \cap Leaves : \A d \in dependencies[l] :
    LeavesOf(d) \subseteq
      Replaced(s) \cup UNION {LeavesOf(e) : e \in dependencies[s]}

(* No migration depends on itself, on a part of it or on a squash of it.    *)
DependenciesAreOutside ==
  \A m \in Migrations : \A d \in dependencies[m] :
    d \notin {m} \cup Replaced(m) /\ m \notin Replaced(d)

(* The chain of migrations as makemigrations and squashmigrations write it. *)
HistoryIsWellMade ==
  /\ SquashesAreNested /\ SquashesComeLater /\ SquashesAreShallow
  /\ SquashesAreChains /\ SquashesKeepDependencies /\ DependenciesAreOutside

(* The sets of leaves that hold all their dependencies.                     *)
ClosedSets ==
  {S \in SUBSET Leaves : \A m \in S : \A d \in dependencies[m] : LeavesOf(d) \subseteq S}

DoneBy(leaves) == UNION {ToSet(operations[l]) : l \in leaves}

(* A migration does nothing twice and, if it is a squash, nothing but what  *)
(* its leaves do. An operation builds on an earlier one of its migration or *)
(* on what the migrations that one depends on do. Nothing but an operation  *)
(* of a migration builds on one (order_operations in autodetector.py, and   *)
(* the dependencies that makemigrations writes).                            *)
OperationsAreInOrder ==
  /\ \A m \in Migrations :
       /\ \A i, j \in DOMAIN operations[m] :
            operations[m][i] = operations[m][j] => i = j
       /\ ToSet(operations[m]) \subseteq DoneBy(LeavesOf(m))
       /\ \A i \in DOMAIN operations[m] : \A b \in buildsOn[operations[m][i]] :
            IF b \in ToSet(operations[m])
            THEN b \in {operations[m][j] : j \in 1 .. i - 1}
            ELSE \A S \in ClosedSets : LeavesOf(m) \subseteq S => b \in DoneBy(S)
  /\ \A o \in Operations :
       buildsOn[o] \cap DoneBy(Leaves) # {} => o \in DoneBy(Leaves)

(* Whoever takes the database back has all that can be applied in its files.*)
FilesCoverNames ==
  \A r \in site.requests : r.target.kind # "latest" =>
    Names \cap Leaves \subseteq Covered(r.files)
=============================================================================
