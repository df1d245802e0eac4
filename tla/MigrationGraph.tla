--------------------------- MODULE MigrationGraph ---------------------------
(***************************************************************************)
(* The migration graph and the plans made from it                          *)
(* (zeeb_orm/migrations/executor.py: MigrationGraph, _build_plan,          *)
(* _plan_into_squash, _validate_dependencies, _check_reversible).          *)
(*                                                                         *)
(* A migration is named by a number, its position in file-name order; the  *)
(* prefixes that name a migration on the command line are left out.  A     *)
(* squash is a migration that replaces others.  A graph is what a set of   *)
(* files means to a database that has recorded some of them as applied.    *)
(***************************************************************************)
EXTENDS Naturals, Sequences, FiniteSets, SequencesExt

CONSTANTS
  Migrations,    \* the names of all migrations of all releases
  dependencies,  \* Migration.dependencies: a set of names for each migration
  replaces,      \* Migration.replaces: the sequence of names a squash replaces
  Initial,       \* the migrations with initial = True
  Irreversible   \* the migrations with an operation that is not reversible

ASSUME GraphAssumption ==
  /\ Migrations \subseteq Nat \ {0} /\ IsFiniteSet(Migrations)
  /\ dependencies \in [Migrations -> SUBSET Migrations]
  /\ replaces \in [Migrations -> Seq(Migrations)]
  /\ Initial \subseteq Migrations /\ Irreversible \subseteq Migrations

None == 0 \* no migration

IsSquash(m) == replaces[m] # <<>>
Replaced(s) == ToSet(replaces[s])
Squashes(files) == {m \in files : IsSquash(m)}

(* The elements of a sequence that are in a set, in order. *)
Among(s, set) ==
  FlattenSeq([i \in DOMAIN s |-> IF s[i] \in set THEN <<s[i]>> ELSE <<>>])

-----------------------------------------------------------------------------
(* MigrationGraph.__init__ *)

(* The squashes that stand in for what they replace: all of it is recorded, *)
(* or none of it.                                                           *)
SquashesInUse(files, recorded) ==
  {s \in Squashes(files) : \/ Replaced(s) \subseteq recorded
                           \/ Replaced(s) \cap recorded = {}}

UnusedSquashes(files, recorded) ==
  Squashes(files) \ SquashesInUse(files, recorded)

(* _remap: the squashes assign in file-name order, the last one wins. *)
Remap(files, recorded) ==
  LET use == SquashesInUse(files, recorded)
      unused == UnusedSquashes(files, recorded)
      By(m) == {s \in use : m \in Replaced(s)} \cup ({m} \cap unused)
  IN [m \in Migrations |->
       IF By(m) = {} THEN m
       ELSE IF Max(By(m)) = m THEN Last(replaces[m]) ELSE Max(By(m))]

(* resolve(): the node a name stands for. *)
ResolveBy(remap, m) == remap[remap[remap[m]]]

(* dependencies(): those of m, mapped onto the nodes. *)
DependenciesBy(remap, m) ==
  {ResolveBy(remap, d) : d \in dependencies[m]} \ {m}

(* _sort(): what is ready first, by file name. *)
Sort(nodes, needs) ==
  LET first[k \in 0 .. Cardinality(nodes)] ==
        IF k = 0 THEN <<>>
        ELSE LET before == first[k - 1]
                 ready == {m \in nodes \ ToSet(before) :
                             needs[m] \subseteq ToSet(before)}
             IN IF ready = {} THEN before ELSE Append(before, Min(ready))
  IN first[Cardinality(nodes)]

\* Mutated: what a squash replaces is not looked at.
AppliedIfRecorded(use, recorded, m) == m \in recorded

(* is_applied(): recorded, or a squash of which all is recorded. *)
AppliedWith(use, recorded, m) ==
  m \in recorded \/ (m \in use /\ Replaced(m) \subseteq recorded)

Graph(files, recorded) ==
  LET use == SquashesInUse(files, recorded)
      unused == UnusedSquashes(files, recorded)
      remap == Remap(files, recorded)
      nodes == {m \in files \ unused : remap[m] = m \/ remap[m] \notin use}
      order == Sort(nodes, [m \in nodes |-> DependenciesBy(remap, m) \cap nodes])
  IN [files |-> files, recorded |-> recorded, squashes |-> use,
      unused |-> unused, remap |-> remap, nodes |-> nodes, order |-> order,
      applied |-> {m \in ToSet(order) : AppliedWith(use, recorded, m)}]

(* __init__ raises: a partly applied squash lacks originals, or a cycle. *)
IsBroken(g) ==
  \/ \E s \in g.unused : ~(Replaced(s) \subseteq g.files)
  \/ ToSet(g.order) # g.nodes

Resolve(g, m) == ResolveBy(g.remap, m)
Dependencies(g, m) == DependenciesBy(g.remap, m)
IsApplied(g, m) == AppliedWith(g.squashes, g.recorded, m)

-----------------------------------------------------------------------------
(* Stepping through the originals of a squash. *)

\* Mutated: the originals need not be on disk.
OriginalsUnchecked(g, s) == Among(replaces[s], Migrations \ Squashes(g.files))

(* originals(): <<>> when one of them is not on disk. *)
Originals(g, s) ==
  LET own == Among(replaces[s], Migrations \ Squashes(g.files))
  IN IF ToSet(own) \subseteq g.files THEN own ELSE <<>>

(* history(): a squash in use stands for its originals. *)
History(g) ==
  FlattenSeq([i \in DOMAIN g.order |->
    LET m == g.order[i]
    IN IF m \in g.squashes /\ Originals(g, m) # <<>>
       THEN Originals(g, m) ELSE <<m>>])

(* in_history_applied() *)
InHistoryApplied(g) == g.applied \cup (g.recorded \ g.nodes)

AppliedHistory(g) == Among(History(g), InHistoryApplied(g))

-----------------------------------------------------------------------------
(* Targets: where a run is to take the database. *)

Latest == [kind |-> "latest", to |-> 0]
Zero == [kind |-> "zero", to |-> 0]
To(m) == [kind |-> "to", to |-> m]
Back(n) == [kind |-> "back", to |-> n]

(* The last migration replaced by m, by the last one replaced by m, ...,   *)
(* down to one that is the node or no squash on disk.                      *)
LastReplaced(g, node, m) ==
  LET down[k \in 0 .. Cardinality(g.files)] ==
        IF k = 0 THEN m
        ELSE LET at == down[k - 1]
             IN IF at # node /\ at \in g.files /\ IsSquash(at)
                THEN Last(replaces[at]) ELSE at
  IN down[Cardinality(g.files)]

\* Mutated: an original always means its squash.
TargetNode(g, m) == IF m \in g.files THEN Resolve(g, m) ELSE None

(* target(): the step of history() that m names, None if it is refused. *)
Target(g, m) ==
  LET node == Resolve(g, m)
      at == LastReplaced(g, node, m)
  IN IF m \notin g.files THEN None
     ELSE IF node \in g.squashes /\ at # node /\ at # Last(replaces[node])
          THEN IF at \in ToSet(Originals(g, node)) THEN at ELSE None
          ELSE node

\* Mutated: one step too few.
RollbackTargetShort(g, n) ==
  LET steps == AppliedHistory(g)
  IN IF n > Len(steps) THEN Zero ELSE To(steps[Len(steps) - n + 1])

(* _rollback_target(): n steps back in the applied history. *)
RollbackTarget(g, n) ==
  LET steps == AppliedHistory(g)
  IN IF n >= Len(steps) THEN Zero ELSE To(steps[Len(steps) - n])

-----------------------------------------------------------------------------
(* Plans: sequences of steps. *)

(* skip: fake_initial or replaces_satisfied, nothing is to run. *)
ForwardStep(m, skip) == [name |-> m, backward |-> FALSE, skip |-> skip]
BackwardStep(m) == [name |-> m, backward |-> TRUE, skip |-> FALSE]

(* forward(): how m is applied; adopt: its tables exist under --fake-initial. *)
Forward(g, m, adopt) ==
  IF IsApplied(g, m)
  THEN IF m \in g.squashes /\ m \notin g.recorded
       THEN <<ForwardStep(m, TRUE)>> ELSE <<>>
  ELSE <<ForwardStep(m, m \in adopt)>>

ForwardAll(g, names, adopt) ==
  FlattenSeq([i \in DOMAIN names |-> Forward(g, names[i], adopt)])

Backwards(names) ==
  LET rev == Reverse(names) IN [i \in DOMAIN rev |-> BackwardStep(rev[i])]

(* backward() *)
BackwardAll(g, names) ==
  Backwards(Among(names, g.applied))

Upto(s, n) == SubSeq(s, 1, n)
After(s, n) == SubSeq(s, n + 1, Len(s))
IndexOf(s, e) == CHOOSE i \in DOMAIN s : s[i] = e

(* _plan_into_squash(): to the original m of a squash in use. *)
PlanIntoSquash(g, m, adopt) ==
  LET squash == Resolve(g, m)
      position == IndexOf(g.order, squash)
      originals == Originals(g, squash)
      cut == IndexOf(originals, m)
      later == BackwardAll(g, After(g.order, position))
  IN IF IsApplied(g, squash)
     THEN later \o Backwards(Among(After(originals, cut), g.recorded))
     ELSE LET left == Among(Upto(originals, cut), Migrations \ g.recorded)
          IN later \o ForwardAll(g, Upto(g.order, position - 1), adopt)
                   \o [i \in DOMAIN left |-> ForwardStep(left[i], FALSE)]

(* The index() calls of _plan_into_squash() find what they look for. *)
IsInSquash(g, m) ==
  LET squash == Resolve(g, m)
  IN squash \in ToSet(g.order) /\ m \in ToSet(Originals(g, squash))

(* How many nodes are to be applied, in apply order. *)
Limit(g, at) == IndexOf(g.order, at)

(* _build_plan() *)
Plan(g, target, adopt) ==
  IF target.kind = "zero" THEN BackwardAll(g, g.order)
  ELSE IF target.kind = "latest" THEN ForwardAll(g, g.order, adopt)
  ELSE LET at == Target(g, target.to)
       IN IF at \notin g.nodes THEN PlanIntoSquash(g, at, adopt)
          ELSE LET limit == Limit(g, at)
               IN BackwardAll(g, After(g.order, limit))
                    \o ForwardAll(g, Upto(g.order, limit), adopt)

-----------------------------------------------------------------------------
(* What refuses a plan. *)

Unapplied(plan) == {plan[i].name : i \in {j \in DOMAIN plan : plan[j].backward}}
Known(g) == g.nodes \cup g.files

(* The dependencies of a step: an original keeps its siblings apart. *)
StepDependencies(g, m) ==
  LET owner == Resolve(g, m)
  IN IF owner = m THEN Dependencies(g, m)
     ELSE {IF d \in Replaced(owner) THEN d ELSE Resolve(g, d) :
             d \in dependencies[m]}

(* An applied migration has an unapplied dependency. *)
HistoryIsInconsistent(g, plan) ==
  \E m \in g.applied \ Unapplied(plan) : \E d \in Dependencies(g, m) :
    d \in Known(g) /\ d \notin g.applied

(* Every forward step finds its dependencies applied or scheduled before. *)
DependenciesAreMet(g, plan) ==
  \A i \in DOMAIN plan :
    LET before == {plan[j].name : j \in {k \in 1 .. i - 1 : ~plan[k].backward}}
        satisfied == ((g.applied \cup g.recorded) \ Unapplied(plan)) \cup before
    IN ~plan[i].backward =>
         StepDependencies(g, plan[i].name) \cap Known(g) \subseteq satisfied

\* Mutated: _check_reversible() is not called.
PlanPassesUnchecked(g, plan, fake) ==
  \/ \A i \in DOMAIN plan : plan[i].backward
  \/ /\ fake \/ ~HistoryIsInconsistent(g, plan)
     /\ DependenciesAreMet(g, plan)

(* _validate_dependencies() and _check_reversible() let the plan pass. *)
PlanPasses(g, plan, fake) ==
  /\ \/ \A i \in DOMAIN plan : plan[i].backward
     \/ /\ fake \/ ~HistoryIsInconsistent(g, plan)
        /\ DependenciesAreMet(g, plan)
  /\ fake \/ Unapplied(plan) \cap Irreversible = {}
=============================================================================
