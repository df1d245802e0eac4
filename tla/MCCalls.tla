------------------------------ MODULE MCCalls ------------------------------
(* Calls of zeeb_orm and zeeb_agents that take several steps on state they  *)
(* share with nobody but other calls of their own kind, so each behaviour   *)
(* exercises one of them: get_or_create and update_or_create, deletes, the  *)
(* lifecycle of features, lists of operations and what squashing makes of   *)
(* them, edits of models and the migrations made of them.                   *)
EXTENDS Upsert, Features, Sequences, TLC

CONSTANTS
  Part,                                   \* what to exercise
  A, B, C, a1, a2, b1, c1, Null,      \* models and their rows
  blog, notes,                            \* features and their files
  post, comment, note, import, blogTests, allTests,
  Tables, Columns, NoTable, x, y, c, d, m, n, o

VARIABLES
  part,                                                        \* exercised
  site, phase, rows, ref, frames, order, data, updates,        \* of Deletion
  refused, total, roots, whole, added, overtaken, missed,
  ops, effect,                                                 \* of Optimizer
  declared, files, migrated, plan, stage, before, nchanges     \* of Autodetector

Key(from, to, rule, value) == [from |-> from, to |-> to, rule |-> rule, value |-> value]

(* A child of two parents of which one is the other's child; a tree with   *)
(* two more references to it; many-to-many; and the rules that are left.   *)
Shop == <<Key(B, A, "CASCADE", Null), Key(C, B, "RESTRICT", Null), Key(C, A, "CASCADE", Null)>>
Tree == <<Key(A, A, "CASCADE", Null), Key(B, A, "SET_NULL", Null), Key(B, A, "PROTECT", Null)>>
Tags == <<Key(C, A, "JOIN", Null), Key(C, B, "JOIN", Null), Key(B, A, "CASCADE", Null)>>
Shop2 == <<Shop[3], Shop[2], Shop[1]>>
Twice == <<Key(C, A, "CASCADE", Null), Key(C, B, "CASCADE", Null), Key(B, A, "CASCADE", Null)>>
Left == <<Key(B, A, "SET_DEFAULT", a2), Key(C, B, "CASCADE", Null), Key(C, A, "DO_NOTHING", Null)>>

RowsOfModels == {a1, a2, b1, c1}
ModelOf == (a1 :> A) @@ (a2 :> A) @@ (b1 :> B) @@ (c1 :> C)
Databases == [schema : {Shop, Shop2, Twice, Tree, Tags, Left}, enforced : {TRUE}]
               \cup [schema : {Tags, Left}, enforced : {FALSE}]

Deletions == INSTANCE Deletion WITH
  Rows <- RowsOfModels, NoRow <- Null, modelOf <- ModelOf, Sites <- Databases

Owners == [a \in {post, comment, import, blogTests} |-> {blog}]
            @@ (note :> {notes}) @@ (allTests :> {blog, notes})
ImportOf == import :> post

Squashes == INSTANCE Optimizer WITH MaxOperations <- 5

(* A table that another refers to by an indexed column. *)
TwoTables ==
  (x :> [model |-> m, columns |-> <<>>, indexes |-> {}])
    @@ (y :> [model |-> n, columns |-> (c :> [fk |-> x, type |-> 1]),
              indexes |-> {[name |-> <<y, c>>, on |-> c]}])

Detections == INSTANCE Autodetector WITH
  Columns <- {c, d}, Models <- {m, n, o}, Projects <- {TwoTables}, Promised <- TRUE,
  MaxEdits <- 3, models <- declared, database <- migrated, phase <- stage, nedits <- nchanges

upsertVars == vars
deletionVars == <<site, phase, rows, ref, frames, order, data, updates, refused, total,
                  roots, whole, added, overtaken, missed>>
squashVars == <<ops, effect>>
detectionVars == <<declared, files, migrated, plan, stage, before, nchanges>>
allVars == <<part, upsertVars, deletionVars, lifecycleVars, squashVars, detectionVars>>

(* A choice of what is not exercised would only repeat the behaviours. *)
CallsInit ==
  /\ part \in Part /\ Init /\ Deletions!Init /\ LifecycleInit /\ Squashes!Init
  /\ Detections!Init
  /\ part # "upserts" => dialect = "sqlite"
  /\ part # "deletes" => site = [schema |-> Shop, enforced |-> TRUE]

CallsNext ==
  /\ UNCHANGED part
  /\ \/ /\ part = "upserts" /\ Next
        /\ UNCHANGED <<deletionVars, lifecycleVars, squashVars, detectionVars>>
     \/ /\ part = "deletes" /\ Deletions!Next
        /\ UNCHANGED <<upsertVars, lifecycleVars, squashVars, detectionVars>>
     \/ /\ part = "features" /\ LifecycleNext
        /\ UNCHANGED <<upsertVars, deletionVars, squashVars, detectionVars>>
     \/ /\ part = "squashes" /\ Squashes!Next
        /\ UNCHANGED <<upsertVars, deletionVars, lifecycleVars, detectionVars>>
     \/ /\ part = "detections" /\ Detections!Next
        /\ UNCHANGED <<upsertVars, deletionVars, lifecycleVars, squashVars>>

CallsSpec == CallsInit /\ [][CallsNext]_allVars

Symmetry == Permutations(Tables)

-----------------------------------------------------------------------------
(* Each property is about the part that moves; the others stay as they      *)
(* began, and are not looked at again.                                      *)

(* Each variable of the five models keeps its type: a lock belongs to a     *)
(* call, the collector has a model in its order for every row, the record   *)
(* of an archive lists files, columns have a definition.                    *)
TypesOK ==
  CASE part = "upserts"    -> TypeOK
    [] part = "deletes"    -> Deletions!TypeOK
    [] part = "features"   -> LifecycleTypeOK
    [] part = "squashes"   -> Squashes!TypeOK
    [] part = "detections" -> Detections!TypeOK

(* A delete that returns has done all that on_delete says, and no more, but *)
(* for SET_DEFAULT where the database does it.                              *)
DeletesAreWhole == part = "deletes" => Deletions!DeletesAreWhole

(* A delete is refused for the reasons on_delete gives, and for one more:   *)
(* the database refuses by RESTRICT where a child is deleted last.          *)
RefusalsAreRight == part = "deletes" => Deletions!RefusalsAreRight

(* pre_delete is sent while the row is there, and each row is counted,      *)
(* except for children that are deleted after one of their parents.         *)
SignalsPrecedeDeletes == part = "deletes" => Deletions!SignalsPrecedeDeletes

(* A squashed list of operations does what the list did.                    *)
OptimizedListsAreEquivalent == part = "squashes" => Squashes!OptimizedListsAreEquivalent

(* The migrations made of the models apply, and produce what they declare,  *)
(* but for those --accept-renames makes of a column that has an index.      *)
PlansReachTheModels == part = "detections" => Detections!PlansReachTheModels

(* Rolling them back restores the schema there was.                         *)
RollbacksRestore == part = "detections" => Detections!RollbacksRestore
=============================================================================
