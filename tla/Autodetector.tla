---------------------------- MODULE Autodetector ----------------------------
(***************************************************************************)
(* makemigrations (zeeb_orm/migrations/autodetector.py): the operations    *)
(* that take the schema of the migration files to that of the models, and  *)
(* what they do to a database that checks foreign keys, forward and back   *)
(* (operations.py).                                                        *)
(*                                                                         *)
(* A schema maps tables to the model they are for, their columns and their *)
(* indexes; an index is named by the table and column it was made for, and *)
(* keeps its name when they are renamed.                                   *)
(***************************************************************************)
EXTENDS Integers, Sequences, FiniteSets, SequencesExt

CONSTANTS
  Tables, Columns, Models,
  NoTable,   \* no foreign key
  Promised,  \* whether edits stay within what makemigrations provides for
  Projects,  \* the schemas to start from
  MaxEdits   \* bound: edits of the models

VARIABLES
  models,   \* what the code declares
  files,    \* what replaying the migration files gives
  database,
  plan,     \* the operations of the migrations since it was last migrated
  phase,    \* editing, written, applied, unapplied; refused or stuck
  before,   \* history: the database before those
  nedits

vars == <<models, files, database, plan, phase, before, nedits>>

Definition == [fk : Tables \cup {NoTable}, type : {1, 2}]
Index == [name : Tables \X Columns, on : Columns]

IsTable(table) ==
  /\ table.model \in Models
  /\ DOMAIN table.columns \subseteq Columns
  /\ \A c \in DOMAIN table.columns : table.columns[c] \in Definition
  /\ table.indexes \subseteq Index
  /\ \A index \in table.indexes : index.on \in DOMAIN table.columns

(* What replaying or applying a list of operations gives that does not run. *)
Failed == [failed |-> TRUE]

TypeOK ==
  /\ \A schema \in {models, database, before} \cup (IF files = Failed THEN {} ELSE {files}) :
       DOMAIN schema \subseteq Tables /\ \A t \in DOMAIN schema : IsTable(schema[t])
  /\ phase \in {"editing", "written", "applied", "unapplied", "refused", "stuck"}
  /\ nedits \in 0 .. MaxEdits

Init ==
  /\ models \in Projects /\ files = models /\ database = models /\ before = models
  /\ plan = <<>> /\ phase = "editing" /\ nedits = 0

-----------------------------------------------------------------------------
(* Schemas *)

Without(f, x) == [y \in DOMAIN f \ {x} |-> f[y]]
With(f, x, v) == [y \in DOMAIN f \cup {x} |-> IF y = x THEN v ELSE f[y]]

(* A foreign key that follows its table, a table that is renamed. *)
Follow(table, old, new) ==
  [table EXCEPT !.columns = [c \in DOMAIN @ |-> IF @[c].fk = old THEN [@[c] EXCEPT !.fk = new]
                                                ELSE @[c]]]

Moved(schema, old, new) ==
  LET from(t) == IF t = new THEN old ELSE t IN
  [t \in (DOMAIN schema \ {old}) \cup {new} |-> Follow(schema[from(t)], old, new)]

(* An index whose column is renamed or goes. *)
OnColumn(indexes, c, d) ==
  {IF index.on = c THEN [index EXCEPT !.on = d] ELSE index : index \in indexes}
NotOn(indexes, c) == {index \in indexes : index.on # c}

References(table) == {table.columns[c].fk : c \in DOMAIN table.columns} \ {NoTable}

ReferTo(schema, t) == {u \in DOMAIN schema : t \in References(schema[u])}

(* What a database has of a schema. *)
Shape(schema) == [t \in DOMAIN schema |-> <<schema[t].columns, schema[t].indexes>>]

(* Tables that refer to each other in a circle. *)
Circular(schema) ==
  \E S \in SUBSET DOMAIN schema \ {{}} :
    \A t \in S : References(schema[t]) \cap (S \ {t}) # {}

-----------------------------------------------------------------------------
(* Operations on a database *)

(* Whether an operation runs, where foreign keys are checked or not. *)
Applies(op, schema, enforced) ==
  LET there == op.table \in DOMAIN schema
      has(c) == there /\ c \in DOMAIN schema[op.table].columns
      names == UNION {{index.name : index \in schema[t].indexes} : t \in DOMAIN schema}
  IN
  CASE op.kind = "CreateModel" ->
         ~there /\ (enforced => References(op) \subseteq DOMAIN schema \cup {op.table})
    [] op.kind = "DeleteModel" ->
         there /\ (enforced => ReferTo(schema, op.table) \subseteq {op.table})
    [] op.kind = "AddField" ->
         there /\ ~has(op.name) /\ (enforced => op.def.fk \in DOMAIN schema \cup {NoTable})
    [] op.kind \in {"RemoveField", "AlterField"} -> has(op.name)
    [] op.kind = "RenameField" -> has(op.old) /\ ~has(op.new)
    [] op.kind = "AddIndex" -> has(op.index.on) /\ op.index.name \notin names
    [] op.kind = "RemoveIndex" -> there /\ op.index \in schema[op.table].indexes
    [] op.kind = "AlterModelTable" -> there /\ op.new \notin DOMAIN schema

Created(op, schema) ==
  With(schema, op.table, [model |-> op.model, columns |-> op.columns, indexes |-> {}])

Dropped(op, schema) == Without(schema, op.table)

Put(schema, t, c, def) == [schema EXCEPT ![t].columns = With(@, c, def)]

Removed(op, schema) ==
  [schema EXCEPT ![op.table].columns = Without(@, op.name),
                 ![op.table].indexes = NotOn(@, op.name)]

RenamedColumn(op, schema) ==
  LET columns == schema[op.table].columns IN
  [schema EXCEPT ![op.table].columns = With(Without(columns, op.old), op.new, columns[op.old]),
                 ![op.table].indexes = OnColumn(@, op.old, op.new)]

Forward(op, schema) ==
  CASE op.kind = "CreateModel"     -> Created(op, schema)
    [] op.kind = "DeleteModel"     -> Dropped(op, schema)
    [] op.kind = "AddField"        -> Put(schema, op.table, op.name, op.def)
    [] op.kind = "RemoveField"     -> Removed(op, schema)
    [] op.kind = "AlterField"      ->
         [schema EXCEPT ![op.table].columns[op.name].type = op.type]
    [] op.kind = "RenameField"     -> RenamedColumn(op, schema)
    [] op.kind = "AddIndex"        -> [schema EXCEPT ![op.table].indexes = @ \cup {op.index}]
    [] op.kind = "RemoveIndex"     -> [schema EXCEPT ![op.table].indexes = @ \ {op.index}]
    [] op.kind = "AlterModelTable" -> Moved(schema, op.table, op.new)

\* Mutated: an altered column keeps its new type.
BackwardAlters(op) ==
  CASE op.kind = "CreateModel" -> [op EXCEPT !.kind = "DeleteModel"]
    [] op.kind = "DeleteModel" -> [op EXCEPT !.kind = "CreateModel"]
    [] op.kind = "AddField"    -> [op EXCEPT !.kind = "RemoveField"]
    [] op.kind = "RemoveField" -> [op EXCEPT !.kind = "AddField"]
    [] op.kind = "RenameField" -> [op EXCEPT !.old = op.new, !.new = op.old]
    [] op.kind = "AddIndex"    -> [op EXCEPT !.kind = "RemoveIndex"]
    [] op.kind = "RemoveIndex" -> [op EXCEPT !.kind = "AddIndex"]
    [] op.kind = "AlterModelTable" -> [op EXCEPT !.table = op.new, !.new = op.table]
    [] OTHER                   -> op

(* backward() of an operation is forward() of another. *)
Backward(op) ==
  CASE op.kind = "CreateModel" -> [op EXCEPT !.kind = "DeleteModel"]
    [] op.kind = "DeleteModel" -> [op EXCEPT !.kind = "CreateModel"]
    [] op.kind = "AddField"    -> [op EXCEPT !.kind = "RemoveField"]
    [] op.kind = "RemoveField" -> [op EXCEPT !.kind = "AddField"]
    [] op.kind = "AlterField"  -> [op EXCEPT !.type = op.old, !.old = op.type]
    [] op.kind = "RenameField" -> [op EXCEPT !.old = op.new, !.new = op.old]
    [] op.kind = "AddIndex"    -> [op EXCEPT !.kind = "RemoveIndex"]
    [] op.kind = "RemoveIndex" -> [op EXCEPT !.kind = "AddIndex"]
    [] op.kind = "AlterModelTable" -> [op EXCEPT !.table = op.new, !.new = op.table]

RECURSIVE Run(_, _, _)
Run(schema, list, enforced) ==
  IF list = <<>> THEN schema
  ELSE IF Applies(Head(list), schema, enforced)
       THEN Run(Forward(Head(list), schema), Tail(list), enforced)
       ELSE Failed

Undoing(list) == [k \in DOMAIN list |-> Backward(list[Len(list) + 1 - k])]

-----------------------------------------------------------------------------
(* detect_changes_with_report() *)

(* _table_renames: the one dropped and the one added table of a model; the *)
(* migrations name the model of the one, the registry that of the other.   *)
TableRenames(old, new) ==
  LET dropped(m) == {t \in DOMAIN old \ DOMAIN new : old[t].model = m}
      added(m) == {u \in DOMAIN new \ DOMAIN old : new[u].model = m}
      moves(m) == {[kind |-> "AlterModelTable", model |-> m, table |-> t, new |-> u] :
                     t \in dropped(m), u \in added(m)}
  IN UNION {moves(m) : m \in {m \in Models : Cardinality(moves(m)) = 1}}

(* Alembic's differences between the replayed schema and the models, in its *)
(* order, as operations: tables in the order of their names, the added ones *)
(* in that of their references.                                             *)
RECURSIVE Each(_, _)
Each(order, ops) ==
  IF order = <<>> THEN <<>>
  ELSE (IF Head(order) \in DOMAIN ops THEN ops[Head(order)] ELSE <<>>) \o Each(Tail(order), ops)

(* Operations on two columns of a table commute: any one order will do.    *)
ColumnOrder == SetToSeq(Columns)

Additions(old, new, t) ==
  LET added == DOMAIN new[t].columns \ DOMAIN old[t].columns
      op(c) == <<[kind |-> "AddField", table |-> t, name |-> c, def |-> new[t].columns[c]]>>
  IN Each(ColumnOrder, [c \in added |-> op(c)])

Removals(old, new, t) ==
  LET removed == DOMAIN old[t].columns \ DOMAIN new[t].columns
      op(c) == <<[kind |-> "RemoveField", table |-> t, name |-> c, def |-> old[t].columns[c]]>>
  IN Each(ColumnOrder, [c \in removed |-> op(c)])

IndexChanges(kind, t, indexes) ==
  LET op(c) == SetToSeq({[kind |-> kind, table |-> t, index |-> index] :
                           index \in {x \in indexes : x.on = c}})
  IN Each(ColumnOrder, [c \in {index.on : index \in indexes} |-> op(c)])

Diffs(old, new, tables) ==
  LET create(t) == <<[kind |-> "CreateModel", table |-> t, model |-> new[t].model,
                      columns |-> new[t].columns]>>
                     \o IndexChanges("AddIndex", t, new[t].indexes)
      drop(t) == IndexChanges("RemoveIndex", t, old[t].indexes)
                   \o <<[kind |-> "DeleteModel", table |-> t, model |-> old[t].model,
                         columns |-> old[t].columns]>>
      change(t) == Additions(old, new, t)
                     \o IndexChanges("RemoveIndex", t, old[t].indexes \ new[t].indexes)
                     \o IndexChanges("AddIndex", t, new[t].indexes \ old[t].indexes)
                     \o Removals(old, new, t)
  IN Each(tables, [t \in DOMAIN new \ DOMAIN old |-> create(t)])
       \o Each(tables, [t \in DOMAIN old \ DOMAIN new |-> drop(t)])
       \o Each(tables, [t \in DOMAIN old \cap DOMAIN new |-> change(t)])

(* _declared_column_changes *)
DeclaredChanges(old, new, tables) ==
  LET changes(t) ==
        LET op(c) == <<[kind |-> "AlterField", table |-> t, name |-> c,
                        type |-> new[t].columns[c].type, old |-> old[t].columns[c].type]>>
            both == DOMAIN old[t].columns \cap DOMAIN new[t].columns
            changed == {c \in both : old[t].columns[c].type # new[t].columns[c].type}
        IN Each(ColumnOrder, [c \in changed |-> op(c)])
  IN Each(tables, [t \in DOMAIN old \cap DOMAIN new |-> changes(t)])

(* _find_renames: of one definition, the only one removed and added. *)
Renames(list) ==
  LET like(kind, op) == {k \in DOMAIN list : /\ list[k].kind = kind
                                             /\ list[k].table = op.table /\ list[k].def = op.def}
  IN {<<i, j>> \in (DOMAIN list) \X (DOMAIN list) :
        /\ list[i].kind = "RemoveField" /\ like("RemoveField", list[i]) = {i}
        /\ like("AddField", list[i]) = {j}}

AcceptRenames(list) ==
  LET pairs == Renames(list)
      rename(i, j) == [kind |-> "RenameField", table |-> list[i].table,
                       old |-> list[i].name, new |-> list[j].name]
  IN FlattenSeq([k \in DOMAIN list |->
       IF \E i \in DOMAIN list : <<i, k>> \in pairs THEN <<>>
       ELSE IF \E j \in DOMAIN list : <<k, j>> \in pairs
       THEN <<rename(k, CHOOSE j \in DOMAIN list : <<k, j>> \in pairs)>>
       ELSE <<list[k]>>])

(* The tables an operation works on, and those it only references. *)
WorksOn(op) == IF op.kind = "AlterModelTable" THEN {} ELSE {op.table}

\* Mutated: the key of a removed field is forgotten.
ReferencedWhenAdded(op) ==
  CASE op.kind \in {"CreateModel", "DeleteModel"} -> References(op) \ {op.table}
    [] op.kind = "AddField"                       -> {op.def.fk} \ {op.table, NoTable}
    [] op.kind = "AlterModelTable"                -> {op.table, op.new}
    [] OTHER                                      -> {}

Referenced(op) ==
  CASE op.kind \in {"CreateModel", "DeleteModel"} -> References(op) \ {op.table}
    [] op.kind \in {"AddField", "RemoveField"}    -> {op.def.fk} \ {op.table, NoTable}
    [] op.kind = "AlterModelTable"                -> {op.table, op.new}
    [] OTHER                                      -> {}

Touches(op, t) == t \in WorksOn(op) \cup Referenced(op)

(* order_operations: a must run before b. *)
Precedes(a, b) ==
  \/ /\ b.kind = "DeleteModel" /\ Touches(a, b.table)
     /\ a.kind \notin {"CreateModel", "AddField"}
  \/ a.kind = "CreateModel" /\ Touches(b, a.table)
  \/ a.kind = "AlterModelTable" /\ Touches(b, a.new)

(* The first operation that is ready next; in a circle, as they come.      *)
RECURSIVE OrderOperations(_)
OrderOperations(list) ==
  LET ready(k) == \A j \in DOMAIN list \ {k} : ~Precedes(list[j], list[k])
      first == CHOOSE k \in DOMAIN list : ready(k) /\ \A j \in 1 .. (k - 1) : ~ready(j)
  IN IF \A k \in DOMAIN list : ~ready(k) THEN list
     ELSE <<list[first]>> \o OrderOperations(RemoveAt(list, first))

Detected(old, new, tables) ==
  LET renames == SetToSeq(TableRenames(old, new))
      renamed == Run(old, renames, FALSE)
  IN renames \o Diffs(renamed, new, tables) \o DeclaredChanges(renamed, new, tables)

-----------------------------------------------------------------------------
(* Developers edit the models. *)

IndexOf(t, c) == [name |-> <<t, c>>, on |-> c]

Edit(schema) ==
  /\ phase \in {"editing", "written", "applied"} /\ nedits < MaxEdits
  /\ models' = schema /\ nedits' = nedits + 1
  /\ phase' = "editing"
  /\ IF phase = "applied" THEN plan' = <<>> /\ before' = database ELSE UNCHANGED <<plan, before>>
  /\ UNCHANGED <<files, database>>

NewModel(m, t) ==
  /\ t \notin DOMAIN models /\ \A u \in DOMAIN models : models[u].model # m
  /\ Edit(With(models, t, [model |-> m, columns |-> <<>>, indexes |-> {}]))

RemoveModel(t) ==
  t \in DOMAIN models /\ ReferTo(models, t) \subseteq {t} /\ Edit(Without(models, t))

(* Meta.table_name *)
MoveModel(t, u) ==
  /\ t \in DOMAIN models /\ u \notin DOMAIN models
  /\ Edit([Moved(models, t, u) EXCEPT ![u].indexes = {IndexOf(u, index.on) : index \in @}])

SetField(t, c, def) ==
  /\ t \in DOMAIN models
  /\ IF def.fk = NoTable THEN TRUE ELSE def.fk \in DOMAIN models /\ def.type = 1
  /\ c \in DOMAIN models[t].columns => models[t].columns[c] # def
  /\ Edit(Put(models, t, c, def))

RemoveField(t, c) ==
  /\ t \in DOMAIN models /\ c \in DOMAIN models[t].columns
  /\ Edit(Removed([table |-> t, name |-> c], models))

RenameField(t, c, d) ==
  /\ t \in DOMAIN models /\ c \in DOMAIN models[t].columns /\ d \notin DOMAIN models[t].columns
  /\ Edit([RenamedColumn([table |-> t, old |-> c, new |-> d], models)
             EXCEPT ![t].indexes = {IndexOf(t, index.on) : index \in @}])

ChangeIndex(t, c) ==
  /\ t \in DOMAIN models /\ c \in DOMAIN models[t].columns
  /\ Edit([models EXCEPT ![t].indexes = IF IndexOf(t, c) \in @ THEN @ \ {IndexOf(t, c)}
                                        ELSE @ \cup {IndexOf(t, c)}])

-----------------------------------------------------------------------------
(* What it does not promise: tables that refer to each other in a circle;  *)
(* and a foreign key that is put on another table, or on none, in its      *)
(* place, which is not compared.                                           *)
Beyond(old, new) ==
  \/ Circular(old) \/ Circular(new)
  \/ LET renamed == Run(old, SetToSeq(TableRenames(old, new)), FALSE) IN
     \E t \in DOMAIN renamed \cap DOMAIN new :
       \E c \in DOMAIN renamed[t].columns \cap DOMAIN new[t].columns :
         renamed[t].columns[c].fk # new[t].columns[c].fk

Orders == SetToSeqs(Tables)

(* Names of tables sort in any order, those that are added as they refer.  *)
MayBeOrder(tables) ==
  LET added == DOMAIN models \ DOMAIN files IN
  Circular(models) \/ \A i, j \in DOMAIN tables :
    i < j /\ {tables[i], tables[j]} \subseteq added => tables[j] \notin References(models[tables[i]])

(* makemigrations, without or with --accept-renames *)
MakeMigrations(tables, accept) ==
  LET list == Detected(files, models, tables)
      new == OrderOperations(IF accept THEN AcceptRenames(list) ELSE list)
  IN
  /\ phase = "editing" /\ files # Failed /\ MayBeOrder(tables)
  /\ list # <<>> /\ (accept => Renames(list) # {})
  /\ Promised => ~Beyond(files, models)
  /\ files' = Run(files, new, FALSE)
  /\ plan' = plan \o new
  /\ phase' = "written"
  /\ UNCHANGED <<models, database, before, nedits>>

Migrate ==
  LET after == Run(database, plan, TRUE) IN
  /\ phase \in {"editing", "written", "unapplied"} /\ plan # <<>>
  /\ IF after = Failed THEN phase' = "refused" /\ UNCHANGED database
     ELSE phase' = "applied" /\ database' = after
  /\ UNCHANGED <<models, files, plan, before, nedits>>

Rollback ==
  LET after == Run(database, Undoing(plan), TRUE) IN
  /\ phase = "applied" /\ plan # <<>>
  /\ IF after = Failed THEN phase' = "stuck" /\ UNCHANGED database
     ELSE phase' = "unapplied" /\ database' = after
  /\ UNCHANGED <<models, files, plan, before, nedits>>

Next ==
  \/ \E t \in Tables :
       \/ \E m \in Models : NewModel(m, t)
       \/ RemoveModel(t)
       \/ \E u \in Tables : MoveModel(t, u)
       \/ \E c \in Columns :
            \/ \E def \in Definition : SetField(t, c, def)
            \/ RemoveField(t, c) \/ ChangeIndex(t, c)
            \/ \E d \in Columns : RenameField(t, c, d)
  \/ \E tables \in Orders, accept \in BOOLEAN :
       MakeMigrations(tables, accept)
  \/ Migrate \/ Rollback

Spec == Init /\ [][Next]_vars

-----------------------------------------------------------------------------
(* A column with an index, renamed through --accept-renames: the new index *)
(* is added before the column has its name.                                *)
IndexedRename ==
  \E i, j \in DOMAIN plan :
    /\ plan[i].kind = "RenameField" /\ plan[j].kind = "AddIndex"
    /\ plan[j].table = plan[i].table /\ plan[j].index.on = plan[i].new

(* Whatever the order in which names sort, the migrations produce what the *)
(* models declare, and apply to a database that checks foreign keys; but   *)
(* not those that --accept-renames makes of a renamed column that has an   *)
(* index: "makemigrations --accept-renames writes a RenameField for them   *)
(* instead, keeping the data" does not hold of these, which do not apply.  *)
PlansReachTheModels ==
  ~IndexedRename =>
    /\ phase = "written" => Shape(files) = Shape(models)
    /\ phase = "applied" => Shape(database) = Shape(files)
    /\ phase # "refused"

(* "Rollback runs a migration's operations in reverse": they undo what was *)
(* done, to the foreign keys and indexes of tables that are gone.          *)
RollbacksRestore ==
  /\ phase = "unapplied" => Shape(database) = Shape(before)
  /\ phase # "stuck"
=============================================================================
