----------------------------- MODULE Optimizer -----------------------------
(***************************************************************************)
(* What squashmigrations makes of the operations of the migrations it      *)
(* replaces (zeeb_orm/migrations/optimizer.py), against the operations     *)
(* applied to a database.                                                  *)
(*                                                                         *)
(* A schema maps the tables there are to their columns, a column has a     *)
(* type, a comment, an index and the table its foreign key references.     *)
(* RunSQL stands for everything opaque: what it does depends on the schema *)
(* it finds, so that the schemas it found are part of the effect.          *)
(***************************************************************************)
EXTENDS Integers, Sequences, FiniteSets, SequencesExt

CONSTANTS
  Tables, Columns,
  NoTable,       \* no foreign key
  MaxOperations  \* bound: the length of a list

VARIABLES
  ops,     \* the operations of the migrations, which apply one after another
  effect   \* what they did: the schema now, and those RunSQL found

vars == <<ops, effect>>

Definition == [fk : Tables \cup {NoTable}, type : {1, 2}, comment : BOOLEAN]
Column == [def : Definition, index : BOOLEAN]

Plain(fk) == [fk |-> fk, type |-> 1, comment |-> FALSE]

(* Operations as the autodetector writes them, and by hand.                *)
Operations ==
       [kind : {"CreateModel"}, table : Tables,
        columns : UNION {[cs -> {Plain(fk) : fk \in Tables \cup {NoTable}}] : cs \in SUBSET Columns}]
  \cup [kind : {"DeleteModel"}, table : Tables]
  \cup [kind : {"AddField"}, table : Tables, name : Columns,
        def : {Plain(fk) : fk \in Tables \cup {NoTable}}]
  \cup [kind : {"RemoveField", "AddIndex", "RemoveIndex"}, table : Tables, name : Columns]
  \cup [kind : {"AlterField"}, table : Tables, name : Columns, comments : BOOLEAN]
  \cup {[kind |-> "RenameModel", old |-> t, new |-> u] : t, u \in Tables}
  \cup [kind : {"RunSQL"}]

TypeOK ==
  /\ Len(ops) \in 0 .. MaxOperations
  /\ \A t \in DOMAIN effect.schema : \A c \in DOMAIN effect.schema[t] :
       effect.schema[t][c] \in Column

-----------------------------------------------------------------------------
(* The database. *)

References(schema, t) ==
  {u \in DOMAIN schema : \E c \in DOMAIN schema[u] : schema[u][c].def.fk = t}

CanReference(schema, t, def) == def.fk \in DOMAIN schema \cup {t, NoTable}

HasColumn(schema, op) == op.table \in DOMAIN schema /\ op.name \in DOMAIN schema[op.table]

Applies(op, schema) ==
  CASE op.kind = "CreateModel" ->
         /\ op.table \notin DOMAIN schema
         /\ \A c \in DOMAIN op.columns : CanReference(schema, op.table, op.columns[c])
    [] op.kind = "DeleteModel" ->
         op.table \in DOMAIN schema /\ References(schema, op.table) \subseteq {op.table}
    [] op.kind = "AddField" ->
         /\ op.table \in DOMAIN schema /\ ~HasColumn(schema, op)
         /\ CanReference(schema, op.table, op.def)
    [] op.kind \in {"RemoveField", "AddIndex"} ->
         HasColumn(schema, op) /\ ~schema[op.table][op.name].index
    [] op.kind = "RemoveIndex" ->
         HasColumn(schema, op) /\ schema[op.table][op.name].index
    [] op.kind = "AlterField" -> HasColumn(schema, op)
    [] op.kind = "RenameModel" -> op.old \in DOMAIN schema /\ op.new \notin DOMAIN schema
    [] op.kind = "RunSQL" -> TRUE

With(schema, t, columns) ==
  [u \in DOMAIN schema \cup {t} |-> IF u = t THEN columns ELSE schema[u]]

SetColumn(schema, op, column) ==
  With(schema, op.table,
       [c \in DOMAIN schema[op.table] \cup {op.name} |->
          IF c = op.name THEN column ELSE schema[op.table][c]])

NewColumn(def) == [def |-> def, index |-> FALSE]

Altered(def, op) == [def EXCEPT !.type = 2, !.comment = @ \/ op.comments]

Renamed(op, schema) ==
  LET to(t) == IF t = op.old THEN op.new ELSE t
      from(t) == IF t = op.new THEN op.old ELSE t
  IN [t \in {to(u) : u \in DOMAIN schema} |->
        [c \in DOMAIN schema[from(t)] |->
           [schema[from(t)][c] EXCEPT !.def.fk = to(@)]]]

Without(f, x) == [y \in DOMAIN f \ {x} |-> f[y]]

Created(op, schema) ==
  With(schema, op.table, [c \in DOMAIN op.columns |-> NewColumn(op.columns[c])])

Dropped(op, schema) == Without(schema, op.table)

Added(op, schema) == SetColumn(schema, op, NewColumn(op.def))

Removed(op, schema) == With(schema, op.table, Without(schema[op.table], op.name))

Indexed(op, schema, is) ==
  SetColumn(schema, op, [schema[op.table][op.name] EXCEPT !.index = is])

Redefined(op, schema) ==
  SetColumn(schema, op, [schema[op.table][op.name] EXCEPT !.def = Altered(@, op)])

Changed(op, schema) ==
  CASE op.kind = "CreateModel" -> Created(op, schema)
    [] op.kind = "DeleteModel" -> Dropped(op, schema)
    [] op.kind = "AddField"    -> Added(op, schema)
    [] op.kind = "RemoveField" -> Removed(op, schema)
    [] op.kind = "AddIndex"    -> Indexed(op, schema, TRUE)
    [] op.kind = "RemoveIndex" -> Indexed(op, schema, FALSE)
    [] op.kind = "AlterField"  -> Redefined(op, schema)
    [] op.kind = "RenameModel" -> Renamed(op, schema)
    [] op.kind = "RunSQL"      -> schema

Failed == [failed |-> TRUE]

(* One more operation; a failure stays one. *)
After(eff, op) ==
  IF eff = Failed THEN Failed
  ELSE IF ~Applies(op, eff.schema) THEN Failed
  ELSE [schema |-> Changed(op, eff.schema),
        found |-> IF op.kind = "RunSQL" THEN Append(eff.found, eff.schema) ELSE eff.found]

NoEffect == [schema |-> <<>>, found |-> <<>>]

RECURSIVE EffectOf(_)
EffectOf(list) ==
  IF list = <<>> THEN NoEffect ELSE After(EffectOf(Front(list)), Last(list))

-----------------------------------------------------------------------------
(* The optimizer. *)

\* Mutated: the table an operation names, not what its keys reference.
OwnTable(op) ==
  CASE op.kind = "RunSQL" -> Tables
    [] op.kind = "RenameModel" -> {op.old, op.new}
    [] OTHER -> {op.table}

(* _tables(): with those its foreign keys reference; of RunSQL, all.       *)
TablesOf(op) ==
  CASE op.kind = "RunSQL" -> Tables
    [] op.kind = "RenameModel" -> {op.old, op.new}
    [] op.kind = "CreateModel" ->
         {op.table} \cup ({op.columns[c].fk : c \in DOMAIN op.columns} \ {NoTable})
    [] op.kind = "AddField" -> {op.table} \cup ({op.def.fk} \ {NoTable})
    [] OTHER -> {op.table}

IsBarrier(a, b) ==
  \/ "RunSQL" \in {a.kind, b.kind}
  \/ TablesOf(a) \cap TablesOf(b) # {}

CanMoveBack(op, between) == \A k \in DOMAIN between : ~IsBarrier(between[k], op)

IsPair(current, first, later, second) == current.kind = first /\ later.kind = second

SameField(current, later) == current.table = later.table /\ current.name = later.name

(* Two operations that become one. *)
Fuses(current, later, between) ==
  /\ CanMoveBack(later, between)
  /\ \/ IsPair(current, "CreateModel", later, "AddField") /\ current.table = later.table
     \/ /\ IsPair(current, "AddField", later, "AlterField")
        /\ SameField(current, later) /\ ~later.comments

(* Two operations that cancel out. *)
Cancels(current, later) ==
  \/ IsPair(current, "CreateModel", later, "DeleteModel") /\ current.table = later.table
  \/ IsPair(current, "AddField", later, "RemoveField") /\ SameField(current, later)
  \/ IsPair(current, "AddIndex", later, "RemoveIndex") /\ SameField(current, later)

Fused(current, later) ==
  IF current.kind = "CreateModel"
  THEN [current EXCEPT !.columns =
          [c \in DOMAIN @ \cup {later.name} |-> IF c = later.name THEN later.def ELSE @[c]]]
  ELSE [current EXCEPT !.def = Altered(@, later)]

(* The later operation the first one combines with: the first that does,   *)
(* before any that blocks it.                                              *)
Partners(list) ==
  {j \in 2 .. Len(list) :
     /\ Cancels(list[1], list[j]) \/ Fuses(list[1], list[j], SubSeq(list, 2, j - 1))
     /\ \A k \in 2 .. j - 1 : ~IsBarrier(list[1], list[k])}

RECURSIVE OnePass(_)
OnePass(list) ==
  IF list = <<>> THEN <<>>
  ELSE IF Partners(list) = {} THEN <<list[1]>> \o OnePass(Tail(list))
  ELSE LET j == Min(Partners(list))
           rest == OnePass(Tail(RemoveAt(list, j)))
       IN IF Cancels(list[1], list[j]) THEN rest ELSE <<Fused(list[1], list[j])>> \o rest

RECURSIVE Optimize(_)
Optimize(list) ==
  LET once == OnePass(list) IN IF once = list THEN list ELSE Optimize(once)

-----------------------------------------------------------------------------
Init == ops = <<>> /\ effect = NoEffect

Add(op) ==
  /\ Len(ops) < MaxOperations
  /\ Applies(op, effect.schema)
  /\ ops' = Append(ops, op)
  /\ effect' = After(effect, op)

Next == \E op \in Operations : Add(op)

Spec == Init /\ [][Next]_vars

(* "the smallest equivalent set": the optimized list applies wherever the  *)
(* list does, leaves the same schema, and whatever is opaque to it runs in *)
(* the same order on the same schemas.                                     *)
OptimizedListsAreEquivalent == EffectOf(Optimize(ops)) = effect
=============================================================================
