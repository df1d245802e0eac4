------------------------------ MODULE Deletion ------------------------------
(***************************************************************************)
(* Model.delete() and QuerySet.delete() through the Collector              *)
(* (zeeb_orm/models/deletion.py), in one transaction of a database, while  *)
(* other transactions commit rows that refer to what is being deleted.     *)
(*                                                                         *)
(* A schema is the sequence of its foreign keys in the order of the model  *)
(* registry: from, to, the rule on_delete, and the value SET_NULL and      *)
(* SET_DEFAULT put.  The columns of automatic many-to-many tables are      *)
(* foreign keys with the rule JOIN of a model of their own.                *)
(***************************************************************************)
EXTENDS Integers, Sequences, FiniteSets, SequencesExt

CONSTANTS
  Rows,     \* primary keys; a row is of one model
  NoRow,    \* NULL
  modelOf,  \* the model of each row
  Sites     \* databases: a schema, and whether foreign keys are enforced

VARIABLES
  site,      \* the database this happens on
  phase,     \* idle, collecting, updating, deleting, or how the call ended
  rows, ref, \* the rows that are there, and their foreign keys
  frames,    \* the calls of _collect that have not returned
  order,     \* the keys of Collector.data in order of insertion
  data,      \* the instances in Collector.data
  updates,   \* field_updates
  refused,   \* the rows in _protected and in _restricted
  total,     \* the number of rows delete() counts
  roots,     \* history: the objects delete() was called for
  whole,     \* history: the database had nothing been deleted
  added,     \* history: the rows that were added during the call
  overtaken, \* history: foreign keys of models collected before what they refer to
  missed     \* history: rows that had gone when their pre_delete was sent

collector == <<frames, order, data, updates, refused, total>>
history == <<roots, whole, added, overtaken, missed>>
vars == <<site, phase, rows, ref, collector, history>>

fks == site.schema
Ended == {"done", "protected", "restricted", "error"}

NoRefs == [i \in DOMAIN fks |-> NoRow]

(* Whether a row may refer to another by a foreign key. *)
MayRefer(r, i, target) ==
  target # NoRow => fks[i].from = modelOf[r] /\ fks[i].to = modelOf[target]

TypeOK ==
  /\ site \in Sites
  /\ phase \in {"idle", "collecting", "updating", "deleting"} \cup Ended
  /\ rows \subseteq Rows
  /\ \A r \in Rows : \A i \in DOMAIN fks :
       ref[r][i] \in Rows \cup {NoRow} /\ MayRefer(r, i, ref[r][i])
  /\ IsInjective(order)
  /\ phase \in {"collecting", "updating"} => {modelOf[r] : r \in data} = ToSet(order)
  /\ refused.protected \cup refused.restricted \subseteq Rows
  /\ total \in 0 .. Cardinality(data)

Init ==
  /\ site \in Sites
  /\ phase = "idle"
  /\ rows = {} /\ ref = [r \in Rows |-> NoRefs]
  /\ frames = <<>> /\ order = <<>> /\ data = {} /\ updates = <<>>
  /\ refused = [protected |-> {}, restricted |-> {}]
  /\ total = 0 /\ roots = {} /\ missed = {} /\ added = {} /\ overtaken = {}
  /\ whole = [rows |-> {}, ref |-> [r \in Rows |-> NoRefs]]

-----------------------------------------------------------------------------
(* The database, and other transactions. *)

(* A row is saved with a reference to another.  During the call and where  *)
(* the database checks foreign keys, other transactions add rows.          *)
Save(r, i, target) ==
  /\ \/ phase = "idle"
     \/ phase \notin Ended /\ site.enforced /\ r \notin whole.rows
  /\ modelOf[r] \in {fks[i].from, fks[i].to}
  /\ target \in rows \cup {NoRow} /\ MayRefer(r, i, target)
  /\ rows' = rows \cup {r}
  /\ ref' = [ref EXCEPT ![r][i] = target]
  /\ whole' = [rows |-> whole.rows \cup {r}, ref |-> [whole.ref EXCEPT ![r][i] = target]]
  /\ added' = IF phase = "idle" THEN {} ELSE added \cup {r}
  /\ UNCHANGED <<site, phase, collector, roots, overtaken, missed>>

(* The least set of rows of a graph that holds some and is closed under    *)
(* the references with certain rules.                                      *)
Closure(some, there, refs, rules) ==
  {r \in there : \A S \in SUBSET there :
     /\ some \cap there \subseteq S
     /\ \A s \in there, i \in DOMAIN fks :
          fks[i].rule \in rules /\ refs[s][i] \in S => s \in S
     => r \in S}

(* to_db_ondelete: the ON DELETE clause of a rule. *)
DbRule(rule) ==
  CASE rule \in {"CASCADE", "JOIN"} -> "CASCADE"
    [] rule \in {"SET_NULL", "SET_DEFAULT"} -> "SET"
    [] OTHER -> "RESTRICT"

CascadingRules == {rule \in {fks[i].rule : i \in DOMAIN fks} : DbRule(rule) = "CASCADE"}

(* DELETE ... WHERE pk IN pks, as the database executes it. *)
Gone(pks, there) ==
  IF site.enforced THEN Closure(pks, there, ref, CascadingRules) ELSE pks \cap there

IsRefused(gone, there) ==
  /\ site.enforced
  /\ \E r \in there \ gone, i \in DOMAIN fks :
       DbRule(fks[i].rule) = "RESTRICT" /\ ref[r][i] \in gone

SettingRules == {"SET_NULL", "SET_DEFAULT"}

(* The references of a row, with a value for those to rows that go, where  *)
(* the rule puts one.                                                      *)
Redirected(r, gone, values) ==
  [i \in DOMAIN fks |->
     IF fks[i].rule \in SettingRules /\ ref[r][i] \in gone THEN values[i] ELSE ref[r][i]]

(* What the clauses SET NULL and SET DEFAULT put: the tables are built     *)
(* without a server default, so both put NULL; where the column allows     *)
(* none the delete fails, but all foreign keys here do.                    *)
DbValues == NoRefs

(* The transaction rolls back; what others committed stays. *)
Fail(how) ==
  /\ phase' = how
  /\ rows' = whole.rows /\ ref' = whole.ref

-----------------------------------------------------------------------------
(* collect() *)

Top == Last(frames)

(* The reverse foreign keys the call still has to follow; the rule of a    *)
(* join table is none of them.                                             *)
Remaining(frame) ==
  {i \in frame.fk .. Len(fks) :
     fks[i].to = frame.model /\ fks[i].rule \notin {"DO_NOTHING", "JOIN"}}

\* Mutated: a model is put behind the others again.
InOrderAgain(model) == Append(order, model)

InOrder(model) == IF Contains(order, model) THEN order ELSE Append(order, model)

(* _collect(objs), all of one model: what is collected is not again. *)
New(objs) == objs \ data

Call(calls, objs) ==
  IF New(objs) = {}
  THEN frames' = calls /\ UNCHANGED <<data, order>>
  ELSE LET model == modelOf[CHOOSE o \in objs : TRUE] IN
       /\ frames' = Append(calls, [model |-> model, pks |-> New(objs), fk |-> 1])
       /\ data' = data \cup New(objs)
       /\ order' = InOrder(model)

Delete(objs) ==
  /\ phase = "idle" /\ objs # {} /\ Cardinality({modelOf[o] : o \in objs}) = 1
  /\ phase' = "collecting"
  /\ roots' = objs
  /\ Call(<<>>, objs)
  /\ UNCHANGED <<site, rows, ref, updates, refused, total, whole, added, overtaken, missed>>

(* One reverse foreign key of the innermost call, with the query it needs. *)
Follow ==
  /\ phase = "collecting" /\ frames # <<>> /\ Remaining(Top) # {}
  /\ LET i == Min(Remaining(Top))
         rule == fks[i].rule
         refs == {r \in rows : ref[r][i] \in Top.pks}
         calls == [frames EXCEPT ![Len(frames)].fk = i + 1]
     IN
     \/ /\ rule \in SettingRules
        /\ updates' = Append(updates, [fk |-> i, pks |-> Top.pks])
        /\ frames' = calls
        /\ UNCHANGED <<order, data, refused>>
     \/ /\ rule = "PROTECT"
        /\ refused' = [refused EXCEPT !.protected = @ \cup refs]
        /\ frames' = calls
        /\ UNCHANGED <<order, data, updates>>
     \/ /\ rule = "RESTRICT"
        /\ refused' = [refused EXCEPT !.restricted = @ \cup refs]
        /\ frames' = calls
        /\ UNCHANGED <<order, data, updates>>
     \/ /\ rule = "CASCADE"
        /\ Call(calls, refs)
        /\ UNCHANGED <<updates, refused>>
  /\ UNCHANGED <<site, phase, rows, ref, total, history>>

Return ==
  /\ phase = "collecting" /\ frames # <<>> /\ Remaining(Top) = {}
  /\ frames' = Front(frames)
  /\ UNCHANGED <<site, phase, rows, ref, order, data, updates, refused, total, history>>

\* Mutated: whether its row is deleted, too, or not.
RestrictingAlways == refused.restricted

(* What a RESTRICT reference counts for once everything is collected. *)
Restricting == refused.restricted \ data

Check ==
  /\ phase = "collecting" /\ frames = <<>>
  /\ \/ refused.protected # {} /\ Fail("protected")
     \/ refused.protected = {} /\ Restricting # {} /\ Fail("restricted")
     \/ /\ refused.protected = {} /\ Restricting = {}
        /\ phase' = "updating"
        /\ UNCHANGED <<rows, ref>>
  /\ UNCHANGED <<site, collector, history>>

-----------------------------------------------------------------------------
(* delete() *)

Update ==
  /\ phase = "updating" /\ updates # <<>>
  /\ LET u == Head(updates)
         value == fks[u.fk].value
         hit == {r \in rows : ref[r][u.fk] \in u.pks}
     IN IF site.enforced /\ hit # {} /\ value \notin rows \cup {NoRow}
        THEN Fail("error") /\ UNCHANGED updates
        ELSE /\ ref' = [r \in Rows |-> IF r \in hit THEN [ref[r] EXCEPT ![u.fk] = value]
                                       ELSE ref[r]]
             /\ updates' = Tail(updates)
             /\ UNCHANGED <<phase, rows>>
  /\ UNCHANGED <<site, frames, order, data, refused, total, history>>

\* Mutated: parents first.
RootsFirst == order

(* delete_order: children are collected after their parents. *)
DeleteOrder == Reverse(order)

StartDeletes ==
  /\ phase = "updating" /\ updates = <<>>
  /\ phase' = "deleting"
  /\ order' = DeleteOrder
  /\ overtaken' = {i \in DOMAIN fks : \E m, n \in DOMAIN order :
                     m < n /\ order[m] = fks[i].from /\ order[n] = fks[i].to}
  /\ UNCHANGED <<site, rows, ref, frames, data, updates, refused, total,
                 roots, whole, added, missed>>

\* Mutated: only one of the two directions is found.
OneLink(pks) ==
  {r \in rows : \E i \in DOMAIN fks :
     fks[i].rule = "JOIN" /\ ref[r][i] \in pks
     /\ \A j \in DOMAIN fks : fks[j].rule = "JOIN" => i <= j}

(* The rows of automatic many-to-many tables that refer to what goes. *)
Links(pks) ==
  {r \in rows : \E i \in DOMAIN fks : fks[i].rule = "JOIN" /\ ref[r][i] \in pks}

(* A model: the signals, the join tables, and its rows. *)
DeleteModel ==
  /\ phase = "deleting" /\ order # <<>>
  /\ LET pks == {r \in data : modelOf[r] = Head(order)}
         there == rows \ Links(pks)
         gone == Gone(pks, there)
     IN
     /\ missed' = missed \cup (pks \ rows)
     /\ IF IsRefused(gone, there)
        THEN Fail("error") /\ UNCHANGED <<order, total>>
        ELSE /\ rows' = there \ gone
             /\ ref' = [r \in Rows |->
                  IF r \notin there \ gone THEN NoRefs
                  ELSE IF site.enforced THEN Redirected(r, gone, DbValues)
                  ELSE ref[r]]
             /\ total' = total + Cardinality(pks \cap rows)
             /\ order' = Tail(order)
             /\ UNCHANGED phase
  /\ UNCHANGED <<site, frames, data, updates, refused, roots, whole, added, overtaken>>

Commit ==
  /\ phase = "deleting" /\ order = <<>>
  /\ phase' = "done"
  /\ UNCHANGED <<site, rows, ref, collector, history>>

Next ==
  \/ \E r \in Rows, i \in DOMAIN fks, target \in rows \cup {NoRow} : Save(r, i, target)
  \/ \E objs \in SUBSET rows : Delete(objs)
  \/ Follow \/ Return \/ Check
  \/ Update \/ StartDeletes \/ DeleteModel \/ Commit

Spec == Init /\ [][Next]_vars

-----------------------------------------------------------------------------
(* What delete() is to remove: the rows that reach the roots by CASCADE. *)
Doomed == Closure(roots, whole.rows, whole.ref, {"CASCADE"})

(* A delete that returns has removed what cascades from its objects, rows  *)
(* of join tables that refer to it, and nothing else; the other rows have  *)
(* NULL or the default where they referred to it.  That holds of the rows  *)
(* other transactions added before the delete was through, too, except     *)
(* that the clause SET DEFAULT puts NULL ("Set the referencing foreign key *)
(* column to the field default" does not hold there): in a row added after *)
(* the collector's own UPDATE, and where the default goes as well.         *)
DeletesAreWhole ==
  phase = "done" =>
    LET doomed == Doomed
        linked == {r \in whole.rows : \E i \in DOMAIN fks :
                     fks[i].rule = "JOIN" /\ whole.ref[r][i] \in doomed}
        right(r, i) ==
          IF fks[i].rule \in SettingRules /\ whole.ref[r][i] \in doomed
          THEN \/ ref[r][i] = fks[i].value /\ (site.enforced => fks[i].value \notin doomed)
               \/ /\ ref[r][i] = NoRow /\ site.enforced
                  /\ r \in added \/ fks[i].value \in doomed
          ELSE ref[r][i] = whole.ref[r][i]
    IN /\ rows = whole.rows \ (doomed \cup linked)
       /\ \A r \in rows : \A i \in DOMAIN fks : right(r, i)

(* PROTECT refuses always and RESTRICT unless the row that refers goes as  *)
(* well; the database refuses what a transaction added in between, rows    *)
(* the rules leave alone, and a default that is not there.  It refuses by  *)
(* RESTRICT, too, where the row that refers goes, but its model had been   *)
(* collected before the one it refers to and so is deleted after it (that  *)
(* "children were collected after their parents" does not hold of a model  *)
(* with two parents): "unless those rows are themselves deleted in the     *)
(* same operation" holds in the other orders of the registry only.         *)
RefusalsAreRight ==
  phase \in Ended =>
    LET doomed == Doomed
        stay == whole.rows \ doomed
        refer(rule, from) == {r \in from : \E i \in DOMAIN fks :
                                fks[i].rule = rule /\ whole.ref[r][i] \in doomed}
    IN CASE phase = "done" ->
              refer("PROTECT", whole.rows) = {} /\ refer("RESTRICT", stay) = {}
         [] phase = "protected" -> refer("PROTECT", whole.rows) # {}
         [] phase = "restricted" -> added # {} \/ refer("RESTRICT", stay) # {}
         [] phase = "error" ->
              /\ site.enforced
              /\ \/ added # {}
                 \/ refer("DO_NOTHING", stay) # {}
                 \/ \E i \in DOMAIN fks :
                      fks[i].rule = "SET_DEFAULT" /\ fks[i].value \notin whole.rows
                 \/ \E i \in overtaken, r \in data :
                      fks[i].rule = "RESTRICT" /\ whole.ref[r][i] \in data

(* What the database takes before its turn: rows that refer by CASCADE to  *)
(* a model deleted before their own, and what cascades from them.          *)
Overtaken ==
  LET first == {r \in data : \E i \in overtaken :
                  fks[i].rule = "CASCADE" /\ whole.ref[r][i] \in data}
  IN IF site.enforced THEN Closure(first, whole.rows, whole.ref, {"CASCADE"}) ELSE {}

(* pre_delete is sent while the row is there, and each row is counted once *)
(* ("for every collected instance before its row is deleted").  That does  *)
(* not hold of a child the registry has before its other parent, which is  *)
(* deleted first: the database has cascaded to it by then, so its signal   *)
(* is late and the count without it.  No other row is missed.              *)
SignalsPrecedeDeletes ==
  /\ missed # {} => missed \subseteq Overtaken
  /\ phase = "done" => total \in Cardinality(data \ Overtaken) .. Cardinality(data)
=============================================================================
