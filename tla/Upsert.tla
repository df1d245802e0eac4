------------------------------- MODULE Upsert -------------------------------
(***************************************************************************)
(* get_or_create() and update_or_create() of one unique key                *)
(* (zeeb_orm/query/queryset.py) by several tasks, each with a transaction  *)
(* of its own, while other calls delete the row.  The database commits     *)
(* reads (READ COMMITTED), locks the row that a transaction has written or *)
(* selected FOR UPDATE, and makes an insert of a key wait for another one. *)
(* It locks no row that is not there: MySQL's default of REPEATABLE READ,  *)
(* whose gap locks can end two such calls in a deadlock, is not modelled.  *)
(***************************************************************************)
EXTENDS Integers

CONSTANTS
  Tasks,     \* the callers
  NoTask,    \* nobody
  Dialects,  \* of "postgresql", "mysql" and "sqlite"
  MaxCalls   \* bound: calls made

ASSUME UpsertAssumption ==
  /\ NoTask \notin Tasks
  /\ Dialects \subseteq {"postgresql", "mysql", "sqlite"}
  /\ MaxCalls \in Nat

VARIABLES
  dialect,
  row,     \* the committed row; each task writes a column of its own
  locker,  \* the task whose transaction holds the row or the key
  pending, \* the row as that transaction sees it
  call,    \* where each task is, and the row its instance was loaded from
  ncalls,  \* calls made, rows made
  nrows,
  outcome, \* history: how the last call of each task ended
  deleted  \* history: during whose calls the row was deleted

database == <<dialect, row, locker, pending>>
vars == <<database, call, ncalls, nrows, outcome, deleted>>

NoRow == [id |-> 0, by |-> [t \in Tasks |-> NoTask]]

(* What t writes: the columns among its defaults. *)
Fresh(t) == [id |-> nrows + 1, by |-> [NoRow.by EXCEPT ![t] = t]]

RowType == [id : Nat, by : [Tasks -> Tasks \cup {NoTask}]]
(* get_or_create(), and update_or_create() with defaults that all name     *)
(* fields, that do not, or without any.                                    *)
Kinds == {"get", "update", "save", "nothing"}
Places == {"idle", "lookup", "create", "again", "update", "commit"}

TypeOK ==
  /\ dialect \in Dialects
  /\ row \in RowType /\ pending \in RowType
  /\ locker \in Tasks \cup {NoTask}
  /\ locker # NoTask => call[locker].at # "idle"
  /\ call \in [Tasks -> [what : Kinds, at : Places, loaded : RowType]]
  /\ ncalls \in 0 .. MaxCalls /\ nrows \in Nat
  /\ outcome \in [Tasks -> {"none", "ok", "error"}]
  /\ deleted \subseteq Tasks

Idle == [what |-> "get", at |-> "idle", loaded |-> NoRow]

Init ==
  /\ dialect \in Dialects
  /\ row = NoRow /\ locker = NoTask /\ pending = NoRow
  /\ call = [t \in Tasks |-> Idle]
  /\ ncalls = 0 /\ nrows = 0
  /\ outcome = [t \in Tasks |-> "none"]
  /\ deleted = {}

-----------------------------------------------------------------------------
Exists(r) == r.id # 0
Free(t) == locker \in {NoTask, t}
Updates(t) == call[t].what # "get"

Goto(t, at) == call' = [call EXCEPT ![t].at = at]
Load(t, at, r) == call' = [call EXCEPT ![t].at = at, ![t].loaded = r]

Unlock(t) ==
  /\ locker' = IF locker = t THEN NoTask ELSE locker
  /\ pending' = IF locker = t THEN NoRow ELSE pending

Return(t, how) ==
  /\ call' = [call EXCEPT ![t] = Idle]
  /\ outcome' = [outcome EXCEPT ![t] = how]

Start(t, what) ==
  /\ call[t].at = "idle" /\ ncalls < MaxCalls
  /\ call' = [call EXCEPT ![t] = [Idle EXCEPT !.what = what, !.at = "lookup"]]
  /\ ncalls' = ncalls + 1
  /\ deleted' = deleted \ {t}
  /\ UNCHANGED <<database, nrows, outcome>>

(* update_or_create() selects FOR UPDATE, but not on SQLite. *)
Locks(t) == Updates(t) /\ dialect # "sqlite"

(* The row as a query of t reads it. *)
Read(t) == IF locker = t THEN pending ELSE row

(* self.get() that finds the row: update_or_create() waits for it where it *)
(* locks it, and goes on with it if it has something to write.             *)
Found(t) ==
  /\ Exists(Read(t)) /\ (Locks(t) => Free(t))
  /\ \/ /\ call[t].what \in {"update", "save"} /\ Locks(t)
        /\ locker' = t /\ pending' = Read(t)
        /\ Load(t, "update", Read(t))
        /\ UNCHANGED outcome
     \/ /\ call[t].what \in {"update", "save"} /\ ~Locks(t)
        /\ Load(t, "update", Read(t))
        /\ UNCHANGED <<locker, pending, outcome>>
     \/ /\ call[t].what \in {"get", "nothing"}
        /\ Return(t, "ok") /\ Unlock(t)

Lookup(t) ==
  /\ call[t].at = "lookup"
  /\ \/ Found(t)
     \/ /\ ~Exists(Read(t))
        /\ Goto(t, "create")
        /\ UNCHANGED <<locker, pending, outcome>>
  /\ UNCHANGED <<dialect, row, ncalls, nrows, deleted>>

\* Mutated: inside a transaction there is none.
HasOwnTransaction(t) == ~Updates(t)

(* Whether the insert has a block of its own: a transaction, a savepoint.  *)
HasBlock(t) == ~Updates(t) \/ dialect # "sqlite"

(* IntegrityError: the block rolls back, where there is one; without one   *)
(* SQLite keeps the transaction, MySQL too, and PostgreSQL aborts it.      *)
Create(t) ==
  /\ call[t].at = "create" /\ Free(t)
  /\ \/ /\ Exists(row) /\ HasBlock(t)
        /\ Goto(t, "again")
        /\ UNCHANGED <<locker, pending, outcome, nrows>>
     \/ /\ Exists(row) /\ ~HasBlock(t)
        /\ IF dialect = "postgresql"
           THEN Return(t, "error") /\ UNCHANGED <<locker, pending>>
           ELSE locker' = t /\ pending' = row /\ Goto(t, "again") /\ UNCHANGED outcome
        /\ UNCHANGED nrows
     \/ /\ ~Exists(row)
        /\ locker' = t /\ pending' = Fresh(t)
        /\ nrows' = nrows + 1
        /\ Load(t, "commit", Fresh(t))
        /\ UNCHANGED outcome
  /\ UNCHANGED <<dialect, row, ncalls, deleted>>

(* The lookup repeated; the error goes on when the row is not there. *)
Again(t) ==
  /\ call[t].at = "again"
  /\ \/ Found(t)
     \/ ~Exists(Read(t)) /\ Return(t, "error") /\ Unlock(t)
  /\ UNCHANGED <<dialect, row, ncalls, nrows, deleted>>

(* All columns of the instance. *)
Whole(t) == [call[t].loaded EXCEPT !.by[t] = t]

\* Mutated: a full save of the instance, always.
WrittenWhole(t, r) == Whole(t)

(* The columns save() writes over a row: those of update_fields, or, where *)
(* one of the defaults names no field, all.                                *)
Written(t, r) == IF call[t].what = "save" THEN Whole(t) ELSE [r EXCEPT !.by[t] = t]

(* An update that matches no row is a DatabaseError, a full save inserts   *)
(* the row again, which is an IntegrityError if there is another one.      *)
Update(t) ==
  LET r == Read(t)
      matches == Exists(r) /\ r.id = call[t].loaded.id
      again == call[t].what = "save" /\ ~Exists(r)
  IN
  /\ call[t].at = "update" /\ Free(t)
  /\ \/ /\ matches \/ again
        /\ locker' = t /\ pending' = Written(t, r)
        /\ Goto(t, "commit")
        /\ UNCHANGED outcome
     \/ /\ ~matches /\ ~again
        /\ Return(t, "error") /\ Unlock(t)
  /\ UNCHANGED <<dialect, row, ncalls, nrows, deleted>>

Commit(t) ==
  /\ call[t].at = "commit"
  /\ row' = pending
  /\ Unlock(t)
  /\ Return(t, "ok")
  /\ UNCHANGED <<dialect, ncalls, nrows, deleted>>

(* The call is cancelled or the connection lost: the transaction is undone. *)
Cancel(t) ==
  /\ call[t].at # "idle"
  /\ Return(t, "none")
  /\ Unlock(t)
  /\ UNCHANGED <<dialect, row, ncalls, nrows, deleted>>

(* Somebody deletes the row. *)
Delete ==
  /\ Exists(row) /\ locker = NoTask
  /\ row' = NoRow
  /\ deleted' = deleted \cup {t \in Tasks : call[t].at # "idle"}
  /\ UNCHANGED <<dialect, locker, pending, call, ncalls, nrows, outcome>>

Next ==
  \/ \E t \in Tasks :
       \/ \E what \in Kinds : Start(t, what)
       \/ Lookup(t) \/ Create(t) \/ Again(t) \/ Update(t) \/ Commit(t) \/ Cancel(t)
  \/ Delete

Spec == Init /\ [][Next]_vars

-----------------------------------------------------------------------------
(* A race with other creators is no error: a call fails only if the row    *)
(* was deleted while it ran ("only when it still does not exist is the     *)
(* error re-raised").                                                      *)
CallsSucceed ==
  \A t \in Tasks :
    outcome[t] = "error" /\ call[t].at = "idle" => t \in deleted

(* A full save over a row that was not locked when it was read. *)
SavesBlindly ==
  dialect = "sqlite" /\ locker # NoTask /\ call[locker].what = "save"

(* What update_or_create() wrote stays until the row is deleted, whatever  *)
(* other calls write into other columns: each saves only its defaults, or  *)
(* has locked the row it saves.  On SQLite, which locks no row, a call     *)
(* with a default that names no field saves all that it has read, and so   *)
(* takes back what was committed since.                                    *)
UpdatesAreKept ==
  [][\A t \in Tasks :
       row.by[t] = t /\ row'.id = row.id /\ ~SavesBlindly => row'.by[t] = t]_vars
=============================================================================
