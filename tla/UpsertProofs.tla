---------------------------- MODULE UpsertProofs ----------------------------
(***************************************************************************)
(* For any number of tasks and calls, on each database, a race of creators *)
(* is no error, and nobody undoes what another update wrote, but for full   *)
(* saves where no row is locked.                                           *)
(***************************************************************************)
EXTENDS Upsert, TLAPS

(* Who holds the row has it, and is about to write or commit it. *)
LockersHaveTheRow ==
  /\ locker # NoTask => /\ Exists(pending)
                        /\ call[locker].at \in {"again", "update", "commit"}
  /\ \A t \in Tasks : call[t].at = "commit" => locker = t

(* Who found the row, or knows that somebody made it, finds it again unless *)
(* it was deleted in the meantime.                                         *)
TheRowIsThere ==
  \A t \in Tasks :
    call[t].at \in {"again", "update"} => locker = t \/ Exists(row) \/ t \in deleted

(* Who is to update a row has loaded it, the one it holds where it holds    *)
(* one, and that is still there, unless it was deleted in the meantime.    *)
LoadedFits(t) ==
  /\ call[t].what \in {"update", "save"} /\ Exists(call[t].loaded)
  /\ locker = t => pending = call[t].loaded
  /\ locker # t => ~Locks(t) /\ (row.id = call[t].loaded.id \/ t \in deleted)

(* While a row is there, what is pending is the same row, with all of its   *)
(* columns, or a full save that did not lock it.                           *)
PendingKeepsTheRow ==
  locker # NoTask =>
    /\ Exists(row) => pending.id = row.id
    /\ pending.id = row.id /\ ~SavesBlindly =>
         \A t \in Tasks : row.by[t] = t => pending.by[t] = t

(* CallsSucceed follows from where a call may fail, which is where the row  *)
(* it saw or lost the race to is gone: that needs who holds the row.       *)
UpsertInv ==
  /\ TypeOK
  /\ LockersHaveTheRow
  /\ TheRowIsThere
  /\ \A t \in Tasks : call[t].at = "update" => LoadedFits(t)
  /\ PendingKeepsTheRow
  /\ CallsSucceed

(* The two rows a model has of its own: none, and one that was just made.   *)
LEMMA NewRows ==
  ASSUME TypeOK, UpsertAssumption
  PROVE  /\ NoRow \in RowType /\ NoRow.id = 0
         /\ \A t \in Tasks : Fresh(t) \in RowType /\ Fresh(t).id = nrows + 1
BY DEF TypeOK, UpsertAssumption, RowType, NoRow, Fresh

(* A task reads a row, and what it writes into one is a row of the same id. *)
LEMMA RowsStayRows ==
  ASSUME TypeOK, NEW t \in Tasks
  PROVE  /\ Read(t) \in RowType
         /\ \A r \in RowType :
              /\ Written(t, r) \in RowType
              /\ Written(t, r).by[t] = t
              /\ call[t].what = "save" =>
                   /\ Written(t, r).id = call[t].loaded.id
                   /\ \A u \in Tasks : u # t => Written(t, r).by[u] = call[t].loaded.by[u]
              /\ call[t].what # "save" =>
                   /\ Written(t, r).id = r.id
                   /\ \A u \in Tasks : u # t => Written(t, r).by[u] = r.by[u]
BY DEF TypeOK, RowType, Read, Written, Whole

(* The initial states satisfy the invariant.                                *)
LEMMA InitSatisfies == Init => UpsertInv
<1> SUFFICES ASSUME Init PROVE UpsertInv
  OBVIOUS
<1> USE UpsertAssumption
<1>1. TypeOK
  BY DEF Init, TypeOK, NoRow, RowType, Idle, Places, Kinds
<1>2. QED
  BY <1>1 DEF Init, UpsertInv, LockersHaveTheRow, TheRowIsThere, PendingKeepsTheRow,
              CallsSucceed, Idle

(* A call returns: it holds nothing any more.                               *)
LEMMA LeavingKeeps ==
  ASSUME UpsertInv, NEW t \in Tasks, call[t].at # "idle", Unlock(t),
         \/ Return(t, "ok") \/ Return(t, "none")
         \/ Return(t, "error") /\ t \in deleted,
         locker # t => row' = row,
         locker = t => row' = row \/ row' = pending,
         UNCHANGED <<dialect, ncalls, nrows, deleted>>
  PROVE  UpsertInv'
<1> USE UpsertAssumption DEF UpsertInv
<1>0. NoRow \in RowType /\ row \in RowType /\ pending \in RowType
  BY NewRows DEF TypeOK
<1>1. /\ call' = [call EXCEPT ![t] = Idle]
      /\ Idle \in [what : Kinds, at : Places, loaded : RowType]
      /\ Idle.at = "idle"
  BY <1>0 DEF Return, Idle, Places, Kinds
<1>2. locker # t => locker' = locker /\ pending' = pending
  BY DEF Unlock
<1>3. locker = t => locker' = NoTask /\ pending' = NoRow
  BY DEF Unlock
<1>4. /\ \A u \in Tasks : u # t => call'[u] = call[u]
      /\ call'[t].at = "idle"
  BY <1>1 DEF TypeOK
<1>5. TypeOK'
  <2>1. outcome' \in [Tasks -> {"none", "ok", "error"}]
    BY DEF Return, TypeOK
  <2>2. call' \in [Tasks -> [what : Kinds, at : Places, loaded : RowType]]
    BY <1>1 DEF TypeOK
  <2>3. row' \in RowType /\ pending' \in RowType /\ locker' \in Tasks \cup {NoTask}
    BY <1>0, <1>2, <1>3 DEF TypeOK
  <2>4. locker' # NoTask => call'[locker'].at # "idle"
    BY <1>2, <1>3, <1>4 DEF TypeOK
  <2>5. QED
    BY <2>1, <2>2, <2>3, <2>4 DEF TypeOK
<1>6. LockersHaveTheRow'
  <2>1. \A u \in Tasks : call'[u].at = "commit" => locker' = u
    BY <1>2, <1>3, <1>4 DEF LockersHaveTheRow
  <2>2. locker' # NoTask => /\ locker # t /\ locker' = locker /\ pending' = pending
                            /\ locker \in Tasks
    BY <1>2, <1>3 DEF TypeOK
  <2>3. QED
    BY <2>1, <2>2, <1>4 DEF LockersHaveTheRow, Exists
<1>7. TheRowIsThere'
  <2> SUFFICES ASSUME NEW u \in Tasks, call'[u].at \in {"again", "update"}
               PROVE  locker' = u \/ Exists(row') \/ u \in deleted'
    BY DEF TheRowIsThere, Exists
  <2>1. u # t /\ call[u].at \in {"again", "update"}
    BY <1>4
  <2>2. locker = u \/ Exists(row) \/ u \in deleted
    BY <2>1 DEF TheRowIsThere
  <2>3. locker = t => Exists(pending)
    BY DEF LockersHaveTheRow
  <2>4. QED
    BY <2>1, <2>2, <2>3, <1>2 DEF Exists
<1>8. PendingKeepsTheRow'
  <2>1. ASSUME locker # t, locker # NoTask
        PROVE  /\ row' = row /\ locker' = locker /\ pending' = pending
               /\ SavesBlindly' = SavesBlindly
    BY <1>2, <1>4, <2>1 DEF SavesBlindly, TypeOK
  <2>2. QED
    BY <1>2, <1>3, <2>1 DEF PendingKeepsTheRow, Exists
<1>9. CallsSucceed'
  <2>1. \A u \in Tasks : u # t => outcome'[u] = outcome[u]
    BY DEF Return, TypeOK
  <2>2. outcome'[t] \in {"ok", "none"} \/ t \in deleted
    BY DEF Return, TypeOK
  <2>3. QED
    BY <1>4, <2>1, <2>2 DEF CallsSucceed
<1>10. ASSUME NEW u \in Tasks, call'[u].at = "update" PROVE LoadedFits(u)'
  <2>1. u # t /\ call'[u] = call[u] /\ LoadedFits(u)
    BY <1>4, <1>10
  <2>2. CASE locker = t
    <3>1. locker' # u /\ locker # u /\ (row.id = call[u].loaded.id \/ u \in deleted)
      BY <1>3, <2>1, <2>2 DEF LoadedFits
    <3>2. row'.id = row.id \/ u \in deleted
      BY <2>1, <2>2, <3>1 DEF LoadedFits, PendingKeepsTheRow, Exists
    <3>3. QED
      BY <2>1, <2>2, <3>1, <3>2 DEF LoadedFits, Exists, Locks, Updates
  <2>3. CASE locker # t
    BY <1>2, <2>1, <2>3 DEF LoadedFits, Exists, Locks, Updates
  <2>4. QED
    BY <2>2, <2>3
<1>11. QED
  BY <1>5, <1>6, <1>7, <1>8, <1>9, <1>10

(* A call goes on: it locks the row or it does not, and what it then sees   *)
(* is the row, or the row with its columns over it, or one it makes.       *)
LEMMA GoingOnKeeps ==
  ASSUME UpsertInv, NEW t \in Tasks, call[t].at # "idle",
         NEW at \in Places \ {"idle"}, NEW r \in RowType,
         Goto(t, at) \/ Load(t, at, r),
         \/ UNCHANGED <<locker, pending>> /\ at # "commit"
         \/ /\ locker' = t /\ Free(t)
            /\ pending' \in RowType /\ Exists(pending')
            /\ at \in {"again", "update", "commit"}
            /\ Exists(row) => pending'.id = row.id
            /\ pending'.id = row.id /\ ~SavesBlindly' =>
                 \A u \in Tasks : row.by[u] = u => pending'.by[u] = u,
         at = "update" => LoadedFits(t)',
         locker = t => at \in {"again", "update", "commit"},
         at \in {"again", "update"} => locker' = t \/ Exists(row) \/ t \in deleted,
         nrows' \in Nat,
         UNCHANGED <<dialect, row, ncalls, outcome, deleted>>
  PROVE  UpsertInv'
<1> USE UpsertAssumption DEF UpsertInv
<1>1. /\ call' \in [Tasks -> [what : Kinds, at : Places, loaded : RowType]]
      /\ call'[t].at = at
      /\ \A u \in Tasks : u # t => call'[u] = call[u]
      /\ \A u \in Tasks : call'[u].what = call[u].what
  BY DEF Goto, Load, TypeOK
<1>0. ASSUME NEW u \in Tasks, call'[u].at = "update" PROVE LoadedFits(u)'
  <2>1. CASE u = t
    BY <1>0, <1>1, <2>1
  <2>2. CASE u # t
    <3>1. call'[u] = call[u] /\ LoadedFits(u)
      BY <1>0, <1>1, <2>2
    <3>2. \/ locker' = locker /\ pending' = pending
          \/ locker' # u /\ locker # u
      BY <2>2 DEF Free
    <3>3. QED
      BY <3>1, <3>2 DEF LoadedFits, Exists, Locks, Updates
  <2>3. QED
    BY <2>1, <2>2
<1>2. CASE UNCHANGED <<locker, pending>> /\ at # "commit"
  <2>1. TypeOK' /\ LockersHaveTheRow' /\ PendingKeepsTheRow'
    BY <1>1, <1>2 DEF TypeOK, LockersHaveTheRow, PendingKeepsTheRow, Exists, SavesBlindly
  <2>2. TheRowIsThere' /\ CallsSucceed'
    BY <1>1, <1>2 DEF TheRowIsThere, CallsSucceed, Exists
  <2>3. QED
    BY <1>0, <2>1, <2>2
<1>3. CASE /\ locker' = t /\ Free(t)
           /\ pending' \in RowType /\ Exists(pending')
           /\ at \in {"again", "update", "commit"}
           /\ Exists(row) => pending'.id = row.id
           /\ pending'.id = row.id /\ ~SavesBlindly' =>
                \A u \in Tasks : row.by[u] = u => pending'.by[u] = u
  <2>1. TypeOK'
    BY <1>1, <1>3 DEF TypeOK
  <2>2. LockersHaveTheRow'
    BY <1>1, <1>3 DEF LockersHaveTheRow, Exists, Free, TypeOK
  <2>3. TheRowIsThere'
    BY <1>1, <1>3 DEF TheRowIsThere, Exists, Free, TypeOK
  <2>4. PendingKeepsTheRow' /\ CallsSucceed'
    BY <1>1, <1>3 DEF PendingKeepsTheRow, CallsSucceed, Exists
  <2>5. QED
    BY <1>0, <2>1, <2>2, <2>3, <2>4
<1>4. QED
  BY <1>2, <1>3

(* What a lookup makes of the row it finds.                                 *)
LEMMA FindingKeeps ==
  ASSUME UpsertInv, NEW t \in Tasks, call[t].at \in {"lookup", "again"}, Found(t),
         UNCHANGED <<dialect, row, ncalls, nrows, deleted>>
  PROVE  UpsertInv'
<1> USE UpsertAssumption DEF UpsertInv
<1>0. Read(t) \in RowType /\ Exists(Read(t)) /\ pending \in RowType
  BY RowsStayRows DEF Found, TypeOK
<1>1. locker = t \/ Exists(row)
  BY <1>0 DEF Read
<1>2. CASE /\ call[t].what \in {"update", "save"} /\ Locks(t) /\ Free(t)
           /\ locker' = t /\ pending' = Read(t)
           /\ Load(t, "update", Read(t)) /\ UNCHANGED outcome
  <2>1. call'[t].what = call[t].what /\ call'[t].loaded = Read(t)
    BY <1>0, <1>2 DEF Load, TypeOK
  <2>2. LoadedFits(t)'
    BY <1>0, <1>2, <2>1 DEF LoadedFits, Exists
  <2>3. /\ Exists(row) => pending'.id = row.id
        /\ pending'.id = row.id /\ ~SavesBlindly' =>
             \A u \in Tasks : row.by[u] = u => pending'.by[u] = u
    BY <1>2, <2>1 DEF Read, PendingKeepsTheRow, SavesBlindly, TypeOK, Locks
  <2>4. nrows' \in Nat
    BY DEF TypeOK
  <2>5. QED
    BY <1>0, <1>1, <1>2, <2>2, <2>3, <2>4, GoingOnKeeps DEF Exists, Places
<1>3. CASE /\ call[t].what \in {"update", "save"} /\ ~Locks(t)
           /\ Load(t, "update", Read(t))
           /\ UNCHANGED <<locker, pending, outcome>>
  <2>1. call'[t].what = call[t].what /\ call'[t].loaded = Read(t)
    BY <1>0, <1>3 DEF Load, TypeOK
  <2>2. LoadedFits(t)'
    BY <1>0, <1>3, <2>1 DEF LoadedFits, Exists, Read, Locks, Updates
  <2>3. nrows' \in Nat
    BY DEF TypeOK
  <2>4. QED
    BY <1>0, <1>1, <1>3, <2>2, <2>3, GoingOnKeeps DEF Places
<1>4. CASE call[t].what \in {"get", "nothing"} /\ Return(t, "ok") /\ Unlock(t)
  <2>1. call[t].at # "idle" /\ UNCHANGED row
    OBVIOUS
  <2>2. QED
    BY <1>4, <2>1, LeavingKeeps
<1>5. QED
  BY <1>2, <1>3, <1>4 DEF Found

LEMMA StartKeeps ==
  ASSUME UpsertInv, NEW t \in Tasks, NEW what \in Kinds, Start(t, what)
  PROVE  UpsertInv'
<1> USE UpsertAssumption DEF UpsertInv
<1>1. /\ NoRow \in RowType
      /\ call' = [call EXCEPT ![t] = [Idle EXCEPT !.what = what, !.at = "lookup"]]
  BY NewRows DEF Start
<1>2. /\ call' \in [Tasks -> [what : Kinds, at : Places, loaded : RowType]]
      /\ call'[t].at = "lookup"
      /\ \A u \in Tasks : u # t => call'[u] = call[u]
  BY <1>1 DEF TypeOK, Idle, Places
<1>3. /\ call[t].at = "idle" /\ locker # t
      /\ UNCHANGED <<dialect, row, locker, pending, nrows, outcome>>
      /\ ncalls' \in 0 .. MaxCalls
      /\ deleted' = deleted \ {t}
  BY DEF Start, database, LockersHaveTheRow, TypeOK
<1>4. TypeOK'
  BY <1>2, <1>3 DEF TypeOK
<1>5. LockersHaveTheRow' /\ PendingKeepsTheRow'
  BY <1>2, <1>3 DEF LockersHaveTheRow, PendingKeepsTheRow, Exists, TypeOK, SavesBlindly
<1>6. TheRowIsThere' /\ CallsSucceed'
  BY <1>2, <1>3 DEF TheRowIsThere, CallsSucceed, Exists
<1>7. \A u \in Tasks : call'[u].at = "update" => LoadedFits(u)'
  BY <1>2, <1>3 DEF LoadedFits, Exists, Locks, Updates
<1>8. QED
  BY <1>4, <1>5, <1>6, <1>7

LEMMA LookupKeeps ==
  ASSUME UpsertInv, NEW t \in Tasks, Lookup(t)
  PROVE  UpsertInv'
<1>1. CASE Found(t)
  BY <1>1, FindingKeeps DEF Lookup
<1>2. CASE ~Exists(Read(t)) /\ Goto(t, "create") /\ UNCHANGED <<locker, pending, outcome>>
  <2>1. /\ locker # t /\ row \in RowType /\ nrows' \in Nat /\ call[t].at # "idle"
        /\ UNCHANGED <<dialect, row, ncalls, outcome, deleted>>
    BY <1>2, UpsertAssumption
    DEF Lookup, UpsertInv, LockersHaveTheRow, TypeOK, Exists, Read
  <2>2. QED
    BY <1>2, <2>1, GoingOnKeeps DEF Places
<1>3. QED
  BY <1>1, <1>2 DEF Lookup

(* The insert that fails on PostgreSQL always has a block of its own.       *)
LEMMA CreateKeeps ==
  ASSUME UpsertInv, NEW t \in Tasks, Create(t)
  PROVE  UpsertInv'
<1> USE UpsertAssumption DEF UpsertInv
<1>0. /\ call[t].at = "create" /\ Free(t) /\ locker # t /\ row \in RowType
      /\ UNCHANGED <<dialect, row, ncalls, deleted>> /\ nrows \in Nat
  BY DEF Create, LockersHaveTheRow, TypeOK
<1>1. CASE Exists(row) /\ HasBlock(t) /\ Goto(t, "again")
             /\ UNCHANGED <<locker, pending, outcome, nrows>>
  BY <1>0, <1>1, GoingOnKeeps DEF Places
<1>2. CASE /\ Exists(row) /\ ~HasBlock(t)
           /\ IF dialect = "postgresql"
              THEN Return(t, "error") /\ UNCHANGED <<locker, pending>>
              ELSE locker' = t /\ pending' = row /\ Goto(t, "again") /\ UNCHANGED outcome
           /\ UNCHANGED nrows
  <2>1. dialect # "postgresql"
    BY <1>2 DEF HasBlock
  <2>2. locker' = t /\ pending' = row /\ Goto(t, "again") /\ UNCHANGED outcome
    BY <1>2, <2>1
  <2>3. QED
    BY <1>0, <1>2, <2>2, GoingOnKeeps DEF Places
<1>3. CASE /\ ~Exists(row)
           /\ locker' = t /\ pending' = Fresh(t)
           /\ nrows' = nrows + 1
           /\ Load(t, "commit", Fresh(t))
           /\ UNCHANGED outcome
  <2>1. Fresh(t) \in RowType /\ Fresh(t).id = nrows + 1
    BY NewRows
  <2>2. nrows' \in Nat /\ Exists(pending') /\ pending'.id # row.id
    BY <1>0, <1>3, <2>1 DEF Exists
  <2>3. QED
    BY <1>0, <1>3, <2>1, <2>2, GoingOnKeeps DEF Places
<1>4. QED
  BY <1>1, <1>2, <1>3 DEF Create

LEMMA AgainKeeps ==
  ASSUME UpsertInv, NEW t \in Tasks, Again(t)
  PROVE  UpsertInv'
<1>0. /\ call[t].at = "again"
      /\ UNCHANGED <<dialect, row, ncalls, nrows, deleted>>
  BY DEF Again
<1>1. CASE Found(t)
  BY <1>0, <1>1, FindingKeeps
<1>2. CASE ~Exists(Read(t)) /\ Return(t, "error") /\ Unlock(t)
  <2>1. t \in deleted
    BY <1>0, <1>2, UpsertAssumption
    DEF UpsertInv, TheRowIsThere, LockersHaveTheRow, Read, TypeOK
  <2>2. QED
    BY <1>0, <1>2, <2>1, LeavingKeeps
<1>3. QED
  BY <1>1, <1>2 DEF Again

LEMMA UpdateKeeps ==
  ASSUME UpsertInv, NEW t \in Tasks, Update(t)
  PROVE  UpsertInv'
<1> USE UpsertAssumption DEF UpsertInv
<1>0. /\ call[t].at = "update" /\ Free(t)
      /\ UNCHANGED <<dialect, row, ncalls, nrows, deleted>>
      /\ row \in RowType /\ nrows' \in Nat
  BY DEF Update, TypeOK
<1> DEFINE matches == Exists(Read(t)) /\ Read(t).id = call[t].loaded.id
           again == call[t].what = "save" /\ ~Exists(Read(t))
<1>1. LoadedFits(t) /\ Read(t) \in RowType /\ call[t].loaded \in RowType
  BY <1>0, RowsStayRows DEF TypeOK
<1>2. locker = t => Read(t) = pending /\ Read(t) = call[t].loaded /\ matches
  BY <1>1 DEF LoadedFits, Read, Exists
<1>3. locker # t => Read(t) = row /\ dialect = "sqlite"
  BY <1>1 DEF LoadedFits, Read, Locks, Updates
<1>4. CASE /\ matches \/ again
           /\ locker' = t /\ pending' = Written(t, Read(t))
           /\ Goto(t, "commit") /\ UNCHANGED outcome
  <2>1. /\ pending' \in RowType /\ pending'.id = call[t].loaded.id /\ Exists(pending')
    BY <1>1, <1>4, RowsStayRows DEF Exists, LoadedFits
  <2>2. Exists(row) => pending'.id = row.id
    BY <1>1, <1>2, <1>3, <1>4, <2>1, UpsertAssumption DEF PendingKeepsTheRow, TypeOK
  <2>3. SavesBlindly' <=> dialect = "sqlite" /\ call[t].what = "save"
    BY <1>0, <1>4 DEF SavesBlindly, Goto, TypeOK
  <2>4. ASSUME pending'.id = row.id, ~SavesBlindly', NEW u \in Tasks, row.by[u] = u
        PROVE  pending'.by[u] = u
    <3>1. u = t \/ pending'.by[u] = Read(t).by[u]
      BY <1>1, <1>2, <1>3, <1>4, <2>3, <2>4, RowsStayRows
    <3>2. Read(t).by[u] = u
      BY <1>2, <1>3, <2>1, <2>3, <2>4, UpsertAssumption DEF PendingKeepsTheRow, SavesBlindly
    <3>3. pending'.by[t] = t
      BY <1>1, <1>4, RowsStayRows
    <3>4. QED
      BY <3>1, <3>2, <3>3
  <2>5. QED
    BY <1>0, <1>4, <2>1, <2>2, <2>4, GoingOnKeeps DEF Places
<1>5. CASE ~matches /\ Return(t, "error") /\ Unlock(t)
  <2>1. t \in deleted
    BY <1>1, <1>2, <1>3, <1>5 DEF LoadedFits, Exists
  <2>2. QED
    BY <1>0, <1>5, <2>1, LeavingKeeps
<1>6. QED
  BY <1>4, <1>5 DEF Update

LEMMA CommitKeeps ==
  ASSUME UpsertInv, NEW t \in Tasks, Commit(t)
  PROVE  UpsertInv'
<1>1. /\ locker = t /\ row' = pending /\ call[t].at # "idle"
      /\ UNCHANGED <<dialect, ncalls, nrows, deleted>>
      /\ Unlock(t) /\ Return(t, "ok")
  BY DEF Commit, UpsertInv, LockersHaveTheRow
<1>2. QED
  BY <1>1, LeavingKeeps

LEMMA CancelKeeps ==
  ASSUME UpsertInv, NEW t \in Tasks, Cancel(t)
  PROVE  UpsertInv'
BY LeavingKeeps DEF Cancel

LEMMA DeleteKeeps ==
  ASSUME UpsertInv, Delete
  PROVE  UpsertInv'
<1> USE UpsertAssumption DEF UpsertInv
<1>1. /\ locker = NoTask /\ row' = NoRow /\ NoRow \in RowType
      /\ deleted' = deleted \cup {t \in Tasks : call[t].at # "idle"}
      /\ UNCHANGED <<dialect, locker, pending, call, ncalls, nrows, outcome>>
  BY NewRows DEF Delete
<1>2. TypeOK'
  BY <1>1 DEF TypeOK
<1>3. LockersHaveTheRow' /\ PendingKeepsTheRow'
  BY <1>1 DEF LockersHaveTheRow, PendingKeepsTheRow, Exists
<1>4. TheRowIsThere' /\ CallsSucceed'
  BY <1>1 DEF TheRowIsThere, CallsSucceed
<1>5. \A t \in Tasks : call'[t].at = "update" => LoadedFits(t)'
  BY <1>1 DEF LoadedFits, Exists, Locks, Updates
<1>6. QED
  BY <1>2, <1>3, <1>4, <1>5

(* Every step keeps the invariant, action by action.                        *)
LEMMA StepKeeps == UpsertInv /\ [Next]_vars => UpsertInv'
<1> SUFFICES ASSUME UpsertInv, [Next]_vars PROVE UpsertInv'
  OBVIOUS
<1>1. ASSUME NEW t \in Tasks, NEW what \in Kinds, Start(t, what) PROVE UpsertInv'
  BY <1>1, StartKeeps
<1>2. ASSUME NEW t \in Tasks,
             Lookup(t) \/ Create(t) \/ Again(t) \/ Update(t) \/ Commit(t) \/ Cancel(t)
      PROVE  UpsertInv'
  BY <1>2, LookupKeeps, CreateKeeps, AgainKeeps, UpdateKeeps, CommitKeeps, CancelKeeps
<1>3. CASE Delete
  BY <1>3, DeleteKeeps
<1>4. CASE UNCHANGED vars
  BY <1>4 DEF vars, database, UpsertInv, TypeOK, LockersHaveTheRow, TheRowIsThere,
              PendingKeepsTheRow, CallsSucceed, Exists, LoadedFits, Locks, Updates, SavesBlindly
<1>5. QED
  BY <1>1, <1>2, <1>3, <1>4 DEF Next

(* Who holds the row has it, who lost a race finds it, and nothing pending  *)
(* lacks a column of the committed row: the inductive invariant.           *)
THEOREM UpsertInvariant == Spec => []UpsertInv
<1>1. QED
  BY InitSatisfies, StepKeeps, PTL DEF Spec

(* get_or_create() and update_or_create() fail only if the row was deleted  *)
(* while they ran: the race with other creators is never an error.         *)
THEOREM CallsAreNoError == Spec => []CallsSucceed
<1>1. UpsertInv => CallsSucceed
  BY DEF UpsertInv
<1>2. QED
  BY <1>1, UpsertInvariant, PTL

(* No step takes back what an update_or_create() wrote, short of a delete   *)
(* and of a full save on SQLite.                                           *)
LEMMA NoStepUndoes ==
  UpsertInv /\ [Next]_vars =>
    \A t \in Tasks :
      row.by[t] = t /\ row'.id = row.id /\ ~SavesBlindly => row'.by[t] = t
<1> SUFFICES ASSUME UpsertInv, [Next]_vars, NEW t \in Tasks,
                    row.by[t] = t, row'.id = row.id, ~SavesBlindly
             PROVE  row'.by[t] = t
  OBVIOUS
<1>1. row' = row \/ (\E u \in Tasks : Commit(u)) \/ Delete
  BY DEF Next, vars, database, Start, Lookup, Create, Again, Update, Cancel
<1>2. CASE \E u \in Tasks : Commit(u)
  <2>1. row' = pending /\ locker # NoTask
    BY <1>2, UpsertAssumption DEF Commit, UpsertInv, LockersHaveTheRow
  <2>2. QED
    BY <2>1 DEF UpsertInv, PendingKeepsTheRow
<1>3. CASE Delete
  BY <1>3, NewRows, UpsertAssumption DEF Delete, Exists, UpsertInv
<1>4. QED
  BY <1>1, <1>2, <1>3

(* What update_or_create() wrote stays until the row is deleted, or, on     *)
(* SQLite, until a call saves all columns of a row it had read before.     *)
THEOREM UpdatesStay == Spec => UpdatesAreKept
<1>1. UpsertInv /\ [Next]_vars =>
        [\A t \in Tasks :
           row.by[t] = t /\ row'.id = row.id /\ ~SavesBlindly => row'.by[t] = t]_vars
  BY NoStepUndoes
<1>2. QED
  BY <1>1, UpsertInvariant, PTL DEF Spec, UpdatesAreKept
=============================================================================
