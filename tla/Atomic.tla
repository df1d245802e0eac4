------------------------------- MODULE Atomic -------------------------------
(***************************************************************************)
(* atomic() blocks of zeeb_orm (zeeb_orm/db/connection.py and              *)
(* zeeb_orm/db/transaction.py): outer blocks that own a session, nested    *)
(* blocks that become SAVEPOINTs on it, writes that join the open block or *)
(* autocommit, and on_commit callbacks.                                    *)
(*                                                                         *)
(* A task is an asyncio task.  Its stack holds the blocks it entered, its  *)
(* inherited context the blocks it was created inside.  One action is the  *)
(* code between two awaits at which another task may run; the session lock *)
(* makes each session operation one step, except the outermost commit,     *)
(* which holds the lock from CommitStart to CommitDone or CommitFails.     *)
(*                                                                         *)
(* A block is named by a number, taken in the order blocks are entered;    *)
(* 0 stands for "no block".                                                *)
(***************************************************************************)
EXTENDS Naturals, Sequences, FiniteSets

CONSTANTS
  Tasks,        \* the asyncio tasks
  Roots,        \* the tasks that start with an empty context
  Aliases,      \* the database aliases
  MaxFrames,    \* bound: atomic() calls in a behaviour
  MaxWrites,    \* bound: writes in a behaviour
  MaxCallbacks, \* bound: on_commit() calls in a behaviour
  MaxRequests,  \* bound: atomic() calls, writes and on_commit() calls together
  MayCancel,    \* may a task receive CancelledError
  MayOutlive    \* may a task outlive the block it was created inside

ASSUME AtomicAssumption ==
  /\ Roots \subseteq Tasks
  /\ MaxFrames \in Nat \ {0} /\ MaxWrites \in Nat /\ MaxCallbacks \in Nat
  /\ MaxRequests \in Nat
  /\ MayCancel \in BOOLEAN /\ MayOutlive \in BOOLEAN
  /\ Aliases # {}

Frames == 1 .. MaxFrames
Frames0 == 0 .. MaxFrames

VARIABLES
  frame,     \* frame[f]: the atomic() call number f, see Frame
  nframes,   \* atomic() calls made so far
  nwrites,   \* writes made so far
  ncalls,    \* on_commit() calls made so far
  pc,        \* where each task is
  stack,     \* blocks each task has entered and not left, outermost first
  inherited, \* per task and alias, the innermost block it was created inside
  target,    \* the block a task waits on, closes or runs the callbacks of
  open,      \* _Block.open
  callbacks, \* _Block.callbacks: registered and neither discarded nor run
  log,       \* writes of the session's transaction, in order
  sps,       \* savepoints of the session's transaction, outermost first
  begun,     \* is the driver inside a transaction
  durable,   \* the committed writes
  ran        \* the callbacks that ran, in order

session == <<open, callbacks, log, sps, begun>>
counters == <<nframes, nwrites, ncalls>>
vars == <<frame, nframes, nwrites, ncalls, pc, stack, inherited, target,
          open, callbacks, log, sps, begun, durable, ran>>

-----------------------------------------------------------------------------
(* The values of the variables. *)

Status == {"unused", "entering", "open", "released", "committed",
           "rolledback", "broken", "cancelled", "indoubt", "refused"}
PC == {"new", "run", "entering", "beginning", "begun", "writing", "committing", "undoing",
       "closing", "calling", "done"}

Frame == [alias : Aliases, block : Frames, up : Frames0, mark : Nat,
          status : Status]
Write == [id : 1 .. MaxWrites, in : Frames0]
Callback == [id : 1 .. MaxCallbacks, in : Frames, robust : BOOLEAN]
Savepoint == [frame : Frames, mark : Nat, outside : BOOLEAN]

TypeOK ==
  /\ frame \in [Frames -> Frame]
  /\ nframes \in Frames0
  /\ nwrites \in 0 .. MaxWrites
  /\ ncalls \in 0 .. MaxCallbacks
  /\ pc \in [Tasks -> PC]
  /\ stack \in [Tasks -> Seq(Frames)]
  /\ inherited \in [Tasks -> [Aliases -> Frames0]]
  /\ target \in [Tasks -> [block : Frames0, in : Frames0, id : 0 .. MaxWrites]]
  /\ open \in [Frames -> BOOLEAN]
  /\ callbacks \in [Frames -> Seq(Callback)]
  /\ log \in [Frames -> Seq(Write)]
  /\ sps \in [Frames -> Seq(Savepoint)]
  /\ begun \in [Frames -> BOOLEAN]
  /\ durable \subseteq Write
  /\ ran \in Seq(Callback)

-----------------------------------------------------------------------------
(* What the code reads. *)

Largest(S) == CHOOSE i \in S : \A j \in S : j <= i

Top(t) == stack[t][Len(stack[t])]
Pop(t) == stack' = [stack EXCEPT ![t] = SubSeq(@, 1, Len(@) - 1)]
IsOuter(f) == frame[f].block = f

(* The block of alias a that encloses what t runs, 0 if there is none. *)
Enclosing(t, a) ==
  LET own == {i \in DOMAIN stack[t] : frame[stack[t][i]].alias = a}
  IN IF own = {} THEN inherited[t][a] ELSE stack[t][Largest(own)]

(* _open_block(alias): the outer block t may join, 0 if there is none. *)
OpenBlock(t, a) ==
  LET f == Enclosing(t, a)
  IN IF f = 0 THEN 0 ELSE IF open[frame[f].block] THEN frame[f].block ELSE 0

\* Mutated: held until the rollback of a failed commit is over, too.
IdleAfterRollback(b) ==
  \A t \in Tasks : pc[t] \in {"committing", "undoing"} => target[t].block # b

(* The session lock of b is held by no commit in progress. *)
Idle(b) == \A t \in Tasks : pc[t] = "committing" => target[t].block # b

(* Structured concurrency: gather() has joined the tasks created in f. *)
Joined(t, f) ==
  MayOutlive \/ \A u \in Tasks \ {t} :
                  /\ pc[u] \notin {"new", "done"}
                  => inherited[u][frame[f].alias] # f

(* The savepoint of f in its session, as a set of at most one index. *)
SavepointOf(f) ==
  {i \in DOMAIN sps[frame[f].block] : sps[frame[f].block][i].frame = f}

Cut(s, n) == SubSeq(s, 1, IF n < Len(s) THEN n ELSE Len(s))
Elements(s) == {s[i] : i \in DOMAIN s}
Goto(t, l) == pc' = [pc EXCEPT ![t] = l]
Become(f, st) == frame' = [frame EXCEPT ![f].status = st]

NoFrame == [alias |-> CHOOSE a \in Aliases : TRUE, block |-> 1, up |-> 0,
            mark |-> 0, status |-> "unused"]
NoTarget == [block |-> 0, in |-> 0, id |-> 0]

(* The bounds on what the program does. *)
MayAsk == nframes + nwrites + ncalls < MaxRequests
MayEnter == nframes < MaxFrames /\ MayAsk
MayWrite == nwrites < MaxWrites /\ MayAsk
MayRegister == ncalls < MaxCallbacks /\ MayAsk

(* Back to the program that called. *)
Return(t) == Goto(t, "run") /\ target' = [target EXCEPT ![t] = NoTarget]

Init ==
  /\ frame = [f \in Frames |-> NoFrame]
  /\ nframes = 0 /\ nwrites = 0 /\ ncalls = 0
  /\ pc = [t \in Tasks |-> IF t \in Roots THEN "run" ELSE "new"]
  /\ stack = [t \in Tasks |-> <<>>]
  /\ inherited = [t \in Tasks |-> [a \in Aliases |-> 0]]
  /\ target = [t \in Tasks |-> NoTarget]
  /\ open = [f \in Frames |-> FALSE]
  /\ callbacks = [f \in Frames |-> <<>>]
  /\ log = [f \in Frames |-> <<>>]
  /\ sps = [f \in Frames |-> <<>>]
  /\ begun = [f \in Frames |-> FALSE]
  /\ durable = {}
  /\ ran = <<>>

-----------------------------------------------------------------------------
(* What several actions do. *)

(* The write w executes on the session of block b. *)
Execute(b, w) ==
  /\ log' = [log EXCEPT ![b] = Append(@, w)]
  /\ begun' = [begun EXCEPT ![b] = TRUE]

\* Mutated: one callback too few.
CallbackMarkShort(b) == Len(callbacks[b]) - 1

(* cb_mark: the callbacks registered before the nested block. *)
CallbackMark(b) == Len(callbacks[b])

(* del outer_callbacks[cb_mark:] *)
Discard(b, m) == callbacks' = [callbacks EXCEPT ![b] = Cut(@, m)]

\* Mutated: no BEGIN, the driver waits for the first write.
BeginLater(b) == UNCHANGED begun

(* BEGIN in the database. *)
BeginDriver(b) == begun' = [begun EXCEPT ![b] = TRUE]

\* Mutated: the savepoint is popped, its writes are not undone.
RollbackToNothing(b, i) ==
  sps' = [sps EXCEPT ![b] = Cut(@, i - 1)] /\ UNCHANGED log

(* ROLLBACK TO the savepoint i of session b, and those above it go. *)
RollbackTo(b, i) ==
  /\ log' = [log EXCEPT ![b] = Cut(@, sps[b][i].mark)]
  /\ sps' = [sps EXCEPT ![b] = Cut(@, i - 1)]

(* The program leaves the innermost block it entered: a nested one. *)
LeavesNested(t) ==
  /\ pc[t] = "run" /\ stack[t] # <<>>
  /\ ~IsOuter(Top(t)) /\ Joined(t, Top(t))

(* The program leaves the innermost block it entered: an outer one. *)
LeavesOuter(t) ==
  /\ pc[t] = "run" /\ stack[t] # <<>>
  /\ IsOuter(Top(t)) /\ Joined(t, Top(t))

\* Mutated: the _Block is left open for the tasks that inherited it.
LeaveOuterOpen(t, f, st) ==
  /\ Become(f, st)
  /\ Pop(t)
  /\ target' = [target EXCEPT ![t] = [NoTarget EXCEPT !.block = f]]
  /\ Goto(t, "closing")
  /\ UNCHANGED <<open, counters, inherited, callbacks, ran>>

(* The finally clause, on the way to closing the session. *)
LeaveOuter(t, f, st) ==
  /\ open' = [open EXCEPT ![f] = FALSE]
  /\ Become(f, st)
  /\ Pop(t)
  /\ target' = [target EXCEPT ![t] = [NoTarget EXCEPT !.block = f]]
  /\ Goto(t, "closing")
  /\ UNCHANGED <<counters, inherited, callbacks, ran>>

(* The end of the transaction of session f, by commit, rollback or close. *)
EndTransaction(f) ==
  /\ log' = [log EXCEPT ![f] = <<>>]
  /\ sps' = [sps EXCEPT ![f] = <<>>]
  /\ begun' = [begun EXCEPT ![f] = FALSE]

(* session.commit() in the database. *)
Commit(f) == durable' = durable \cup Elements(log[f])

(* session.rollback(), and out of the block. *)
Undo(t, f) ==
  /\ EndTransaction(f)
  /\ LeaveOuter(t, f, "rolledback")
  /\ UNCHANGED durable

-----------------------------------------------------------------------------
(* Entering a block. *)

(* No block is open on a: a new session, and a _Block in the context. *)
EnterOuter(t, a) ==
  LET f == nframes + 1 IN
  /\ pc[t] = "run" /\ OpenBlock(t, a) = 0 /\ MayEnter
  /\ nframes' = f
  /\ frame' = [frame EXCEPT ![f] =
       [alias |-> a, block |-> f, up |-> 0, mark |-> 0, status |-> "open"]]
  /\ open' = [open EXCEPT ![f] = TRUE]
  /\ stack' = [stack EXCEPT ![t] = Append(@, f)]
  /\ UNCHANGED <<nwrites, ncalls, pc, inherited, target, callbacks, log, sps,
                 begun, durable, ran>>

(* A block is open on a: mark its callbacks, then await the SAVEPOINT. *)
EnterNested(t, a) ==
  LET f == nframes + 1
      b == OpenBlock(t, a) IN
  /\ pc[t] = "run" /\ b # 0 /\ MayEnter
  /\ nframes' = f
  /\ frame' = [frame EXCEPT ![f] =
       [alias |-> a, block |-> b, up |-> Enclosing(t, a),
        mark |-> CallbackMark(b), status |-> "entering"]]
  /\ stack' = [stack EXCEPT ![t] = Append(@, f)]
  /\ Goto(t, "entering")
  /\ UNCHANGED <<nwrites, ncalls, inherited, target, session, durable, ran>>

(* _begin_sqlite_transaction: is the driver inside a transaction? *)
CheckTransaction(t) ==
  LET b == frame[Top(t)].block IN
  /\ pc[t] = "entering" /\ Idle(b)
  /\ Goto(t, IF begun[b] THEN "begun" ELSE "beginning")
  /\ UNCHANGED <<frame, counters, stack, inherited, target, session, durable,
                 ran>>

(* BEGIN, past the session and its lock. *)
BeginTransaction(t) ==
  LET b == frame[Top(t)].block IN
  /\ pc[t] = "beginning" /\ ~begun[b]
  /\ BeginDriver(b)
  /\ Goto(t, "begun")
  /\ UNCHANGED <<frame, counters, stack, inherited, target, open, callbacks,
                 log, sps, durable, ran>>

(* Another task was faster, or the block is over and has let go of the     *)
(* connection: BEGIN raises, and the block is not entered.                 *)
BeginRefused(t) ==
  LET f == Top(t)
      b == frame[f].block IN
  /\ pc[t] = "beginning" /\ (begun[b] \/ ~open[b])
  /\ Become(f, "refused")
  /\ Pop(t)
  /\ Goto(t, "run")
  /\ UNCHANGED <<counters, inherited, target, session, durable, ran>>

(* begin_nested().  A SAVEPOINT outside a transaction starts one itself. *)
OpenSavepoint(t) ==
  LET f == Top(t)
      b == frame[f].block IN
  /\ pc[t] = "begun" /\ Idle(b)
  /\ sps' = [sps EXCEPT ![b] = Append(@,
       [frame |-> f, mark |-> Len(log[b]), outside |-> ~begun[b]])]
  /\ begun' = [begun EXCEPT ![b] = TRUE]
  /\ Become(f, "open")
  /\ Goto(t, "run")
  /\ UNCHANGED <<counters, stack, inherited, target, open, callbacks, log,
                 durable, ran>>

-----------------------------------------------------------------------------
(* The body of a block. *)

(* get_session() yields the block's session and its lock is free. *)
WriteJoins(t, a) ==
  LET b == OpenBlock(t, a) IN
  /\ pc[t] = "run" /\ b # 0 /\ Idle(b) /\ MayWrite
  /\ nwrites' = nwrites + 1
  /\ Execute(b, [id |-> nwrites + 1, in |-> Enclosing(t, a)])
  /\ UNCHANGED <<frame, nframes, ncalls, pc, stack, inherited, target, open,
                 callbacks, sps, durable, ran>>

(* get_session() yields the block's session, which is committing. *)
WriteWaits(t, a) ==
  LET b == OpenBlock(t, a) IN
  /\ pc[t] = "run" /\ b # 0 /\ ~Idle(b) /\ MayWrite
  /\ nwrites' = nwrites + 1
  /\ target' = [target EXCEPT ![t] =
       [block |-> b, in |-> Enclosing(t, a), id |-> nwrites + 1]]
  /\ Goto(t, "writing")
  /\ UNCHANGED <<frame, nframes, ncalls, stack, inherited, session, durable,
                 ran>>

(* The lock is free again: the write executes, whatever became of b. *)
WriteResumes(t) ==
  LET b == target[t].block IN
  /\ pc[t] = "writing" /\ Idle(b)
  /\ Execute(b, [id |-> target[t].id, in |-> target[t].in])
  /\ Return(t)
  /\ UNCHANGED <<frame, counters, stack, inherited, open, callbacks, sps,
                 durable, ran>>

(* get_session() opens a session of its own, which the write commits. *)
WriteAutocommits(t, a) ==
  /\ pc[t] = "run" /\ OpenBlock(t, a) = 0 /\ MayWrite
  /\ nwrites' = nwrites + 1
  /\ durable' = durable \cup {[id |-> nwrites + 1, in |-> 0]}
  /\ UNCHANGED <<frame, nframes, ncalls, pc, stack, inherited, target,
                 session, ran>>

(* on_commit(func, using=a, robust=r); outside a block it only raises. *)
OnCommit(t, a, r) ==
  LET b == OpenBlock(t, a) IN
  /\ pc[t] = "run" /\ b # 0 /\ MayRegister
  /\ ncalls' = ncalls + 1
  /\ callbacks' = [callbacks EXCEPT ![b] = Append(@,
       [id |-> ncalls + 1, in |-> Enclosing(t, a), robust |-> r])]
  /\ UNCHANGED <<frame, nframes, nwrites, pc, stack, inherited, target, open,
                 log, sps, begun, durable, ran>>

(* create_task() or gather(): the child runs in a copy of the context. *)
Spawn(t, u) ==
  /\ pc[t] = "run" /\ pc[u] = "new"
  /\ inherited' = [inherited EXCEPT ![u] = [a \in Aliases |-> Enclosing(t, a)]]
  /\ Goto(u, "run")
  /\ UNCHANGED <<frame, counters, stack, target, session, durable, ran>>

Finish(t) ==
  /\ pc[t] = "run" /\ stack[t] = <<>>
  /\ Goto(t, "done")
  /\ UNCHANGED <<frame, counters, stack, inherited, target, session, durable,
                 ran>>

-----------------------------------------------------------------------------
(* Leaving a nested block. *)

(* nested.commit(): the SAVEPOINT and those above it are released.  One     *)
(* that started the transaction itself takes the transaction along.         *)
ReleaseSavepoint(t) ==
  LET f == Top(t)
      b == frame[f].block IN
  /\ LeavesNested(t) /\ Idle(b)
  /\ \E i \in SavepointOf(f) :
       /\ sps' = [sps EXCEPT ![b] = Cut(@, i - 1)]
       /\ IF sps[b][i].outside
          THEN /\ durable' = durable \cup Elements(log[b])
               /\ log' = [log EXCEPT ![b] = <<>>]
               /\ begun' = [begun EXCEPT ![b] = FALSE]
          ELSE UNCHANGED <<durable, log, begun>>
  /\ Become(f, "released")
  /\ Pop(t)
  /\ UNCHANGED <<counters, pc, inherited, target, open, callbacks, ran>>

(* except Exception: nested.rollback(), and the callbacks are discarded. *)
RollbackSavepoint(t) ==
  LET f == Top(t)
      b == frame[f].block IN
  /\ LeavesNested(t) /\ Idle(b)
  /\ \E i \in SavepointOf(f) : RollbackTo(b, i)
  /\ Discard(b, frame[f].mark)
  /\ Become(f, "rolledback")
  /\ Pop(t)
  /\ UNCHANGED <<counters, pc, inherited, target, open, begun, durable, ran>>

(* The SAVEPOINT went with another one: nested.commit() raises, and so     *)
(* does the nested.rollback() that follows, before the callbacks are cut.  *)
SavepointGone(t) ==
  LET f == Top(t) IN
  /\ LeavesNested(t) /\ Idle(frame[f].block) /\ SavepointOf(f) = {}
  /\ Become(f, "broken")
  /\ Pop(t)
  /\ UNCHANGED <<counters, pc, inherited, target, session, durable, ran>>

(* CancelledError is not an Exception: neither commit nor rollback. *)
NestedCancelled(t) ==
  /\ MayCancel /\ LeavesNested(t)
  /\ Become(Top(t), "cancelled")
  /\ Pop(t)
  /\ UNCHANGED <<counters, pc, inherited, target, session, durable, ran>>

-----------------------------------------------------------------------------
(* Leaving an outer block. *)

(* session.commit() takes the session lock. *)
CommitStart(t) ==
  /\ LeavesOuter(t)
  /\ Goto(t, "committing")
  /\ target' = [target EXCEPT ![t] = [NoTarget EXCEPT !.block = Top(t)]]
  /\ UNCHANGED <<frame, counters, stack, inherited, session, durable, ran>>

(* Everything in the transaction is durable, savepoints still open too. *)
CommitDone(t) ==
  LET f == Top(t) IN
  /\ pc[t] = "committing"
  /\ Commit(f)
  /\ EndTransaction(f)
  /\ LeaveOuter(t, f, "committed")

(* IntegrityError at COMMIT: nothing is durable, session.rollback() next. *)
CommitFails(t) ==
  /\ pc[t] = "committing"
  /\ Goto(t, "undoing")
  /\ UNCHANGED <<frame, counters, stack, inherited, target, session, durable,
                 ran>>

(* CancelledError out of session.commit(): the database may have committed. *)
CommitCancelled(t) ==
  LET f == Top(t) IN
  /\ MayCancel /\ pc[t] = "committing"
  /\ \/ Commit(f) /\ EndTransaction(f)
     \/ UNCHANGED <<durable, log, sps, begun>>
  /\ LeaveOuter(t, f, "indoubt")

(* except Exception, out of the body: session.rollback(). *)
Rollback(t) == LeavesOuter(t) /\ Undo(t, Top(t))

(* The same after a failed commit: session.rollback() queues for the lock  *)
(* behind the writes that waited for that commit.                          *)
RollbackCommit(t) ==
  /\ pc[t] = "undoing"
  /\ \A u \in Tasks : pc[u] = "writing" => target[u].block # Top(t)
  /\ Undo(t, Top(t))

(* CancelledError in the body: closing the session is all that happens. *)
OuterCancelled(t) ==
  /\ MayCancel /\ LeavesOuter(t)
  /\ LeaveOuter(t, Top(t), "cancelled")
  /\ UNCHANGED <<log, sps, begun, durable>>

\* Mutated: the callbacks run however the block ended.
LeftAnyhow(f) == TRUE

(* The block committed, so its callbacks are due. *)
Committed(f) == frame[f].status = "committed"

(* The session closes, undoing what it holds; then the callbacks, if the   *)
(* block committed and no CancelledError came out of closing.              *)
CloseSession(t) ==
  LET f == target[t].block IN
  /\ pc[t] = "closing"
  /\ EndTransaction(f)
  /\ \/ Committed(f) /\ Goto(t, "calling")
        /\ UNCHANGED target
     \/ (~Committed(f) \/ MayCancel) /\ Return(t)
  /\ UNCHANGED <<frame, counters, stack, inherited, open, callbacks, durable,
                 ran>>

-----------------------------------------------------------------------------
(* _run_on_commit_callbacks. *)

\* Mutated: last in, first out.
LatestCall(f) == callbacks[f][Len(callbacks[f])]

NextCall(f) == Head(callbacks[f])

(* The next callback runs; it raises, at most, what robust=True swallows. *)
Call(t) ==
  LET f == target[t].block IN
  /\ pc[t] = "calling" /\ callbacks[f] # <<>>
  /\ ran' = Append(ran, NextCall(f))
  /\ callbacks' = [callbacks EXCEPT ![f] = Tail(@)]
  /\ UNCHANGED <<frame, counters, pc, stack, inherited, target, open, log,
                 sps, begun, durable>>

(* The next callback raises out of atomic(); the others are skipped. *)
CallRaises(t) ==
  LET f == target[t].block IN
  /\ pc[t] = "calling" /\ callbacks[f] # <<>>
  /\ ~NextCall(f).robust \/ MayCancel
  /\ ran' = Append(ran, NextCall(f))
  /\ callbacks' = [callbacks EXCEPT ![f] = <<>>]
  /\ Return(t)
  /\ UNCHANGED <<frame, counters, stack, inherited, open, log, sps, begun,
                 durable>>

CallsDone(t) ==
  /\ pc[t] = "calling" /\ callbacks[target[t].block] = <<>>
  /\ Return(t)
  /\ UNCHANGED <<frame, counters, stack, inherited, session, durable, ran>>

-----------------------------------------------------------------------------
Enter(t) == \E a \in Aliases : EnterOuter(t, a) \/ EnterNested(t, a)

Body(t) ==
  \/ \E a \in Aliases : \/ WriteJoins(t, a) \/ WriteWaits(t, a)
                        \/ WriteAutocommits(t, a)
                        \/ \E r \in BOOLEAN : OnCommit(t, a, r)
  \/ \E u \in Tasks : Spawn(t, u)
  \/ Finish(t)

Leave(t) ==
  \/ ReleaseSavepoint(t) \/ RollbackSavepoint(t) \/ SavepointGone(t)
  \/ NestedCancelled(t) \/ OuterCancelled(t) \/ CommitStart(t) \/ Rollback(t)

(* The steps a task takes by itself once it has begun an operation. *)
Proceed(t) ==
  \/ CheckTransaction(t) \/ BeginTransaction(t) \/ BeginRefused(t)
  \/ OpenSavepoint(t) \/ WriteResumes(t)
  \/ CommitDone(t) \/ CommitFails(t) \/ CommitCancelled(t)
  \/ RollbackCommit(t) \/ CloseSession(t)
  \/ Call(t) \/ CallRaises(t) \/ CallsDone(t)

Next == \E t \in Tasks : Enter(t) \/ Body(t) \/ Leave(t) \/ Proceed(t)

Spec == Init /\ [][Next]_vars

(* The event loop runs every ready task and the driver answers. *)
FairSpec == Spec /\ \A t \in Tasks : WF_vars(Proceed(t))

-----------------------------------------------------------------------------
(* Properties. *)

(* The block f and those that enclose it. *)
Enclosed ==
  LET up[f \in Frames0] == IF f = 0 THEN {} ELSE {f} \cup up[frame[f].up]
  IN up

Failed(f) == frame[f].status \in {"rolledback", "broken", "cancelled"}

(* Nothing is durable before the outermost block of its transaction has    *)
(* committed (or was cancelled inside COMMIT), however savepoints are      *)
(* released: in particular a block that failed leaves nothing.             *)
DurableOnlyThroughCommit ==
  \A w \in durable :
    w.in # 0 => frame[frame[w.in].block].status \in {"committed", "indoubt"}

(* A callback runs only when the block it waited for has committed.        *)
CallbacksFollowCommit ==
  \A c \in Elements(ran) : frame[frame[c.in].block].status = "committed"

(* The callbacks of one transaction run once, in registration order.       *)
CallbacksInOrder ==
  \A i, j \in DOMAIN ran :
    /\ i < j
    /\ frame[ran[i].in].block = frame[ran[j].in].block
    => ran[i].id < ran[j].id

(* Leaving a block by an exception, on its own or because a block around   *)
(* it fails, undoes its writes, however the transaction ends.              *)
FailedBlocksLeaveNothing ==
  \A w \in durable : \A f \in Enclosed[w.in] : ~Failed(f)

(* Tasks that share a session may enter blocks of their own: nobody's       *)
(* statements get in the way ("serialises their statements").              *)
NestedBlocksAreEntered == \A f \in Frames : frame[f].status # "refused"

(* A transaction becomes durable whole, in the one step that closes its    *)
(* block: no write of an open block is ever committed on the side.         *)
CommitIsWhole ==
  [][\A w \in durable' \ durable :
       w.in # 0 => LET b == frame[w.in].block
                   IN durable' \ durable = Elements(log[b]) /\ ~open'[b]]_vars

(* A task waiting on the session, or leaving an outer block, is not left   *)
(* waiting: the lock is released on every path out of the commit.          *)
OperationsReturn ==
  \A t \in Tasks :
    pc[t] \in {"entering", "writing", "committing"} ~> pc[t] = "run"

-----------------------------------------------------------------------------
(* The inductive invariant behind DurableOnlyThroughCommit. *)

Used == 1 .. nframes

(* Names refer to blocks that exist, and an enclosing block to an outer one. *)
NamesAreUsed ==
  /\ \A f \in Used : frame[f].block \in Used /\ IsOuter(frame[f].block)
  /\ \A t \in Tasks : \A i \in DOMAIN stack[t] : stack[t][i] \in Used
  /\ \A t \in Tasks : \A a \in Aliases : inherited[t][a] \in 0 .. nframes
  /\ \A t \in Tasks : target[t].block \in 0 .. nframes
  /\ \A f \in Frames \ Used : sps[f] = <<>> /\ log[f] = <<>> /\ ~open[f]

(* A block is entered by one task, once; an outer one it has not left is open. *)
StacksAreDisjoint ==
  /\ \A t, u \in Tasks : \A i \in DOMAIN stack[t], j \in DOMAIN stack[u] :
       stack[t][i] = stack[u][j] => t = u /\ i = j
  /\ \A t \in Tasks : \A i \in DOMAIN stack[t] :
       IsOuter(stack[t][i]) => open[stack[t][i]]
  /\ \A f \in Used : open[f] => IsOuter(f) /\ frame[f].status = "open"

(* What a task that is inside an operation is doing. *)
TasksAreSomewhere ==
  \A t \in Tasks :
    /\ pc[t] \in {"entering", "beginning", "begun"} => stack[t] # <<>> /\ ~IsOuter(Top(t))
    /\ pc[t] \in {"committing", "undoing"} =>
         stack[t] # <<>> /\ IsOuter(Top(t)) /\ target[t].block = Top(t)
    /\ pc[t] \in {"closing", "calling"} =>
         target[t].block \in Used /\ ~open[target[t].block]
    /\ pc[t] = "writing" => target[t].id # 0

Settled(f) == frame[f].status \in {"committed", "indoubt"}

(* The writes in the transaction of a session were made in its block. *)
LogIsOfBlock ==
  /\ \A b \in Frames : \A i \in DOMAIN log[b] :
       log[b][i].in \in Used /\ frame[log[b][i].in].block = b
  /\ \A t \in Tasks : pc[t] = "writing" =>
       target[t].in \in Used /\ frame[target[t].in].block = target[t].block

(* A write waits for a commit of an open block, or its block has settled. *)
WaitingIsForCommit ==
  \A t \in Tasks : pc[t] = "writing" =>
    \/ Settled(target[t].block)
    \/ /\ open[target[t].block]
       /\ \E u \in Tasks : /\ pc[u] \in {"committing", "undoing"}
                           /\ target[u].block = target[t].block

(* The driver is inside a transaction when it must be; a savepoint outside  *)
(* one exists only on a session whose block is over.                        *)
SavepointsAreInside ==
  /\ \A b \in Frames : ~begun[b] => log[b] = <<>>
  /\ \A t \in Tasks :
       pc[t] = "begun" /\ open[frame[Top(t)].block] => begun[frame[Top(t)].block]
  /\ \A b \in Used : IsOuter(b) => \A i \in DOMAIN sps[b] :
       sps[b][i].outside => ~open[b] /\ (Settled(b) \/ log[b] = <<>>)

DurableNames == \A w \in durable : w.in \in 0 .. nframes

DurabilityInv ==
  /\ TypeOK
  /\ NamesAreUsed
  /\ StacksAreDisjoint
  /\ TasksAreSomewhere
  /\ LogIsOfBlock
  /\ WaitingIsForCommit
  /\ SavepointsAreInside
  /\ DurableNames
  /\ DurableOnlyThroughCommit

-----------------------------------------------------------------------------
(* The inductive invariant behind the callbacks and CommitIsWhole. *)

(* The callbacks of a block were registered inside it. *)
CallbacksAreOfBlock ==
  /\ \A b \in Frames : \A i \in DOMAIN callbacks[b] :
       /\ callbacks[b][i].in \in Used /\ frame[callbacks[b][i].in].block = b
       /\ callbacks[b][i].id <= ncalls
  /\ \A i \in DOMAIN ran : ran[i].in \in Used /\ ran[i].id <= ncalls

(* Who runs the callbacks of a block, an outer one, found it committed. *)
CallersHaveCommitted ==
  \A t \in Tasks :
    /\ pc[t] \in {"closing", "calling"} => IsOuter(target[t].block)
    /\ pc[t] = "calling" => Committed(target[t].block)

(* The callbacks of a block wait in registration order, after those that ran. *)
CallbacksAreQueued ==
  /\ \A b \in Frames : \A i, j \in DOMAIN callbacks[b] :
       i < j => callbacks[b][i].id < callbacks[b][j].id
  /\ \A b \in Frames : \A i \in DOMAIN ran, j \in DOMAIN callbacks[b] :
       frame[ran[i].in].block = b => ran[i].id < callbacks[b][j].id

WritesAreCounted ==
  /\ \A w \in durable : w.id <= nwrites
  /\ \A b \in Frames : \A i \in DOMAIN log[b] : log[b][i].id <= nwrites
  /\ \A t \in Tasks : pc[t] = "writing" => target[t].id <= nwrites

(* A write that waits for the lock has not been made. *)
WaitingIsNew ==
  \A t \in Tasks : pc[t] = "writing" =>
    /\ \A w \in durable : w.id # target[t].id
    /\ \A b \in Frames : \A i \in DOMAIN log[b] : log[b][i].id # target[t].id
    /\ \A u \in Tasks \ {t} : pc[u] = "writing" => target[u].id # target[t].id

LogIsNotDurable == \A b \in Frames : \A i \in DOMAIN log[b] : log[b][i] \notin durable

CallsInv ==
  /\ CallbacksAreOfBlock
  /\ CallersHaveCommitted
  /\ CallbacksAreQueued
  /\ CallbacksFollowCommit
  /\ CallbacksInOrder

WritesInv == WritesAreCounted /\ WaitingIsNew /\ LogIsNotDurable

CommitInv == DurabilityInv /\ CallsInv /\ WritesInv
=============================================================================
