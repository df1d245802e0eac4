---------------------------- MODULE ProjectScope ----------------------------
(***************************************************************************)
(* project_scope() of the agent layer (zeeb_agents/_utils/isolation.py):   *)
(* calls on one project run concurrently, a call on another one waits at   *)
(* the gate of its event loop until they are done.                         *)
(*                                                                         *)
(* A task makes one call after the other, and calls inside a call.  The    *)
(* body of a call may run in a thread (asyncio.to_thread), which goes on   *)
(* when the call is cancelled.  The lock of the gate's condition is only   *)
(* held between two awaits, so that each section under it is one step.     *)
(***************************************************************************)
EXTENDS Naturals, Sequences, FiniteSets

CONSTANTS
  Tasks,     \* the asyncio tasks that make agent calls
  Loops,     \* the event loops of the process
  loop,      \* the loop each task runs on
  Projects,  \* the project roots
  NoProject, \* no project
  MayCancel, \* may a call be cancelled
  MayNest,   \* may a call be made on another project inside a call
  MaxDepth,  \* bound: calls inside one another
  MaxCalls   \* bound: calls in a behaviour

ASSUME ScopeAssumption ==
  /\ loop \in [Tasks -> Loops] /\ IsFiniteSet(Tasks)
  /\ NoProject \notin Projects
  /\ MayCancel \in BOOLEAN /\ MayNest \in BOOLEAN
  /\ MaxDepth \in Nat \ {0} /\ MaxCalls \in Nat

VARIABLES
  gate,   \* _Gate of each loop: root and active
  loaded, \* _loaded_root
  pc,     \* where each task is
  scopes, \* the projects of the calls each task is in, outermost first
  wanted, \* the project a task waits for
  thread, \* the project whose code a thread started by the task runs
  ncalls  \* calls made so far

vars == <<gate, loaded, pc, scopes, wanted, thread, ncalls>>

Projects0 == Projects \cup {NoProject}

TypeOK ==
  /\ gate \in [Loops -> [root : Projects0, active : 0 .. Cardinality(Tasks)]]
  /\ loaded \in Projects0
  /\ pc \in [Tasks -> {"idle", "waiting", "notified", "inside", "inthread"}]
  /\ scopes \in [Tasks -> Seq(Projects)]
  /\ wanted \in [Tasks -> Projects0]
  /\ thread \in [Tasks -> Projects0]
  /\ ncalls \in 0 .. MaxCalls

Init ==
  /\ gate = [l \in Loops |-> [root |-> NoProject, active |-> 0]]
  /\ loaded = NoProject
  /\ pc = [t \in Tasks |-> "idle"]
  /\ scopes = [t \in Tasks |-> <<>>]
  /\ wanted = [t \in Tasks |-> NoProject]
  /\ thread = [t \in Tasks |-> NoProject]
  /\ ncalls = 0

-----------------------------------------------------------------------------
Goto(t, l) == pc' = [pc EXCEPT ![t] = l]

(* _current: the project of the outermost call of a task, which calls       *)
(* inside it never set; and the project of the innermost.                   *)
Current(t) == scopes[t][1]
Innermost(t) == scopes[t][Len(scopes[t])]

\* Mutated: nobody waits.
OpenToAny(l, r) == TRUE

(* The predicate of wait_for. *)
IsOpen(l, r) == gate[l].active = 0 \/ gate[l].root = r

(* _switch_to(r): the code of the previous project is dropped. *)
SwitchTo(r) == loaded' = r

(* Through the gate: one more call on r, whose code is loaded. *)
Admit(t, r) ==
  /\ gate' = [gate EXCEPT ![loop[t]] = [root |-> r, active |-> @.active + 1]]
  /\ SwitchTo(r)
  /\ scopes' = [scopes EXCEPT ![t] = <<r>>]
  /\ wanted' = [wanted EXCEPT ![t] = NoProject]
  /\ Goto(t, "inside")

Call(t) ==
  /\ ncalls < MaxCalls /\ ncalls' = ncalls + 1
  /\ UNCHANGED thread

(* The gate is open: no await in between. *)
Enter(t, r) ==
  /\ pc[t] = "idle" /\ IsOpen(loop[t], r)
  /\ Call(t)
  /\ Admit(t, r)

Wait(t, r) ==
  /\ pc[t] = "idle" /\ ~IsOpen(loop[t], r)
  /\ Call(t)
  /\ wanted' = [wanted EXCEPT ![t] = r]
  /\ Goto(t, "waiting")
  /\ UNCHANGED <<gate, loaded, scopes>>

(* A notified task looks again; it may find others to have been faster. *)
WakeUp(t) ==
  /\ pc[t] = "notified"
  /\ IF IsOpen(loop[t], wanted[t]) THEN Admit(t, wanted[t])
     ELSE Goto(t, "waiting") /\ UNCHANGED <<gate, loaded, scopes, wanted>>
  /\ UNCHANGED <<thread, ncalls>>

\* Mutated: who never came through the gate is counted out, too.
GiveUpCountedOut(t) ==
  /\ MayCancel /\ pc[t] \in {"waiting", "notified"}
  /\ gate' = [gate EXCEPT ![loop[t]].active = @ - 1]
  /\ wanted' = [wanted EXCEPT ![t] = NoProject]
  /\ Goto(t, "idle")
  /\ UNCHANGED <<loaded, scopes, thread, ncalls>>

(* Cancelled at the gate. *)
GiveUp(t) ==
  /\ MayCancel /\ pc[t] \in {"waiting", "notified"}
  /\ wanted' = [wanted EXCEPT ![t] = NoProject]
  /\ Goto(t, "idle")
  /\ UNCHANGED <<gate, loaded, scopes, thread, ncalls>>

(* A call inside a call joins its scope, on another project than the        *)
(* outermost call's with a warning: that project's code is loaded under it. *)
Nest(t, r) ==
  /\ pc[t] = "inside" /\ Len(scopes[t]) < MaxDepth
  /\ r = Current(t) \/ MayNest
  /\ Call(t)
  /\ IF r = Current(t) THEN UNCHANGED loaded ELSE SwitchTo(r)
  /\ scopes' = [scopes EXCEPT ![t] = Append(@, r)]
  /\ UNCHANGED <<gate, pc, wanted>>

(* asyncio.to_thread(): the call awaits what the thread does. *)
StartThread(t) ==
  /\ pc[t] = "inside" /\ thread[t] = NoProject
  /\ thread' = [thread EXCEPT ![t] = Innermost(t)]
  /\ Goto(t, "inthread")
  /\ UNCHANGED <<gate, loaded, scopes, wanted, ncalls>>

(* The thread is done; a call that was cancelled takes no notice. *)
EndThread(t) ==
  /\ thread[t] # NoProject
  /\ thread' = [thread EXCEPT ![t] = NoProject]
  /\ IF pc[t] = "inthread" THEN Goto(t, "inside") ELSE UNCHANGED pc
  /\ UNCHANGED <<gate, loaded, scopes, wanted, ncalls>>

\* Mutated: only one of those who wait is woken, notify().
NotifyOne(l) ==
  LET waiting == {t \in Tasks : loop[t] = l /\ pc[t] = "waiting"} IN
  IF waiting = {} THEN {} ELSE {CHOOSE t \in waiting : TRUE}

(* notify_all(): who is woken. *)
Notified(l) == {t \in Tasks : loop[t] = l /\ pc[t] = "waiting"}

\* Mutated: a call that raises is not counted out.
LeaveCountedIn(t) ==
  LET l == loop[t] IN
  /\ UNCHANGED gate
  /\ pc' = [u \in Tasks |-> IF u = t THEN "idle"
                            ELSE IF u \in Notified(l) THEN "notified" ELSE pc[u]]

(* The finally clause of the outermost call. *)
LeaveGate(t) ==
  LET l == loop[t] IN
  /\ gate' = [gate EXCEPT ![l].active = @ - 1]
  /\ pc' = [u \in Tasks |-> IF u = t THEN "idle"
                            ELSE IF u \in Notified(l) THEN "notified" ELSE pc[u]]

(* The innermost call returns or raises. *)
Leave(t) ==
  /\ pc[t] = "inside"
  /\ scopes' = [scopes EXCEPT ![t] = SubSeq(@, 1, Len(@) - 1)]
  /\ IF Len(scopes[t]) = 1 THEN LeaveGate(t) ELSE UNCHANGED <<gate, pc>>
  /\ UNCHANGED <<loaded, wanted, thread, ncalls>>

(* CancelledError leaves every call of the task, but not a thread. *)
Cancel(t) ==
  /\ MayCancel /\ pc[t] \in {"inside", "inthread"}
  /\ scopes' = [scopes EXCEPT ![t] = <<>>]
  /\ LeaveGate(t)
  /\ UNCHANGED <<loaded, wanted, thread, ncalls>>

Next ==
  \E t \in Tasks :
    \/ \E r \in Projects : Enter(t, r) \/ Wait(t, r) \/ Nest(t, r)
    \/ WakeUp(t) \/ GiveUp(t) \/ StartThread(t) \/ EndThread(t)
    \/ Leave(t) \/ Cancel(t)

Spec == Init /\ [][Next]_vars

(* The loop runs who was woken, and threads end.  Calls end, too: strongly  *)
(* fair, for a body starts finitely many threads one after the other.       *)
FairSpec ==
  Spec /\ \A t \in Tasks :
    WF_vars(WakeUp(t)) /\ WF_vars(EndThread(t)) /\ SF_vars(Leave(t))

-----------------------------------------------------------------------------
(* The properties. *)

InCall(t) == scopes[t] # <<>>
Callers(l) == {t \in Tasks : loop[t] = l /\ InCall(t)}

(* Whatever other tasks do, a call and the calls inside it find their       *)
(* project's code loaded until they return, unless one of them calls        *)
(* another project itself.                                                  *)
CallsKeepTheirCode ==
  ~MayNest => \A t \in Tasks : \A i \in DOMAIN scopes[t] : loaded = scopes[t][i]

(* The code a thread works with stays, too: the models of project_scope's   *)
(* callers are read in asyncio.to_thread.                                   *)
ThreadsKeepTheirCode ==
  \A t \in Tasks : thread[t] # NoProject => loaded = thread[t]

(* The gate counts exactly the calls that went through it, also when they   *)
(* raise or are cancelled: it would stay shut for other projects forever.   *)
ActiveIsCounted ==
  \A l \in Loops :
    gate[l].active = Cardinality(Callers(l))

(* A call that waits is admitted in the end, or given up: with finitely     *)
(* many calls, for newcomers on the served project may pass it any number   *)
(* of times.                                                                *)
CallsAreAdmitted ==
  \A t \in Tasks : pc[t] \in {"waiting", "notified"} ~> pc[t] \in {"inside", "idle"}
=============================================================================
