-------------------------- MODULE AtomicRefinement --------------------------
(***************************************************************************)
(* For one task and no cancellation, Atomic implements Transactions: the   *)
(* savepoint marks in the log, and the marks in the callback list, cut     *)
(* them into what each open block wrote and registered.                    *)
(***************************************************************************)
EXTENDS Atomic

CONSTANT Task  \* the one task

Ids(s) == [i \in DOMAIN s |-> s[i].id]

(* The blocks the task is in, outermost first, and the sessions they use.  *)
Entered == stack[Task]
Places == DOMAIN Entered
SessionAt(i) == frame[Entered[i]].block

(* Where the writes of block f begin in the log of its session. *)
LogMark(f) ==
  LET b == frame[f].block IN
  IF IsOuter(f) THEN 0
  ELSE IF SavepointOf(f) = {} THEN Len(log[b])
  ELSE sps[b][Largest(SavepointOf(f))].mark

Smallest(S) == CHOOSE j \in S : \A k \in S : j <= k

(* What the block at place i wrote and registered ends where that of the   *)
(* next block of the same session begins.                                  *)
Inside(i) == {j \in Places : j > i /\ SessionAt(j) = SessionAt(i)}
Following(i) == Entered[Smallest(Inside(i))]
LogEnd(i) ==
  IF Inside(i) = {} THEN Len(log[SessionAt(i)]) ELSE LogMark(Following(i))
CallEnd(i) ==
  IF Inside(i) = {} THEN Len(callbacks[SessionAt(i)]) ELSE frame[Following(i)].mark

Scope(i) ==
  LET f == Entered[i]
      b == SessionAt(i)
  IN [alias |-> frame[f].alias,
      writes |-> Elements(Ids(SubSeq(log[b], LogMark(f) + 1, LogEnd(i)))),
      calls |-> Ids(SubSeq(callbacks[b], frame[f].mark + 1, CallEnd(i)))]

(* The callbacks of the block that has committed and is being left. *)
Due ==
  IF /\ pc[Task] \in {"closing", "calling"}
     /\ frame[target[Task].block].status = "committed"
  THEN Ids(callbacks[target[Task].block])
  ELSE <<>>

Abstract == INSTANCE Transactions WITH
  WriteIds <- 1 .. MaxWrites,
  CallbackIds <- 1 .. MaxCallbacks,
  scopes <- [i \in Places |-> Scope(i)],
  durable <- {w.id : w \in durable},
  due <- Due,
  ran <- Ids(ran)

(* Blocks opened and left by one task give all-or-nothing transactions     *)
(* whose callbacks run after the outermost commit, as Transactions says.   *)
AtomicImplementsTransactions == Abstract!AbsSpec

-----------------------------------------------------------------------------
(* The inductive invariant behind it, next to CommitInv. *)

IsEntering == pc[Task] \in {"entering", "beginning", "begun"}

(* Nobody holds the lock the task asks for, or begins its transaction.     *)
RunsAlone ==
  /\ \A a \in Aliases : inherited[Task][a] = 0
  /\ pc[Task] # "writing"
  /\ pc[Task] = "beginning" => ~begun[SessionAt(Len(Entered))]

(* A block is entered after those around it, on the session of the block   *)
(* around it or, if there is none on its database, on one of its own.      *)
BlocksAreInside ==
  /\ \A i, j \in Places : i < j => Entered[i] < Entered[j]
  /\ \A i \in Places :
       /\ \E j \in 1 .. i : Entered[j] = SessionAt(i)
       /\ frame[SessionAt(i)].alias = frame[Entered[i]].alias
  /\ \A i, j \in Places :
       frame[Entered[i]].alias = frame[Entered[j]].alias => SessionAt(i) = SessionAt(j)

(* The callback marks of a session rise with its blocks. *)
CallMarksRise ==
  /\ \A i \in Places : /\ frame[Entered[i]].mark <= Len(callbacks[SessionAt(i)])
                       /\ IsOuter(Entered[i]) => frame[Entered[i]].mark = 0
  /\ \A i, j \in Places : i < j /\ SessionAt(i) = SessionAt(j)
       => frame[Entered[i]].mark <= frame[Entered[j]].mark
  /\ \A f \in Frames \ Used : callbacks[f] = <<>>

(* A savepoint is that of a block the task is in; they and their marks     *)
(* rise with the blocks.                                                   *)
SavepointsFit ==
  \A b \in Frames :
    /\ \A k \in DOMAIN sps[b] :
         /\ sps[b][k].mark <= Len(log[b])
         /\ \E i \in Places : /\ Entered[i] = sps[b][k].frame
                              /\ ~IsOuter(Entered[i]) /\ SessionAt(i) = b
    /\ \A k, l \in DOMAIN sps[b] :
         k < l => /\ sps[b][k].frame < sps[b][l].frame
                  /\ sps[b][k].mark <= sps[b][l].mark

(* A nested block has its savepoint, unless the task is just entering it.  *)
BlocksHaveSavepoints ==
  \A i \in Places : ~IsOuter(Entered[i]) =>
    (SavepointOf(Entered[i]) = {} <=> i = Len(Entered) /\ IsEntering)

SequentialInv ==
  /\ RunsAlone
  /\ BlocksAreInside
  /\ CallMarksRise
  /\ SavepointsFit
  /\ BlocksHaveSavepoints
=============================================================================
