----------------------- MODULE AtomicRefinementProofs -----------------------
(***************************************************************************)
(* That Atomic implements Transactions, for one task that is not           *)
(* cancelled: for any number of databases, blocks, writes and callbacks.   *)
(*                                                                         *)
(* SequentialInv is inductive next to CommitInv.  From both, Picture says  *)
(* which part of the log and of the callback list each open block owns;    *)
(* then one lemma per action says which abstract step it is, or that it is *)
(* none.                                                                   *)
(***************************************************************************)
EXTENDS AtomicRefinement, AtomicProofs

-----------------------------------------------------------------------------
(* The operators of the refinement mapping. *)

(* The smallest and the largest element, once they are known.              *)
LEMMA SmallestIs ==
  ASSUME NEW S, S \subseteq Nat, NEW j \in S, \A k \in S : j <= k
  PROVE  Smallest(S) = j
<1>1. \A i \in S : (\A k \in S : i <= k) => i = j
  OBVIOUS
<1> QED BY <1>1 DEF Smallest

LEMMA LargestIs ==
  ASSUME NEW S, S \subseteq Nat, NEW j \in S, \A k \in S : k <= j
  PROVE  Largest(S) = j
<1>1. \A i \in S : (\A k \in S : k <= i) => i = j
  OBVIOUS
<1> QED BY <1>1 DEF Largest

(* A set of natural numbers that is not empty has a smallest element.      *)
LEMMA SmallestExists ==
  ASSUME NEW S, S \subseteq Nat, S # {}
  PROVE  Smallest(S) \in S /\ \A j \in S : Smallest(S) <= j
<1>1. IsWellFoundedOn(OpToRel(<, Nat), Nat)
  BY NatLessThanWellFounded
<1>2. PICK x \in S : \A y \in S : ~(<<y, x>> \in OpToRel(<, Nat))
  BY <1>1, WFMin
<1>3. \A y \in S : ~(y < x)
  BY <1>2 DEF OpToRel
<1>4. \A y \in S : x <= y
  BY <1>3
<1> QED BY <1>4, SmallestIs

(* The identifiers in a part of a sequence. *)
IdsIn(s, m, n) == {s[k].id : k \in m + 1 .. n}
IdsFrom(s, m, n) == [k \in 1 .. n - m |-> s[m + k].id]

(* Of a part of a sequence, the identifiers in order and as a set.         *)
LEMMA IdsOf ==
  ASSUME NEW S, NEW s \in Seq(S), NEW m \in Nat, NEW n \in Nat, m <= n, n <= Len(s)
  PROVE  /\ Ids(SubSeq(s, m + 1, n)) = IdsFrom(s, m, n)
         /\ Elements(Ids(SubSeq(s, m + 1, n))) = IdsIn(s, m, n)
<1> DEFINE p == SubSeq(s, m + 1, n)
<1>1. Len(s) \in Nat /\ m + 1 \in 1 .. Len(s) + 1 /\ n \in (m + 1) - 1 .. Len(s)
  BY LenProperties
<1>2. /\ p \in Seq(S) /\ Len(p) = n - (m + 1) + 1
      /\ \A i \in 1 .. n - (m + 1) + 1 : p[i] = s[m + 1 + i - 1]
  BY <1>1, SubSeqProperties
<1> HIDE DEF p
<1>3. DOMAIN p = 1 .. n - m /\ \A i \in 1 .. n - m : p[i] = s[m + i]
  BY <1>1, <1>2, LenProperties
<1>4. Ids(p) = [k \in 1 .. n - m |-> s[m + k].id]
  BY <1>3 DEF Ids
<1>5. Elements(Ids(p)) = {s[k].id : k \in m + 1 .. n}
  <2>1. Elements(Ids(p)) = {s[m + k].id : k \in 1 .. n - m}
    <3> DEFINE q == [k \in 1 .. n - m |-> s[m + k].id]
    <3>1. Ids(p) = q /\ DOMAIN q = 1 .. n - m
      BY <1>4
    <3>2. \A k \in 1 .. n - m : q[k] = s[m + k].id
      OBVIOUS
    <3> HIDE DEF q
    <3> QED BY <3>1, <3>2 DEF Elements
  <2>2. ASSUME NEW k \in m + 1 .. n
        PROVE  k - m \in 1 .. n - m /\ m + (k - m) = k
    OBVIOUS
  <2>3. ASSUME NEW k \in 1 .. n - m
        PROVE  m + k \in m + 1 .. n
    OBVIOUS
  <2> QED BY <2>1, <2>2, <2>3
<1> QED BY <1>4, <1>5 DEF p, IdsIn, IdsFrom

-----------------------------------------------------------------------------
(* What holds of the blocks the task is in. *)

(* What is proved is proved of one task, which nobody cancels.             *)
SequentialAssumption == Tasks = {Task} /\ MayCancel = FALSE

(* The blocks the task is in, and their sessions, are blocks in use, whose *)
(* sessions are open; the places of both are numbers, a session at or      *)
(* before its blocks.                                                      *)
LEMMA EnteredBlocks ==
  ASSUME SequentialAssumption, CommitInv, BlocksAreInside
  PROVE  /\ Task \in Tasks /\ Used \subseteq Frames /\ Frames \subseteq Nat \ {0}
         /\ nframes \in Nat
         /\ Entered \in Seq(Frames) /\ Len(Entered) \in Nat
         /\ Places = 1 .. Len(Entered)
         /\ \A i \in Places :
              /\ Entered[i] \in Used /\ Entered[i] \in Frames
              /\ SessionAt(i) \in Used /\ SessionAt(i) \in Frames
              /\ IsOuter(SessionAt(i)) /\ open[SessionAt(i)]
              /\ SessionAt(i) <= Entered[i]
         /\ Entered # <<>> => Len(Entered) \in Places /\ Top(Task) = Entered[Len(Entered)]
<1>1. /\ TypeOK /\ NamesAreUsed /\ StacksAreDisjoint /\ Task \in Tasks
  BY DEF CommitInv, DurabilityInv, SequentialAssumption
<1>2. Used \subseteq Frames /\ Frames \subseteq Nat \ {0} /\ nframes \in Nat
  BY <1>1, UsedIsFrames
<1>3. Entered \in Seq(Frames)
  BY <1>1 DEF TypeOK, Entered
<1>4. Len(Entered) \in Nat /\ Places = 1 .. Len(Entered)
  BY <1>3, LenProperties DEF Places
<1>5. \A i \in Places : Entered[i] \in Used /\ SessionAt(i) \in Used /\ IsOuter(SessionAt(i))
  BY <1>1 DEF NamesAreUsed, Places, Entered, SessionAt
<1>6. ASSUME NEW i \in Places PROVE open[SessionAt(i)] /\ SessionAt(i) <= Entered[i]
  <2>1. PICK j \in 1 .. i : Entered[j] = SessionAt(i)
    BY DEF BlocksAreInside
  <2>2. j \in Places /\ (j = i \/ j < i)
    BY <1>4, <2>1
  <2>3. open[SessionAt(i)]
    <3>1. IsOuter(Entered[j]) => open[Entered[j]]
      BY <1>1, <2>2 DEF StacksAreDisjoint, Places, Entered
    <3> QED BY <1>5, <2>1, <3>1
  <2>4. j < i => Entered[j] < Entered[i]
    BY <2>2 DEF BlocksAreInside
  <2>5. Entered[i] \in Nat /\ SessionAt(i) \in Nat
    BY <1>2, <1>5
  <2>6. SessionAt(i) <= Entered[i]
    BY <2>1, <2>2, <2>4, <2>5
  <2> QED BY <2>3, <2>6
<1>7. ASSUME Entered # <<>>
      PROVE  Len(Entered) \in Places /\ Top(Task) = Entered[Len(Entered)]
  BY <1>3, <1>4, <1>7, PopProperties DEF Top, Entered
<1> QED BY <1>1, <1>2, <1>3, <1>4, <1>5, <1>6, <1>7

(* The savepoints of a session are a sequence of places in its log, each   *)
(* of a block.                                                             *)
LEMMA SavepointTypes ==
  ASSUME TypeOK, NEW b \in Frames
  PROVE  /\ sps[b] \in Seq(Savepoint) /\ Len(sps[b]) \in Nat
         /\ DOMAIN sps[b] = 1 .. Len(sps[b])
         /\ \A k \in DOMAIN sps[b] : sps[b][k].mark \in Nat /\ sps[b][k].frame \in Frames
<1>1. sps[b] \in Seq(Savepoint)
  BY DEF TypeOK
<1>2. Len(sps[b]) \in Nat /\ DOMAIN sps[b] = 1 .. Len(sps[b])
  BY <1>1, LenProperties
<1>3. \A k \in DOMAIN sps[b] : sps[b][k] \in Savepoint
  BY <1>1, <1>2, ElementOfSeq
<1>4. \A s \in Savepoint : s.mark \in Nat /\ s.frame \in Frames
  BY DEF Savepoint
<1> QED BY <1>1, <1>2, <1>3, <1>4

(* The savepoint of a block, if it has one, is where its writes begin.     *)
LEMMA BlockSavepoints ==
  ASSUME SequentialAssumption, CommitInv, BlocksAreInside, SavepointsFit, NEW i \in Places
  PROVE  LET f == Entered[i]
             b == SessionAt(i)
         IN /\ IsOuter(f) => SavepointOf(f) = {}
            /\ \A k \in DOMAIN sps[b] : sps[b][k].frame = f =>
                 /\ ~IsOuter(f) /\ SavepointOf(f) = {k}
                 /\ LogMark(f) = sps[b][k].mark /\ sps[b][k].mark \in Nat
                 /\ sps[b][k].mark <= Len(log[b])
            /\ SavepointOf(f) \subseteq DOMAIN sps[b] /\ DOMAIN sps[b] = 1 .. Len(sps[b])
            /\ Len(sps[b]) \in Nat /\ log[b] \in Seq(Write) /\ Len(log[b]) \in Nat
<1> DEFINE f == Entered[i]
           b == SessionAt(i)
<1>1. f \in Frames /\ b \in Frames /\ b = frame[f].block /\ Frames \subseteq Nat
  BY EnteredBlocks DEF SessionAt
<1>2. /\ sps[b] \in Seq(Savepoint) /\ log[b] \in Seq(Write)
  BY <1>1 DEF CommitInv, DurabilityInv, TypeOK
<1>3. Len(sps[b]) \in Nat /\ DOMAIN sps[b] = 1 .. Len(sps[b]) /\ Len(log[b]) \in Nat
  BY <1>2, LenProperties
<1>4. SavepointOf(f) = {k \in DOMAIN sps[b] : sps[b][k].frame = f}
  BY <1>1 DEF SavepointOf
<1>5. ASSUME NEW k \in DOMAIN sps[b], sps[b][k].frame = f
      PROVE  /\ ~IsOuter(f) /\ SavepointOf(f) = {k}
             /\ LogMark(f) = sps[b][k].mark /\ sps[b][k].mark \in Nat
             /\ sps[b][k].mark <= Len(log[b])
  <2>1. ~IsOuter(f) /\ sps[b][k].mark <= Len(log[b])
    BY <1>1, <1>5 DEF SavepointsFit
  <2>2. \A l \in DOMAIN sps[b] : sps[b][l].frame = f => l = k
    <3> SUFFICES ASSUME NEW l \in DOMAIN sps[b], sps[b][l].frame = f, l # k
                 PROVE  FALSE
      OBVIOUS
    <3>1. l < k \/ k < l
      BY <1>3
    <3>2. \/ sps[b][l].frame < sps[b][k].frame
          \/ sps[b][k].frame < sps[b][l].frame
      BY <1>1, <3>1 DEF SavepointsFit
    <3>3. f \in Nat
      BY ONLY <1>1
    <3> HIDE DEF f
    <3> QED BY <1>5, <3>2, <3>3
  <2>3. SavepointOf(f) = {k}
    BY <1>4, <1>5, <2>2
  <2>4. k \in Nat /\ sps[b][k] \in Savepoint
    BY <1>2, <1>3, ElementOfSeq
  <2>5. Largest({k}) = k
    BY <2>4, LargestIs
  <2>6. LogMark(f) = sps[b][k].mark
    BY <1>1, <2>1, <2>3, <2>5 DEF LogMark
  <2> QED BY <2>1, <2>3, <2>4, <2>6 DEF Savepoint
<1>6. IsOuter(f) => SavepointOf(f) = {}
  BY <1>4, <1>5
<1> QED BY <1>2, <1>3, <1>4, <1>5, <1>6

(* Where the writes of a block begin. *)
LEMMA LogMarks ==
  ASSUME SequentialAssumption, CommitInv, SequentialInv, NEW i \in Places
  PROVE  LET f == Entered[i]
             b == SessionAt(i)
         IN /\ LogMark(f) \in Nat /\ LogMark(f) <= Len(log[b]) /\ Len(log[b]) \in Nat
            /\ IsOuter(f) => LogMark(f) = 0
            /\ ~IsOuter(f) /\ SavepointOf(f) = {} => LogMark(f) = Len(log[b])
            /\ \A j \in Places : i < j /\ SessionAt(j) = b => LogMark(f) <= LogMark(Entered[j])
<1> DEFINE f == Entered[i]
           b == SessionAt(i)
<1>inv. BlocksAreInside /\ SavepointsFit /\ BlocksHaveSavepoints
  BY DEF SequentialInv
<1>1. ASSUME NEW j \in Places, SessionAt(j) = b
      PROVE  /\ LogMark(Entered[j]) \in Nat /\ LogMark(Entered[j]) <= Len(log[b])
             /\ Len(log[b]) \in Nat
             /\ IsOuter(Entered[j]) => LogMark(Entered[j]) = 0
             /\ ~IsOuter(Entered[j]) /\ SavepointOf(Entered[j]) = {}
                  => LogMark(Entered[j]) = Len(log[b])
             /\ SavepointOf(Entered[j]) # {} => \E k \in DOMAIN sps[b] :
                  /\ sps[b][k].frame = Entered[j]
                  /\ LogMark(Entered[j]) = sps[b][k].mark
  <2> DEFINE g == Entered[j]
  <2>1. frame[g].block = b
    BY <1>1 DEF SessionAt
  <2>2. IsOuter(g) => LogMark(g) = 0
    BY DEF LogMark
  <2>3. ~IsOuter(g) /\ SavepointOf(g) = {} => LogMark(g) = Len(log[b])
    BY <2>1 DEF LogMark
  <2>4. ASSUME SavepointOf(g) # {}
        PROVE  \E k \in DOMAIN sps[b] : sps[b][k].frame = g /\ LogMark(g) = sps[b][k].mark
                  /\ sps[b][k].mark \in Nat /\ sps[b][k].mark <= Len(log[b])
    <3>1. PICK k \in SavepointOf(g) : TRUE
      BY <2>4
    <3>2. k \in DOMAIN sps[b] /\ sps[b][k].frame = g
      BY <2>1, <3>1 DEF SavepointOf
    <3> QED BY <1>inv, <1>1, <3>2, BlockSavepoints
  <2>5. Len(log[b]) \in Nat
    BY <1>inv, <1>1, BlockSavepoints
  <2>6. LogMark(g) \in Nat /\ LogMark(g) <= Len(log[b])
    <3> HIDE DEF g, b
    <3> QED BY <2>2, <2>3, <2>4, <2>5
  <2>7. SavepointOf(g) # {} => \E k \in DOMAIN sps[b] :
          sps[b][k].frame = g /\ LogMark(g) = sps[b][k].mark
    BY <2>4
  <2> QED BY <2>2, <2>3, <2>5, <2>6, <2>7
<1>2. ASSUME NEW j \in Places, i < j, SessionAt(j) = b
      PROVE  LogMark(f) <= LogMark(Entered[j])
  <2> DEFINE g == Entered[j]
  <2>1. f < g /\ f \in Nat /\ g \in Nat /\ b <= f
    BY <1>inv, <1>2, EnteredBlocks DEF BlocksAreInside
  <2>2. ~IsOuter(g)
    BY <1>2, <2>1 DEF IsOuter, SessionAt
  <2>3. i # Len(Entered)
    BY <1>inv, <1>2, EnteredBlocks
  <2>4. CASE IsOuter(f)
    BY <1>1, <1>2, <2>4
  <2>5. CASE SavepointOf(g) = {}
    <3>1. LogMark(g) = Len(log[b]) /\ LogMark(f) <= Len(log[b])
      BY <1>1, <1>2, <2>2, <2>5
    <3> QED BY <3>1
  <2>6. CASE ~IsOuter(f) /\ SavepointOf(g) # {}
    <3>1. SavepointOf(f) # {}
      BY <1>inv, <2>3, <2>6 DEF BlocksHaveSavepoints
    <3>2. PICK k \in DOMAIN sps[b] : sps[b][k].frame = f /\ LogMark(f) = sps[b][k].mark
      BY <1>1, <3>1
    <3>3. PICK l \in DOMAIN sps[b] : sps[b][l].frame = g /\ LogMark(g) = sps[b][l].mark
      BY <1>1, <1>2, <2>6
    <3>4. /\ DOMAIN sps[b] = 1 .. Len(sps[b]) /\ Len(sps[b]) \in Nat /\ b \in Frames
      BY <1>inv, BlockSavepoints, EnteredBlocks
    <3>5. k < l
      <4>1. ~(l < k)
        BY <1>inv, <2>1, <3>2, <3>3, <3>4 DEF SavepointsFit
      <4>2. l # k
        BY <2>1, <3>2, <3>3
      <4> QED BY <3>4, <4>1, <4>2
    <3> QED BY <1>inv, <3>2, <3>3, <3>4, <3>5 DEF SavepointsFit
  <2> QED BY <2>4, <2>5, <2>6
<1> QED BY <1>1, <1>2

(* Where what a block wrote and registered ends. *)
LEMMA LogEnds ==
  ASSUME SequentialAssumption, CommitInv, SequentialInv, NEW i \in Places
  PROVE  /\ Inside(i) \subseteq Nat
         /\ Inside(i) # {} => /\ Smallest(Inside(i)) \in Inside(i)
                              /\ \A j \in Inside(i) : Smallest(Inside(i)) <= j
         /\ LogEnd(i) \in Nat /\ LogMark(Entered[i]) <= LogEnd(i)
         /\ LogEnd(i) <= Len(log[SessionAt(i)])
         /\ frame[Entered[i]].mark \in Nat /\ CallEnd(i) \in Nat
         /\ frame[Entered[i]].mark <= CallEnd(i)
         /\ CallEnd(i) <= Len(callbacks[SessionAt(i)])
<1> DEFINE b == SessionAt(i)
<1>inv. BlocksAreInside /\ SavepointsFit /\ CallMarksRise /\ TypeOK
  BY DEF SequentialInv, CommitInv, DurabilityInv
<1>1. /\ Places = 1 .. Len(Entered) /\ Len(Entered) \in Nat /\ b \in Frames
      /\ \A j \in Places : Entered[j] \in Frames
  BY <1>inv, EnteredBlocks
<1>2. Inside(i) \subseteq Nat /\ Inside(i) \subseteq Places
  BY <1>1 DEF Inside
<1>3. ASSUME Inside(i) # {}
      PROVE  /\ Smallest(Inside(i)) \in Inside(i)
             /\ \A j \in Inside(i) : Smallest(Inside(i)) <= j
  BY <1>2, <1>3, SmallestExists
<1>4. Len(callbacks[b]) \in Nat /\ \A j \in Places : frame[Entered[j]].mark \in Nat
  BY <1>inv, <1>1, LenProperties DEF TypeOK, Frame
<1>5. LogMark(Entered[i]) \in Nat /\ LogMark(Entered[i]) <= Len(log[b]) /\ Len(log[b]) \in Nat
  BY LogMarks
<1>6. frame[Entered[i]].mark <= Len(callbacks[b])
  BY <1>inv DEF CallMarksRise
<1>7. CASE Inside(i) = {}
  <2>1. LogEnd(i) = Len(log[b]) /\ CallEnd(i) = Len(callbacks[b])
    BY <1>7 DEF LogEnd, CallEnd
  <2> QED BY ONLY <1>2, <1>3, <1>4, <1>5, <1>6, <1>7, <2>1
<1>8. CASE Inside(i) # {}
  <2> DEFINE j == Smallest(Inside(i))
  <2>1. j \in Places /\ i < j /\ SessionAt(j) = b
    BY <1>3, <1>8 DEF Inside
  <2>2. LogEnd(i) = LogMark(Entered[j]) /\ CallEnd(i) = frame[Entered[j]].mark
    BY <1>8 DEF LogEnd, CallEnd, Following
  <2>3. LogMark(Entered[i]) <= LogMark(Entered[j])
    BY <2>1, LogMarks
  <2>4. LogMark(Entered[j]) \in Nat /\ LogMark(Entered[j]) <= Len(log[b])
    BY <2>1, LogMarks
  <2>5. /\ frame[Entered[i]].mark <= frame[Entered[j]].mark
        /\ frame[Entered[j]].mark <= Len(callbacks[b])
    BY <1>inv, <2>1 DEF CallMarksRise
  <2>6. /\ LogEnd(i) \in Nat /\ LogMark(Entered[i]) <= LogEnd(i)
        /\ LogEnd(i) <= Len(log[b])
    BY ONLY <1>5, <2>2, <2>3, <2>4
  <2>7. /\ CallEnd(i) \in Nat /\ frame[Entered[i]].mark <= CallEnd(i)
        /\ CallEnd(i) <= Len(callbacks[b])
    BY ONLY <1>4, <2>1, <2>2, <2>5
  <2> QED BY <1>2, <1>3, <1>4, <2>6, <2>7
<1> QED BY <1>7, <1>8

(* The picture the invariant gives of the blocks the task is in. *)
Picture ==
  /\ Len(Entered) \in Nat /\ Places = 1 .. Len(Entered)
  /\ \A i \in Places :
       LET f == Entered[i]
           b == SessionAt(i)
       IN /\ f \in Used /\ b \in Used /\ IsOuter(b) /\ open[b]
          /\ log[b] \in Seq(Write) /\ callbacks[b] \in Seq(Callback)
          /\ LogMark(f) \in Nat /\ LogEnd(i) \in Nat
          /\ LogMark(f) <= LogEnd(i) /\ LogEnd(i) <= Len(log[b])
          /\ frame[f].mark \in Nat /\ CallEnd(i) \in Nat
          /\ frame[f].mark <= CallEnd(i) /\ CallEnd(i) <= Len(callbacks[b])
          /\ Scope(i) =
               [alias |-> frame[f].alias,
                writes |-> IdsIn(log[b], LogMark(f), LogEnd(i)),
                calls |-> IdsFrom(callbacks[b], frame[f].mark, CallEnd(i))]

(* The invariants give the picture above.                                  *)
LEMMA PictureHolds == SequentialAssumption /\ CommitInv /\ SequentialInv => Picture
<1> SUFFICES ASSUME SequentialAssumption, CommitInv, SequentialInv PROVE Picture
  OBVIOUS
<1>inv. BlocksAreInside /\ TypeOK
  BY DEF SequentialInv, CommitInv, DurabilityInv
<1>1. /\ Places = 1 .. Len(Entered) /\ Len(Entered) \in Nat
      /\ \A i \in Places :
           /\ Entered[i] \in Used
           /\ SessionAt(i) \in Used /\ SessionAt(i) \in Frames
           /\ IsOuter(SessionAt(i)) /\ open[SessionAt(i)]
  BY <1>inv, EnteredBlocks
<1> SUFFICES ASSUME NEW i \in Places PROVE Picture!2!(i)
  BY <1>1 DEF Picture
<1> DEFINE f == Entered[i]
           b == SessionAt(i)
           m == LogMark(f)
           n == LogEnd(i)
           p == frame[f].mark
           q == CallEnd(i)
<1>2. log[b] \in Seq(Write) /\ callbacks[b] \in Seq(Callback)
  BY <1>inv, <1>1 DEF TypeOK
<1>3. /\ m \in Nat /\ n \in Nat /\ m <= n /\ n <= Len(log[b])
      /\ p \in Nat /\ q \in Nat /\ p <= q /\ q <= Len(callbacks[b])
  BY LogMarks, LogEnds
<1>4. Scope(i) = [alias |-> frame[f].alias,
                  writes |-> Elements(Ids(SubSeq(log[b], m + 1, n))),
                  calls |-> Ids(SubSeq(callbacks[b], p + 1, q))]
  BY DEF Scope
<1>5. Elements(Ids(SubSeq(log[b], m + 1, n))) = IdsIn(log[b], m, n)
  <2> HIDE DEF b, m, n
  <2> QED BY ONLY <1>2, <1>3, IdsOf
<1>6. Ids(SubSeq(callbacks[b], p + 1, q)) = IdsFrom(callbacks[b], p, q)
  <2> HIDE DEF b, p, q
  <2> QED BY ONLY <1>2, <1>3, IdsOf
<1> QED BY <1>1, <1>2, <1>3, <1>4, <1>5, <1>6

-----------------------------------------------------------------------------
(* Parts of the logs and of the callback lists. *)

(* A part depends on its elements only, and an empty one has none.         *)
LEMMA SameIds ==
  ASSUME NEW s, NEW r, NEW m \in Nat, NEW n \in Nat, \A k \in m + 1 .. n : s[k] = r[k]
  PROVE  IdsIn(s, m, n) = IdsIn(r, m, n) /\ IdsFrom(s, m, n) = IdsFrom(r, m, n)
<1>1. IdsIn(s, m, n) = IdsIn(r, m, n)
  BY DEF IdsIn
<1>2. \A k \in 1 .. n - m : m + k \in m + 1 .. n
  OBVIOUS
<1>3. IdsFrom(s, m, n) = IdsFrom(r, m, n)
  BY <1>2 DEF IdsFrom
<1> QED BY <1>1, <1>3

(* An empty part has no identifiers.                                       *)
LEMMA NoIds ==
  ASSUME NEW s, NEW n \in Nat
  PROVE  IdsIn(s, n, n) = {} /\ IdsFrom(s, n, n) = <<>>
<1>1. n + 1 .. n = {} /\ 1 .. n - n = {}
  OBVIOUS
<1>2. IdsIn(s, n, n) = {}
  BY <1>1 DEF IdsIn
<1>3. IdsFrom(s, n, n) = <<>>
  BY <1>1 DEF IdsFrom
<1> QED BY <1>2, <1>3

(* Two parts that meet make one. *)
LEMMA IdsMeet ==
  ASSUME NEW s, NEW m \in Nat, NEW n \in Nat, NEW p \in Nat, m <= n, n <= p
  PROVE  /\ IdsIn(s, m, p) = IdsIn(s, m, n) \cup IdsIn(s, n, p)
         /\ IdsFrom(s, m, p) = IdsFrom(s, m, n) \o IdsFrom(s, n, p)
<1>1. m + 1 .. p = (m + 1 .. n) \cup (n + 1 .. p)
  OBVIOUS
<1>2. IdsIn(s, m, p) = IdsIn(s, m, n) \cup IdsIn(s, n, p)
  BY <1>1 DEF IdsIn
<1> DEFINE a == IdsFrom(s, m, n)
           b == IdsFrom(s, n, p)
           c == IdsFrom(s, m, p)
           T == {s[k].id : k \in m + 1 .. p}
<1>3. /\ a \in Seq(T) /\ Len(a) = n - m /\ \A k \in 1 .. n - m : a[k] = s[m + k].id
      /\ b \in Seq(T) /\ Len(b) = p - n /\ \A k \in 1 .. p - n : b[k] = s[n + k].id
      /\ c \in Seq(T) /\ Len(c) = p - m /\ \A k \in 1 .. p - m : c[k] = s[m + k].id
  <2>1. ASSUME NEW i \in Nat, NEW j \in Nat, m <= i, i <= j, j <= p
        PROVE  /\ IdsFrom(s, i, j) \in Seq(T) /\ Len(IdsFrom(s, i, j)) = j - i
               /\ \A k \in 1 .. j - i : IdsFrom(s, i, j)[k] = s[i + k].id
    <3>1. \A k \in 1 .. j - i : i + k \in m + 1 .. p
      BY <2>1
    <3>2. IdsFrom(s, i, j) = [k \in 1 .. j - i |-> s[i + k].id] /\ j - i \in Nat
      BY <2>1 DEF IdsFrom
    <3>3. \A k \in 1 .. j - i : s[i + k].id \in T
      BY <3>1
    <3> HIDE DEF T
    <3>4. [k \in 1 .. j - i |-> s[i + k].id] \in Seq(T)
      BY <3>2, <3>3
    <3> QED BY <3>2, <3>4, LenProperties
  <2> HIDE DEF T
  <2>2. /\ a \in Seq(T) /\ Len(a) = n - m /\ \A k \in 1 .. n - m : a[k] = s[m + k].id
    BY <2>1
  <2>3. /\ b \in Seq(T) /\ Len(b) = p - n /\ \A k \in 1 .. p - n : b[k] = s[n + k].id
    BY <2>1
  <2>4. m <= p
    OBVIOUS
  <2>5. /\ c \in Seq(T) /\ Len(c) = p - m /\ \A k \in 1 .. p - m : c[k] = s[m + k].id
    BY <2>1, <2>4
  <2> QED BY <2>2, <2>3, <2>5
<1> HIDE DEF a, b, c, T
<1>4. /\ a \o b \in Seq(T) /\ Len(a \o b) = Len(a) + Len(b)
      /\ \A k \in 1 .. Len(a) + Len(b) :
           (a \o b)[k] = IF k <= Len(a) THEN a[k] ELSE b[k - Len(a)]
  BY <1>3, ConcatProperties
<1>5. Len(a \o b) = Len(c)
  BY <1>3, <1>4
<1>6. ASSUME NEW k \in 1 .. Len(c) PROVE (a \o b)[k] = c[k]
  <2>1. CASE k <= n - m
    <3>1. k \in 1 .. n - m /\ k \in 1 .. p - m /\ k \in 1 .. Len(a) + Len(b) /\ k <= Len(a)
      BY <1>3, <2>1
    <3> QED BY <1>3, <1>4, <3>1
  <2>2. CASE ~(k <= n - m)
    <3>1. /\ k - (n - m) \in 1 .. p - n /\ n + (k - (n - m)) = m + k
          /\ k \in 1 .. p - m /\ k \in 1 .. Len(a) + Len(b) /\ ~(k <= Len(a))
      BY <1>3, <2>2
    <3>2. (a \o b)[k] = b[k - (n - m)]
      BY <1>3, <1>4, <3>1
    <3>3. b[k - (n - m)] = s[n + (k - (n - m))].id
      BY <1>3, <3>1
    <3> QED BY <1>3, <3>1, <3>2, <3>3
  <2> QED BY <2>1, <2>2
<1>7. a \o b = c
  BY <1>3, <1>4, <1>5, <1>6, SeqEqual
<1> QED BY <1>2, <1>7 DEF a, b, c

(* A part that ends with the sequence grows with it. *)
LEMMA IdsGrow ==
  ASSUME NEW S, NEW s \in Seq(S), NEW w \in S, NEW m \in Nat, m <= Len(s)
  PROVE  LET r == Append(s, w)
             n == Len(s)
         IN /\ Len(r) = n + 1 /\ n \in Nat
            /\ IdsIn(r, m, n + 1) = IdsIn(s, m, n) \cup {w.id}
            /\ IdsFrom(r, m, n + 1) = Append(IdsFrom(s, m, n), w.id)
            /\ \A k \in 1 .. n : r[k] = s[k]
<1> DEFINE r == Append(s, w)
           n == Len(s)
<1>1. /\ n \in Nat /\ Len(r) = n + 1 /\ r[n + 1] = w /\ \A k \in 1 .. n : r[k] = s[k]
  BY AppendProperties, LenProperties
<1> HIDE DEF r, n
<1>2. m <= n
  BY DEF n
<1>3. IdsIn(r, m, n) = IdsIn(s, m, n) /\ IdsFrom(r, m, n) = IdsFrom(s, m, n)
  <2>1. \A k \in m + 1 .. n : r[k] = s[k]
    BY <1>1
  <2> QED BY <1>1, <2>1, SameIds
<1>4. IdsIn(r, n, n + 1) = {w.id} /\ IdsFrom(r, n, n + 1) = <<w.id>>
  <2>1. n + 1 .. n + 1 = {n + 1} /\ 1 .. (n + 1) - n = 1 .. 1
    BY <1>1
  <2>2. IdsIn(r, n, n + 1) = {w.id}
    BY <1>1, <2>1 DEF IdsIn
  <2>3. IdsFrom(r, n, n + 1) = [k \in 1 .. 1 |-> r[n + k].id]
    BY <2>1 DEF IdsFrom
  <2>4. \A k \in 1 .. 1 : r[n + k].id = w.id
    BY <1>1
  <2>5. <<w.id>> = [k \in 1 .. 1 |-> w.id]
    OBVIOUS
  <2> QED BY <2>2, <2>3, <2>4, <2>5
<1>5. /\ IdsIn(r, m, n + 1) = IdsIn(r, m, n) \cup IdsIn(r, n, n + 1)
      /\ IdsFrom(r, m, n + 1) = IdsFrom(r, m, n) \o IdsFrom(r, n, n + 1)
  <2>1. n + 1 \in Nat /\ n <= n + 1
    BY <1>1
  <2> QED BY <1>1, <1>2, <2>1, IdsMeet
<1>6. IdsFrom(s, m, n) \o <<w.id>> = Append(IdsFrom(s, m, n), w.id)
  <2> DEFINE T == {w.id} \cup {s[k].id : k \in m + 1 .. n}
  <2>1. n - m \in Nat /\ \A k \in 1 .. n - m : m + k \in m + 1 .. n
    BY <1>1, <1>2
  <2>2. \A k \in 1 .. n - m : s[m + k].id \in T
    BY <2>1
  <2>3. w.id \in T
    OBVIOUS
  <2> HIDE DEF T
  <2>4. IdsFrom(s, m, n) \in Seq(T)
    BY <2>1, <2>2 DEF IdsFrom
  <2> QED BY <2>3, <2>4, AppendIsConcat
<1> QED BY <1>1, <1>3, <1>4, <1>5, <1>6 DEF r, n

-----------------------------------------------------------------------------
(* What a step leaves of the picture. *)

(* The blocks in use stay what they are, save for their status. *)
BlocksStay ==
  /\ Used \subseteq Used'
  /\ \A f \in Used : /\ frame'[f].alias = frame[f].alias
                     /\ frame'[f].block = frame[f].block
                     /\ frame'[f].mark = frame[f].mark

(* The block at place i stays there. *)
Stays(i) == i \in Places' /\ Entered'[i] = Entered[i]

(* A scope stays when its place, its marks and its ends do, and what the   *)
(* log and the callback list hold before those ends.                       *)
LEMMA ScopeKept ==
  ASSUME Picture, Picture', BlocksStay, NEW i \in Places, Stays(i),
         LogMark(Entered[i])' = LogMark(Entered[i]),
         LogEnd(i)' = LogEnd(i), CallEnd(i)' = CallEnd(i),
         \A k \in 1 .. LogEnd(i) : log'[SessionAt(i)][k] = log[SessionAt(i)][k],
         \A k \in 1 .. CallEnd(i) :
           callbacks'[SessionAt(i)][k] = callbacks[SessionAt(i)][k]
  PROVE  Scope(i)' = Scope(i)
<1> DEFINE f == Entered[i]
           b == SessionAt(i)
           m == LogMark(f)
           n == LogEnd(i)
           p == frame[f].mark
           q == CallEnd(i)
<1>1. /\ f \in Used /\ m \in Nat /\ n \in Nat /\ p \in Nat /\ q \in Nat
      /\ Scope(i) = [alias |-> frame[f].alias, writes |-> IdsIn(log[b], m, n),
                     calls |-> IdsFrom(callbacks[b], p, q)]
  BY DEF Picture
<1>2. f' = f /\ b' = b /\ p' = p /\ frame'[f].alias = frame[f].alias
  BY <1>1 DEF BlocksStay, Stays, SessionAt
<1>3. Scope(i)' = [alias |-> frame'[f].alias, writes |-> IdsIn(log'[b], m, n),
                   calls |-> IdsFrom(callbacks'[b], p, q)]
  <2>1. Picture!2!(i)'
    BY DEF Picture, Stays
  <2> QED BY <1>2, <2>1
<1>4. IdsIn(log'[b], m, n) = IdsIn(log[b], m, n)
  <2> DEFINE s == log[b]
             r == log'[b]
  <2>1. m \in Nat /\ n \in Nat /\ \A k \in 1 .. n : r[k] = s[k]
    BY <1>1
  <2> HIDE DEF s, r, m, n
  <2>2. \A k \in m + 1 .. n : r[k] = s[k]
    BY ONLY <2>1
  <2>3. IdsIn(r, m, n) = IdsIn(s, m, n)
    BY ONLY <2>1, <2>2, SameIds
  <2> QED BY <2>3 DEF r, s
<1>5. IdsFrom(callbacks'[b], p, q) = IdsFrom(callbacks[b], p, q)
  <2> DEFINE s == callbacks[b]
             r == callbacks'[b]
  <2>1. p \in Nat /\ q \in Nat /\ \A k \in 1 .. q : r[k] = s[k]
    BY <1>1
  <2> HIDE DEF s, r, p, q
  <2>2. \A k \in p + 1 .. q : r[k] = s[k]
    BY ONLY <2>1
  <2>3. IdsFrom(r, p, q) = IdsFrom(s, p, q)
    BY ONLY <2>1, <2>2, SameIds
  <2> QED BY <2>3 DEF r, s
<1> QED BY <1>1, <1>2, <1>3, <1>4, <1>5

(* The places inside a block that stays, if all of them stay.              *)
LEMMA InsideKept ==
  ASSUME Picture, BlocksStay, NEW i \in Places, Stays(i),
         \A j \in Places' : j \in Places /\ Stays(j)
  PROVE  Inside(i)' = Inside(i) \cap Places'
<1>1. \A j \in Places' : SessionAt(j)' = SessionAt(j)
  BY DEF Picture, BlocksStay, Stays, SessionAt
<1> QED BY <1>1 DEF Inside, Stays

(* What a block wrote and registered ends at a block inside it that stays. *)
LEMMA EndsKept ==
  ASSUME SequentialAssumption, CommitInv, SequentialInv, BlocksStay,
         NEW i \in Places, Stays(i), NEW j \in Inside(i), \A k \in Inside(i) : j <= k,
         Inside(i)' \subseteq Inside(i) \cup {Len(Entered) + 1}, j \in Inside(i)',
         Stays(j), LogMark(Entered[j])' = LogMark(Entered[j])
  PROVE  LogEnd(i)' = LogEnd(i) /\ CallEnd(i)' = CallEnd(i)
<1>1. /\ j \in Places /\ Entered[j] \in Used /\ Inside(i) \subseteq 1 .. Len(Entered)
      /\ Len(Entered) \in Nat
  BY EnteredBlocks DEF Inside, SequentialInv
<1>2. Smallest(Inside(i)) = j
  BY <1>1, SmallestIs
<1>3. Smallest(Inside(i))' = j
  <2> DEFINE S == Inside(i)'
  <2>1. S \subseteq Nat /\ j \in S /\ \A k \in S : j <= k
    BY <1>1
  <2> HIDE DEF S
  <2>2. Smallest(S) = j
    BY <2>1, SmallestIs
  <2> QED BY <2>2 DEF S
<1>4. LogEnd(i)' = LogMark(Entered[j])' /\ CallEnd(i)' = frame'[Entered[j]'].mark
  BY <1>3 DEF LogEnd, CallEnd, Following
<1>5. LogEnd(i) = LogMark(Entered[j]) /\ CallEnd(i) = frame[Entered[j]].mark
  BY <1>2 DEF LogEnd, CallEnd, Following
<1>6. frame'[Entered[j]'].mark = frame[Entered[j]].mark
  BY <1>1 DEF BlocksStay, Stays
<1> QED BY <1>4, <1>5, <1>6

(* Where the writes of a block begin, if its savepoint stays. *)
LEMMA LogMarkKept ==
  ASSUME SequentialAssumption, CommitInv, SequentialInv, BlocksStay,
         NEW i \in Places, Stays(i),
         SavepointOf(Entered[i])' = SavepointOf(Entered[i]),
         \A k \in SavepointOf(Entered[i]) :
           sps'[SessionAt(i)][k] = sps[SessionAt(i)][k],
         \/ SavepointOf(Entered[i]) # {} \/ IsOuter(Entered[i])
         \/ Len(log'[SessionAt(i)]) = Len(log[SessionAt(i)])
  PROVE  LogMark(Entered[i])' = LogMark(Entered[i])
<1> DEFINE f == Entered[i]
           b == SessionAt(i)
<1>1. f \in Used /\ b = frame[f].block /\ frame'[f].block = b /\ f' = f
  BY EnteredBlocks DEF SequentialInv, SessionAt, BlocksStay, Stays
<1>2. IsOuter(f)' = IsOuter(f)
  BY <1>1 DEF IsOuter
<1>3. LogMark(f) = IF IsOuter(f) THEN 0
                   ELSE IF SavepointOf(f) = {} THEN Len(log[b])
                   ELSE sps[b][Largest(SavepointOf(f))].mark
  BY <1>1 DEF LogMark
<1>4. LogMark(f)' = IF IsOuter(f) THEN 0
                    ELSE IF SavepointOf(f) = {} THEN Len(log'[b])
                    ELSE sps'[b][Largest(SavepointOf(f))].mark
  BY <1>1, <1>2 DEF LogMark
<1>5. SavepointOf(f) # {} => Largest(SavepointOf(f)) \in SavepointOf(f)
  <2>1. SavepointOf(f) \subseteq 1 .. Len(sps[b]) /\ Len(sps[b]) \in Nat
    BY BlockSavepoints DEF SequentialInv
  <2> HIDE DEF f, b
  <2> QED BY <2>1, LargestExists
<1> QED BY <1>3, <1>4, <1>5

-----------------------------------------------------------------------------
(* The invariant: what steps that enter no block have in common. *)

(* Every block the task is in was there before. *)
NoneEntered == \A i \in Places' : i \in Places /\ Stays(i)

(* While nobody enters a block and the blocks stay, they stay inside each  *)
(* other.                                                                  *)
LEMMA InsidePreserved ==
  ASSUME SequentialAssumption, CommitInv, CommitInv', BlocksAreInside,
         BlocksStay, NoneEntered
  PROVE  /\ BlocksAreInside'
         /\ Places' = 1 .. Len(Entered') /\ Len(Entered') \in Nat
         /\ \A i \in Places' : SessionAt(i)' = SessionAt(i)
<1>1. /\ \A i \in Places : Entered[i] \in Used /\ SessionAt(i) \in Used
      /\ Places = 1 .. Len(Entered)
  BY EnteredBlocks
<1>2. Entered' \in Seq(Frames)
  BY DEF SequentialAssumption, CommitInv, DurabilityInv, TypeOK, Entered
<1>3. Places' = 1 .. Len(Entered') /\ Len(Entered') \in Nat
  BY <1>2, LenProperties DEF Places
<1>4. \A i \in Places' :
        /\ i \in Places /\ Entered'[i] = Entered[i] /\ SessionAt(i)' = SessionAt(i)
        /\ frame'[Entered[i]].alias = frame[Entered[i]].alias
        /\ frame'[SessionAt(i)].alias = frame[SessionAt(i)].alias
  BY <1>1 DEF NoneEntered, Stays, BlocksStay, SessionAt
<1>5. ASSUME NEW i \in Places' PROVE \E j \in 1 .. i : Entered'[j] = SessionAt(i)'
  <2>1. PICK j \in 1 .. i : Entered[j] = SessionAt(i)
    BY <1>4 DEF BlocksAreInside
  <2>2. j \in Places'
    BY <1>3
  <2> QED BY <1>4, <2>1, <2>2
<1>6. \A i, j \in Places' : i < j => Entered'[i] < Entered'[j]
  BY <1>4 DEF BlocksAreInside
<1>7. \A i \in Places' : frame'[SessionAt(i)'].alias = frame'[Entered'[i]].alias
  BY <1>4 DEF BlocksAreInside
<1>8. \A i, j \in Places' : frame'[Entered'[i]].alias = frame'[Entered'[j]].alias
        => SessionAt(i)' = SessionAt(j)'
  BY <1>4 DEF BlocksAreInside
<1> QED BY <1>3, <1>4, <1>5, <1>6, <1>7, <1>8 DEF BlocksAreInside

(* ... and their callback marks rise, if no list is cut below a mark.      *)
LEMMA CallMarksPreserved ==
  ASSUME SequentialAssumption, CommitInv, CommitInv', BlocksAreInside, CallMarksRise,
         BlocksStay, NoneEntered, nframes' = nframes,
         \A i \in Places' : frame[Entered[i]].mark <= Len(callbacks'[SessionAt(i)]),
         \A f \in Frames \ Used : callbacks'[f] = callbacks[f]
  PROVE  CallMarksRise'
<1>1. \A i \in Places :
        Entered[i] \in Used /\ Entered[i] \in Frames /\ SessionAt(i) \in Used
  BY EnteredBlocks
<1>2. \A i \in Places' : SessionAt(i)' = SessionAt(i)
  BY InsidePreserved
<1>3. \A i \in Places' :
        /\ i \in Places /\ Entered'[i] = Entered[i]
        /\ frame'[Entered[i]].mark = frame[Entered[i]].mark
        /\ IsOuter(Entered[i])' => IsOuter(Entered[i])
  BY <1>1 DEF NoneEntered, Stays, BlocksStay, IsOuter
<1>4. Used' = Used
  BY DEF Used
<1> QED BY <1>2, <1>3, <1>4 DEF CallMarksRise

(* A step of the program outside any entering or leaving, or of the block  *)
(* that is being closed.                                                   *)
LEMMA SequentialKept ==
  ASSUME SequentialAssumption, CommitInv, CommitInv', SequentialInv,
         UNCHANGED <<frame, nframes, stack, inherited>>,
         \A b \in Frames :
           /\ sps'[b] = <<>> \/ (sps'[b] = sps[b] /\ Len(log[b]) <= Len(log'[b]))
           /\ open[b] => sps'[b] = sps[b] /\ Len(callbacks[b]) <= Len(callbacks'[b]),
         \A f \in Frames \ Used : callbacks'[f] = callbacks[f],
         IsEntering' = IsEntering, pc'[Task] # "writing",
         pc'[Task] = "beginning" => ~begun'[SessionAt(Len(Entered))]
  PROVE  SequentialInv'
<1>inv. /\ RunsAlone /\ BlocksAreInside /\ CallMarksRise /\ SavepointsFit
        /\ BlocksHaveSavepoints /\ TypeOK
  BY DEF SequentialInv, CommitInv, DurabilityInv
<1>1. Entered' = Entered /\ Places' = Places /\ \A i : SessionAt(i)' = SessionAt(i)
  BY DEF Entered, Places, SessionAt
<1>2. BlocksStay /\ NoneEntered
  BY <1>1 DEF BlocksStay, NoneEntered, Stays, Used
<1>3. \A i \in Places : /\ open[SessionAt(i)] /\ SessionAt(i) \in Frames
                        /\ Entered[i] \in Frames
  BY <1>inv, EnteredBlocks
<1>4. RunsAlone'
  BY <1>inv, <1>1 DEF RunsAlone
<1>5. BlocksAreInside'
  BY <1>inv, <1>2, InsidePreserved
<1>6. CallMarksRise'
  <2>1. ASSUME NEW i \in Places
        PROVE  frame[Entered[i]].mark <= Len(callbacks'[SessionAt(i)])
    <3>1. /\ frame[Entered[i]].mark <= Len(callbacks[SessionAt(i)])
          /\ Len(callbacks[SessionAt(i)]) <= Len(callbacks'[SessionAt(i)])
      BY <1>inv, <1>3 DEF CallMarksRise
    <3>2. /\ frame[Entered[i]].mark \in Nat
          /\ Len(callbacks[SessionAt(i)]) \in Nat
          /\ Len(callbacks'[SessionAt(i)]) \in Nat
      BY <1>inv, <1>3, LenProperties DEF TypeOK, Frame, CommitInv, DurabilityInv
    <3> QED BY <3>1, <3>2
  <2> QED BY <1>inv, <1>1, <1>2, <2>1, CallMarksPreserved
<1>7. SavepointsFit'
  <2> SUFFICES ASSUME NEW b \in Frames PROVE SavepointsFit!(b)'
    BY DEF SavepointsFit
  <2>1. CASE sps'[b] = <<>>
    BY <2>1
  <2>2. CASE sps'[b] = sps[b] /\ Len(log[b]) <= Len(log'[b])
    <3>1. \A k \in DOMAIN sps[b] : sps[b][k].mark <= Len(log'[b])
      <4>1. Len(log[b]) \in Nat /\ Len(log'[b]) \in Nat
        BY <1>inv, LenProperties DEF TypeOK, CommitInv, DurabilityInv
      <4>3. \A k \in DOMAIN sps[b] : sps[b][k].mark \in Nat
        BY <1>inv, SavepointTypes
      <4>4. \A k \in DOMAIN sps[b] : sps[b][k].mark <= Len(log[b])
        BY <1>inv DEF SavepointsFit
      <4> QED BY <2>2, <4>1, <4>3, <4>4
    <3>2. \A i : IsOuter(Entered[i])' = IsOuter(Entered[i])
      BY <1>1 DEF IsOuter
    <3> QED BY <1>inv, <1>1, <2>2, <3>1, <3>2 DEF SavepointsFit
  <2> QED BY <2>1, <2>2
<1>8. BlocksHaveSavepoints'
  <2> SUFFICES ASSUME NEW i \in Places, ~IsOuter(Entered[i])'
               PROVE  (SavepointOf(Entered[i]) = {})' <=> i = Len(Entered) /\ IsEntering
    BY <1>1 DEF BlocksHaveSavepoints
  <2>1. ~IsOuter(Entered[i])
    BY <1>1 DEF IsOuter
  <2>2. SavepointOf(Entered[i])' = SavepointOf(Entered[i])
    <3>1. sps'[SessionAt(i)] = sps[SessionAt(i)]
      BY <1>3
    <3> QED BY <1>1, <3>1 DEF SavepointOf, SessionAt
  <2> QED BY <1>inv, <2>1, <2>2 DEF BlocksHaveSavepoints
<1> QED BY <1>4, <1>5, <1>6, <1>7, <1>8 DEF SequentialInv

-----------------------------------------------------------------------------
(* The abstract state. *)

(* The abstract variables, as the refinement mapping gives them.           *)
Scopes == [i \in Places |-> Scope(i)]
IdSet(S) == {w.id : w \in S}
DurableIds == IdSet(durable)

AbstractStutters == UNCHANGED <<Scopes, DurableIds, Due, Ids(ran)>>

(* A step that changes none of the abstract variables. *)
LEMMA Stutters ==
  ASSUME AbstractStutters
  PROVE  [Abstract!Next]_Abstract!absvars
BY DEF AbstractStutters, Abstract!absvars, Scopes, DurableIds, IdSet

(* The identifiers of two sets of writes are those of each.                *)
LEMMA IdSetUnion ==
  ASSUME NEW S, NEW T
  PROVE  IdSet(S \cup T) = IdSet(S) \cup IdSet(T)
BY DEF IdSet

(* The blocks the task is in are the same, and so is what they wrote and   *)
(* registered.                                                             *)
LEMMA SameScopes ==
  ASSUME SequentialAssumption, CommitInv, SequentialInv, BlocksStay, Entered' = Entered,
         \A i \in Places : /\ LogMark(Entered[i])' = LogMark(Entered[i])
                           /\ log'[SessionAt(i)] = log[SessionAt(i)]
                           /\ callbacks'[SessionAt(i)] = callbacks[SessionAt(i)]
  PROVE  Scopes' = Scopes
<1>inv. BlocksAreInside
  BY DEF SequentialInv
<1>1. /\ Places' = Places
      /\ \A i \in Places : /\ Entered[i] \in Used
                           /\ SessionAt(i)' = SessionAt(i)
                           /\ frame'[Entered[i]].alias = frame[Entered[i]].alias
                           /\ frame'[Entered[i]].mark = frame[Entered[i]].mark
  BY <1>inv, EnteredBlocks DEF BlocksStay, Places, SessionAt
<1>2. \A i \in Places : Inside(i)' = Inside(i)
  BY <1>1 DEF Inside
<1> SUFFICES ASSUME NEW i \in Places PROVE Scope(i)' = Scope(i)
  BY <1>1 DEF Scopes
<1>3. LogEnd(i)' = LogEnd(i) /\ CallEnd(i)' = CallEnd(i)
  <2>1. CASE Inside(i) = {}
    BY <1>1, <1>2, <2>1 DEF LogEnd, CallEnd
  <2>2. CASE Inside(i) # {}
    <3>1. Smallest(Inside(i)) \in Places
      BY <2>2, LogEnds DEF Inside
    <3> DEFINE j == Smallest(Inside(i))
    <3>2. j' = j
      BY <1>2
    <3>3. LogEnd(i)' = LogMark(Following(i))' /\ CallEnd(i)' = frame'[Following(i)'].mark
          /\ LogEnd(i) = LogMark(Following(i)) /\ CallEnd(i) = frame[Following(i)].mark
      BY <1>2, <2>2 DEF LogEnd, CallEnd
    <3> HIDE DEF j
    <3>4. PICK k \in Places : k = j
      BY <3>1 DEF j
    <3>5. Following(i)' = Entered[k] /\ Following(i) = Entered[k]
      BY <3>2, <3>4 DEF Following, j
    <3>6. LogMark(Following(i))' = LogMark(Entered[k])'
      BY <3>5
    <3>7. LogMark(Following(i)) = LogMark(Entered[k])
      BY <3>5
    <3> QED BY <1>1, <3>3, <3>4, <3>5, <3>6, <3>7
  <2> QED BY <2>1, <2>2
<1> QED BY <1>1, <1>3 DEF Scope

(* Outside the callbacks of a commit, none are due. *)
LEMMA NothingDue ==
  pc[Task] \notin {"closing", "calling"} => Due = <<>>
BY DEF Due

(* The identifiers of a sequence that gains its last element or loses its  *)
(* first.                                                                  *)
LEMMA IdsOfEnds ==
  ASSUME NEW S, NEW s \in Seq(S), NEW x \in S
  PROVE  /\ Ids(Append(s, x)) = Append(Ids(s), x.id)
         /\ s # <<>> => /\ Ids(s) # <<>> /\ Head(Ids(s)) = Head(s).id
                        /\ Ids(Tail(s)) = Tail(Ids(s))
         /\ Ids(<<>>) = <<>>
<1>1. Ids(Append(s, x)) = Append(Ids(s), x.id)
  BY DEF Ids
<1>2. s # <<>> => Ids(s) # <<>> /\ Head(Ids(s)) = Head(s).id
  BY DEF Ids
<1>3. s # <<>> => Ids(Tail(s)) = Tail(Ids(s))
  BY DEF Ids
<1>4. Ids(<<>>) = <<>>
  BY DEF Ids
<1> QED BY <1>1, <1>2, <1>3, <1>4

-----------------------------------------------------------------------------
(* The steps, one by one: each keeps the invariant and is a step of the    *)
(* abstract specification, or none.                                        *)

Implements == SequentialInv' /\ [Abstract!Next]_Abstract!absvars

(* A block that changes its status keeps its database, session and mark.   *)
LEMMA BecomeOnlyStatus ==
  ASSUME TypeOK, NEW f \in Frames, NEW st, Become(f, st)
  PROVE  \A g \in Frames : /\ frame'[g].block = frame[g].block
                           /\ frame'[g].alias = frame[g].alias
                           /\ frame'[g].mark = frame[g].mark
                           /\ IsOuter(g)' = IsOuter(g)
<1>1. frame \in [Frames -> Frame] /\ frame[f] \in Frame
  BY DEF TypeOK
<1> DEFINE new == [frame[f] EXCEPT !.status = st]
<1>2. frame' = [frame EXCEPT ![f] = new]
  BY DEF Become
<1>3. /\ new.block = frame[f].block /\ new.alias = frame[f].alias
      /\ new.mark = frame[f].mark
  BY <1>1 DEF Frame
<1> HIDE DEF new
<1>4. frame'[f] = new /\ \A g \in Frames : g # f => frame'[g] = frame[g]
  BY <1>1, <1>2
<1>5. \A g \in Frames : /\ frame'[g].block = frame[g].block
                         /\ frame'[g].alias = frame[g].alias
                         /\ frame'[g].mark = frame[g].mark
  BY <1>3, <1>4
<1> QED BY <1>5 DEF IsOuter

(* The task moves on, and the blocks, their sessions and the abstract      *)
(* state stay.                                                             *)
LEMMA OnlyControlMoves ==
  ASSUME SequentialAssumption, CommitInv, CommitInv', SequentialInv,
         frame' = frame, nframes' = nframes, stack' = stack, inherited' = inherited,
         open' = open, callbacks' = callbacks, log' = log, sps' = sps, ran' = ran,
         IsEntering' = IsEntering, pc'[Task] # "writing",
         pc'[Task] = "beginning" => ~begun'[SessionAt(Len(Entered))]
  PROVE  SequentialInv' /\ Scopes' = Scopes /\ Ids(ran)' = Ids(ran)
<1>1. \A b \in Frames : Len(log[b]) <= Len(log'[b])
                        /\ Len(callbacks[b]) <= Len(callbacks'[b])
  BY LenProperties DEF CommitInv, DurabilityInv, TypeOK
<1>2. SequentialInv'
  BY <1>1, SequentialKept
<1>3. Entered' = Entered /\ BlocksStay
  BY DEF Entered, BlocksStay, Used
<1>4. Scopes' = Scopes
  BY <1>3, SameScopes DEF LogMark, IsOuter, SavepointOf
<1> QED BY <1>2, <1>4

(* A nested block that looks whether its session is in a transaction       *)
(* changes nothing the abstract specification sees                         *)
(* (_begin_sqlite_transaction).                                            *)
LEMMA CheckTransactionImplements ==
  ASSUME SequentialAssumption, CommitInv, CommitInv', SequentialInv, CheckTransaction(Task)
  PROVE  Implements
<1>1. TypeOK /\ Task \in Tasks /\ stack[Task] # <<>>
  BY DEF CommitInv, DurabilityInv, TasksAreSomewhere, CheckTransaction, SequentialAssumption
<1>2. Len(Entered) \in Places /\ Top(Task) = Entered[Len(Entered)]
  BY <1>1, EnteredBlocks DEF SequentialInv, Entered
<1>3. /\ pc[Task] = "entering"
      /\ pc'[Task] = IF begun[SessionAt(Len(Entered))] THEN "begun" ELSE "beginning"
      /\ UNCHANGED <<frame, counters, stack, inherited, target, session, durable, ran>>
  BY <1>1, <1>2 DEF CheckTransaction, Goto, TypeOK, SessionAt
<1>4. SequentialInv' /\ Scopes' = Scopes /\ Ids(ran)' = Ids(ran)
  BY <1>3, OnlyControlMoves DEF IsEntering, session, counters
<1>5. Due = <<>> /\ Due' = <<>>
  BY <1>3 DEF Due
<1> QED BY <1>3, <1>4, <1>5, Stutters DEF Implements, AbstractStutters, DurableIds

(* ... nor does one that begins it (its exec_driver_sql).                  *)
LEMMA BeginTransactionImplements ==
  ASSUME SequentialAssumption, CommitInv, CommitInv', SequentialInv, BeginTransaction(Task)
  PROVE  Implements
<1>1. TypeOK /\ Task \in Tasks
  BY DEF CommitInv, DurabilityInv, SequentialAssumption
<1>2. /\ pc[Task] = "beginning" /\ pc'[Task] = "begun"
      /\ UNCHANGED <<frame, counters, stack, inherited, target, open, callbacks,
                     log, sps, durable, ran>>
  BY <1>1 DEF BeginTransaction, Goto, TypeOK
<1>3. SequentialInv' /\ Scopes' = Scopes /\ Ids(ran)' = Ids(ran)
  BY <1>2, OnlyControlMoves DEF IsEntering, counters
<1>4. Due = <<>> /\ Due' = <<>>
  BY <1>2 DEF Due
<1> QED BY <1>2, <1>3, <1>4, Stutters DEF Implements, AbstractStutters, DurableIds

(* Between the operations that change the abstract state. *)
LEMMA WaitsImplement ==
  ASSUME SequentialAssumption, CommitInv, CommitInv', SequentialInv,
         Finish(Task) \/ CommitStart(Task) \/ CommitFails(Task)
  PROVE  Implements
<1>1. TypeOK /\ Task \in Tasks
  BY DEF CommitInv, DurabilityInv, SequentialAssumption
<1>2. /\ pc[Task] \in {"run", "committing"} /\ pc'[Task] \in {"done", "committing", "undoing"}
      /\ UNCHANGED <<frame, counters, stack, inherited, session, durable, ran>>
  BY <1>1 DEF Finish, CommitStart, CommitFails, LeavesOuter, Goto, TypeOK
<1>3. SequentialInv' /\ Scopes' = Scopes /\ Ids(ran)' = Ids(ran)
  BY <1>2, OnlyControlMoves DEF IsEntering, session, counters
<1>4. Due = <<>> /\ Due' = <<>>
  BY <1>2 DEF Due
<1> QED BY <1>2, <1>3, <1>4, Stutters DEF Implements, AbstractStutters, DurableIds

(* ... nor does one that has run all its callbacks                         *)
(* (_run_on_commit_callbacks).                                             *)
LEMMA CallsDoneImplements ==
  ASSUME SequentialAssumption, CommitInv, CommitInv', SequentialInv, CallsDone(Task)
  PROVE  Implements
<1>1. TypeOK /\ Task \in Tasks
  BY DEF CommitInv, DurabilityInv, SequentialAssumption
<1>2. /\ pc[Task] = "calling" /\ pc'[Task] = "run" /\ callbacks[target[Task].block] = <<>>
      /\ UNCHANGED <<frame, counters, stack, inherited, session, durable, ran>>
  BY <1>1 DEF CallsDone, Return, Goto, TypeOK
<1>3. SequentialInv' /\ Scopes' = Scopes /\ Ids(ran)' = Ids(ran)
  BY <1>2, OnlyControlMoves DEF IsEntering, session, counters
<1>4. Due = <<>> /\ Due' = <<>>
  BY <1>2 DEF Due, Ids
<1> QED BY <1>2, <1>3, <1>4, Stutters DEF Implements, AbstractStutters, DurableIds

(* A write outside of any block is durable at once.                        *)
LEMMA AutocommitImplements ==
  ASSUME SequentialAssumption, CommitInv, CommitInv', SequentialInv,
         NEW a \in Aliases, WriteAutocommits(Task, a),
         \A i \in Places : frame[Entered[i]].alias # a
  PROVE  Implements
<1>1. TypeOK /\ Task \in Tasks
  BY DEF CommitInv, DurabilityInv, SequentialAssumption
<1>2. /\ pc[Task] = "run" /\ pc' = pc /\ nwrites < MaxWrites
      /\ durable' = durable \cup {[id |-> nwrites + 1, in |-> 0]}
      /\ UNCHANGED <<frame, nframes, ncalls, stack, inherited, target, session, ran>>
  BY DEF WriteAutocommits, MayWrite
<1>3. SequentialInv' /\ Scopes' = Scopes /\ Ids(ran)' = Ids(ran)
  BY <1>2, OnlyControlMoves DEF IsEntering, session
<1>4. Due = <<>> /\ Due' = <<>>
  BY <1>2 DEF Due
<1>5. PICK w \in 1 .. MaxWrites : w = nwrites + 1
  BY <1>1, <1>2, AtomicAssumption DEF TypeOK
<1>6. DurableIds' = DurableIds \cup {w}
  <2>1. IdSet({[id |-> nwrites + 1, in |-> 0]}) = {w}
    BY <1>5 DEF IdSet
  <2> QED BY <1>2, <2>1, IdSetUnion DEF DurableIds
<1>7. Abstract!On(a) = {}
  <2>1. ASSUME NEW i \in Places PROVE Scope(i).alias # a
    BY DEF Scope
  <2> QED BY <2>1 DEF Abstract!On
<1>8. Abstract!Write(a, w)
  BY <1>3, <1>4, <1>6, <1>7 DEF Abstract!Write, Scopes, DurableIds, IdSet
<1>9. Abstract!Next
  BY <1>8 DEF Abstract!Next
<1> QED BY <1>3, <1>9 DEF Implements

(* The session, or the callbacks, of a block that is over. *)
LEMMA ClosedMoves ==
  ASSUME SequentialAssumption, CommitInv, CommitInv', SequentialInv,
         NEW f \in Frames, ~open[f],
         frame' = frame, nframes' = nframes, stack' = stack, inherited' = inherited,
         \A b \in Frames : b # f => /\ log'[b] = log[b] /\ sps'[b] = sps[b]
                                    /\ callbacks'[b] = callbacks[b],
         sps'[f] = <<>> \/ (sps'[f] = sps[f] /\ log'[f] = log[f]),
         f \in Used, pc[Task] \in {"closing", "calling"},
         pc'[Task] \in {"run", "closing", "calling"}
  PROVE  SequentialInv' /\ Scopes' = Scopes
<1>inv. BlocksAreInside /\ TypeOK
  BY DEF SequentialInv, CommitInv, DurabilityInv
<1>1. \A b \in Frames : Len(log[b]) \in Nat /\ Len(callbacks[b]) \in Nat
  BY <1>inv, LenProperties DEF TypeOK
<1>2. ASSUME NEW b \in Frames
      PROVE  /\ sps'[b] = <<>> \/ (sps'[b] = sps[b] /\ Len(log[b]) <= Len(log'[b]))
             /\ open[b] => sps'[b] = sps[b] /\ Len(callbacks[b]) <= Len(callbacks'[b])
  BY <1>1
<1>3. IsEntering' = IsEntering /\ pc'[Task] # "writing" /\ pc'[Task] # "beginning"
  BY DEF IsEntering
<1>4. \A g \in Frames \ Used : callbacks'[g] = callbacks[g]
  OBVIOUS
<1>5. SequentialInv'
  BY <1>2, <1>3, <1>4, SequentialKept
<1>6. Entered' = Entered /\ BlocksStay
  BY DEF Entered, BlocksStay, Used
<1>7. \A i \in Places : SessionAt(i) \in Frames /\ SessionAt(i) # f
  BY <1>inv, EnteredBlocks
<1>8. ASSUME NEW i \in Places PROVE LogMark(Entered[i])' = LogMark(Entered[i])
  <2>1. /\ log'[SessionAt(i)] = log[SessionAt(i)] /\ sps'[SessionAt(i)] = sps[SessionAt(i)]
    BY <1>7
  <2> QED BY <1>6, <2>1 DEF LogMark, SavepointOf, IsOuter, SessionAt
<1>9. Scopes' = Scopes
  BY <1>6, <1>7, <1>8, SameScopes
<1> QED BY <1>5, <1>9

(* The block the task closes, or runs the callbacks of. *)
LEMMA ClosedBlock ==
  ASSUME SequentialAssumption, CommitInv, pc[Task] \in {"closing", "calling"}
  PROVE  LET f == target[Task].block
         IN /\ f \in Frames /\ f \in Used /\ ~open[f] /\ callbacks[f] \in Seq(Callback)
            /\ pc[Task] = "calling" => Committed(f)
            /\ TypeOK /\ Task \in Tasks
<1>1. TypeOK /\ TasksAreSomewhere /\ CallersHaveCommitted /\ Task \in Tasks
  BY DEF CommitInv, DurabilityInv, CallsInv, SequentialAssumption
<1>2. target[Task].block \in Used /\ ~open[target[Task].block]
  BY <1>1 DEF TasksAreSomewhere
<1>3. target[Task].block \in Frames
  BY <1>1, <1>2, UsedIsFrames
<1> QED BY <1>1, <1>2, <1>3 DEF CallersHaveCommitted, TypeOK

(* A session that is closed has its callbacks due, if its block committed, *)
(* and none otherwise.                                                     *)
LEMMA CloseSessionImplements ==
  ASSUME SequentialAssumption, CommitInv, CommitInv', SequentialInv, CloseSession(Task)
  PROVE  Implements
<1> DEFINE f == target[Task].block
<1>1. /\ f \in Frames /\ f \in Used /\ ~open[f] /\ TypeOK /\ Task \in Tasks
      /\ pc[Task] = "closing"
  BY ClosedBlock DEF CloseSession
<1>2. /\ log' = [log EXCEPT ![f] = <<>>] /\ sps' = [sps EXCEPT ![f] = <<>>]
      /\ UNCHANGED <<frame, counters, stack, inherited, open, callbacks, durable, ran>>
  BY DEF CloseSession, EndTransaction
<1>3. \/ Committed(f) /\ pc'[Task] = "calling" /\ target' = target
      \/ ~Committed(f) /\ pc'[Task] = "run"
  BY <1>1 DEF CloseSession, Goto, Return, TypeOK, SequentialAssumption
<1>4. /\ \A b \in Frames : b # f => log'[b] = log[b] /\ sps'[b] = sps[b]
      /\ sps'[f] = <<>>
  BY <1>1, <1>2 DEF TypeOK
<1>5. Due' = Due
  BY <1>1, <1>2, <1>3 DEF Due, Committed
<1>6. SequentialInv' /\ Scopes' = Scopes
  <2>1. /\ frame' = frame /\ nframes' = nframes /\ stack' = stack
        /\ inherited' = inherited /\ callbacks' = callbacks
        /\ pc[Task] \in {"closing", "calling"} /\ pc'[Task] \in {"run", "closing", "calling"}
    BY <1>1, <1>2, <1>3 DEF counters
  <2>2. \A b \in Frames : b # f => /\ log'[b] = log[b] /\ sps'[b] = sps[b]
                                   /\ callbacks'[b] = callbacks[b]
    BY <1>4, <2>1
  <2> HIDE DEF f
  <2> QED BY <1>1, <1>4, <2>1, <2>2, ClosedMoves
<1>7. AbstractStutters
  BY <1>2, <1>5, <1>6 DEF AbstractStutters, DurableIds
<1> QED BY <1>6, <1>7, Stutters DEF Implements

(* The next callback runs, whatever becomes of those behind it. *)
LEMMA CallImplements ==
  ASSUME SequentialAssumption, CommitInv, CommitInv', SequentialInv,
         Call(Task) \/ CallRaises(Task)
  PROVE  Implements
<1> DEFINE f == target[Task].block
           c == callbacks[f]
<1>1. /\ f \in Frames /\ f \in Used /\ ~open[f] /\ TypeOK /\ Task \in Tasks
      /\ pc[Task] = "calling" /\ c # <<>> /\ c \in Seq(Callback) /\ Committed(f)
  BY ClosedBlock DEF Call, CallRaises
<1>2. /\ ran' = Append(ran, Head(c))
      /\ UNCHANGED <<frame, counters, stack, inherited, open, log, sps, durable>>
  BY DEF Call, CallRaises, NextCall
<1>3. \/ /\ pc' = pc /\ target' = target
         /\ callbacks' = [callbacks EXCEPT ![f] = Tail(c)]
      \/ pc'[Task] = "run" /\ callbacks' = [callbacks EXCEPT ![f] = <<>>]
  BY <1>1 DEF Call, CallRaises, Return, Goto, TypeOK
<1>4. \A b \in Frames : b # f => callbacks'[b] = callbacks[b]
  BY <1>1, <1>3 DEF TypeOK
<1>5. SequentialInv' /\ Scopes' = Scopes
  <2> HIDE DEF f
  <2> QED BY <1>1, <1>2, <1>3, <1>4, ClosedMoves DEF counters
<1>6. Due = Ids(c) /\ Due # <<>> /\ Head(Due) = Head(c).id /\ Ids(Tail(c)) = Tail(Due)
  <2>1. Due = Ids(c)
    BY <1>1 DEF Due, Committed
  <2>2. Head(c) \in Callback
    BY <1>1
  <2> HIDE DEF c, f
  <2> QED BY <1>1, <2>1, <2>2, IdsOfEnds
<1>7. Due' \in {Tail(Due), <<>>}
  <2>1. CASE /\ pc' = pc /\ target' = target
             /\ callbacks' = [callbacks EXCEPT ![f] = Tail(c)]
    <3>1. callbacks'[f] = Tail(c)
      BY <1>1, <2>1 DEF TypeOK
    <3>2. Due' = Ids(Tail(c))
      BY <1>1, <1>2, <2>1, <3>1 DEF Due, Committed
    <3> QED BY <1>6, <3>2
  <2>2. CASE pc'[Task] = "run"
    BY <2>2 DEF Due
  <2> QED BY <1>3, <2>1, <2>2
<1>8. Ids(ran)' = Append(Ids(ran), Head(Due))
  <2>1. ran \in Seq(Callback) /\ Head(c) \in Callback
    BY <1>1 DEF TypeOK
  <2> HIDE DEF c
  <2>2. Ids(Append(ran, Head(c))) = Append(Ids(ran), Head(c).id)
    BY <2>1, IdsOfEnds
  <2> QED BY <1>2, <1>6, <2>2
<1>9. Abstract!Call
  BY <1>2, <1>5, <1>6, <1>7, <1>8 DEF Abstract!Call, Scopes
<1> QED BY <1>5, <1>9 DEF Implements, Abstract!Next

(* The SAVEPOINT of the block being entered starts at the end of the log.  *)
LEMMA OpenSavepointImplements ==
  ASSUME SequentialAssumption, CommitInv, CommitInv', SequentialInv, OpenSavepoint(Task)
  PROVE  Implements
<1> DEFINE n == Len(Entered)
           f == Entered[n]
           b == SessionAt(n)
<1>inv. /\ TypeOK /\ RunsAlone /\ BlocksAreInside /\ CallMarksRise /\ SavepointsFit
        /\ BlocksHaveSavepoints /\ Task \in Tasks
  BY DEF CommitInv, DurabilityInv, SequentialInv, SequentialAssumption
<1>1. stack[Task] # <<>> /\ ~IsOuter(Top(Task)) /\ pc[Task] = "begun"
  BY <1>inv DEF OpenSavepoint, CommitInv, DurabilityInv, TasksAreSomewhere
<1>2. /\ n \in Places /\ Top(Task) = f /\ f \in Frames /\ b \in Frames /\ f \in Used
      /\ Places = 1 .. n /\ n \in Nat /\ Frames \subseteq Nat
      /\ b = frame[f].block /\ \A i \in Places : Entered[i] \in Used /\ Entered[i] \in Frames
      /\ Used \subseteq Frames /\ \A i \in Places : SessionAt(i) \in Frames
  BY <1>inv, <1>1, EnteredBlocks DEF Entered, SessionAt
<1> DEFINE new == [frame |-> f, mark |-> Len(log[b]), outside |-> ~begun[b]]
<1>3. /\ sps' = [sps EXCEPT ![b] = Append(@, new)]
      /\ pc'[Task] = "run" /\ Become(f, "open")
      /\ UNCHANGED <<counters, stack, inherited, target, open, callbacks, log,
                     durable, ran>>
  BY <1>inv, <1>2 DEF OpenSavepoint, Goto, TypeOK
<1> HIDE DEF n, f, b
<1>4. /\ \A g \in Frames : /\ frame'[g].block = frame[g].block
                           /\ frame'[g].alias = frame[g].alias
                           /\ frame'[g].mark = frame[g].mark
                           /\ IsOuter(g)' = IsOuter(g)
  BY <1>inv, <1>2, <1>3, BecomeOnlyStatus
<1>5. /\ Entered' = Entered /\ Places' = Places /\ Used' = Used /\ BlocksStay /\ NoneEntered
      /\ \A i \in Places : SessionAt(i)' = SessionAt(i)
  BY <1>2, <1>3, <1>4 DEF Entered, Places, Used, BlocksStay, NoneEntered, Stays, SessionAt,
     counters
<1>6. SavepointOf(f) = {} /\ ~IsOuter(f)
  BY <1>inv, <1>1, <1>2 DEF BlocksHaveSavepoints, IsEntering, f, n
<1>7. /\ Len(sps[b]) \in Nat /\ DOMAIN sps[b] = 1 .. Len(sps[b])
      /\ sps'[b] = Append(sps[b], new) /\ sps[b] \in Seq(Savepoint)
      /\ \A k \in DOMAIN sps[b] : sps[b][k].mark \in Nat /\ sps[b][k].frame \in Frames
      /\ \A g \in Frames : g # b => sps'[g] = sps[g]
      /\ Len(log[b]) \in Nat
  BY <1>inv, <1>2, <1>3, SavepointTypes, LenProperties DEF TypeOK
<1> HIDE DEF new
<1>8. /\ DOMAIN sps'[b] = 1 .. Len(sps[b]) + 1
      /\ \A k \in 1 .. Len(sps[b]) : sps'[b][k] = sps[b][k]
      /\ sps'[b][Len(sps[b]) + 1] = new
  BY <1>7
<1>9. new.frame = f /\ new.mark = Len(log[b])
  BY DEF new
<1>10. RunsAlone'
  BY <1>inv, <1>3, <1>5 DEF RunsAlone
<1>11. BlocksAreInside'
  BY <1>inv, <1>5, InsidePreserved
<1>12. CallMarksRise'
  BY <1>inv, <1>3, <1>5, CallMarksPreserved DEF CallMarksRise, counters
<1>13. \A k \in DOMAIN sps[b] : sps[b][k].frame < f /\ sps[b][k].mark <= Len(log[b])
  <2> SUFFICES ASSUME NEW k \in DOMAIN sps[b]
               PROVE  sps[b][k].frame < f /\ sps[b][k].mark <= Len(log[b])
    OBVIOUS
  <2>1. PICK i \in Places : Entered[i] = sps[b][k].frame
    BY <1>inv, <1>2 DEF SavepointsFit
  <2>2. sps[b][k].frame # f
    BY <1>2, <1>6 DEF SavepointOf
  <2>3. i # n /\ n \in Places
    BY <1>2, <2>1, <2>2 DEF f
  <2>4. i < n
    BY ONLY <1>2, <2>3, i \in Places
  <2>5. Entered[i] < f
    BY <1>inv, <2>3, <2>4 DEF BlocksAreInside, f
  <2> QED BY <1>inv, <1>2, <2>1, <2>5 DEF SavepointsFit
<1>14. SavepointsFit'
  <2> SUFFICES ASSUME NEW g \in Frames PROVE SavepointsFit!(g)'
    BY DEF SavepointsFit
  <2>1. /\ \A i \in Places : IsOuter(Entered[i])' = IsOuter(Entered[i])
        /\ log' = log
    BY <1>2, <1>3, <1>4, <1>5 DEF IsOuter
  <2>2. CASE g # b
    BY <1>inv, <1>5, <1>7, <2>1, <2>2 DEF SavepointsFit
  <2>3. CASE g = b
    <3>1. ASSUME NEW k \in 1 .. Len(sps[b]) + 1
          PROVE  /\ sps'[b][k].mark <= Len(log[b])
                 /\ \E i \in Places : /\ Entered[i] = sps'[b][k].frame
                                      /\ ~IsOuter(Entered[i]) /\ SessionAt(i) = b
      <4>1. CASE k \in 1 .. Len(sps[b])
        <5>1. k \in DOMAIN sps[b] /\ sps'[b][k] = sps[b][k]
          BY <1>7, <1>8, <4>1
        <5> QED BY <1>inv, <1>2, <5>1 DEF SavepointsFit
      <4>2. CASE k = Len(sps[b]) + 1
        <5>1. sps'[b][k].mark = Len(log[b]) /\ sps'[b][k].frame = f
          BY <1>8, <1>9, <4>2
        <5>2. Entered[n] = f /\ SessionAt(n) = b
          BY DEF f, b
        <5> QED BY <1>2, <1>6, <1>7, <5>1, <5>2
      <4> QED BY <1>7, <4>1, <4>2
    <3>2. ASSUME NEW k \in 1 .. Len(sps[b]) + 1, NEW l \in 1 .. Len(sps[b]) + 1, k < l
          PROVE  /\ sps'[b][k].frame < sps'[b][l].frame
                 /\ sps'[b][k].mark <= sps'[b][l].mark
      <4>1. k \in DOMAIN sps[b] /\ sps'[b][k] = sps[b][k]
        BY <1>7, <1>8, <3>2
      <4>2. CASE l \in 1 .. Len(sps[b])
        <5>1. l \in DOMAIN sps[b] /\ sps'[b][l] = sps[b][l]
          BY <1>7, <1>8, <4>2
        <5> QED BY <1>inv, <1>2, <3>2, <4>1, <5>1 DEF SavepointsFit
      <4>3. CASE l = Len(sps[b]) + 1
        BY <1>8, <1>9, <1>13, <4>1, <4>3
      <4> QED BY <1>7, <4>2, <4>3
    <3> QED BY <1>5, <1>8, <2>1, <2>3, <3>1, <3>2
  <2> QED BY <2>2, <2>3
<1>15. ASSUME NEW i \in Places, i # n
       PROVE  /\ SavepointOf(Entered[i])' = SavepointOf(Entered[i])
              /\ \A k \in SavepointOf(Entered[i]) :
                   sps'[SessionAt(i)][k] = sps[SessionAt(i)][k]
              /\ IsOuter(Entered[i])' = IsOuter(Entered[i])
  <2>1. Entered[i] # f
    <3>1. i < n
      BY ONLY <1>2, <1>15
    <3>2. Entered[i] < f /\ f \in Nat /\ Entered[i] \in Nat
      BY <1>inv, <1>2, <1>15, <3>1 DEF BlocksAreInside, f
    <3> QED BY <3>2
  <2>2. /\ Entered'[i] = Entered[i]
        /\ frame'[Entered[i]].block = SessionAt(i) /\ SessionAt(i) \in Frames
        /\ frame[Entered[i]].block = SessionAt(i)
        /\ IsOuter(Entered[i])' = IsOuter(Entered[i])
    BY <1>2, <1>4, <1>5 DEF SessionAt, IsOuter
  <2>3. SavepointOf(Entered[i])' = {k \in DOMAIN sps'[SessionAt(i)] :
                                      sps'[SessionAt(i)][k].frame = Entered[i]}
    BY <2>2 DEF SavepointOf
  <2>4. SavepointOf(Entered[i]) = {k \in DOMAIN sps[SessionAt(i)] :
                                     sps[SessionAt(i)][k].frame = Entered[i]}
    BY <2>2 DEF SavepointOf
  <2>5. CASE SessionAt(i) # b
    BY <1>7, <2>2, <2>3, <2>4, <2>5
  <2>6. CASE SessionAt(i) = b
    <3> DEFINE g == Entered[i]
               s == sps[b]
               r == sps'[b]
               m == Len(sps[b])
    <3>1. m \in Nat /\ DOMAIN s = 1 .. m /\ DOMAIN r = 1 .. m + 1
      BY <1>7, <1>8
    <3>2. (\A k \in 1 .. m : r[k] = s[k]) /\ r[m + 1].frame # g
      BY <1>8, <1>9, <2>1
    <3>3. /\ SavepointOf(g)' = {k \in DOMAIN r : r[k].frame = g}
          /\ SavepointOf(g) = {k \in DOMAIN s : s[k].frame = g}
      BY <2>3, <2>4, <2>6
    <3> HIDE DEF g, s, r, m
    <3>4. \A k \in 1 .. m + 1 : k \in 1 .. m \/ k = m + 1
      BY <3>1
    <3>5. {k \in DOMAIN r : r[k].frame = g} = {k \in DOMAIN s : s[k].frame = g}
      BY <3>1, <3>2, <3>4
    <3>6. \A k \in DOMAIN s : r[k] = s[k]
      BY <3>1, <3>2
    <3>7. SavepointOf(g)' = SavepointOf(g)
      BY ONLY <3>3, <3>5
    <3>8. \A k \in SavepointOf(g) : r[k] = s[k]
      BY ONLY <3>3, <3>6
    <3> QED BY <2>2, <2>6, <3>7, <3>8 DEF g, s, r
  <2> QED BY <2>5, <2>6
<1>16. SavepointOf(f)' = {Len(sps[b]) + 1}
  <2>1. SavepointOf(f)' = {k \in DOMAIN sps'[b] : sps'[b][k].frame = f}
    <3>1. f' = f /\ frame'[f].block = b
      BY <1>2, <1>4, <1>5 DEF f, n
    <3> QED BY <3>1 DEF SavepointOf
  <2>2. \A k \in 1 .. Len(sps[b]) : sps'[b][k].frame # f
    <3>1. \A k \in DOMAIN sps[b] : sps[b][k].frame \in Nat /\ f \in Nat
      BY <1>2, <1>7
    <3>2. \A k \in DOMAIN sps[b] : sps[b][k].frame # f
      BY ONLY <1>13, <3>1
    <3> QED BY ONLY <1>7, <1>8, <3>2
  <2>3. sps'[b][Len(sps[b]) + 1].frame = f
    BY <1>8, <1>9
  <2> QED BY <1>7, <1>8, <2>1, <2>2, <2>3
<1>17. BlocksHaveSavepoints'
  <2> SUFFICES ASSUME NEW i \in Places, ~IsOuter(Entered[i])'
               PROVE  (SavepointOf(Entered[i]) = {})' <=> i = Len(Entered)' /\ IsEntering'
    BY <1>5 DEF BlocksHaveSavepoints
  <2>1. ~IsEntering'
    BY <1>3 DEF IsEntering
  <2>2. CASE i = n
    <3>1. Entered'[i] = f /\ f' = f
      BY <1>5, <2>2 DEF f, n
    <3>2. SavepointOf(Entered[i])' = SavepointOf(f)'
      BY <3>1 DEF SavepointOf
    <3> QED BY <1>16, <2>1, <3>2
  <2>3. CASE i # n
    BY <1>inv, <1>15, <2>1, <2>3 DEF BlocksHaveSavepoints, n
  <2> QED BY <2>2, <2>3
<1>18. ASSUME NEW i \in Places PROVE LogMark(Entered[i])' = LogMark(Entered[i])
  <2>1. CASE i = n
    <3>1. Entered[i] = f /\ Entered'[i] = f
      BY <1>5, <2>1 DEF f, n
    <3>2. LogMark(Entered[i]) = Len(log[b])
      BY <1>2, <1>6, <3>1 DEF LogMark
    <3>3. SavepointOf(Entered[i])' = {Len(sps[b]) + 1}
      <4>1. SavepointOf(Entered[i])' = SavepointOf(f)'
        <5>1. f' = f
          BY <1>5 DEF f, n
        <5> QED BY <3>1, <5>1 DEF SavepointOf
      <4> QED BY <1>16, <4>1
    <3>4. Largest({Len(sps[b]) + 1}) = Len(sps[b]) + 1
      <4>1. PICK k \in Nat : k = Len(sps[b]) + 1
        BY <1>7
      <4>2. {k} \subseteq Nat /\ k \in {k} /\ \A j \in {k} : j <= k
        BY <4>1
      <4>3. Largest({k}) = k
        BY ONLY <4>2, LargestIs
      <4> QED BY <4>1, <4>3
    <3>5. LogMark(Entered[i])' = sps'[b][Len(sps[b]) + 1].mark
      <4>1. /\ frame'[f].block = b /\ frame'[f].block # f
        BY <1>2, <1>4, <1>6 DEF IsOuter
      <4> QED BY <3>1, <3>3, <3>4, <4>1 DEF LogMark, IsOuter
    <3> QED BY <1>8, <1>9, <3>2, <3>5
  <2>2. CASE i # n
    <3>1. Stays(i) /\ log' = log
      BY <1>3, <1>5 DEF Stays
    <3> QED BY <1>5, <1>15, <2>2, <3>1, LogMarkKept
  <2> QED BY <2>1, <2>2
<1>19. SequentialInv'
  BY <1>10, <1>11, <1>12, <1>14, <1>17 DEF SequentialInv
<1>20. Scopes' = Scopes
  BY <1>3, <1>5, <1>18, SameScopes
<1>21. Due = <<>> /\ Due' = <<>>
  BY <1>1, <1>3 DEF Due
<1>22. AbstractStutters
  BY <1>3, <1>20, <1>21 DEF AbstractStutters, DurableIds
<1> QED BY <1>19, <1>22, Stutters DEF Implements

-----------------------------------------------------------------------------
(* The blocks the task is inside on a database. *)
Own(a) == {i \in Places : frame[Entered[i]].alias = a}

(* The innermost of some places, once it is known.                         *)
LEMMA InnermostIs ==
  ASSUME NEW S, S \subseteq Nat, NEW i \in S, \A k \in S : k <= i
  PROVE  Abstract!Innermost(S) = i
<1>1. \A j \in S : (\A k \in S : k <= j) => j = i
  OBVIOUS
<1> QED BY <1>1 DEF Abstract!Innermost

(* No block is open on a, or it is that of the innermost place on a. *)
LEMMA OpenBlockIs ==
  ASSUME SequentialAssumption, CommitInv, SequentialInv, NEW a \in Aliases
  PROVE  /\ Abstract!On(a) = Own(a) /\ Own(a) \subseteq Nat
         /\ OpenBlock(Task, a) = 0 <=> Own(a) = {}
         /\ Own(a) # {} =>
              \E i \in Own(a) :
                 /\ i \in Places /\ \A j \in Own(a) : j <= i
                 /\ Abstract!Innermost(Abstract!On(a)) = i
                 /\ OpenBlock(Task, a) = SessionAt(i) /\ Enclosing(Task, a) = Entered[i]
                 /\ \A j \in Places : j \in Own(a) <=> SessionAt(j) = SessionAt(i)
                 /\ Inside(i) = {}
<1>inv. BlocksAreInside /\ RunsAlone
  BY DEF SequentialInv
<1>1. /\ Places = 1 .. Len(Entered) /\ Len(Entered) \in Nat /\ Frames \subseteq Nat \ {0}
      /\ \A i \in Places : /\ Entered[i] \in Frames /\ open[SessionAt(i)]
                           /\ SessionAt(i) \in Frames
  BY <1>inv, EnteredBlocks
<1>2. Abstract!On(a) = Own(a)
  <2>1. \A i \in Places : Scope(i).alias = frame[Entered[i]].alias
    BY DEF Scope
  <2> QED BY <2>1 DEF Abstract!On, Own
<1>3. Own(a) \subseteq 1 .. Len(Entered) /\ Own(a) \subseteq Nat
  BY <1>1 DEF Own
<1>4. Own(a) = {i \in DOMAIN stack[Task] : frame[stack[Task][i]].alias = a}
  BY DEF Own, Places, Entered
<1>5. CASE Own(a) = {}
  <2>1. Enclosing(Task, a) = 0
    BY <1>inv, <1>4, <1>5 DEF Enclosing, RunsAlone
  <2> QED BY <1>2, <1>3, <1>5, <2>1 DEF OpenBlock
<1>6. CASE Own(a) # {}
  <2> DEFINE i == Largest(Own(a))
  <2>1. i \in Own(a) /\ \A j \in Own(a) : j <= i
    BY <1>1, <1>3, <1>6, LargestExists
  <2>2. Enclosing(Task, a) = Entered[i]
    BY <1>4, <1>6 DEF Enclosing, Entered
  <2> HIDE DEF i
  <2>3. i \in Places /\ frame[Entered[i]].alias = a
    BY <2>1 DEF Own
  <2>4. OpenBlock(Task, a) = SessionAt(i) /\ SessionAt(i) # 0
    <3>1. /\ Entered[i] # 0 /\ open[SessionAt(i)] /\ SessionAt(i) # 0
          /\ SessionAt(i) = frame[Entered[i]].block
      BY <1>1, <2>3 DEF SessionAt
    <3> QED BY <2>2, <3>1 DEF OpenBlock
  <2>5. ASSUME NEW j \in Places PROVE j \in Own(a) <=> SessionAt(j) = SessionAt(i)
    <3>1. j \in Own(a) => SessionAt(j) = SessionAt(i)
      BY <1>inv, <2>3 DEF BlocksAreInside, Own
    <3>2. /\ frame[SessionAt(j)].alias = frame[Entered[j]].alias
          /\ frame[SessionAt(i)].alias = frame[Entered[i]].alias
      BY <1>inv, <2>3 DEF BlocksAreInside
    <3> QED BY <2>3, <3>1, <3>2 DEF Own
  <2>6. Inside(i) = {}
    <3> SUFFICES ASSUME NEW j \in Inside(i) PROVE FALSE
      OBVIOUS
    <3>1. j \in Places /\ j > i /\ SessionAt(j) = SessionAt(i)
      BY DEF Inside
    <3>2. j <= i
      BY <2>1, <2>5, <3>1
    <3> QED BY <1>1, <2>3, <3>1, <3>2
  <2>7. Abstract!Innermost(Abstract!On(a)) = i
    <3>1. Abstract!Innermost(Own(a)) = i
      BY <1>3, <2>1, InnermostIs
    <3> QED BY <1>2, <3>1
  <2> QED BY <1>2, <1>3, <1>6, <2>1, <2>2, <2>3, <2>4, <2>5, <2>6, <2>7
<1> QED BY <1>5, <1>6

-----------------------------------------------------------------------------
(* The body of a block. *)

(* A write or a callback joins the innermost block on a database, at place *)
(* l: what the other blocks wrote and registered stays.                    *)
LEMMA JoinKeeps ==
  ASSUME SequentialAssumption, CommitInv, CommitInv', SequentialInv, NEW l \in Places,
         Inside(l) = {}, pc[Task] = "run", pc' = pc,
         frame' = frame, nframes' = nframes, stack' = stack, inherited' = inherited,
         open' = open, sps' = sps,
         \A g \in Frames : g # SessionAt(l) =>
           log'[g] = log[g] /\ callbacks'[g] = callbacks[g],
         Len(log[SessionAt(l)]) <= Len(log'[SessionAt(l)]),
         \A k \in 1 .. Len(log[SessionAt(l)]) :
           log'[SessionAt(l)][k] = log[SessionAt(l)][k],
         Len(callbacks[SessionAt(l)]) <= Len(callbacks'[SessionAt(l)]),
         \A k \in 1 .. Len(callbacks[SessionAt(l)]) :
           callbacks'[SessionAt(l)][k] = callbacks[SessionAt(l)][k]
  PROVE  /\ SequentialInv' /\ Entered' = Entered /\ Places' = Places
         /\ \A i \in Places : i # l => Scope(i)' = Scope(i)
         /\ LogEnd(l) = Len(log[SessionAt(l)]) /\ LogEnd(l)' = Len(log'[SessionAt(l)])
         /\ CallEnd(l) = Len(callbacks[SessionAt(l)])
         /\ CallEnd(l)' = Len(callbacks'[SessionAt(l)])
         /\ LogMark(Entered[l])' = LogMark(Entered[l])
         /\ Due = <<>> /\ Due' = <<>>
<1> DEFINE b == SessionAt(l)
<1>inv. BlocksAreInside /\ BlocksHaveSavepoints /\ TypeOK /\ CallMarksRise
  BY DEF SequentialInv, CommitInv, DurabilityInv
<1>1. /\ Entered' = Entered /\ Places' = Places /\ \A i : SessionAt(i)' = SessionAt(i)
      /\ BlocksStay /\ \A i \in Places : Stays(i)
      /\ \A i : Inside(i)' = Inside(i)
  BY DEF Entered, Places, SessionAt, BlocksStay, Used, Stays, Inside
<1>2. /\ Places = 1 .. Len(Entered) /\ Len(Entered) \in Nat /\ Used \subseteq Frames
      /\ \A i \in Places : /\ Entered[i] \in Used /\ SessionAt(i) \in Frames
                           /\ SessionAt(i) \in Used
  BY <1>inv, EnteredBlocks
<1>3. \A g \in Frames : /\ Len(log[g]) \in Nat /\ Len(callbacks[g]) \in Nat
                        /\ Len(log'[g]) \in Nat /\ Len(callbacks'[g]) \in Nat
  BY LenProperties DEF CommitInv, DurabilityInv, TypeOK
<1>4. SequentialInv'
  <2>1. ASSUME NEW g \in Frames
        PROVE  Len(log[g]) <= Len(log'[g]) /\ Len(callbacks[g]) <= Len(callbacks'[g])
    BY <1>3
  <2>2. IsEntering' = IsEntering /\ pc'[Task] # "writing" /\ pc'[Task] # "beginning"
    BY DEF IsEntering
  <2>3. \A g \in Frames \ Used : callbacks'[g] = callbacks[g]
    BY <1>2
  <2> QED BY <2>1, <2>2, <2>3, SequentialKept
<1>5. ASSUME NEW i \in Places PROVE LogMark(Entered[i])' = LogMark(Entered[i])
  <2>1. /\ SavepointOf(Entered[i])' = SavepointOf(Entered[i])
        /\ \A k \in SavepointOf(Entered[i]) :
             sps'[SessionAt(i)][k] = sps[SessionAt(i)][k]
    BY <1>1 DEF SavepointOf
  <2>2. SavepointOf(Entered[i]) # {} \/ IsOuter(Entered[i])
    BY <1>inv DEF BlocksHaveSavepoints, IsEntering
  <2> QED BY <1>1, <2>1, <2>2, LogMarkKept
<1>6. /\ LogEnd(l) = Len(log[b]) /\ LogEnd(l)' = Len(log'[b])
      /\ CallEnd(l) = Len(callbacks[b]) /\ CallEnd(l)' = Len(callbacks'[b])
  BY <1>1 DEF LogEnd, CallEnd
<1>7. Picture /\ Picture'
  <2>1. Picture
    BY PictureHolds
  <2>2. SequentialAssumption'
    BY DEF SequentialAssumption
  <2>3. SequentialAssumption' /\ CommitInv' /\ SequentialInv' => Picture'
    BY PictureHolds, PTL
  <2> QED BY <1>4, <2>1, <2>2, <2>3
<1>8. ASSUME NEW i \in Places, i # l PROVE Scope(i)' = Scope(i)
  <2>1. LogEnd(i)' = LogEnd(i) /\ CallEnd(i)' = CallEnd(i)
    <3>1. CASE Inside(i) = {}
      <4>1. SessionAt(i) # b
        <5>1. Inside(l) = {} => ~(i > l /\ SessionAt(i) = b)
          BY DEF Inside
        <5>2. Inside(i) = {} => ~(l > i /\ SessionAt(l) = SessionAt(i))
          BY DEF Inside
        <5> QED BY <1>2, <1>8, <3>1, <5>1, <5>2
      <4> QED BY <1>1, <1>2, <3>1, <4>1 DEF LogEnd, CallEnd
    <3>2. CASE Inside(i) # {}
      <4>1. PICK j \in Inside(i) : \A k \in Inside(i) : j <= k
        BY <3>2, LogEnds
      <4>2. j \in Places
        BY DEF Inside
      <4> QED BY <1>1, <1>5, <4>1, <4>2, EndsKept
    <3> QED BY <3>1, <3>2
  <2>2. LogEnd(i) \in Nat /\ LogEnd(i) <= Len(log[SessionAt(i)])
        /\ CallEnd(i) \in Nat /\ CallEnd(i) <= Len(callbacks[SessionAt(i)])
    BY LogEnds
  <2>3. \A k \in 1 .. LogEnd(i) : k \in 1 .. Len(log[SessionAt(i)])
    BY <1>2, <1>3, <2>2
  <2>4. \A k \in 1 .. CallEnd(i) : k \in 1 .. Len(callbacks[SessionAt(i)])
    BY <1>2, <1>3, <2>2
  <2>5. \A k \in 1 .. LogEnd(i) : log'[SessionAt(i)][k] = log[SessionAt(i)][k]
    BY <1>2, <2>3
  <2>6. \A k \in 1 .. CallEnd(i) : callbacks'[SessionAt(i)][k] = callbacks[SessionAt(i)][k]
    BY <1>2, <2>4
  <2> QED BY <1>1, <1>5, <1>7, <2>1, <2>5, <2>6, ScopeKept
<1>9. Due = <<>> /\ Due' = <<>>
  BY DEF Due
<1> QED BY <1>1, <1>4, <1>5, <1>6, <1>8, <1>9

(* A write inside a block is added to the innermost scope of its database. *)
LEMMA WriteJoinsImplements ==
  ASSUME SequentialAssumption, CommitInv, CommitInv', SequentialInv,
         NEW a \in Aliases, WriteJoins(Task, a)
  PROVE  Implements
<1>inv. TypeOK /\ BlocksAreInside
  BY DEF CommitInv, DurabilityInv, SequentialInv
<1>1. pc[Task] = "run" /\ OpenBlock(Task, a) # 0 /\ nwrites < MaxWrites
  BY DEF WriteJoins, MayWrite
<1>2. PICK i \in Own(a) :
        /\ i \in Places /\ \A j \in Own(a) : j <= i
        /\ Abstract!Innermost(Abstract!On(a)) = i
        /\ OpenBlock(Task, a) = SessionAt(i) /\ Enclosing(Task, a) = Entered[i]
        /\ \A j \in Places : j \in Own(a) <=> SessionAt(j) = SessionAt(i)
        /\ Inside(i) = {}
  BY <1>1, OpenBlockIs
<1>3. Abstract!On(a) # {}
  BY <1>2, OpenBlockIs
<1> DEFINE b == SessionAt(i)
           s == log[b]
<1>4. PICK w \in 1 .. MaxWrites : w = nwrites + 1
  BY <1>inv, <1>1, AtomicAssumption DEF TypeOK
<1>5. PICK x \in Write : x = [id |-> w, in |-> Entered[i]]
  <2>1. Entered[i] \in Frames0
    BY <1>inv, <1>2, EnteredBlocks, AtomicAssumption DEF Frames, Frames0
  <2> QED BY <2>1 DEF Write
<1>6. /\ log' = [log EXCEPT ![b] = Append(s, x)] /\ pc' = pc
      /\ UNCHANGED <<frame, nframes, stack, inherited, open, callbacks, sps, durable, ran>>
  BY <1>2, <1>4, <1>5 DEF WriteJoins, Execute
<1>7. /\ b \in Frames /\ s \in Seq(Write) /\ LogMark(Entered[i]) \in Nat
      /\ LogMark(Entered[i]) <= Len(s) /\ Len(s) \in Nat
  BY <1>inv, <1>2, EnteredBlocks, LogMarks DEF TypeOK
<1>8. log'[b] = Append(s, x) /\ \A g \in Frames : g # b => log'[g] = log[g]
  BY <1>inv, <1>6, <1>7 DEF TypeOK
<1> DEFINE m == LogMark(Entered[i])
<1>9. /\ Len(log'[b]) = Len(s) + 1 /\ \A k \in 1 .. Len(s) : log'[b][k] = s[k]
      /\ IdsIn(log'[b], m, Len(s) + 1) = IdsIn(s, m, Len(s)) \cup {x.id}
  <2>1. m \in Nat /\ m <= Len(s) /\ s \in Seq(Write) /\ log'[b] = Append(s, x)
    BY <1>7, <1>8
  <2> HIDE DEF s, m, b
  <2> QED BY <2>1, IdsGrow
<1>10. /\ SequentialInv' /\ Entered' = Entered /\ Places' = Places
       /\ \A j \in Places : j # i => Scope(j)' = Scope(j)
       /\ LogEnd(i) = Len(s) /\ LogEnd(i)' = Len(log'[b])
       /\ CallEnd(i)' = CallEnd(i) /\ m' = m /\ Due = <<>> /\ Due' = <<>>
  <2>1. /\ \A g \in Frames : g # b => log'[g] = log[g] /\ callbacks'[g] = callbacks[g]
        /\ Len(log[b]) <= Len(log'[b]) /\ \A k \in 1 .. Len(log[b]) : log'[b][k] = log[b][k]
        /\ Len(callbacks[b]) <= Len(callbacks'[b])
        /\ \A k \in 1 .. Len(callbacks[b]) : callbacks'[b][k] = callbacks[b][k]
    <3>1. Len(callbacks[b]) \in Nat
      BY <1>inv, <1>7, LenProperties DEF TypeOK
    <3> QED BY <1>6, <1>7, <1>8, <1>9, <3>1
  <2> HIDE DEF s
  <2>2. /\ SequentialInv' /\ Entered' = Entered /\ Places' = Places
        /\ \A j \in Places : j # i => Scope(j)' = Scope(j)
        /\ LogEnd(i) = Len(log[b]) /\ LogEnd(i)' = Len(log'[b])
        /\ CallEnd(i) = Len(callbacks[b]) /\ CallEnd(i)' = Len(callbacks'[b])
        /\ m' = m /\ Due = <<>> /\ Due' = <<>>
    BY <1>1, <1>2, <1>6, <2>1, JoinKeeps
  <2> QED BY <1>6, <2>2 DEF s
<1>11. Scope(i)' = [Scope(i) EXCEPT !.writes = @ \cup {w}]
  <2>1. Picture /\ Picture'
    <3>1. SequentialAssumption' /\ CommitInv' /\ SequentialInv' => Picture'
      BY PictureHolds, PTL
    <3> QED BY <1>10, <3>1, PictureHolds DEF SequentialAssumption
  <2>2. Scope(i) = [alias |-> frame[Entered[i]].alias, writes |-> IdsIn(s, m, Len(s)),
                    calls |-> IdsFrom(callbacks[b], frame[Entered[i]].mark, CallEnd(i))]
    BY <1>2, <1>10, <2>1 DEF Picture
  <2>3. Scope(i)' =
          [alias |-> frame[Entered[i]].alias, writes |-> IdsIn(log'[b], m, Len(s) + 1),
           calls |-> IdsFrom(callbacks[b], frame[Entered[i]].mark, CallEnd(i))]
    <3>1. i \in Places' /\ Entered'[i] = Entered[i] /\ SessionAt(i)' = b
      BY <1>2, <1>6, <1>10 DEF SessionAt
    <3>2. Picture!2!(i)'
      BY <2>1, <3>1 DEF Picture
    <3> QED BY <1>6, <1>9, <1>10, <3>1, <3>2
  <2>4. x.id = w
    BY <1>5
  <2> HIDE DEF s, m, b
  <2>5. IdsIn(log'[b], m, Len(s) + 1) = IdsIn(s, m, Len(s)) \cup {w}
    BY <1>9, <2>4
  <2>6. [Scope(i) EXCEPT !.writes = @ \cup {w}] =
          [alias |-> frame[Entered[i]].alias, writes |-> IdsIn(s, m, Len(s)) \cup {w},
           calls |-> IdsFrom(callbacks[b], frame[Entered[i]].mark, CallEnd(i))]
    <3> DEFINE sc == Scope(i)
               al == frame[Entered[i]].alias
               ws == IdsIn(s, m, Len(s))
               cs == IdsFrom(callbacks[b], frame[Entered[i]].mark, CallEnd(i))
    <3>1. sc = [alias |-> al, writes |-> ws, calls |-> cs]
      BY ONLY <2>2
    <3> HIDE DEF sc, al, ws, cs
    <3>2. [sc EXCEPT !.writes = @ \cup {w}] = [alias |-> al, writes |-> ws \cup {w}, calls |-> cs]
      BY ONLY <3>1
    <3> QED BY ONLY <3>2 DEF sc, al, ws, cs
  <2> QED BY ONLY <2>3, <2>5, <2>6
<1>12. Scopes' = [Scopes EXCEPT ![i].writes = @ \cup {w}]
  BY <1>2, <1>10, <1>11 DEF Scopes
<1>13. Abstract!Write(a, w)
  <2>1. DurableIds' = DurableIds /\ Ids(ran)' = Ids(ran)
    BY <1>6 DEF DurableIds
  <2> QED BY <1>2, <1>3, <1>10, <1>12, <2>1 DEF Abstract!Write, Scopes, DurableIds, IdSet
<1> QED BY <1>10, <1>13 DEF Implements, Abstract!Next

(* A callback registered in a block is added to the innermost scope of its *)
(* database.                                                               *)
LEMMA OnCommitImplements ==
  ASSUME SequentialAssumption, CommitInv, CommitInv', SequentialInv,
         NEW a \in Aliases, NEW r \in BOOLEAN, OnCommit(Task, a, r)
  PROVE  Implements
<1>inv. TypeOK /\ BlocksAreInside
  BY DEF CommitInv, DurabilityInv, SequentialInv
<1>1. pc[Task] = "run" /\ OpenBlock(Task, a) # 0 /\ ncalls < MaxCallbacks
  BY DEF OnCommit, MayRegister
<1>2. PICK i \in Own(a) :
        /\ i \in Places /\ \A j \in Own(a) : j <= i
        /\ Abstract!Innermost(Abstract!On(a)) = i
        /\ OpenBlock(Task, a) = SessionAt(i) /\ Enclosing(Task, a) = Entered[i]
        /\ \A j \in Places : j \in Own(a) <=> SessionAt(j) = SessionAt(i)
        /\ Inside(i) = {}
  BY <1>1, OpenBlockIs
<1>3. Abstract!On(a) # {}
  BY <1>2, OpenBlockIs
<1> DEFINE b == SessionAt(i)
           s == callbacks[b]
           m == frame[Entered[i]].mark
<1>4. PICK c \in 1 .. MaxCallbacks : c = ncalls + 1
  BY <1>inv, <1>1, AtomicAssumption DEF TypeOK
<1>5. PICK x \in Callback : x = [id |-> c, in |-> Entered[i], robust |-> r]
  BY <1>inv, <1>2, EnteredBlocks DEF Callback
<1>6. /\ callbacks' = [callbacks EXCEPT ![b] = Append(s, x)] /\ pc' = pc
      /\ UNCHANGED <<frame, nframes, stack, inherited, open, log, sps, durable, ran>>
  BY <1>2, <1>4, <1>5 DEF OnCommit
<1>7. b \in Frames /\ s \in Seq(Callback) /\ m \in Nat /\ m <= Len(s) /\ Len(s) \in Nat
  <2>1. b \in Frames /\ m \in Nat /\ m <= Len(s)
    BY <1>inv, <1>2, EnteredBlocks, LogEnds DEF SequentialInv, CallMarksRise
  <2> QED BY <1>inv, <2>1, LenProperties DEF TypeOK
<1>8. callbacks'[b] = Append(s, x) /\ \A g \in Frames : g # b => callbacks'[g] = callbacks[g]
  BY <1>inv, <1>6, <1>7 DEF TypeOK
<1>9. /\ Len(callbacks'[b]) = Len(s) + 1 /\ \A k \in 1 .. Len(s) : callbacks'[b][k] = s[k]
      /\ IdsFrom(callbacks'[b], m, Len(s) + 1) = Append(IdsFrom(s, m, Len(s)), x.id)
  <2> HIDE DEF s, m, b
  <2> QED BY <1>7, <1>8, IdsGrow
<1>10. /\ SequentialInv' /\ Entered' = Entered /\ Places' = Places
       /\ \A j \in Places : j # i => Scope(j)' = Scope(j)
       /\ CallEnd(i) = Len(s) /\ CallEnd(i)' = Len(callbacks'[b])
       /\ LogEnd(i)' = LogEnd(i) /\ LogMark(Entered[i])' = LogMark(Entered[i])
       /\ Due = <<>> /\ Due' = <<>>
  <2>1. /\ \A g \in Frames : g # b => log'[g] = log[g] /\ callbacks'[g] = callbacks[g]
        /\ Len(log[b]) <= Len(log'[b]) /\ \A k \in 1 .. Len(log[b]) : log'[b][k] = log[b][k]
        /\ Len(callbacks[b]) <= Len(callbacks'[b])
        /\ \A k \in 1 .. Len(callbacks[b]) : callbacks'[b][k] = callbacks[b][k]
    <3>1. Len(log[b]) \in Nat
      BY <1>inv, <1>7, LenProperties DEF TypeOK
    <3> QED BY <1>6, <1>7, <1>8, <1>9, <3>1
  <2> HIDE DEF s
  <2>2. /\ SequentialInv' /\ Entered' = Entered /\ Places' = Places
        /\ \A j \in Places : j # i => Scope(j)' = Scope(j)
        /\ LogEnd(i) = Len(log[b]) /\ LogEnd(i)' = Len(log'[b])
        /\ CallEnd(i) = Len(callbacks[b]) /\ CallEnd(i)' = Len(callbacks'[b])
        /\ LogMark(Entered[i])' = LogMark(Entered[i]) /\ Due = <<>> /\ Due' = <<>>
    BY <1>1, <1>2, <1>6, <2>1, JoinKeeps
  <2> QED BY <1>6, <2>2 DEF s
<1>11. Scope(i)' = [Scope(i) EXCEPT !.calls = Append(@, c)]
  <2>1. Picture /\ Picture'
    <3>1. SequentialAssumption' /\ CommitInv' /\ SequentialInv' => Picture'
      BY PictureHolds, PTL
    <3> QED BY <1>10, <3>1, PictureHolds DEF SequentialAssumption
  <2>2. Scope(i) = [alias |-> frame[Entered[i]].alias,
                    writes |-> IdsIn(log[b], LogMark(Entered[i]), LogEnd(i)),
                    calls |-> IdsFrom(s, m, Len(s))]
    BY <1>2, <1>10, <2>1 DEF Picture
  <2>3. Scope(i)' = [alias |-> frame[Entered[i]].alias,
                     writes |-> IdsIn(log[b], LogMark(Entered[i]), LogEnd(i)),
                     calls |-> IdsFrom(callbacks'[b], m, Len(s) + 1)]
    <3>1. i \in Places' /\ Entered'[i] = Entered[i] /\ SessionAt(i)' = b
      BY <1>2, <1>6, <1>10 DEF SessionAt
    <3>2. Picture!2!(i)'
      BY <2>1, <3>1 DEF Picture
    <3> QED BY <1>6, <1>9, <1>10, <3>1, <3>2
  <2>4. x.id = c
    BY <1>5
  <2> HIDE DEF s, m, b
  <2>5. IdsFrom(callbacks'[b], m, Len(s) + 1) = Append(IdsFrom(s, m, Len(s)), c)
    BY <1>9, <2>4
  <2>6. [Scope(i) EXCEPT !.calls = Append(@, c)] =
          [alias |-> frame[Entered[i]].alias,
           writes |-> IdsIn(log[b], LogMark(Entered[i]), LogEnd(i)),
           calls |-> Append(IdsFrom(s, m, Len(s)), c)]
    BY ONLY <2>2
  <2> QED BY ONLY <2>3, <2>5, <2>6
<1>12. Scopes' = [Scopes EXCEPT ![i].calls = Append(@, c)]
  BY <1>2, <1>10, <1>11 DEF Scopes
<1>13. Abstract!Register(a, c)
  <2>1. DurableIds' = DurableIds /\ Ids(ran)' = Ids(ran)
    BY <1>6 DEF DurableIds
  <2> QED BY <1>2, <1>3, <1>10, <1>12, <2>1 DEF Abstract!Register, Scopes, DurableIds, IdSet
<1> QED BY <1>10, <1>13 DEF Implements, Abstract!Next

-----------------------------------------------------------------------------
(* Entering a block. *)

(* s is a sequence of length n.                                            *)
Sequence(s, n) == s = [i \in 1 .. n |-> s[i]]

(* A sequence that agrees with a shorter one is it with one more element.  *)
LEMMA OneMore ==
  ASSUME NEW n \in Nat, NEW s, Sequence(s, n), NEW t, Sequence(t, n + 1),
         \A i \in 1 .. n : t[i] = s[i]
  PROVE  t = Append(s, t[n + 1])
<1> DEFINE T == {t[i] : i \in 1 .. n + 1}
           x == t[n + 1]
<1>1. /\ \A i \in 1 .. n + 1 : t[i] \in T
      /\ x \in T /\ 1 .. n \subseteq 1 .. n + 1
  OBVIOUS
<1> HIDE DEF T, x
<1>2. \A i \in 1 .. n : s[i] \in T
  BY <1>1
<1>3. s \in Seq(T) /\ Len(s) = n
  BY <1>2 DEF Sequence
<1>4. t \in Seq(T) /\ Len(t) = n + 1
  BY <1>1 DEF Sequence
<1>5. /\ Append(s, x) \in Seq(T) /\ Len(Append(s, x)) = n + 1
      /\ \A i \in 1 .. n : Append(s, x)[i] = s[i]
      /\ Append(s, x)[n + 1] = x
  BY <1>1, <1>3, AppendProperties
<1>6. \A i \in 1 .. n + 1 : i \in 1 .. n \/ i = n + 1
  OBVIOUS
<1>7. \A i \in 1 .. n + 1 : Append(s, x)[i] = t[i]
  BY <1>5, <1>6 DEF x
<1>8. Len(Append(s, x)) = Len(t) /\ \A i \in 1 .. Len(t) : Append(s, x)[i] = t[i]
  BY <1>4, <1>5, <1>7
<1>9. t = Append(s, x)
  BY <1>4, <1>5, <1>8, SeqEqual
<1> QED BY <1>9 DEF x

(* The task enters block f of database a, on session b. *)
LEMMA PushImplements ==
  ASSUME SequentialAssumption, CommitInv, CommitInv', SequentialInv,
         NEW a \in Aliases, NEW f \in Frames, NEW b \in Frames,
         f = nframes + 1, nframes' = f, \A g \in Frames : g # f => frame'[g] = frame[g],
         frame'[f].alias = a, frame'[f].block = b, frame'[f].mark = Len(callbacks[b]),
         Entered' = Append(Entered, f), UNCHANGED <<inherited, callbacks, log, sps, durable, ran>>,
         pc[Task] = "run",
         \/ b = f /\ Own(a) = {} /\ pc'[Task] = "run"
         \/ b # f /\ (\E i \in Own(a) : SessionAt(i) = b) /\ pc'[Task] = "entering"
  PROVE  Implements
<1>inv. /\ TypeOK /\ RunsAlone /\ BlocksAreInside /\ CallMarksRise /\ SavepointsFit
        /\ BlocksHaveSavepoints /\ Task \in Tasks /\ NamesAreUsed
  BY DEF CommitInv, DurabilityInv, SequentialInv, SequentialAssumption
<1>0. PICK n \in Nat : n = Len(Entered)
  BY <1>inv, EnteredBlocks
<1>1. /\ Places = 1 .. n /\ Frames \subseteq Nat \ {0} /\ Used \subseteq Frames
      /\ nframes \in Nat /\ Entered \in Seq(Frames)
      /\ \A i \in Places : /\ Entered[i] \in Used /\ Entered[i] \in Frames
                           /\ SessionAt(i) \in Used /\ SessionAt(i) \in Frames
                           /\ SessionAt(i) <= Entered[i]
  BY <1>inv, <1>0, EnteredBlocks
<1>2. /\ Used' = Used \cup {f} /\ f \notin Used /\ \A g \in Used : g < f /\ g # f
  BY <1>1 DEF Used
<1>3. /\ Places' = 1 .. n + 1 /\ Entered'[n + 1] = f
      /\ \A i \in Places : i \in Places' /\ Entered'[i] = Entered[i] /\ Stays(i)
      /\ Len(Entered') = n + 1 /\ n + 1 \in Places'
  BY <1>0, <1>1, AppendProperties DEF Places, Stays
<1>4. \A g \in Used : frame'[g] = frame[g] /\ IsOuter(g)' = IsOuter(g)
  BY <1>1, <1>2 DEF IsOuter
<1>5. BlocksStay
  BY <1>2, <1>4 DEF BlocksStay
<1>6. /\ \A i \in Places : SessionAt(i)' = SessionAt(i) /\ IsOuter(Entered[i])' = IsOuter(Entered[i])
      /\ SessionAt(n + 1)' = b
      /\ IsOuter(Entered[n + 1])' <=> b = f
  <2>1. \A i \in Places : /\ SessionAt(i)' = SessionAt(i)
                          /\ IsOuter(Entered[i])' = IsOuter(Entered[i])
    <3> SUFFICES ASSUME NEW i \in Places
                 PROVE  SessionAt(i)' = SessionAt(i) /\ IsOuter(Entered[i])' = IsOuter(Entered[i])
      OBVIOUS
    <3>1. Entered'[i] = Entered[i] /\ frame'[Entered[i]] = frame[Entered[i]]
      BY <1>1, <1>3, <1>4
    <3> QED BY <3>1 DEF SessionAt, IsOuter
  <2>2. SessionAt(n + 1)' = b /\ (IsOuter(Entered[n + 1])' <=> b = f)
    BY <1>3 DEF SessionAt, IsOuter
  <2> QED BY <2>1, <2>2
<1>7. \A i \in Places' : i \in Places \/ i = n + 1
  BY <1>1, <1>3
<1>8. ASSUME NEW i \in Places PROVE i < n + 1 /\ ~(n + 1 < i) /\ i # n + 1
  BY <1>1
<1>9. Len(callbacks[b]) \in Nat /\ Len(log[b]) \in Nat
  BY <1>inv, LenProperties DEF TypeOK
<1>10. b = f => callbacks[b] = <<>> /\ log[b] = <<>> /\ Len(callbacks[b]) = 0 /\ Len(log[b]) = 0
  BY <1>inv, <1>2 DEF CallMarksRise, NamesAreUsed
<1>11. \A i \in Places : SessionAt(i) = b => b # f
  BY <1>1, <1>2
<1>12. RunsAlone'
  BY <1>inv DEF RunsAlone
<1>13. BlocksAreInside'
  <2>1. ASSUME NEW i \in Places', NEW j \in Places', i < j
        PROVE  Entered'[i] < Entered'[j]
    <3>1. i \in Places
      BY <1>7, <1>8, <2>1
    <3>2. CASE j \in Places
      BY <1>inv, <1>3, <2>1, <3>1, <3>2 DEF BlocksAreInside
    <3>3. CASE j = n + 1
      BY <1>1, <1>2, <1>3, <3>1, <3>3
    <3> QED BY <1>7, <3>2, <3>3
  <2>2. ASSUME NEW i \in Places
        PROVE  /\ \E j \in 1 .. i : Entered'[j] = SessionAt(i)'
               /\ frame'[SessionAt(i)'].alias = frame'[Entered'[i]].alias
    <3>1. PICK j \in 1 .. i : Entered[j] = SessionAt(i)
      BY <1>inv DEF BlocksAreInside
    <3>2. j \in Places
      BY <1>1, <3>1
    <3>3. frame[SessionAt(i)].alias = frame[Entered[i]].alias
      BY <1>inv DEF BlocksAreInside
    <3>4. /\ Entered'[j] = SessionAt(i) /\ SessionAt(i)' = SessionAt(i)
          /\ Entered'[i] = Entered[i] /\ frame'[Entered[i]] = frame[Entered[i]]
          /\ frame'[SessionAt(i)] = frame[SessionAt(i)]
      BY <1>1, <1>3, <1>4, <1>6, <3>1, <3>2
    <3> QED BY <3>1, <3>3, <3>4
  <2>3. /\ \E j \in 1 .. n + 1 : Entered'[j] = b
        /\ frame'[b].alias = a
    <3>1. CASE b = f
      BY <1>1, <1>3, <3>1
    <3>2. CASE b # f
      <4>1. PICK i \in Places : SessionAt(i) = b /\ frame[Entered[i]].alias = a
        BY <3>2 DEF Own
      <4>2. PICK j \in 1 .. i : Entered[j] = b
        BY <1>inv, <4>1 DEF BlocksAreInside
      <4>3. j \in Places /\ j \in 1 .. n + 1
        BY <1>1, <4>1, <4>2
      <4>4. frame[b].alias = a /\ b \in Used
        BY <1>inv, <1>1, <4>1 DEF BlocksAreInside
      <4> QED BY <1>3, <1>4, <4>2, <4>3, <4>4
    <3> QED BY <3>1, <3>2
  <2>4. ASSUME NEW i \in Places, frame'[Entered'[i]].alias = a
        PROVE  SessionAt(i) = b
    <3>1. i \in Own(a)
      <4>1. Entered'[i] = Entered[i] /\ frame'[Entered[i]] = frame[Entered[i]]
        BY <1>1, <1>3, <1>4
      <4> QED BY <2>4, <4>1 DEF Own
    <3>2. PICK j \in Own(a) : SessionAt(j) = b
      BY <3>1
    <3> QED BY <1>inv, <3>1, <3>2 DEF BlocksAreInside, Own
  <2>5. ASSUME NEW i \in Places', NEW j \in Places',
               frame'[Entered'[i]].alias = frame'[Entered'[j]].alias
        PROVE  SessionAt(i)' = SessionAt(j)'
    <3>1. CASE i \in Places /\ j \in Places
      <4>1. /\ Entered'[i] = Entered[i] /\ frame'[Entered[i]] = frame[Entered[i]]
            /\ Entered'[j] = Entered[j] /\ frame'[Entered[j]] = frame[Entered[j]]
        BY <1>1, <1>3, <1>4, <3>1
      <4>2. frame[Entered[i]].alias = frame[Entered[j]].alias
        BY <2>5, <4>1
      <4>3. SessionAt(i) = SessionAt(j)
        BY <1>inv, <3>1, <4>2 DEF BlocksAreInside
      <4> QED BY <1>6, <3>1, <4>3
    <3>2. CASE i = n + 1 /\ j \in Places
      BY <1>3, <1>6, <2>4, <2>5, <3>2
    <3>3. CASE i \in Places /\ j = n + 1
      BY <1>3, <1>6, <2>4, <2>5, <3>3
    <3>4. CASE i = n + 1 /\ j = n + 1
      BY <3>4
    <3> QED BY <1>7, <3>1, <3>2, <3>3, <3>4
  <2>6. ASSUME NEW i \in Places'
        PROVE  /\ \E j \in 1 .. i : Entered'[j] = SessionAt(i)'
               /\ frame'[SessionAt(i)'].alias = frame'[Entered'[i]].alias
    <3>1. CASE i \in Places
      BY ONLY <2>2, <3>1
    <3>2. CASE i = n + 1
      <4>1. SessionAt(n + 1)' = b /\ Entered'[n + 1] = f /\ frame'[f].alias = a
        BY <1>3, <1>6
      <4> QED BY ONLY <2>3, <3>2, <4>1
    <3> QED BY ONLY <1>7, <2>6, <3>1, <3>2
  <2> QED BY ONLY <2>1, <2>5, <2>6 DEF BlocksAreInside
<1>14. CallMarksRise'
  <2>1. \A i \in Places : /\ frame'[Entered'[i]].mark = frame[Entered[i]].mark
                          /\ frame[Entered[i]].mark <= Len(callbacks[SessionAt(i)])
    <3>1. \A i \in Places : Entered'[i] = Entered[i] /\ frame'[Entered[i]] = frame[Entered[i]]
      BY <1>1, <1>3, <1>4
    <3>2. \A i \in Places : frame[Entered[i]].mark <= Len(callbacks[SessionAt(i)])
      BY <1>inv DEF CallMarksRise
    <3> QED BY <3>1, <3>2
  <2>2. frame'[Entered'[n + 1]].mark = Len(callbacks[b])
    BY <1>3
  <2>3. \A i \in Places : IsOuter(Entered[i])' => frame'[Entered'[i]].mark = 0
    BY <1>inv, <1>6, <2>1 DEF CallMarksRise
  <2>4. ASSUME NEW i \in Places', NEW j \in Places', i < j, SessionAt(i)' = SessionAt(j)'
        PROVE  frame'[Entered'[i]].mark <= frame'[Entered'[j]].mark
    <3>1. i \in Places
      BY <1>7, <1>8, <2>4
    <3>2. CASE j \in Places
      <4>1. SessionAt(i) = SessionAt(j)
        BY <1>6, <2>4, <3>1, <3>2
      <4>2. frame[Entered[i]].mark <= frame[Entered[j]].mark
        BY <1>inv, <2>4, <3>1, <3>2, <4>1 DEF CallMarksRise
      <4> QED BY <2>1, <3>1, <3>2, <4>2
    <3>3. CASE j = n + 1
      <4>1. SessionAt(i) = b
        BY <1>6, <2>4, <3>1, <3>3
      <4> QED BY <2>1, <2>2, <3>1, <3>3, <4>1
    <3> QED BY <1>7, <3>2, <3>3
  <2>5. \A g \in Frames \ Used' : callbacks'[g] = <<>>
    BY <1>inv, <1>2 DEF CallMarksRise
  <2>6. ASSUME NEW i \in Places'
        PROVE  /\ frame'[Entered'[i]].mark <= Len(callbacks'[SessionAt(i)'])
               /\ IsOuter(Entered[i])' => frame'[Entered'[i]].mark = 0
    <3>1. CASE i \in Places
      BY <1>6, <2>1, <2>3, <3>1
    <3>2. CASE i = n + 1
      <4>1. SessionAt(i)' = b /\ (IsOuter(Entered[i])' => b = f)
        BY <1>6, <3>2
      <4>2. frame'[Entered'[i]].mark = Len(callbacks[b])
        BY <2>2, <3>2
      <4>3. frame'[Entered'[i]].mark <= Len(callbacks'[SessionAt(i)'])
        <5>1. Len(callbacks'[SessionAt(i)']) = Len(callbacks[b])
          BY <4>1
        <5> QED BY ONLY <1>9, <4>2, <5>1
      <4>4. b = f => frame'[Entered'[i]].mark = 0
        BY ONLY <1>10, <4>2
      <4> QED BY ONLY <4>1, <4>3, <4>4
    <3> QED BY <1>7, <3>1, <3>2
  <2> QED BY <2>4, <2>5, <2>6 DEF CallMarksRise
<1>15. SavepointsFit'
  <2> SUFFICES ASSUME NEW g \in Frames PROVE SavepointsFit!(g)'
    BY DEF SavepointsFit
  <2>1. ASSUME NEW k \in DOMAIN sps[g]
        PROVE  \E i \in Places' : /\ Entered'[i] = sps[g][k].frame
                                  /\ ~IsOuter(Entered[i])' /\ SessionAt(i)' = g
    <3>1. PICK i \in Places : /\ Entered[i] = sps[g][k].frame
                              /\ ~IsOuter(Entered[i]) /\ SessionAt(i) = g
      BY <1>inv DEF SavepointsFit
    <3> QED BY <1>3, <1>6, <3>1
  <2> QED BY <1>inv, <2>1 DEF SavepointsFit
<1>16. \A i \in Places : SavepointOf(Entered[i])' = SavepointOf(Entered[i])
  <2> SUFFICES ASSUME NEW i \in Places
               PROVE  SavepointOf(Entered[i])' = SavepointOf(Entered[i])
    OBVIOUS
  <2>1. /\ Entered'[i] = Entered[i] /\ frame'[Entered[i]] = frame[Entered[i]]
        /\ sps' = sps
    BY <1>1, <1>3, <1>4
  <2> QED BY ONLY <2>1 DEF SavepointOf
<1>17. SavepointOf(Entered[n + 1])' = {}
  <2> SUFFICES ASSUME NEW k \in DOMAIN sps[b], sps[b][k].frame = f PROVE FALSE
    BY <1>3 DEF SavepointOf
  <2>1. \E i \in Places : Entered[i] = f
    BY <1>inv DEF SavepointsFit
  <2> QED BY <1>1, <1>2, <2>1
<1>18. BlocksHaveSavepoints'
  <2> SUFFICES ASSUME NEW i \in Places', ~IsOuter(Entered[i])'
               PROVE  (SavepointOf(Entered[i]) = {})' <=> i = Len(Entered') /\ IsEntering'
    BY DEF BlocksHaveSavepoints
  <2>1. CASE i \in Places
    <3>1. SavepointOf(Entered[i]) # {}
      BY <1>inv, <1>6, <2>1 DEF BlocksHaveSavepoints, IsEntering
    <3>2. i # Len(Entered')
      BY <1>3, <1>8, <2>1
    <3> QED BY <1>16, <2>1, <3>1, <3>2
  <2>2. CASE i = n + 1
    BY <1>3, <1>6, <1>17, <2>2 DEF IsEntering
  <2> QED BY <1>7, <2>1, <2>2
<1>19. SequentialInv'
  BY <1>12, <1>13, <1>14, <1>15, <1>18 DEF SequentialInv
<1>20. Picture /\ Picture'
  <2>1. SequentialAssumption' /\ CommitInv' /\ SequentialInv' => Picture'
    BY PictureHolds, PTL
  <2> QED BY <1>19, <2>1, PictureHolds DEF SequentialAssumption
<1>21. \A i \in Places : LogMark(Entered[i])' = LogMark(Entered[i])
  <2> SUFFICES ASSUME NEW i \in Places PROVE LogMark(Entered[i])' = LogMark(Entered[i])
    OBVIOUS
  <2>1. SavepointOf(Entered[i]) # {} \/ IsOuter(Entered[i])
    BY <1>inv DEF BlocksHaveSavepoints, IsEntering
  <2> QED BY <1>3, <1>5, <1>16, <2>1, LogMarkKept
<1>22. LogMark(Entered[n + 1])' = Len(log[b])
  <2>1. CASE b = f
    <3>1. LogMark(Entered[n + 1])' = 0
      BY <1>6, <2>1 DEF LogMark
    <3> QED BY <1>10, <2>1, <3>1
  <2>2. CASE b # f
    <3>1. frame'[Entered'[n + 1]].block = b
      BY <1>3
    <3> QED BY <1>6, <1>17, <2>2, <3>1 DEF LogMark
  <2> QED BY <2>1, <2>2
<1>23. \A i \in Places : Inside(i)' = IF SessionAt(i) = b THEN Inside(i) \cup {n + 1} ELSE Inside(i)
  <2> SUFFICES ASSUME NEW i \in Places
               PROVE  Inside(i)' = IF SessionAt(i) = b THEN Inside(i) \cup {n + 1} ELSE Inside(i)
    OBVIOUS
  <2>1. Inside(i)' = {j \in Places' : j > i /\ SessionAt(j)' = SessionAt(i)}
    BY <1>6 DEF Inside
  <2>2. Inside(i) = {j \in Places : j > i /\ SessionAt(j) = SessionAt(i)}
    BY DEF Inside
  <2>3. /\ n + 1 > i /\ n + 1 \in Places' /\ \A j \in Places : j \in Places'
        /\ \A j \in Places : SessionAt(j)' = SessionAt(j)
    BY <1>1, <1>3, <1>6
  <2> QED BY <1>6, <1>7, <2>1, <2>2, <2>3
<1>24. ASSUME NEW i \in Places PROVE Scope(i)' = Scope(i)
  <2>1. LogEnd(i)' = LogEnd(i) /\ CallEnd(i)' = CallEnd(i)
    <3>1. CASE Inside(i) # {}
      <4>1. PICK j \in Inside(i) : \A k \in Inside(i) : j <= k
        BY <3>1, LogEnds
      <4>2. j \in Places
        BY DEF Inside
      <4>3. Inside(i)' \subseteq Inside(i) \cup {Len(Entered) + 1} /\ j \in Inside(i)'
        BY <1>0, <1>23
      <4> QED BY <1>3, <1>5, <1>21, <4>1, <4>2, <4>3, EndsKept
    <3>2. CASE Inside(i) = {} /\ SessionAt(i) # b
      <4>1. Inside(i)' = {}
        BY <1>23, <3>2
      <4> QED BY <1>6, <3>2, <4>1 DEF LogEnd, CallEnd
    <3>3. CASE Inside(i) = {} /\ SessionAt(i) = b
      <4>1. Inside(i)' = {n + 1}
        BY <1>23, <3>3
      <4>2. Smallest(Inside(i))' = n + 1
        <5>1. PICK k \in Nat : k = n + 1
          BY <1>1
        <5>2. {k} \subseteq Nat /\ k \in {k} /\ \A j \in {k} : k <= j
          BY <5>1
        <5>3. Smallest({k}) = k
          BY ONLY <5>2, SmallestIs
        <5> QED BY <4>1, <5>1, <5>3
      <4>3. Following(i)' = Entered'[n + 1]
        BY <4>2 DEF Following
      <4>4. LogMark(Following(i))' = LogMark(Entered[n + 1])'
        BY <4>3
      <4>5. LogEnd(i)' = Len(log[b]) /\ CallEnd(i)' = frame'[Entered'[n + 1]].mark
        BY <1>22, <4>1, <4>3, <4>4 DEF LogEnd, CallEnd
      <4>6. CallEnd(i)' = Len(callbacks[b])
        BY <1>3, <4>5
      <4> QED BY <3>3, <4>5, <4>6 DEF LogEnd, CallEnd
    <3> QED BY <3>1, <3>2, <3>3
  <2> QED BY <1>3, <1>5, <1>20, <1>21, <2>1, ScopeKept
<1>25. Scope(n + 1)' = [alias |-> a, writes |-> {}, calls |-> <<>>]
  <2>1. Inside(n + 1)' = {}
    <3> SUFFICES ASSUME NEW j \in Places', j > n + 1 PROVE FALSE
      BY DEF Inside
    <3> QED BY <1>1, <1>3
  <2>2. LogEnd(n + 1)' = Len(log[b]) /\ CallEnd(n + 1)' = Len(callbacks[b])
    BY <1>6, <2>1 DEF LogEnd, CallEnd
  <2>3. Picture!2!(n + 1)'
    BY <1>3, <1>20 DEF Picture
  <2>4. Scope(n + 1)' = [alias |-> a, writes |-> IdsIn(log[b], Len(log[b]), Len(log[b])),
                         calls |-> IdsFrom(callbacks[b], Len(callbacks[b]), Len(callbacks[b]))]
    BY <1>3, <1>6, <1>22, <2>2, <2>3
  <2>5. IdsIn(log[b], Len(log[b]), Len(log[b])) = {}
    BY <1>9, NoIds
  <2>6. IdsFrom(callbacks[b], Len(callbacks[b]), Len(callbacks[b])) = <<>>
    BY <1>9, NoIds
  <2> QED BY <2>4, <2>5, <2>6
<1>26. Scopes' = Append(Scopes, Scopes'[n + 1])
  <2> DEFINE s == Scopes
             t == Scopes'
  <2>1. /\ Sequence(s, n) /\ Sequence(t, n + 1)
        /\ \A i \in 1 .. n : t[i] = s[i]
    BY <1>1, <1>3, <1>24 DEF Scopes, Sequence
  <2> HIDE DEF s, t
  <2>2. t = Append(s, t[n + 1])
    BY ONLY n \in Nat, <2>1, OneMore
  <2> QED BY <2>2 DEF s, t
<1>27. Scopes' = Append(Scopes, [alias |-> a, writes |-> {}, calls |-> <<>>])
  BY <1>3, <1>25, <1>26 DEF Scopes
<1>28. Due = <<>> /\ Due' = <<>>
  BY DEF Due
<1>29. Abstract!Open(a)
  BY <1>27, <1>28 DEF Abstract!Open, Scopes
<1> QED BY <1>19, <1>29 DEF Implements, Abstract!Next

(* Entering a block, on a session of its own or on that of the block       *)
(* around it, opens a scope.                                               *)
LEMMA EnterImplements ==
  ASSUME SequentialAssumption, CommitInv, CommitInv', SequentialInv,
         NEW a \in Aliases, EnterOuter(Task, a) \/ EnterNested(Task, a)
  PROVE  Implements
<1>inv. TypeOK /\ BlocksAreInside /\ CallMarksRise /\ Task \in Tasks
  BY DEF CommitInv, DurabilityInv, SequentialInv, SequentialAssumption
<1>1. PICK f \in Frames : f = nframes + 1
  BY <1>inv, AtomicAssumption DEF TypeOK, Frames, Frames0, EnterOuter, EnterNested, MayEnter
<1>2. /\ Entered' = Append(Entered, f) /\ nframes' = f /\ pc[Task] = "run"
      /\ UNCHANGED <<inherited, callbacks, log, sps, durable, ran>>
  BY <1>inv, <1>1 DEF EnterOuter, EnterNested, Entered, session, TypeOK
<1>3. frame \in [Frames -> Frame]
  BY <1>inv DEF TypeOK
<1>4. CASE EnterOuter(Task, a)
  <2>1. /\ frame' = [frame EXCEPT ![f] =
              [alias |-> a, block |-> f, up |-> 0, mark |-> 0, status |-> "open"]]
        /\ pc' = pc /\ OpenBlock(Task, a) = 0
    BY <1>1, <1>4 DEF EnterOuter
  <2>2. Own(a) = {}
    BY <2>1, OpenBlockIs
  <2>3. f \notin Used
    BY <1>1, <1>inv DEF Used, TypeOK, Frames0
  <2>4. callbacks[f] = <<>> /\ Len(callbacks[f]) = 0
    BY <1>inv, <2>3 DEF CallMarksRise
  <2>5. /\ \A g \in Frames : g # f => frame'[g] = frame[g]
        /\ frame'[f].alias = a /\ frame'[f].block = f /\ frame'[f].mark = Len(callbacks[f])
    BY <1>3, <2>1, <2>4
  <2> QED BY <1>1, <1>2, <2>1, <2>2, <2>5, PushImplements
<1>5. CASE EnterNested(Task, a)
  <2> DEFINE b == OpenBlock(Task, a)
  <2>1. /\ frame' = [frame EXCEPT ![f] =
              [alias |-> a, block |-> b, up |-> Enclosing(Task, a),
               mark |-> Len(callbacks[b]), status |-> "entering"]]
        /\ pc'[Task] = "entering" /\ b # 0
    BY <1>inv, <1>1, <1>5 DEF EnterNested, CallbackMark, Goto, TypeOK
  <2>2. PICK i \in Own(a) : i \in Places /\ b = SessionAt(i)
    BY <2>1, OpenBlockIs
  <2>3. b \in Frames /\ b \in Used
    BY <1>inv, <2>2, EnteredBlocks
  <2>4. b # f
    BY <1>1, <1>inv, <2>3 DEF Used, TypeOK, Frames0
  <2>5. /\ \A g \in Frames : g # f => frame'[g] = frame[g]
        /\ frame'[f].alias = a /\ frame'[f].block = b /\ frame'[f].mark = Len(callbacks[b])
    BY <1>3, <2>1
  <2> HIDE DEF b
  <2> QED BY <1>1, <1>2, <2>1, <2>2, <2>3, <2>4, <2>5, PushImplements
<1> QED BY <1>4, <1>5

-----------------------------------------------------------------------------
(* Leaving a block. *)

(* A sequence cut at a place that it has.                                  *)
LEMMA CutIs ==
  ASSUME NEW S, NEW s \in Seq(S), NEW n \in Nat, n <= Len(s)
  PROVE  /\ Cut(s, n) \in Seq(S) /\ Len(Cut(s, n)) = n /\ DOMAIN Cut(s, n) = 1 .. n
         /\ \A k \in 1 .. n : Cut(s, n)[k] = s[k]
<1>1. Len(s) \in Nat /\ DOMAIN s = 1 .. Len(s)
  BY LenProperties
<1>2. Cut(s, n) = SubSeq(s, 1, n)
  <2>1. PICK l \in Nat : l = Len(s)
    BY <1>1
  <2>2. n <= l
    BY <2>1
  <2>3. n < l \/ n = l
    BY ONLY n \in Nat, l \in Nat, <2>2
  <2> QED BY <2>1, <2>3 DEF Cut
<1>3. \A i \in 1 .. n : s[i] \in S
  BY <1>1, ElementOfSeq
<1>4. /\ SubSeq(s, 1, n) \in Seq(S) /\ Len(SubSeq(s, 1, n)) = n
      /\ \A i \in 1 .. n : SubSeq(s, 1, n)[i] = s[i]
  BY <1>1, <1>3, SubSeqProperties
<1> QED BY <1>2, <1>4, LenProperties

(* The innermost scope, and those around it. *)
LEMMA RestIs ==
  ASSUME SequentialAssumption, CommitInv, SequentialInv, NEW n \in Nat,
         n = Len(Entered), n # 0
  PROVE  /\ n \in Places /\ Places = 1 .. n /\ Abstract!Last = Scope(n)
         /\ Abstract!Rest = [i \in 1 .. n - 1 |-> Scope(i)]
         /\ Abstract!Around = {i \in 1 .. n - 1 : SessionAt(i) = SessionAt(n)}
         /\ Scopes # <<>>
<1>inv. BlocksAreInside
  BY DEF SequentialInv
<1>1. Places = 1 .. n /\ n \in Places
  BY <1>inv, EnteredBlocks
<1> DEFINE S == {Scope(i) : i \in 1 .. n}
<1>2. /\ Scopes = [i \in 1 .. n |-> Scope(i)] /\ DOMAIN Scopes = 1 .. n
      /\ \A i \in 1 .. n : Scopes[i] = Scope(i) /\ Scopes[i] \in S
  BY <1>1 DEF Scopes
<1> HIDE DEF S
<1>3. Scopes \in Seq(S) /\ Len(Scopes) = n /\ Scopes # <<>>
  BY <1>1, <1>2
<1>4. Abstract!Last = Scope(n)
  BY <1>1, <1>2, <1>3 DEF Abstract!Last, Scopes
<1> DEFINE r == SubSeq(Scopes, 1, n - 1)
<1>5. r = [i \in 1 .. n - 1 |-> Scope(i)]
  <2>1. /\ r \in Seq(S) /\ Len(r) = n - 1 /\ \A i \in 1 .. n - 1 : r[i] = Scopes[i]
    BY <1>3, PopProperties
  <2>2. DOMAIN r = 1 .. n - 1 /\ r = [i \in DOMAIN r |-> r[i]]
    BY <2>1, LenProperties
  <2>3. \A i \in 1 .. n - 1 : r[i] = Scope(i)
    BY <1>2, <2>1
  <2> QED BY <2>2, <2>3
<1>6. Abstract!Rest = [i \in 1 .. n - 1 |-> Scope(i)]
  BY <1>3, <1>5 DEF Abstract!Rest, Scopes
<1>7. \A i \in Places : Scope(i).alias = frame[Entered[i]].alias
  BY DEF Scope
<1>8. \A i \in 1 .. n - 1 :
        frame[Entered[i]].alias = frame[Entered[n]].alias <=> SessionAt(i) = SessionAt(n)
  BY <1>inv, <1>1 DEF BlocksAreInside
<1>9. Abstract!Around = {i \in 1 .. n - 1 : SessionAt(i) = SessionAt(n)}
  <2>1. /\ DOMAIN Abstract!Rest = 1 .. n - 1
        /\ \A i \in 1 .. n - 1 : Abstract!Rest[i].alias = frame[Entered[i]].alias
    BY <1>1, <1>6, <1>7
  <2>2. Abstract!Last.alias = frame[Entered[n]].alias
    BY <1>1, <1>4, <1>7
  <2> QED BY <1>8, <2>1, <2>2 DEF Abstract!Around
<1> QED BY <1>1, <1>3, <1>4, <1>6, <1>9

(* The task leaves its innermost block. *)
LEMMA PopKeeps ==
  ASSUME SequentialAssumption, CommitInv, CommitInv', SequentialInv, NEW n \in Nat,
         n = Len(Entered), n # 0, NEW st, Become(Entered[n], st), Pop(Task),
         nframes' = nframes
  PROVE  /\ BlocksStay /\ NoneEntered /\ Places' = 1 .. n - 1 /\ Len(Entered') = n - 1
         /\ \A i \in Places : i = n \/ i \in Places'
         /\ \A i \in Places' : /\ i \in Places /\ i < n /\ Stays(i)
                               /\ SessionAt(i)' = SessionAt(i)
                               /\ IsOuter(Entered[i])' = IsOuter(Entered[i])
                               /\ Inside(i)' = Inside(i) \ {n}
                               /\ Entered[i] < Entered[n]
         /\ BlocksAreInside'
<1>inv. TypeOK /\ BlocksAreInside /\ Task \in Tasks
  BY DEF CommitInv, DurabilityInv, SequentialInv, SequentialAssumption
<1>1. /\ Places = 1 .. n /\ Entered \in Seq(Frames) /\ Entered # <<>> /\ n \in Places
      /\ \A i \in Places : Entered[i] \in Frames /\ Entered[i] \in Used
                           /\ SessionAt(i) \in Frames
      /\ Used \subseteq Frames
  BY <1>inv, EnteredBlocks
<1>2. Entered' = SubSeq(Entered, 1, n - 1)
  BY <1>inv DEF Pop, Entered, TypeOK
<1>3. /\ Entered' \in Seq(Frames) /\ Len(Entered') = n - 1
      /\ \A i \in 1 .. n - 1 : Entered'[i] = Entered[i]
  BY <1>1, <1>2, PopProperties
<1>4. Places' = 1 .. n - 1
  BY <1>3, LenProperties DEF Places
<1>5. \A g \in Frames : /\ frame'[g].block = frame[g].block
                        /\ frame'[g].alias = frame[g].alias
                        /\ frame'[g].mark = frame[g].mark
                        /\ IsOuter(g)' = IsOuter(g)
  BY <1>inv, <1>1, BecomeOnlyStatus
<1>6. BlocksStay
  BY <1>1, <1>5 DEF BlocksStay, Used
<1>7. NoneEntered
  BY <1>1, <1>3, <1>4 DEF NoneEntered, Stays
<1>8. BlocksAreInside' /\ \A i \in Places' : SessionAt(i)' = SessionAt(i)
  BY <1>inv, <1>6, <1>7, InsidePreserved
<1>9. ASSUME NEW i \in Places'
      PROVE  /\ i \in Places /\ i < n /\ Stays(i)
             /\ IsOuter(Entered[i])' = IsOuter(Entered[i])
             /\ Inside(i)' = Inside(i) \ {n}
             /\ Entered[i] < Entered[n]
  <2>1. i \in Places /\ i < n /\ Stays(i)
    BY <1>1, <1>3, <1>4 DEF Stays
  <2>2. IsOuter(Entered[i])' = IsOuter(Entered[i])
    BY <1>1, <1>5, <2>1 DEF IsOuter, Stays
  <2>3. Inside(i)' = Inside(i) \cap Places'
    BY <1>6, <1>7, <2>1, PictureHolds, InsideKept DEF NoneEntered
  <2>4. Inside(i) \subseteq Places /\ \A j \in Places : j \in Places' <=> j # n
    BY <1>1, <1>4 DEF Inside
  <2>5. Inside(i)' = Inside(i) \ {n}
    BY <2>3, <2>4
  <2>6. Entered[i] < Entered[n]
    BY <1>inv, <1>1, <2>1 DEF BlocksAreInside
  <2> QED BY <2>1, <2>2, <2>5, <2>6
<1>10. \A i \in Places : i = n \/ i \in Places'
  BY <1>1, <1>4
<1> QED BY <1>3, <1>4, <1>6, <1>7, <1>8, <1>9, <1>10

(* The task leaves a nested block: its savepoint p goes, and what the log  *)
(* and the callback list hold before its marks stays.                      *)
LeavesTop(n, b, p, st) ==
  /\ n = Len(Entered) /\ n # 0 /\ b = SessionAt(n) /\ p \in SavepointOf(Entered[n])
  /\ Become(Entered[n], st) /\ Pop(Task)
  /\ nframes' = nframes /\ inherited' = inherited /\ pc[Task] = "run" /\ pc' = pc
  /\ sps' = [sps EXCEPT ![b] = Cut(@, p - 1)]
  /\ \A g \in Frames : g # b => log'[g] = log[g] /\ callbacks'[g] = callbacks[g]
  /\ LogMark(Entered[n]) <= Len(log'[b])
  /\ \A k \in 1 .. LogMark(Entered[n]) : log'[b][k] = log[b][k]
  /\ frame[Entered[n]].mark <= Len(callbacks'[b])
  /\ \A k \in 1 .. frame[Entered[n]].mark : callbacks'[b][k] = callbacks[b][k]

(* What is left: only the block around it on its session ends elsewhere.   *)
KeepsOthers(n, b) ==
  /\ SequentialInv' /\ Places' = 1 .. n - 1
  /\ \A i \in Places' :
       /\ LogMark(Entered[i])' = LogMark(Entered[i]) /\ Stays(i)
       /\ SessionAt(i)' = SessionAt(i) /\ i \in Places
       /\ \/ SessionAt(i) # b \/ Inside(i) # {n}
          \/ /\ Len(log'[b]) = LogMark(Entered[n])
             /\ Len(callbacks'[b]) = frame[Entered[n]].mark
          => Scope(i)' = Scope(i)
       /\ SessionAt(i) = b /\ Inside(i) = {n} =>
            /\ LogEnd(i) = LogMark(Entered[n])
            /\ CallEnd(i) = frame[Entered[n]].mark
            /\ LogEnd(i)' = Len(log'[b]) /\ CallEnd(i)' = Len(callbacks'[b])

(* A nested block that is left so leaves the others as KeepsOthers says.   *)
LEMMA NestedPop ==
  ASSUME SequentialAssumption, CommitInv, CommitInv', SequentialInv, NEW n \in Nat,
         NEW b \in Frames, NEW p, NEW st, LeavesTop(n, b, p, st)
  PROVE  KeepsOthers(n, b)
<1>0. LeavesTop(n, b, p, st)!:
  BY DEF LeavesTop
<1> USE <1>0
<1> DEFINE f == Entered[n]
<1>inv. /\ TypeOK /\ BlocksAreInside /\ CallMarksRise /\ SavepointsFit /\ BlocksHaveSavepoints
        /\ RunsAlone
  BY DEF CommitInv, DurabilityInv, SequentialInv
<1>1. /\ Places = 1 .. n /\ n \in Places /\ Frames \subseteq Nat /\ Used \subseteq Frames
      /\ \A i \in Places : /\ Entered[i] \in Frames /\ Entered[i] \in Used
                           /\ SessionAt(i) \in Frames
  BY <1>inv, EnteredBlocks
<1>2. /\ BlocksStay /\ NoneEntered /\ Places' = 1 .. n - 1 /\ Len(Entered') = n - 1
      /\ \A i \in Places : i = n \/ i \in Places'
      /\ \A i \in Places' : /\ i \in Places /\ i < n /\ Stays(i)
                            /\ SessionAt(i)' = SessionAt(i)
                            /\ IsOuter(Entered[i])' = IsOuter(Entered[i])
                            /\ Inside(i)' = Inside(i) \ {n}
                            /\ Entered[i] < f
      /\ BlocksAreInside'
  BY PopKeeps
<1>3. /\ sps[b] \in Seq(Savepoint) /\ DOMAIN sps[b] = 1 .. Len(sps[b]) /\ Len(sps[b]) \in Nat
      /\ \A k \in DOMAIN sps[b] : sps[b][k].mark \in Nat /\ sps[b][k].frame \in Frames
      /\ Len(log'[b]) \in Nat /\ Len(callbacks'[b]) \in Nat
  BY <1>inv, SavepointTypes, LenProperties DEF CommitInv, DurabilityInv, TypeOK
<1>4. /\ p \in DOMAIN sps[b] /\ sps[b][p].frame = f /\ LogMark(f) = sps[b][p].mark
      /\ LogMark(f) \in Nat /\ frame[f].mark \in Nat
  <2>1. p \in DOMAIN sps[b] /\ sps[b][p].frame = f
    BY DEF SavepointOf, SessionAt
  <2>2. LogMark(f) = sps[b][p].mark
    BY <1>inv, <1>1, <2>1, BlockSavepoints
  <2>3. LogMark(f) \in Nat /\ frame[f].mark \in Nat
    BY <1>1, LogMarks, LogEnds
  <2> QED BY <2>1, <2>2, <2>3
<1>5. /\ DOMAIN sps'[b] = 1 .. p - 1 /\ \A k \in 1 .. p - 1 : sps'[b][k] = sps[b][k]
      /\ \A g \in Frames : g # b => sps'[g] = sps[g]
  <2>1. p - 1 \in Nat /\ p - 1 <= Len(sps[b])
    BY <1>3, <1>4
  <2>2. sps'[b] = Cut(sps[b], p - 1) /\ \A g \in Frames : g # b => sps'[g] = sps[g]
    BY <1>inv DEF TypeOK
  <2> QED BY <1>3, <2>1, <2>2, CutIs
<1>6. \A k \in 1 .. p - 1 : k \in DOMAIN sps[b] /\ k < p
  BY <1>3, <1>4
<1>7. RunsAlone' /\ ~IsEntering /\ ~IsEntering'
  BY <1>inv DEF RunsAlone, IsEntering
<1>8. CallMarksRise'
  <2>1. ASSUME NEW i \in Places'
        PROVE  frame[Entered[i]].mark <= Len(callbacks'[SessionAt(i)])
    <3>1. CASE SessionAt(i) = b
      <4>1. frame[Entered[i]].mark <= frame[f].mark
        BY <1>inv, <1>1, <1>2, <3>1 DEF CallMarksRise
      <4>2. frame[Entered[i]].mark \in Nat
        BY <1>2, LogEnds
      <4> QED BY ONLY <1>3, <1>4, <3>1, <4>1, <4>2, frame[f].mark <= Len(callbacks'[b])
    <3>2. CASE SessionAt(i) # b
      BY <1>inv, <1>1, <1>2, <3>2 DEF CallMarksRise
    <3> QED BY <3>1, <3>2
  <2>2. \A g \in Frames \ Used : callbacks'[g] = callbacks[g]
    <3>1. b \in Used
      BY <1>inv, <1>1, EnteredBlocks
    <3> QED BY <3>1
  <2> QED BY <1>inv, <1>2, <2>1, <2>2, CallMarksPreserved
<1>9. SavepointsFit'
  <2> SUFFICES ASSUME NEW g \in Frames PROVE SavepointsFit!(g)'
    BY DEF SavepointsFit
  <2>1. ASSUME NEW k \in DOMAIN sps[g], sps[g][k].frame # f
        PROVE  \E i \in Places' : /\ Entered'[i] = sps[g][k].frame
                                  /\ ~IsOuter(Entered[i])' /\ SessionAt(i)' = g
    <3>1. PICK i \in Places : /\ Entered[i] = sps[g][k].frame
                              /\ ~IsOuter(Entered[i]) /\ SessionAt(i) = g
      BY <1>inv DEF SavepointsFit
    <3>2. i \in Places'
      BY <1>2, <2>1, <3>1
    <3> QED BY <1>2, <3>1, <3>2 DEF Stays
  <2>2. CASE g # b
    <3>1. \A k \in DOMAIN sps[g] : sps[g][k].frame # f
      <4> SUFFICES ASSUME NEW k \in DOMAIN sps[g], sps[g][k].frame = f PROVE FALSE
        OBVIOUS
      <4>1. PICK i \in Places : Entered[i] = f /\ SessionAt(i) = g
        BY <1>inv DEF SavepointsFit
      <4>2. SessionAt(i) = b
        BY <4>1 DEF SessionAt
      <4> QED BY <2>2, <4>1, <4>2
    <3>2. sps'[g] = sps[g] /\ log'[g] = log[g]
      BY <1>5, <2>2
    <3>3. \A k \in DOMAIN sps[g] :
            \E i \in Places' : /\ Entered'[i] = sps[g][k].frame
                              /\ ~IsOuter(Entered[i])' /\ SessionAt(i)' = g
      BY <2>1, <3>1
    <3>4. /\ \A k \in DOMAIN sps[g] : sps[g][k].mark <= Len(log[g])
          /\ \A k, l \in DOMAIN sps[g] :
               k < l => /\ sps[g][k].frame < sps[g][l].frame
                        /\ sps[g][k].mark <= sps[g][l].mark
      BY <1>inv DEF SavepointsFit
    <3>5. DOMAIN sps'[g] = DOMAIN sps[g]
      BY ONLY <3>2
    <3> QED BY ONLY <3>2, <3>3, <3>4, <3>5
  <2>3. CASE g = b
    <3>1. \A k \in 1 .. p - 1 : sps[b][k].frame < f /\ sps[b][k].mark <= LogMark(f)
      BY <1>inv, <1>4, <1>6 DEF SavepointsFit
    <3>2. ASSUME NEW k \in 1 .. p - 1
          PROVE  /\ sps[b][k].mark <= Len(log'[b])
                 /\ \E i \in Places' : /\ Entered'[i] = sps[b][k].frame
                                       /\ ~IsOuter(Entered[i])' /\ SessionAt(i)' = b
      <4>1. k \in DOMAIN sps[b] /\ sps[b][k].frame < f /\ sps[b][k].mark <= LogMark(f)
        BY <1>6, <3>1
      <4>2. sps[b][k].frame # f
        <5>1. sps[b][k].frame \in Nat /\ f \in Nat
          BY <1>1, <1>3, <4>1
        <5> HIDE DEF f
        <5> QED BY <4>1, <5>1
      <4>3. sps[b][k].mark <= Len(log'[b])
        <5>1. sps[b][k].mark \in Nat
          BY <1>3, <4>1
        <5> QED BY ONLY <1>3, <1>4, <4>1, <5>1, LogMark(f) <= Len(log'[b])
      <4> QED BY <2>1, <2>3, <4>1, <4>2, <4>3
    <3>3. \A k, l \in 1 .. p - 1 :
            k < l => /\ sps[b][k].frame < sps[b][l].frame
                     /\ sps[b][k].mark <= sps[b][l].mark
      BY <1>inv, <1>6 DEF SavepointsFit
    <3>4. DOMAIN sps'[g] = 1 .. p - 1 /\ \A k \in 1 .. p - 1 : sps'[g][k] = sps[b][k]
      BY <1>5, <2>3
    <3>5. \A k \in DOMAIN sps'[g] :
            /\ sps'[g][k].mark <= Len(log'[g])
            /\ \E i \in Places' : /\ Entered'[i] = sps'[g][k].frame
                                 /\ ~IsOuter(Entered[i])' /\ SessionAt(i)' = g
      BY ONLY <2>3, <3>2, <3>4
    <3>6. \A k, l \in DOMAIN sps'[g] :
            k < l => /\ sps'[g][k].frame < sps'[g][l].frame
                     /\ sps'[g][k].mark <= sps'[g][l].mark
      BY ONLY <3>3, <3>4
    <3> QED BY ONLY <3>5, <3>6
  <2> QED BY <2>2, <2>3
<1>10. ASSUME NEW i \in Places'
       PROVE  /\ SavepointOf(Entered[i])' = SavepointOf(Entered[i])
              /\ \A k \in SavepointOf(Entered[i]) :
                   sps'[SessionAt(i)][k] = sps[SessionAt(i)][k]
  <2> DEFINE g == Entered[i]
  <2>1. /\ SavepointOf(g)' = {k \in DOMAIN sps'[SessionAt(i)] : sps'[SessionAt(i)][k].frame = g}
        /\ SavepointOf(g) = {k \in DOMAIN sps[SessionAt(i)] : sps[SessionAt(i)][k].frame = g}
        /\ SessionAt(i) \in Frames
    BY <1>1, <1>2 DEF SavepointOf, SessionAt, Stays
  <2>2. CASE SessionAt(i) # b
    BY <1>5, <2>1, <2>2
  <2>3. CASE SessionAt(i) = b
    <3>1. \A k \in DOMAIN sps[b] : sps[b][k].frame = g => k \in 1 .. p - 1
      <4> SUFFICES ASSUME NEW k \in DOMAIN sps[b], sps[b][k].frame = g, ~(k < p)
                   PROVE  FALSE
        BY <1>3, <1>4
      <4>1. g < f /\ g \in Nat /\ f \in Nat
        BY <1>1, <1>2
      <4>2. k = p \/ p < k
        BY <1>3, <1>4
      <4>3. p < k => f < g
        BY <1>inv, <1>4 DEF SavepointsFit
      <4> HIDE DEF g, f
      <4> QED BY <1>4, <4>1, <4>2, <4>3
    <3> DEFINE s == sps[b]
               r == sps'[b]
    <3>2. /\ SavepointOf(g)' = {k \in DOMAIN r : r[k].frame = g}
          /\ SavepointOf(g) = {k \in DOMAIN s : s[k].frame = g}
      BY <2>1, <2>3
    <3>3. /\ \A k \in DOMAIN s : s[k].frame = g => k \in DOMAIN r
          /\ \A k \in DOMAIN r : k \in DOMAIN s /\ r[k] = s[k]
      BY <1>5, <1>6, <3>1
    <3> HIDE DEF s, r, g
    <3>4. {k \in DOMAIN r : r[k].frame = g} = {k \in DOMAIN s : s[k].frame = g}
      BY ONLY <3>3
    <3>5. SavepointOf(g)' = SavepointOf(g)
      BY ONLY <3>2, <3>4
    <3>6. \A k \in SavepointOf(g) : r[k] = s[k]
      BY ONLY <3>2, <3>3
    <3> QED BY <2>3, <3>5, <3>6 DEF s, r, g
  <2> QED BY <2>2, <2>3
<1>11. BlocksHaveSavepoints'
  <2> SUFFICES ASSUME NEW i \in Places', ~IsOuter(Entered[i])'
               PROVE  (SavepointOf(Entered[i]) = {})' <=> i = Len(Entered') /\ IsEntering'
    BY DEF BlocksHaveSavepoints
  <2>1. SavepointOf(Entered[i]) # {}
    BY <1>inv, <1>2, <1>7 DEF BlocksHaveSavepoints
  <2> QED BY <1>7, <1>10, <2>1
<1>12. SequentialInv'
  BY <1>2, <1>7, <1>8, <1>9, <1>11 DEF SequentialInv
<1>13. Picture /\ Picture'
  <2>1. SequentialAssumption' /\ CommitInv' /\ SequentialInv' => Picture'
    BY PictureHolds, PTL
  <2> QED BY <1>12, <2>1, PictureHolds DEF SequentialAssumption
<1>14. \A i \in Places' : LogMark(Entered[i])' = LogMark(Entered[i])
  <2> SUFFICES ASSUME NEW i \in Places' PROVE LogMark(Entered[i])' = LogMark(Entered[i])
    OBVIOUS
  <2>1. SavepointOf(Entered[i]) # {} \/ IsOuter(Entered[i])
    BY <1>inv, <1>2, <1>7 DEF BlocksHaveSavepoints
  <2> QED BY <1>2, <1>10, <2>1, LogMarkKept
<1>15. ASSUME NEW i \in Places', SessionAt(i) = b, Inside(i) = {n}
       PROVE  /\ LogEnd(i) = LogMark(f) /\ CallEnd(i) = frame[f].mark
              /\ LogEnd(i)' = Len(log'[b]) /\ CallEnd(i)' = Len(callbacks'[b])
  <2>1. Smallest({n}) = n
    BY ONLY SmallestIs, n \in Nat
  <2>2. Following(i) = f
    BY <1>15, <2>1 DEF Following
  <2>3. LogEnd(i) = LogMark(f) /\ CallEnd(i) = frame[f].mark
    BY <1>15, <2>2 DEF LogEnd, CallEnd
  <2>4. Inside(i)' = {}
    BY <1>2, <1>15
  <2>5. LogEnd(i)' = Len(log'[b]) /\ CallEnd(i)' = Len(callbacks'[b])
    BY <1>2, <1>15, <2>4 DEF LogEnd, CallEnd
  <2> QED BY <2>3, <2>5
<1>16. ASSUME NEW i \in Places',
              \/ SessionAt(i) # b \/ Inside(i) # {n}
              \/ /\ Len(log'[b]) = LogMark(f) /\ Len(callbacks'[b]) = frame[f].mark
       PROVE  Scope(i)' = Scope(i)
  <2>0. i \in Places /\ Stays(i) /\ SessionAt(i)' = SessionAt(i) /\ SessionAt(i) \in Frames
    BY <1>1, <1>2
  <2>1. LogEnd(i)' = LogEnd(i) /\ CallEnd(i)' = CallEnd(i)
    <3>1. CASE Inside(i) = {}
      <4>1. Inside(i)' = {}
        BY <1>2, <3>1
      <4>2. SessionAt(i) # b
        <5>1. n \in {j \in Places : j > i /\ SessionAt(j) = SessionAt(i)} \/ SessionAt(i) # b
          BY <1>1, <1>2
        <5> QED BY <3>1, <5>1 DEF Inside
      <4> QED BY <2>0, <3>1, <4>1, <4>2 DEF LogEnd, CallEnd
    <3>2. CASE Inside(i) # {} /\ Inside(i) # {n}
      <4>1. PICK j \in Inside(i) : \A k \in Inside(i) : j <= k
        BY <2>0, <3>2, LogEnds
      <4>2. j \in Places /\ Inside(i) \subseteq Places
        BY DEF Inside
      <4>3. j # n
        <5>1. PICK k \in Inside(i) : k # n
          BY <3>2
        <5>2. k < n /\ j <= k /\ k \in Nat /\ j \in Nat
          BY <1>1, <4>1, <4>2, <5>1
        <5> QED BY ONLY <5>2
      <4>4. j \in Places' /\ j \in Inside(i)' /\ Stays(j)
        BY <1>2, <4>2, <4>3
      <4>5. Inside(i)' \subseteq Inside(i) \cup {Len(Entered) + 1}
        BY <1>2
      <4> QED BY <1>2, <1>14, <2>0, <4>1, <4>4, <4>5, EndsKept
    <3>3. CASE Inside(i) = {n}
      <4>1. SessionAt(i) = b
        <5>1. n \in Inside(i)
          BY <3>3
        <5> QED BY <5>1 DEF Inside
      <4> QED BY <1>15, <1>16, <3>3, <4>1
    <3> QED BY <3>1, <3>2, <3>3
  <2>2. /\ LogEnd(i) \in Nat /\ LogEnd(i) <= Len(log[SessionAt(i)])
        /\ CallEnd(i) \in Nat /\ CallEnd(i) <= Len(callbacks[SessionAt(i)])
    BY <2>0, LogEnds
  <2>3. SessionAt(i) = b => LogEnd(i) <= LogMark(f) /\ CallEnd(i) <= frame[f].mark
    <3> SUFFICES ASSUME SessionAt(i) = b
                 PROVE  LogEnd(i) <= LogMark(f) /\ CallEnd(i) <= frame[f].mark
      OBVIOUS
    <3>1. n \in Inside(i) /\ Inside(i) # {}
      BY <1>1, <1>2 DEF Inside
    <3>2. PICK j \in Inside(i) : j = Smallest(Inside(i))
      BY <2>0, <3>1, LogEnds
    <3>3. j \in Places /\ SessionAt(j) = b /\ j <= n
      BY <1>1 DEF Inside
    <3>4. LogEnd(i) = LogMark(Entered[j]) /\ CallEnd(i) = frame[Entered[j]].mark
      BY <3>1, <3>2 DEF LogEnd, CallEnd, Following
    <3>5. CASE j = n
      BY <1>4, <3>4, <3>5
    <3>6. CASE j < n
      <4>1. LogMark(Entered[j]) <= LogMark(f)
        BY <1>1, <3>3, <3>6, LogMarks
      <4>2. frame[Entered[j]].mark <= frame[f].mark
        BY <1>inv, <1>1, <3>3, <3>6 DEF CallMarksRise
      <4> QED BY <3>4, <4>1, <4>2
    <3> QED BY <1>1, <3>3, <3>5, <3>6
  <2>4. \A k \in 1 .. LogEnd(i) : log'[SessionAt(i)][k] = log[SessionAt(i)][k]
    <3>1. CASE SessionAt(i) # b
      BY <2>0, <3>1
    <3>2. CASE SessionAt(i) = b
      <4>1. \A k \in 1 .. LogEnd(i) : k \in 1 .. LogMark(f)
        BY ONLY <1>4, <2>2, <2>3, <3>2
      <4> QED BY <3>2, <4>1
    <3> QED BY <3>1, <3>2
  <2>5. \A k \in 1 .. CallEnd(i) : callbacks'[SessionAt(i)][k] = callbacks[SessionAt(i)][k]
    <3>1. CASE SessionAt(i) # b
      BY <2>0, <3>1
    <3>2. CASE SessionAt(i) = b
      <4>1. \A k \in 1 .. CallEnd(i) : k \in 1 .. frame[f].mark
        BY ONLY <1>4, <2>2, <2>3, <3>2
      <4> QED BY <3>2, <4>1
    <3> QED BY <3>1, <3>2
  <2> QED BY <1>2, <1>13, <1>14, <2>0, <2>1, <2>4, <2>5, ScopeKept
<1> QED BY <1>2, <1>12, <1>14, <1>15, <1>16 DEF KeepsOthers

(* The nested block the task is about to leave. *)
LEMMA NestedTop ==
  ASSUME SequentialAssumption, CommitInv, SequentialInv, LeavesNested(Task)
  PROVE  \E n \in Nat :
           /\ n = Len(Entered) /\ n # 0 /\ n \in Places /\ Top(Task) = Entered[n]
           /\ Entered[n] \in Frames /\ Entered[n] \in Used
           /\ SessionAt(n) \in Frames /\ SessionAt(n) \in Used
           /\ frame[Entered[n]].block = SessionAt(n)
           /\ SessionAt(n) # Entered[n] /\ open[SessionAt(n)] /\ IsOuter(SessionAt(n))
           /\ SavepointOf(Entered[n]) # {}
           /\ \E j \in 1 .. n - 1 : SessionAt(j) = SessionAt(n)
           /\ pc[Task] = "run" /\ Entered # <<>>
<1>inv. BlocksAreInside /\ BlocksHaveSavepoints
  BY DEF SequentialInv
<1>1. Entered # <<>> /\ ~IsOuter(Top(Task)) /\ pc[Task] = "run"
  BY DEF LeavesNested, Entered
<1>2. PICK n \in Nat : n = Len(Entered)
  BY <1>inv, EnteredBlocks
<1>3. /\ n \in Places /\ Places = 1 .. n /\ Top(Task) = Entered[n]
      /\ Entered[n] \in Frames /\ Entered[n] \in Used
      /\ SessionAt(n) \in Frames /\ SessionAt(n) \in Used /\ open[SessionAt(n)]
      /\ IsOuter(SessionAt(n))
  BY <1>inv, <1>1, <1>2, EnteredBlocks
<1>4. SessionAt(n) # Entered[n] /\ frame[Entered[n]].block = SessionAt(n) /\ n # 0
  BY <1>1, <1>3 DEF SessionAt, IsOuter
<1>5. SavepointOf(Entered[n]) # {}
  BY <1>inv, <1>1, <1>3 DEF BlocksHaveSavepoints, IsEntering
<1>6. \E j \in 1 .. n - 1 : SessionAt(j) = SessionAt(n)
  <2>1. PICK j \in 1 .. n : Entered[j] = SessionAt(n)
    BY <1>inv, <1>3 DEF BlocksAreInside
  <2>2. j # n /\ j \in 1 .. n - 1
    BY <1>4, <2>1
  <2>3. SessionAt(j) = SessionAt(n)
    BY <1>3, <2>1 DEF IsOuter, SessionAt
  <2> QED BY <2>2, <2>3
<1> QED BY <1>1, <1>2, <1>3, <1>4, <1>5, <1>6

(* The block around the innermost one on its session. *)
LEMMA AroundIs ==
  ASSUME SequentialAssumption, CommitInv, SequentialInv, NEW n \in Nat,
         n = Len(Entered), n # 0, \E j \in 1 .. n - 1 : SessionAt(j) = SessionAt(n)
  PROVE  \E l \in 1 .. n - 1 :
           /\ SessionAt(l) = SessionAt(n) /\ Inside(l) = {n}
           /\ Abstract!Innermost(Abstract!Around) = l /\ Abstract!Around # {}
           /\ \A i \in 1 .. n - 1 : Inside(i) = {n} => i = l
<1> DEFINE S == {i \in 1 .. n - 1 : SessionAt(i) = SessionAt(n)}
           l == Largest(S)
<1>1. Places = 1 .. n /\ Abstract!Around = S
  BY RestIs
<1>2. S \subseteq 1 .. n /\ S \subseteq Nat /\ S # {}
  OBVIOUS
<1>3. l \in S /\ \A j \in S : j <= l
  <2> HIDE DEF S
  <2> QED BY <1>2, LargestExists
<1> HIDE DEF l
<1>4. l \in 1 .. n - 1 /\ SessionAt(l) = SessionAt(n)
  BY <1>3
<1>5. Abstract!Innermost(S) = l
  <2> HIDE DEF S
  <2> QED BY <1>2, <1>3, InnermostIs
<1>6. Inside(l) = {n}
  <2>1. ASSUME NEW j \in Places, j > l, SessionAt(j) = SessionAt(l)
        PROVE  j = n
    <3>1. j \in 1 .. n - 1 => j \in S
      BY <1>4, <2>1
    <3>2. ~(j \in 1 .. n - 1)
      BY <1>3, <1>4, <2>1, <3>1
    <3> QED BY <1>1, <2>1, <3>2
  <2>2. n \in Places /\ n > l /\ SessionAt(n) = SessionAt(l)
    BY <1>1, <1>4
  <2> QED BY <2>1, <2>2 DEF Inside
<1>7. ASSUME NEW i \in 1 .. n - 1, Inside(i) = {n}
      PROVE  i = l
  <2>1. SessionAt(i) = SessionAt(n)
    <3>1. n \in Inside(i)
      BY <1>7
    <3> QED BY <3>1 DEF Inside
  <2>2. i <= l
    BY <1>3, <2>1
  <2>3. l \notin Inside(i)
    BY <1>4, <1>7
  <2>4. ~(l > i)
    BY <1>1, <1>4, <2>1, <2>3 DEF Inside
  <2> QED BY <1>4, <2>2, <2>4
<1>8. Abstract!Innermost(Abstract!Around) = l /\ Abstract!Around # {}
  BY <1>1, <1>2, <1>5
<1> QED BY <1>4, <1>6, <1>7, <1>8

(* A nested block that fails takes its own writes and callbacks with it,   *)
(* and no others: Abstract!Fail.                                           *)
LEMMA RollbackSavepointImplements ==
  ASSUME SequentialAssumption, CommitInv, CommitInv', SequentialInv, RollbackSavepoint(Task)
  PROVE  Implements
<1>inv. /\ TypeOK /\ BlocksAreInside /\ SavepointsFit /\ CallMarksRise
  BY DEF CommitInv, DurabilityInv, SequentialInv
<1>1. PICK n \in Nat :
        /\ n = Len(Entered) /\ n # 0 /\ n \in Places /\ Top(Task) = Entered[n]
        /\ SessionAt(n) \in Frames /\ frame[Entered[n]].block = SessionAt(n)
        /\ pc[Task] = "run" /\ Entered # <<>>
  BY NestedTop DEF RollbackSavepoint
<1>2. PICK b \in Frames : b = SessionAt(n)
  BY <1>1
<1>3. PICK p \in SavepointOf(Entered[n]) : RollbackTo(b, p)
  BY <1>1, <1>2 DEF RollbackSavepoint
<1>4. /\ Discard(b, frame[Entered[n]].mark) /\ Become(Entered[n], "rolledback") /\ Pop(Task)
      /\ UNCHANGED <<counters, pc, inherited, target, open, begun, durable, ran>>
  BY <1>1, <1>2 DEF RollbackSavepoint
<1> DEFINE m == LogMark(Entered[n])
           c == frame[Entered[n]].mark
<1>5. sps[b][p].mark = m /\ m \in Nat /\ m <= Len(log[b])
  BY <1>inv, <1>1, <1>2, BlockSavepoints, LogMarks DEF SavepointOf
<1>6. c \in Nat /\ c <= Len(callbacks[b])
  BY <1>inv, <1>1, <1>2, LogEnds DEF CallMarksRise
<1>7. /\ log' = [log EXCEPT ![b] = Cut(@, m)] /\ sps' = [sps EXCEPT ![b] = Cut(@, p - 1)]
      /\ callbacks' = [callbacks EXCEPT ![b] = Cut(@, c)]
  BY <1>3, <1>4, <1>5 DEF RollbackTo, Discard
<1>8. /\ Len(log'[b]) = m /\ \A k \in 1 .. m : log'[b][k] = log[b][k]
      /\ Len(callbacks'[b]) = c /\ \A k \in 1 .. c : callbacks'[b][k] = callbacks[b][k]
      /\ \A g \in Frames : g # b => log'[g] = log[g] /\ callbacks'[g] = callbacks[g]
  <2>1. log'[b] = Cut(log[b], m) /\ callbacks'[b] = Cut(callbacks[b], c)
    BY <1>inv, <1>7 DEF TypeOK
  <2>2. log[b] \in Seq(Write) /\ callbacks[b] \in Seq(Callback)
    BY <1>inv DEF TypeOK
  <2>3. \A g \in Frames : g # b => log'[g] = log[g] /\ callbacks'[g] = callbacks[g]
    BY <1>inv, <1>7 DEF TypeOK
  <2> HIDE DEF m, c
  <2>4. Len(Cut(log[b], m)) = m /\ \A k \in 1 .. m : Cut(log[b], m)[k] = log[b][k]
    BY <1>5, <2>2, CutIs
  <2>5. Len(Cut(callbacks[b], c)) = c /\ \A k \in 1 .. c : Cut(callbacks[b], c)[k] = callbacks[b][k]
    BY <1>6, <2>2, CutIs
  <2> QED BY <2>1, <2>3, <2>4, <2>5
<1>9. m <= Len(log'[b]) /\ c <= Len(callbacks'[b])
  BY <1>5, <1>6, <1>8
<1>10. nframes' = nframes /\ inherited' = inherited /\ pc' = pc
  BY <1>4 DEF counters
<1>11. /\ SequentialInv' /\ Places' = 1 .. n - 1
       /\ \A i \in Places' : Scope(i)' = Scope(i)
  <2>1. /\ SequentialInv' /\ Places' = 1 .. n - 1
        /\ \A i \in Places' :
             \/ SessionAt(i) # b \/ Inside(i) # {n}
             \/ Len(log'[b]) = m /\ Len(callbacks'[b]) = c
             => Scope(i)' = Scope(i)
    <3>1. LeavesTop(n, b, p, "rolledback")
      BY <1>1, <1>2, <1>4, <1>7, <1>8, <1>9, <1>10 DEF LeavesTop
    <3>2. KeepsOthers(n, b)
      BY <3>1, NestedPop
    <3> QED BY ONLY <3>2 DEF KeepsOthers
  <2> HIDE DEF m, c
  <2> QED BY ONLY <1>8, <2>1
<1>12. Scopes' = Abstract!Rest
  BY <1>1, <1>11, RestIs DEF Scopes
<1>13. Due = <<>> /\ Due' = <<>>
  BY <1>1, <1>10 DEF Due
<1>14. Abstract!Fail
  <2>1. DurableIds' = DurableIds /\ Ids(ran)' = Ids(ran) /\ Scopes # <<>>
    BY <1>1, <1>4, RestIs DEF DurableIds
  <2> QED BY <1>12, <1>13, <2>1 DEF Abstract!Fail, Scopes, DurableIds, IdSet
<1> QED BY <1>11, <1>14 DEF Implements, Abstract!Next

(* A nested block that succeeds hands its writes and callbacks to the      *)
(* block around it: Abstract!Succeed.                                      *)
LEMMA ReleaseSavepointImplements ==
  ASSUME SequentialAssumption, CommitInv, CommitInv', SequentialInv, ReleaseSavepoint(Task)
  PROVE  Implements
<1>inv. /\ TypeOK /\ BlocksAreInside /\ SavepointsFit /\ CallMarksRise /\ SavepointsAreInside
  BY DEF CommitInv, DurabilityInv, SequentialInv
<1>1. PICK n \in Nat :
        /\ n = Len(Entered) /\ n # 0 /\ n \in Places /\ Top(Task) = Entered[n]
        /\ SessionAt(n) \in Frames /\ SessionAt(n) \in Used
        /\ open[SessionAt(n)] /\ IsOuter(SessionAt(n))
        /\ frame[Entered[n]].block = SessionAt(n)
        /\ \E j \in 1 .. n - 1 : SessionAt(j) = SessionAt(n)
        /\ pc[Task] = "run" /\ Entered # <<>>
  BY NestedTop DEF ReleaseSavepoint
<1>2. PICK b \in Frames : b = SessionAt(n)
  BY <1>1
<1>3. PICK p \in SavepointOf(Entered[n]) :
        /\ sps' = [sps EXCEPT ![b] = Cut(@, p - 1)]
        /\ ~sps[b][p].outside => UNCHANGED <<durable, log, begun>>
  BY <1>1, <1>2 DEF ReleaseSavepoint
<1>4. /\ Become(Entered[n], "released") /\ Pop(Task)
      /\ UNCHANGED <<counters, pc, inherited, target, open, callbacks, ran>>
  BY <1>1, <1>2 DEF ReleaseSavepoint
<1>5. durable' = durable /\ log' = log
  <2>1. p \in DOMAIN sps[b]
    BY <1>1, <1>2 DEF SavepointOf
  <2>2. ~sps[b][p].outside
    BY <1>inv, <1>1, <1>2, <2>1 DEF SavepointsAreInside
  <2> QED BY <1>3, <2>2
<1> DEFINE m == LogMark(Entered[n])
           c == frame[Entered[n]].mark
<1>6. /\ m \in Nat /\ m <= Len(log[b]) /\ c \in Nat /\ c <= Len(callbacks[b])
      /\ Len(log[b]) \in Nat /\ Len(callbacks[b]) \in Nat
  BY <1>inv, <1>1, <1>2, LogMarks, LogEnds, LenProperties DEF CallMarksRise, TypeOK
<1>7. LeavesTop(n, b, p, "released")
  BY <1>1, <1>2, <1>3, <1>4, <1>5, <1>6 DEF LeavesTop, counters
<1>8. KeepsOthers(n, b)
  BY <1>7, NestedPop
<1>9. PICK l \in 1 .. n - 1 :
        /\ SessionAt(l) = b /\ Inside(l) = {n}
        /\ Abstract!Innermost(Abstract!Around) = l /\ Abstract!Around # {}
        /\ \A i \in 1 .. n - 1 : Inside(i) = {n} => i = l
  BY <1>1, <1>2, AroundIs
<1>10. /\ SequentialInv' /\ Places' = 1 .. n - 1 /\ l \in Places /\ Stays(l)
       /\ SessionAt(l)' = b /\ LogMark(Entered[l])' = LogMark(Entered[l])
       /\ \A i \in 1 .. n - 1 : i # l => Scope(i)' = Scope(i)
       /\ LogEnd(l) = m /\ CallEnd(l) = c
       /\ LogEnd(l)' = Len(log[b]) /\ CallEnd(l)' = Len(callbacks[b])
  <2>1. KeepsOthers(n, b)!:
    BY <1>8 DEF KeepsOthers
  <2>2. \A i \in 1 .. n - 1 : i # l => Scope(i)' = Scope(i)
    BY <1>9, <2>1
  <2>3. /\ l \in Places /\ Stays(l) /\ SessionAt(l)' = b
        /\ LogMark(Entered[l])' = LogMark(Entered[l])
        /\ LogEnd(l) = m /\ CallEnd(l) = c
        /\ LogEnd(l)' = Len(log'[b]) /\ CallEnd(l)' = Len(callbacks'[b])
    BY <1>9, <2>1
  <2> QED BY <1>4, <1>5, <2>1, <2>2, <2>3
<1>11. LogEnd(n) = Len(log[b]) /\ CallEnd(n) = Len(callbacks[b])
  <2>1. Inside(n) = {}
    BY <1>1, RestIs DEF Inside
  <2> QED BY <1>2, <2>1 DEF LogEnd, CallEnd
<1>12. Picture /\ Picture'
  <2>1. SequentialAssumption' /\ CommitInv' /\ SequentialInv' => Picture'
    BY PictureHolds, PTL
  <2> QED BY <1>10, <2>1, PictureHolds DEF SequentialAssumption
<1> DEFINE ml == LogMark(Entered[l])
           cl == frame[Entered[l]].mark
           al == frame[Entered[l]].alias
<1>13. /\ Scope(l) = [alias |-> al, writes |-> IdsIn(log[b], ml, m),
                      calls |-> IdsFrom(callbacks[b], cl, c)]
       /\ ml \in Nat /\ ml <= m /\ cl \in Nat /\ cl <= c
  BY <1>9, <1>10, <1>12 DEF Picture
<1>14. /\ Scope(n).writes = IdsIn(log[b], m, Len(log[b]))
       /\ Scope(n).calls = IdsFrom(callbacks[b], c, Len(callbacks[b]))
  <2>1. /\ Scope(n) = [alias |-> frame[Entered[n]].alias,
                        writes |-> IdsIn(log[b], m, LogEnd(n)),
                        calls |-> IdsFrom(callbacks[b], c, CallEnd(n))]
    BY <1>1, <1>2, <1>12 DEF Picture
  <2> QED BY ONLY <1>11, <2>1
<1>15. Scope(l)' = [alias |-> al, writes |-> IdsIn(log[b], ml, Len(log[b])),
                    calls |-> IdsFrom(callbacks[b], cl, Len(callbacks[b]))]
  <2>1. Picture!2!(l)'
    BY <1>10, <1>12 DEF Picture
  <2>2. /\ Entered'[l] = Entered[l] /\ frame'[Entered[l]].alias = al
        /\ frame'[Entered[l]].mark = cl
    <3>1. Entered[l] \in Used
      BY <1>inv, <1>10, EnteredBlocks
    <3>2. BlocksStay
      BY <1>1, <1>4, PopKeeps DEF counters
    <3> QED BY <1>10, <3>1, <3>2 DEF Stays, BlocksStay
  <2> QED BY <1>4, <1>5, <1>10, <2>1, <2>2
<1>16. /\ IdsIn(log[b], ml, Len(log[b])) = IdsIn(log[b], ml, m) \cup Scope(n).writes
       /\ IdsFrom(callbacks[b], cl, Len(callbacks[b])) =
            IdsFrom(callbacks[b], cl, c) \o Scope(n).calls
  <2> DEFINE x == Len(log[b])
             y == Len(callbacks[b])
  <2>1. m \in Nat /\ m <= x /\ x \in Nat /\ ml \in Nat /\ ml <= m
    BY <1>6, <1>13
  <2>2. c \in Nat /\ c <= y /\ y \in Nat /\ cl \in Nat /\ cl <= c
    BY <1>6, <1>13
  <2>3. Scope(n).writes = IdsIn(log[b], m, x) /\ Scope(n).calls = IdsFrom(callbacks[b], c, y)
    BY <1>14
  <2> HIDE DEF m, c, ml, cl, x, y
  <2>4. IdsIn(log[b], ml, x) = IdsIn(log[b], ml, m) \cup IdsIn(log[b], m, x)
    <3>1. ml + 1 .. x = (ml + 1 .. m) \cup (m + 1 .. x)
      BY ONLY <2>1
    <3> QED BY ONLY <3>1 DEF IdsIn
  <2>5. IdsFrom(callbacks[b], cl, y) = IdsFrom(callbacks[b], cl, c) \o IdsFrom(callbacks[b], c, y)
    BY ONLY <2>2, IdsMeet
  <2>6. IdsIn(log[b], ml, x) = IdsIn(log[b], ml, m) \cup Scope(n).writes
    BY ONLY <2>3, <2>4
  <2>7. IdsFrom(callbacks[b], cl, y) = IdsFrom(callbacks[b], cl, c) \o Scope(n).calls
    BY ONLY <2>3, <2>5
  <2> QED BY ONLY <2>6, <2>7 DEF x, y
<1>17. Scope(l)' = Abstract!With(Scope(l), Scope(n))
  <2> DEFINE s == Scope(l)
             ws == IdsIn(log[b], ml, m)
             cs == IdsFrom(callbacks[b], cl, c)
             w == Scope(n).writes
             q == Scope(n).calls
  <2>1. Scope(l)' = [alias |-> al, writes |-> ws \cup w, calls |-> cs \o q]
    BY <1>15, <1>16
  <2>2. s = [alias |-> al, writes |-> ws, calls |-> cs]
    BY <1>13
  <2> HIDE DEF s, ws, cs, w, q, al
  <2>3. s.alias = al /\ s.writes = ws /\ s.calls = cs
    BY ONLY <2>2
  <2>4. Scope(l)' = [alias |-> s.alias, writes |-> s.writes \cup w, calls |-> s.calls \o q]
    BY ONLY <2>1, <2>3
  <2> QED BY ONLY <2>4 DEF Abstract!With, s, w, q
<1>18. Scopes' = [Abstract!Rest EXCEPT ![Abstract!Innermost(Abstract!Around)] =
                    Abstract!With(@, Abstract!Last)]
  <2>1. Abstract!Rest = [i \in 1 .. n - 1 |-> Scope(i)] /\ Abstract!Last = Scope(n)
    BY <1>1, RestIs
  <2>2. Scopes' = [i \in 1 .. n - 1 |-> Scope(i)']
    BY <1>10 DEF Scopes
  <2>3. Scopes' = [Abstract!Rest EXCEPT ![l] = Abstract!With(@, Abstract!Last)]
    BY <1>10, <1>17, <2>1, <2>2
  <2> QED BY <1>9, <2>3
<1>19. Due = <<>> /\ Due' = <<>>
  BY <1>1, <1>4 DEF Due
<1>20. Abstract!Succeed
  <2>1. DurableIds' = DurableIds /\ Ids(ran)' = Ids(ran) /\ Scopes # <<>>
    BY <1>1, <1>4, <1>5, RestIs DEF DurableIds
  <2> QED BY <1>9, <1>18, <1>19, <2>1 DEF Abstract!Succeed, Scopes, DurableIds, IdSet
<1> QED BY <1>10, <1>20 DEF Implements, Abstract!Next

(* The task leaves an outer block, whose transaction ends. *)
EndsTop(n, f, st) ==
  /\ n = Len(Entered) /\ n # 0 /\ f = Entered[n] /\ IsOuter(f)
  /\ Become(f, st) /\ Pop(Task)
  /\ log' = [log EXCEPT ![f] = <<>>] /\ sps' = [sps EXCEPT ![f] = <<>>]
  /\ UNCHANGED <<nframes, inherited, callbacks, ran>>
  /\ pc[Task] \in {"run", "committing", "undoing"} /\ pc'[Task] = "closing"
  /\ target'[Task].block = f

(* An outermost block that is left has written all of the log of its       *)
(* session and registered all of its callbacks, and the others stay.       *)
LEMMA OuterPop ==
  ASSUME SequentialAssumption, CommitInv, CommitInv', SequentialInv, NEW n \in Nat,
         NEW f \in Frames, NEW st, EndsTop(n, f, st)
  PROVE  /\ SequentialInv' /\ Scopes' = Abstract!Rest /\ Abstract!Around = {}
         /\ Scopes # <<>> /\ Abstract!Last.writes = IdSet(Elements(log[f]))
         /\ Abstract!Last.calls = Ids(callbacks[f])
         /\ Due = <<>> /\ frame'[f].status = st
<1>0. EndsTop(n, f, st)!:
  BY DEF EndsTop
<1>inv. /\ TypeOK /\ BlocksAreInside /\ CallMarksRise /\ SavepointsFit /\ BlocksHaveSavepoints
        /\ RunsAlone
  BY DEF CommitInv, DurabilityInv, SequentialInv
<1>1. /\ Places = 1 .. n /\ n \in Places /\ Frames \subseteq Nat /\ Used \subseteq Frames
      /\ SessionAt(n) = f
      /\ \A i \in Places : /\ Entered[i] \in Frames /\ Entered[i] \in Used
                           /\ SessionAt(i) \in Frames /\ SessionAt(i) <= Entered[i]
  <2>1. SessionAt(n) = f
    BY <1>0 DEF SessionAt, IsOuter
  <2> QED BY <1>inv, <1>0, <2>1, EnteredBlocks
<1>2. /\ BlocksStay /\ NoneEntered /\ Places' = 1 .. n - 1 /\ Len(Entered') = n - 1
      /\ \A i \in Places : i = n \/ i \in Places'
      /\ \A i \in Places' : /\ i \in Places /\ i < n /\ Stays(i)
                            /\ SessionAt(i)' = SessionAt(i)
                            /\ IsOuter(Entered[i])' = IsOuter(Entered[i])
                            /\ Inside(i)' = Inside(i) \ {n}
                            /\ Entered[i] < f
      /\ BlocksAreInside'
  <2>1. n = Len(Entered) /\ n # 0 /\ Become(Entered[n], st) /\ Pop(Task) /\ nframes' = nframes
    BY <1>0
  <2>2. /\ BlocksStay /\ NoneEntered /\ Places' = 1 .. n - 1 /\ Len(Entered') = n - 1
        /\ \A i \in Places : i = n \/ i \in Places'
        /\ \A i \in Places' : /\ i \in Places /\ i < n /\ Stays(i)
                              /\ SessionAt(i)' = SessionAt(i)
                              /\ IsOuter(Entered[i])' = IsOuter(Entered[i])
                              /\ Inside(i)' = Inside(i) \ {n}
                              /\ Entered[i] < Entered[n]
        /\ BlocksAreInside'
    BY <2>1, PopKeeps
  <2> QED BY <1>0, <2>2
<1>3. ASSUME NEW i \in Places'
      PROVE  SessionAt(i) # f /\ SessionAt(i) \in Frames
  <2>1. Entered[i] < f /\ SessionAt(i) <= Entered[i] /\ i \in Places
    BY <1>1, <1>2
  <2>2. Entered[i] \in Nat /\ SessionAt(i) \in Nat /\ f \in Nat /\ SessionAt(i) \in Frames
    BY <1>1, <2>1
  <2> QED BY ONLY <2>1, <2>2
<1>4. /\ \A g \in Frames : g # f => log'[g] = log[g] /\ sps'[g] = sps[g]
      /\ sps'[f] = <<>> /\ callbacks' = callbacks
  BY <1>inv, <1>0 DEF TypeOK
<1>5. RunsAlone' /\ ~IsEntering /\ ~IsEntering'
  BY <1>inv, <1>0 DEF RunsAlone, IsEntering
<1>6. CallMarksRise'
  BY <1>inv, <1>0, <1>2, CallMarksPreserved DEF CallMarksRise
<1>7. SavepointsFit'
  <2> SUFFICES ASSUME NEW g \in Frames PROVE SavepointsFit!(g)'
    BY DEF SavepointsFit
  <2>1. CASE g = f
    BY <1>4, <2>1
  <2>2. CASE g # f
    <3>1. ASSUME NEW k \in DOMAIN sps[g]
          PROVE  \E i \in Places' : /\ Entered'[i] = sps[g][k].frame
                                    /\ ~IsOuter(Entered[i])' /\ SessionAt(i)' = g
      <4>1. PICK i \in Places : /\ Entered[i] = sps[g][k].frame
                                /\ ~IsOuter(Entered[i]) /\ SessionAt(i) = g
        BY <1>inv DEF SavepointsFit
      <4>2. i \in Places'
        BY <1>1, <1>2, <2>2, <4>1
      <4> QED BY <1>2, <4>1, <4>2 DEF Stays
    <3>2. sps'[g] = sps[g] /\ log'[g] = log[g]
      BY <1>4, <2>2
    <3>3. /\ \A k \in DOMAIN sps[g] : sps[g][k].mark <= Len(log[g])
          /\ \A k, l \in DOMAIN sps[g] :
               k < l => /\ sps[g][k].frame < sps[g][l].frame
                        /\ sps[g][k].mark <= sps[g][l].mark
      BY <1>inv DEF SavepointsFit
    <3>4. DOMAIN sps'[g] = DOMAIN sps[g]
      BY ONLY <3>2
    <3> QED BY ONLY <3>1, <3>2, <3>3, <3>4
  <2> QED BY <2>1, <2>2
<1>8. \A i \in Places' : SavepointOf(Entered[i])' = SavepointOf(Entered[i])
  <2> SUFFICES ASSUME NEW i \in Places'
               PROVE  SavepointOf(Entered[i])' = SavepointOf(Entered[i])
    OBVIOUS
  <2>1. /\ Entered'[i] = Entered[i] /\ frame'[Entered[i]].block = SessionAt(i)
        /\ frame[Entered[i]].block = SessionAt(i) /\ sps'[SessionAt(i)] = sps[SessionAt(i)]
    BY <1>2, <1>3, <1>4 DEF SessionAt, Stays
  <2> QED BY <2>1 DEF SavepointOf
<1>9. BlocksHaveSavepoints'
  <2> SUFFICES ASSUME NEW i \in Places', ~IsOuter(Entered[i])'
               PROVE  (SavepointOf(Entered[i]) = {})' <=> i = Len(Entered') /\ IsEntering'
    BY DEF BlocksHaveSavepoints
  <2>1. SavepointOf(Entered[i]) # {}
    BY <1>inv, <1>2, <1>5 DEF BlocksHaveSavepoints
  <2> QED BY <1>5, <1>8, <2>1
<1>10. SequentialInv'
  BY <1>2, <1>5, <1>6, <1>7, <1>9 DEF SequentialInv
<1>11. Picture /\ Picture'
  <2>1. SequentialAssumption' /\ CommitInv' /\ SequentialInv' => Picture'
    BY PictureHolds, PTL
  <2> QED BY <1>10, <2>1, PictureHolds DEF SequentialAssumption
<1>12. \A i \in Places' : LogMark(Entered[i])' = LogMark(Entered[i])
  <2> SUFFICES ASSUME NEW i \in Places' PROVE LogMark(Entered[i])' = LogMark(Entered[i])
    OBVIOUS
  <2>1. i \in Places /\ Stays(i) /\ sps'[SessionAt(i)] = sps[SessionAt(i)]
        /\ log'[SessionAt(i)] = log[SessionAt(i)]
    BY <1>2, <1>3, <1>4
  <2> QED BY <1>2, <1>8, <2>1, LogMarkKept
<1>13. ASSUME NEW i \in Places' PROVE Scope(i)' = Scope(i)
  <2>1. /\ i \in Places /\ Stays(i) /\ SessionAt(i)' = SessionAt(i)
        /\ log'[SessionAt(i)] = log[SessionAt(i)]
    BY <1>2, <1>3, <1>4
  <2>2. n \notin Inside(i) /\ Inside(i) \subseteq Places
    BY <1>1, <1>3 DEF Inside
  <2>3. Inside(i)' = Inside(i)
    BY <1>2, <2>2
  <2>4. LogEnd(i)' = LogEnd(i) /\ CallEnd(i)' = CallEnd(i)
    <3>1. CASE Inside(i) = {}
      BY <1>4, <2>1, <2>3, <3>1 DEF LogEnd, CallEnd
    <3>2. CASE Inside(i) # {}
      <4>1. PICK j \in Inside(i) : \A k \in Inside(i) : j <= k
        BY <2>1, <3>2, LogEnds
      <4>2. j \in Places' /\ j \in Inside(i)' /\ Stays(j)
        BY <1>2, <2>2, <2>3
      <4>3. Inside(i)' \subseteq Inside(i) \cup {Len(Entered) + 1}
        BY <2>3
      <4> QED BY <1>2, <1>12, <2>1, <4>1, <4>2, <4>3, EndsKept
    <3> QED BY <3>1, <3>2
  <2> QED BY <1>2, <1>4, <1>11, <1>12, <2>1, <2>4, ScopeKept
<1>14. Scopes' = Abstract!Rest /\ Scopes # <<>> /\ Abstract!Last = Scope(n)
  BY <1>0, <1>2, <1>13, RestIs DEF Scopes
<1>15. Abstract!Around = {}
  <2>1. Abstract!Around = {i \in 1 .. n - 1 : SessionAt(i) = SessionAt(n)}
    BY <1>0, RestIs
  <2>2. \A i \in 1 .. n - 1 : SessionAt(i) # f
    BY <1>2, <1>3
  <2> QED BY <1>1, <2>1, <2>2
<1>16. /\ LogMark(Entered[n]) = 0 /\ frame[Entered[n]].mark = 0
       /\ LogEnd(n) = Len(log[f]) /\ CallEnd(n) = Len(callbacks[f])
  <2>1. Inside(n) = {}
    BY <1>1 DEF Inside
  <2> QED BY <1>inv, <1>0, <1>1, <2>1 DEF LogMark, LogEnd, CallEnd, CallMarksRise
<1>17. /\ log[f] \in Seq(Write) /\ callbacks[f] \in Seq(Callback)
       /\ DOMAIN log[f] = 1 .. Len(log[f]) /\ DOMAIN callbacks[f] = 1 .. Len(callbacks[f])
       /\ Len(callbacks[f]) \in Nat
  BY <1>inv, LenProperties DEF TypeOK
<1>18. /\ Scope(n).writes = IdsIn(log[f], 0, Len(log[f]))
       /\ Scope(n).calls = IdsFrom(callbacks[f], 0, Len(callbacks[f]))
  BY <1>1, <1>11, <1>16 DEF Picture
<1>19. IdsIn(log[f], 0, Len(log[f])) = IdSet(Elements(log[f]))
  <2>1. IdsIn(log[f], 0, Len(log[f])) = {log[f][k].id : k \in DOMAIN log[f]}
    BY <1>17 DEF IdsIn
  <2> QED BY <2>1 DEF IdSet, Elements
<1>20. IdsFrom(callbacks[f], 0, Len(callbacks[f])) = Ids(callbacks[f])
  <2>1. 1 .. Len(callbacks[f]) - 0 = DOMAIN callbacks[f]
        /\ \A k \in DOMAIN callbacks[f] : 0 + k = k
    BY <1>17
  <2> QED BY <2>1 DEF IdsFrom, Ids
<1>21. Due = <<>>
  BY <1>0 DEF Due
<1>22. frame'[f].status = st
  BY <1>inv, <1>0 DEF Become, TypeOK, Frame
<1> QED BY <1>10, <1>14, <1>15, <1>18, <1>19, <1>20, <1>21, <1>22

(* The commit of an outermost block makes its writes durable and its       *)
(* callbacks due at once: Abstract!Succeed.                                *)
LEMMA CommitDoneImplements ==
  ASSUME SequentialAssumption, CommitInv, CommitInv', SequentialInv, CommitDone(Task)
  PROVE  Implements
<1>inv. TypeOK /\ TasksAreSomewhere /\ Task \in Tasks /\ BlocksAreInside
  BY DEF CommitInv, DurabilityInv, SequentialInv, SequentialAssumption
<1>1. pc[Task] = "committing" /\ Entered # <<>> /\ IsOuter(Top(Task))
  BY <1>inv DEF TasksAreSomewhere, CommitDone, Entered
<1>2. PICK n \in Nat : n = Len(Entered) /\ n # 0 /\ n \in Places /\ Top(Task) = Entered[n]
  BY <1>inv, <1>1, EnteredBlocks
<1>3. PICK f \in Frames : f = Entered[n]
  BY <1>inv, <1>2, EnteredBlocks
<1>4. /\ EndsTop(n, f, "committed") /\ durable' = durable \cup Elements(log[f])
      /\ target'[Task].block = f /\ pc'[Task] = "closing" /\ UNCHANGED <<callbacks, ran>>
  BY <1>inv, <1>1, <1>2, <1>3
     DEF EndsTop, CommitDone, EndTransaction, LeaveOuter, Commit, Goto, TypeOK, counters, NoTarget
<1>5. /\ SequentialInv' /\ Scopes' = Abstract!Rest /\ Abstract!Around = {}
      /\ Scopes # <<>> /\ Abstract!Last.writes = IdSet(Elements(log[f]))
      /\ Abstract!Last.calls = Ids(callbacks[f])
      /\ Due = <<>> /\ frame'[f].status = "committed"
  BY <1>4, OuterPop
<1>6. Due' = Abstract!Last.calls
  BY <1>4, <1>5 DEF Due
<1>7. DurableIds' = DurableIds \cup Abstract!Last.writes
  BY <1>4, <1>5, IdSetUnion DEF DurableIds
<1>8. Abstract!Succeed
  <2>1. Ids(ran)' = Ids(ran)
    BY <1>4
  <2> QED BY <1>5, <1>6, <1>7, <2>1 DEF Abstract!Succeed, Scopes, DurableIds, IdSet
<1> QED BY <1>5, <1>8 DEF Implements, Abstract!Next

(* An outermost block that is rolled back leaves nothing: Abstract!Fail.   *)
LEMMA UndoImplements ==
  ASSUME SequentialAssumption, CommitInv, CommitInv', SequentialInv,
         Rollback(Task) \/ RollbackCommit(Task)
  PROVE  Implements
<1>inv. TypeOK /\ TasksAreSomewhere /\ Task \in Tasks /\ BlocksAreInside
  BY DEF CommitInv, DurabilityInv, SequentialInv, SequentialAssumption
<1>1. /\ pc[Task] \in {"run", "undoing"} /\ Entered # <<>> /\ IsOuter(Top(Task))
      /\ Undo(Task, Top(Task))
  BY <1>inv DEF TasksAreSomewhere, Rollback, RollbackCommit, LeavesOuter, Entered
<1>2. PICK n \in Nat : n = Len(Entered) /\ n # 0 /\ n \in Places /\ Top(Task) = Entered[n]
  BY <1>inv, <1>1, EnteredBlocks
<1>3. PICK f \in Frames : f = Entered[n]
  BY <1>inv, <1>2, EnteredBlocks
<1>4. /\ EndsTop(n, f, "rolledback") /\ durable' = durable
      /\ target'[Task].block = f /\ pc'[Task] = "closing" /\ UNCHANGED <<callbacks, ran>>
  BY <1>inv, <1>1, <1>2, <1>3
     DEF EndsTop, Undo, EndTransaction, LeaveOuter, Goto, TypeOK, counters, NoTarget
<1>5. /\ SequentialInv' /\ Scopes' = Abstract!Rest /\ Scopes # <<>>
      /\ Due = <<>> /\ frame'[f].status = "rolledback"
  BY <1>4, OuterPop
<1>6. Due' = <<>>
  BY <1>4, <1>5 DEF Due
<1>7. Abstract!Fail
  <2>1. Ids(ran)' = Ids(ran) /\ DurableIds' = DurableIds
    BY <1>4 DEF DurableIds
  <2> QED BY <1>5, <1>6, <2>1 DEF Abstract!Fail, Scopes, DurableIds, IdSet
<1> QED BY <1>5, <1>7 DEF Implements, Abstract!Next

-----------------------------------------------------------------------------
(* The whole specification. *)

(* One task waits for nobody, and without cancellation nobody cancels it.  *)
LEMMA NeverAlone ==
  ASSUME SequentialAssumption, CommitInv, SequentialInv
  PROVE  /\ \A a \in Aliases : ~WriteWaits(Task, a)
         /\ ~WriteResumes(Task) /\ ~SavepointGone(Task) /\ ~BeginRefused(Task)
         /\ ~NestedCancelled(Task) /\ ~OuterCancelled(Task) /\ ~CommitCancelled(Task)
         /\ \A u \in Tasks : ~Spawn(Task, u)
<1>inv. /\ RunsAlone /\ BlocksAreInside /\ Task \in Tasks /\ Tasks = {Task} /\ TasksAreSomewhere
        /\ MayCancel = FALSE
  BY DEF SequentialInv, SequentialAssumption, CommitInv, DurabilityInv
<1>1. ASSUME NEW a \in Aliases, WriteWaits(Task, a) PROVE FALSE
  BY <1>inv, <1>1 DEF WriteWaits, Idle
<1>2. ASSUME WriteResumes(Task) PROVE FALSE
  BY <1>inv, <1>2 DEF WriteResumes, RunsAlone
<1>3. ASSUME SavepointGone(Task) PROVE FALSE
  <2>1. LeavesNested(Task) /\ SavepointOf(Top(Task)) = {}
    BY <1>3 DEF SavepointGone
  <2> QED BY <2>1, NestedTop
<1>4. ASSUME BeginRefused(Task) PROVE FALSE
  <2>1. pc[Task] = "beginning" /\ Entered # <<>>
    BY <1>inv, <1>4 DEF BeginRefused, TasksAreSomewhere, Entered
  <2>2. /\ Len(Entered) \in Places /\ Top(Task) = Entered[Len(Entered)]
        /\ open[SessionAt(Len(Entered))]
    BY <1>inv, <2>1, EnteredBlocks
  <2>3. ~begun[SessionAt(Len(Entered))]
    BY <1>inv, <2>1 DEF RunsAlone
  <2> QED BY <1>4, <2>2, <2>3 DEF BeginRefused, SessionAt
<1>5. ~NestedCancelled(Task) /\ ~OuterCancelled(Task) /\ ~CommitCancelled(Task)
  BY <1>inv DEF NestedCancelled, OuterCancelled, CommitCancelled
<1>6. ASSUME NEW u \in Tasks, Spawn(Task, u) PROVE FALSE
  <2>1. u = Task
    BY <1>inv
  <2> QED BY <1>6, <2>1 DEF Spawn
<1> QED BY <1>1, <1>2, <1>3, <1>4, <1>5, <1>6

(* Every step of the program is a step of Transactions or changes nothing  *)
(* it sees.                                                                *)
LEMMA StepImplements ==
  ASSUME SequentialAssumption, CommitInv, CommitInv', SequentialInv, [Next]_vars
  PROVE  Implements
<1>1. CASE UNCHANGED vars
  <2>1. UNCHANGED vars
    BY <1>1
  <2>2. pc[Task] # "writing" /\ (pc[Task] = "beginning" => ~begun[SessionAt(Len(Entered))])
    BY DEF SequentialInv, RunsAlone
  <2>3. SequentialInv' /\ Scopes' = Scopes /\ Ids(ran)' = Ids(ran)
    BY <2>1, <2>2, OnlyControlMoves DEF vars, IsEntering
  <2>4. Due' = Due
    BY <2>1 DEF Due, vars
  <2> QED BY <2>1, <2>3, <2>4, Stutters DEF Implements, AbstractStutters, DurableIds, vars
<1>2. ASSUME NEW a \in Aliases, WriteAutocommits(Task, a) PROVE Implements
  <2>1. Own(a) = {}
    BY <1>2, OpenBlockIs DEF WriteAutocommits
  <2>2. \A i \in Places : frame[Entered[i]].alias # a
    BY <2>1 DEF Own
  <2> QED BY <1>2, <2>2, AutocommitImplements
<1>3. ASSUME Enter(Task) PROVE Implements
  BY <1>3, EnterImplements DEF Enter
<1>4. ASSUME Body(Task) PROVE Implements
  BY <1>2, <1>4, WriteJoinsImplements, OnCommitImplements, WaitsImplement, NeverAlone DEF Body
<1>5. ASSUME Leave(Task) PROVE Implements
  BY <1>5, ReleaseSavepointImplements, RollbackSavepointImplements, WaitsImplement,
     UndoImplements, NeverAlone DEF Leave
<1>6. ASSUME Proceed(Task) PROVE Implements
  BY <1>6, CheckTransactionImplements, BeginTransactionImplements, OpenSavepointImplements,
     CommitDoneImplements, WaitsImplement, UndoImplements, CloseSessionImplements,
     CallImplements, CallsDoneImplements, NeverAlone DEF Proceed
<1>7. Next => Enter(Task) \/ Body(Task) \/ Leave(Task) \/ Proceed(Task)
  BY DEF Next, SequentialAssumption
<1> QED BY <1>1, <1>3, <1>4, <1>5, <1>6, <1>7

(* The program starts where Transactions does, with the invariant.         *)
LEMMA InitImplements ==
  ASSUME SequentialAssumption, Init
  PROVE  SequentialInv /\ Abstract!Init
<1>1. /\ Entered = <<>> /\ Places = {} /\ pc[Task] \in {"run", "new"} /\ durable = {} /\ ran = <<>>
  BY DEF Init, Entered, Places, SequentialAssumption
<1>2. RunsAlone
  BY <1>1 DEF RunsAlone, Init, SequentialAssumption
<1>3. BlocksAreInside /\ BlocksHaveSavepoints
  BY <1>1 DEF BlocksAreInside, BlocksHaveSavepoints
<1>4. CallMarksRise
  BY <1>1 DEF CallMarksRise, Init
<1>5. SavepointsFit
  <2>1. \A b \in Frames : DOMAIN sps[b] = {}
    BY DEF Init
  <2> QED BY <2>1 DEF SavepointsFit
<1>6. Scopes = <<>> /\ DurableIds = {} /\ Due = <<>> /\ Ids(ran) = <<>>
  BY <1>1 DEF Scopes, DurableIds, IdSet, Due, Ids
<1> QED BY <1>2, <1>3, <1>4, <1>5, <1>6
     DEF SequentialInv, Abstract!Init, Scopes, DurableIds, IdSet

(* Whatever the bounds and the databases: one task enters and leaves its   *)
(* blocks in order, waits for no lock, begins a transaction once, and the  *)
(* savepoint and callback marks of its blocks rise (connection.py,         *)
(* atomic() and the cb_mark of its nested blocks).                         *)
THEOREM SequentialInvariant ==
  ASSUME Tasks = {Task}, MayCancel = FALSE
  PROVE  Spec => []SequentialInv
<1>1. SequentialAssumption
  BY DEF SequentialAssumption
<1>2. Init => SequentialInv
  BY <1>1, InitImplements
<1>3. CommitInv /\ CommitInv' /\ SequentialInv /\ [Next]_vars => SequentialInv'
  BY <1>1, StepImplements DEF Implements
<1> QED BY <1>2, <1>3, CommitInvariant, PTL DEF Spec

(* Whatever the bounds, the databases and the program: the blocks of one   *)
(* task that is not cancelled are all-or-nothing transactions, whose       *)
(* callbacks run after the outermost commit (connection.py, atomic()).     *)
THEOREM BlocksAreTransactions ==
  ASSUME Tasks = {Task}, MayCancel = FALSE
  PROVE  Spec => AtomicImplementsTransactions
<1>1. SequentialAssumption
  BY DEF SequentialAssumption
<1>2. Init => Abstract!Init
  BY <1>1, InitImplements
<1>3. CommitInv /\ CommitInv' /\ SequentialInv /\ [Next]_vars
        => [Abstract!Next]_Abstract!absvars
  BY <1>1, StepImplements DEF Implements
<1> QED BY <1>2, <1>3, CommitInvariant, SequentialInvariant, PTL
    DEF Spec, AtomicImplementsTransactions, Abstract!AbsSpec
=============================================================================
