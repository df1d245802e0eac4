---------------------------- MODULE AtomicProofs ----------------------------
(***************************************************************************)
(* Theorems about Atomic, for any number of tasks, databases, blocks,      *)
(* writes and callbacks, with or without cancellation and outliving tasks: *)
(* first what is durable; then what callbacks run and in which order, and  *)
(* that a transaction becomes durable whole.                               *)
(***************************************************************************)
EXTENDS Atomic, SequenceTheorems, WellFoundedInduction, TLAPS

-----------------------------------------------------------------------------
(* The operators of the model. *)

(* A bounded set of natural numbers that is not empty has a largest one.   *)
LEMMA LargestExists ==
  ASSUME NEW n \in Nat, NEW S, S \subseteq 1 .. n, S # {}
  PROVE  Largest(S) \in S /\ \A j \in S : j <= Largest(S)
<1> DEFINE R == OpToRel(<, Nat)
           T == {j \in Nat : n - j \in S}
<1>1. IsWellFoundedOn(R, Nat)
  BY NatLessThanWellFounded
<1>2. T \subseteq Nat /\ T # {}
  <2>1. PICK i \in S : TRUE
    OBVIOUS
  <2>2. i \in Nat /\ n - i \in Nat /\ n - (n - i) = i
    BY <2>1
  <2> QED BY <2>1, <2>2
<1> HIDE DEF R
<1>3. PICK x \in T : \A y \in T : ~(<<y, x>> \in R)
  <2> HIDE DEF T
  <2> QED BY <1>1, <1>2, WFMin
<1>4. \A y \in T : ~(y < x)
  BY <1>2, <1>3 DEF R, OpToRel
<1> DEFINE m == n - x
<1>5. m \in S
  BY <1>3
<1>6. ASSUME NEW j \in S PROVE j <= m
  <2>1. j \in Nat /\ n - j \in Nat /\ n - (n - j) = j
    OBVIOUS
  <2>2. n - j \in T
    BY <2>1
  <2> QED BY <1>4, <2>1, <2>2
<1> QED BY <1>5, <1>6 DEF Largest

(* Cutting a sequence keeps its first elements. *)
LEMMA CutProperties ==
  ASSUME NEW S, NEW s \in Seq(S), NEW n \in Nat
  PROVE  /\ Cut(s, n) \in Seq(S)
         /\ \A i \in DOMAIN Cut(s, n) : i \in DOMAIN s /\ Cut(s, n)[i] = s[i]
         /\ s = <<>> => Cut(s, n) = <<>>
<1> DEFINE m == IF n < Len(s) THEN n ELSE Len(s)
<1>1. /\ Len(s) \in Nat /\ m \in 0 .. Len(s) /\ Cut(s, n) = SubSeq(s, 1, m)
      /\ DOMAIN s = 1 .. Len(s)
  BY LenProperties DEF Cut
<1> HIDE DEF m
<1>2. /\ SubSeq(s, 1, m) \in Seq(S)
      /\ Len(SubSeq(s, 1, m)) = m
      /\ \A i \in 1 .. m : SubSeq(s, 1, m)[i] = s[i]
  BY <1>1, SubSeqProperties
<1>3. DOMAIN SubSeq(s, 1, m) = 1 .. m
  BY <1>2, LenProperties
<1>4. s = <<>> => m = 0
  BY <1>1
<1> QED BY <1>1, <1>2, <1>3, <1>4, EmptySeq

(* Leaving a block takes the last one off the stack. *)
LEMMA PopProperties ==
  ASSUME NEW S, NEW s \in Seq(S), s # <<>>
  PROVE  /\ Len(s) \in Nat \ {0} /\ s[Len(s)] \in S
         /\ SubSeq(s, 1, Len(s) - 1) \in Seq(S)
         /\ Len(SubSeq(s, 1, Len(s) - 1)) = Len(s) - 1
         /\ \A i \in 1 .. Len(s) - 1 : SubSeq(s, 1, Len(s) - 1)[i] = s[i]
<1>1. Len(s) \in Nat \ {0}
  BY EmptySeq
<1>2. s[Len(s)] \in S
  BY <1>1, ElementOfSeq
<1> QED BY <1>1, <1>2, SubSeqProperties

(* The innermost block around what a task runs, and the one it may join.   *)
LEMMA EnclosingProperties ==
  ASSUME TypeOK, NamesAreUsed, NEW t \in Tasks, NEW a \in Aliases
  PROVE  /\ Enclosing(t, a) \in 0 .. nframes
         /\ OpenBlock(t, a) # 0 =>
              /\ Enclosing(t, a) \in Used
              /\ OpenBlock(t, a) = frame[Enclosing(t, a)].block
              /\ OpenBlock(t, a) \in Used
              /\ open[OpenBlock(t, a)]
<1> DEFINE own == {i \in DOMAIN stack[t] : frame[stack[t][i]].alias = a}
<1>1. stack[t] \in Seq(Frames) /\ Len(stack[t]) \in Nat
  BY DEF TypeOK
<1>2. nframes \in Nat
  BY DEF TypeOK, Frames0
<1>3. own # {} => Largest(own) \in own
  <2>1. own \subseteq 1 .. Len(stack[t])
    BY <1>1, LenProperties
  <2> HIDE DEF own
  <2> QED BY <1>1, <2>1, LargestExists
<1>4. Enclosing(t, a) = IF own = {} THEN inherited[t][a] ELSE stack[t][Largest(own)]
  BY DEF Enclosing
<1> HIDE DEF own
<1>5. own # {} => stack[t][Largest(own)] \in Used
  BY <1>3 DEF own, NamesAreUsed
<1>6. Enclosing(t, a) \in 0 .. nframes
  BY <1>2, <1>4, <1>5 DEF NamesAreUsed, Used
<1>7. ASSUME OpenBlock(t, a) # 0
      PROVE  /\ Enclosing(t, a) \in Used
             /\ OpenBlock(t, a) = frame[Enclosing(t, a)].block
             /\ open[OpenBlock(t, a)]
  BY <1>2, <1>6, <1>7 DEF OpenBlock, Used
<1> QED BY <1>6, <1>7 DEF NamesAreUsed

(* The block a task leaves. *)
LEMMA TopProperties ==
  ASSUME TypeOK, NamesAreUsed, NEW t \in Tasks, stack[t] # <<>>
  PROVE  /\ Len(stack[t]) \in DOMAIN stack[t]
         /\ Top(t) = stack[t][Len(stack[t])]
         /\ Top(t) \in Used /\ Top(t) \in Frames
         /\ frame[Top(t)].block \in Used /\ frame[Top(t)].block \in Frames
         /\ IsOuter(frame[Top(t)].block)
<1>1. stack[t] \in Seq(Frames)
  BY DEF TypeOK
<1>2. Len(stack[t]) \in DOMAIN stack[t]
  BY <1>1, PopProperties
<1>3. Used \subseteq Frames
  BY AtomicAssumption DEF TypeOK, Used, Frames, Frames0
<1> QED BY <1>2, <1>3 DEF Top, NamesAreUsed

(* What leaving a block does to the stacks. *)
LEMMA PopStep ==
  ASSUME TypeOK, NEW t \in Tasks, stack[t] # <<>>, Pop(t)
  PROVE  /\ stack' \in [Tasks -> Seq(Frames)]
         /\ \A u \in Tasks : \A i \in DOMAIN stack'[u] :
              i \in DOMAIN stack[u] /\ stack'[u][i] = stack[u][i]
         /\ \A i \in DOMAIN stack'[t] : i # Len(stack[t])
         /\ \A u \in Tasks : u # t => stack'[u] = stack[u]
<1>1. stack \in [Tasks -> Seq(Frames)]
  BY DEF TypeOK
<1>2. stack' = [stack EXCEPT ![t] = SubSeq(stack[t], 1, Len(stack[t]) - 1)]
  BY DEF Pop
<1>3. /\ Len(stack[t]) \in Nat \ {0}
      /\ SubSeq(stack[t], 1, Len(stack[t]) - 1) \in Seq(Frames)
      /\ Len(SubSeq(stack[t], 1, Len(stack[t]) - 1)) = Len(stack[t]) - 1
      /\ \A i \in 1 .. Len(stack[t]) - 1 :
           SubSeq(stack[t], 1, Len(stack[t]) - 1)[i] = stack[t][i]
  BY <1>1, PopProperties
<1> QED BY <1>1, <1>2, <1>3

(* What entering a block does to the stacks. *)
LEMMA PushStep ==
  ASSUME TypeOK, NEW t \in Tasks, NEW f \in Frames,
         stack' = [stack EXCEPT ![t] = Append(@, f)]
  PROVE  /\ stack' \in [Tasks -> Seq(Frames)]
         /\ \A u \in Tasks : \A i \in DOMAIN stack'[u] :
              \/ i \in DOMAIN stack[u] /\ stack'[u][i] = stack[u][i]
              \/ u = t /\ i = Len(stack[t]) + 1 /\ stack'[u][i] = f
         /\ Len(stack[t]) + 1 \notin DOMAIN stack[t]
         /\ stack'[t] # <<>> /\ stack'[t][Len(stack'[t])] = f
         /\ \A u \in Tasks : u # t => stack'[u] = stack[u]
<1>1. stack \in [Tasks -> Seq(Frames)]
  BY DEF TypeOK
<1>2. stack'[t] = Append(stack[t], f) /\ \A u \in Tasks : u # t => stack'[u] = stack[u]
  BY <1>1
<1>3. /\ Append(stack[t], f) \in Seq(Frames)
      /\ Append(stack[t], f) # <<>>
      /\ Len(Append(stack[t], f)) = Len(stack[t]) + 1
      /\ \A i \in 1 .. Len(stack[t]) : Append(stack[t], f)[i] = stack[t][i]
      /\ Append(stack[t], f)[Len(stack[t]) + 1] = f
  BY <1>1, AppendProperties
<1>4. /\ Len(stack[t]) \in Nat /\ DOMAIN stack[t] = 1 .. Len(stack[t])
      /\ DOMAIN stack'[t] = 1 .. Len(stack[t]) + 1
  BY <1>1, <1>2, <1>3, LenProperties
<1>5. stack' \in [Tasks -> Seq(Frames)]
  BY <1>1, <1>3
<1>6. ASSUME NEW u \in Tasks, NEW i \in DOMAIN stack'[u]
      PROVE  \/ i \in DOMAIN stack[u] /\ stack'[u][i] = stack[u][i]
             \/ u = t /\ i = Len(stack[t]) + 1 /\ stack'[u][i] = f
  <2>1. CASE u # t
    BY <1>2, <2>1
  <2>2. CASE u = t
    BY <1>2, <1>3, <1>4, <2>2
  <2> QED BY <2>1, <2>2
<1>7. stack'[t] # <<>> /\ stack'[t][Len(stack'[t])] = f
  BY <1>2, <1>3
<1> QED BY <1>2, <1>4, <1>5, <1>6, <1>7

(* Recording how a block ended changes its status only. *)
LEMMA BecomeStep ==
  ASSUME TypeOK, NEW f \in Frames, NEW st \in Status, Become(f, st)
  PROVE  /\ frame' \in [Frames -> Frame]
         /\ frame'[f].status = st
         /\ \A g \in Frames : g # f => frame'[g] = frame[g]
         /\ \A g \in Frames : frame'[g].block = frame[g].block
         /\ \A g \in Frames : IsOuter(g)' = IsOuter(g)
         /\ \A g \in Frames : g # f => Settled(g)' = Settled(g)
<1>1. frame \in [Frames -> Frame] /\ frame[f] \in Frame
  BY DEF TypeOK
<1>2. frame' = [frame EXCEPT ![f] = [frame[f] EXCEPT !.status = st]]
  BY DEF Become
<1>3. /\ [frame[f] EXCEPT !.status = st] \in Frame
      /\ [frame[f] EXCEPT !.status = st].block = frame[f].block
      /\ [frame[f] EXCEPT !.status = st].status = st
  BY <1>1 DEF Frame
<1>4. /\ frame' \in [Frames -> Frame]
      /\ frame'[f] = [frame[f] EXCEPT !.status = st]
      /\ \A g \in Frames : g # f => frame'[g] = frame[g]
  BY <1>1, <1>2, <1>3
<1>5. \A g \in Frames : frame'[g].block = frame[g].block
  BY <1>3, <1>4
<1> QED BY <1>3, <1>4, <1>5 DEF IsOuter, Settled

-----------------------------------------------------------------------------
(* Every action preserves DurabilityInv. *)

(* The frames in use are the first nframes ones.                          *)
LEMMA UsedIsFrames ==
  ASSUME TypeOK
  PROVE  nframes \in Nat /\ Used \subseteq Frames /\ Frames \subseteq Nat \ {0}
BY AtomicAssumption DEF TypeOK, Used, Frames, Frames0

(* Entering a block, an outer or a nested one. *)
LEMMA EnterStep ==
  ASSUME DurabilityInv, NEW t \in Tasks, NEW f, NEW new \in Frame, NEW l \in PC,
         f = nframes + 1, nframes < MaxFrames,
         frame' = [frame EXCEPT ![f] = new],
         nframes' = f,
         stack' = [stack EXCEPT ![t] = Append(@, f)],
         open' = [open EXCEPT ![f] = (new.block = f)],
         pc[t] = "run", pc' = [pc EXCEPT ![t] = l],
         \/ l = "run" /\ new.block = f /\ new.status = "open"
         \/ l = "entering" /\ new.block \in Used /\ IsOuter(new.block),
         UNCHANGED <<nwrites, ncalls, inherited, target, callbacks, log, sps,
                     begun, durable, ran>>
  PROVE  DurabilityInv'
<1>inv. /\ TypeOK /\ NamesAreUsed /\ StacksAreDisjoint /\ TasksAreSomewhere
        /\ LogIsOfBlock /\ WaitingIsForCommit /\ SavepointsAreInside
        /\ DurableNames /\ DurableOnlyThroughCommit
  BY DEF DurabilityInv
<1>use. nframes \in Nat /\ Used \subseteq Frames /\ Frames \subseteq Nat \ {0}
  BY <1>inv, UsedIsFrames
<1>f. f \in Frames /\ f \notin Used /\ Used' = Used \cup {f} /\ f \in Nat
  BY <1>use, AtomicAssumption DEF Frames, Used
<1>pc. /\ pc' \in [Tasks -> PC] /\ pc'[t] = l
       /\ \A u \in Tasks : u # t => pc'[u] = pc[u]
  BY <1>inv DEF TypeOK
<1>fr. /\ \A g \in Frames : g # f => frame'[g] = frame[g] /\ open'[g] = open[g]
       /\ frame'[f] = new /\ open'[f] = (new.block = f)
       /\ frame' \in [Frames -> Frame] /\ open' \in [Frames -> BOOLEAN]
  BY <1>f, <1>inv DEF TypeOK
<1>io. /\ IsOuter(f)' = (new.block = f)
       /\ \A g \in Frames : g # f => IsOuter(g)' = IsOuter(g)
  BY <1>f, <1>fr DEF IsOuter
<1>st. /\ stack' \in [Tasks -> Seq(Frames)]
       /\ \A u \in Tasks : \A i \in DOMAIN stack'[u] :
            \/ i \in DOMAIN stack[u] /\ stack'[u][i] = stack[u][i]
            \/ u = t /\ i = Len(stack[t]) + 1 /\ stack'[u][i] = f
       /\ stack'[t] # <<>> /\ stack'[t][Len(stack'[t])] = f
       /\ \A u \in Tasks : u # t => stack'[u] = stack[u]
  <2>1. TypeOK /\ t \in Tasks /\ f \in Frames
        /\ stack' = [stack EXCEPT ![t] = Append(@, f)]
    BY <1>inv, <1>f
  <2>2. stack' \in [Tasks -> Seq(Frames)]
    BY ONLY <2>1, PushStep
  <2>3. \A u \in Tasks : \A i \in DOMAIN stack'[u] :
            \/ i \in DOMAIN stack[u] /\ stack'[u][i] = stack[u][i]
            \/ u = t /\ i = Len(stack[t]) + 1 /\ stack'[u][i] = f
    BY ONLY <2>1, PushStep
  <2>4. stack'[t] # <<>> /\ stack'[t][Len(stack'[t])] = f
    BY ONLY <2>1, PushStep
  <2>5. \A u \in Tasks : u # t => stack'[u] = stack[u]
    BY ONLY <2>1, PushStep
  <2> QED BY <2>2, <2>3, <2>4, <2>5
<1>top. Top(t)' = f /\ \A u \in Tasks : u # t => Top(u)' = Top(u)
  BY <1>st DEF Top
<1>used. \A u \in Tasks : stack[u] # <<>> =>
           Top(u) \in Used /\ frame[Top(u)].block \in Used
  BY <1>inv, TopProperties
<1>1. TypeOK'
  BY <1>inv, <1>f, <1>fr, <1>st, <1>pc DEF TypeOK, Frames0, Frames
<1>2. NamesAreUsed'
  <2>1. ASSUME NEW g \in Used'
        PROVE  frame'[g].block \in Used' /\ IsOuter(frame[g].block)'
    <3>1. CASE g = f /\ new.block = f
      BY <1>f, <1>fr, <1>io, <3>1 DEF IsOuter
    <3>2. CASE g = f /\ new.block # f
      BY <1>f, <1>fr, <1>io, <1>use, <3>2 DEF IsOuter
    <3>3. CASE g # f
      <4>1. g \in Used /\ frame'[g] = frame[g] /\ frame[g].block \in Used
        BY <1>inv, <1>f, <1>fr, <1>use, <3>3 DEF NamesAreUsed
      <4>2. IsOuter(frame[g].block) /\ frame'[frame[g].block] = frame[frame[g].block]
        BY <1>inv, <1>f, <1>fr, <1>use, <4>1 DEF NamesAreUsed
      <4> QED BY <1>f, <4>1, <4>2 DEF IsOuter
    <3> QED BY <3>1, <3>2, <3>3
  <2>2. \A u \in Tasks : \A i \in DOMAIN stack'[u] : stack'[u][i] \in Used'
    BY <1>inv, <1>f, <1>st DEF NamesAreUsed
  <2>3. \A g \in Frames \ Used' : sps'[g] = <<>> /\ log'[g] = <<>> /\ ~open'[g]
    BY <1>inv, <1>f, <1>fr DEF NamesAreUsed
  <2> QED BY <1>inv, <1>f, <1>use, <2>1, <2>2, <2>3 DEF NamesAreUsed
<1>3. StacksAreDisjoint'
  <2>1. \A u \in Tasks : \A i \in DOMAIN stack[u] :
          stack[u][i] \in Used /\ stack[u][i] \in Frames /\ stack[u][i] # f
    BY <1>inv, <1>f, <1>use DEF NamesAreUsed
  <2>2. ASSUME NEW u \in Tasks, NEW v \in Tasks,
               NEW i \in DOMAIN stack'[u], NEW j \in DOMAIN stack'[v],
               stack'[u][i] = stack'[v][j]
        PROVE  u = v /\ i = j
    BY <1>inv, <1>st, <2>1, <2>2 DEF StacksAreDisjoint
  <2>3. ASSUME NEW u \in Tasks, NEW i \in DOMAIN stack'[u], IsOuter(stack[u][i])'
        PROVE  open'[stack'[u][i]]
    <3>1. CASE stack'[u][i] = f
      BY <1>fr, <1>io, <2>3, <3>1 DEF IsOuter
    <3>2. CASE i \in DOMAIN stack[u] /\ stack'[u][i] = stack[u][i]
      BY <1>inv, <1>fr, <1>io, <2>1, <2>3, <3>2 DEF StacksAreDisjoint, IsOuter
    <3> QED BY <1>st, <3>1, <3>2
  <2>4. ASSUME NEW g \in Used', open'[g]
        PROVE  IsOuter(g)' /\ frame'[g].status = "open"
    <3>1. CASE g = f
      BY <1>f, <1>fr, <1>io, <1>use, <2>4, <3>1
    <3>2. CASE g # f
      BY <1>inv, <1>f, <1>fr, <1>io, <1>use, <2>4, <3>2 DEF StacksAreDisjoint
    <3> QED BY <3>1, <3>2
  <2> QED BY <2>2, <2>3, <2>4 DEF StacksAreDisjoint
<1>4. TasksAreSomewhere'
  <2> SUFFICES ASSUME NEW u \in Tasks
               PROVE  TasksAreSomewhere!(u)'
    BY DEF TasksAreSomewhere
  <2>1. CASE u = t
    BY <1>f, <1>io, <1>st, <1>top, <1>pc, <1>use, <2>1
  <2>2. CASE u # t
    <3>1. /\ pc'[u] = pc[u] /\ Top(u)' = Top(u) /\ stack'[u] = stack[u]
          /\ target'[u] = target[u]
      BY <1>st, <1>pc, <1>top, <2>2
    <3>2. stack[u] # <<>> => IsOuter(Top(u))' = IsOuter(Top(u))
      BY <1>f, <1>io, <1>used, <1>use, <3>1 DEF IsOuter
    <3>3. pc[u] \in {"closing", "calling"} =>
            target[u].block \in Used /\ ~open'[target[u].block]
      BY <1>inv, <1>f, <1>fr, <1>use DEF TasksAreSomewhere
    <3> QED BY <1>inv, <1>f, <3>1, <3>2, <3>3 DEF TasksAreSomewhere
  <2> QED BY <2>1, <2>2
<1>5. LogIsOfBlock'
  <2>1. \A u \in Tasks : pc'[u] = "writing" => pc[u] = "writing"
    BY <1>pc
  <2> QED BY <1>inv, <1>f, <1>fr, <1>use, <2>1 DEF LogIsOfBlock
<1>6. WaitingIsForCommit'
  <2> SUFFICES ASSUME NEW u \in Tasks, pc'[u] = "writing"
               PROVE  WaitingIsForCommit!(u)!2'
    BY DEF WaitingIsForCommit
  <2>0. pc[u] = "writing"
    BY <1>pc
  <2>1. pc[u] = "writing" /\ target[u].block \in Used /\ target[u].block # f
    BY <1>inv, <1>f, <2>0 DEF LogIsOfBlock, NamesAreUsed
  <2>2. \A v \in Tasks : pc[v] \in {"committing", "undoing"} => pc'[v] = pc[v]
    BY <1>pc
  <2> QED BY <1>inv, <1>f, <1>fr, <1>use, <2>1, <2>2 DEF WaitingIsForCommit, Settled
<1>7. SavepointsAreInside'
  <2>1. ASSUME NEW u \in Tasks, pc'[u] = "begun", open'[frame'[Top(u)'].block]
        PROVE  begun'[frame'[Top(u)'].block]
    BY <1>inv, <1>f, <1>fr, <1>pc, <1>use, <1>top, <1>used, <2>1
    DEF SavepointsAreInside, TasksAreSomewhere
  <2>2. ASSUME NEW b \in Used', IsOuter(b)', NEW i \in DOMAIN sps'[b],
               sps'[b][i].outside
        PROVE  ~open'[b] /\ (Settled(b)' \/ log'[b] = <<>>)
    BY <1>inv, <1>f, <1>fr, <1>io, <1>use, <2>2
    DEF SavepointsAreInside, NamesAreUsed, Settled
  <2>3. \A b \in Frames : ~begun'[b] => log'[b] = <<>>
    BY <1>inv DEF SavepointsAreInside
  <2> QED BY <2>1, <2>2, <2>3 DEF SavepointsAreInside
<1>8. DurableNames'
  BY <1>inv, <1>use DEF DurableNames
<1>9. DurableOnlyThroughCommit'
  BY <1>inv, <1>f, <1>fr, <1>use DEF DurableOnlyThroughCommit, DurableNames, NamesAreUsed, Used
<1> QED BY <1>1, <1>2, <1>3, <1>4, <1>5, <1>6, <1>7, <1>8, <1>9 DEF DurabilityInv

(* Entering an outer block: a fresh session, nothing durable.             *)
LEMMA EnterOuterStep ==
  ASSUME DurabilityInv, NEW t \in Tasks, NEW a \in Aliases, EnterOuter(t, a)
  PROVE  DurabilityInv'
<1> DEFINE f == nframes + 1
           new == [alias |-> a, block |-> f, up |-> 0, mark |-> 0, status |-> "open"]
<1>1. TypeOK /\ nframes \in Nat
  BY UsedIsFrames DEF DurabilityInv
<1>2. f \in Frames /\ 0 \in Frames0 /\ nframes < MaxFrames
  BY <1>1, AtomicAssumption DEF EnterOuter, MayEnter, Frames, Frames0
<1>3. new \in Frame /\ "run" \in PC
  BY <1>2 DEF Frame, Status, PC
<1>4. pc[t] = "run" /\ pc' = [pc EXCEPT ![t] = "run"]
  BY <1>1 DEF EnterOuter, MayEnter, TypeOK
<1>5. new.block = f /\ new.status = "open" /\ (new.block = f) = TRUE
  OBVIOUS
<1>6. /\ nframes' = f
      /\ frame' = [frame EXCEPT ![f] = new]
      /\ stack' = [stack EXCEPT ![t] = Append(@, f)]
      /\ open' = [open EXCEPT ![f] = TRUE]
      /\ UNCHANGED <<nwrites, ncalls, inherited, target, callbacks, log, sps,
                     begun, durable, ran>>
  BY DEF EnterOuter
<1>7. open' = [open EXCEPT ![f] = (new.block = f)]
  BY <1>5, <1>6
<1> HIDE DEF new
<1> QED BY <1>2, <1>3, <1>4, <1>5, <1>6, <1>7, EnterStep

(* Entering a nested block: only its frame and the stack change.          *)
LEMMA EnterNestedStep ==
  ASSUME DurabilityInv, NEW t \in Tasks, NEW a \in Aliases, EnterNested(t, a)
  PROVE  DurabilityInv'
<1> DEFINE f == nframes + 1
           b == OpenBlock(t, a)
           new == [alias |-> a, block |-> b, up |-> Enclosing(t, a),
                   mark |-> CallbackMark(b), status |-> "entering"]
<1>1. TypeOK /\ NamesAreUsed /\ nframes \in Nat /\ Used \subseteq Frames
  BY UsedIsFrames DEF DurabilityInv
<1>2. f \in Frames /\ f \notin Used /\ nframes < MaxFrames
  BY <1>1, AtomicAssumption DEF EnterNested, MayEnter, Frames, Used
<1>3. b \in Used /\ b \in Frames /\ Enclosing(t, a) \in Frames0 /\ IsOuter(b)
  BY <1>1, AtomicAssumption, EnclosingProperties
  DEF EnterNested, MayEnter, NamesAreUsed, Frames0, Frames, Used
<1>4. CallbackMark(b) \in Nat
  BY <1>1, <1>3, LenProperties DEF TypeOK, CallbackMark
<1>5. new \in Frame /\ "entering" \in PC
  BY <1>3, <1>4 DEF Frame, Status, PC
<1>6. new.block = b /\ (new.block = f) = FALSE
  BY <1>2, <1>3
<1>7. /\ pc[t] = "run" /\ pc' = [pc EXCEPT ![t] = "entering"]
      /\ nframes' = f
      /\ frame' = [frame EXCEPT ![f] = new]
      /\ stack' = [stack EXCEPT ![t] = Append(@, f)]
      /\ UNCHANGED <<nwrites, ncalls, inherited, target, callbacks, log, sps,
                     begun, durable, ran>>
  BY DEF EnterNested, Goto, session
<1>8. open' = [open EXCEPT ![f] = (new.block = f)]
  <2>1. open' = open /\ open[f] = FALSE
    BY <1>1, <1>2 DEF EnterNested, MayEnter, session, TypeOK, NamesAreUsed
  <2> QED BY <1>1, <1>2, <1>6, <2>1 DEF TypeOK
<1> HIDE DEF new, b
<1> QED BY <1>2, <1>3, <1>5, <1>6, <1>7, <1>8, EnterStep

-----------------------------------------------------------------------------
(* Leaving a nested block, whatever becomes of its savepoint. *)

(* What the ways of leaving the nested block f of session b have in common, *)
(* that of a block that was never entered included.                         *)
NestedExit(t, f, b, st) ==
  /\ pc[t] \in {"run", "beginning"} /\ stack[t] # <<>> /\ ~IsOuter(Top(t))
  /\ f = Top(t) /\ b = frame[f].block
  /\ Become(f, st) /\ Pop(t) /\ Goto(t, "run")
  /\ UNCHANGED <<nframes, nwrites, ncalls, inherited, target, open, ran>>
  /\ callbacks' \in [Frames -> Seq(Callback)]
  /\ log' \in [Frames -> Seq(Write)]
  /\ sps' \in [Frames -> Seq(Savepoint)]
  /\ begun' \in [Frames -> BOOLEAN]
  /\ \A g \in Frames : g # b => /\ log'[g] = log[g] /\ sps'[g] = sps[g]
                                /\ begun'[g] = begun[g]
  /\ \A i \in DOMAIN log'[b] : i \in DOMAIN log[b] /\ log'[b][i] = log[b][i]
  /\ \A i \in DOMAIN sps'[b] : i \in DOMAIN sps[b] /\ sps'[b][i] = sps[b][i]
  /\ log[b] = <<>> => log'[b] = <<>>
  /\ \/ begun'[b] = begun[b]
     \/ log'[b] = <<>> /\ ~open[b]
  /\ \/ durable' = durable
     \/ /\ durable' = durable \cup Elements(log[b])
        /\ Settled(b) \/ log[b] = <<>>

(* Leaving a nested block, however it ends.                                 *)
LEMMA LeaveNestedStep ==
  ASSUME DurabilityInv, NEW t \in Tasks, NEW f, NEW b,
         NEW st \in Status \ {"open"}, NestedExit(t, f, b, st)
  PROVE  DurabilityInv'
<1> /\ f = Top(t) /\ b = frame[f].block
    /\ Become(f, st) /\ Pop(t)
    /\ UNCHANGED <<nframes, nwrites, ncalls, inherited, target, open, ran>>
    /\ callbacks' \in [Frames -> Seq(Callback)]
    /\ log' \in [Frames -> Seq(Write)]
    /\ sps' \in [Frames -> Seq(Savepoint)]
    /\ begun' \in [Frames -> BOOLEAN]
    /\ \A g \in Frames : g # b => /\ log'[g] = log[g] /\ sps'[g] = sps[g]
                                  /\ begun'[g] = begun[g]
    /\ \A i \in DOMAIN log'[b] : i \in DOMAIN log[b] /\ log'[b][i] = log[b][i]
    /\ \A i \in DOMAIN sps'[b] : i \in DOMAIN sps[b] /\ sps'[b][i] = sps[b][i]
    /\ log[b] = <<>> => log'[b] = <<>>
    /\ \/ begun'[b] = begun[b]
       \/ log'[b] = <<>> /\ ~open[b]
    /\ \/ durable' = durable
       \/ /\ durable' = durable \cup Elements(log[b])
          /\ Settled(b) \/ log[b] = <<>>
  BY DEF NestedExit
<1>inv. /\ TypeOK /\ NamesAreUsed /\ StacksAreDisjoint /\ TasksAreSomewhere
        /\ LogIsOfBlock /\ WaitingIsForCommit /\ SavepointsAreInside
        /\ DurableNames /\ DurableOnlyThroughCommit
  BY DEF DurabilityInv
<1>use. nframes \in Nat /\ Used \subseteq Frames /\ Frames \subseteq Nat \ {0}
  BY <1>inv, UsedIsFrames
<1>uu. Used' = Used
  BY DEF Used
<1>run. stack[t] # <<>> /\ ~IsOuter(f)
  BY DEF NestedExit
<1>was. pc[t] \in {"run", "beginning"}
  BY DEF NestedExit
<1>pc. /\ pc' \in [Tasks -> PC] /\ pc'[t] = "run"
       /\ \A u \in Tasks : u # t => pc'[u] = pc[u]
       /\ \A u \in Tasks : pc'[u] # "run" => u # t /\ pc[u] = pc'[u]
       /\ \A u \in Tasks : pc[u] \in {"committing", "undoing"} => pc'[u] = pc[u]
  BY <1>inv, <1>was DEF TypeOK, NestedExit, Goto, PC
<1>b. f \in Used /\ f \in Frames /\ b \in Used /\ b \in Frames /\ IsOuter(b)
  BY <1>inv, <1>run, TopProperties
<1>fr. /\ frame' \in [Frames -> Frame]
       /\ \A g \in Frames : g # f => frame'[g] = frame[g]
  BY <1>inv, <1>b, BecomeStep
<1>bl. \A g \in Frames : frame'[g].block = frame[g].block
  BY <1>inv, <1>b, BecomeStep
<1>io. \A g \in Frames : IsOuter(g)' = IsOuter(g)
  BY <1>inv, <1>b, BecomeStep
<1>set. \A g \in Frames : IsOuter(g) => Settled(g)' = Settled(g)
  BY <1>inv, <1>run, <1>b, BecomeStep
<1>st. /\ stack' \in [Tasks -> Seq(Frames)]
       /\ \A u \in Tasks : \A i \in DOMAIN stack'[u] :
            i \in DOMAIN stack[u] /\ stack'[u][i] = stack[u][i]
       /\ \A u \in Tasks : u # t => stack'[u] = stack[u]
  BY <1>inv, <1>run, PopStep
<1>top. \A u \in Tasks : u # t => Top(u)' = Top(u)
  BY <1>st DEF Top
<1>used. \A u \in Tasks : stack[u] # <<>> =>
           /\ Top(u) \in Used /\ frame[Top(u)].block \in Used
           /\ IsOuter(frame[Top(u)].block)
  BY <1>inv, TopProperties
<1>in. \A g \in Used : frame[g].block \in Used /\ IsOuter(frame[g].block)
  BY <1>inv DEF NamesAreUsed
<1>el. \A w \in Elements(log[b]) :
         w \in Write /\ w.in \in Used /\ frame[w.in].block = b
  <2>1. \A i \in DOMAIN log[b] : log[b][i] \in Write
    BY <1>inv, <1>b, ElementOfSeq, SMTT(30) DEF TypeOK
  <2> QED BY <1>inv, <1>b, <2>1 DEF LogIsOfBlock, Elements
<1>1. TypeOK'
  BY <1>inv, <1>fr, <1>st, <1>el, <1>pc DEF TypeOK
<1>2. NamesAreUsed'
  <2>1. \A g \in Used' : frame'[g].block \in Used' /\ IsOuter(frame[g].block)'
    BY ONLY <1>use, <1>uu, <1>bl, <1>in DEF IsOuter
  <2>2. \A u \in Tasks : \A i \in DOMAIN stack'[u] : stack'[u][i] \in Used'
    BY <1>inv, <1>uu, <1>st DEF NamesAreUsed
  <2>3. \A g \in Frames \ Used' : sps'[g] = <<>> /\ log'[g] = <<>> /\ ~open'[g]
    BY <1>inv, <1>uu, <1>b, ZenonT(40) DEF NamesAreUsed
  <2> QED BY <1>inv, <2>1, <2>2, <2>3 DEF NamesAreUsed
<1>3. StacksAreDisjoint'
  <2>1. \A u \in Tasks : \A i \in DOMAIN stack[u] : stack[u][i] \in Frames
    BY <1>inv, <1>use DEF NamesAreUsed
  <2>2. \A u, v \in Tasks : \A i \in DOMAIN stack'[u], j \in DOMAIN stack'[v] :
          stack'[u][i] = stack'[v][j] => u = v /\ i = j
    BY ONLY <1>inv, <1>st DEF StacksAreDisjoint
  <2>3. ASSUME NEW u \in Tasks, NEW i \in DOMAIN stack'[u], IsOuter(stack[u][i])'
        PROVE  open'[stack'[u][i]]
    <3>1. /\ i \in DOMAIN stack[u] /\ stack'[u][i] = stack[u][i]
          /\ stack[u][i] \in Frames
      BY ONLY <1>st, <2>1, <2>3
    <3>2. IsOuter(stack[u][i])
      BY ONLY <1>bl, <2>3, <3>1 DEF IsOuter
    <3> QED BY <1>inv, <3>1, <3>2 DEF StacksAreDisjoint
  <2>4. ASSUME NEW g \in Used', open'[g]
        PROVE  IsOuter(g)' /\ frame'[g].status = "open"
    <3>1. g \in Frames /\ IsOuter(g) /\ frame[g].status = "open"
      BY <1>inv, <1>use, <1>uu, <2>4 DEF StacksAreDisjoint
    <3>2. g # f
      BY <1>run, <3>1
    <3> QED BY <1>fr, <1>io, <3>1, <3>2
  <2> QED BY <2>2, <2>3, <2>4 DEF StacksAreDisjoint
<1>4. TasksAreSomewhere'
  <2> SUFFICES ASSUME NEW u \in Tasks
               PROVE  TasksAreSomewhere!(u)'
    BY DEF TasksAreSomewhere
  <2>1. CASE u = t
    BY <1>pc, <2>1
  <2>2. CASE u # t
    <3>1. Top(u)' = Top(u) /\ stack'[u] = stack[u]
      BY <1>st, <1>top, <2>2
    <3>2. stack[u] # <<>> => IsOuter(Top(u))' = IsOuter(Top(u))
      BY ONLY <1>bl, <1>used, <1>use, <3>1 DEF IsOuter
    <3> QED BY <1>inv, <1>uu, <1>pc, <2>2, <3>1, <3>2, ZenonT(40) DEF TasksAreSomewhere
  <2> QED BY <2>1, <2>2
<1>5. LogIsOfBlock'
  <2>1. ASSUME NEW g \in Frames, NEW i \in DOMAIN log'[g]
        PROVE  log'[g][i].in \in Used /\ frame'[log'[g][i].in].block = g
    <3>1. i \in DOMAIN log[g] /\ log'[g][i] = log[g][i]
      BY <1>b
    <3>2. log[g][i].in \in Used /\ frame[log[g][i].in].block = g
      BY ONLY <1>inv, <2>1, <3>1 DEF LogIsOfBlock
    <3> QED BY ONLY <1>bl, <1>use, <3>1, <3>2
  <2>2. \A u \in Tasks : pc[u] = "writing" =>
          target[u].in \in Used /\ frame'[target[u].in].block = target[u].block
    BY ONLY <1>inv, <1>bl, <1>use DEF LogIsOfBlock
  <2> QED BY <1>uu, <1>pc, <2>1, <2>2 DEF LogIsOfBlock
<1>6. WaitingIsForCommit'
  <2> SUFFICES ASSUME NEW u \in Tasks, pc'[u] = "writing"
               PROVE  WaitingIsForCommit!(u)!2'
    BY DEF WaitingIsForCommit
  <2>0. pc[u] = "writing"
    BY <1>pc
  <2>1. target[u].block \in Used /\ IsOuter(target[u].block)
    BY <1>inv, <1>in, <2>0, SMTT(30) DEF LogIsOfBlock
  <2>2. Settled(target[u].block)' = Settled(target[u].block)
    BY <1>set, <1>use, <2>1
  <2>3. \A v \in Tasks : pc[v] \in {"committing", "undoing"} => pc'[v] = pc[v]
    BY ONLY <1>pc
  <2> QED BY ONLY <1>inv, <2>0, <2>1, <2>2, <2>3, UNCHANGED <<open, target>>
          DEF WaitingIsForCommit
<1>7. SavepointsAreInside'
  <2>1. ASSUME NEW u \in Tasks, pc'[u] = "begun", open'[frame'[Top(u)'].block]
        PROVE  begun'[frame'[Top(u)'].block]
    <3>1. u # t /\ stack[u] # <<>> /\ pc[u] = "begun"
      BY <1>inv, <1>pc, <2>1 DEF TasksAreSomewhere
    <3>2. frame'[Top(u)'].block = frame[Top(u)].block
      BY <1>bl, <1>top, <1>used, <1>use, <3>1, ZenonT(40)
    <3> QED BY <1>inv, <1>b, <1>used, <1>use, <2>1, <3>1, <3>2, ZenonT(40) DEF SavepointsAreInside
  <2>2. ASSUME NEW g \in Used', IsOuter(g)', NEW i \in DOMAIN sps'[g],
               sps'[g][i].outside
        PROVE  ~open'[g] /\ (Settled(g)' \/ log'[g] = <<>>)
    <3>1. i \in DOMAIN sps[g] /\ sps'[g][i] = sps[g][i] /\ g \in Used /\ g \in Frames
      BY <1>b, <1>use, <1>uu
    <3>2. IsOuter(g) /\ Settled(g)' = Settled(g)
      BY <1>io, <1>set, <2>2, <3>1
    <3>3. ~open[g] /\ (Settled(g) \/ log[g] = <<>>)
      BY ONLY <1>inv, <2>2, <3>1, <3>2 DEF SavepointsAreInside
    <3>4. log[g] = <<>> => log'[g] = <<>>
      BY <3>1
    <3> QED BY <3>2, <3>3, <3>4
  <2>3. ASSUME NEW g \in Frames, ~begun'[g] PROVE log'[g] = <<>>
    <3>1. ~begun[g] => log[g] = <<>>
      BY ONLY <1>inv DEF SavepointsAreInside
    <3> QED BY <2>3, <3>1
  <2> QED BY <2>1, <2>2, <2>3 DEF SavepointsAreInside
<1>8. DurableNames'
  BY <1>inv, <1>el, <1>use DEF DurableNames, Used
<1>9. DurableOnlyThroughCommit'
  <2> SUFFICES ASSUME NEW w \in durable', w.in # 0
               PROVE  frame'[frame'[w.in].block].status \in {"committed", "indoubt"}
    BY DEF DurableOnlyThroughCommit
  <2>1. CASE w \in durable
    <3>1. w.in \in Used
      BY <1>inv, <1>use, <2>1 DEF DurableNames, Used
    <3>2. Settled(frame[w.in].block) /\ IsOuter(frame[w.in].block)
      BY <1>inv, <1>in, <2>1, <3>1 DEF DurableOnlyThroughCommit, Settled
    <3> QED BY ONLY <1>set, <1>bl, <1>use, <1>in, <3>1, <3>2 DEF Settled
  <2>2. CASE w \notin durable
    <3>1. w \in Elements(log[b]) /\ Settled(b)
      BY <2>2 DEF Elements
    <3>2. w.in \in Used /\ frame[w.in].block = b
      BY <1>el, <3>1
    <3> QED BY ONLY <1>b, <1>bl, <1>set, <1>use, <3>1, <3>2 DEF Settled
  <2> QED BY <2>1, <2>2
<1> QED BY <1>1, <1>2, <1>3, <1>4, <1>5, <1>6, <1>7, <1>8, <1>9 DEF DurabilityInv

(* A task that leaves a block it was in is back in the body around it.     *)
LEMMA LeavesNestedGoes ==
  ASSUME TypeOK, NEW t \in Tasks, LeavesNested(t), UNCHANGED pc
  PROVE  /\ pc[t] \in {"run", "beginning"} /\ stack[t] # <<>>
         /\ ~IsOuter(Top(t)) /\ Goto(t, "run")
BY DEF TypeOK, LeavesNested, Goto

(* Releasing a savepoint commits nothing: BEGIN came before it.           *)
LEMMA ReleaseSavepointStep ==
  ASSUME DurabilityInv, NEW t \in Tasks, ReleaseSavepoint(t)
  PROVE  DurabilityInv'
<1>f. PICK f : f = Top(t)
  OBVIOUS
<1>b. PICK b : b = frame[f].block
  OBVIOUS
<1>1. /\ TypeOK /\ NamesAreUsed /\ SavepointsAreInside
      /\ LeavesNested(t) /\ stack[t] # <<>> /\ t \in Tasks
  BY DEF DurabilityInv, ReleaseSavepoint, LeavesNested
<1>2. b \in Used /\ b \in Frames /\ IsOuter(b)
  BY <1>f, <1>b, <1>1, TopProperties
<1>3. PICK i \in SavepointOf(f) :
        /\ sps' = [sps EXCEPT ![b] = Cut(@, i - 1)]
        /\ IF sps[b][i].outside
           THEN /\ durable' = durable \cup Elements(log[b])
                /\ log' = [log EXCEPT ![b] = <<>>]
                /\ begun' = [begun EXCEPT ![b] = FALSE]
           ELSE UNCHANGED <<durable, log, begun>>
  BY <1>f, <1>b DEF ReleaseSavepoint
<1>4. /\ sps \in [Frames -> Seq(Savepoint)] /\ log \in [Frames -> Seq(Write)]
      /\ begun \in [Frames -> BOOLEAN] /\ callbacks \in [Frames -> Seq(Callback)]
  BY <1>1 DEF TypeOK
<1>5. i \in DOMAIN sps[b] /\ i - 1 \in Nat
  BY <1>b, <1>2, <1>4, LenProperties DEF SavepointOf
<1>6. /\ Cut(sps[b], i - 1) \in Seq(Savepoint)
      /\ \A j \in DOMAIN Cut(sps[b], i - 1) :
           j \in DOMAIN sps[b] /\ Cut(sps[b], i - 1)[j] = sps[b][j]
  <2>1. sps[b] \in Seq(Savepoint)
    BY <1>2, <1>4
  <2> QED BY ONLY <1>5, <2>1, CutProperties
<1>7. /\ sps' \in [Frames -> Seq(Savepoint)]
      /\ sps'[b] = Cut(sps[b], i - 1)
      /\ \A g \in Frames : g # b => sps'[g] = sps[g]
  BY <1>2, <1>3, <1>4, <1>6
<1>8. /\ "released" \in Status \ {"open"} /\ Become(f, "released") /\ Pop(t)
      /\ UNCHANGED <<nframes, nwrites, ncalls, pc, inherited, target, open, ran>>
      /\ callbacks' \in [Frames -> Seq(Callback)]
  BY <1>f, <1>4 DEF ReleaseSavepoint, Status, counters
<1>go. /\ pc[t] \in {"run", "beginning"} /\ stack[t] # <<>>
       /\ ~IsOuter(Top(t)) /\ Goto(t, "run")
  BY <1>1, <1>8, LeavesNestedGoes
<1>9. CASE sps[b][i].outside
  <2>1. ~open[b] /\ (Settled(b) \/ log[b] = <<>>)
    BY <1>1, <1>2, <1>5, <1>9 DEF SavepointsAreInside
  <2>2. /\ log' \in [Frames -> Seq(Write)] /\ log'[b] = <<>>
        /\ begun' \in [Frames -> BOOLEAN]
        /\ \A g \in Frames : g # b => log'[g] = log[g] /\ begun'[g] = begun[g]
        /\ durable' = durable \cup Elements(log[b])
    <3>1. <<>> \in Seq(Write)
      OBVIOUS
    <3> QED BY <1>2, <1>3, <1>4, <1>9, <3>1
  <2>3. \A j \in DOMAIN log'[b] : j \in DOMAIN log[b] /\ log'[b][j] = log[b][j]
    BY <2>2
  <2>4. \A j \in DOMAIN sps'[b] : j \in DOMAIN sps[b] /\ sps'[b][j] = sps[b][j]
    BY ONLY <1>6, <1>7
  <2>5. \A g \in Frames : g # b => /\ log'[g] = log[g] /\ sps'[g] = sps[g]
                                   /\ begun'[g] = begun[g]
    BY ONLY <1>7, <2>2
  <2>6. NestedExit(t, f, b, "released")
    BY ONLY <1>f, <1>b, <1>go, <1>7, <1>8, <2>1, <2>2, <2>3, <2>4, <2>5
       DEF NestedExit
  <2> QED BY <1>8, <2>6, LeaveNestedStep
<1>10. CASE ~sps[b][i].outside
  <2>1. UNCHANGED <<durable, log, begun>>
    BY <1>3, <1>10
  <2>2. NestedExit(t, f, b, "released")
    BY ONLY <1>f, <1>b, <1>go, <1>4, <1>6, <1>7, <1>8, <2>1 DEF NestedExit
  <2> QED BY <1>8, <2>2, LeaveNestedStep
<1> QED BY <1>9, <1>10

(* Rolling back to a savepoint cuts the log and commits nothing.          *)
LEMMA RollbackSavepointStep ==
  ASSUME DurabilityInv, NEW t \in Tasks, RollbackSavepoint(t)
  PROVE  DurabilityInv'
<1>f. PICK f : f = Top(t)
  OBVIOUS
<1>b. PICK b : b = frame[f].block
  OBVIOUS
<1>1. /\ TypeOK /\ NamesAreUsed /\ SavepointsAreInside
      /\ LeavesNested(t) /\ stack[t] # <<>> /\ t \in Tasks
  BY DEF DurabilityInv, RollbackSavepoint, LeavesNested
<1>2. f \in Frames /\ b \in Used /\ b \in Frames
  BY <1>f, <1>b, <1>1, TopProperties
<1>3. PICK i \in SavepointOf(f) : RollbackTo(b, i)
  BY <1>f, <1>b DEF RollbackSavepoint
<1>4. /\ sps \in [Frames -> Seq(Savepoint)] /\ log \in [Frames -> Seq(Write)]
      /\ begun \in [Frames -> BOOLEAN] /\ callbacks \in [Frames -> Seq(Callback)]
      /\ frame[f].mark \in Nat
  BY <1>1, <1>2 DEF TypeOK, Frame
<1>5. i \in DOMAIN sps[b] /\ i - 1 \in Nat /\ sps[b][i].mark \in Nat
  <2>1. i \in DOMAIN sps[b] /\ DOMAIN sps[b] = 1 .. Len(sps[b]) /\ Len(sps[b]) \in Nat
    BY <1>b, <1>2, <1>4, LenProperties DEF SavepointOf
  <2>2. sps[b][i] \in Savepoint
    BY <1>2, <1>4, <2>1, ElementOfSeq
  <2> QED BY <2>1, <2>2 DEF Savepoint
<1>6. /\ Cut(sps[b], i - 1) \in Seq(Savepoint)
      /\ \A j \in DOMAIN Cut(sps[b], i - 1) :
           j \in DOMAIN sps[b] /\ Cut(sps[b], i - 1)[j] = sps[b][j]
  <2>1. sps[b] \in Seq(Savepoint)
    BY <1>2, <1>4
  <2> QED BY ONLY <1>5, <2>1, CutProperties
<1>7. /\ Cut(log[b], sps[b][i].mark) \in Seq(Write)
      /\ \A j \in DOMAIN Cut(log[b], sps[b][i].mark) :
           j \in DOMAIN log[b] /\ Cut(log[b], sps[b][i].mark)[j] = log[b][j]
      /\ log[b] = <<>> => Cut(log[b], sps[b][i].mark) = <<>>
  <2>1. log[b] \in Seq(Write)
    BY <1>2, <1>4
  <2> QED BY ONLY <1>5, <2>1, CutProperties
<1>8. /\ sps' \in [Frames -> Seq(Savepoint)] /\ log' \in [Frames -> Seq(Write)]
      /\ sps'[b] = Cut(sps[b], i - 1) /\ log'[b] = Cut(log[b], sps[b][i].mark)
      /\ \A g \in Frames : g # b => sps'[g] = sps[g] /\ log'[g] = log[g]
  BY <1>2, <1>3, <1>4, <1>6, <1>7 DEF RollbackTo
<1>9. callbacks' \in [Frames -> Seq(Callback)]
  <2>1. Cut(callbacks[b], frame[f].mark) \in Seq(Callback)
    BY <1>2, <1>4, CutProperties
  <2>2. callbacks' = [callbacks EXCEPT ![b] = Cut(callbacks[b], frame[f].mark)]
    BY <1>f, <1>b DEF RollbackSavepoint, Discard
  <2> QED BY <1>4, <2>1, <2>2
<1>10. /\ "rolledback" \in Status \ {"open"} /\ Become(f, "rolledback") /\ Pop(t)
       /\ UNCHANGED <<nframes, nwrites, ncalls, pc, inherited, target, open,
                      begun, durable, ran>>
  BY <1>f DEF RollbackSavepoint, Status, counters
<1>go. /\ pc[t] \in {"run", "beginning"} /\ stack[t] # <<>>
       /\ ~IsOuter(Top(t)) /\ Goto(t, "run")
  BY <1>1, <1>10, LeavesNestedGoes
<1>11. NestedExit(t, f, b, "rolledback")
  <2>1. /\ \A j \in DOMAIN log'[b] : j \in DOMAIN log[b] /\ log'[b][j] = log[b][j]
        /\ \A j \in DOMAIN sps'[b] : j \in DOMAIN sps[b] /\ sps'[b][j] = sps[b][j]
        /\ log[b] = <<>> => log'[b] = <<>>
    BY ONLY <1>6, <1>7, <1>8
  <2>2. /\ begun' = begun /\ durable' = durable /\ begun' \in [Frames -> BOOLEAN]
        /\ UNCHANGED <<nframes, nwrites, ncalls, inherited, target, open, ran>>
    BY ONLY <1>4, <1>10
  <2> QED BY ONLY <1>f, <1>b, <1>go, <1>8, <1>9, <1>10, <2>1, <2>2 DEF NestedExit
<1> QED BY <1>10, <1>11, LeaveNestedStep

(* The savepoint is left as it is. *)
LEMMA AbandonStep ==
  ASSUME DurabilityInv, NEW t \in Tasks,
         SavepointGone(t) \/ NestedCancelled(t) \/ BeginRefused(t)
  PROVE  DurabilityInv'
<1>1. /\ pc[t] \in {"run", "beginning"} /\ stack[t] # <<>>
      /\ ~IsOuter(Top(t)) /\ Goto(t, "run")
  <2>1. CASE SavepointGone(t) \/ NestedCancelled(t)
    BY <2>1, LeavesNestedGoes DEF DurabilityInv, SavepointGone, NestedCancelled
  <2>2. CASE BeginRefused(t)
    BY <2>2 DEF DurabilityInv, TasksAreSomewhere, BeginRefused
  <2> QED BY <2>1, <2>2
<1>2. PICK st \in Status \ {"open"} : Become(Top(t), st)
  BY DEF SavepointGone, NestedCancelled, BeginRefused, Status
<1>3. /\ Pop(t)
      /\ UNCHANGED <<nframes, nwrites, ncalls, inherited, target, open,
                     callbacks, log, sps, begun, durable, ran>>
  BY DEF SavepointGone, NestedCancelled, BeginRefused, counters, session
<1>4. /\ sps \in [Frames -> Seq(Savepoint)] /\ log \in [Frames -> Seq(Write)]
      /\ begun \in [Frames -> BOOLEAN] /\ callbacks \in [Frames -> Seq(Callback)]
  BY DEF DurabilityInv, TypeOK
<1>5. NestedExit(t, Top(t), frame[Top(t)].block, st)
  BY <1>1, <1>2, <1>3, <1>4 DEF NestedExit
<1> QED BY <1>5, LeaveNestedStep
-----------------------------------------------------------------------------
(* Steps that enter and leave no block. *)

SameBlocks ==
  /\ UNCHANGED <<nframes, stack, open>>
  /\ frame' \in [Frames -> Frame]
  /\ \A g \in Frames : frame'[g].block = frame[g].block
  /\ \A g \in Frames : IsOuter(g) => frame'[g].status = frame[g].status

(* The task t moves to l, its target to tg, and may do so. *)
Moves(t, l, tg) ==
  /\ pc' = [pc EXCEPT ![t] = l]
  /\ target' = [target EXCEPT ![t] = tg]
  /\ tg.block \in 0 .. nframes
  /\ pc[t] \in {"committing", "undoing"} =>
       l \in {"committing", "undoing"} /\ tg.block = target[t].block
  /\ l \in {"entering", "beginning", "begun"} => stack[t] # <<>> /\ ~IsOuter(Top(t))
  /\ l = "begun" => begun'[frame[Top(t)].block]
  /\ l \in {"committing", "undoing"} =>
       stack[t] # <<>> /\ IsOuter(Top(t)) /\ tg.block = Top(t)
  /\ l \in {"closing", "calling"} => tg.block \in Used /\ ~open[tg.block]
  /\ l = "writing" =>
       /\ tg.in \in Used /\ frame[tg.in].block = tg.block /\ tg.id # 0
       /\ open[tg.block]
       /\ \E u \in Tasks \ {t} : /\ pc[u] \in {"committing", "undoing"}
                                 /\ target[u].block = tg.block

(* What a step may do to the transactions. *)
KeepsSessions ==
  /\ \A g \in Frames : \A i \in DOMAIN log'[g] :
       log'[g][i].in \in Used /\ frame[log'[g][i].in].block = g
  /\ \A g \in Frames \ Used : sps'[g] = <<>> /\ log'[g] = <<>>
  /\ \A g \in Frames : ~begun'[g] => log'[g] = <<>>
  /\ \A g \in Frames : open[g] /\ begun[g] => begun'[g]
  /\ \A g \in Used : IsOuter(g) => \A i \in DOMAIN sps'[g] :
       sps'[g][i].outside => ~open[g] /\ (Settled(g) \/ log'[g] = <<>>)
  /\ \A w \in durable' : w \in durable \/ w.in = 0

(* Steps that leave the sessions alone.                                   *)
LEMMA KeptSessions ==
  ASSUME DurabilityInv, UNCHANGED <<log, sps, durable>>,
         \A g \in Frames : begun[g] => begun'[g]
  PROVE  KeepsSessions
BY DEF DurabilityInv, NamesAreUsed, LogIsOfBlock, SavepointsAreInside, KeepsSessions

(* Steps that only move a task.                                           *)
LEMMA MoveStep ==
  ASSUME DurabilityInv, TypeOK', NEW t \in Tasks, NEW l \in PC, NEW tg,
         SameBlocks, KeepsSessions, Moves(t, l, tg),
         \A u \in Tasks : \A a \in Aliases : inherited'[u][a] \in 0 .. nframes
  PROVE  DurabilityInv'
<1>inv. /\ TypeOK /\ NamesAreUsed /\ StacksAreDisjoint /\ TasksAreSomewhere
        /\ LogIsOfBlock /\ WaitingIsForCommit /\ SavepointsAreInside
        /\ DurableNames /\ DurableOnlyThroughCommit
  BY DEF DurabilityInv
<1>use. nframes \in Nat /\ Used \subseteq Frames /\ Frames \subseteq Nat \ {0}
  BY <1>inv, UsedIsFrames
<1>same. Used' = Used /\ nframes' = nframes /\ stack' = stack /\ open' = open
  BY DEF Used, SameBlocks
<1>bl. \A g \in Frames : frame'[g].block = frame[g].block
  BY DEF SameBlocks
<1>io. \A g \in Frames : IsOuter(g)' = IsOuter(g)
  BY <1>bl DEF IsOuter
<1>set. \A g \in Frames : IsOuter(g) =>
          frame'[g].status = frame[g].status /\ Settled(g)' = Settled(g)
  BY DEF SameBlocks, Settled
<1>in. \A g \in Used : frame[g].block \in Used /\ IsOuter(frame[g].block)
  BY <1>inv DEF NamesAreUsed
<1>pc. /\ pc'[t] = l /\ target'[t] = tg
       /\ \A u \in Tasks : u # t => pc'[u] = pc[u] /\ target'[u] = target[u]
  BY <1>inv DEF TypeOK, Moves
<1>top. \A u \in Tasks : Top(u)' = Top(u)
  BY <1>same DEF Top
<1>used. \A u \in Tasks : stack[u] # <<>> =>
           /\ Top(u) \in Used /\ frame[Top(u)].block \in Used
           /\ IsOuter(frame[Top(u)].block)
  BY <1>inv, TopProperties
<1>1. NamesAreUsed'
  <2>1. \A g \in Used' : frame'[g].block \in Used' /\ IsOuter(frame[g].block)'
    BY ONLY <1>use, <1>same, <1>bl, <1>in DEF IsOuter
  <2>2. \A u \in Tasks : target'[u].block \in 0 .. nframes'
    BY <1>inv, <1>same, <1>pc DEF NamesAreUsed, Moves
  <2>3. \A g \in Frames \ Used' : sps'[g] = <<>> /\ log'[g] = <<>> /\ ~open'[g]
    BY <1>inv, <1>same DEF NamesAreUsed, KeepsSessions
  <2> QED BY <1>inv, <1>same, <2>1, <2>2, <2>3 DEF NamesAreUsed
<1>2. StacksAreDisjoint'
  <2>1. \A u, v \in Tasks : \A i \in DOMAIN stack'[u], j \in DOMAIN stack'[v] :
          stack'[u][i] = stack'[v][j] => u = v /\ i = j
    BY ONLY <1>inv, <1>same DEF StacksAreDisjoint
  <2>2. ASSUME NEW u \in Tasks, NEW i \in DOMAIN stack'[u], IsOuter(stack[u][i])'
        PROVE  open'[stack'[u][i]]
    <3>1. i \in DOMAIN stack[u] /\ stack[u][i] \in Frames /\ IsOuter(stack[u][i])
      BY <1>inv, <1>same, <1>use, <1>io, <2>2 DEF NamesAreUsed, IsOuter
    <3> QED BY <1>inv, <1>same, <3>1 DEF StacksAreDisjoint
  <2>3. \A g \in Used' : open'[g] => IsOuter(g)' /\ frame'[g].status = "open"
    BY ONLY <1>inv, <1>same, <1>io, <1>set, <1>use DEF StacksAreDisjoint
  <2> QED BY <2>1, <2>2, <2>3 DEF StacksAreDisjoint
<1>3. TasksAreSomewhere'
  <2> SUFFICES ASSUME NEW u \in Tasks
               PROVE  TasksAreSomewhere!(u)'
    BY DEF TasksAreSomewhere
  <2>1. stack[u] # <<>> => IsOuter(Top(u))' = IsOuter(Top(u))
    BY <1>io, <1>top, <1>used, <1>use DEF IsOuter
  <2>2. CASE u = t
    BY <1>same, <1>pc, <1>top, <2>1, <2>2 DEF Moves
  <2>3. CASE u # t
    BY <1>inv, <1>same, <1>pc, <1>top, <2>1, <2>3 DEF TasksAreSomewhere
  <2> QED BY <2>2, <2>3
<1>4. LogIsOfBlock'
  <2>1. \A g \in Frames : \A i \in DOMAIN log'[g] :
          log'[g][i].in \in Used /\ frame'[log'[g][i].in].block = g
    BY <1>bl, <1>use DEF KeepsSessions
  <2>2. ASSUME NEW u \in Tasks, pc'[u] = "writing"
        PROVE  target'[u].in \in Used /\ frame'[target'[u].in].block = target'[u].block
    <3>1. CASE u = t
      <4>1. /\ target'[u] = tg /\ l = "writing"
            /\ tg.in \in Used /\ frame[tg.in].block = tg.block
        BY <1>pc, <2>2, <3>1 DEF Moves
      <4> QED BY ONLY <1>bl, <1>use, <4>1
    <3>2. CASE u # t
      <4>1. pc[u] = "writing" /\ target'[u] = target[u]
        BY <1>pc, <2>2, <3>2
      <4>2. target[u].in \in Used /\ frame[target[u].in].block = target[u].block
        BY <1>inv, <4>1 DEF LogIsOfBlock
      <4> QED BY ONLY <1>bl, <1>use, <4>1, <4>2
    <3> QED BY <3>1, <3>2
  <2> QED BY <1>same, <2>1, <2>2 DEF LogIsOfBlock
<1>5. WaitingIsForCommit'
  <2> SUFFICES ASSUME NEW u \in Tasks, pc'[u] = "writing"
               PROVE  WaitingIsForCommit!(u)!2'
    BY DEF WaitingIsForCommit
  <2>1. ASSUME NEW v \in Tasks, pc[v] \in {"committing", "undoing"}
        PROVE  /\ pc'[v] \in {"committing", "undoing"}
               /\ target'[v].block = target[v].block
    BY <1>pc, <2>1 DEF Moves
  <2>2. CASE u = t
    BY <1>same, <1>pc, <2>1, <2>2 DEF Moves
  <2>3. CASE u # t
    <3>1. /\ pc[u] = "writing" /\ target'[u] = target[u]
          /\ target[u].block \in Used /\ IsOuter(target[u].block)
      BY <1>inv, <1>in, <1>pc, <2>3 DEF LogIsOfBlock
    <3>2. Settled(target[u].block)' = Settled(target[u].block)
      BY <1>set, <1>use, <3>1 DEF Settled
    <3> QED BY <1>inv, <1>same, <2>1, <3>1, <3>2 DEF WaitingIsForCommit
  <2> QED BY <2>2, <2>3
<1>6. SavepointsAreInside'
  <2>1. ASSUME NEW u \in Tasks, pc'[u] = "begun", open'[frame'[Top(u)'].block]
        PROVE  begun'[frame'[Top(u)'].block]
    <3>1. stack[u] # <<>>
      BY <1>same, <1>3, <2>1 DEF TasksAreSomewhere
    <3>2. /\ frame'[Top(u)'].block = frame[Top(u)].block
          /\ frame[Top(u)].block \in Frames
      BY <1>bl, <1>top, <1>used, <1>use, <3>1
    <3>3. CASE u = t
      BY <1>pc, <2>1, <3>2, <3>3 DEF Moves
    <3>4. CASE u # t
      <4>1. pc[u] = "begun" /\ open[frame[Top(u)].block]
        BY <1>pc, <1>same, <2>1, <3>2, <3>4
      <4> QED BY <1>inv, <3>2, <4>1 DEF SavepointsAreInside, KeepsSessions
    <3> QED BY <3>3, <3>4
  <2>2. ASSUME NEW g \in Used', IsOuter(g)', NEW i \in DOMAIN sps'[g],
               sps'[g][i].outside
        PROVE  ~open'[g] /\ (Settled(g)' \/ log'[g] = <<>>)
    <3>1. g \in Used /\ g \in Frames /\ IsOuter(g) /\ Settled(g)' = Settled(g)
      BY <1>same, <1>use, <1>io, <1>set, <2>2
    <3> QED BY <1>same, <2>2, <3>1 DEF KeepsSessions
  <2> QED BY <2>1, <2>2 DEF SavepointsAreInside, KeepsSessions
<1>7. DurableNames'
  BY <1>inv, <1>same, <1>use DEF DurableNames, KeepsSessions
<1>8. DurableOnlyThroughCommit'
  <2> SUFFICES ASSUME NEW w \in durable', w.in # 0
               PROVE  frame'[frame'[w.in].block].status \in {"committed", "indoubt"}
    BY DEF DurableOnlyThroughCommit
  <2>1. w \in durable /\ w.in # 0 /\ w.in \in Used
    BY <1>inv, <1>use DEF DurableNames, Used, KeepsSessions
  <2>2. frame[frame[w.in].block].status \in {"committed", "indoubt"}
    BY ONLY <1>inv, <2>1 DEF DurableOnlyThroughCommit
  <2> QED BY <1>bl, <1>set, <1>use, <1>in, <2>1, <2>2
<1> QED BY <1>1, <1>2, <1>3, <1>4, <1>5, <1>6, <1>7, <1>8 DEF DurabilityInv
(* Steps that leave the frames alone.                                     *)
LEMMA SameFrames ==
  ASSUME TypeOK, UNCHANGED <<frame, nframes, stack, open>>
  PROVE  SameBlocks
BY DEF TypeOK, SameBlocks

(* BEGIN before a SAVEPOINT.                                              *)
LEMMA BeginTransactionStep ==
  ASSUME DurabilityInv, NEW t \in Tasks, BeginTransaction(t)
  PROVE  DurabilityInv'
<1>1. /\ TypeOK /\ NamesAreUsed /\ TasksAreSomewhere
      /\ pc[t] = "beginning" /\ "begun" \in PC
  BY DEF DurabilityInv, BeginTransaction, PC
<1>2. stack[t] # <<>> /\ ~IsOuter(Top(t)) /\ frame[Top(t)].block \in Frames
  BY <1>1, TopProperties DEF TasksAreSomewhere
<1>3. begun' = [begun EXCEPT ![frame[Top(t)].block] = TRUE]
  BY DEF BeginTransaction, BeginDriver
<1>4. /\ UNCHANGED <<frame, nframes, nwrites, ncalls, stack, inherited, target,
                     open, callbacks, log, sps, durable, ran>>
      /\ pc' = [pc EXCEPT ![t] = "begun"]
  BY DEF BeginTransaction, Goto, counters
<1>5. TypeOK'
  BY <1>1, <1>2, <1>3, <1>4 DEF TypeOK
<1>6. \A g \in Frames : begun[g] => begun'[g]
  BY <1>1, <1>3 DEF TypeOK
<1>7. begun'[frame[Top(t)].block]
  BY <1>1, <1>2, <1>3 DEF TypeOK
<1>8. Moves(t, "begun", target[t])
  BY <1>1, <1>2, <1>4, <1>7 DEF Moves, TypeOK, NamesAreUsed
<1>9. \A u \in Tasks : \A a \in Aliases : inherited'[u][a] \in 0 .. nframes
  BY <1>1, <1>4 DEF NamesAreUsed
<1> QED BY ONLY DurabilityInv, t \in Tasks, <1>1, <1>4, <1>5, <1>6, <1>8, <1>9,
           SameFrames, KeptSessions, MoveStep

(* Whether a BEGIN is needed before a SAVEPOINT.                          *)
LEMMA CheckTransactionStep ==
  ASSUME DurabilityInv, NEW t \in Tasks, CheckTransaction(t)
  PROVE  DurabilityInv'
<1> DEFINE b == frame[Top(t)].block
           l == IF begun[b] THEN "begun" ELSE "beginning"
<1>1. /\ TypeOK /\ NamesAreUsed /\ TasksAreSomewhere
      /\ pc[t] = "entering" /\ l \in PC
  BY DEF DurabilityInv, CheckTransaction, PC
<1>2. stack[t] # <<>> /\ ~IsOuter(Top(t))
  BY <1>1 DEF TasksAreSomewhere
<1>3. UNCHANGED <<frame, nframes, nwrites, ncalls, stack, inherited, target,
                  open, callbacks, log, sps, begun, durable, ran>>
  BY DEF CheckTransaction, counters, session
<1>4. pc' = [pc EXCEPT ![t] = l]
  BY DEF CheckTransaction, Goto
<1>5. TypeOK'
  BY <1>1, <1>3, <1>4 DEF TypeOK
<1>6. Moves(t, l, target[t])
  BY <1>1, <1>2, <1>3, <1>4 DEF Moves, TypeOK, NamesAreUsed
<1>7. \A u \in Tasks : \A a \in Aliases : inherited'[u][a] \in 0 .. nframes
  BY <1>1, <1>3 DEF NamesAreUsed
<1>8. \A g \in Frames : begun[g] => begun'[g]
  BY <1>3
<1> HIDE DEF l
<1> QED BY ONLY DurabilityInv, t \in Tasks, <1>1, <1>3, <1>5, <1>6, <1>7, <1>8,
           SameFrames, KeptSessions, MoveStep

(* Only the task t moves. *)
LEMMA ControlStep ==
  ASSUME DurabilityInv, NEW t \in Tasks, NEW l \in PC,
         NEW tg \in [block : Frames0, in : Frames0, id : 0 .. MaxWrites],
         Moves(t, l, tg),
         UNCHANGED <<frame, nframes, stack, open, log, sps, begun, durable>>,
         nwrites' \in 0 .. MaxWrites, ncalls' \in 0 .. MaxCallbacks,
         callbacks' \in [Frames -> Seq(Callback)], ran' \in Seq(Callback),
         inherited' \in [Tasks -> [Aliases -> 0 .. nframes]]
  PROVE  DurabilityInv'
<1>1. TypeOK
  BY DEF DurabilityInv
<1>2. 0 .. nframes \subseteq Frames0
  BY <1>1, AtomicAssumption DEF TypeOK, Frames0
<1>3. inherited' \in [Tasks -> [Aliases -> Frames0]]
  BY <1>2
<1>4. TypeOK'
  BY <1>1, <1>3 DEF TypeOK, Moves
<1>5. SameBlocks /\ KeepsSessions
  BY <1>1, SameFrames, KeptSessions
<1>6. \A u \in Tasks : \A a \in Aliases : inherited'[u][a] \in 0 .. nframes
  OBVIOUS
<1> QED BY <1>4, <1>5, <1>6, MoveStep

(* What holds before and after a step that leaves a variable alone. *)
LEMMA ControlFacts ==
  ASSUME DurabilityInv
  PROVE  /\ nwrites \in 0 .. MaxWrites /\ ncalls \in 0 .. MaxCallbacks
         /\ callbacks \in [Frames -> Seq(Callback)] /\ ran \in Seq(Callback)
         /\ inherited \in [Tasks -> [Aliases -> 0 .. nframes]]
         /\ NoTarget \in [block : Frames0, in : Frames0, id : 0 .. MaxWrites]
         /\ NoTarget.block = 0 /\ 0 \in 0 .. nframes
         /\ \A t \in Tasks :
              /\ target[t] \in [block : Frames0, in : Frames0, id : 0 .. MaxWrites]
              /\ target[t].block \in 0 .. nframes
              /\ [target EXCEPT ![t] = target[t]] = target
              /\ [pc EXCEPT ![t] = pc[t]] = pc
              /\ pc[t] \in PC
<1>1. TypeOK /\ NamesAreUsed /\ nframes \in Nat
  BY UsedIsFrames DEF DurabilityInv
<1>2. inherited \in [Tasks -> [Aliases -> 0 .. nframes]]
  BY <1>1 DEF TypeOK, NamesAreUsed
<1>3. NoTarget \in [block : Frames0, in : Frames0, id : 0 .. MaxWrites]
  BY AtomicAssumption DEF NoTarget, Frames0
<1>4. NoTarget.block = 0
  BY DEF NoTarget
<1> QED BY <1>1, <1>2, <1>3, <1>4 DEF TypeOK, NamesAreUsed

(* A task ends.                                                           *)
LEMMA FinishStep ==
  ASSUME DurabilityInv, NEW t \in Tasks, Finish(t)
  PROVE  DurabilityInv'
<1>1. pc[t] = "run" /\ "done" \in PC
  BY DEF Finish, PC
<1>2. /\ UNCHANGED <<frame, nframes, nwrites, ncalls, stack, inherited, target,
                     open, callbacks, log, sps, begun, durable, ran>>
      /\ pc' = [pc EXCEPT ![t] = "done"]
  BY DEF Finish, Goto, counters, session
<1>3. Moves(t, "done", target[t])
  BY <1>1, <1>2, ControlFacts DEF Moves
<1> QED BY <1>1, <1>2, <1>3, ControlFacts, ControlStep

(* A task is created, in a copy of the context.                           *)
LEMMA SpawnStep ==
  ASSUME DurabilityInv, NEW t \in Tasks, NEW u \in Tasks, Spawn(t, u)
  PROVE  DurabilityInv'
<1>1. pc[u] = "new" /\ "run" \in PC /\ TypeOK /\ NamesAreUsed
  BY DEF Spawn, PC, DurabilityInv
<1>2. /\ UNCHANGED <<frame, nframes, nwrites, ncalls, stack, target,
                     open, callbacks, log, sps, begun, durable, ran>>
      /\ pc' = [pc EXCEPT ![u] = "run"]
      /\ inherited' =
           [inherited EXCEPT ![u] = [a \in Aliases |-> Enclosing(t, a)]]
  BY DEF Spawn, Goto, counters, session
<1>3. Moves(u, "run", target[u])
  BY <1>1, <1>2, ControlFacts DEF Moves
<1>4. [a \in Aliases |-> Enclosing(t, a)] \in [Aliases -> 0 .. nframes]
  BY <1>1, EnclosingProperties
<1>5. inherited' \in [Tasks -> [Aliases -> 0 .. nframes]]
  BY <1>2, <1>4, ControlFacts
<1> QED BY <1>1, <1>2, <1>3, <1>5, ControlFacts, ControlStep

(* Registering a callback writes nothing.                                 *)
LEMMA OnCommitStep ==
  ASSUME DurabilityInv, NEW t \in Tasks, NEW a \in Aliases, NEW r \in BOOLEAN,
         OnCommit(t, a, r)
  PROVE  DurabilityInv'
<1> DEFINE b == OpenBlock(t, a)
           c == [id |-> ncalls + 1, in |-> Enclosing(t, a), robust |-> r]
<1>1. pc[t] = "run" /\ "run" \in PC /\ TypeOK /\ NamesAreUsed /\ b # 0
  BY DEF OnCommit, MayRegister, PC, DurabilityInv
<1>2. b \in Frames /\ Enclosing(t, a) \in Frames
  BY <1>1, EnclosingProperties, UsedIsFrames
<1>3. ncalls + 1 \in 1 .. MaxCallbacks /\ ncalls' = ncalls + 1
  BY AtomicAssumption, ControlFacts DEF OnCommit, MayRegister
<1>4. c \in Callback
  BY <1>2, <1>3 DEF Callback
<1>5. /\ UNCHANGED <<frame, nframes, nwrites, pc, stack, inherited, target,
                     open, log, sps, begun, durable, ran>>
      /\ callbacks' = [callbacks EXCEPT ![b] = Append(callbacks[b], c)]
  BY DEF OnCommit
<1>6. callbacks' \in [Frames -> Seq(Callback)]
  <2> HIDE DEF b, c
  <2>1. Append(callbacks[b], c) \in Seq(Callback)
    BY <1>2, <1>4, ControlFacts
  <2> QED BY <1>5, <2>1, ControlFacts
<1>7. Moves(t, pc[t], target[t])
  BY <1>1, <1>5, ControlFacts DEF Moves
<1>8. ncalls' \in 0 .. MaxCallbacks
  BY <1>3
<1> HIDE DEF b, c
<1> QED BY <1>5, <1>6, <1>7, <1>8, ControlFacts, ControlStep

(* The outermost commit takes the session lock.                           *)
LEMMA CommitStartStep ==
  ASSUME DurabilityInv, NEW t \in Tasks, CommitStart(t)
  PROVE  DurabilityInv'
<1> DEFINE tg == [NoTarget EXCEPT !.block = Top(t)]
<1>1. /\ TypeOK /\ NamesAreUsed /\ "committing" \in PC
      /\ pc[t] = "run" /\ stack[t] # <<>> /\ IsOuter(Top(t))
  BY DEF CommitStart, LeavesOuter, DurabilityInv, PC
<1>2. Top(t) \in Used /\ Top(t) \in Frames0 /\ Used \subseteq 0 .. nframes
  BY <1>1, TopProperties, UsedIsFrames DEF Used, Frames, Frames0
<1>3. /\ tg \in [block : Frames0, in : Frames0, id : 0 .. MaxWrites]
      /\ tg.block = Top(t)
  BY <1>2, AtomicAssumption DEF NoTarget, Frames0
<1>4. /\ UNCHANGED <<frame, nframes, nwrites, ncalls, stack, inherited,
                     open, callbacks, log, sps, begun, durable, ran>>
      /\ pc' = [pc EXCEPT ![t] = "committing"]
      /\ target' = [target EXCEPT ![t] = tg]
  BY DEF CommitStart, Goto, counters, session
<1> HIDE DEF tg
<1>5. Moves(t, "committing", tg)
  BY <1>1, <1>2, <1>3, <1>4 DEF Moves
<1> QED BY <1>1, <1>3, <1>4, <1>5, ControlFacts, ControlStep

(* The database refuses the commit; the rollback is still to come.        *)
LEMMA CommitFailsStep ==
  ASSUME DurabilityInv, NEW t \in Tasks, CommitFails(t)
  PROVE  DurabilityInv'
<1>1. pc[t] = "committing" /\ "undoing" \in PC
  BY DEF CommitFails, PC
<1>2. stack[t] # <<>> /\ IsOuter(Top(t)) /\ target[t].block = Top(t)
  BY <1>1 DEF DurabilityInv, TasksAreSomewhere
<1>3. /\ UNCHANGED <<frame, nframes, nwrites, ncalls, stack, inherited, target,
                     open, callbacks, log, sps, begun, durable, ran>>
      /\ pc' = [pc EXCEPT ![t] = "undoing"]
  BY DEF CommitFails, Goto, counters, session
<1>4. Moves(t, "undoing", target[t])
  BY <1>1, <1>2, <1>3, ControlFacts DEF Moves
<1> QED BY <1>1, <1>3, <1>4, ControlFacts, ControlStep
(* A write waits for the lock of a committing session.                    *)
LEMMA WriteWaitsStep ==
  ASSUME DurabilityInv, NEW t \in Tasks, NEW a \in Aliases, WriteWaits(t, a)
  PROVE  DurabilityInv'
<1> DEFINE b == OpenBlock(t, a)
           tg == [block |-> b, in |-> Enclosing(t, a), id |-> nwrites + 1]
<1>1. /\ TypeOK /\ NamesAreUsed /\ TasksAreSomewhere /\ "writing" \in PC
      /\ pc[t] = "run" /\ b # 0 /\ ~Idle(b) /\ nwrites < MaxWrites
  BY DEF WriteWaits, MayWrite, DurabilityInv, PC
<1>2. /\ Enclosing(t, a) \in Used /\ b = frame[Enclosing(t, a)].block
      /\ b \in Used /\ open[b]
  BY <1>1, EnclosingProperties
<1>3. b \in Frames0 /\ Enclosing(t, a) \in Frames0 /\ b \in 0 .. nframes
  BY <1>1, <1>2, UsedIsFrames DEF Used, Frames, Frames0
<1>4. PICK u \in Tasks : pc[u] = "committing" /\ target[u].block = b
  BY <1>1 DEF Idle
<1>5. nwrites + 1 \in 1 .. MaxWrites /\ nwrites' = nwrites + 1
  BY <1>1, AtomicAssumption, ControlFacts DEF WriteWaits, MayWrite
<1>6. /\ UNCHANGED <<frame, nframes, ncalls, stack, inherited, open, callbacks,
                     log, sps, begun, durable, ran>>
      /\ pc' = [pc EXCEPT ![t] = "writing"]
      /\ target' = [target EXCEPT ![t] = tg]
  BY DEF WriteWaits, Goto, session
<1>7. /\ tg.block = b /\ tg.in = Enclosing(t, a) /\ tg.id # 0
      /\ tg \in [block : Frames0, in : Frames0, id : 0 .. MaxWrites]
  BY <1>3, <1>5
<1>n. nwrites' \in 0 .. MaxWrites
  BY <1>5
<1> HIDE DEF b, tg
<1>8. Moves(t, "writing", tg)
  BY <1>1, <1>2, <1>3, <1>4, <1>6, <1>7 DEF Moves
<1> QED BY <1>1, <1>n, <1>6, <1>7, <1>8, ControlFacts, ControlStep

(* A callback runs.                                                       *)
LEMMA CallStep ==
  ASSUME DurabilityInv, NEW t \in Tasks,
         Call(t) \/ CallRaises(t) \/ CallsDone(t)
  PROVE  DurabilityInv'
<1> DEFINE f == target[t].block
<1>1. /\ TypeOK /\ TasksAreSomewhere /\ pc[t] = "calling" /\ f \in Used
      /\ ~open[f] /\ "run" \in PC
  BY DEF Call, CallRaises, CallsDone, DurabilityInv, TasksAreSomewhere, PC
<1>2. f \in Frames /\ callbacks[f] \in Seq(Callback)
  BY <1>1, UsedIsFrames, ControlFacts
<1>3. /\ UNCHANGED <<frame, nframes, nwrites, ncalls, stack, inherited, open,
                     log, sps, begun, durable>>
      /\ \/ UNCHANGED <<callbacks, ran>>
         \/ /\ callbacks[f] # <<>> /\ ran' = Append(ran, Head(callbacks[f]))
            /\ \/ callbacks' = [callbacks EXCEPT ![f] = Tail(callbacks[f])]
               \/ callbacks' = [callbacks EXCEPT ![f] = <<>>]
      /\ \/ UNCHANGED <<pc, target>>
         \/ /\ pc' = [pc EXCEPT ![t] = "run"]
            /\ target' = [target EXCEPT ![t] = NoTarget]
  BY DEF Call, CallRaises, CallsDone, NextCall, Return, Goto, counters, session
<1>4. callbacks' \in [Frames -> Seq(Callback)] /\ ran' \in Seq(Callback)
  <2>1. ASSUME callbacks[f] # <<>>
        PROVE  Tail(callbacks[f]) \in Seq(Callback) /\ Head(callbacks[f]) \in Callback
    BY <1>2, <2>1, HeadTailProperties
  <2>2. <<>> \in Seq(Callback)
    OBVIOUS
  <2>3. callbacks \in [Frames -> Seq(Callback)] /\ ran \in Seq(Callback)
    BY ControlFacts
  <2> HIDE DEF f
  <2>4. ran' \in Seq(Callback)
    BY <1>3, <2>1, <2>3, AppendProperties
  <2>5. callbacks' \in [Frames -> Seq(Callback)]
    BY ONLY <1>3, <2>1, <2>2, <2>3
  <2> QED BY <2>4, <2>5
<1> HIDE DEF f
<1>5. CASE UNCHANGED <<pc, target>>
  <2>1. Moves(t, pc[t], target[t])
    BY <1>1, <1>5, ControlFacts DEF Moves, f
  <2> QED BY <1>3, <1>4, <2>1, ControlFacts, ControlStep
<1>6. CASE /\ pc' = [pc EXCEPT ![t] = "run"]
           /\ target' = [target EXCEPT ![t] = NoTarget]
  <2>1. Moves(t, "run", NoTarget)
    BY <1>1, <1>6, ControlFacts DEF Moves
  <2> QED BY <1>1, <1>3, <1>4, <2>1, ControlFacts, ControlStep
<1> QED BY <1>3, <1>5, <1>6

(* Writes, and the ends of a session. *)
LEMMA WriteAutocommitsStep ==
  ASSUME DurabilityInv, NEW t \in Tasks, NEW a \in Aliases,
         WriteAutocommits(t, a)
  PROVE  DurabilityInv'
<1> DEFINE w == [id |-> nwrites + 1, in |-> 0]
<1>1. TypeOK /\ pc[t] = "run" /\ nwrites < MaxWrites
  BY DEF WriteAutocommits, MayWrite, DurabilityInv
<1>2. nwrites + 1 \in 1 .. MaxWrites /\ nwrites' = nwrites + 1
  BY <1>1, AtomicAssumption, ControlFacts DEF WriteAutocommits, MayWrite
<1>3. w \in Write /\ w.in = 0
  BY <1>2, AtomicAssumption DEF Write, Frames0
<1>4. /\ UNCHANGED <<frame, nframes, ncalls, pc, stack, inherited, target, open,
                     callbacks, log, sps, begun, ran>>
      /\ durable' = durable \cup {w}
  BY DEF WriteAutocommits, session
<1> HIDE DEF w
<1>5. TypeOK'
  BY <1>1, <1>2, <1>3, <1>4 DEF TypeOK
<1>6. SameBlocks
  BY <1>1, <1>4, SameFrames
<1>7. KeepsSessions
  BY <1>3, <1>4 DEF DurabilityInv, NamesAreUsed, LogIsOfBlock,
                     SavepointsAreInside, KeepsSessions
<1>8. Moves(t, pc[t], target[t])
  BY <1>1, <1>4, ControlFacts DEF Moves
<1>9. \A u \in Tasks : \A c \in Aliases : inherited'[u][c] \in 0 .. nframes
  BY <1>4, ControlFacts
<1> QED BY <1>5, <1>6, <1>7, <1>8, <1>9, ControlFacts, MoveStep

(* A write executes on a session that is open, or whose block has settled. *)
LEMMA ExecuteStep ==
  ASSUME DurabilityInv, NEW b \in Used, NEW w \in Write, Execute(b, w),
         w.in \in Used, frame[w.in].block = b, open[b] \/ Settled(b),
         UNCHANGED <<sps, durable>>
  PROVE  /\ KeepsSessions
         /\ log' \in [Frames -> Seq(Write)] /\ begun' \in [Frames -> BOOLEAN]
<1>1. /\ TypeOK /\ NamesAreUsed /\ LogIsOfBlock /\ SavepointsAreInside
      /\ b \in Frames /\ log \in [Frames -> Seq(Write)]
      /\ begun \in [Frames -> BOOLEAN]
  BY UsedIsFrames DEF DurabilityInv, TypeOK
<1>2. /\ Append(log[b], w) \in Seq(Write)
      /\ \A i \in DOMAIN Append(log[b], w) :
           \/ i \in DOMAIN log[b] /\ Append(log[b], w)[i] = log[b][i]
           \/ Append(log[b], w)[i] = w
  <2>1. log[b] \in Seq(Write)
    BY <1>1
  <2> QED BY <2>1, AppendProperties, LenProperties
<1>3. /\ log' = [log EXCEPT ![b] = Append(log[b], w)]
      /\ begun' = [begun EXCEPT ![b] = TRUE]
  BY DEF Execute
<1>4. /\ log' \in [Frames -> Seq(Write)] /\ begun' \in [Frames -> BOOLEAN]
      /\ log'[b] = Append(log[b], w) /\ begun'[b]
      /\ \A g \in Frames : g # b => log'[g] = log[g] /\ begun'[g] = begun[g]
  BY <1>1, <1>2, <1>3
<1>5. ASSUME NEW g \in Frames, NEW i \in DOMAIN log'[g]
      PROVE  log'[g][i].in \in Used /\ frame[log'[g][i].in].block = g
  <2>0. \A h \in Frames : \A j \in DOMAIN log[h] :
          log[h][j].in \in Used /\ frame[log[h][j].in].block = h
    BY <1>1 DEF LogIsOfBlock
  <2>1. CASE g = b
    <3>1. \/ i \in DOMAIN log[b] /\ log'[g][i] = log[b][i]
          \/ log'[g][i] = w
      BY ONLY <1>2, <1>4, <1>5, <2>1
    <3> QED BY ONLY <1>1, <2>0, <2>1, <3>1, w.in \in Used, frame[w.in].block = b
  <2>2. CASE g # b
    BY ONLY <1>4, <1>5, <2>0, <2>2
  <2> QED BY <2>1, <2>2
<1>6. \A g \in Frames \ Used : sps'[g] = <<>> /\ log'[g] = <<>>
  BY <1>1, <1>4 DEF NamesAreUsed
<1>7. \A g \in Frames : (~begun'[g] => log'[g] = <<>>) /\ (begun[g] => begun'[g])
  BY <1>1, <1>4 DEF SavepointsAreInside
<1>8. ASSUME NEW g \in Used, IsOuter(g), NEW i \in DOMAIN sps'[g],
             sps'[g][i].outside
      PROVE  ~open[g] /\ (Settled(g) \/ log'[g] = <<>>)
  <2>1. ~open[g] /\ (Settled(g) \/ log[g] = <<>>)
    BY <1>1, <1>8 DEF SavepointsAreInside
  <2> QED BY <1>4, <2>1, UsedIsFrames, <1>1
<1> QED BY <1>4, <1>5, <1>6, <1>7, <1>8 DEF KeepsSessions

(* A write joins the open block.                                          *)
LEMMA WriteJoinsStep ==
  ASSUME DurabilityInv, NEW t \in Tasks, NEW a \in Aliases, WriteJoins(t, a)
  PROVE  DurabilityInv'
<1> DEFINE b == OpenBlock(t, a)
           w == [id |-> nwrites + 1, in |-> Enclosing(t, a)]
<1>1. /\ TypeOK /\ NamesAreUsed
      /\ pc[t] = "run" /\ b # 0 /\ nwrites < MaxWrites /\ Execute(b, w)
  BY DEF WriteJoins, MayWrite, DurabilityInv
<1>2. /\ Enclosing(t, a) \in Used /\ b = frame[Enclosing(t, a)].block
      /\ b \in Used /\ open[b] /\ Enclosing(t, a) \in Frames0
  BY <1>1, EnclosingProperties, UsedIsFrames DEF Frames, Frames0
<1>3. nwrites + 1 \in 1 .. MaxWrites /\ nwrites' = nwrites + 1
  BY <1>1, AtomicAssumption, ControlFacts DEF WriteJoins, MayWrite
<1>4. w \in Write /\ w.in = Enclosing(t, a)
  BY <1>2, <1>3 DEF Write
<1>5. UNCHANGED <<frame, nframes, ncalls, pc, stack, inherited, target, open,
                  callbacks, sps, durable, ran>>
  BY DEF WriteJoins
<1> HIDE DEF b, w
<1>6. /\ KeepsSessions
      /\ log' \in [Frames -> Seq(Write)] /\ begun' \in [Frames -> BOOLEAN]
  BY <1>1, <1>2, <1>4, <1>5, ExecuteStep
<1>7. TypeOK'
  BY <1>1, <1>3, <1>5, <1>6 DEF TypeOK
<1>8. SameBlocks
  BY <1>1, <1>5, SameFrames
<1>9. Moves(t, pc[t], target[t])
  BY <1>1, <1>5, ControlFacts DEF Moves
<1>10. \A u \in Tasks : \A c \in Aliases : inherited'[u][c] \in 0 .. nframes
  BY <1>5, ControlFacts
<1> QED BY <1>6, <1>7, <1>8, <1>9, <1>10, ControlFacts, MoveStep

(* A write that waited for the lock executes.                             *)
LEMMA WriteResumesStep ==
  ASSUME DurabilityInv, NEW t \in Tasks, WriteResumes(t)
  PROVE  DurabilityInv'
<1> DEFINE b == target[t].block
           w == [id |-> target[t].id, in |-> target[t].in]
<1>1. /\ TypeOK /\ NamesAreUsed /\ LogIsOfBlock /\ WaitingIsForCommit
      /\ pc[t] = "writing" /\ "run" \in PC /\ Execute(b, w)
  BY DEF WriteResumes, DurabilityInv, PC
<1>2. target[t].in \in Used /\ frame[target[t].in].block = b /\ b \in Used
  BY <1>1 DEF LogIsOfBlock, NamesAreUsed
<1>3. open[b] \/ Settled(b)
  BY <1>1 DEF WaitingIsForCommit
<1>4. /\ target[t].id \in 1 .. MaxWrites /\ target[t].in \in Frames0
      /\ w \in Write /\ w.in = target[t].in
  BY <1>1, ControlFacts DEF DurabilityInv, TasksAreSomewhere, Write
<1>5. /\ UNCHANGED <<frame, nframes, nwrites, ncalls, stack, inherited, open,
                     callbacks, sps, durable, ran>>
      /\ pc' = [pc EXCEPT ![t] = "run"]
      /\ target' = [target EXCEPT ![t] = NoTarget]
  BY DEF WriteResumes, Return, Goto, counters
<1> HIDE DEF b, w
<1>6. /\ KeepsSessions
      /\ log' \in [Frames -> Seq(Write)] /\ begun' \in [Frames -> BOOLEAN]
  BY <1>1, <1>2, <1>3, <1>4, <1>5, ExecuteStep
<1>7. TypeOK'
  BY <1>1, <1>5, <1>6, ControlFacts DEF TypeOK
<1>8. SameBlocks
  BY <1>1, <1>5, SameFrames
<1>9. Moves(t, "run", NoTarget)
  BY <1>1, <1>5, ControlFacts DEF Moves
<1>10. \A u \in Tasks : \A c \in Aliases : inherited'[u][c] \in 0 .. nframes
  BY <1>5, ControlFacts
<1> QED BY <1>1, <1>6, <1>7, <1>8, <1>9, <1>10, MoveStep
(* The end of a transaction empties the session. *)
LEMMA EndTransactionStep ==
  ASSUME TypeOK, NEW f \in Frames, EndTransaction(f)
  PROVE  /\ log' \in [Frames -> Seq(Write)] /\ begun' \in [Frames -> BOOLEAN]
         /\ sps' \in [Frames -> Seq(Savepoint)]
         /\ log'[f] = <<>> /\ sps'[f] = <<>>
         /\ \A g \in Frames : g # f => /\ log'[g] = log[g] /\ sps'[g] = sps[g]
                                       /\ begun'[g] = begun[g]
<1>1. /\ log \in [Frames -> Seq(Write)] /\ begun \in [Frames -> BOOLEAN]
      /\ sps \in [Frames -> Seq(Savepoint)]
  BY DEF TypeOK
<1>2. <<>> \in Seq(Write) /\ <<>> \in Seq(Savepoint)
  OBVIOUS
<1> QED BY <1>1, <1>2 DEF EndTransaction

(* The session closes: what it still holds is rolled back.                *)
LEMMA CloseSessionStep ==
  ASSUME DurabilityInv, NEW t \in Tasks, CloseSession(t)
  PROVE  DurabilityInv'
<1>f. PICK f : f = target[t].block
  OBVIOUS
<1>1. /\ TypeOK /\ NamesAreUsed /\ LogIsOfBlock /\ SavepointsAreInside
      /\ pc[t] = "closing" /\ f \in Used /\ ~open[f]
      /\ "run" \in PC /\ "calling" \in PC
  BY <1>f DEF CloseSession, DurabilityInv, TasksAreSomewhere, PC
<1>2. f \in Frames
  BY <1>1, UsedIsFrames
<1>3. /\ log' \in [Frames -> Seq(Write)] /\ begun' \in [Frames -> BOOLEAN]
      /\ sps' \in [Frames -> Seq(Savepoint)]
      /\ log'[f] = <<>> /\ sps'[f] = <<>>
      /\ \A g \in Frames : g # f => /\ log'[g] = log[g] /\ sps'[g] = sps[g]
                                    /\ begun'[g] = begun[g]
  BY <1>f, <1>1, <1>2, EndTransactionStep DEF CloseSession
<1>4. UNCHANGED <<frame, nframes, nwrites, ncalls, stack, inherited, open,
                  callbacks, durable, ran>>
  BY DEF CloseSession, counters
<1>5. \/ /\ pc' = [pc EXCEPT ![t] = "calling"]
         /\ target' = [target EXCEPT ![t] = target[t]]
      \/ /\ pc' = [pc EXCEPT ![t] = "run"]
         /\ target' = [target EXCEPT ![t] = NoTarget]
  BY ControlFacts DEF CloseSession, Goto, Return
<1>6. Moves(t, "calling", target[t]) \/ Moves(t, "run", NoTarget)
  BY <1>f, <1>1, <1>5, ControlFacts DEF Moves
<1>7. TypeOK'
  <2>1. pc' \in [Tasks -> PC]
    BY <1>1, <1>5 DEF TypeOK
  <2>2. target' \in [Tasks -> [block : Frames0, in : Frames0, id : 0 .. MaxWrites]]
    BY <1>1, <1>5, ControlFacts DEF TypeOK
  <2> QED BY <1>1, <1>3, <1>4, <2>1, <2>2 DEF TypeOK
<1>8. SameBlocks
  BY <1>1, <1>4, SameFrames
<1>9. KeepsSessions
  <2>1. \A g \in Frames : \A i \in DOMAIN log'[g] :
          log'[g][i].in \in Used /\ frame[log'[g][i].in].block = g
    <3>1. \A g \in Frames : \A i \in DOMAIN log[g] :
            log[g][i].in \in Used /\ frame[log[g][i].in].block = g
      BY <1>1 DEF LogIsOfBlock
    <3>2. DOMAIN log'[f] = {}
      BY <1>3
    <3> QED BY ONLY <1>3, <3>1, <3>2, ZenonT(40)
  <2>2. \A g \in Frames \ Used : sps'[g] = <<>> /\ log'[g] = <<>>
    BY <1>1, <1>3 DEF NamesAreUsed
  <2>3. \A g \in Frames : /\ ~begun'[g] => log'[g] = <<>>
                          /\ open[g] /\ begun[g] => begun'[g]
    BY <1>1, <1>3 DEF SavepointsAreInside
  <2>4. ASSUME NEW g \in Used, IsOuter(g), NEW i \in DOMAIN sps'[g],
               sps'[g][i].outside
        PROVE  ~open[g] /\ (Settled(g) \/ log'[g] = <<>>)
    <3>1. g \in Frames
      BY <1>1, UsedIsFrames
    <3>2. CASE g = f
      BY <1>1, <1>3, <3>2
    <3>3. CASE g # f
      BY <1>1, <1>3, <2>4, <3>1, <3>3 DEF SavepointsAreInside
    <3> QED BY <3>2, <3>3
  <2> QED BY <1>4, <2>1, <2>2, <2>3, <2>4 DEF KeepsSessions
<1>10. \A u \in Tasks : \A c \in Aliases : inherited'[u][c] \in 0 .. nframes
  BY <1>4, ControlFacts
<1> QED BY <1>1, <1>6, <1>7, <1>8, <1>9, <1>10, MoveStep

(* A SAVEPOINT of an open block is inside a transaction. *)
LEMMA OpenSavepointStep ==
  ASSUME DurabilityInv, NEW t \in Tasks, OpenSavepoint(t)
  PROVE  DurabilityInv'
<1>f. PICK f : f = Top(t)
  OBVIOUS
<1>b. PICK b : b = frame[f].block
  OBVIOUS
<1>sp. PICK sp : sp = [frame |-> f, mark |-> Len(log[b]), outside |-> ~begun[b]]
  OBVIOUS
<1>1. /\ TypeOK /\ NamesAreUsed /\ LogIsOfBlock /\ SavepointsAreInside
      /\ pc[t] = "begun" /\ stack[t] # <<>> /\ ~IsOuter(f) /\ "run" \in PC
  BY <1>f DEF OpenSavepoint, DurabilityInv, TasksAreSomewhere, PC
<1>2. f \in Frames /\ b \in Used /\ b \in Frames /\ IsOuter(b)
  BY <1>f, <1>b, <1>1, TopProperties
<1>3. /\ sps \in [Frames -> Seq(Savepoint)] /\ log \in [Frames -> Seq(Write)]
      /\ begun \in [Frames -> BOOLEAN]
  BY <1>1 DEF TypeOK
<1>4. sp \in Savepoint /\ sp.outside = ~begun[b]
  BY <1>sp, <1>2, <1>3, LenProperties DEF Savepoint
<1>5. /\ UNCHANGED <<nframes, nwrites, ncalls, stack, inherited, target, open,
                     callbacks, log, durable, ran>>
      /\ pc' = [pc EXCEPT ![t] = "run"] /\ Become(f, "open")
      /\ sps' = [sps EXCEPT ![b] = Append(sps[b], sp)]
      /\ begun' = [begun EXCEPT ![b] = TRUE]
  BY <1>f, <1>b, <1>sp DEF OpenSavepoint, Goto, counters
<1>6. /\ Append(sps[b], sp) \in Seq(Savepoint)
      /\ \A i \in DOMAIN Append(sps[b], sp) :
           \/ i \in DOMAIN sps[b] /\ Append(sps[b], sp)[i] = sps[b][i]
           \/ Append(sps[b], sp)[i] = sp
  <2>1. sps[b] \in Seq(Savepoint)
    BY <1>2, <1>3
  <2> QED BY <1>4, <2>1, AppendProperties, LenProperties
<1>7. /\ sps' \in [Frames -> Seq(Savepoint)] /\ begun' \in [Frames -> BOOLEAN]
      /\ sps'[b] = Append(sps[b], sp) /\ begun'[b]
      /\ \A g \in Frames : g # b => sps'[g] = sps[g] /\ begun'[g] = begun[g]
  BY <1>2, <1>3, <1>5, <1>6
<1>8. /\ frame' \in [Frames -> Frame]
      /\ \A g \in Frames : g # f => frame'[g] = frame[g]
      /\ \A g \in Frames : frame'[g].block = frame[g].block
  <2>1. "open" \in Status
    BY DEF Status
  <2> QED BY <1>1, <1>2, <1>5, <2>1, BecomeStep
<1>9. SameBlocks
  BY <1>1, <1>5, <1>8 DEF SameBlocks
<1>10. TypeOK'
  BY <1>1, <1>5, <1>7, <1>8 DEF TypeOK
<1>11. KeepsSessions
  <2>1. ~begun[b] => ~open[b] /\ log[b] = <<>>
    BY <1>f, <1>b, <1>1, <1>2 DEF SavepointsAreInside
  <2>2. ASSUME NEW g \in Used, IsOuter(g), NEW i \in DOMAIN sps'[g],
               sps'[g][i].outside
        PROVE  ~open[g] /\ (Settled(g) \/ log[g] = <<>>)
    <3>1. g \in Frames
      BY <1>1, UsedIsFrames
    <3>2. ASSUME i \in DOMAIN sps[g], sps'[g][i] = sps[g][i]
          PROVE  ~open[g] /\ (Settled(g) \/ log[g] = <<>>)
      BY <1>1, <2>2, <3>2 DEF SavepointsAreInside
    <3>3. CASE g = b /\ sps'[g][i] = sp
      BY <1>4, <2>1, <2>2, <3>3
    <3>4. \/ i \in DOMAIN sps[g] /\ sps'[g][i] = sps[g][i]
          \/ g = b /\ sps'[g][i] = sp
      BY <1>6, <1>7, <2>2, <3>1
    <3> QED BY <3>2, <3>3, <3>4
  <2>3. \A g \in Frames \ Used : sps'[g] = <<>> /\ log'[g] = <<>>
    BY <1>1, <1>2, <1>5, <1>7 DEF NamesAreUsed
  <2>4. \A g \in Frames : /\ ~begun'[g] => log'[g] = <<>>
                          /\ open[g] /\ begun[g] => begun'[g]
    BY <1>1, <1>5, <1>7 DEF SavepointsAreInside
  <2> QED BY <1>1, <1>5, <2>2, <2>3, <2>4 DEF KeepsSessions, LogIsOfBlock
<1>12. Moves(t, "run", target[t])
  BY <1>1, <1>5, ControlFacts DEF Moves
<1>13. \A u \in Tasks : \A c \in Aliases : inherited'[u][c] \in 0 .. nframes
  BY <1>5, ControlFacts
<1> QED BY <1>1, <1>9, <1>10, <1>11, <1>12, <1>13, MoveStep
-----------------------------------------------------------------------------
(* Leaving an outer block. *)

(* What the ways of leaving the outer block f have in common. *)
OuterExit(t, f, st) ==
  /\ stack[t] # <<>> /\ f = Top(t) /\ IsOuter(f)
  /\ LeaveOuter(t, f, st)
  /\ \/ st \in {"committed", "indoubt"}
     \/ \A u \in Tasks : pc[u] = "writing" => target[u].block # f
  /\ EndTransaction(f) \/ UNCHANGED <<log, sps, begun>>
  /\ \/ durable' = durable
     \/ Commit(f) /\ st \in {"committed", "indoubt"}

(* What the ways out of an outer block have in common.                    *)
LEMMA LeaveOuterStep ==
  ASSUME DurabilityInv, NEW t \in Tasks, NEW f, NEW st \in Status \ {"open"},
         OuterExit(t, f, st)
  PROVE  DurabilityInv'
<1>inv. /\ TypeOK /\ NamesAreUsed /\ StacksAreDisjoint /\ TasksAreSomewhere
        /\ LogIsOfBlock /\ WaitingIsForCommit /\ SavepointsAreInside
        /\ DurableNames /\ DurableOnlyThroughCommit
  BY DEF DurabilityInv
<1>use. nframes \in Nat /\ Used \subseteq Frames /\ Frames \subseteq Nat \ {0}
  BY <1>inv, UsedIsFrames
<1>exit. /\ stack[t] # <<>> /\ f = Top(t) /\ IsOuter(f)
         /\ Become(f, st) /\ Pop(t)
         /\ open' = [open EXCEPT ![f] = FALSE]
         /\ target' = [target EXCEPT ![t] = [NoTarget EXCEPT !.block = f]]
         /\ pc' = [pc EXCEPT ![t] = "closing"]
         /\ UNCHANGED <<nframes, nwrites, ncalls, inherited, callbacks, ran>>
  BY DEF OuterExit, LeaveOuter, Goto, counters
<1>f. f \in Used /\ f \in Frames /\ f \in Frames0
  BY <1>inv, <1>exit, TopProperties DEF Frames, Frames0
<1>uu. Used' = Used
  BY <1>exit DEF Used
<1>of. open[f] /\ frame[f].status = "open"
  <2>1. Len(stack[t]) \in DOMAIN stack[t] /\ f = stack[t][Len(stack[t])]
    BY <1>inv, <1>exit, TopProperties
  <2> QED BY <1>inv, <1>exit, <1>f, <2>1 DEF StacksAreDisjoint
<1>op. /\ open' \in [Frames -> BOOLEAN] /\ ~open'[f]
       /\ \A g \in Frames : g # f => open'[g] = open[g]
  BY <1>inv, <1>exit, <1>f DEF TypeOK
<1>tg. [NoTarget EXCEPT !.block = f] \in
         [block : Frames0, in : Frames0, id : 0 .. MaxWrites]
  BY <1>f, AtomicAssumption DEF NoTarget, Frames0
<1>pc. /\ pc' \in [Tasks -> PC] /\ pc'[t] = "closing" /\ target'[t].block = f
       /\ target' \in [Tasks -> [block : Frames0, in : Frames0, id : 0 .. MaxWrites]]
       /\ \A u \in Tasks : u # t => pc'[u] = pc[u] /\ target'[u] = target[u]
  BY <1>inv, <1>exit, <1>tg DEF TypeOK, PC, NoTarget
<1>fr. /\ frame' \in [Frames -> Frame] /\ frame'[f].status = st
       /\ \A g \in Frames : g # f => frame'[g] = frame[g]
  BY <1>inv, <1>exit, <1>f, BecomeStep
<1>bl. \A g \in Frames : frame'[g].block = frame[g].block
  BY <1>inv, <1>exit, <1>f, BecomeStep
<1>io. \A g \in Frames : IsOuter(g)' = IsOuter(g)
  BY <1>bl DEF IsOuter
<1>set. \A g \in Frames : g # f => Settled(g)' = Settled(g)
  BY <1>fr DEF Settled
<1>st. /\ stack' \in [Tasks -> Seq(Frames)]
       /\ \A u \in Tasks : \A i \in DOMAIN stack'[u] :
            i \in DOMAIN stack[u] /\ stack'[u][i] = stack[u][i]
       /\ \A i \in DOMAIN stack'[t] : i # Len(stack[t])
       /\ \A u \in Tasks : u # t => stack'[u] = stack[u]
  BY <1>inv, <1>exit, PopStep
<1>top. \A u \in Tasks : u # t => Top(u)' = Top(u)
  BY <1>st DEF Top
<1>used. \A u \in Tasks : stack[u] # <<>> =>
           /\ Top(u) \in Used /\ frame[Top(u)].block \in Used
           /\ IsOuter(frame[Top(u)].block)
  BY <1>inv, TopProperties
<1>in. \A g \in Used : frame[g].block \in Used /\ IsOuter(frame[g].block)
  BY <1>inv DEF NamesAreUsed
<1>el. \A w \in Elements(log[f]) :
         w \in Write /\ w.in \in Used /\ frame[w.in].block = f
  <2>1. \A i \in DOMAIN log[f] : log[f][i] \in Write
    BY <1>inv, <1>f, ElementOfSeq DEF TypeOK
  <2> QED BY <1>inv, <1>f, <2>1 DEF LogIsOfBlock, Elements
<1>du. \/ durable' = durable
       \/ /\ durable' = durable \cup Elements(log[f])
          /\ st \in {"committed", "indoubt"}
  BY DEF OuterExit, Commit
<1>ses. /\ log' \in [Frames -> Seq(Write)] /\ begun' \in [Frames -> BOOLEAN]
        /\ sps' \in [Frames -> Seq(Savepoint)]
        /\ \/ log'[f] = <<>> /\ sps'[f] = <<>>
           \/ log'[f] = log[f] /\ sps'[f] = sps[f] /\ begun'[f] = begun[f]
        /\ \A g \in Frames : g # f => /\ log'[g] = log[g] /\ sps'[g] = sps[g]
                                      /\ begun'[g] = begun[g]
  <2>1. CASE EndTransaction(f)
    BY <1>inv, <1>f, <2>1, EndTransactionStep
  <2>2. CASE UNCHANGED <<log, sps, begun>>
    BY <1>inv, <2>2 DEF TypeOK
  <2> QED BY <2>1, <2>2 DEF OuterExit
<1>1. TypeOK'
  BY <1>inv, <1>exit, <1>op, <1>pc, <1>fr, <1>st, <1>el, <1>du, <1>ses DEF TypeOK
<1>2. NamesAreUsed'
  <2>1. \A g \in Used' : frame'[g].block \in Used' /\ IsOuter(frame[g].block)'
    BY ONLY <1>use, <1>uu, <1>bl, <1>in DEF IsOuter
  <2>2. \A u \in Tasks : \A i \in DOMAIN stack'[u] : stack'[u][i] \in Used'
    BY <1>inv, <1>uu, <1>st DEF NamesAreUsed
  <2>3. \A g \in Frames \ Used' : sps'[g] = <<>> /\ log'[g] = <<>> /\ ~open'[g]
    BY <1>inv, <1>uu, <1>f, <1>op, <1>ses DEF NamesAreUsed
  <2>4. \A u \in Tasks : target'[u].block \in 0 .. nframes'
    BY <1>inv, <1>exit, <1>f, <1>pc, <1>use DEF NamesAreUsed, Used
  <2> QED BY <1>inv, <1>exit, <2>1, <2>2, <2>3, <2>4 DEF NamesAreUsed
<1>3. StacksAreDisjoint'
  <2>1. \A u, v \in Tasks : \A i \in DOMAIN stack'[u], j \in DOMAIN stack'[v] :
          stack'[u][i] = stack'[v][j] => u = v /\ i = j
    BY ONLY <1>inv, <1>st DEF StacksAreDisjoint
  <2>2. ASSUME NEW u \in Tasks, NEW i \in DOMAIN stack'[u], IsOuter(stack[u][i])'
        PROVE  open'[stack'[u][i]]
    <3>1. /\ i \in DOMAIN stack[u] /\ stack'[u][i] = stack[u][i]
          /\ stack[u][i] \in Used /\ stack[u][i] \in Frames
      BY <1>inv, <1>st, <1>use, <2>2 DEF NamesAreUsed
    <3>2. IsOuter(stack[u][i])
      BY ONLY <1>bl, <2>2, <3>1 DEF IsOuter
    <3>3. open[stack[u][i]]
      BY <1>inv, <3>1, <3>2 DEF StacksAreDisjoint
    <3>4. stack[u][i] # f
      <4>1. SUFFICES ASSUME stack[u][i] = f PROVE FALSE
        OBVIOUS
      <4>2. Len(stack[t]) \in DOMAIN stack[t] /\ f = stack[t][Len(stack[t])]
        BY <1>inv, <1>exit, TopProperties
      <4>3. u = t /\ i = Len(stack[t])
        BY ONLY <1>inv, <3>1, <4>1, <4>2, t \in Tasks, u \in Tasks DEF StacksAreDisjoint
      <4> QED BY <1>st, <2>2, <4>3
    <3> QED BY <1>op, <3>1, <3>3, <3>4
  <2>3. ASSUME NEW g \in Used', open'[g]
        PROVE  IsOuter(g)' /\ frame'[g].status = "open"
    <3>1. g \in Frames /\ g # f /\ open[g] /\ g \in Used
      BY <1>use, <1>uu, <1>op, <2>3
    <3>2. IsOuter(g) /\ frame[g].status = "open"
      BY <1>inv, <3>1 DEF StacksAreDisjoint
    <3> QED BY <1>fr, <1>io, <3>1, <3>2
  <2> QED BY <2>1, <2>2, <2>3 DEF StacksAreDisjoint
<1>4. TasksAreSomewhere'
  <2> SUFFICES ASSUME NEW u \in Tasks
               PROVE  TasksAreSomewhere!(u)'
    BY DEF TasksAreSomewhere
  <2>1. CASE u = t
    BY <1>uu, <1>f, <1>pc, <1>op, <2>1
  <2>2. CASE u # t
    <3>1. /\ pc'[u] = pc[u] /\ Top(u)' = Top(u) /\ stack'[u] = stack[u]
          /\ target'[u] = target[u]
      BY <1>st, <1>pc, <1>top, <2>2
    <3>2. stack[u] # <<>> => IsOuter(Top(u))' = IsOuter(Top(u))
      BY ONLY <1>bl, <1>used, <1>use, <3>1, u \in Tasks DEF IsOuter
    <3>3. ASSUME pc[u] \in {"closing", "calling"}
          PROVE  target[u].block \in Used /\ ~open'[target[u].block]
      <4>1. target[u].block \in Used /\ ~open[target[u].block]
        BY <1>inv, <3>3 DEF TasksAreSomewhere
      <4> QED BY <1>op, <1>use, <4>1
    <3> QED BY <1>inv, <1>uu, <3>1, <3>2, <3>3 DEF TasksAreSomewhere
  <2> QED BY <2>1, <2>2
<1>5. LogIsOfBlock'
  <2>1. ASSUME NEW g \in Frames, NEW i \in DOMAIN log'[g]
        PROVE  log'[g][i].in \in Used /\ frame'[log'[g][i].in].block = g
    <3>0. DOMAIN <<>> = {}
      OBVIOUS
    <3>1. i \in DOMAIN log[g] /\ log'[g][i] = log[g][i]
      BY ONLY <1>ses, <2>1, <3>0, <1>f
    <3>2. log[g][i].in \in Used /\ frame[log[g][i].in].block = g
      BY ONLY <1>inv, <2>1, <3>1 DEF LogIsOfBlock
    <3> QED BY ONLY <1>bl, <1>use, <3>1, <3>2
  <2>2. ASSUME NEW u \in Tasks, pc'[u] = "writing"
        PROVE  target'[u].in \in Used /\ frame'[target'[u].in].block = target'[u].block
    <3>1. u # t /\ pc[u] = "writing" /\ target'[u] = target[u]
      BY <1>pc, <2>2
    <3>2. target[u].in \in Used /\ frame[target[u].in].block = target[u].block
      BY <1>inv, <3>1 DEF LogIsOfBlock
    <3> QED BY ONLY <1>bl, <1>use, <3>1, <3>2
  <2> QED BY <1>uu, <2>1, <2>2 DEF LogIsOfBlock
<1>6. WaitingIsForCommit'
  <2> SUFFICES ASSUME NEW u \in Tasks, pc'[u] = "writing"
               PROVE  WaitingIsForCommit!(u)!2'
    BY DEF WaitingIsForCommit
  <2>1. /\ u # t /\ pc[u] = "writing" /\ target'[u] = target[u]
        /\ target[u].block \in Used /\ target[u].block \in Frames
    BY <1>inv, <1>in, <1>pc, <1>use DEF LogIsOfBlock
  <2>2. CASE target[u].block = f
    <3>1. st \in {"committed", "indoubt"}
      BY <2>1, <2>2 DEF OuterExit
    <3> QED BY <1>fr, <2>1, <2>2, <3>1 DEF Settled
  <2>3. CASE target[u].block # f /\ Settled(target[u].block)
    BY <1>set, <2>1, <2>3
  <2>4. CASE target[u].block # f /\ ~Settled(target[u].block)
    <3>1. open[target[u].block]
      BY <1>inv, <2>1, <2>4 DEF WaitingIsForCommit
    <3>2. PICK v \in Tasks : /\ pc[v] \in {"committing", "undoing"}
                             /\ target[v].block = target[u].block
      BY <1>inv, <2>1, <2>4 DEF WaitingIsForCommit
    <3>3. v # t
      BY <1>inv, <1>exit, <2>4, <3>2 DEF TasksAreSomewhere
    <3> QED BY <1>op, <1>pc, <2>1, <2>4, <3>1, <3>2, <3>3
  <2> QED BY <2>2, <2>3, <2>4
<1>7. SavepointsAreInside'
  <2>1. ASSUME NEW u \in Tasks, pc'[u] = "begun", open'[frame'[Top(u)'].block]
        PROVE  begun'[frame'[Top(u)'].block]
    <3>1. u # t /\ stack[u] # <<>> /\ pc[u] = "begun"
      BY <1>inv, <1>pc, <2>1 DEF TasksAreSomewhere
    <3>2. /\ frame'[Top(u)'].block = frame[Top(u)].block
          /\ frame[Top(u)].block \in Frames
      BY <1>bl, <1>top, <1>used, <1>use, <3>1
    <3>3. frame[Top(u)].block # f /\ open[frame[Top(u)].block]
      BY <1>op, <2>1, <3>2
    <3> QED BY <1>inv, <1>ses, <3>1, <3>2, <3>3 DEF SavepointsAreInside
  <2>2. ASSUME NEW g \in Used', IsOuter(g)', NEW i \in DOMAIN sps'[g],
               sps'[g][i].outside
        PROVE  ~open'[g] /\ (Settled(g)' \/ log'[g] = <<>>)
    <3>0. DOMAIN <<>> = {}
      OBVIOUS
    <3>1. g \in Used /\ g \in Frames /\ IsOuter(g)
      BY <1>uu, <1>use, <1>io, <2>2
    <3>2. i \in DOMAIN sps[g] /\ sps'[g][i] = sps[g][i]
      BY ONLY <1>ses, <1>f, <2>2, <3>0, <3>1
    <3>3. ~open[g] /\ (Settled(g) \/ log[g] = <<>>)
      BY ONLY <1>inv, <2>2, <3>1, <3>2 DEF SavepointsAreInside
    <3> QED BY <1>of, <1>op, <1>set, <1>ses, <3>1, <3>3
  <2>3. ASSUME NEW g \in Frames, ~begun'[g] PROVE log'[g] = <<>>
    <3>1. ~begun[g] => log[g] = <<>>
      BY ONLY <1>inv, <2>3 DEF SavepointsAreInside
    <3> QED BY <1>ses, <2>3, <3>1
  <2> QED BY <2>1, <2>2, <2>3 DEF SavepointsAreInside
<1>8. DurableNames'
  BY <1>inv, <1>exit, <1>el, <1>du, <1>use DEF DurableNames, Used
<1>9. DurableOnlyThroughCommit'
  <2> SUFFICES ASSUME NEW w \in durable', w.in # 0
               PROVE  frame'[frame'[w.in].block].status \in {"committed", "indoubt"}
    BY DEF DurableOnlyThroughCommit
  <2>1. CASE w \in durable
    <3>1. w.in \in Used
      BY <1>inv, <1>use, <2>1 DEF DurableNames, Used
    <3>2. frame[frame[w.in].block].status \in {"committed", "indoubt"}
      BY <1>inv, <2>1 DEF DurableOnlyThroughCommit
    <3>3. frame[w.in].block # f
      BY <1>of, <3>2
    <3> QED BY <1>fr, <1>bl, <1>use, <1>in, <3>1, <3>2, <3>3
  <2>2. CASE w \notin durable
    <3>1. w \in Elements(log[f]) /\ st \in {"committed", "indoubt"}
      BY <1>du, <2>2
    <3>2. w.in \in Used /\ frame[w.in].block = f
      BY <1>el, <3>1
    <3> QED BY <1>f, <1>fr, <1>bl, <1>use, <3>1, <3>2
  <2> QED BY <2>1, <2>2
<1> QED BY <1>1, <1>2, <1>3, <1>4, <1>5, <1>6, <1>7, <1>8, <1>9 DEF DurabilityInv
(* No write waits for the session of an open block that is not committing. *)
LEMMA NoneWaits ==
  ASSUME DurabilityInv, NEW t \in Tasks, LeavesOuter(t)
  PROVE  \A u \in Tasks : pc[u] = "writing" => target[u].block # Top(t)
<1>1. /\ TypeOK /\ NamesAreUsed /\ StacksAreDisjoint /\ TasksAreSomewhere
      /\ WaitingIsForCommit
      /\ pc[t] = "run" /\ stack[t] # <<>> /\ IsOuter(Top(t))
  BY DEF DurabilityInv, LeavesOuter
<1>2. /\ Len(stack[t]) \in DOMAIN stack[t] /\ Top(t) = stack[t][Len(stack[t])]
      /\ Top(t) \in Used
  BY <1>1, TopProperties
<1>3. open[Top(t)] /\ frame[Top(t)].status = "open"
  BY <1>1, <1>2 DEF StacksAreDisjoint
<1> SUFFICES ASSUME NEW u \in Tasks, pc[u] = "writing", target[u].block = Top(t)
             PROVE  FALSE
  OBVIOUS
<1>4. PICK v \in Tasks : /\ pc[v] \in {"committing", "undoing"}
                         /\ target[v].block = Top(t)
  BY <1>1, <1>3 DEF WaitingIsForCommit, Settled
<1>5. stack[v] # <<>> /\ Top(v) = Top(t)
  BY <1>1, <1>4 DEF TasksAreSomewhere
<1>6. Len(stack[v]) \in DOMAIN stack[v] /\ Top(v) = stack[v][Len(stack[v])]
  BY <1>1, <1>5, TopProperties
<1>7. v = t
  BY ONLY <1>1, <1>2, <1>5, <1>6, v \in Tasks, t \in Tasks, ZenonT(40) DEF StacksAreDisjoint
<1> QED BY <1>1, <1>4, <1>7

(* An outer block ends, by commit, rollback or in doubt.                  *)
LEMMA OuterExitStep ==
  ASSUME DurabilityInv, NEW t \in Tasks,
         \/ CommitDone(t) \/ CommitCancelled(t) \/ Rollback(t)
         \/ RollbackCommit(t) \/ OuterCancelled(t)
  PROVE  DurabilityInv'
<1>1. stack[t] # <<>> /\ IsOuter(Top(t))
  BY DEF DurabilityInv, TasksAreSomewhere, CommitDone, CommitCancelled, Rollback,
         RollbackCommit, OuterCancelled, LeavesOuter
<1>2. CASE CommitDone(t)
  <2>1. OuterExit(t, Top(t), "committed")
    BY <1>1, <1>2 DEF CommitDone, OuterExit
  <2> QED BY <2>1, LeaveOuterStep DEF Status
<1>3. CASE CommitCancelled(t)
  <2>1. OuterExit(t, Top(t), "indoubt")
    BY <1>1, <1>3 DEF CommitCancelled, OuterExit
  <2> QED BY <2>1, LeaveOuterStep DEF Status
<1>4. CASE Rollback(t)
  <2>1. OuterExit(t, Top(t), "rolledback")
    BY <1>1, <1>4, NoneWaits DEF Rollback, Undo, OuterExit
  <2> QED BY <2>1, LeaveOuterStep DEF Status
<1>5. CASE RollbackCommit(t)
  <2>1. OuterExit(t, Top(t), "rolledback")
    BY <1>1, <1>5 DEF RollbackCommit, Undo, OuterExit
  <2> QED BY <2>1, LeaveOuterStep DEF Status
<1>6. CASE OuterCancelled(t)
  <2>1. OuterExit(t, Top(t), "cancelled")
    BY <1>1, <1>6, NoneWaits DEF OuterCancelled, OuterExit
  <2> QED BY <2>1, LeaveOuterStep DEF Status
<1> QED BY <1>2, <1>3, <1>4, <1>5, <1>6

-----------------------------------------------------------------------------
(* The theorems. *)

(* No block is entered and nothing is written yet. *)
LEMMA InitEstablishes == Init => DurabilityInv
<1> SUFFICES ASSUME Init PROVE DurabilityInv
  OBVIOUS
<1>0. Used = {} /\ 0 .. nframes = {0} /\ nframes = 0
  BY DEF Init, Used
<1>1. TypeOK
  <2>1. 0 \in Frames0 /\ 1 \in Frames /\ 0 \in 0 .. MaxWrites /\ 0 \in 0 .. MaxCallbacks
    BY AtomicAssumption DEF Frames, Frames0
  <2>2. (CHOOSE a \in Aliases : TRUE) \in Aliases
    BY AtomicAssumption
  <2>3. NoFrame \in Frame
    BY <2>1, <2>2 DEF NoFrame, Frame, Status
  <2>4. NoTarget \in [block : Frames0, in : Frames0, id : 0 .. MaxWrites]
    BY <2>1 DEF NoTarget
  <2>5. \A S : <<>> \in Seq(S)
    OBVIOUS
  <2>6. pc \in [Tasks -> PC]
    BY DEF Init, PC
  <2> QED BY <2>1, <2>3, <2>4, <2>5, <2>6 DEF Init, TypeOK
<1>2. NamesAreUsed
  BY <1>0 DEF Init, NamesAreUsed, NoTarget
<1>3. StacksAreDisjoint
  <2>1. DOMAIN <<>> = {}
    OBVIOUS
  <2> QED BY <1>0, <2>1 DEF Init, StacksAreDisjoint
<1>4. \A t \in Tasks : pc[t] \in {"run", "new"}
  BY DEF Init
<1>5. TasksAreSomewhere /\ WaitingIsForCommit
  BY <1>4 DEF TasksAreSomewhere, WaitingIsForCommit
<1>6. LogIsOfBlock
  BY <1>4 DEF Init, LogIsOfBlock
<1>7. SavepointsAreInside
  BY <1>0, <1>4 DEF Init, SavepointsAreInside
<1>8. DurableNames /\ DurableOnlyThroughCommit
  BY DEF Init, DurableNames, DurableOnlyThroughCommit
<1> QED BY <1>1, <1>2, <1>3, <1>5, <1>6, <1>7, <1>8 DEF DurabilityInv

(* Nothing happens. *)
LEMMA StutterPreserves ==
  ASSUME DurabilityInv, UNCHANGED vars
  PROVE  DurabilityInv'
<1>1. UNCHANGED <<frame, nframes, nwrites, ncalls, pc, stack, inherited, target,
                  open, callbacks, log, sps, begun, durable, ran>>
  BY DEF vars
<1>2. TypeOK'
  BY <1>1 DEF DurabilityInv, TypeOK
<1>3. NamesAreUsed' /\ StacksAreDisjoint'
  BY <1>1 DEF DurabilityInv, NamesAreUsed, StacksAreDisjoint, IsOuter, Used
<1>4. TasksAreSomewhere' /\ WaitingIsForCommit'
  BY <1>1 DEF DurabilityInv, TasksAreSomewhere, WaitingIsForCommit, Settled,
              IsOuter, Used, Top
<1>5. LogIsOfBlock' /\ SavepointsAreInside'
  BY <1>1 DEF DurabilityInv, LogIsOfBlock, SavepointsAreInside, Settled,
              IsOuter, Used, Top
<1>6. DurableNames' /\ DurableOnlyThroughCommit'
  BY <1>1 DEF DurabilityInv, DurableNames, DurableOnlyThroughCommit
<1> QED BY <1>2, <1>3, <1>4, <1>5, <1>6 DEF DurabilityInv

(* Every step of the specification preserves the invariant.               *)
LEMMA StepPreserves == DurabilityInv /\ [Next]_vars => DurabilityInv'
<1> SUFFICES ASSUME DurabilityInv, [Next]_vars PROVE DurabilityInv'
  OBVIOUS
<1>1. CASE UNCHANGED vars
  BY <1>1, StutterPreserves
<1>2. ASSUME NEW t \in Tasks, Enter(t) PROVE DurabilityInv'
  BY <1>2, EnterOuterStep, EnterNestedStep DEF Enter
<1>3. ASSUME NEW t \in Tasks, Body(t) PROVE DurabilityInv'
  <2>1. ASSUME NEW a \in Aliases,
               WriteJoins(t, a) \/ WriteWaits(t, a) \/ WriteAutocommits(t, a)
        PROVE  DurabilityInv'
    BY <2>1, WriteJoinsStep, WriteWaitsStep, WriteAutocommitsStep
  <2>2. ASSUME NEW a \in Aliases, NEW r \in BOOLEAN, OnCommit(t, a, r)
        PROVE  DurabilityInv'
    BY <2>2, OnCommitStep
  <2>3. ASSUME (\E u \in Tasks : Spawn(t, u)) \/ Finish(t)
        PROVE  DurabilityInv'
    BY <2>3, SpawnStep, FinishStep
  <2> QED BY <1>3, <2>1, <2>2, <2>3 DEF Body
<1>4. ASSUME NEW t \in Tasks, Leave(t) PROVE DurabilityInv'
  BY <1>4, ReleaseSavepointStep, RollbackSavepointStep, AbandonStep,
     OuterExitStep, CommitStartStep DEF Leave
<1>5. ASSUME NEW t \in Tasks, Proceed(t) PROVE DurabilityInv'
  BY <1>5, CheckTransactionStep, BeginTransactionStep, AbandonStep,
     OpenSavepointStep, WriteResumesStep, OuterExitStep, CommitFailsStep,
     CloseSessionStep, CallStep DEF Proceed
<1> QED BY <1>1, <1>2, <1>3, <1>4, <1>5 DEF Next

(* The inductive invariant holds in every reachable state. *)
THEOREM DurabilityInvariant == Spec => []DurabilityInv
<1>1. Init => DurabilityInv
  BY InitEstablishes
<1>2. DurabilityInv /\ [Next]_vars => DurabilityInv'
  BY StepPreserves
<1> QED BY <1>1, <1>2, PTL DEF Spec

(* The variables of atomic() blocks keep their types. *)
THEOREM TypeCorrect == Spec => []TypeOK
<1>1. DurabilityInv => TypeOK
  BY DEF DurabilityInv
<1> QED BY <1>1, DurabilityInvariant, PTL

(* A write made in an atomic() block is durable only if the outermost block *)
(* committed, or was cancelled inside COMMIT: whatever tasks are created,   *)
(* cancelled or left behind, and however savepoints are released (the       *)
(* docstring of atomic(), and what _begin_sqlite_transaction is there for). *)
THEOREM DurabilityIsThroughCommit == Spec => []DurableOnlyThroughCommit
<1>1. DurabilityInv => DurableOnlyThroughCommit
  BY DEF DurabilityInv
<1> QED BY <1>1, DurabilityInvariant, PTL

-----------------------------------------------------------------------------
(* The blocks: what a step may do to those that were entered before it. *)

FramesKept ==
  /\ Used \subseteq Used'
  /\ \A f \in Used : frame'[f].block = frame[f].block
  /\ \A f \in Used : Committed(f) /\ IsOuter(f) => Committed(f)'

(* A step that changes no frame keeps them. *)
LEMMA SameFramesKept ==
  ASSUME UNCHANGED <<frame, nframes>>
  PROVE  FramesKept
BY DEF FramesKept, Used, Committed

(* Entering a block takes a new number. *)
LEMMA NewFrameKept ==
  ASSUME DurabilityInv, NEW new, nframes' = nframes + 1, nframes < MaxFrames,
         frame' = [frame EXCEPT ![nframes + 1] = new]
  PROVE  FramesKept
<1>1. TypeOK
  BY DEF DurabilityInv
<1>2. nframes \in Nat /\ Used \subseteq Frames /\ Frames \subseteq Nat \ {0}
  BY <1>1, UsedIsFrames
<1>3. \A f \in Used : f # nframes + 1 /\ frame'[f] = frame[f]
  BY <1>1, <1>2 DEF TypeOK, Used
<1>4. Used \subseteq Used'
  BY <1>2 DEF Used
<1> QED BY <1>3, <1>4 DEF FramesKept, Committed

(* The block a task leaves, or enters, has not committed. *)
LEMMA BecomeKept ==
  ASSUME DurabilityInv, NEW t \in Tasks, stack[t] # <<>>, NEW st \in Status,
         Become(Top(t), st), nframes' = nframes
  PROVE  FramesKept
<1>1. TypeOK /\ NamesAreUsed /\ StacksAreDisjoint
  BY DEF DurabilityInv
<1>2. /\ Len(stack[t]) \in DOMAIN stack[t] /\ Top(t) = stack[t][Len(stack[t])]
      /\ Top(t) \in Used /\ Top(t) \in Frames
  BY <1>1, TopProperties
<1>3. /\ \A g \in Frames : g # Top(t) => frame'[g] = frame[g]
      /\ \A g \in Frames : frame'[g].block = frame[g].block
  BY <1>1, <1>2, BecomeStep
<1>4. IsOuter(Top(t)) => ~Committed(Top(t))
  BY <1>1, <1>2 DEF StacksAreDisjoint, Committed
<1>5. Used \subseteq Frames /\ Used' = Used
  BY <1>1, UsedIsFrames DEF Used
<1> QED BY <1>3, <1>4, <1>5 DEF FramesKept, Committed

(* Every step keeps the blocks. *)
LEMMA StepKeepsFrames ==
  ASSUME DurabilityInv, NEW t \in Tasks,
         Enter(t) \/ Body(t) \/ Leave(t) \/ Proceed(t)
  PROVE  FramesKept
<1>inv. TypeOK /\ TasksAreSomewhere
  BY DEF DurabilityInv
<1>1. CASE Enter(t)
  <2> PICK a \in Aliases : EnterOuter(t, a) \/ EnterNested(t, a)
    BY <1>1 DEF Enter
  <2>1. CASE EnterOuter(t, a)
    BY <2>1, NewFrameKept DEF EnterOuter, MayEnter
  <2>2. CASE EnterNested(t, a)
    BY <2>2, NewFrameKept DEF EnterNested, MayEnter
  <2> QED BY <2>1, <2>2
<1>2. CASE Body(t)
  <2>1. UNCHANGED <<frame, nframes>>
    BY <1>2 DEF Body, WriteJoins, WriteWaits, WriteAutocommits, OnCommit,
                Spawn, Finish, counters
  <2> QED BY <2>1, SameFramesKept
<1>3. CASE Leave(t)
  <2>1. CASE CommitStart(t)
    BY <2>1, SameFramesKept DEF CommitStart, counters
  <2>2. CASE ~CommitStart(t)
    <3>1. /\ stack[t] # <<>> /\ nframes' = nframes
          /\ \E st \in Status : Become(Top(t), st)
      BY <1>3, <2>2 DEF Leave, ReleaseSavepoint, RollbackSavepoint,
         SavepointGone, NestedCancelled, OuterCancelled, Rollback, Undo,
         LeaveOuter, LeavesNested, LeavesOuter, counters, Status
    <3> QED BY <3>1, BecomeKept
  <2> QED BY <2>1, <2>2
<1>4. CASE Proceed(t)
  <2>1. CASE UNCHANGED <<frame, nframes>>
    BY <2>1, SameFramesKept
  <2>2. CASE ~UNCHANGED <<frame, nframes>>
    <3>1. BeginRefused(t) \/ OpenSavepoint(t) \/ CommitDone(t)
            \/ CommitCancelled(t) \/ RollbackCommit(t)
      BY <1>4, <2>2 DEF Proceed, CheckTransaction, BeginTransaction,
         WriteResumes, CommitFails, CloseSession, Call, CallRaises, CallsDone,
         counters
    <3>2. /\ stack[t] # <<>> /\ nframes' = nframes
          /\ \E st \in Status : Become(Top(t), st)
      BY <1>inv, <3>1 DEF TasksAreSomewhere, BeginRefused, OpenSavepoint,
         CommitDone, CommitCancelled, RollbackCommit, Undo, LeaveOuter,
         counters, Status
    <3> QED BY <3>2, BecomeKept
  <2> QED BY <2>1, <2>2
<1> QED BY <1>1, <1>2, <1>3, <1>4

-----------------------------------------------------------------------------
(* The callbacks. *)

(* Who closes an outer block goes on to run its callbacks if it committed. *)
CallersKept ==
  \A u \in Tasks : pc'[u] \in {"closing", "calling"} =>
    \/ /\ pc[u] \in {"closing", "calling"}
       /\ target'[u].block = target[u].block
       /\ pc'[u] = "calling" => pc[u] = "calling" \/ Committed(target[u].block)
    \/ pc'[u] = "closing" /\ IsOuter(target[u].block)'

(* A block that is committed stays so. *)
LEMMA CallersStay ==
  ASSUME DurabilityInv, CallersHaveCommitted, FramesKept, CallersKept
  PROVE  CallersHaveCommitted'
<1>1. TasksAreSomewhere
  BY DEF DurabilityInv
<1> SUFFICES ASSUME NEW u \in Tasks, pc'[u] \in {"closing", "calling"}
             PROVE  /\ IsOuter(target[u].block)'
                    /\ pc'[u] = "calling" => Committed(target[u].block)'
  BY DEF CallersHaveCommitted
<1> DEFINE b == target[u].block
<1>2. CASE /\ pc[u] \in {"closing", "calling"}
           /\ target'[u].block = b
           /\ pc'[u] = "calling" => pc[u] = "calling" \/ Committed(b)
  <2>1. b \in Used /\ IsOuter(b) /\ (pc'[u] = "calling" => Committed(b))
    BY <1>1, <1>2 DEF TasksAreSomewhere, CallersHaveCommitted
  <2>2. frame'[b].block = b /\ (Committed(b) => frame'[b].status = "committed")
    BY <2>1 DEF FramesKept, IsOuter, Committed
  <2> QED BY <1>2, <2>1, <2>2 DEF IsOuter, Committed
<1>3. CASE pc'[u] = "closing" /\ IsOuter(target[u].block)'
  BY <1>3
<1> QED BY <1>2, <1>3 DEF CallersKept

(* Callbacks may be discarded from the end, and none runs. *)
LEMMA CallsDiscarded ==
  ASSUME DurabilityInv, CallsInv, FramesKept, CallersKept,
         UNCHANGED <<ncalls, ran>>,
         \A b \in Frames : \A i \in DOMAIN callbacks'[b] :
           i \in DOMAIN callbacks[b] /\ callbacks'[b][i] = callbacks[b][i]
  PROVE  CallsInv'
<1>1. /\ CallbacksAreOfBlock /\ CallersHaveCommitted /\ CallbacksAreQueued
      /\ CallbacksFollowCommit /\ CallbacksInOrder /\ NamesAreUsed
  BY DEF CallsInv, DurabilityInv
<1>2. CallersHaveCommitted'
  BY <1>1, CallersStay
<1>3. \A i \in DOMAIN ran : /\ ran[i].in \in Used
                            /\ frame'[ran[i].in].block = frame[ran[i].in].block
  BY <1>1 DEF CallbacksAreOfBlock, FramesKept
<1>4. \A b \in Frames : \A i \in DOMAIN callbacks'[b] :
        /\ callbacks'[b][i].in \in Used'
        /\ frame'[callbacks'[b][i].in].block = b
        /\ callbacks'[b][i].id <= ncalls'
  BY <1>1 DEF CallbacksAreOfBlock, FramesKept
<1>5. CallbacksAreOfBlock'
  BY <1>1, <1>3, <1>4 DEF CallbacksAreOfBlock, FramesKept
<1>6. CallbacksAreQueued'
  <2>1. ASSUME NEW b \in Frames, NEW i \in DOMAIN callbacks'[b],
               NEW j \in DOMAIN callbacks'[b], i < j
        PROVE  callbacks'[b][i].id < callbacks'[b][j].id
    BY <1>1, <2>1 DEF CallbacksAreQueued
  <2>2. ASSUME NEW b \in Frames, NEW i \in DOMAIN ran,
               NEW j \in DOMAIN callbacks'[b], frame'[ran[i].in].block = b
        PROVE  ran[i].id < callbacks'[b][j].id
    BY <1>1, <1>3, <2>2 DEF CallbacksAreQueued
  <2> QED BY <2>1, <2>2 DEF CallbacksAreQueued
<1>7. CallbacksFollowCommit'
  <2> SUFFICES ASSUME NEW i \in DOMAIN ran
               PROVE  frame'[frame'[ran[i].in].block].status = "committed"
    BY DEF CallbacksFollowCommit, Elements
  <2>1. ran[i].in \in Used /\ frame[ran[i].in].block \in Used
        /\ IsOuter(frame[ran[i].in].block)
    BY <1>1, <1>3 DEF NamesAreUsed
  <2>2. Committed(frame[ran[i].in].block)
    BY <1>1 DEF CallbacksFollowCommit, Elements, Committed
  <2> QED BY <1>3, <2>1, <2>2 DEF FramesKept, Committed
<1>8. CallbacksInOrder'
  BY <1>1, <1>3 DEF CallbacksInOrder
<1> QED BY <1>2, <1>5, <1>6, <1>7, <1>8 DEF CallsInv

(* A block's next callback runs, the others stay or are skipped. *)
LEMMA CallRuns ==
  ASSUME DurabilityInv, CallsInv, FramesKept, CallersKept,
         UNCHANGED ncalls,
         NEW b \in Used, Committed(b), callbacks[b] # <<>>,
         ran' = Append(ran, NextCall(b)),
         NEW rest \in {Tail(callbacks[b]), <<>>},
         callbacks' = [callbacks EXCEPT ![b] = rest],
         UNCHANGED frame
  PROVE  CallsInv'
<1>1. /\ TypeOK /\ CallbacksAreOfBlock /\ CallersHaveCommitted /\ CallbacksAreQueued
      /\ CallbacksFollowCommit /\ CallbacksInOrder /\ NamesAreUsed
  BY DEF CallsInv, DurabilityInv
<1>u. Used \subseteq Frames
  BY <1>1, UsedIsFrames
<1>2. CallersHaveCommitted'
  BY <1>1, CallersStay
<1>3. /\ callbacks \in [Frames -> Seq(Callback)] /\ ran \in Seq(Callback)
      /\ callbacks[b] \in Seq(Callback) /\ b \in Frames
  BY <1>1, <1>u DEF TypeOK
<1> DEFINE c == callbacks[b][1]
<1>4. /\ 1 \in DOMAIN callbacks[b] /\ c = NextCall(b)
      /\ c \in Callback /\ Len(ran) \in Nat
      /\ DOMAIN ran = 1 .. Len(ran) /\ DOMAIN ran' = 1 .. Len(ran) + 1
      /\ ran'[Len(ran) + 1] = c /\ \A i \in DOMAIN ran : ran'[i] = ran[i]
  BY <1>3 DEF NextCall
<1>5. \A i \in DOMAIN rest : /\ i + 1 \in DOMAIN callbacks[b] /\ 1 < i + 1
                             /\ rest[i] = callbacks[b][i + 1] /\ i \in Nat
  <2>1. CASE rest = <<>>
    BY <2>1
  <2>2. CASE rest = Tail(callbacks[b])
    BY <1>3, <2>2
  <2> QED BY <2>1, <2>2
<1>6. /\ callbacks'[b] = rest
      /\ \A g \in Frames : g # b => callbacks'[g] = callbacks[g]
  BY <1>3
<1> HIDE DEF c
<1>7. /\ c.in \in Used /\ frame[c.in].block = b /\ c.id <= ncalls
      /\ c.id \in Nat /\ ncalls \in Nat
  BY <1>1, <1>3, <1>4 DEF CallbacksAreOfBlock, c, Callback, TypeOK
<1>8. CallbacksAreOfBlock'
  <2>1. \A g \in Frames : \A i \in DOMAIN callbacks'[g] :
          /\ callbacks'[g][i].in \in Used' /\ frame'[callbacks'[g][i].in].block = g
          /\ callbacks'[g][i].id <= ncalls'
    BY <1>1, <1>5, <1>6 DEF CallbacksAreOfBlock, FramesKept
  <2>2. \A i \in DOMAIN ran' : ran'[i].in \in Used' /\ ran'[i].id <= ncalls'
    BY <1>1, <1>4, <1>7 DEF CallbacksAreOfBlock, FramesKept
  <2> QED BY <2>1, <2>2 DEF CallbacksAreOfBlock
<1>9. \A j \in DOMAIN rest : c.id < rest[j].id
  BY <1>1, <1>3, <1>4, <1>5 DEF CallbacksAreQueued, c
<1>10. CallbacksAreQueued'
  <2>1. ASSUME NEW g \in Frames, NEW i \in DOMAIN callbacks'[g],
               NEW j \in DOMAIN callbacks'[g], i < j
        PROVE  callbacks'[g][i].id < callbacks'[g][j].id
    <3>1. CASE g # b
      BY <1>1, <1>6, <2>1, <3>1 DEF CallbacksAreQueued
    <3>2. CASE g = b
      <4>1. i + 1 < j + 1
        BY <1>5, <1>6, <2>1, <3>2
      <4> QED BY <1>1, <1>3, <1>5, <1>6, <3>2, <4>1 DEF CallbacksAreQueued
    <3> QED BY <3>1, <3>2
  <2>2. ASSUME NEW g \in Frames, NEW i \in DOMAIN ran',
               NEW j \in DOMAIN callbacks'[g], frame'[ran'[i].in].block = g
        PROVE  ran'[i].id < callbacks'[g][j].id
    <3>1. CASE i = Len(ran) + 1
      BY <1>4, <1>6, <1>7, <1>9, <2>2, <3>1
    <3>2. CASE i # Len(ran) + 1
      <4>1. i \in DOMAIN ran /\ ran'[i] = ran[i]
        BY <1>4, <3>2
      <4>2. CASE g = b
        <5>1. j + 1 \in DOMAIN callbacks[b] /\ callbacks'[g][j] = callbacks[b][j + 1]
          BY <1>5, <1>6, <4>2
        <5>2. frame[ran[i].in].block = b
          BY <2>2, <4>1, <4>2
        <5> QED BY <1>1, <1>3, <4>1, <5>1, <5>2 DEF CallbacksAreQueued
      <4>3. CASE g # b
        BY <1>1, <1>6, <2>2, <4>1, <4>3 DEF CallbacksAreQueued
      <4> QED BY <4>2, <4>3
    <3> QED BY <3>1, <3>2
  <2> QED BY <2>1, <2>2 DEF CallbacksAreQueued
<1>11. CallbacksFollowCommit'
  <2> SUFFICES ASSUME NEW i \in DOMAIN ran'
               PROVE  frame[frame[ran'[i].in].block].status = "committed"
    BY DEF CallbacksFollowCommit, Elements
  <2>1. CASE i = Len(ran) + 1
    BY <1>4, <1>7, <2>1 DEF Committed
  <2>2. CASE i # Len(ran) + 1
    BY <1>1, <1>4, <2>2 DEF CallbacksFollowCommit, Elements
  <2> QED BY <2>1, <2>2
<1>12. CallbacksInOrder'
  <2> SUFFICES ASSUME NEW i \in DOMAIN ran', NEW j \in DOMAIN ran', i < j,
                      frame[ran'[i].in].block = frame[ran'[j].in].block
               PROVE  ran'[i].id < ran'[j].id
    BY DEF CallbacksInOrder
  <2>1. i \in DOMAIN ran /\ ran'[i] = ran[i]
    BY <1>4
  <2>2. CASE j = Len(ran) + 1
    BY <1>1, <1>3, <1>4, <1>7, <2>1, <2>2 DEF CallbacksAreQueued, c
  <2>3. CASE j # Len(ran) + 1
    BY <1>1, <1>4, <2>1, <2>3 DEF CallbacksInOrder
  <2> QED BY <2>2, <2>3
<1> QED BY <1>2, <1>8, <1>10, <1>11, <1>12 DEF CallsInv

(* A callback is registered: it is newer than all others. *)
LEMMA CallRegistered ==
  ASSUME DurabilityInv, CallsInv, FramesKept, CallersKept,
         ncalls' = ncalls + 1, UNCHANGED <<frame, ran>>,
         NEW b \in Frames, NEW c, c.in \in Used, frame[c.in].block = b,
         c.id = ncalls + 1,
         callbacks' = [callbacks EXCEPT ![b] = Append(@, c)]
  PROVE  CallsInv'
<1>1. /\ TypeOK /\ CallbacksAreOfBlock /\ CallersHaveCommitted /\ CallbacksAreQueued
      /\ CallbacksFollowCommit /\ CallbacksInOrder /\ NamesAreUsed
  BY DEF CallsInv, DurabilityInv
<1>2. CallersHaveCommitted'
  BY <1>1, CallersStay
<1>3. /\ callbacks \in [Frames -> Seq(Callback)] /\ callbacks[b] \in Seq(Callback)
      /\ ran \in Seq(Callback) /\ ncalls \in Nat
  BY <1>1 DEF TypeOK
<1> DEFINE n == Len(callbacks[b])
<1>4. /\ n \in Nat /\ DOMAIN callbacks[b] = 1 .. n
      /\ DOMAIN Append(callbacks[b], c) = 1 .. n + 1
      /\ Append(callbacks[b], c)[n + 1] = c
      /\ \A i \in 1 .. n : Append(callbacks[b], c)[i] = callbacks[b][i]
  BY <1>3
<1>5. /\ callbacks'[b] = Append(callbacks[b], c)
      /\ \A g \in Frames : g # b => callbacks'[g] = callbacks[g]
  BY <1>3
<1> HIDE DEF n
<1>6. ASSUME NEW g \in Frames, NEW i \in DOMAIN callbacks'[g]
      PROVE  \/ /\ i \in DOMAIN callbacks[g]
                /\ callbacks'[g][i] = callbacks[g][i]
                /\ g = b => i \in 1 .. n
             \/ g = b /\ i = n + 1 /\ callbacks'[g][i] = c
  BY <1>4, <1>5
<1>7. /\ \A g \in Frames : \A i \in DOMAIN callbacks[g] :
           callbacks[g][i].id \in Nat /\ callbacks[g][i].id <= ncalls
      /\ \A i \in DOMAIN ran : ran[i].id \in Nat /\ ran[i].id <= ncalls
  <2>1. \A x \in Callback : x.id \in Nat
    BY DEF Callback
  <2>2. \A i \in DOMAIN ran : ran[i] \in Callback
    BY <1>3
  <2>3. ASSUME NEW g \in Frames, NEW i \in DOMAIN callbacks[g]
        PROVE  callbacks[g][i] \in Callback
    <3>1. callbacks[g] \in Seq(Callback)
      BY <1>3
    <3> QED BY <3>1
  <2> QED BY <1>1, <2>1, <2>2, <2>3 DEF CallbacksAreOfBlock
<1>8. CallbacksAreOfBlock'
  <2>1. ASSUME NEW g \in Frames, NEW i \in DOMAIN callbacks'[g]
        PROVE  /\ callbacks'[g][i].in \in Used' /\ frame'[callbacks'[g][i].in].block = g
               /\ callbacks'[g][i].id <= ncalls'
    <3>1. CASE i \in DOMAIN callbacks[g] /\ callbacks'[g][i] = callbacks[g][i]
      BY <1>1, <1>3, <1>7, <3>1 DEF CallbacksAreOfBlock, FramesKept
    <3>2. CASE g = b /\ callbacks'[g][i] = c
      BY <1>3, <3>2 DEF FramesKept
    <3> QED BY <1>6, <3>1, <3>2
  <2>2. \A i \in DOMAIN ran' : ran'[i].in \in Used' /\ ran'[i].id <= ncalls'
    BY <1>1, <1>3, <1>7 DEF CallbacksAreOfBlock, FramesKept
  <2> QED BY <2>1, <2>2 DEF CallbacksAreOfBlock
<1>9. CallbacksAreQueued'
  <2>1. ASSUME NEW g \in Frames, NEW i \in DOMAIN callbacks'[g],
               NEW j \in DOMAIN callbacks'[g], i < j
        PROVE  callbacks'[g][i].id < callbacks'[g][j].id
    <3>1. i \in DOMAIN callbacks[g] /\ callbacks'[g][i] = callbacks[g][i]
      <4>1. g = b => j <= n + 1 /\ j \in Nat
        BY <1>4, <1>5
      <4>2. g # b => callbacks'[g] = callbacks[g]
        BY <1>5
      <4> QED BY <1>4, <1>6, <2>1, <4>1, <4>2
    <3>2. CASE j \in DOMAIN callbacks[g] /\ callbacks'[g][j] = callbacks[g][j]
      BY <1>1, <2>1, <3>1, <3>2 DEF CallbacksAreQueued
    <3>3. CASE callbacks'[g][j] = c
      BY <1>3, <1>7, <3>1, <3>3
    <3> QED BY <1>6, <3>2, <3>3
  <2>2. ASSUME NEW g \in Frames, NEW i \in DOMAIN ran,
               NEW j \in DOMAIN callbacks'[g], frame[ran[i].in].block = g
        PROVE  ran[i].id < callbacks'[g][j].id
    <3>1. CASE j \in DOMAIN callbacks[g] /\ callbacks'[g][j] = callbacks[g][j]
      BY <1>1, <2>2, <3>1 DEF CallbacksAreQueued
    <3>2. CASE callbacks'[g][j] = c
      BY <1>3, <1>7, <3>2
    <3> QED BY <1>6, <3>1, <3>2
  <2> QED BY <2>1, <2>2 DEF CallbacksAreQueued
<1>10. CallbacksFollowCommit' /\ CallbacksInOrder'
  BY <1>1 DEF CallbacksFollowCommit, CallbacksInOrder
<1> QED BY <1>2, <1>8, <1>9, <1>10 DEF CallsInv

(* Every step keeps what CallsInv says. *)
LEMMA StepKeepsCallers ==
  ASSUME DurabilityInv, CallersHaveCommitted, NEW t \in Tasks,
         Enter(t) \/ Body(t) \/ Leave(t) \/ Proceed(t)
  PROVE  CallersKept
<1>inv. TypeOK /\ NamesAreUsed /\ TasksAreSomewhere
  BY DEF DurabilityInv
<1>t. pc \in [Tasks -> PC] /\ target \in [Tasks -> [block : Frames0, in : Frames0, id : 0 .. MaxWrites]]
  BY <1>inv DEF TypeOK
<1>go. \A l : Goto(t, l) => pc'[t] = l /\ \A u \in Tasks : u # t => pc'[u] = pc[u]
  BY <1>t DEF Goto
<1>1. CASE UNCHANGED <<pc, target>>
  BY <1>1 DEF CallersKept
<1>2. CASE \E u \in Tasks : Spawn(t, u)
  <2> PICK u \in Tasks : Spawn(t, u)
    BY <1>2
  <2>1. target' = target /\ \A v \in Tasks : pc'[v] \in {"run", pc[v]}
    BY <1>t DEF Spawn, Goto
  <2> QED BY <2>1 DEF CallersKept
<1>3. CASE \E st \in Status : LeaveOuter(t, Top(t), st) /\ IsOuter(Top(t)) /\ stack[t] # <<>>
  <2> PICK st \in Status : LeaveOuter(t, Top(t), st) /\ IsOuter(Top(t)) /\ stack[t] # <<>>
    BY <1>3
  <2>1. /\ pc'[t] = "closing" /\ \A u \in Tasks : u # t => pc'[u] = pc[u]
        /\ target' = [target EXCEPT ![t] = [NoTarget EXCEPT !.block = Top(t)]]
    BY <1>go DEF LeaveOuter
  <2>2. /\ target'[t].block = Top(t)
        /\ \A u \in Tasks : u # t => target'[u] = target[u]
    BY <1>t, <2>1 DEF NoTarget
  <2>3. Top(t) \in Frames
    BY <1>inv, TopProperties
  <2>4. IsOuter(target[t].block)'
    BY <1>inv, <2>2, <2>3, BecomeStep DEF LeaveOuter, IsOuter
  <2> QED BY <2>1, <2>2, <2>4 DEF CallersKept
<1>4. CASE CloseSession(t)
  <2>1. /\ pc[t] = "closing"
        /\ \/ Committed(target[t].block) /\ Goto(t, "calling") /\ target' = target
           \/ Return(t)
    BY <1>4 DEF CloseSession
  <2>2. CASE Committed(target[t].block) /\ Goto(t, "calling") /\ target' = target
    BY <1>go, <2>1, <2>2 DEF CallersKept
  <2>3. CASE Return(t)
    <3>1. \A u \in Tasks : u # t => target'[u] = target[u]
      BY <1>t, <2>3 DEF Return
    <3> QED BY <1>go, <2>3, <3>1 DEF CallersKept, Return
  <2> QED BY <2>1, <2>2, <2>3
<1>5. CASE /\ \E l \in PC \ {"closing", "calling"} : Goto(t, l)
           /\ \A u \in Tasks : u # t => target'[u] = target[u]
  BY <1>go, <1>5 DEF CallersKept
<1> QED
  <2>1. CASE Enter(t)
    <3>1. UNCHANGED <<pc, target>> \/ (Goto(t, "entering") /\ target' = target)
      BY <2>1 DEF Enter, EnterOuter, EnterNested
    <3> QED BY <1>1, <1>5, <3>1 DEF PC
  <2>2. CASE Body(t)
    <3>1. \/ UNCHANGED <<pc, target>>
          \/ \E u \in Tasks : Spawn(t, u)
          \/ Goto(t, "done") /\ target' = target
          \/ /\ Goto(t, "writing")
             /\ \A u \in Tasks : u # t => target'[u] = target[u]
      BY <1>t, <2>2 DEF Body, WriteJoins, WriteWaits, WriteAutocommits, OnCommit, Finish
    <3> QED BY <1>1, <1>2, <1>5, <3>1 DEF PC
  <2>3. CASE Leave(t)
    <3>1. \/ UNCHANGED <<pc, target>>
          \/ /\ Goto(t, "committing")
             /\ \A u \in Tasks : u # t => target'[u] = target[u]
          \/ \E st \in Status : LeaveOuter(t, Top(t), st) /\ IsOuter(Top(t)) /\ stack[t] # <<>>
      BY <1>t, <2>3 DEF Leave, ReleaseSavepoint, RollbackSavepoint, SavepointGone,
         NestedCancelled, OuterCancelled, CommitStart, Rollback, Undo, LeavesOuter, Status
    <3> QED BY <1>1, <1>3, <1>5, <3>1 DEF PC
  <2>4. CASE Proceed(t)
    <3>1. \/ UNCHANGED <<pc, target>>
          \/ /\ \E l \in PC \ {"closing", "calling"} : Goto(t, l)
             /\ \A u \in Tasks : u # t => target'[u] = target[u]
          \/ CloseSession(t)
          \/ \E st \in Status : LeaveOuter(t, Top(t), st) /\ IsOuter(Top(t)) /\ stack[t] # <<>>
      BY <1>inv, <1>t, <2>4 DEF Proceed, CheckTransaction, BeginTransaction, BeginRefused,
         OpenSavepoint, WriteResumes, CommitDone, CommitFails, CommitCancelled,
         RollbackCommit, Undo, Call, CallRaises, CallsDone, Return, TasksAreSomewhere,
         Status, PC
    <3> QED BY <1>1, <1>3, <1>4, <1>5, <3>1
  <2> QED BY <2>1, <2>2, <2>3, <2>4

(* Every step keeps CallsInv. *)
LEMMA StepKeepsCalls ==
  ASSUME DurabilityInv, CallsInv, NEW t \in Tasks,
         Enter(t) \/ Body(t) \/ Leave(t) \/ Proceed(t)
  PROVE  CallsInv'
<1>inv. TypeOK /\ NamesAreUsed /\ TasksAreSomewhere /\ CallersHaveCommitted
  BY DEF DurabilityInv, CallsInv
<1>c. callbacks \in [Frames -> Seq(Callback)]
  BY <1>inv DEF TypeOK
<1>u. Used \subseteq Frames
  BY <1>inv, UsedIsFrames
<1>k. FramesKept /\ CallersKept
  BY <1>inv, StepKeepsFrames, StepKeepsCallers
<1>1. CASE UNCHANGED <<ncalls, ran, callbacks>>
  BY <1>1, <1>k, CallsDiscarded
<1>2. CASE RollbackSavepoint(t)
  <2> DEFINE b == frame[Top(t)].block
             m == frame[Top(t)].mark
  <2>1. b \in Frames /\ m \in Nat
    <3>1. stack[t] # <<>>
      BY <1>2 DEF RollbackSavepoint, LeavesNested
    <3>2. Top(t) \in Frames
      BY <1>inv, <3>1, TopProperties
    <3> QED BY <1>inv, <3>2 DEF TypeOK, Frame
  <2>2. UNCHANGED <<ncalls, ran>> /\ callbacks' = [callbacks EXCEPT ![b] = Cut(@, m)]
    BY <1>2 DEF RollbackSavepoint, Discard, counters
  <2> HIDE DEF b, m
  <2>3. callbacks[b] \in Seq(Callback)
    BY <1>c, <2>1
  <2>4. \A i \in DOMAIN Cut(callbacks[b], m) :
          i \in DOMAIN callbacks[b] /\ Cut(callbacks[b], m)[i] = callbacks[b][i]
    BY <2>1, <2>3, CutProperties
  <2>5. \A g \in Frames : \A i \in DOMAIN callbacks'[g] :
          i \in DOMAIN callbacks[g] /\ callbacks'[g][i] = callbacks[g][i]
    BY <1>c, <2>1, <2>2, <2>4
  <2> QED BY <1>k, <2>2, <2>5, CallsDiscarded
<1>3. CASE \E a \in Aliases, r \in BOOLEAN : OnCommit(t, a, r)
  <2> PICK a \in Aliases, r \in BOOLEAN : OnCommit(t, a, r)
    BY <1>3
  <2> DEFINE b == OpenBlock(t, a)
             c == [id |-> ncalls + 1, in |-> Enclosing(t, a), robust |-> r]
  <2>1. /\ b # 0 /\ ncalls' = ncalls + 1 /\ UNCHANGED <<frame, ran>>
        /\ callbacks' = [callbacks EXCEPT ![b] = Append(@, c)]
    BY DEF OnCommit
  <2>2. /\ Enclosing(t, a) \in Used /\ b = frame[Enclosing(t, a)].block
        /\ b \in Used
    BY <1>inv, <2>1, EnclosingProperties
  <2>3. c.in = Enclosing(t, a) /\ c.id = ncalls + 1
    OBVIOUS
  <2> HIDE DEF b, c
  <2>4. b \in Frames /\ c.in \in Used /\ frame[c.in].block = b
    BY <1>u, <2>2, <2>3
  <2> QED BY <1>k, <2>1, <2>3, <2>4, CallRegistered
<1>4. CASE Call(t) \/ CallRaises(t)
  <2> DEFINE b == target[t].block
  <2>1. /\ pc[t] = "calling" /\ callbacks[b] # <<>> /\ UNCHANGED <<ncalls, frame>>
        /\ ran' = Append(ran, NextCall(b))
        /\ \E rest \in {Tail(callbacks[b]), <<>>} :
             callbacks' = [callbacks EXCEPT ![b] = rest]
    BY <1>4 DEF Call, CallRaises, counters
  <2>2. b \in Used /\ Committed(b)
    BY <1>inv, <2>1 DEF TasksAreSomewhere, CallersHaveCommitted
  <2> HIDE DEF b
  <2> QED BY <1>k, <2>1, <2>2, CallRuns
<1> QED
  <2>1. CASE Enter(t)
    BY <1>1, <2>1 DEF Enter, EnterOuter, EnterNested, session
  <2>2. CASE Body(t)
    <3>1. UNCHANGED <<ncalls, ran, callbacks>> \/ \E a \in Aliases, r \in BOOLEAN : OnCommit(t, a, r)
      BY <2>2 DEF Body, WriteJoins, WriteWaits, WriteAutocommits, Spawn, Finish,
                  counters, session
    <3> QED BY <1>1, <1>3, <3>1
  <2>3. CASE Leave(t)
    <3>1. UNCHANGED <<ncalls, ran, callbacks>> \/ RollbackSavepoint(t)
      BY <2>3 DEF Leave, ReleaseSavepoint, SavepointGone, NestedCancelled,
         OuterCancelled, CommitStart, Rollback, Undo, LeaveOuter, counters, session
    <3> QED BY <1>1, <1>2, <3>1
  <2>4. CASE Proceed(t)
    <3>1. UNCHANGED <<ncalls, ran, callbacks>> \/ Call(t) \/ CallRaises(t)
      BY <2>4 DEF Proceed, CheckTransaction, BeginTransaction, BeginRefused,
         OpenSavepoint, WriteResumes, CommitDone, CommitFails, CommitCancelled,
         RollbackCommit, Undo, LeaveOuter, CloseSession, CallsDone, counters, session
    <3> QED BY <1>1, <1>4, <3>1
  <2> QED BY <2>1, <2>2, <2>3, <2>4

-----------------------------------------------------------------------------
(* The writes. *)

(* What one step makes durable is the transaction of one block, which is   *)
(* over, or the write of no block.                                         *)
DurableWhole ==
  \A w \in durable' \ durable :
    w.in # 0 => LET b == frame[w.in].block
                IN durable' \ durable = Elements(log[b]) /\ ~open'[b]

(* The tasks that wait to write waited before the step. *)
WritersKept ==
  \A u \in Tasks : pc'[u] = "writing" => pc[u] = "writing" /\ target'[u] = target[u]

LogsShrink ==
  \A b \in Frames : \A i \in DOMAIN log'[b] :
    i \in DOMAIN log[b] /\ log'[b][i] = log[b][i]

(* Writes are numbered. *)
LEMMA WritesHaveNumbers ==
  ASSUME TypeOK
  PROVE  /\ \A d \in durable : d.id \in Nat
         /\ \A g \in Frames : \A i \in DOMAIN log[g] : log[g][i].id \in Nat
         /\ \A u \in Tasks : target[u].id \in Nat
<1>1. \A x \in Write : x.id \in Nat
  BY DEF Write
<1>2. ASSUME NEW g \in Frames, NEW i \in DOMAIN log[g] PROVE log[g][i] \in Write
  <2>1. log[g] \in Seq(Write)
    BY DEF TypeOK
  <2> QED BY <2>1
<1>3. durable \subseteq Write /\ \A u \in Tasks : target[u].id \in 0 .. MaxWrites
  BY DEF TypeOK
<1> QED BY <1>1, <1>2, <1>3

(* A step may undo writes that are not durable. *)
LEMMA WritesUndone ==
  ASSUME WritesInv, WritersKept, LogsShrink, UNCHANGED <<nwrites, durable>>
  PROVE  WritesInv' /\ DurableWhole
<1>1. WritesAreCounted /\ WaitingIsNew /\ LogIsNotDurable
  BY DEF WritesInv
<1>2. WritesAreCounted'
  BY <1>1 DEF WritesAreCounted, WritersKept, LogsShrink
<1>3. WaitingIsNew'
  BY <1>1 DEF WaitingIsNew, WritersKept, LogsShrink
<1>4. LogIsNotDurable'
  BY <1>1 DEF LogIsNotDurable, LogsShrink
<1> QED BY <1>2, <1>3, <1>4 DEF WritesInv, DurableWhole

(* A transaction commits: its log becomes durable. *)
LEMMA WritesCommitted ==
  ASSUME DurabilityInv, WritesInv, WritersKept, LogsShrink, UNCHANGED nwrites,
         NEW b \in Frames, durable' = durable \cup Elements(log[b]),
         log'[b] = <<>>, ~open'[b]
  PROVE  WritesInv' /\ DurableWhole
<1>1. WritesAreCounted /\ WaitingIsNew /\ LogIsNotDurable /\ LogIsOfBlock
  BY DEF WritesInv, DurabilityInv
<1>2. WritesAreCounted'
  BY <1>1 DEF WritesAreCounted, WritersKept, LogsShrink, Elements
<1>3. WaitingIsNew'
  BY <1>1 DEF WaitingIsNew, WritersKept, LogsShrink, Elements
<1>4. LogIsNotDurable'
  <2> SUFFICES ASSUME NEW g \in Frames, NEW i \in DOMAIN log'[g], log'[g][i] \in durable'
               PROVE  FALSE
    BY DEF LogIsNotDurable
  <2>1. g # b
    BY DEF LogsShrink
  <2>2. log'[g][i] = log[g][i] /\ i \in DOMAIN log[g] /\ log[g][i] \in Elements(log[b])
    BY <1>1 DEF LogsShrink, LogIsNotDurable
  <2> QED BY <1>1, <2>1, <2>2 DEF LogIsOfBlock, Elements
<1>5. DurableWhole
  <2>1. durable' \ durable = Elements(log[b])
    BY <1>1 DEF LogIsNotDurable, Elements
  <2>2. \A w \in Elements(log[b]) : frame[w.in].block = b
    BY <1>1 DEF LogIsOfBlock, Elements
  <2> QED BY <2>1, <2>2 DEF DurableWhole
<1> QED BY <1>2, <1>3, <1>4, <1>5 DEF WritesInv

(* A write executes in a transaction. *)
LEMMA WriteExecuted ==
  ASSUME DurabilityInv, WritesInv, WritersKept, UNCHANGED durable,
         nwrites' \in Nat, nwrites <= nwrites',
         NEW b \in Frames, NEW w, w.id <= nwrites',
         \A d \in durable : d.id # w.id,
         \A u \in Tasks : pc'[u] = "writing" => target[u].id # w.id,
         log' = [log EXCEPT ![b] = Append(@, w)]
  PROVE  WritesInv' /\ DurableWhole
<1>1. /\ WritesAreCounted /\ WaitingIsNew /\ LogIsNotDurable /\ TypeOK
  BY DEF WritesInv, DurabilityInv
<1>2. log[b] \in Seq(Write) /\ log \in [Frames -> Seq(Write)]
  BY <1>1 DEF TypeOK
<1>3. ASSUME NEW g \in Frames, NEW i \in DOMAIN log'[g]
      PROVE  \/ i \in DOMAIN log[g] /\ log'[g][i] = log[g][i]
             \/ log'[g][i] = w
  <2>1. CASE g # b
    BY <1>2, <2>1
  <2>2. CASE g = b
    BY <1>2, <2>2
  <2> QED BY <2>1, <2>2
<1>4. nwrites \in Nat /\ \A n \in Nat : n <= nwrites => n <= nwrites'
  BY <1>1 DEF TypeOK
<1>5. /\ \A d \in durable : d.id \in Nat
      /\ \A g \in Frames : \A i \in DOMAIN log[g] : log[g][i].id \in Nat
      /\ \A u \in Tasks : target[u].id \in Nat
  BY <1>1, WritesHaveNumbers
<1>6. WritesAreCounted'
  BY <1>1, <1>3, <1>4, <1>5 DEF WritesAreCounted, WritersKept
<1>7. WaitingIsNew'
  BY <1>1, <1>3 DEF WaitingIsNew, WritersKept
<1>8. LogIsNotDurable'
  BY <1>1, <1>3 DEF LogIsNotDurable
<1> QED BY <1>6, <1>7, <1>8 DEF WritesInv, DurableWhole

(* A write outside all blocks is durable at once. *)
LEMMA WriteAutocommitted ==
  ASSUME DurabilityInv, WritesInv, UNCHANGED <<pc, target, log>>,
         nwrites' = nwrites + 1,
         durable' = durable \cup {[id |-> nwrites + 1, in |-> 0]}
  PROVE  WritesInv' /\ DurableWhole
<1>1. /\ WritesAreCounted /\ WaitingIsNew /\ LogIsNotDurable /\ TypeOK
  BY DEF WritesInv, DurabilityInv
<1> DEFINE w == [id |-> nwrites + 1, in |-> 0]
<1>2. w.id = nwrites + 1 /\ w.in = 0 /\ durable' = durable \cup {w}
  OBVIOUS
<1> HIDE DEF w
<1>3. nwrites \in Nat
  BY <1>1 DEF TypeOK
<1>5. /\ \A d \in durable : d.id \in Nat
      /\ \A g \in Frames : \A i \in DOMAIN log[g] : log[g][i].id \in Nat
      /\ \A u \in Tasks : target[u].id \in Nat
  BY <1>1, WritesHaveNumbers
<1>6. WritesAreCounted'
  BY <1>1, <1>2, <1>3, <1>5 DEF WritesAreCounted
<1>7. WaitingIsNew'
  BY <1>1, <1>2, <1>3, <1>5 DEF WaitingIsNew, WritesAreCounted
<1>8. LogIsNotDurable'
  BY <1>1, <1>2, <1>3, <1>5 DEF LogIsNotDurable, WritesAreCounted
<1>9. DurableWhole
  BY <1>2 DEF DurableWhole
<1> QED BY <1>6, <1>7, <1>8, <1>9 DEF WritesInv

(* A write waits for the lock. *)
LEMMA WriteDelayed ==
  ASSUME DurabilityInv, WritesInv, UNCHANGED <<durable, log>>,
         nwrites' = nwrites + 1, NEW t \in Tasks,
         target'[t].id = nwrites + 1,
         \A u \in Tasks : u # t => target'[u] = target[u] /\ pc'[u] = pc[u]
  PROVE  WritesInv' /\ DurableWhole
<1>1. /\ WritesAreCounted /\ WaitingIsNew /\ LogIsNotDurable /\ TypeOK
  BY DEF WritesInv, DurabilityInv
<1>3. nwrites \in Nat
  BY <1>1 DEF TypeOK
<1>5. /\ \A d \in durable : d.id \in Nat
      /\ \A g \in Frames : \A i \in DOMAIN log[g] : log[g][i].id \in Nat
      /\ \A u \in Tasks : target[u].id \in Nat
  BY <1>1, WritesHaveNumbers
<1>6. WritesAreCounted'
  BY <1>1, <1>3, <1>5 DEF WritesAreCounted
<1>7. WaitingIsNew'
  BY <1>1, <1>3, <1>5 DEF WaitingIsNew, WritesAreCounted
<1> QED BY <1>1, <1>6, <1>7 DEF WritesInv, LogIsNotDurable, DurableWhole

(* Only a write may have to wait. *)
LEMMA StepKeepsWriters ==
  ASSUME DurabilityInv, NEW t \in Tasks,
         Enter(t) \/ Body(t) \/ Leave(t) \/ Proceed(t),
         \A a \in Aliases : ~WriteWaits(t, a)
  PROVE  WritersKept
<1>inv. TypeOK /\ pc \in [Tasks -> PC] /\ TasksAreSomewhere
        /\ target \in [Tasks -> [block : Frames0, in : Frames0, id : 0 .. MaxWrites]]
  BY DEF DurabilityInv, TypeOK
<1>go. \A l : Goto(t, l) => pc'[t] = l /\ \A u \in Tasks : u # t => pc'[u] = pc[u]
  BY <1>inv DEF Goto
<1>1. CASE UNCHANGED <<pc, target>>
  BY <1>1 DEF WritersKept
<1>2. CASE \E u \in Tasks : Spawn(t, u)
  <2> PICK u \in Tasks : Spawn(t, u)
    BY <1>2
  <2>1. target' = target /\ \A v \in Tasks : pc'[v] \in {"run", pc[v]}
    BY <1>inv DEF Spawn, Goto
  <2> QED BY <2>1 DEF WritersKept
<1>3. CASE /\ \E l \in PC \ {"writing"} : Goto(t, l)
           /\ \A u \in Tasks : u # t => target'[u] = target[u]
  BY <1>go, <1>3 DEF WritersKept
<1>4. CASE Enter(t)
  <2>1. UNCHANGED <<pc, target>> \/ (Goto(t, "entering") /\ target' = target)
    BY <1>4 DEF Enter, EnterOuter, EnterNested
  <2> QED BY <1>1, <1>3, <2>1 DEF PC
<1>5. CASE Body(t)
  <2>1. \/ UNCHANGED <<pc, target>>
        \/ \E u \in Tasks : Spawn(t, u)
        \/ Goto(t, "done") /\ target' = target
    BY <1>5 DEF Body, WriteJoins, WriteAutocommits, OnCommit, Finish
  <2> QED BY <1>1, <1>2, <1>3, <2>1 DEF PC
<1>6. CASE Leave(t)
  <2>1. \/ UNCHANGED <<pc, target>>
        \/ /\ Goto(t, "committing") \/ Goto(t, "closing")
           /\ \A u \in Tasks : u # t => target'[u] = target[u]
    BY <1>inv, <1>6 DEF Leave, ReleaseSavepoint, RollbackSavepoint, SavepointGone,
       NestedCancelled, OuterCancelled, CommitStart, Rollback, Undo, LeaveOuter
  <2> QED BY <1>1, <1>3, <2>1 DEF PC
<1>7. CASE Proceed(t)
  <2>1. \/ UNCHANGED <<pc, target>>
        \/ /\ \E l \in PC \ {"writing"} : Goto(t, l)
           /\ \A u \in Tasks : u # t => target'[u] = target[u]
    BY <1>inv, <1>7 DEF Proceed, CheckTransaction, BeginTransaction, BeginRefused,
       OpenSavepoint, WriteResumes, CommitDone, CommitFails, CommitCancelled,
       RollbackCommit, Undo, LeaveOuter, CloseSession, Call, CallRaises, CallsDone,
       Return, PC
  <2> QED BY <1>1, <1>3, <2>1
<1> QED BY <1>4, <1>5, <1>6, <1>7

(* A log is kept, emptied or cut. *)
LEMMA LogsAreCut ==
  ASSUME TypeOK,
         \/ UNCHANGED log
         \/ \E f \in Frames : log' = [log EXCEPT ![f] = <<>>]
         \/ \E f \in Frames, n \in Nat : log' = [log EXCEPT ![f] = Cut(@, n)]
  PROVE  LogsShrink
<1>1. log \in [Frames -> Seq(Write)]
  BY DEF TypeOK
<1>2. CASE UNCHANGED log
  BY <1>2 DEF LogsShrink
<1>3. CASE \E f \in Frames : log' = [log EXCEPT ![f] = <<>>]
  BY <1>1, <1>3 DEF LogsShrink
<1>4. CASE \E f \in Frames, n \in Nat : log' = [log EXCEPT ![f] = Cut(@, n)]
  <2> PICK f \in Frames, n \in Nat : log' = [log EXCEPT ![f] = Cut(@, n)]
    BY <1>4
  <2>1. log[f] \in Seq(Write)
    BY <1>1
  <2>2. \A i \in DOMAIN Cut(log[f], n) :
          i \in DOMAIN log[f] /\ Cut(log[f], n)[i] = log[f][i]
    BY <2>1, CutProperties
  <2> QED BY <1>1, <2>2 DEF LogsShrink
<1> QED BY <1>2, <1>3, <1>4

(* A write is made in the body of a block, or was delayed. *)
LEMMA BodyKeepsWrites ==
  ASSUME DurabilityInv, WritesInv, NEW t \in Tasks, Body(t) \/ WriteResumes(t)
  PROVE  WritesInv' /\ DurableWhole
<1>inv. /\ TypeOK /\ NamesAreUsed /\ LogIsOfBlock /\ TasksAreSomewhere
        /\ WritesAreCounted /\ WaitingIsNew
  BY DEF DurabilityInv, WritesInv
<1>u. Used \subseteq Frames /\ nwrites \in Nat
  BY <1>inv, UsedIsFrames DEF TypeOK
<1>k. (\A a \in Aliases : ~WriteWaits(t, a)) => WritersKept
  BY StepKeepsWriters DEF Proceed
<1>n. /\ \A d \in durable : d.id \in Nat
      /\ \A u \in Tasks : target[u].id \in Nat
  BY <1>inv, WritesHaveNumbers
<1>1. ASSUME NEW a \in Aliases, WriteWaits(t, a)
      PROVE  WritesInv' /\ DurableWhole
  <2>1. /\ nwrites' = nwrites + 1 /\ UNCHANGED <<durable, log>>
        /\ target'[t].id = nwrites + 1
        /\ \A u \in Tasks : u # t => target'[u] = target[u] /\ pc'[u] = pc[u]
    BY <1>inv, <1>1 DEF WriteWaits, TypeOK, Goto, session
  <2> QED BY <2>1, WriteDelayed
<1>2. ASSUME NEW a \in Aliases, WriteJoins(t, a)
      PROVE  WritesInv' /\ DurableWhole
  <2> DEFINE b == OpenBlock(t, a)
             w == [id |-> nwrites + 1, in |-> Enclosing(t, a)]
  <2>1. /\ b # 0 /\ nwrites' = nwrites + 1 /\ UNCHANGED <<durable, pc, target>>
        /\ log' = [log EXCEPT ![b] = Append(@, w)]
    BY <1>2 DEF WriteJoins, Execute
  <2>2. b \in Frames
    BY <1>inv, <1>u, <2>1, EnclosingProperties
  <2>3. w.id = nwrites + 1
    OBVIOUS
  <2> HIDE DEF b, w
  <2>4. /\ \A d \in durable : d.id # w.id
        /\ \A u \in Tasks : pc'[u] = "writing" => target[u].id # w.id
    BY <1>inv, <1>n, <1>u, <2>1, <2>3 DEF WritesAreCounted
  <2>5. WritersKept
    BY <2>1 DEF WritersKept
  <2>6. nwrites' \in Nat /\ nwrites <= nwrites' /\ w.id <= nwrites'
    BY <1>u, <2>1, <2>3
  <2> QED BY <2>1, <2>2, <2>4, <2>5, <2>6, WriteExecuted
<1>3. CASE WriteResumes(t)
  <2> DEFINE b == target[t].block
             w == [id |-> target[t].id, in |-> target[t].in]
  <2>1. /\ pc[t] = "writing" /\ UNCHANGED <<durable, nwrites>>
        /\ log' = [log EXCEPT ![b] = Append(@, w)]
        /\ Goto(t, "run")
    BY <1>3 DEF WriteResumes, Execute, Return, counters
  <2>2. b \in Frames
    BY <1>inv, <1>u, <2>1 DEF LogIsOfBlock, NamesAreUsed
  <2>3. w.id = target[t].id
    OBVIOUS
  <2> HIDE DEF b, w
  <2>4. pc'[t] = "run" /\ \A u \in Tasks : u # t => pc'[u] = pc[u]
    BY <1>inv, <2>1 DEF Goto, TypeOK
  <2>5. /\ \A d \in durable : d.id # w.id
        /\ \A u \in Tasks : pc'[u] = "writing" => target[u].id # w.id
        /\ w.id <= nwrites'
    BY <1>inv, <2>1, <2>3, <2>4 DEF WaitingIsNew, WritesAreCounted
  <2>6. WritersKept
    <3>1. \A a \in Aliases : ~WriteWaits(t, a)
      BY <2>1 DEF WriteWaits
    <3> QED BY <1>k, <3>1
  <2>7. durable' = durable /\ nwrites' \in Nat /\ nwrites <= nwrites'
    BY <1>u, <2>1
  <2> QED BY <2>1, <2>2, <2>5, <2>6, <2>7, WriteExecuted
<1>4. ASSUME NEW a \in Aliases, WriteAutocommits(t, a)
      PROVE  WritesInv' /\ DurableWhole
  BY <1>4, WriteAutocommitted DEF WriteAutocommits, session
<1>5. CASE (\E a \in Aliases, r \in BOOLEAN : OnCommit(t, a, r))
             \/ (\E u \in Tasks : Spawn(t, u)) \/ Finish(t)
  <2>1. UNCHANGED <<nwrites, durable, log>>
    BY <1>5 DEF OnCommit, Spawn, Finish, counters, session
  <2>2. \A a \in Aliases : ~WriteWaits(t, a)
    BY <1>u, <2>1 DEF WriteWaits
  <2> QED BY <1>inv, <1>k, <2>1, <2>2, LogsAreCut, WritesUndone
<1> QED BY <1>1, <1>2, <1>3, <1>4, <1>5 DEF Body

(* Every other step commits, undoes or leaves the writes. *)
LEMMA StepKeepsWrites ==
  ASSUME DurabilityInv, WritesInv, NEW t \in Tasks,
         Enter(t) \/ Body(t) \/ Leave(t) \/ Proceed(t)
  PROVE  WritesInv' /\ DurableWhole
<1>inv. TypeOK /\ NamesAreUsed /\ SavepointsAreInside /\ TasksAreSomewhere
  BY DEF DurabilityInv
<1>u. Used \subseteq Frames
  BY <1>inv, UsedIsFrames
<1>top. stack[t] # <<>> => Top(t) \in Frames /\ frame[Top(t)].block \in Used
                           /\ IsOuter(frame[Top(t)].block)
  BY <1>inv, TopProperties
<1>1. CASE Body(t) \/ WriteResumes(t)
  BY <1>1, BodyKeepsWrites
<1>2. CASE ~(Body(t) \/ WriteResumes(t))
  <2>k. WritersKept
    BY <1>2, StepKeepsWriters DEF Body
  <2>1. CASE /\ UNCHANGED <<nwrites, durable>>
             /\ \/ UNCHANGED log
                \/ \E f \in Frames : log' = [log EXCEPT ![f] = <<>>]
                \/ \E f \in Frames, n \in Nat : log' = [log EXCEPT ![f] = Cut(@, n)]
    BY <1>inv, <2>k, <2>1, LogsAreCut, WritesUndone
  <2>2. CASE /\ UNCHANGED nwrites
             /\ \E f \in Frames : /\ durable' = durable \cup Elements(log[f])
                                  /\ log' = [log EXCEPT ![f] = <<>>]
                                  /\ ~open'[f]
    <3> PICK f \in Frames : /\ durable' = durable \cup Elements(log[f])
                            /\ log' = [log EXCEPT ![f] = <<>>]
                            /\ ~open'[f]
      BY <2>2
    <3>1. log'[f] = <<>>
      BY <1>inv DEF TypeOK
    <3> QED BY <1>inv, <2>k, <2>2, <3>1, LogsAreCut, WritesCommitted
  <2>3. CASE Enter(t)
    BY <2>1, <2>3 DEF Enter, EnterOuter, EnterNested, session
  <2>4. CASE ReleaseSavepoint(t)
    <3> DEFINE b == frame[Top(t)].block
    <3>1. stack[t] # <<>> /\ UNCHANGED <<nwrites, open>>
      BY <2>4 DEF ReleaseSavepoint, LeavesNested, counters
    <3>2. PICK i \in SavepointOf(Top(t)) :
            IF sps[b][i].outside
            THEN /\ durable' = durable \cup Elements(log[b])
                 /\ log' = [log EXCEPT ![b] = <<>>]
            ELSE UNCHANGED <<durable, log>>
      BY <2>4 DEF ReleaseSavepoint
    <3>3. b \in Used /\ b \in Frames /\ IsOuter(b)
      BY <1>top, <1>u, <3>1
    <3>4. i \in DOMAIN sps[b]
      BY DEF SavepointOf
    <3> HIDE DEF b
    <3>5. sps[b][i].outside => ~open[b]
      BY <1>inv, <3>3, <3>4 DEF SavepointsAreInside
    <3> QED BY <2>1, <2>2, <3>1, <3>2, <3>3, <3>5
  <2>5. CASE RollbackSavepoint(t)
    <3> DEFINE b == frame[Top(t)].block
    <3>1. stack[t] # <<>> /\ UNCHANGED <<nwrites, durable>>
      BY <2>5 DEF RollbackSavepoint, LeavesNested, counters
    <3>2. PICK i \in SavepointOf(Top(t)) :
            log' = [log EXCEPT ![b] = Cut(@, sps[b][i].mark)]
      BY <2>5 DEF RollbackSavepoint, RollbackTo
    <3>3. b \in Frames
      BY <1>top, <1>u, <3>1
    <3>4. sps[b][i].mark \in Nat
      <4>1. sps[b] \in Seq(Savepoint) /\ i \in DOMAIN sps[b]
        BY <1>inv, <3>3 DEF SavepointOf, TypeOK
      <4>2. sps[b][i] \in Savepoint
        BY <4>1
      <4> QED BY <4>2 DEF Savepoint
    <3> HIDE DEF b
    <3> QED BY <2>1, <3>1, <3>2, <3>3, <3>4
  <2>6. CASE CommitDone(t) \/ CommitCancelled(t)
    <3>1. stack[t] # <<>> /\ UNCHANGED nwrites /\ open' = [open EXCEPT ![Top(t)] = FALSE]
      BY <1>inv, <2>6 DEF CommitDone, CommitCancelled, LeaveOuter, TasksAreSomewhere, counters
    <3>2. \/ /\ durable' = durable \cup Elements(log[Top(t)])
             /\ log' = [log EXCEPT ![Top(t)] = <<>>]
          \/ UNCHANGED <<durable, log>>
      BY <2>6 DEF CommitDone, CommitCancelled, Commit, EndTransaction
    <3>3. Top(t) \in Frames /\ ~open'[Top(t)]
      BY <1>inv, <1>top, <3>1 DEF TypeOK
    <3> QED BY <2>1, <2>2, <3>1, <3>2, <3>3
  <2>7. CASE Rollback(t) \/ RollbackCommit(t)
    <3>1. stack[t] # <<>> /\ Undo(t, Top(t))
      BY <1>inv, <2>7 DEF Rollback, RollbackCommit, LeavesOuter, TasksAreSomewhere
    <3> QED BY <1>top, <2>1, <3>1 DEF Undo, EndTransaction, LeaveOuter, counters
  <2>8. CASE CloseSession(t)
    <3>1. target[t].block \in Frames
      BY <1>inv, <1>u, <2>8 DEF CloseSession, TasksAreSomewhere
    <3> QED BY <2>1, <2>8, <3>1 DEF CloseSession, EndTransaction, counters
  <2>9. CASE \/ SavepointGone(t) \/ NestedCancelled(t) \/ OuterCancelled(t)
             \/ CommitStart(t) \/ CheckTransaction(t) \/ BeginTransaction(t)
             \/ BeginRefused(t) \/ OpenSavepoint(t) \/ CommitFails(t)
             \/ Call(t) \/ CallRaises(t) \/ CallsDone(t)
    <3>1. UNCHANGED <<nwrites, durable, log>>
      BY <2>9 DEF SavepointGone, NestedCancelled, OuterCancelled, LeaveOuter,
         CommitStart, CheckTransaction, BeginTransaction, BeginRefused,
         OpenSavepoint, CommitFails, Call, CallRaises, CallsDone, counters, session
    <3> QED BY <2>1, <3>1
  <2> QED BY <1>2, <2>3, <2>4, <2>5, <2>6, <2>7, <2>8, <2>9 DEF Leave, Proceed
<1> QED BY <1>1, <1>2

-----------------------------------------------------------------------------
LEMMA InitialCommits == Init => CommitInv
<1> SUFFICES ASSUME Init PROVE CommitInv
  OBVIOUS
<1>1. DurabilityInv
  BY InitEstablishes
<1>2. CallsInv
  BY AtomicAssumption DEF Init, CallsInv, CallbacksAreOfBlock, CallersHaveCommitted,
     CallbacksAreQueued, CallbacksFollowCommit, CallbacksInOrder, Elements
<1>3. WritesInv
  BY AtomicAssumption DEF Init, WritesInv, WritesAreCounted, WaitingIsNew, LogIsNotDurable
<1> QED BY <1>1, <1>2, <1>3 DEF CommitInv

LEMMA StepCommits == CommitInv /\ [Next]_vars => CommitInv' /\ (DurableWhole \/ UNCHANGED vars)
<1> SUFFICES ASSUME CommitInv, [Next]_vars
             PROVE  CommitInv' /\ (DurableWhole \/ UNCHANGED vars)
  OBVIOUS
<1>1. DurabilityInv /\ CallsInv /\ WritesInv /\ DurabilityInv'
  BY StepPreserves DEF CommitInv
<1>2. CASE Next
  BY <1>1, <1>2, StepKeepsCalls, StepKeepsWrites DEF Next, CommitInv
<1>3. CASE UNCHANGED vars
  <2>1. UNCHANGED <<frame, nframes, nwrites, ncalls, pc, target, callbacks, log, durable, ran>>
    BY <1>3 DEF vars
  <2>2. CallsInv'
    BY <1>1, <2>1 DEF CallsInv, CallbacksAreOfBlock, CallersHaveCommitted, CallbacksAreQueued,
       CallbacksFollowCommit, CallbacksInOrder, Elements, Used, IsOuter, Committed
  <2>3. WritesInv'
    BY <1>1, <2>1 DEF WritesInv, WritesAreCounted, WaitingIsNew, LogIsNotDurable
  <2> QED BY <1>1, <1>3, <2>2, <2>3 DEF CommitInv
<1> QED BY <1>2, <1>3

(* The inductive invariant behind the callbacks and the commits.           *)
THEOREM CommitInvariant == Spec => []CommitInv
<1>1. Init => CommitInv
  BY InitialCommits
<1>2. CommitInv /\ [Next]_vars => CommitInv'
  BY StepCommits
<1> QED BY <1>1, <1>2, PTL DEF Spec

(* A callback runs only when the outer block it was registered in has      *)
(* committed ("run after the transaction commits", on_commit), whatever    *)
(* tasks share the block and wherever they are cancelled.                  *)
THEOREM CallsFollowCommit == Spec => []CallbacksFollowCommit
<1>1. CommitInv => CallbacksFollowCommit
  BY DEF CommitInv, CallsInv
<1> QED BY <1>1, CommitInvariant, PTL

(* _run_on_commit_callbacks runs the callbacks of a transaction once each, *)
(* in the order of their registration, across nested blocks and tasks.     *)
THEOREM CallsAreInOrder == Spec => []CallbacksInOrder
<1>1. CommitInv => CallbacksInOrder
  BY DEF CommitInv, CallsInv
<1> QED BY <1>1, CommitInvariant, PTL

(* A step that makes a write of a block durable makes its transaction      *)
(* durable whole and nothing else, and finds or leaves the block closed.   *)
THEOREM CommitsAreWhole == Spec => CommitIsWhole
<1>1. CommitInv /\ [Next]_vars =>
        [\A w \in durable' \ durable :
           w.in # 0 => LET b == frame[w.in].block
                       IN durable' \ durable = Elements(log[b]) /\ ~open'[b]]_vars
  BY StepCommits DEF DurableWhole
<1> QED BY <1>1, CommitInvariant, PTL DEF Spec, CommitIsWhole
=============================================================================
