--------------------------- MODULE MigrateProofs ---------------------------
(***************************************************************************)
(* Migrate, for any number of processes, releases and migrations.          *)
(*                                                                         *)
(* First the graph: what _sort() lists and what a plan is made of.  Then   *)
(* the invariants of the runs, each on top of the ones before: the lock    *)
(* keeps what a process believes recorded current (LockInv), everything a  *)
(* run holds is of its request (MigrateInv), what is committed agrees with *)
(* what is recorded (WholeInv, FollowInv), a plan does what is due and     *)
(* keeps what is applied complete (CourseInv), and of the step in progress *)
(* as much is done as is no longer to do (FitInv).                         *)
(***************************************************************************)
EXTENDS Migrate, TLAPS, NaturalsInduction, WellFoundedInduction,
        FiniteSetTheorems, SequenceTheorems

-----------------------------------------------------------------------------
(* The graph and its plans. *)

(* A nonempty set of numbers has a least one.                               *)
LEMMA MinOf ==
  ASSUME NEW S, S \subseteq Nat, S # {}
  PROVE  Min(S) \in S /\ \A y \in S : Min(S) <= y
<1> DEFINE R == OpToRel(<, Nat)
<1>1. IsWellFoundedOn(R, Nat)
  BY NatLessThanWellFounded
<1>2. PICK m \in S : \A y \in S : ~(<<y, m>> \in R)
  <2> HIDE DEF R
  <2> QED BY <1>1, WFMin
<1>3. ASSUME NEW y \in S PROVE m <= y
  <2>1. m \in Nat /\ y \in Nat
    OBVIOUS
  <2>2. ~(y < m)
    BY <1>2, <2>1 DEF OpToRel
  <2> QED BY <2>1, <2>2
<1> QED BY <1>3 DEF Min

(* f holds what step makes of a, time after time.                           *)
IsIteration(f, a, step, n) ==
  f[0] = a /\ \A k \in 1 .. n : f[k] = step[<<f[k - 1], k>>]

(* What is computed step by step exists, and stays where the steps stay.    *)
LEMMA Iterates ==
  ASSUME NEW S, NEW a \in S, NEW step \in [S \X Nat -> S], NEW n \in Nat
  PROVE  \E f \in [0 .. n -> S] : IsIteration(f, a, step, n)
<1> USE DEF IsIteration
<1> DEFINE P(f, m) == IsIteration(f, a, step, m)
           R == OpToRel(<, Nat)
           T == {m \in Nat : ~\E f \in [0 .. m -> S] : P(f, m)}
<1>1. IsWellFoundedOn(R, Nat)
  BY NatLessThanWellFounded
<1>2. SUFFICES ASSUME T # {} PROVE FALSE
  OBVIOUS
<1>3. PICK m \in T : \A y \in T : ~(<<y, m>> \in R)
  <2>1. T \subseteq Nat
    OBVIOUS
  <2> HIDE DEF T, R
  <2> QED BY <1>1, <1>2, <2>1, WFMin
<1>4. \A y \in Nat : y < m => \E f \in [0 .. y -> S] : P(f, y)
  BY <1>3 DEF OpToRel
<1>5. m # 0
  <2>1. P([i \in 0 .. 0 |-> a], 0)
    OBVIOUS
  <2> QED BY <2>1
<1>6. PICK g \in [0 .. m - 1 -> S] : P(g, m - 1)
  BY <1>4, <1>5
<1> DEFINE f == [i \in 0 .. m |-> IF i < m THEN g[i] ELSE step[<<g[m - 1], m>>]]
<1>7. f \in [0 .. m -> S]
  <2>1. g[m - 1] \in S
    BY <1>5
  <2>2. step[<<g[m - 1], m>>] \in S
    BY <2>1
  <2> QED BY <2>2
<1>8. f[0] = a
  BY <1>5, <1>6
<1>9. ASSUME NEW k \in 1 .. m PROVE f[k] = step[<<f[k - 1], k>>]
  <2>1. f[k - 1] = g[k - 1]
    BY <1>9
  <2>2. CASE k = m
    BY <2>1, <2>2
  <2>3. CASE k < m
    <3>1. f[k] = g[k] /\ k \in 1 .. m - 1
      BY <2>3
    <3> QED BY <3>1, <2>1, <1>6
  <2> QED BY <2>2, <2>3
<1>10. P(f, m)
  BY <1>8, <1>9
<1>11. \E h \in [0 .. m -> S] : P(h, m)
  <2> HIDE DEF f, P
  <2> QED BY <1>7, <1>10
<1> QED BY <1>11, <1>3

(* The sequences of elements of S without an element twice.                 *)
Distinct(S) ==
  {s \in Seq(S) : \A i, j \in DOMAIN s : s[i] = s[j] => i = j}

(* The nodes that may follow those of b, and b with the first one of them.  *)
ReadyAfter(b, nodes, needs) ==
  {m \in nodes \ ToSet(b) : needs[m] \subseteq ToSet(b)}
WithReady(b, nodes, needs) ==
  IF ReadyAfter(b, nodes, needs) = {} THEN b
  ELSE Append(b, Min(ReadyAfter(b, nodes, needs)))

(* f sorts nodes, one after the other.                                      *)
SortsUp(f, nodes, needs) ==
  /\ f[0] = <<>>
  /\ \A k \in 0 .. Cardinality(nodes) : f[k] \in Distinct(nodes)
  /\ \A k \in 1 .. Cardinality(nodes) : f[k] = WithReady(f[k - 1], nodes, needs)

(* _sort() takes one node after the other, and none of them twice.          *)
LEMMA SortSteps ==
  ASSUME NEW nodes, nodes \subseteq Nat, IsFiniteSet(nodes), NEW needs
  PROVE  \E f : SortsUp(f, nodes, needs) /\ Sort(nodes, needs) = f[Cardinality(nodes)]
<1> DEFINE C == Cardinality(nodes)
           ready(b) == {m \in nodes \ ToSet(b) : needs[m] \subseteq ToSet(b)}
           next(b) == IF ready(b) = {} THEN b ELSE Append(b, Min(ready(b)))
           D == Distinct(nodes)
           step == [x \in D \X Nat |-> next(x[1])]
<1>1. C \in Nat
  BY FS_CardinalityType
<1>2. <<>> \in D
  BY DEF Distinct
<1>3. ASSUME NEW b \in D PROVE next(b) \in D
  <2>1. CASE ready(b) = {}
    BY <2>1
  <2>2. CASE ready(b) # {}
    <3> DEFINE e == Min(ready(b))
    <3>1. e \in ready(b)
      <4>1. ready(b) \subseteq Nat
        OBVIOUS
      <4> HIDE DEF ready
      <4> QED BY <2>2, <4>1, MinOf
    <3>2. e \in nodes /\ e \notin ToSet(b)
      BY <3>1
    <3>3. next(b) = Append(b, e)
      BY <2>2
    <3> HIDE DEF e, next, ready
    <3>4. b \in Seq(nodes) /\ \A i \in DOMAIN b : b[i] # e
      BY <3>2 DEF ToSet, Distinct
    <3>5. Append(b, e) \in Seq(nodes)
      BY <3>2, <3>4
    <3>6. ASSUME NEW i \in DOMAIN Append(b, e), NEW j \in DOMAIN Append(b, e),
                 Append(b, e)[i] = Append(b, e)[j]
          PROVE  i = j
      <4>1. \A k, l \in DOMAIN b : b[k] = b[l] => k = l
        BY DEF Distinct
      <4> QED BY <3>2, <3>4, <3>6, <4>1
    <3> QED BY <3>3, <3>5, <3>6 DEF Distinct
  <2> QED BY <2>1, <2>2
<1>4. step \in [D \X Nat -> D]
  <2> HIDE DEF next, D
  <2> QED BY <1>3
<1> DEFINE IsFirst(f) ==
             f = [k \in 0 .. C |->
                   IF k = 0 THEN <<>>
                   ELSE LET before == f[k - 1]
                            rdy == {m \in nodes \ ToSet(before) :
                                       needs[m] \subseteq ToSet(before)}
                        IN IF rdy = {} THEN before ELSE Append(before, Min(rdy))]
<1>5. ASSUME NEW f, IsFirst(f) PROVE \A k \in 0 .. C : f[k] \in D
  <2>1. \A k \in 0 .. C : f[k] = IF k = 0 THEN <<>> ELSE next(f[k - 1])
    BY <1>5
  <2> HIDE DEF IsFirst, next, D
  <2> DEFINE R == OpToRel(<, Nat)
             T == {k \in Nat : k <= C /\ f[k] \notin D}
  <2>2. IsWellFoundedOn(R, Nat)
    BY NatLessThanWellFounded
  <2>3. SUFFICES ASSUME T # {} PROVE FALSE
    <3> SUFFICES ASSUME T = {}, NEW k \in 0 .. C PROVE f[k] \in D
      OBVIOUS
    <3>1. k \in Nat /\ k <= C
      BY <1>1
    <3> QED BY <3>1
  <2>4. PICK m \in T : \A y \in T : ~(<<y, m>> \in R)
    <3>1. T \subseteq Nat
      OBVIOUS
    <3> HIDE DEF T, R
    <3> QED BY <2>2, <2>3, <3>1, WFMin
  <2>5. m # 0
    BY <2>1, <1>1, <1>2
  <2>6. m - 1 \in Nat /\ m - 1 < m /\ m - 1 <= C
    BY <2>5, <1>1
  <2>7. f[m - 1] \in D
    BY <2>4, <2>6 DEF OpToRel
  <2> QED BY <2>1, <2>5, <2>7, <1>3, <1>1
<1>6. \E f : IsFirst(f)
  <2>1. PICK f \in [0 .. C -> D] : IsIteration(f, <<>>, step, C)
    <3> DEFINE none == <<>>
    <3>1. none \in D
      BY <1>2
    <3> HIDE DEF step, D, C, none
    <3>2. \E f \in [0 .. C -> D] : IsIteration(f, none, step, C)
      BY <1>1, <3>1, <1>4, Iterates
    <3> QED BY <3>2 DEF none
  <2>2. \A k \in 1 .. C : f[k] = next(f[k - 1])
    <3> SUFFICES ASSUME NEW k \in 1 .. C PROVE f[k] = next(f[k - 1])
      OBVIOUS
    <3>1. f[k - 1] \in D /\ k \in Nat
      BY <1>1
    <3> HIDE DEF D, next, C
    <3>2. step[<<f[k - 1], k>>] = next(f[k - 1])
      BY <3>1
    <3> QED BY <2>1, <3>2 DEF IsIteration
  <2> DEFINE h == [k \in 0 .. C |-> IF k = 0 THEN <<>> ELSE next(f[k - 1])]
  <2>3. f = h
    <3>1. \A k \in 0 .. C : f[k] = h[k]
      <4> HIDE DEF next, C, D
      <4> QED BY <2>1, <2>2, <1>1 DEF IsIteration
    <3>2. f = [k \in 0 .. C |-> f[k]] /\ h = [k \in 0 .. C |-> h[k]]
      <4> HIDE DEF next, C, D
      <4> QED OBVIOUS
    <3> HIDE DEF h
    <3> QED BY <3>1, <3>2
  <2>4. IsFirst(f)
    BY <2>3
  <2> QED BY <2>4
<1> DEFINE first == CHOOSE f : IsFirst(f)
<1>7. IsFirst(first)
  <2> HIDE DEF IsFirst
  <2> QED BY <1>6
<1>8. Sort(nodes, needs) = first[C]
  BY DEF Sort
<1>9. SortsUp(first, nodes, needs)
  <2>1. \A k \in 0 .. C : first[k] = IF k = 0 THEN <<>> ELSE next(first[k - 1])
    <3> HIDE DEF first
    <3> QED BY <1>7
  <2>2. \A k \in 0 .. C : first[k] \in D
    <3> HIDE DEF first, IsFirst, D
    <3> QED BY <1>5, <1>7
  <2>3. \A b : next(b) = WithReady(b, nodes, needs)
    BY DEF WithReady, ReadyAfter
  <2> HIDE DEF first, IsFirst, next
  <2> QED BY <1>1, <2>1, <2>2, <2>3 DEF SortsUp
<1> HIDE DEF first
<1> QED BY <1>8, <1>9

(* _sort() lists nodes, and none of them twice.                             *)
LEMMA SortIsDistinct ==
  ASSUME NEW nodes, nodes \subseteq Nat, IsFiniteSet(nodes), NEW needs
  PROVE  Sort(nodes, needs) \in Distinct(nodes)
<1>1. PICK f : SortsUp(f, nodes, needs) /\ Sort(nodes, needs) = f[Cardinality(nodes)]
  BY SortSteps
<1>2. Cardinality(nodes) \in 0 .. Cardinality(nodes)
  BY FS_CardinalityType
<1> QED BY <1>1, <1>2 DEF SortsUp

(* f adds up sequences of elements of S, one after the other.               *)
SumsUp(f, seqs, S) ==
  \A k \in 1 .. Len(seqs) :
    f[k] \in Seq(S) /\ f[k] = IF k = 1 THEN seqs[k] ELSE f[k - 1] \o seqs[k]

(* FlattenSeq adds up.                                                      *)
LEMMA FlattenSums ==
  ASSUME NEW S, NEW seqs \in Seq(Seq(S)), seqs # <<>>
  PROVE  \E f : SumsUp(f, seqs, S) /\ FlattenSeq(seqs) = f[Len(seqs)]
<1> DEFINE n == Len(seqs)
<1>1. n \in Nat /\ \A i \in 1 .. n : seqs[i] \in Seq(S)
  OBVIOUS
<1>3. n # 0
  OBVIOUS
<1> QED
  <2> DEFINE D == Seq(S)
             none == <<>>
             next(b, k) == IF k \in 1 .. n THEN b \o seqs[k] ELSE b
             step == [x \in D \X Nat |-> next(x[1], x[2])]
             IsSum(f) == f = [i \in 1 .. n |->
                                IF i = 1 THEN seqs[i] ELSE f[i - 1] \o seqs[i]]
  <2>1. none \in D
    OBVIOUS
  <2>2. ASSUME NEW b \in D, NEW k \in Nat PROVE next(b, k) \in D
    BY <1>1
  <2>3. step \in [D \X Nat -> D]
    <3> HIDE DEF next, D
    <3> QED BY <2>2
  <2>4. PICK f \in [0 .. n -> D] : IsIteration(f, none, step, n)
    <3> HIDE DEF step, D, none, n
    <3> QED BY <1>1, <2>1, <2>3, Iterates
  <2>5. \A k \in 1 .. n : f[k - 1] \in D /\ f[k] = f[k - 1] \o seqs[k]
    <3> SUFFICES ASSUME NEW k \in 1 .. n
                 PROVE  f[k - 1] \in D /\ f[k] = f[k - 1] \o seqs[k]
      OBVIOUS
    <3>1. k - 1 \in 0 .. n /\ k \in Nat
      BY <1>1
    <3>2. f[k - 1] \in D
      <4> HIDE DEF D, n
      <4> QED BY <3>1
    <3>3. f[k] = step[<<f[k - 1], k>>]
      <4> HIDE DEF D, n, step, none
      <4> QED BY <2>4 DEF IsIteration
    <3>4. step[<<f[k - 1], k>>] = next(f[k - 1], k)
      <4> HIDE DEF D, next
      <4> QED BY <3>1, <3>2
    <3> HIDE DEF D, step
    <3> QED BY <3>2, <3>3, <3>4
  <2>6. f[0] = none
    <3> HIDE DEF step, none, D
    <3> QED BY <2>4 DEF IsIteration
  <2>7. f[1] = seqs[1]
    <3>1. 1 \in 1 .. n /\ 1 - 1 = 0
      BY <1>1, <1>3
    <3>2. f[1] = f[0] \o seqs[1] /\ seqs[1] \in Seq(S)
      BY <1>1, <2>5, <3>1
    <3> QED BY <2>6, <3>2, ConcatEmptySeq
  <2> DEFINE h == [i \in 1 .. n |-> f[i]]
             h2 == [i \in 1 .. n |-> IF i = 1 THEN seqs[i] ELSE h[i - 1] \o seqs[i]]
  <2>8. h = h2
    <3>1. \A i \in 1 .. n : h[i] = h2[i]
      <4> SUFFICES ASSUME NEW i \in 1 .. n PROVE h[i] = h2[i]
        OBVIOUS
      <4>1. CASE i = 1
        BY <4>1, <2>7
      <4>2. CASE i # 1
        <5>1. i - 1 \in 1 .. n
          BY <4>2, <1>1
        <5>2. h[i - 1] = f[i - 1]
          BY <5>1
        <5> QED BY <4>2, <5>2, <2>5
      <4> QED BY <4>1, <4>2
    <3>2. h = [i \in 1 .. n |-> h[i]] /\ h2 = [i \in 1 .. n |-> h2[i]]
      OBVIOUS
    <3> HIDE DEF h, h2
    <3> QED BY <3>1, <3>2
  <2>9. IsSum(h)
    <3> HIDE DEF h
    <3> QED BY <2>8
  <2> DEFINE flatten == CHOOSE g : IsSum(g)
  <2>10. IsSum(flatten)
    <3> HIDE DEF IsSum, h
    <3> QED BY <2>9
  <2>11. FlattenSeq(seqs) = flatten[n]
    BY <1>3 DEF FlattenSeq
  <2>12. ASSUME NEW g, IsSum(g) PROVE SumsUp(g, seqs, S)
    <3>1. \A k \in 1 .. n :
            g[k] = IF k = 1 THEN seqs[k] ELSE g[k - 1] \o seqs[k]
      BY <2>12
    <3> HIDE DEF IsSum
    <3> DEFINE R == OpToRel(<, Nat)
               T == {k \in Nat : k \in 1 .. n /\ g[k] \notin Seq(S)}
    <3>2. IsWellFoundedOn(R, Nat)
      BY NatLessThanWellFounded
    <3>3. SUFFICES ASSUME T # {} PROVE FALSE
      <4>1. T = {} => \A k \in 1 .. n : g[k] \in Seq(S)
        <5> SUFFICES ASSUME NEW k \in 1 .. n, g[k] \notin Seq(S) PROVE k \in T
          OBVIOUS
        <5> QED BY <1>1
      <4> HIDE DEF T
      <4> QED BY <3>1, <4>1 DEF SumsUp
    <3>4. PICK m \in T : \A y \in T : ~(<<y, m>> \in R)
      <4>1. T \subseteq Nat
        OBVIOUS
      <4> HIDE DEF T, R
      <4> QED BY <3>2, <3>3, <4>1, WFMin
    <3>5. m \in 1 .. n /\ g[m] \notin Seq(S) /\ seqs[m] \in Seq(S)
      BY <1>1
    <3>6. m # 1
      BY <3>1, <3>5
    <3>7. m - 1 \in 1 .. n /\ m - 1 < m /\ m - 1 \in Nat
      BY <3>5, <3>6, <1>1
    <3>8. g[m - 1] \in Seq(S)
      BY <3>4, <3>7 DEF OpToRel
    <3>9. g[m] = g[m - 1] \o seqs[m]
      BY <3>1, <3>5, <3>6
    <3> QED BY <3>5, <3>8, <3>9
  <2> HIDE DEF flatten, IsSum
  <2> QED BY <2>10, <2>11, <2>12

(* Sequences of elements of S one after the other are elements of S.        *)
LEMMA FlattenIn ==
  ASSUME NEW S, NEW seqs \in Seq(Seq(S))
  PROVE  FlattenSeq(seqs) \in Seq(S)
<1>1. CASE seqs = <<>>
  BY <1>1 DEF FlattenSeq
<1>2. CASE seqs # <<>>
  <2>1. PICK f : SumsUp(f, seqs, S) /\ FlattenSeq(seqs) = f[Len(seqs)]
    BY <1>2, FlattenSums
  <2>2. Len(seqs) \in 1 .. Len(seqs)
    BY <1>2
  <2> QED BY <2>1, <2>2 DEF SumsUp
<1> QED BY <1>1, <1>2

(* A sequence of one element. *)
LEMMA SeqOfOne == ASSUME NEW S, NEW e \in S PROVE <<e>> \in Seq(S)
OBVIOUS

(* What Among keeps of a sequence is of the sequence and of the set. *)
LEMMA AmongIn ==
  ASSUME NEW S, NEW s \in Seq(S), NEW set
  PROVE  Among(s, set) \in Seq(S \cap set)
<1> DEFINE seqs == [i \in DOMAIN s |-> IF s[i] \in set THEN <<s[i]>> ELSE <<>>]
<1>1. seqs \in Seq(Seq(S \cap set))
  <2>1. \A i \in 1 .. Len(s) :
          (IF s[i] \in set THEN <<s[i]>> ELSE <<>>) \in Seq(S \cap set)
    <3> SUFFICES ASSUME NEW i \in 1 .. Len(s)
                 PROVE  (IF s[i] \in set THEN <<s[i]>> ELSE <<>>) \in Seq(S \cap set)
      OBVIOUS
    <3>1. s[i] \in S
      OBVIOUS
    <3>2. s[i] \in set => <<s[i]>> \in Seq(S \cap set)
      BY <3>1
    <3> QED BY <3>2
  <2>2. seqs = [i \in 1 .. Len(s) |-> seqs[i]]
    OBVIOUS
  <2>3. \A i \in 1 .. Len(s) : seqs[i] \in Seq(S \cap set)
    BY <2>1
  <2> HIDE DEF seqs
  <2> QED BY <2>2, <2>3
<1> QED BY <1>1, FlattenIn DEF Among

(* A sequence is one of its elements. *)
LEMMA SeqOfElements ==
  ASSUME NEW S, NEW s \in Seq(S)
  PROVE  s \in Seq(ToSet(s)) /\ ToSet(s) \subseteq S
<1>1. s = [i \in 1 .. Len(s) |-> s[i]]
  OBVIOUS
<1>2. \A i \in 1 .. Len(s) : s[i] \in ToSet(s)
  BY DEF ToSet
<1> QED BY <1>1, <1>2 DEF ToSet

(* The steps of a plan: backward, forward with nothing to run, forward.     *)
BackwardIn(names) == {BackwardStep(m) : m \in names}
SkippedIn(names) == {ForwardStep(m, TRUE) : m \in names}
RunIn(names) == {ForwardStep(m, FALSE) : m \in names}

(* Unapplying names gives backward steps of them. *)
LEMMA BackwardsIn ==
  ASSUME NEW S, NEW names \in Seq(S)
  PROVE  Backwards(names) \in Seq(BackwardIn(S))
<1> DEFINE rev == Reverse(names)
<1>1. DOMAIN rev = 1 .. Len(names) /\ \A i \in 1 .. Len(names) : rev[i] \in S
  BY DEF Reverse
<1>2. Backwards(names) = [i \in 1 .. Len(names) |-> BackwardStep(rev[i])]
  BY <1>1 DEF Backwards
<1>3. \A i \in 1 .. Len(names) : BackwardStep(rev[i]) \in BackwardIn(S)
  BY <1>1 DEF BackwardIn
<1> HIDE DEF rev
<1> QED BY <1>2, <1>3

(* So does unapplying those of them that are applied. *)
LEMMA BackwardAllIn ==
  ASSUME NEW g, NEW S, NEW names \in Seq(S)
  PROVE  BackwardAll(g, names) \in Seq(BackwardIn(S))
<1>1. Among(names, g.applied) \in Seq(S)
  <2>1. Among(names, g.applied) \in Seq(S \cap g.applied)
    BY AmongIn
  <2>2. S \cap g.applied \subseteq S
    OBVIOUS
  <2> QED BY <2>1, <2>2, SeqMonotonic
<1> QED BY <1>1, BackwardsIn DEF BackwardAll

(* What of names is skipped: adopted, or a squash of which all is recorded. *)
SkippedOf(g, names, adopt) ==
  {m \in names : m \in adopt \/ (m \in g.squashes /\ Replaced(m) \subseteq g.recorded)}

(* Applying names gives steps that skip what is adopted or replaced         *)
(* already, and steps that run.                                             *)
LEMMA ForwardAllIn ==
  ASSUME NEW g, NEW S, NEW names \in Seq(S), NEW adopt
  PROVE  ForwardAll(g, names, adopt)
           \in Seq(SkippedIn(SkippedOf(g, S, adopt)) \cup RunIn(S))
<1> DEFINE U == SkippedIn(SkippedOf(g, S, adopt)) \cup RunIn(S)
           seqs == [i \in DOMAIN names |-> Forward(g, names[i], adopt)]
<1>1. ASSUME NEW m \in S PROVE Forward(g, m, adopt) \in Seq(U)
  <2>1. CASE ~IsApplied(g, m)
    <3>1. Forward(g, m, adopt) = <<ForwardStep(m, m \in adopt)>>
      BY <2>1 DEF Forward
    <3>2. ForwardStep(m, m \in adopt) \in U
      <4>1. CASE m \in adopt
        <5>1. m \in SkippedOf(g, S, adopt)
          BY <4>1 DEF SkippedOf
        <5>2. ForwardStep(m, TRUE) \in U
          BY <5>1 DEF SkippedIn
        <5>3. (m \in adopt) = TRUE
          BY <4>1
        <5> QED BY <5>2, <5>3
      <4>2. CASE m \notin adopt
        <5>1. ForwardStep(m, FALSE) \in U
          BY DEF RunIn
        <5>2. (m \in adopt) = FALSE
          BY <4>2
        <5> QED BY <5>1, <5>2
      <4> QED BY <4>1, <4>2
    <3> HIDE DEF U
    <3> QED BY <3>1, <3>2
  <2>2. CASE IsApplied(g, m) /\ m \in g.squashes /\ m \notin g.recorded
    <3>1. Forward(g, m, adopt) = <<ForwardStep(m, TRUE)>>
      BY <2>2 DEF Forward
    <3>2. m \in SkippedOf(g, S, adopt)
      BY <2>2 DEF IsApplied, AppliedWith, SkippedOf
    <3>3. ForwardStep(m, TRUE) \in U
      BY <3>2 DEF SkippedIn
    <3> HIDE DEF U
    <3>4. <<ForwardStep(m, TRUE)>> \in Seq(U)
      BY <3>3, SeqOfOne
    <3> QED BY <3>1, <3>4
  <2>3. CASE IsApplied(g, m) /\ ~(m \in g.squashes /\ m \notin g.recorded)
    <3>1. Forward(g, m, adopt) = <<>>
      BY <2>3 DEF Forward
    <3> HIDE DEF U
    <3> QED BY <3>1
  <2> QED BY <2>1, <2>2, <2>3
<1>2. seqs \in Seq(Seq(U))
  <2> HIDE DEF U
  <2>1. seqs = [i \in 1 .. Len(names) |-> seqs[i]]
    OBVIOUS
  <2>2. \A i \in 1 .. Len(names) : seqs[i] \in Seq(U)
    BY <1>1
  <2> HIDE DEF seqs
  <2> QED BY <2>1, <2>2
<1>3. FlattenSeq(seqs) \in Seq(U)
  <2> HIDE DEF U, seqs
  <2> QED BY <1>2, FlattenIn
<1> QED BY <1>3 DEF ForwardAll

(* A finite nonempty set of numbers has a greatest one.                     *)
LEMMA MaxOf ==
  ASSUME NEW S, S \subseteq Nat, IsFiniteSet(S), S # {}
  PROVE  Max(S) \in S /\ \A y \in S : Max(S) >= y
<1> DEFINE HasMax(U) == \E x \in U : \A y \in U : x >= y
           R == OpToRel(<, Nat)
           Bad(k) == \E U \in SUBSET Nat : /\ IsFiniteSet(U) /\ U # {} /\ ~HasMax(U)
                                           /\ Cardinality(U) = k
           T == {k \in Nat : Bad(k)}
<1>1. IsWellFoundedOn(R, Nat)
  BY NatLessThanWellFounded
<1>2. T = {}
  <2> SUFFICES ASSUME T # {} PROVE FALSE
    OBVIOUS
  <2>1. PICK m \in T : \A y \in T : ~(<<y, m>> \in R)
    <3>1. T \subseteq Nat
      OBVIOUS
    <3> HIDE DEF T, R
    <3> QED BY <1>1, <3>1, WFMin
  <2>2. PICK U \in SUBSET Nat : /\ IsFiniteSet(U) /\ U # {} /\ ~HasMax(U)
                                /\ Cardinality(U) = m
    OBVIOUS
  <2>3. PICK x \in U : TRUE
    BY <2>2
  <2> DEFINE V == U \ {x}
  <2>4. IsFiniteSet(V) /\ Cardinality(V) = m - 1 /\ m \in Nat
    BY <2>2, <2>3, FS_RemoveElement
  <2>5. Cardinality(V) \in Nat
    BY <2>4, FS_CardinalityType
  <2>6. ~Bad(m - 1)
    <3>1. m - 1 \in Nat /\ m - 1 < m
      BY <2>4, <2>5
    <3> HIDE DEF Bad
    <3>2. m - 1 \in T => ~(<<m - 1, m>> \in R)
      BY <2>1
    <3>3. <<m - 1, m>> \in R
      BY <3>1, <2>4 DEF OpToRel
    <3> QED BY <3>1, <3>2, <3>3
  <2>7. V = {} \/ HasMax(V)
    BY <2>2, <2>4, <2>6
  <2>8. CASE V = {}
    <3>1. U = {x}
      BY <2>8, <2>3
    <3> QED BY <3>1, <2>2
  <2>9. CASE HasMax(V)
    <3>1. PICK v \in V : \A y \in V : v >= y
      BY <2>9
    <3>2. v \in Nat /\ x \in Nat /\ v \in U
      BY <2>2, <2>3
    <3>3. CASE v >= x
      <4>1. \A y \in U : v >= y
        BY <3>1, <3>3
      <4> QED BY <4>1, <3>2, <2>2
    <3>4. CASE x >= v
      <4>1. \A y \in U : x >= y
        BY <3>1, <3>2, <3>4, <2>2
      <4> QED BY <4>1, <2>2, <2>3
    <3> QED BY <3>2, <3>3, <3>4
  <2> QED BY <2>7, <2>8, <2>9
<1>3. HasMax(S)
  <2>1. Cardinality(S) \in Nat
    BY FS_CardinalityType
  <2> HIDE DEF HasMax
  <2> QED BY <1>2, <2>1
<1> QED BY <1>3 DEF Max

(* What a graph is of: its files, their squashes, and an order of its nodes *)
(* without one of them twice.                                               *)
LEMMA GraphFits ==
  ASSUME NEW files \in SUBSET Migrations, NEW rec, NEW g, g = Graph(files, rec)
  PROVE  /\ g.files = files /\ g.recorded = rec
         /\ g.squashes \cup g.unused = Squashes(files)
         /\ g.unused \subseteq files
         /\ g.nodes \subseteq files
         /\ g.order \in Distinct(g.nodes)
<1>1. /\ g.files = files /\ g.recorded = rec
      /\ g.squashes = SquashesInUse(files, rec)
      /\ g.unused = UnusedSquashes(files, rec)
      /\ g.nodes \subseteq files
      /\ \E needs : g.order = Sort(g.nodes, needs)
  BY DEF Graph
<1>2. IsFiniteSet(g.nodes) /\ g.nodes \subseteq Nat
  BY <1>1, GraphAssumption, FS_Subset
<1> QED BY <1>1, <1>2, SortIsDistinct DEF SquashesInUse, UnusedSquashes, Squashes

(* IndexOf finds what a sequence holds. *)
LEMMA IndexOfFinds ==
  ASSUME NEW S, NEW s \in Seq(S), NEW e \in ToSet(s)
  PROVE  IndexOf(s, e) \in 1 .. Len(s) /\ s[IndexOf(s, e)] = e
BY DEF IndexOf, ToSet

(* No migration replaces itself. *)
NoneReplacesItself == \A s \in Migrations : s \notin Replaced(s)

(* No node is replaced by another one. *)
LEMMA NodesAreApart ==
  ASSUME NoneReplacesItself,
         NEW files \in SUBSET Migrations, NEW rec, NEW g, g = Graph(files, rec),
         NEW n \in g.nodes, n \in g.squashes, NEW m \in g.nodes
  PROVE  m \notin Replaced(n)
<1> SUFFICES ASSUME m \in Replaced(n) PROVE FALSE
  OBVIOUS
<1> DEFINE use == SquashesInUse(files, rec)
           unused == UnusedSquashes(files, rec)
           by == {s \in use : m \in Replaced(s)} \cup ({m} \cap unused)
<1>1. /\ g.squashes = use
      /\ m \in files \ unused
      /\ Remap(files, rec)[m] = m \/ Remap(files, rec)[m] \notin use
  BY DEF Graph
<1>2. Remap(files, rec)[m] =
        IF by = {} THEN m
        ELSE IF Max(by) = m THEN Last(replaces[m]) ELSE Max(by)
  BY <1>1 DEF Remap
<1>3. by = {s \in use : m \in Replaced(s)} /\ n \in by /\ m \notin by
  BY <1>1 DEF NoneReplacesItself
<1>4. IsFiniteSet(by) /\ by \subseteq Nat
  <2>1. by \subseteq Migrations
    BY <1>3 DEF SquashesInUse, Squashes
  <2> HIDE DEF by
  <2> QED BY <2>1, GraphAssumption, FS_Subset
<1>5. Max(by) \in by
  <2> HIDE DEF by
  <2> QED BY <1>3, <1>4, MaxOf
<1> QED
  <2>1. Max(by) \in use /\ Max(by) # m
    BY <1>3, <1>5
  <2> HIDE DEF by, use, unused
  <2> QED BY <1>1, <1>2, <1>3, <2>1

(* The steps of a plan that unapplies names of A and skips names of B.      *)
Steps(g, A, B, adopt) ==
  BackwardIn(A) \cup SkippedIn(SkippedOf(g, B, adopt)) \cup RunIn(g.files)

(* What a plan is made of: nodes it unapplies, or originals, and other      *)
(* nodes it skips or runs.                                                  *)
PlanIsOf(g, plan, A, B, adopt) ==
  /\ A \subseteq g.files /\ B \subseteq g.nodes /\ A \cap B = {}
  /\ B = {} \/ A \subseteq g.nodes
  /\ plan \in Seq(Steps(g, A, B, adopt))

(* The parts of a plan, with the names each is made of. *)
LEMMA PartsIn ==
  ASSUME NEW g, NEW S, NEW A \in SUBSET S, NEW B \in SUBSET S, NEW adopt,
         S \subseteq g.files,
         NEW back \in Seq(A), NEW forth \in Seq(B)
  PROVE  /\ BackwardAll(g, back) \in Seq(Steps(g, A, B, adopt))
         /\ Backwards(back) \in Seq(Steps(g, A, B, adopt))
         /\ ForwardAll(g, forth, adopt) \in Seq(Steps(g, A, B, adopt))
<1>1. BackwardAll(g, back) \in Seq(BackwardIn(A)) /\ Backwards(back) \in Seq(BackwardIn(A))
  BY BackwardAllIn, BackwardsIn
<1>2. ForwardAll(g, forth, adopt)
        \in Seq(SkippedIn(SkippedOf(g, B, adopt)) \cup RunIn(B))
  BY ForwardAllIn
<1>3. /\ BackwardIn(A) \subseteq Steps(g, A, B, adopt)
      /\ SkippedIn(SkippedOf(g, B, adopt)) \cup RunIn(B)
           \subseteq Steps(g, A, B, adopt)
  BY DEF Steps, RunIn
<1> QED BY <1>1, <1>2, <1>3, SeqMonotonic

(* The elements up to a position and those after it are not the same.       *)
LEMMA SplitApart ==
  ASSUME NEW S, NEW s \in Distinct(S), NEW n \in 0 .. Len(s), NEW k \in 0 .. n
  PROVE  \E A \in SUBSET S, B \in SUBSET S :
           /\ A \cap B = {} /\ After(s, n) \in Seq(A) /\ Upto(s, k) \in Seq(B)
<1> DEFINE A == {s[i] : i \in n + 1 .. Len(s)}
           B == {s[i] : i \in 1 .. k}
<1>1. s \in Seq(S) /\ Len(s) \in Nat
  BY DEF Distinct
<1>2. A \subseteq S /\ B \subseteq S
  BY <1>1
<1>3. A \cap B = {}
  <2> SUFFICES ASSUME NEW i \in n + 1 .. Len(s), NEW j \in 1 .. k, s[i] = s[j]
               PROVE  FALSE
    OBVIOUS
  <2>1. i \in DOMAIN s /\ j \in DOMAIN s /\ i # j
    BY <1>1
  <2> QED BY <2>1 DEF Distinct
<1>4. After(s, n) \in Seq(A)
  <2>1. n + 1 \in Int /\ Len(s) \in Int /\ \A i \in n + 1 .. Len(s) : s[i] \in A
    BY <1>1
  <2> HIDE DEF A
  <2> QED BY <2>1, SubSeqProperties DEF After
<1>5. Upto(s, k) \in Seq(B)
  <2>1. 1 \in Int /\ k \in Int /\ \A i \in 1 .. k : s[i] \in B
    BY <1>1
  <2> HIDE DEF B
  <2> QED BY <2>1, SubSeqProperties DEF Upto
<1> QED BY <1>2, <1>3, <1>4, <1>5

(* The originals of a squash on disk are on disk, too.                      *)
LEMMA OriginalsIn ==
  ASSUME NEW g, g.files \subseteq Migrations, NEW s \in g.files
  PROVE  Originals(g, s) \in Seq(g.files)
<1> DEFINE own == Among(replaces[s], Migrations \ Squashes(g.files))
<1>1. own \in Seq(Migrations \cap (Migrations \ Squashes(g.files)))
  BY AmongIn, GraphAssumption
<1>2. own \in Seq(ToSet(own))
  BY <1>1, SeqOfElements
<1>3. ToSet(own) \subseteq g.files => own \in Seq(g.files)
  BY <1>2, SeqMonotonic
<1> HIDE DEF own
<1>4. Originals(g, s) = IF ToSet(own) \subseteq g.files THEN own ELSE <<>>
  BY DEF Originals, own
<1> DEFINE found == ToSet(own) \subseteq g.files
<1> HIDE DEF found
<1>5. CASE found
  <2>1. Originals(g, s) = own
    BY <1>4, <1>5 DEF found
  <2> QED BY <1>3, <1>5, <2>1 DEF found
<1>6. CASE ~found
  <2>1. Originals(g, s) = <<>>
    BY <1>4, <1>6 DEF found
  <2> QED BY <2>1
<1> QED BY <1>5, <1>6

(* What a plan to a target that is a node is made of.                       *)
LEMMA PlanToNode ==
  ASSUME NEW g, NEW order, g.order = order, order \in Distinct(g.nodes), g.nodes \subseteq g.files,
         NEW at \in ToSet(order), NEW adopt
  PROVE  \E A, B :
           PlanIsOf(g, BackwardAll(g, After(order, Limit(g, at)))
                         \o ForwardAll(g, Upto(order, Limit(g, at)), adopt),
                    A, B, adopt)
<1> DEFINE n == Limit(g, at)
<1>1. n \in 0 .. Len(order) /\ n \in 0 .. n
  BY IndexOfFinds DEF Limit, Distinct
<1> HIDE DEF n
<1>2. PICK A \in SUBSET g.nodes, B \in SUBSET g.nodes :
        A \cap B = {} /\ After(order, n) \in Seq(A) /\ Upto(order, n) \in Seq(B)
  <2> DEFINE nodes == g.nodes
  <2> HIDE DEF nodes
  <2>1. order \in Distinct(nodes)
    BY DEF nodes
  <2>2. \E A \in SUBSET nodes, B \in SUBSET nodes :
          A \cap B = {} /\ After(order, n) \in Seq(A) /\ Upto(order, n) \in Seq(B)
    BY <1>1, <2>1, SplitApart
  <2> QED BY <2>2 DEF nodes
<1>3. /\ BackwardAll(g, After(order, n)) \in Seq(Steps(g, A, B, adopt))
      /\ ForwardAll(g, Upto(order, n), adopt) \in Seq(Steps(g, A, B, adopt))
  BY <1>2, PartsIn
<1>4. BackwardAll(g, After(order, n)) \o ForwardAll(g, Upto(order, n), adopt)
        \in Seq(Steps(g, A, B, adopt))
  BY <1>3, ConcatProperties
<1> QED BY <1>2, <1>4 DEF PlanIsOf, n

(* What a plan into a squash is made of.                                    *)
LEMMA PlanToOriginal ==
  ASSUME NEW g, g.order \in Distinct(g.nodes), g.nodes \subseteq g.files,
         g.files \subseteq Migrations,
         NEW at, IsInSquash(g, at), NEW adopt
  PROVE  \E A, B : PlanIsOf(g, PlanIntoSquash(g, at, adopt), A, B, adopt)
<1> DEFINE squash == Resolve(g, at)
           n == IndexOf(g.order, squash)
           originals == Originals(g, squash)
           cut == IndexOf(originals, at)
<1>1. squash \in ToSet(g.order) /\ at \in ToSet(originals)
  BY DEF IsInSquash
<1>2. g.order \in Seq(g.nodes) /\ squash \in g.nodes
  BY <1>1, SeqOfElements DEF Distinct
<1>3. n \in 1 .. Len(g.order)
  <2> HIDE DEF squash
  <2> QED BY <1>1, <1>2, IndexOfFinds
<1>4. originals \in Seq(g.files)
  <2> HIDE DEF squash
  <2> QED BY <1>2, OriginalsIn
<1>5. cut \in 1 .. Len(originals)
  <2> HIDE DEF originals
  <2> QED BY <1>1, <1>4, IndexOfFinds
<1>6. PlanIntoSquash(g, at, adopt) =
        IF IsApplied(g, squash)
        THEN BackwardAll(g, After(g.order, n))
               \o Backwards(Among(After(originals, cut), g.recorded))
        ELSE BackwardAll(g, After(g.order, n))
               \o ForwardAll(g, Upto(g.order, n - 1), adopt)
               \o [i \in DOMAIN Among(Upto(originals, cut), Migrations \ g.recorded) |->
                     ForwardStep(Among(Upto(originals, cut), Migrations \ g.recorded)[i],
                                 FALSE)]
  BY DEF PlanIntoSquash
<1> HIDE DEF squash, n, originals, cut
<1>7. PICK A \in SUBSET g.nodes, B \in SUBSET g.nodes :
        /\ A \cap B = {} /\ After(g.order, n) \in Seq(A)
        /\ Upto(g.order, n - 1) \in Seq(B)
  <2>1. n \in 0 .. Len(g.order) /\ n - 1 \in 0 .. n
    BY <1>2, <1>3
  <2> QED BY <2>1, SplitApart
<1>8. CASE IsApplied(g, squash)
  <2> DEFINE S == Steps(g, g.files, {}, adopt)
  <2>1. After(originals, cut) \in Seq(g.files)
    <3>1. cut + 1 \in Int /\ Len(originals) \in Int
      BY <1>4, <1>5
    <3>2. \A i \in cut + 1 .. Len(originals) : originals[i] \in g.files
      BY <1>4, <1>5
    <3> QED BY <3>1, <3>2, SubSeqProperties DEF After
  <2>2. Among(After(originals, cut), g.recorded) \in Seq(g.files)
    <3>1. Among(After(originals, cut), g.recorded) \in Seq(g.files \cap g.recorded)
      BY <2>1, AmongIn
    <3>2. g.files \cap g.recorded \subseteq g.files
      OBVIOUS
    <3> QED BY <3>1, <3>2, SeqMonotonic
  <2>3. After(g.order, n) \in Seq(g.files)
    BY <1>7, SeqMonotonic
  <2>4. /\ BackwardAll(g, After(g.order, n)) \in Seq(S)
        /\ Backwards(Among(After(originals, cut), g.recorded)) \in Seq(S)
    <3>1. {} \in SUBSET g.files /\ <<>> \in Seq({}) /\ g.files \in SUBSET g.files
      OBVIOUS
    <3> QED BY <2>2, <2>3, <3>1, PartsIn
  <2>5. PlanIntoSquash(g, at, adopt) \in Seq(S)
    <3> HIDE DEF S
    <3> QED BY <1>6, <1>8, <2>4, ConcatProperties
  <2>6. PlanIsOf(g, PlanIntoSquash(g, at, adopt), g.files, {}, adopt)
    BY <2>5 DEF PlanIsOf
  <2> QED BY <2>6
<1>9. CASE ~IsApplied(g, squash)
  <2> DEFINE S == Steps(g, A, B, adopt)
             left == Among(Upto(originals, cut), Migrations \ g.recorded)
             steps == [i \in DOMAIN left |-> ForwardStep(left[i], FALSE)]
  <2>1. Upto(originals, cut) \in Seq(g.files)
    <3>1. 1 \in Int /\ cut \in Int
      BY <1>4, <1>5
    <3>2. \A i \in 1 .. cut : originals[i] \in g.files
      BY <1>4, <1>5
    <3> QED BY <3>1, <3>2, SubSeqProperties DEF Upto
  <2>2. left \in Seq(g.files)
    <3>1. left \in Seq(g.files \cap (Migrations \ g.recorded))
      BY <2>1, AmongIn
    <3>2. g.files \cap (Migrations \ g.recorded) \subseteq g.files
      OBVIOUS
    <3> HIDE DEF left
    <3> QED BY <3>1, <3>2, SeqMonotonic
  <2>3. steps \in Seq(S)
    <3> HIDE DEF left
    <3>1. steps = [i \in 1 .. Len(left) |-> steps[i]]
      BY <2>2
    <3>2. \A i \in 1 .. Len(left) : steps[i] \in S
      <4> SUFFICES ASSUME NEW i \in 1 .. Len(left) PROVE steps[i] \in S
        OBVIOUS
      <4>1. left[i] \in g.files /\ i \in DOMAIN left
        BY <2>2
      <4>2. steps[i] = ForwardStep(left[i], FALSE)
        BY <4>1
      <4> QED BY <4>1, <4>2 DEF Steps, RunIn
    <3> HIDE DEF steps, S
    <3> QED BY <3>1, <3>2, <2>2
  <2>4. /\ BackwardAll(g, After(g.order, n)) \in Seq(S)
        /\ ForwardAll(g, Upto(g.order, n - 1), adopt) \in Seq(S)
    BY <1>7, PartsIn
  <2>5. PlanIntoSquash(g, at, adopt) \in Seq(S)
    <3>1. PlanIntoSquash(g, at, adopt) =
            (BackwardAll(g, After(g.order, n))
               \o ForwardAll(g, Upto(g.order, n - 1), adopt)) \o steps
      BY <1>6, <1>9
    <3> HIDE DEF S, steps
    <3>2. BackwardAll(g, After(g.order, n))
            \o ForwardAll(g, Upto(g.order, n - 1), adopt) \in Seq(S)
      BY <2>4, ConcatProperties
    <3> QED BY <2>3, <3>1, <3>2, ConcatProperties
  <2>6. PlanIsOf(g, PlanIntoSquash(g, at, adopt), A, B, adopt)
    BY <1>7, <2>5 DEF PlanIsOf
  <2> QED BY <2>6
<1> QED BY <1>8, <1>9

(* What any plan is made of. *)
LEMMA PlanIn ==
  ASSUME NEW files \in SUBSET Migrations, NEW rec, NEW g, g = Graph(files, rec),
         ~IsBroken(g), NEW target, target.kind \in {"latest", "zero", "to"},
         target.kind = "to" =>
           Target(g, target.to) \in g.nodes \/ IsInSquash(g, Target(g, target.to)),
         NEW adopt
  PROVE  \E A, B : /\ PlanIsOf(g, Plan(g, target, adopt), A, B, adopt)
                   /\ target.kind = "latest" => A = {}
<1>1. /\ g.order \in Distinct(g.nodes) /\ g.nodes \subseteq g.files
      /\ g.files \subseteq Migrations /\ ToSet(g.order) = g.nodes
  BY GraphFits DEF IsBroken
<1>2. g.order \in Seq(g.nodes)
  BY <1>1 DEF Distinct
<1>3. CASE target.kind = "latest"
  <2>1. ForwardAll(g, g.order, adopt) \in Seq(Steps(g, {}, g.nodes, adopt))
    <3>1. {} \in SUBSET g.nodes /\ <<>> \in Seq({}) /\ g.nodes \in SUBSET g.nodes
      OBVIOUS
    <3> QED BY <1>1, <1>2, <3>1, PartsIn
  <2>2. PlanIsOf(g, Plan(g, target, adopt), {}, g.nodes, adopt)
    BY <1>3, <2>1 DEF Plan, PlanIsOf
  <2> QED BY <2>2
<1>4. CASE target.kind = "zero"
  <2>1. BackwardAll(g, g.order) \in Seq(Steps(g, g.nodes, {}, adopt))
    <3>1. {} \in SUBSET g.nodes /\ <<>> \in Seq({}) /\ g.nodes \in SUBSET g.nodes
      OBVIOUS
    <3> QED BY <1>1, <1>2, <3>1, PartsIn
  <2>2. PlanIsOf(g, Plan(g, target, adopt), g.nodes, {}, adopt)
    BY <1>1, <1>4, <2>1 DEF Plan, PlanIsOf
  <2> QED BY <2>2, <1>4
<1>5. CASE target.kind = "to"
  <2> DEFINE at == Target(g, target.to)
  <2>1. CASE at \in g.nodes
    <3> HIDE DEF at
    <3>1. \E A, B :
           PlanIsOf(g, BackwardAll(g, After(g.order, Limit(g, at)))
                         \o ForwardAll(g, Upto(g.order, Limit(g, at)), adopt),
                    A, B, adopt)
      BY <1>1, <2>1, PlanToNode
    <3>2. Plan(g, target, adopt) =
            BackwardAll(g, After(g.order, Limit(g, at)))
              \o ForwardAll(g, Upto(g.order, Limit(g, at)), adopt)
      BY <1>5, <2>1 DEF Plan, at
    <3> QED BY <1>5, <3>1, <3>2
  <2>2. CASE at \notin g.nodes
    <3>1. IsInSquash(g, at)
      BY <1>5, <2>2
    <3>2. Plan(g, target, adopt) = PlanIntoSquash(g, at, adopt)
      BY <1>5, <2>2 DEF Plan
    <3> HIDE DEF at
    <3>3. \E A, B : PlanIsOf(g, PlanIntoSquash(g, at, adopt), A, B, adopt)
      BY <1>1, <3>1, PlanToOriginal
    <3> QED BY <1>5, <3>2, <3>3
  <2> QED BY <2>1, <2>2
<1> QED BY <1>3, <1>4, <1>5

-----------------------------------------------------------------------------
(* The lock. *)

(* The fields of a run. *)
RunFields == {"request", "graph", "recorded", "plan", "todo", "rest", "outcome"}

IsRun(r) == r = [f \in RunFields |-> r[f]]

(* What is left to be assumed of run: it is a record for every process. *)
RunsAreRecords ==
  /\ run = [p \in Processes |-> run[p]]
  /\ pc = [p \in Processes |-> pc[p]]
  /\ \A p \in Processes : IsRun(run[p])

(* Whoever works on the database holds the lock, and nobody else does. *)
OneAtATime ==
  /\ \A p, q \in holders : p = q
  /\ \A p \in Processes :
       pc[p] \in {"locked", "running", "squashing"} => p \in holders

(* PlanIsCurrent is not inductive: without the lock, the step of one       *)
(* process would leave the other with old news.                            *)
LockInv == RunsAreRecords /\ OneAtATime /\ PlanIsCurrent

(* The first state satisfies the invariant: nobody runs. *)
LEMMA InitHolds == Init => LockInv
BY DEF Init, LockInv, RunsAreRecords, OneAtATime, PlanIsCurrent, NoRun, IsRun, RunFields

(* What p itself must satisfy after a step that leaves the others alone.   *)
LEMMA StepOfOne ==
  ASSUME LockInv, NEW p \in Processes, NEW r, NEW l,
         IsRun(r),
         run' = [run EXCEPT ![p] = r], pc' = [pc EXCEPT ![p] = l],
         \/ holders' = holders
         \/ holders = {} /\ holders' = {p}
         \/ holders' = holders \ {p},
         l \in {"locked", "running", "squashing"} => p \in holders',
         l \in {"running", "squashing"} => r.recorded = recorded',
         recorded' = recorded \/ p \in holders
  PROVE  LockInv'
<1>1. RunsAreRecords'
  BY DEF LockInv, RunsAreRecords, IsRun
<1>2. OneAtATime'
  BY DEF LockInv, OneAtATime, RunsAreRecords
<1>3. PlanIsCurrent'
  <2> SUFFICES ASSUME NEW q \in Processes, pc'[q] \in {"running", "squashing"}
               PROVE  run'[q].recorded = recorded'
    BY DEF PlanIsCurrent
  <2>1. CASE q = p
    BY <2>1 DEF LockInv, RunsAreRecords
  <2>2. CASE q # p
    <3>1. pc[q] \in {"running", "squashing"} /\ run'[q] = run[q]
      BY <2>2 DEF LockInv, RunsAreRecords
    <3>2. q \in holders /\ run[q].recorded = recorded
      BY <3>1 DEF LockInv, OneAtATime, PlanIsCurrent
    <3>3. recorded' = recorded
      BY <2>2, <3>2 DEF LockInv, OneAtATime
    <3> QED
      BY <3>1, <3>2, <3>3
  <2> QED
    BY <2>1, <2>2
<1> QED
  BY <1>1, <1>2, <1>3 DEF LockInv

(* The new record of a process, field by field.                            *)
LEMMA Fields ==
  ASSUME NEW r, IsRun(r), NEW x, NEW f \in RunFields
  PROVE  /\ IsRun([r EXCEPT ![f] = x])
         /\ f # "recorded" => [r EXCEPT ![f] = x].recorded = r.recorded
BY DEF IsRun, RunFields

(* Starting a run or asking for the lock touches nothing of the others.    *)
LEMMA StartStep ==
  ASSUME LockInv, NEW p \in Processes, NEW request, Start(p, request)
  PROVE  LockInv'
<1> DEFINE r == [NoRun EXCEPT !.request = request]
<1>1. IsRun(r)
  BY DEF NoRun, IsRun, RunFields
<1>2. p \notin holders \/ p \in holders
  OBVIOUS
<1> QED
  BY <1>1, StepOfOne DEF Start, Goto, database

(* The lock is granted to one process, when nobody holds it.               *)
LEMMA AcquireStep ==
  ASSUME LockInv, NEW p \in Processes, Acquire(p)
  PROVE  LockInv'
<1>1. run' = [run EXCEPT ![p] = run[p]]
  BY DEF Acquire, LockInv, RunsAreRecords
<1> QED
  BY <1>1, StepOfOne DEF Acquire, Goto, LockIsFree, database, LockInv, RunsAreRecords

(* However a run ends, p is idle and the others keep what they have.       *)
LEMMA EndStep ==
  ASSUME LockInv, NEW p \in Processes, NEW outcome, End(p, outcome),
         recorded' = recorded,
         holders' = holders \/ holders' = holders \ {p}
  PROVE  LockInv'
<1> DEFINE r == [NoRun EXCEPT !.request = run[p].request, !.outcome = outcome]
<1>1. IsRun(r)
  BY DEF NoRun, IsRun, RunFields
<1> QED
  BY <1>1, StepOfOne DEF End, Goto

(* The plan is made from what is recorded at that moment.                  *)
LEMMA MakePlanStep ==
  ASSUME LockInv, NEW p \in Processes, MakePlan(p)
  PROVE  LockInv'
<1> DEFINE g == Graph(run[p].request.files, recorded)
           plan == PlanOf(run[p].request, g)
           body == IF plan = <<>> THEN <<>> ELSE Body(plan[1], run[p].request.fake)
           r == [run[p] EXCEPT !.graph = g, !.recorded = recorded,
                               !.plan = plan, !.todo = body]
<1> HIDE DEF g, plan, body
<1>1. run' = [run EXCEPT ![p] = r]
  BY DEF MakePlan, g, plan, body
<1>3. IsRun(r) /\ r.recorded = recorded
  BY DEF LockInv, RunsAreRecords, IsRun, RunFields
<1>2. p \in holders
  BY DEF MakePlan, LockInv, OneAtATime
<1> QED
  BY <1>1, <1>2, <1>3, StepOfOne DEF MakePlan, Goto, database

(* Running an operation records nothing.                                   *)
LEMMA RunOperationStep ==
  ASSUME LockInv, NEW p \in Processes, RunOperation(p)
  PROVE  LockInv'
<1>1. /\ run' = [run EXCEPT ![p] = [run[p] EXCEPT !.todo = Tail(run[p].todo)]]
      /\ pc' = [pc EXCEPT ![p] = pc[p]]
      /\ recorded' = recorded /\ holders' = holders
  BY DEF RunOperation, LockInv, RunsAreRecords
<1>2. /\ IsRun([run[p] EXCEPT !.todo = Tail(run[p].todo)])
      /\ [run[p] EXCEPT !.todo = Tail(run[p].todo)].recorded = run[p].recorded
  BY Fields DEF LockInv, RunsAreRecords, IsRun, RunFields
<1>3. run[p].recorded = recorded /\ p \in holders
  BY DEF RunOperation, LockInv, OneAtATime, PlanIsCurrent
<1> QED
  BY <1>1, <1>2, <1>3, StepOfOne

(* What Advance leaves: the next step, and what is recorded by then.       *)
LEMMA AdvanceStep ==
  ASSUME LockInv, NEW p \in Processes, NEW names, Advance(p, names),
         pc[p] \in {"running", "squashing"},
         names = recorded', holders' = holders
  PROVE  LockInv'
<1> DEFINE left == Tail(run[p].plan)
           body == IF left = <<>> THEN <<>> ELSE Body(left[1], run[p].request.fake)
           r == [run[p] EXCEPT !.recorded = names, !.plan = left, !.rest = {},
                               !.todo = body]
<1> HIDE DEF left, body
<1>1. run' = [run EXCEPT ![p] = r]
  BY DEF Advance, left, body
<1>3. IsRun(r) /\ r.recorded = names
  BY DEF LockInv, RunsAreRecords, IsRun, RunFields
<1>2. p \in holders
  BY DEF LockInv, OneAtATime
<1> QED
  BY <1>1, <1>2, <1>3, StepOfOne DEF Advance, Goto

(* A migration is unapplied: the row and the local set lose the same names. *)
LEMMA UnrecordStep ==
  ASSUME LockInv, NEW p \in Processes, Unrecord(p)
  PROVE  LockInv'
<1> DEFINE gone == Unrecorded(run[p].graph, Step(p).name)
<1>1. run[p].recorded = recorded
  BY DEF Unrecord, LockInv, PlanIsCurrent
<1>2. run[p].recorded \ gone = recorded'
  BY <1>1 DEF Unrecord
<1> QED
  BY <1>2, AdvanceStep DEF Unrecord

(* A migration is applied: only names the local set lacks are inserted.    *)
LEMMA RecordStep ==
  ASSUME LockInv, NEW p \in Processes, Record(p)
  PROVE  LockInv'
<1> DEFINE new == NewlyRecorded(Step(p).name)
<1>1. run[p].recorded = recorded /\ p \in holders
  BY DEF Record, LockInv, OneAtATime, PlanIsCurrent
<1>2. recorded' = recorded \cup new
  BY <1>1 DEF Record
<1> DEFINE names == run[p].recorded \cup new
           unused == run[p].graph.unused
           r == [run[p] EXCEPT !.recorded = names, !.rest = unused]
<1> HIDE DEF names, unused, new
<1>3. run' = [run EXCEPT ![p] = r]
  BY DEF Record, names, unused, new
<1>4. IsRun(r) /\ r.recorded = names
  BY DEF LockInv, RunsAreRecords, IsRun, RunFields
<1>5. names = recorded'
  BY <1>1, <1>2 DEF names
<1> QED
  BY <1>1, <1>3, <1>4, <1>5, StepOfOne DEF Record, Goto

(* A completed squash is recorded in the database and in the local set.    *)
LEMMA RecordSquashStep ==
  ASSUME LockInv, NEW p \in Processes, RecordSquash(p)
  PROVE  LockInv'
<1> DEFINE squash == Min(Completed(run[p].rest, Step(p).name, run[p].recorded))
<1>1. run[p].recorded = recorded /\ p \in holders
  BY DEF RecordSquash, LockInv, OneAtATime, PlanIsCurrent
<1>2. recorded' = recorded \cup {squash}
  BY DEF RecordSquash
<1> DEFINE names == run[p].recorded \cup {squash}
           left == {s \in run[p].rest : s > squash}
           r == [run[p] EXCEPT !.recorded = names, !.rest = left]
<1> HIDE DEF names, left, squash
<1>3. run' = [run EXCEPT ![p] = r]
  BY DEF RecordSquash, names, left, squash
<1>5. IsRun(r) /\ r.recorded = names
  BY DEF LockInv, RunsAreRecords, IsRun, RunFields
<1>6. names = recorded'
  BY <1>1, <1>2 DEF names
<1>4. pc' = [pc EXCEPT ![p] = pc[p]] /\ holders' = holders
  BY DEF RecordSquash, LockInv, RunsAreRecords
<1> QED
  BY <1>1, <1>3, <1>4, <1>5, <1>6, StepOfOne

(* Every step of the specification preserves the invariant.                *)
LEMMA StepPreserves == LockInv /\ [Next]_vars => LockInv'
<1> SUFFICES ASSUME LockInv, [Next]_vars PROVE LockInv'
  OBVIOUS
<1>1. CASE UNCHANGED vars
  BY <1>1 DEF vars, LockInv, RunsAreRecords, OneAtATime, PlanIsCurrent
<1>2. ASSUME NEW p \in Processes, NEW request \in site.requests, Start(p, request)
      PROVE  LockInv'
  BY <1>2, StartStep
<1>3. ASSUME NEW p \in Processes, Proceed(p)
      PROVE  LockInv'
  <2>1. CASE Acquire(p)
    BY <2>1, AcquireStep
  <2>2. CASE LockTimeout(p)
    BY <2>2, EndStep DEF LockTimeout, database
  <2>3. CASE MakePlan(p)
    BY <2>3, MakePlanStep
  <2>4. CASE Refuse(p)
    BY <2>4, EndStep DEF Refuse, Release, database
  <2>5. CASE RunOperation(p)
    BY <2>5, RunOperationStep
  <2>6. CASE Unrecord(p)
    BY <2>6, UnrecordStep
  <2>7. CASE Record(p)
    BY <2>7, RecordStep
  <2>8. CASE RecordSquash(p)
    BY <2>8, RecordSquashStep
  <2>9. CASE NextStep(p)
    <3>1. run[p].recorded = recorded' /\ holders' = holders
      BY <2>9 DEF NextStep, database, LockInv, PlanIsCurrent
    <3> QED
      BY <2>9, <3>1, AdvanceStep DEF NextStep
  <2>10. CASE Finish(p)
    BY <2>10, EndStep DEF Finish, Release, database
  <2>11. CASE Fail(p)
    BY <2>11, EndStep DEF Fail, Release, database
  <2> QED
    BY <1>3, <2>1, <2>2, <2>3, <2>4, <2>5, <2>6, <2>7, <2>8, <2>9, <2>10, <2>11
       DEF Proceed
<1>4. ASSUME NEW p \in Processes, Crash(p)
      PROVE  LockInv'
  BY <1>4, EndStep DEF Crash, LockDies, database
<1> QED
  BY <1>1, <1>2, <1>3, <1>4 DEF Next

(* However many processes migrate, fail or die, and whatever they plan:     *)
(* whoever works on the database works alone, from what is recorded now     *)
(* (_run: "worked out under the migration lock, from the state the run then *)
(* changes").                                                               *)
THEOREM RunsAreAlone == Spec => []LockInv
<1>1. Init => LockInv
  BY InitHolds
<1>2. LockInv /\ [Next]_vars => LockInv'
  BY StepPreserves
<1> QED
  BY <1>1, <1>2, PTL DEF Spec

(* What _apply_plan believes recorded is recorded: record() inserts no name *)
(* twice, and no plan is made of old news.                                  *)
THEOREM PlansAreCurrent == Spec => []PlanIsCurrent
<1>1. LockInv => PlanIsCurrent
  BY DEF LockInv
<1> QED
  BY <1>1, RunsAreAlone, PTL

-----------------------------------------------------------------------------
(* The runs. *)

(* A step of a plan for a request.                                          *)
StepFor(request) ==
  {s \in [name : request.files, backward : BOOLEAN, skip : BOOLEAN] :
     s.backward => /\ ~s.skip /\ request.target.kind # "latest"
                   /\ request.fake \/ s.name \notin Irreversible}

(* The run r of a process that is at l. *)
RunFits(r, l, requests) ==
  /\ r.request \in requests \cup {NoRun.request}
  /\ r.recorded \subseteq Migrations
  /\ r.plan \in Seq(StepFor(r.request))
  /\ r.todo \in Seq(Operations)
  /\ r.rest \subseteq r.request.files
  /\ r.outcome \in {"none", "done", "refused", "failed", "timeout", "crashed"}
  /\ l \in {"running", "squashing"} =>
       r.graph.squashes \cup r.graph.unused = Squashes(r.request.files)
  /\ l = "squashing" => r.plan # <<>>

RunsFit ==
  /\ pc \in [Processes -> PC] /\ DOMAIN run = Processes
  /\ \A p \in Processes : RunFits(run[p], pc[p], site.requests)

DataFits ==
  /\ recorded \subseteq Migrations /\ schema \subseteq Operations
  /\ holders \subseteq Processes
  /\ view \in [Processes -> SUBSET Operations]
  /\ \E s \in Sites : site = [s EXCEPT !.runs = site.runs] /\ site.runs \in 0 .. s.runs

(* TypeOK is not inductive: that a plan is a sequence of steps for the      *)
(* request, and that the graph is one of its files, is.                     *)
MigrateInv == LockInv /\ DataFits /\ RunsFit

(* The invariant is at least TypeOK. *)
LEMMA InvIsTyped == MigrateInv => TypeOK
<1> SUFFICES ASSUME MigrateInv PROVE TypeOK
  OBVIOUS
<1>1. ASSUME NEW p \in Processes
      PROVE  /\ run[p].request \in site.requests \cup {NoRun.request}
             /\ run[p].request.files \subseteq Migrations
  <2>1. run[p].request \in site.requests \cup {NoRun.request}
    BY DEF MigrateInv, RunsFit, RunFits
  <2>2. PICK s \in Sites : site = [s EXCEPT !.runs = site.runs]
    BY DEF MigrateInv, DataFits
  <2>3. s \in Site
    BY MigrateAssumption
  <2>4. site.requests = s.requests /\ s.requests \subseteq Request
    BY <2>2, <2>3 DEF Site
  <2>5. NoRun.request.files = {}
    BY DEF NoRun
  <2> QED BY <2>1, <2>4, <2>5 DEF Request
<1>2. ASSUME NEW p \in Processes
      PROVE  /\ run[p].recorded \subseteq Migrations
             /\ \A i \in DOMAIN run[p].plan :
                  run[p].plan[i].name \in run[p].request.files
             /\ run[p].todo \in Seq(Operations)
             /\ run[p].rest \subseteq Migrations
             /\ run[p].outcome \in
                  {"none", "done", "refused", "failed", "timeout", "crashed"}
  <2>1. RunFits(run[p], pc[p], site.requests)
    BY DEF MigrateInv, RunsFit
  <2>2. \A i \in DOMAIN run[p].plan : run[p].plan[i] \in StepFor(run[p].request)
    BY <2>1 DEF RunFits
  <2>3. \A i \in DOMAIN run[p].plan : run[p].plan[i].name \in run[p].request.files
    BY <2>2 DEF StepFor
  <2> QED BY <2>1, <2>3, <1>1 DEF RunFits
<1> QED BY <1>1, <1>2 DEF MigrateInv, DataFits, RunsFit, TypeOK

(* Every request is one, that of a process at rest, too.                    *)
LEMMA RequestsAreTyped ==
  ASSUME DataFits, RunsFit, NEW p \in Processes
  PROVE  run[p].request \in Request
<1>1. run[p].request \in site.requests \cup {NoRun.request}
  BY DEF RunsFit, RunFits
<1>2. PICK s \in Sites : site = [s EXCEPT !.runs = site.runs]
  BY DEF DataFits
<1>3. s \in Site
  BY MigrateAssumption
<1>4. site.requests = s.requests /\ s.requests \subseteq Request
  BY <1>2, <1>3 DEF Site
<1>5. NoRun.request \in Request
  BY DEF NoRun, Request, Latest
<1> QED BY <1>1, <1>4, <1>5

(* What p must satisfy after a step that leaves the others alone. *)
LEMMA RunStep ==
  ASSUME MigrateInv, NEW p \in Processes, NEW r, NEW l \in PC,
         run' = [run EXCEPT ![p] = r], pc' = [pc EXCEPT ![p] = l],
         site'.requests = site.requests,
         RunFits(r, l, site.requests)
  PROVE  RunsFit'
<1>1. DOMAIN run = Processes /\ pc \in [Processes -> PC]
  BY DEF MigrateInv, RunsFit
<1>2. DOMAIN run' = Processes /\ pc' \in [Processes -> PC]
  BY <1>1
<1>3. ASSUME NEW q \in Processes PROVE RunFits(run'[q], pc'[q], site'.requests)
  <2>1. CASE q = p
    <3>1. run'[q] = r /\ pc'[q] = l
      BY <1>1, <2>1
    <3> QED BY <3>1
  <2>2. CASE q # p
    <3>1. run'[q] = run[q] /\ pc'[q] = pc[q]
      BY <1>1, <2>2
    <3> QED BY <3>1 DEF MigrateInv, RunsFit
  <2> QED BY <2>1, <2>2
<1> QED BY <1>2, <1>3 DEF RunsFit

(* A run that has not begun, or is over, fits. *)
LEMMA NoRunFits ==
  ASSUME NEW requests, NEW request \in requests \cup {NoRun.request},
         NEW outcome \in {"none", "done", "refused", "failed", "timeout", "crashed"},
         NEW l, l \notin {"running", "squashing"}
  PROVE  RunFits([NoRun EXCEPT !.request = request, !.outcome = outcome], l, requests)
BY DEF NoRun, RunFits

(* A run that starts has a request of the site, and takes one of the runs   *)
(* left.                                                                    *)
LEMMA StartFits ==
  ASSUME MigrateInv, NEW p \in Processes, NEW request \in site.requests,
         Start(p, request)
  PROVE  DataFits' /\ RunsFit'
<1> DEFINE r == [NoRun EXCEPT !.request = request]
<1>2. RunFits(r, "waiting", site.requests)
  BY DEF NoRun, RunFits
<1>3. PICK s \in Sites : site = [s EXCEPT !.runs = site.runs] /\ site.runs \in 0 .. s.runs
  BY DEF MigrateInv, DataFits
<1>4. s \in Site
  BY MigrateAssumption
<1>5. site' = [s EXCEPT !.runs = site.runs - 1] /\ site.runs - 1 \in 0 .. s.runs
  <2>1. site' = [site EXCEPT !.runs = @ - 1] /\ site.runs > 0
    BY DEF Start
  <2> QED BY <2>1, <1>3, <1>4 DEF Site
<1>6. site'.requests = site.requests /\ site' = [s EXCEPT !.runs = site'.runs] /\ site'.runs \in 0 .. s.runs
  BY <1>3, <1>4, <1>5 DEF Site
<1>7. RunsFit'
  <2>1. run' = [run EXCEPT ![p] = r] /\ pc' = [pc EXCEPT ![p] = "waiting"] /\ "waiting" \in PC
    BY DEF Start, Goto, PC
  <2> HIDE DEF r
  <2> QED BY <2>1, <1>2, <1>6, RunStep
<1>8. DataFits'
  BY <1>6 DEF MigrateInv, DataFits, Start, database
<1> QED BY <1>7, <1>8

(* However a run ends, it leaves a run that fits and commits nothing. *)
LEMMA EndFits ==
  ASSUME MigrateInv, NEW p \in Processes,
         NEW outcome \in {"none", "done", "refused", "failed", "timeout", "crashed"},
         End(p, outcome), UNCHANGED <<database, site>>,
         holders' \subseteq holders
  PROVE  DataFits' /\ RunsFit'
<1> DEFINE r == [NoRun EXCEPT !.request = run[p].request, !.outcome = outcome]
<1>1. RunFits(r, "idle", site.requests)
  <2>1. run[p].request \in site.requests \cup {NoRun.request}
    BY DEF MigrateInv, RunsFit, RunFits
  <2>2. "idle" \notin {"running", "squashing"}
    OBVIOUS
  <2> QED BY <2>1, <2>2, NoRunFits
<1>2. RunsFit'
  <2>1. /\ run' = [run EXCEPT ![p] = r] /\ pc' = [pc EXCEPT ![p] = "idle"] /\ "idle" \in PC
        /\ site'.requests = site.requests
    BY DEF End, Goto, PC
  <2> HIDE DEF r
  <2> QED BY <2>1, <1>1, RunStep
<1>3. DataFits'
  BY DEF MigrateInv, DataFits, End, database
<1> QED BY <1>2, <1>3

(* The operations of a step are operations. *)
LEMMA BodyFits ==
  ASSUME NEW request \in Request, NEW plan \in Seq(StepFor(request)), NEW fake
  PROVE  (IF plan = <<>> THEN <<>> ELSE Body(plan[1], fake)) \in Seq(Operations)
<1>1. CASE plan = <<>>
  BY <1>1
<1>2. CASE plan # <<>>
  <2>1. plan[1] \in StepFor(request)
    BY <1>2
  <2>2. plan[1].name \in Migrations
    BY <2>1 DEF StepFor, Request
  <2>3. operations[plan[1].name] \in Seq(Operations)
    BY <2>2, MigrateAssumption
  <2>4. Reverse(operations[plan[1].name]) \in Seq(Operations)
    BY <2>3 DEF Reverse
  <2>5. Body(plan[1], fake) \in Seq(Operations)
    BY <2>3, <2>4 DEF Body
  <2> QED BY <1>2, <2>5
<1> QED BY <1>1, <1>2

(* An accepted plan is one of steps for the request. *)
LEMMA AcceptedPlan ==
  ASSUME NEW request \in Request, NEW g, NEW rec, g = Graph(request.files, rec),
         Accepted(request, g)
  PROVE  /\ PlanOf(request, g) \in Seq(StepFor(request))
         /\ \E A, B : PlanIsOf(g, PlanOf(request, g), A, B, Adopted(request))
<1> DEFINE target == GoalOf(request, g)
           plan == PlanOf(request, g)
           adopt == Adopted(request)
<1>1. /\ target.kind \in {"latest", "zero", "to"}
      /\ target.kind = "latest" <=> request.target.kind = "latest"
  BY DEF GoalOf, RollbackTarget, Zero, To, Request
<1>2. /\ target.kind = "to" =>
           Target(g, target.to) \in g.nodes \/ IsInSquash(g, Target(g, target.to))
      /\ ~IsBroken(g)
      /\ PlanPasses(g, plan, request.fake)
  BY DEF Accepted
<1>3. plan = Plan(g, target, adopt)
  BY DEF PlanOf
<1>4. request.files \in SUBSET Migrations
  BY DEF Request
<1>5. g.files = request.files
  BY <1>4, GraphFits
<1> HIDE DEF target, plan, adopt
<1>6. PICK A, B : /\ PlanIsOf(g, plan, A, B, adopt)
                  /\ target.kind = "latest" => A = {}
  <2> DEFINE files == request.files
  <2>1. files \in SUBSET Migrations /\ g = Graph(files, rec)
    BY <1>4
  <2> HIDE DEF files
  <2>2. \E A, B : /\ PlanIsOf(g, Plan(g, target, adopt), A, B, adopt)
                  /\ target.kind = "latest" => A = {}
    BY <1>1, <1>2, <2>1, PlanIn
  <2> QED BY <1>3, <2>2
<1>7. plan \in Seq(Steps(g, A, B, adopt)) /\ A \subseteq g.files /\ B \subseteq g.nodes
  BY <1>6 DEF PlanIsOf
<1>8. g.nodes \subseteq g.files
  BY <1>4, GraphFits
<1>9. ASSUME NEW i \in DOMAIN plan PROVE plan[i] \in StepFor(request)
  <2>1. plan[i] \in Steps(g, A, B, adopt)
    BY <1>7
  <2>2. CASE plan[i] \in BackwardIn(A)
    <3>1. PICK m \in A : plan[i] = BackwardStep(m)
      BY <2>2 DEF BackwardIn
    <3>2. plan[i].backward /\ plan[i].name = m /\ ~plan[i].skip
      BY <3>1 DEF BackwardStep
    <3>3. m \in Unapplied(plan)
      BY <3>2 DEF Unapplied
    <3>4. request.fake \/ m \notin Irreversible
      BY <1>2, <3>3 DEF PlanPasses
    <3>5. request.target.kind # "latest"
      BY <1>1, <1>6
    <3>6. m \in request.files
      BY <1>5, <1>7
    <3> QED BY <3>1, <3>4, <3>5, <3>6 DEF StepFor, BackwardStep
  <2>3. CASE plan[i] \in SkippedIn(SkippedOf(g, B, adopt)) \cup RunIn(g.files)
    <3>1. \E m \in request.files : \E skip \in BOOLEAN : plan[i] = ForwardStep(m, skip)
      BY <2>3, <1>5, <1>7, <1>8 DEF SkippedIn, SkippedOf, RunIn
    <3> QED BY <3>1 DEF StepFor, ForwardStep
  <2> QED BY <2>1, <2>2, <2>3 DEF Steps
<1>10. plan \in Seq(StepFor(request))
  <2>1. plan = [i \in 1 .. Len(plan) |-> plan[i]] /\ Len(plan) \in Nat /\ DOMAIN plan = 1 .. Len(plan)
    BY <1>7
  <2> QED BY <2>1, <1>9
<1> QED BY <1>6, <1>10 DEF plan, adopt

(* The lock changes nothing of the run. *)
LEMMA AcquireFits ==
  ASSUME MigrateInv, NEW p \in Processes, Acquire(p)
  PROVE  DataFits' /\ RunsFit'
<1>1. RunFits(run[p], pc[p], site.requests) /\ DOMAIN run = Processes
  BY DEF MigrateInv, RunsFit
<1>2. RunFits(run[p], "locked", site.requests)
  BY <1>1 DEF RunFits, Acquire
<1>3. RunsFit'
  <2>1. run' = [run EXCEPT ![p] = run[p]]
    BY DEF Acquire, MigrateInv, LockInv, RunsAreRecords
  <2>2. pc' = [pc EXCEPT ![p] = "locked"] /\ "locked" \in PC /\ site' = site
    BY DEF Acquire, Goto, PC
  <2> QED BY <1>2, <2>1, <2>2, RunStep
<1>4. DataFits'
  BY DEF MigrateInv, DataFits, Acquire, database
<1> QED BY <1>3, <1>4

(* The plan is one for the request, from a graph of its files. *)
LEMMA MakePlanFits ==
  ASSUME MigrateInv, NEW p \in Processes, MakePlan(p)
  PROVE  DataFits' /\ RunsFit'
<1> DEFINE request == run[p].request
           g == Graph(request.files, recorded)
           plan == PlanOf(request, g)
           todo == IF plan = <<>> THEN <<>> ELSE Body(plan[1], request.fake)
           r == [run[p] EXCEPT !.graph = g, !.recorded = recorded,
                               !.plan = plan, !.todo = todo]
<1>1. /\ run' = [run EXCEPT ![p] = r]
      /\ pc' = [pc EXCEPT ![p] = "running"] /\ "running" \in PC /\ site' = site
  BY DEF MakePlan, Goto, PC
<1>2. request \in Request
  BY RequestsAreTyped DEF MigrateInv
<1>3. /\ RunFits(run[p], pc[p], site.requests) /\ recorded \subseteq Migrations
      /\ IsRun(run[p])
  BY DEF MigrateInv, RunsFit, DataFits, LockInv, RunsAreRecords
<1>4. plan \in Seq(StepFor(request))
  <2>1. Accepted(request, g)
    BY DEF MakePlan
  <2> HIDE DEF request, plan
  <2>2. PlanOf(request, g) \in Seq(StepFor(request))
    BY <1>2, <2>1, AcceptedPlan
  <2> QED BY <2>2 DEF plan
<1>5. todo \in Seq(Operations)
  <2> HIDE DEF request, plan
  <2> QED BY <1>2, <1>4, BodyFits
<1>6. g.squashes \cup g.unused = Squashes(request.files)
  <2>1. request.files \in SUBSET Migrations
    BY <1>2 DEF Request
  <2> HIDE DEF request
  <2> QED BY <2>1, GraphFits
<1> HIDE DEF g, plan, todo
<1>7. /\ r.request = request /\ r.recorded = recorded /\ r.plan = plan
      /\ r.todo = todo /\ r.rest = run[p].rest /\ r.outcome = run[p].outcome
      /\ r.graph = g
  BY <1>3 DEF IsRun, RunFields
<1>8. RunFits(r, "running", site.requests)
  <2> HIDE DEF r
  <2> QED BY <1>3, <1>4, <1>5, <1>6, <1>7 DEF RunFits
<1>9. RunsFit'
  <2> HIDE DEF r
  <2> QED BY <1>1, <1>8, RunStep
<1>10. DataFits'
  BY DEF MigrateInv, DataFits, MakePlan, database
<1> QED BY <1>9, <1>10

(* An operation changes the view, and the schema to what is viewed. *)
LEMMA RunOperationFits ==
  ASSUME MigrateInv, NEW p \in Processes, RunOperation(p)
  PROVE  DataFits' /\ RunsFit'
<1> DEFINE r == [run[p] EXCEPT !.todo = Tail(run[p].todo)]
           o == Head(run[p].todo)
           after == Changed(view[p], o, Step(p).backward)
<1>1. /\ run' = [run EXCEPT ![p] = r] /\ pc' = [pc EXCEPT ![p] = pc[p]]
      /\ pc[p] \in PC /\ site' = site
  BY DEF RunOperation, MigrateInv, LockInv, RunsAreRecords, RunsFit
<1>2. RunFits(run[p], pc[p], site.requests) /\ IsRun(run[p]) /\ run[p].todo # <<>>
  BY DEF MigrateInv, RunsFit, LockInv, RunsAreRecords, RunOperation
<1>3. /\ r.request = run[p].request /\ r.recorded = run[p].recorded
      /\ r.plan = run[p].plan /\ r.todo = Tail(run[p].todo)
      /\ r.rest = run[p].rest /\ r.outcome = run[p].outcome /\ r.graph = run[p].graph
  BY <1>2 DEF IsRun, RunFields
<1>4. run[p].todo \in Seq(Operations)
  BY <1>2 DEF RunFits
<1>5. Tail(run[p].todo) \in Seq(Operations) /\ o \in Operations
  BY <1>2, <1>4
<1>6. RunFits(r, pc[p], site.requests)
  <2> HIDE DEF r
  <2> QED BY <1>2, <1>3, <1>5 DEF RunFits
<1>7. RunsFit'
  <2> HIDE DEF r
  <2> QED BY <1>1, <1>6, RunStep
<1>8. after \subseteq Operations /\ view \in [Processes -> SUBSET Operations]
  BY <1>5 DEF Changed, MigrateInv, DataFits
<1>9. DataFits'
  <2>1. view' = [view EXCEPT ![p] = after] /\ (schema' = after \/ schema' = schema)
    BY DEF RunOperation
  <2>2. recorded' = recorded /\ holders' = holders /\ site' = site
    BY DEF RunOperation
  <2> HIDE DEF after
  <2> QED BY <2>1, <2>2, <1>8 DEF MigrateInv, DataFits
<1> QED BY <1>7, <1>9

(* What is left of a plan is still one for the request. *)
LEMMA AdvanceFits ==
  ASSUME MigrateInv, NEW p \in Processes, NEW names \in SUBSET Migrations,
         Advance(p, names), run[p].plan # <<>>, site' = site,
         pc[p] \in {"running", "squashing"}
  PROVE  RunsFit'
<1> DEFINE left == Tail(run[p].plan)
           fake == run[p].request.fake
           todo == IF left = <<>> THEN <<>> ELSE Body(left[1], fake)
           r == [run[p] EXCEPT !.recorded = names, !.plan = left, !.rest = {},
                               !.todo = todo]
<1>1. /\ run' = [run EXCEPT ![p] = r] /\ pc' = [pc EXCEPT ![p] = "running"]
      /\ "running" \in PC
  BY DEF Advance, Goto, PC
<1>2. RunFits(run[p], pc[p], site.requests) /\ IsRun(run[p])
  BY DEF MigrateInv, RunsFit, LockInv, RunsAreRecords
<1>3. left \in Seq(StepFor(run[p].request))
  <2>1. run[p].plan \in Seq(StepFor(run[p].request))
    BY <1>2 DEF RunFits
  <2> QED BY <2>1, HeadTailProperties
<1>4. todo \in Seq(Operations)
  <2>1. run[p].request \in Request
    BY RequestsAreTyped DEF MigrateInv
  <2> HIDE DEF left, fake
  <2> QED BY <1>3, <2>1, BodyFits
<1> HIDE DEF left, todo
<1>5. /\ r.request = run[p].request /\ r.recorded = names /\ r.plan = left
      /\ r.todo = todo /\ r.rest = {} /\ r.outcome = run[p].outcome
      /\ r.graph = run[p].graph
  BY <1>2 DEF IsRun, RunFields
<1>6. RunFits(r, "running", site.requests)
  <2> HIDE DEF r
  <2> QED BY <1>2, <1>3, <1>4, <1>5 DEF RunFits
<1> HIDE DEF r
<1> QED BY <1>1, <1>6, RunStep

(* The first step of a plan, and what its name can be.                      *)
LEMMA StepIs ==
  ASSUME MigrateInv, NEW p \in Processes, run[p].plan # <<>>
  PROVE  /\ Step(p) \in StepFor(run[p].request)
         /\ Step(p).name \in run[p].request.files
         /\ run[p].request.files \subseteq Migrations
         /\ Replaced(Step(p).name) \subseteq Migrations
<1>1. run[p].plan \in Seq(StepFor(run[p].request))
  BY DEF MigrateInv, RunsFit, RunFits
<1>2. Step(p) \in StepFor(run[p].request)
  BY <1>1 DEF Step
<1>3. run[p].request.files \subseteq Migrations
  BY RequestsAreTyped DEF Request, MigrateInv
<1>4. Step(p).name \in run[p].request.files
  BY <1>2 DEF StepFor
<1>5. replaces[Step(p).name] \in Seq(Migrations)
  BY <1>3, <1>4, GraphAssumption
<1> QED BY <1>2, <1>3, <1>4, <1>5, SeqOfElements DEF Replaced

(* Unapplying a migration only takes names away. *)
LEMMA UnrecordFits ==
  ASSUME MigrateInv, NEW p \in Processes, Unrecord(p)
  PROVE  DataFits' /\ RunsFit'
<1> DEFINE gone == Unrecorded(run[p].graph, Step(p).name)
<1>1. run[p].recorded \ gone \in SUBSET Migrations
  BY DEF MigrateInv, RunsFit, RunFits
<1>2. RunsFit'
  <2> HIDE DEF gone
  <2>1. Advance(p, run[p].recorded \ gone) /\ run[p].plan # <<>> /\ site' = site
        /\ pc[p] \in {"running", "squashing"}
    BY DEF Unrecord, gone
  <2> QED BY <1>1, <2>1, AdvanceFits
<1>3. recorded' = recorded \ gone /\ schema' = view[p] /\ UNCHANGED <<holders, view, site>>
  BY DEF Unrecord
<1> HIDE DEF gone
<1>4. DataFits'
  BY <1>3 DEF MigrateInv, DataFits
<1> QED BY <1>2, <1>4

(* What a process keeps but for what it knows recorded and looks at.        *)
LEMMA RecordedFits ==
  ASSUME MigrateInv, NEW p \in Processes, NEW names \in SUBSET Migrations,
         NEW rest \in SUBSET run[p].request.files,
         pc[p] \in {"running", "squashing"}, run[p].plan # <<>>
  PROVE  RunFits([run[p] EXCEPT !.recorded = names, !.rest = rest], "squashing",
                 site.requests)
<1> DEFINE r == [run[p] EXCEPT !.recorded = names, !.rest = rest]
<1>1. RunFits(run[p], pc[p], site.requests) /\ IsRun(run[p])
  BY DEF MigrateInv, RunsFit, LockInv, RunsAreRecords
<1>2. /\ r.request = run[p].request /\ r.recorded = names /\ r.plan = run[p].plan
      /\ r.todo = run[p].todo /\ r.rest = rest /\ r.outcome = run[p].outcome
      /\ r.graph = run[p].graph
  BY <1>1 DEF IsRun, RunFields
<1> HIDE DEF r
<1>3. RunFits(r, "squashing", site.requests)
  BY <1>1, <1>2 DEF RunFits
<1> QED BY <1>3 DEF r

(* Applying a migration records its name and those it replaces. *)
LEMMA RecordFits ==
  ASSUME MigrateInv, NEW p \in Processes, Record(p)
  PROVE  DataFits' /\ RunsFit'
<1> DEFINE new == NewlyRecorded(Step(p).name)
           names == run[p].recorded \cup new
           rest == run[p].graph.unused
           r == [run[p] EXCEPT !.recorded = names, !.rest = rest]
<1>1. /\ pc[p] = "running" /\ run[p].plan # <<>>
      /\ recorded' = recorded \cup (new \ run[p].recorded) /\ schema' = view[p]
      /\ run' = [run EXCEPT ![p] = r] /\ pc' = [pc EXCEPT ![p] = "squashing"]
      /\ UNCHANGED <<holders, view, site>>
  BY DEF Record, Goto
<1>2. new \subseteq Migrations
  BY <1>1, StepIs DEF NewlyRecorded
<1>3. names \in SUBSET Migrations
  BY <1>2 DEF MigrateInv, RunsFit, RunFits
<1>4. rest \in SUBSET run[p].request.files
  <2>1. run[p].graph.squashes \cup run[p].graph.unused = Squashes(run[p].request.files)
    BY <1>1 DEF MigrateInv, RunsFit, RunFits
  <2> QED BY <2>1 DEF Squashes
<1> HIDE DEF new, names, rest
<1>5. RunFits(r, "squashing", site.requests)
  BY <1>1, <1>3, <1>4, RecordedFits
<1>6. RunsFit'
  <2>1. "squashing" \in PC
    BY DEF PC
  <2> HIDE DEF r
  <2> QED BY <1>1, <1>5, <2>1, RunStep
<1>7. DataFits'
  BY <1>1, <1>2 DEF MigrateInv, DataFits
<1> QED BY <1>6, <1>7

(* The squash that is recorded is one that is left to be looked at.         *)
LEMMA CompletedIsFound ==
  ASSUME MigrateInv, NEW p \in Processes,
         Completed(run[p].rest, Step(p).name, run[p].recorded) # {}
  PROVE  Min(Completed(run[p].rest, Step(p).name, run[p].recorded))
           \in Completed(run[p].rest, Step(p).name, run[p].recorded)
<1> DEFINE completed == Completed(run[p].rest, Step(p).name, run[p].recorded)
<1>1. run[p].rest \subseteq run[p].request.files /\ run[p].request.files \subseteq Migrations
  <2>1. run[p].request \in Request
    BY RequestsAreTyped DEF MigrateInv
  <2> QED BY <2>1 DEF MigrateInv, RunsFit, RunFits, Request
<1>2. completed \subseteq Nat
  BY <1>1, GraphAssumption DEF Completed
<1> HIDE DEF completed
<1>3. completed # {} => Min(completed) \in completed
  BY <1>2, MinOf
<1> QED BY <1>3 DEF completed

(* A completed squash is one of the files. *)
LEMMA RecordSquashFits ==
  ASSUME MigrateInv, NEW p \in Processes, RecordSquash(p)
  PROVE  DataFits' /\ RunsFit'
<1> DEFINE completed == Completed(run[p].rest, Step(p).name, run[p].recorded)
           squash == Min(completed)
           names == run[p].recorded \cup {squash}
           rest == {s \in run[p].rest : s > squash}
           r == [run[p] EXCEPT !.recorded = names, !.rest = rest]
<1>1. /\ pc[p] = "squashing" /\ completed # {}
      /\ recorded' = recorded \cup {squash}
      /\ run' = [run EXCEPT ![p] = r]
      /\ UNCHANGED <<schema, holders, pc, view, site>>
  BY DEF RecordSquash
<1>2. squash \in run[p].rest
  BY <1>1, CompletedIsFound DEF Completed
<1>3. run[p].rest \subseteq run[p].request.files /\ run[p].request.files \subseteq Migrations
  <2>1. run[p].request \in Request
    BY RequestsAreTyped DEF MigrateInv
  <2> QED BY <2>1 DEF MigrateInv, RunsFit, RunFits, Request
<1>4. names \in SUBSET Migrations
  <2>1. run[p].recorded \subseteq Migrations
    BY DEF MigrateInv, RunsFit, RunFits
  <2> HIDE DEF squash
  <2> QED BY <2>1, <1>2, <1>3
<1>5. rest \in SUBSET run[p].request.files /\ run[p].plan # <<>>
  BY <1>1, <1>3 DEF MigrateInv, RunsFit, RunFits
<1> HIDE DEF squash, names, rest, completed
<1>6. RunFits(r, "squashing", site.requests)
  BY <1>1, <1>4, <1>5, RecordedFits
<1>7. RunsFit'
  <2>1. "squashing" \in PC /\ pc' = [pc EXCEPT ![p] = "squashing"] /\ site' = site
    BY <1>1 DEF PC, MigrateInv, RunsFit
  <2> HIDE DEF r
  <2> QED BY <1>1, <1>6, <2>1, RunStep
<1>8. DataFits'
  BY <1>1, <1>2, <1>3 DEF MigrateInv, DataFits
<1> QED BY <1>7, <1>8

(* The next step is one for the request. *)
LEMMA NextStepFits ==
  ASSUME MigrateInv, NEW p \in Processes, NextStep(p)
  PROVE  DataFits' /\ RunsFit'
<1>1. /\ pc[p] = "squashing" /\ Advance(p, run[p].recorded)
      /\ UNCHANGED <<database, holders, view, site>>
  BY DEF NextStep
<1>2. run[p].recorded \in SUBSET Migrations /\ run[p].plan # <<>>
  BY <1>1 DEF MigrateInv, RunsFit, RunFits
<1>3. RunsFit'
  BY <1>1, <1>2, AdvanceFits
<1>4. DataFits'
  BY <1>1 DEF MigrateInv, DataFits, database
<1> QED BY <1>3, <1>4

(* Nobody has run yet. *)
LEMMA InitFits == Init => MigrateInv
<1> SUFFICES ASSUME Init PROVE MigrateInv
  OBVIOUS
<1>1. site \in Site
  BY MigrateAssumption DEF Init
<1>2. DataFits
  <2>1. site = [site EXCEPT !.runs = site.runs] /\ site.runs \in 0 .. site.runs
        /\ site.schema \subseteq Operations
    BY <1>1 DEF Site
  <2> QED BY <2>1 DEF Init, DataFits
<1>3. RunFits(NoRun, "idle", site.requests)
  BY DEF NoRun, RunFits
<1>4. RunsFit
  <2> DEFINE r == NoRun
  <2>1. run = [p \in Processes |-> r] /\ pc = [p \in Processes |-> "idle"]
    BY DEF Init
  <2>2. "idle" \in PC
    BY DEF PC
  <2> HIDE DEF r
  <2>3. RunFits(r, "idle", site.requests)
    BY <1>3 DEF r
  <2> QED BY <2>1, <2>2, <2>3 DEF RunsFit
<1> QED BY <1>2, <1>4, InitHolds DEF MigrateInv

(* Every step of the specification preserves the invariant. *)
LEMMA NextFits == MigrateInv /\ [Next]_vars => MigrateInv'
<1> SUFFICES ASSUME MigrateInv, [Next]_vars PROVE DataFits' /\ RunsFit'
  BY StepPreserves DEF MigrateInv
<1>1. CASE UNCHANGED vars
  BY <1>1 DEF vars, MigrateInv, DataFits, RunsFit
<1>2. ASSUME NEW p \in Processes, NEW request \in site.requests, Start(p, request)
      PROVE  DataFits' /\ RunsFit'
  BY <1>2, StartFits
<1>3. ASSUME NEW p \in Processes, Proceed(p)
      PROVE  DataFits' /\ RunsFit'
  <2> DEFINE outcomes == {"none", "done", "refused", "failed", "timeout", "crashed"}
  <2>1. CASE Acquire(p)
    BY <2>1, AcquireFits
  <2>2. CASE LockTimeout(p)
    BY <2>2, EndFits DEF LockTimeout, database
  <2>3. CASE MakePlan(p)
    BY <2>3, MakePlanFits
  <2>4. CASE Refuse(p)
    BY <2>4, EndFits DEF Refuse, Release, database
  <2>5. CASE RunOperation(p)
    BY <2>5, RunOperationFits
  <2>6. CASE Unrecord(p)
    BY <2>6, UnrecordFits
  <2>7. CASE Record(p)
    BY <2>7, RecordFits
  <2>8. CASE RecordSquash(p)
    BY <2>8, RecordSquashFits
  <2>9. CASE NextStep(p)
    BY <2>9, NextStepFits
  <2>10. CASE Finish(p)
    BY <2>10, EndFits DEF Finish, Release, database
  <2>11. CASE Fail(p)
    BY <2>11, EndFits DEF Fail, Release, database
  <2> QED
    BY <1>3, <2>1, <2>2, <2>3, <2>4, <2>5, <2>6, <2>7, <2>8, <2>9, <2>10, <2>11
       DEF Proceed
<1>4. ASSUME NEW p \in Processes, Crash(p)
      PROVE  DataFits' /\ RunsFit'
  <2>1. End(p, "crashed") /\ UNCHANGED <<database, site>> /\ holders' \subseteq holders
    BY <1>4 DEF Crash, LockDies
  <2> QED BY <2>1, EndFits
<1> QED BY <1>1, <1>2, <1>3, <1>4 DEF Next

(* Whatever the releases and the requests, and wherever a run fails or      *)
(* dies: the steps a run holds are of its files, a plan without --fake      *)
(* unapplies nothing irreversible, a run to the latest migration unapplies  *)
(* nothing, and the graph in use is one of the files (_build_plan,          *)
(* _check_reversible).                                                      *)
THEOREM MigrateInvariant == Spec => []MigrateInv
<1>1. Init => MigrateInv
  BY InitFits
<1>2. MigrateInv /\ [Next]_vars => MigrateInv'
  BY NextFits
<1> QED BY <1>1, <1>2, PTL DEF Spec

(* Every value is of its type, in particular every step of every plan names *)
(* a migration the process has a file of: no plan reaches for an original   *)
(* that is not on disk (MigrationGraph.originals).                          *)
THEOREM MigrateTypeCorrect == Spec => []TypeOK
<1>1. MigrateInv => TypeOK
  BY InvIsTyped
<1> QED BY <1>1, MigrateInvariant, PTL

(* Three actions change what is recorded. *)
LEMMA WhoRecords ==
  ASSUME [Next]_vars, recorded' # recorded
  PROVE  \E p \in Processes : Unrecord(p) \/ Record(p) \/ RecordSquash(p)
BY DEF Next, vars, Proceed, Start, Acquire, LockTimeout, MakePlan, Refuse, RunOperation,
       NextStep, Finish, Fail, Crash, database

(* A step that unrecords an irreversible leaf is one of a run that only     *)
(* fakes: a plan with such a step is refused to any other.                  *)
LEMMA IrreversibleStays ==
  ASSUME SquashesStayIrreversible, MigrateInv, [Next]_vars,
         NEW m \in Irreversible \cap Leaves \cap recorded, m \notin recorded'
  PROVE  \E p \in holders : run[p].request.fake
<1>1. PICK p \in Processes : Unrecord(p)
  BY WhoRecords DEF Record, RecordSquash
<1> DEFINE n == Step(p).name
           g == run[p].graph
<1>2. /\ pc[p] = "running" /\ run[p].plan # <<>> /\ Step(p).backward
      /\ m \in Unrecorded(g, n)
  BY <1>1 DEF Unrecord
<1>3. p \in holders
  BY <1>2 DEF MigrateInv, LockInv, OneAtATime
<1>4. g.squashes \cup g.unused = Squashes(run[p].request.files)
  BY <1>2 DEF MigrateInv, RunsFit, RunFits
<1>5. m = n \/ m \in Replaced(n)
  BY <1>2, <1>4 DEF Unrecorded, Squashes, Leaves
<1>6. n \in Irreversible
  <2>1. n \in Migrations
    BY <1>2, StepIs
  <2> HIDE DEF n
  <2> QED BY <1>5, <2>1 DEF SquashesStayIrreversible
<1>7. Step(p) \in StepFor(run[p].request)
  BY <1>2, StepIs
<1>8. run[p].request.fake
  BY <1>2, <1>6, <1>7 DEF StepFor
<1> QED BY <1>3, <1>8

(* An irreversible migration stays applied once it is, in a squash or on    *)
(* its own, unless a run only fakes, and nothing before one is unapplied by *)
(* a run that would come to it: for every history, every set of releases    *)
(* and every order of their runs (_check_reversible looks at the whole      *)
(* plan). It asks that a squash of an irreversible migration is             *)
(* irreversible.                                                            *)
THEOREM IrreversibleIsKept ==
  ASSUME SquashesStayIrreversible
  PROVE  Spec => IrreversibleStaysApplied
<1> DEFINE Kept ==
      \A m \in Irreversible \cap Leaves \cap recorded :
        m \in recorded' \/ \E p \in holders : run[p].request.fake
<1> DEFINE NoneAhead ==
      \A p \in Processes : ~run[p].request.fake =>
        \A i \in DOMAIN run[p].plan :
          run[p].plan[i].backward => run[p].plan[i].name \notin Irreversible
<1>1. MigrateInv /\ [Next]_vars => [Kept]_vars
  BY IrreversibleStays
<1>2. MigrateInv => NoneAhead
  <2> SUFFICES ASSUME MigrateInv, NEW p \in Processes, ~run[p].request.fake,
                      NEW i \in DOMAIN run[p].plan, run[p].plan[i].backward
               PROVE  run[p].plan[i].name \notin Irreversible
    OBVIOUS
  <2>1. run[p].plan \in Seq(StepFor(run[p].request))
    BY DEF MigrateInv, RunsFit, RunFits
  <2>2. run[p].plan[i] \in StepFor(run[p].request)
    BY <2>1
  <2> QED BY <2>2 DEF StepFor
<1>3. MigrateInv /\ [Next]_vars =>
        [/\ \A m \in Irreversible \cap Leaves \cap recorded :
              \/ m \in recorded'
              \/ \E p \in holders : run[p].request.fake
         /\ \A p \in Processes : ~run[p].request.fake =>
              \A i \in DOMAIN run[p].plan :
                run[p].plan[i].backward => run[p].plan[i].name \notin Irreversible]_vars
  BY <1>1, <1>2
<1> QED BY <1>3, MigrateInvariant, PTL DEF Spec, IrreversibleStaysApplied

-----------------------------------------------------------------------------
(* Squashes in the record. *)

(* Nothing else is recorded than what the releases here can record, and     *)
(* a recorded squash is whole where its file is known to who goes back.     *)
WholeInv ==
  /\ recorded \subseteq Names
  /\ SquashesAreKnown => SquashesAreWhole

(* What is released is a migration. *)
LEMMA ReleasedAreTyped ==
  ASSUME MigrateInv
  PROVE  Released \subseteq Migrations
<1>1. PICK s \in Sites : site = [s EXCEPT !.runs = site.runs]
  BY DEF MigrateInv, DataFits
<1>2. s \in Site
  BY MigrateAssumption
<1>3. site.requests \subseteq Request
  BY <1>1, <1>2 DEF Site
<1>4. \A r \in site.requests : r.files \subseteq Migrations
  BY <1>3 DEF Request
<1> QED BY <1>4 DEF Released

(* A run's files are released here. *)
LEMMA FilesAreReleased ==
  ASSUME MigrateInv, NEW p \in Processes
  PROVE  run[p].request.files \subseteq Released
<1>1. run[p].request \in site.requests \cup {NoRun.request}
  BY DEF MigrateInv, RunsFit, RunFits
<1>2. NoRun.request.files = {}
  BY DEF NoRun
<1> QED BY <1>1, <1>2 DEF Released

(* The names of a run's files, and those they replace, are names of the     *)
(* site.                                                                    *)
LEMMA FilesAreNames ==
  ASSUME MigrateInv, NEW p \in Processes, NEW m \in run[p].request.files
  PROVE  m \in Names /\ Replaced(m) \subseteq Names
<1>1. m \in Released
  BY FilesAreReleased
<1> QED BY <1>1 DEF Names

(* Only the number of runs left of a site changes. *)
LEMMA SiteStays ==
  ASSUME MigrateInv, [Next]_vars
  PROVE  /\ site'.requests = site.requests /\ site'.dialect = site.dialect
         /\ site'.schema = site.schema
<1>1. CASE site' = site
  BY <1>1
<1>2. CASE site' # site
  <2>1. site' = [site EXCEPT !.runs = @ - 1]
    BY <1>2 DEF Next, vars, Proceed, Start, Acquire, LockTimeout, MakePlan, Refuse,
       RunOperation, Unrecord, Record, RecordSquash, NextStep, Finish, Fail, Crash, database
  <2>2. PICK s \in Sites : site = [s EXCEPT !.runs = site.runs]
    BY DEF MigrateInv, DataFits
  <2>3. s \in Site
    BY MigrateAssumption
  <2> QED BY <2>1, <2>2, <2>3 DEF Site
<1> QED BY <1>1, <1>2

(* A squash that replaces something unrecorded goes with it: it is in the   *)
(* files of the run, so the graph knows it, or it overlaps the migration    *)
(* and is in it.                                                            *)
LEMMA UnrecordKeepsWhole ==
  ASSUME SquashesAreNested, MigrateInv, recorded \subseteq Names, SquashesAreKnown,
         SquashesAreWhole, NEW p \in Processes, Unrecord(p),
         NEW s \in recorded', NEW r \in Replaced(s)
  PROVE  r \in recorded'
<1> DEFINE n == Step(p).name
           g == run[p].graph
           files == run[p].request.files
<1>1. /\ pc[p] = "running" /\ run[p].plan # <<>> /\ Step(p).backward
      /\ recorded' = recorded \ Unrecorded(g, n)
  BY DEF Unrecord
<1>2. r \in recorded
  BY <1>1 DEF SquashesAreWhole
<1>3. g.squashes \cup g.unused = Squashes(files)
  BY <1>1 DEF MigrateInv, RunsFit, RunFits
<1>4. n \in files /\ n \in Migrations /\ files \subseteq Migrations /\ Step(p) \in StepFor(run[p].request)
  BY <1>1, StepIs
<1>5. run[p].request.target.kind # "latest"
  BY <1>1, <1>4 DEF StepFor
<1>6. run[p].request \in site.requests
  BY <1>5 DEF MigrateInv, RunsFit, RunFits, NoRun, Latest
<1>7. s \in Migrations /\ s \in Names
  BY <1>1 DEF MigrateInv, DataFits
<1>8. n \notin Replaced(s)
  <2> SUFFICES ASSUME n \in Replaced(s) PROVE FALSE
    OBVIOUS
  <2>1. Replaced(s) \cap files # {}
    BY <1>4
  <2>2. s \in files
    BY <1>5, <1>6, <1>7, <2>1 DEF SquashesAreKnown
  <2>3. IsSquash(s)
    BY <1>7 DEF Replaced, IsSquash, ToSet
  <2>4. s \in g.squashes \cup g.unused
    BY <1>3, <2>2, <2>3 DEF Squashes
  <2>5. s \in Unrecorded(g, n)
    BY <2>4 DEF Unrecorded
  <2> QED BY <1>1, <2>5
<1>9. s \notin {n} \cup Replaced(n)
  BY <1>1 DEF Unrecorded
<1>10. SUFFICES ASSUME r \in Unrecorded(g, n) PROVE FALSE
  BY <1>1, <1>2
<1>11. CASE r = n
  BY <1>8, <1>11
<1>12. CASE r \in Replaced(n)
  <2>1. Replaced(s) \cap Replaced(n) # {}
    BY <1>12
  <2> HIDE DEF n
  <2>2. s = n \/ s \in Replaced(n) \/ n \in Replaced(s)
    BY <1>4, <1>7, <2>1 DEF SquashesAreNested
  <2> QED BY <2>2, <1>8, <1>9
<1>13. CASE n \in Replaced(r)
  <2> HIDE DEF n
  <2>1. Replaced(r) \subseteq Replaced(s)
    BY <1>7 DEF SquashesAreNested
  <2> QED BY <2>1, <1>8, <1>13
<1> QED BY <1>10, <1>11, <1>12, <1>13 DEF Unrecorded

(* A squash is recorded with all it replaces, and so with all that a squash *)
(* in it replaces.                                                          *)
LEMMA RecordKeepsWhole ==
  ASSUME SquashesAreNested, MigrateInv, recorded \subseteq Names,
         SquashesAreWhole, NEW p \in Processes, Record(p)
  PROVE  SquashesAreWhole'
<1> DEFINE n == Step(p).name
<1>1. /\ pc[p] = "running" /\ run[p].plan # <<>>
      /\ recorded' = recorded \cup (NewlyRecorded(n) \ run[p].recorded)
  BY DEF Record
<1>2. run[p].recorded = recorded
  BY <1>1 DEF MigrateInv, LockInv, PlanIsCurrent
<1>3. n \in Migrations
  BY <1>1, StepIs
<1> HIDE DEF n
<1>4. recorded' = recorded \cup {n} \cup Replaced(n)
  BY <1>1, <1>2 DEF NewlyRecorded
<1>5. \A r \in Replaced(n) : Replaced(r) \subseteq Replaced(n)
  BY <1>3 DEF SquashesAreNested
<1> QED BY <1>4, <1>5 DEF SquashesAreWhole

(* A squash is completed when all it replaces is recorded. *)
LEMMA RecordSquashKeepsWhole ==
  ASSUME MigrateInv, SquashesAreWhole, NEW p \in Processes, RecordSquash(p)
  PROVE  SquashesAreWhole'
<1> DEFINE completed == Completed(run[p].rest, Step(p).name, run[p].recorded)
           s == Min(completed)
<1>1. pc[p] = "squashing" /\ completed # {} /\ recorded' = recorded \cup {s}
  BY DEF RecordSquash
<1>2. s \in completed
  BY <1>1, CompletedIsFound
<1>3. Replaced(s) \subseteq run[p].recorded
  <2> HIDE DEF s
  <2> QED BY <1>2 DEF Completed
<1>4. run[p].recorded = recorded
  BY <1>1 DEF MigrateInv, LockInv, PlanIsCurrent
<1> HIDE DEF s
<1> QED BY <1>1, <1>3, <1>4 DEF SquashesAreWhole

(* Nothing else is recorded than names of the site. *)
LEMMA RecordedAreNames ==
  ASSUME MigrateInv, recorded \subseteq Names, [Next]_vars
  PROVE  recorded' \subseteq Names
<1>1. CASE recorded' = recorded
  BY <1>1
<1>2. ASSUME NEW p \in Processes, Unrecord(p) PROVE recorded' \subseteq Names
  BY <1>2 DEF Unrecord
<1>3. ASSUME NEW p \in Processes, Record(p) PROVE recorded' \subseteq Names
  <2> DEFINE n == Step(p).name
  <2>1. recorded' \subseteq recorded \cup {n} \cup Replaced(n) /\ run[p].plan # <<>>
    BY <1>3 DEF Record, NewlyRecorded
  <2>2. n \in run[p].request.files
    BY <2>1, StepIs
  <2>3. n \in Names /\ Replaced(n) \subseteq Names
    BY <2>2, FilesAreNames
  <2> HIDE DEF n
  <2> QED BY <2>1, <2>3
<1>4. ASSUME NEW p \in Processes, RecordSquash(p) PROVE recorded' \subseteq Names
  <2> DEFINE s == Min(Completed(run[p].rest, Step(p).name, run[p].recorded))
  <2>1. recorded' = recorded \cup {s}
    BY <1>4 DEF RecordSquash
  <2>2. s \in run[p].rest
    BY <1>4, CompletedIsFound DEF RecordSquash, Completed
  <2>3. s \in run[p].request.files
    BY <2>2 DEF MigrateInv, RunsFit, RunFits
  <2>4. s \in Names
    BY <2>3, FilesAreNames
  <2> HIDE DEF s
  <2> QED BY <2>1, <2>4
<1> QED BY <1>1, <1>2, <1>3, <1>4, WhoRecords

(* Every step of the specification preserves the invariant. *)
LEMMA StepKeepsWhole ==
  ASSUME SquashesAreNested, MigrateInv, WholeInv, [Next]_vars
  PROVE  WholeInv'
<1>1. Names' = Names /\ (SquashesAreKnown' <=> SquashesAreKnown)
  <2>1. site'.requests = site.requests
    BY SiteStays
  <2>2. Released' = Released
    BY <2>1 DEF Released
  <2>3. Names' = Names
    BY <2>2 DEF Names
  <2> QED BY <2>1, <2>3 DEF SquashesAreKnown
<1>2. recorded' \subseteq Names
  BY RecordedAreNames DEF WholeInv
<1>3. ASSUME SquashesAreKnown PROVE SquashesAreWhole'
  <2>1. SquashesAreWhole /\ recorded \subseteq Names
    BY <1>3 DEF WholeInv
  <2>2. CASE recorded' = recorded
    BY <2>1, <2>2 DEF SquashesAreWhole
  <2>3. ASSUME NEW p \in Processes, Unrecord(p) PROVE SquashesAreWhole'
    BY <1>3, <2>1, <2>3, UnrecordKeepsWhole DEF SquashesAreWhole
  <2>4. ASSUME NEW p \in Processes, Record(p) PROVE SquashesAreWhole'
    BY <2>1, <2>4, RecordKeepsWhole
  <2>5. ASSUME NEW p \in Processes, RecordSquash(p) PROVE SquashesAreWhole'
    BY <2>1, <2>5, RecordSquashKeepsWhole
  <2> QED BY <2>2, <2>3, <2>4, <2>5, WhoRecords
<1> QED BY <1>1, <1>2, <1>3 DEF WholeInv

(* A recorded squash has all it replaces recorded, whatever fails, dies or  *)
(* is taken back, for all histories of nested squashes, where whoever takes *)
(* the database back has the files of the squashes (unrecord() in           *)
(* _apply_plan). Without that it is false: the run migrate_old_release      *)
(* shows it.                                                                *)
THEOREM SquashesStayWhole ==
  ASSUME SquashesAreNested
  PROVE  Spec => [](SquashesAreKnown => SquashesAreWhole)
<1>1. Init => WholeInv
  BY DEF Init, WholeInv, SquashesAreWhole
<1>2. MigrateInv /\ WholeInv /\ [Next]_vars => WholeInv'
  BY StepKeepsWhole
<1>3. WholeInv => (SquashesAreKnown => SquashesAreWhole)
  BY DEF WholeInv
<1> QED BY <1>1, <1>2, <1>3, MigrateInvariant, PTL DEF Spec

-----------------------------------------------------------------------------
(* The schema and the record. *)

(* Where schema and record follow one another: no SQLite, nobody fakes.     *)
Followed == site.dialect # "sqlite" /\ StartsClean /\ NobodyFakes

(* m changes this database in one transaction, on its own or in a squash.   *)
Transacted(m) ==
  \A s \in Released : m \in {s} \cup Replaced(s) =>
    /\ s \notin NonAtomic
    /\ site.dialect = "mysql" => ToSet(operations[s]) \subseteq Data

Follows(m) ==
  IF m \in recorded THEN ToSet(operations[m]) \subseteq schema
  ELSE ToSet(operations[m]) \cap schema = {}

Works(p) == pc[p] \in {"running", "squashing"}

(* What is left to do is of the step in progress.                           *)
TodoFits(p) ==
  IF pc[p] = "running" /\ run[p].plan # <<>> /\ ~Step(p).skip
  THEN ToSet(run[p].todo) \subseteq ToSet(operations[Step(p).name])
  ELSE run[p].todo = <<>>

(* What a step skips is recorded, and no step before takes it back.         *)
SkipsHold(p) ==
  \A i \in DOMAIN run[p].plan : run[p].plan[i].skip =>
    /\ LeavesOf(run[p].plan[i].name) \subseteq recorded
    /\ \A j \in DOMAIN run[p].plan : run[p].plan[j].backward =>
         LeavesOf(run[p].plan[j].name) \cap LeavesOf(run[p].plan[i].name) = {}

(* The transaction of p differs from the committed schema by what is done   *)
(* of the step in progress, and by nothing else.                            *)
ViewFollows(p, m) ==
  IF /\ pc[p] = "running" /\ run[p].plan # <<>> /\ ~Step(p).skip
     /\ m \in LeavesOf(Step(p).name)
  THEN IF Step(p).backward
       THEN (ToSet(operations[m]) \ ToSet(run[p].todo)) \cap view[p] = {}
       ELSE ToSet(operations[m]) \ ToSet(run[p].todo) \subseteq view[p]
  ELSE view[p] \cap ToSet(operations[m]) = schema \cap ToSet(operations[m])

SeesCommitted(p) == pc[p] = "squashing" => view[p] = schema

RunFollows(p) ==
  /\ TodoFits(p) /\ SkipsHold(p) /\ SeesCommitted(p)
  /\ \A m \in Leaves : Transacted(m) => ViewFollows(p, m)

FollowInv ==
  Followed =>
    /\ \A m \in Leaves : Transacted(m) => Follows(m)
    /\ \A p \in Processes : Works(p) => RunFollows(p)

(* Nobody fakes: no request does. *)
LEMMA NoFake ==
  ASSUME MigrateInv, Followed, NEW p \in Processes
  PROVE  run[p].request.fake = FALSE /\ run[p].request.fakeInitial = FALSE
<1>1. run[p].request \in site.requests \cup {NoRun.request}
  BY DEF MigrateInv, RunsFit, RunFits
<1>2. NoRun.request.fake = FALSE /\ NoRun.request.fakeInitial = FALSE
  BY DEF NoRun
<1>3. run[p].request \in Request
  BY RequestsAreTyped DEF MigrateInv
<1> QED BY <1>1, <1>2, <1>3 DEF Followed, NobodyFakes, Request

(* A sequence and its reverse hold the same. *)
LEMMA ToSetOfReverse ==
  ASSUME NEW S, NEW s \in Seq(S)
  PROVE  ToSet(Reverse(s)) = ToSet(s)
<1>1. Len(s) \in Nat /\ DOMAIN s = 1 .. Len(s)
  OBVIOUS
<1>2. DOMAIN Reverse(s) = 1 .. Len(s)
      /\ \A i \in 1 .. Len(s) : Reverse(s)[i] = s[(Len(s) - i) + 1]
  BY DEF Reverse
<1>3. ASSUME NEW i \in 1 .. Len(s)
      PROVE  /\ Reverse(s)[i] \in ToSet(s)
             /\ s[i] \in ToSet(Reverse(s))
  <2> DEFINE j == (Len(s) - i) + 1
  <2>1. j \in 1 .. Len(s) /\ (Len(s) - j) + 1 = i
    BY <1>1
  <2>2. Reverse(s)[i] = s[j] /\ Reverse(s)[j] = s[i]
    <3> HIDE DEF j
    <3>1. Reverse(s)[j] = s[(Len(s) - j) + 1]
      BY <1>2, <2>1
    <3>2. Reverse(s)[i] = s[j]
      BY <1>2 DEF j
    <3> QED BY <3>1, <3>2, <2>1
  <2> HIDE DEF j
  <2> QED BY <1>1, <1>2, <2>1, <2>2 DEF ToSet
<1> QED BY <1>1, <1>2, <1>3 DEF ToSet

(* Where only p moves, and the database only if p holds the lock.           *)
LEMMA FollowStep ==
  ASSUME MigrateInv, FollowInv, Followed, [Next]_vars, NEW p \in Processes,
         \A q \in Processes \ {p} :
           run'[q] = run[q] /\ pc'[q] = pc[q] /\ view'[q] = view[q],
         (recorded' = recorded /\ schema' = schema) \/ p \in holders,
         \A m \in Leaves : Transacted(m) => Follows(m)',
         Works(p)' => RunFollows(p)'
  PROVE  FollowInv'
<1>1. \A m : Transacted(m)' <=> Transacted(m)
  BY SiteStays DEF Transacted, Released
<1>2. ASSUME NEW q \in Processes, Works(q)' PROVE RunFollows(q)'
  <2>1. CASE q = p
    BY <1>2, <2>1
  <2>2. CASE q # p
    <3>1. run'[q] = run[q] /\ pc'[q] = pc[q] /\ view'[q] = view[q]
      BY <2>2
    <3>2. Works(q)
      BY <1>2, <3>1 DEF Works
    <3>3. recorded' = recorded /\ schema' = schema
      BY <2>2, <3>2 DEF Works, MigrateInv, LockInv, OneAtATime
    <3>4. RunFollows(q)
      BY <3>2 DEF FollowInv
    <3>5. TodoFits(q)'
      BY <3>1, <3>4 DEF RunFollows, TodoFits, Step
    <3>6. SkipsHold(q)'
      BY <3>1, <3>3, <3>4 DEF RunFollows, SkipsHold
    <3>7. ASSUME NEW m \in Leaves, Transacted(m)' PROVE ViewFollows(q, m)'
      <4>1. ViewFollows(q, m)
        BY <1>1, <3>4, <3>7 DEF RunFollows
      <4> QED BY <3>1, <3>3, <4>1 DEF ViewFollows, Step
    <3>8. SeesCommitted(q)'
      BY <3>1, <3>3, <3>4 DEF RunFollows, SeesCommitted
    <3> QED BY <3>5, <3>6, <3>7, <3>8 DEF RunFollows
  <2> QED BY <2>1, <2>2
<1>3. \A m \in Leaves : Transacted(m)' => Follows(m)'
  BY <1>1
<1> QED BY <1>2, <1>3 DEF FollowInv

(* p begins a step, or has none left, in a transaction that sees what is    *)
(* committed.                                                               *)
LEMMA FreshStep ==
  ASSUME SquashesHoldTheirLeaves, NEW p \in Processes, NEW request \in Request,
         NEW plan \in Seq(StepFor(request)),
         run'[p].plan = plan, pc'[p] = "running",
         run'[p].todo = IF plan = <<>> THEN <<>> ELSE Body(plan[1], FALSE),
         view'[p] = schema'
  PROVE  TodoFits(p)' /\ \A m \in Leaves : ViewFollows(p, m)'
<1>1. CASE plan = <<>>
  BY <1>1 DEF TodoFits, ViewFollows
<1>2. CASE plan # <<>>
  <2> DEFINE step == plan[1]
             n == step.name
  <2>1. Step(p)' = step
    BY <1>2 DEF Step
  <2>2. step \in StepFor(request)
    BY <1>2
  <2>3. n \in Migrations
    BY <2>2 DEF StepFor, Request
  <2>4. operations[n] \in Seq(Operations)
    BY <2>3, MigrateAssumption
  <2> HIDE DEF n
  <2>5. ToSet(Reverse(operations[n])) = ToSet(operations[n])
    BY <2>4, ToSetOfReverse
  <2>6. run'[p].todo = Body(step, FALSE)
    BY <1>2
  <2> HIDE DEF step
  <2>7. IF step.skip THEN run'[p].todo = <<>>
        ELSE ToSet(run'[p].todo) = ToSet(operations[n])
    BY <2>5, <2>6 DEF Body, n
  <2>8. TodoFits(p)'
    BY <1>2, <2>1, <2>7 DEF TodoFits, n
  <2>9. ASSUME NEW m \in Leaves PROVE ViewFollows(p, m)'
    <3>1. CASE ~step.skip /\ m \in LeavesOf(n)
      <4>1. ToSet(operations[m]) \subseteq ToSet(run'[p].todo)
        BY <2>3, <2>7, <3>1 DEF SquashesHoldTheirLeaves
      <4> QED BY <2>1, <3>1, <4>1 DEF ViewFollows
    <3>2. CASE step.skip \/ m \notin LeavesOf(n)
      BY <2>1, <3>2 DEF ViewFollows, n
    <3> QED BY <3>1, <3>2
  <2> QED BY <2>8, <2>9
<1> QED BY <1>1, <1>2

(* The steps left are those of the plan, one position later. *)
LEMMA StepsLeft ==
  ASSUME NEW S, NEW plan \in Seq(S), plan # <<>>, NEW i \in DOMAIN Tail(plan)
  PROVE  i + 1 \in DOMAIN plan /\ Tail(plan)[i] = plan[i + 1]
OBVIOUS

(* A squash that is a node is in use. *)
LEMMA NodesAreInUse ==
  ASSUME NEW files \in SUBSET Migrations, NEW rec, NEW g, g = Graph(files, rec),
         NEW n \in g.nodes, IsSquash(n)
  PROVE  n \in g.squashes
BY DEF Graph, UnusedSquashes, Squashes

(* The names of the backward and of the skipped steps of a plan. *)
LEMMA StepKinds ==
  ASSUME NEW g, NEW A, NEW B, NEW adopt, NEW s \in Steps(g, A, B, adopt)
  PROVE  /\ s.backward => s.name \in A
         /\ s.skip => s.name \in SkippedOf(g, B, adopt)
<1>1. CASE s \in BackwardIn(A)
  <2>1. PICK m \in A : s = BackwardStep(m)
    BY <1>1 DEF BackwardIn
  <2>2. s.name = m /\ ~s.skip
    BY <2>1 DEF BackwardStep
  <2> QED BY <2>2
<1>2. CASE s \in SkippedIn(SkippedOf(g, B, adopt))
  <2>1. PICK m \in SkippedOf(g, B, adopt) : s = ForwardStep(m, TRUE)
    BY <1>2 DEF SkippedIn
  <2>2. s.name = m /\ ~s.backward
    BY <2>1 DEF ForwardStep
  <2> QED BY <2>2
<1>3. CASE s \in RunIn(g.files)
  <2>1. PICK m \in g.files : s = ForwardStep(m, FALSE)
    BY <1>3 DEF RunIn
  <2>2. ~s.skip /\ ~s.backward
    BY <2>1 DEF ForwardStep
  <2> QED BY <2>2
<1> QED BY <1>1, <1>2, <1>3 DEF Steps

(* What a plan skips is recorded, and what it unapplies is something else.  *)
LEMMA PlanSkips ==
  ASSUME SquashesAreNested, NEW request \in Request, NEW rec,
         NEW g, g = Graph(request.files, rec),
         Accepted(request, g), ~request.fakeInitial,
         NEW plan, plan = PlanOf(request, g),
         NEW i \in DOMAIN plan, plan[i].skip
  PROVE  /\ LeavesOf(plan[i].name) \subseteq rec
         /\ \A j \in DOMAIN plan : plan[j].backward =>
              LeavesOf(plan[j].name) \cap LeavesOf(plan[i].name) = {}
<1> DEFINE n == plan[i].name
           files == request.files
<1>1. files \in SUBSET Migrations
  BY DEF Request
<1>2. /\ g.recorded = rec /\ g.squashes \cup g.unused = Squashes(files)
      /\ g.nodes \subseteq files /\ g.files = files
  <2>1. g = Graph(files, rec)
    OBVIOUS
  <2> HIDE DEF files
  <2> QED BY <1>1, <2>1, GraphFits, SMTT(30)
<1>3. PICK A, B : PlanIsOf(g, plan, A, B, Adopted(request))
  BY AcceptedPlan
<1>4. Adopted(request) = {}
  BY DEF Adopted
<1>5. plan \in Seq(Steps(g, A, B, {})) /\ A \cap B = {} /\ B \subseteq g.nodes
      /\ (B = {} \/ A \subseteq g.nodes)
  BY <1>3, <1>4 DEF PlanIsOf
<1>6. n \in SkippedOf(g, B, {})
  <2>1. plan[i] \in Steps(g, A, B, {})
    BY <1>5
  <2> QED BY <2>1, StepKinds
<1>7. n \in B /\ n \in g.squashes /\ Replaced(n) \subseteq rec
  <2> HIDE DEF n
  <2> QED BY <1>2, <1>6 DEF SkippedOf
<1>8. IsSquash(n) /\ n \in Migrations /\ n \in g.nodes
  BY <1>1, <1>2, <1>5, <1>7 DEF Squashes
<1>9. ASSUME NEW j \in DOMAIN plan, plan[j].backward,
             NEW l \in LeavesOf(plan[j].name) \cap LeavesOf(n)
      PROVE  FALSE
  <2> DEFINE k == plan[j].name
  <2>1. plan[j] \in Steps(g, A, B, {})
    BY <1>5
  <2>2. k \in A
    BY <1>9, <2>1, StepKinds
  <2>3. k \in g.nodes /\ k # n /\ k \in Migrations
    BY <1>1, <1>2, <1>5, <1>7, <2>2
  <2>4. l \in Replaced(n)
    BY <1>8, <1>9 DEF LeavesOf
  <2>5. NoneReplacesItself
    BY DEF SquashesAreNested, NoneReplacesItself
  <2> HIDE DEF n, k, files
  <2>6. k \notin Replaced(n)
    BY <1>1, <1>7, <1>8, <2>3, <2>5, NodesAreApart DEF files
  <2>7. l \in Replaced(k) /\ IsSquash(k)
    BY <1>9, <2>4, <2>6 DEF LeavesOf, k
  <2>8. k \in g.squashes
    BY <1>1, <2>3, <2>7, NodesAreInUse DEF files
  <2>9. n \notin Replaced(k)
    BY <1>1, <1>8, <2>3, <2>5, <2>8, NodesAreApart DEF files
  <2> QED BY <1>8, <2>3, <2>4, <2>6, <2>7, <2>9 DEF SquashesAreNested
<1> QED BY <1>7, <1>8, <1>9 DEF LeavesOf

(* What is asked of the site stays true. *)
LEMMA FollowedStays ==
  ASSUME MigrateInv, [Next]_vars
  PROVE  Followed' <=> Followed
BY SiteStays DEF Followed, StartsClean, NobodyFakes

(* What a name stands for, recorded or unrecorded, of the leaves.           *)
LEMMA LeavesAre ==
  ASSUME NEW m \in Leaves, NEW n
  PROVE  m \in LeavesOf(n) <=> m = n \/ m \in Replaced(n)
<1>1. ~IsSquash(n) => Replaced(n) = {}
  BY DEF IsSquash, Replaced, ToSet
<1>2. ~IsSquash(m)
  BY DEF Leaves
<1> QED BY <1>1, <1>2 DEF LeavesOf

(* Where nothing is committed and p is not at work afterwards.              *)
LEMMA IdleFollows ==
  ASSUME MigrateInv, FollowInv, Followed, [Next]_vars, NEW p \in Processes,
         NEW r, NEW v, NEW l \in PC \ {"running", "squashing"},
         run' = [run EXCEPT ![p] = r], pc' = [pc EXCEPT ![p] = l],
         view' = [view EXCEPT ![p] = v],
         recorded' = recorded, schema' = schema
  PROVE  FollowInv'
<1>1. \A q \in Processes \ {p} :
        run'[q] = run[q] /\ pc'[q] = pc[q] /\ view'[q] = view[q]
  BY DEF MigrateInv, RunsFit, DataFits
<1>2. ~Works(p)'
  BY DEF MigrateInv, RunsFit, Works
<1>3. \A m \in Leaves : Transacted(m) => Follows(m)'
  BY DEF FollowInv, Follows
<1> QED BY <1>1, <1>2, <1>3, FollowStep

(* A run that ends commits nothing. *)
LEMMA EndFollows ==
  ASSUME MigrateInv, FollowInv, Followed, [Next]_vars, NEW p \in Processes,
         NEW outcome, End(p, outcome), recorded' = recorded, schema' = schema
  PROVE  FollowInv'
<1> DEFINE r == [NoRun EXCEPT !.request = run[p].request, !.outcome = outcome]
<1>1. /\ run' = [run EXCEPT ![p] = r] /\ pc' = [pc EXCEPT ![p] = "idle"]
      /\ view' = [view EXCEPT ![p] = {}]
      /\ "idle" \in PC \ {"running", "squashing"}
  BY DEF End, Goto, PC
<1> HIDE DEF r
<1> QED BY <1>1, IdleFollows

(* A run that starts commits nothing. *)
LEMMA StartFollows ==
  ASSUME MigrateInv, FollowInv, Followed, [Next]_vars, NEW p \in Processes,
         NEW request, Start(p, request)
  PROVE  FollowInv'
<1> DEFINE r == [NoRun EXCEPT !.request = request]
<1>1. /\ run' = [run EXCEPT ![p] = r] /\ pc' = [pc EXCEPT ![p] = "waiting"]
      /\ view' = [view EXCEPT ![p] = view[p]]
      /\ "waiting" \in PC \ {"running", "squashing"}
      /\ recorded' = recorded /\ schema' = schema
  BY DEF Start, Goto, PC, MigrateInv, DataFits, database
<1> HIDE DEF r
<1> QED BY <1>1, IdleFollows

(* The lock commits nothing. *)
LEMMA AcquireFollows ==
  ASSUME MigrateInv, FollowInv, Followed, [Next]_vars, NEW p \in Processes,
         Acquire(p)
  PROVE  FollowInv'
<1>1. run' = [run EXCEPT ![p] = run[p]]
  BY DEF Acquire, MigrateInv, LockInv, RunsAreRecords
<1>2. /\ pc' = [pc EXCEPT ![p] = "locked"]
      /\ view' = [view EXCEPT ![p] = view[p]]
      /\ "locked" \in PC \ {"running", "squashing"}
      /\ recorded' = recorded /\ schema' = schema
  BY DEF Acquire, Goto, PC, MigrateInv, DataFits, database
<1> QED BY <1>1, <1>2, IdleFollows

(* A plan is made in a transaction that sees what is committed, and what it *)
(* skips is recorded.                                                       *)
LEMMA MakePlanFollows ==
  ASSUME SquashesAreNested, SquashesHoldTheirLeaves,
         MigrateInv, FollowInv, Followed, [Next]_vars, NEW p \in Processes,
         MakePlan(p)
  PROVE  FollowInv'
<1> DEFINE request == run[p].request
           g == Graph(request.files, recorded)
           plan == PlanOf(request, g)
           todo == IF plan = <<>> THEN <<>> ELSE Body(plan[1], request.fake)
           r == [run[p] EXCEPT !.graph = g, !.recorded = recorded,
                               !.plan = plan, !.todo = todo]
<1>1. /\ run' = [run EXCEPT ![p] = r] /\ pc' = [pc EXCEPT ![p] = "running"]
      /\ view' = [view EXCEPT ![p] = schema]
      /\ recorded' = recorded /\ schema' = schema
      /\ Accepted(request, g)
  BY DEF MakePlan, Goto, database
<1>2. request \in Request /\ request.fake = FALSE /\ request.fakeInitial = FALSE
  BY RequestsAreTyped, NoFake DEF MigrateInv
<1>3. plan \in Seq(StepFor(request))
  <2> HIDE DEF request, plan
  <2>1. PlanOf(request, g) \in Seq(StepFor(request))
    BY <1>1, <1>2, AcceptedPlan
  <2> QED BY <2>1 DEF plan
<1>4. \A i \in DOMAIN plan : plan[i].skip =>
        /\ LeavesOf(plan[i].name) \subseteq recorded
        /\ \A j \in DOMAIN plan : plan[j].backward =>
             LeavesOf(plan[j].name) \cap LeavesOf(plan[i].name) = {}
  <2>1. g = Graph(request.files, recorded) /\ plan = PlanOf(request, g)
    OBVIOUS
  <2> HIDE DEF request, g, plan
  <2> QED BY <1>1, <1>2, <2>1, PlanSkips
<1>5. todo = IF plan = <<>> THEN <<>> ELSE Body(plan[1], FALSE)
  BY <1>2
<1> HIDE DEF g, plan, todo
<1>6. r.plan = plan /\ r.todo = todo
  BY DEF MigrateInv, LockInv, RunsAreRecords, IsRun, RunFields
<1> HIDE DEF r, request
<1>7. /\ run'[p] = r /\ pc'[p] = "running" /\ view'[p] = schema'
      /\ \A q \in Processes \ {p} :
           run'[q] = run[q] /\ pc'[q] = pc[q] /\ view'[q] = view[q]
  BY <1>1 DEF MigrateInv, RunsFit, DataFits
<1>8. TodoFits(p)' /\ \A m \in Leaves : ViewFollows(p, m)'
  BY <1>2, <1>3, <1>5, <1>6, <1>7, FreshStep
<1>9. SkipsHold(p)'
  BY <1>1, <1>4, <1>6, <1>7 DEF SkipsHold
<1>10. RunFollows(p)'
  BY <1>7, <1>8, <1>9 DEF RunFollows, SeesCommitted
<1>11. \A m \in Leaves : Transacted(m) => Follows(m)'
  BY <1>1 DEF FollowInv, Follows
<1> QED BY <1>1, <1>7, <1>10, <1>11, FollowStep

(* A step of a transactional migration commits nothing before its record.   *)
LEMMA NothingCommits ==
  ASSUME site.dialect # "sqlite", NEW m \in Leaves, Transacted(m),
         NEW n \in Released, m \in LeavesOf(n),
         NEW o \in ToSet(operations[n]), NEW last
  PROVE  ~CommitsWith(n, o, last)
<1>1. m \in {n} \cup Replaced(n)
  BY LeavesAre
<1> QED BY <1>1 DEF Transacted, CommitsWith

(* An operation is one of the step in progress: where it commits at once    *)
(* the step is of no transactional migration, so their operations are left  *)
(* alone.                                                                   *)
LEMMA RunOperationFollows ==
  ASSUME SquashesHoldTheirLeaves,
         MigrateInv, FollowInv, Followed, [Next]_vars, NEW p \in Processes,
         RunOperation(p)
  PROVE  FollowInv'
<1> DEFINE r == [run[p] EXCEPT !.todo = Tail(run[p].todo)]
           o == Head(run[p].todo)
           step == Step(p)
           n == step.name
           after == Changed(view[p], o, step.backward)
           commits == CommitsWith(n, o, Len(run[p].todo) = 1)
<1>1. /\ pc[p] = "running" /\ run[p].todo # <<>>
      /\ run' = [run EXCEPT ![p] = r] /\ view' = [view EXCEPT ![p] = after]
      /\ schema' = IF commits THEN after ELSE schema
      /\ recorded' = recorded /\ pc' = pc
  BY DEF RunOperation
<1>2. IsRun(run[p]) /\ run[p].todo \in Seq(Operations) /\ p \in holders
  BY <1>1 DEF MigrateInv, LockInv, RunsAreRecords, OneAtATime, RunsFit, RunFits
<1>3. r.todo = Tail(run[p].todo) /\ r.plan = run[p].plan
  BY <1>2 DEF IsRun, RunFields
<1>4. RunFollows(p)
  BY <1>1 DEF FollowInv, Works
<1>5. run[p].plan # <<>> /\ ~step.skip /\ ToSet(run[p].todo) \subseteq ToSet(operations[n])
  BY <1>1, <1>4 DEF RunFollows, TodoFits
<1>6. n \in Migrations /\ n \in Released
  <2>1. n \in run[p].request.files /\ run[p].request.files \subseteq Migrations
    BY <1>5, StepIs
  <2> HIDE DEF n
  <2> QED BY <2>1, FilesAreReleased
<1>7. /\ o \in ToSet(run[p].todo)
      /\ ToSet(run[p].todo) = {o} \cup ToSet(Tail(run[p].todo))
  <2> DEFINE todo == run[p].todo
  <2>1. Len(todo) \in Nat /\ Len(todo) > 0 /\ DOMAIN todo = 1 .. Len(todo)
        /\ Head(todo) = todo[1]
    BY <1>1, <1>2
  <2>2. DOMAIN Tail(todo) = 1 .. Len(todo) - 1
        /\ \A i \in 1 .. Len(todo) - 1 : Tail(todo)[i] = todo[i + 1]
    BY <1>1, <1>2
  <2> HIDE DEF todo
  <2>3. \A i \in 1 .. Len(todo) : i = 1 \/ (i - 1 \in 1 .. Len(todo) - 1 /\ Tail(todo)[i - 1] = todo[i])
    BY <2>1, <2>2
  <2>4. \A i \in 1 .. Len(todo) - 1 : i + 1 \in 1 .. Len(todo)
    BY <2>1
  <2>5. Head(todo) \in ToSet(todo)
    BY <2>1 DEF ToSet
  <2>6. ToSet(Tail(todo)) \subseteq ToSet(todo)
    BY <2>1, <2>2, <2>4 DEF ToSet
  <2>7. ToSet(todo) \subseteq {Head(todo)} \cup ToSet(Tail(todo))
    <3>1. ASSUME NEW i \in 1 .. Len(todo)
          PROVE  todo[i] \in {Head(todo)} \cup ToSet(Tail(todo))
      <4>1. CASE i = 1
        BY <2>1, <4>1
      <4>2. CASE i # 1
        <5>1. i - 1 \in DOMAIN Tail(todo) /\ Tail(todo)[i - 1] = todo[i]
          BY <2>2, <2>3, <4>2
        <5> QED BY <5>1 DEF ToSet
      <4> QED BY <4>1, <4>2
    <3> QED BY <2>1, <3>1 DEF ToSet
  <2> QED BY <2>5, <2>6, <2>7 DEF todo
<1>8. o \in ToSet(operations[n])
  BY <1>5, <1>7
<1> HIDE DEF o, after, commits, r
<1>9. /\ run'[p] = r /\ pc'[p] = "running" /\ view'[p] = after
      /\ \A q \in Processes \ {p} :
           run'[q] = run[q] /\ pc'[q] = pc[q] /\ view'[q] = view[q]
  BY <1>1 DEF MigrateInv, RunsFit, DataFits
<1>10. Step(p)' = step
  BY <1>3, <1>9 DEF Step
<1> HIDE DEF step, n
<1>11. TodoFits(p)'
  BY <1>3, <1>5, <1>7, <1>9, <1>10 DEF TodoFits, n
<1>12. SkipsHold(p)'
  BY <1>1, <1>3, <1>4, <1>9, ZenonT(40) DEF RunFollows, SkipsHold
<1>13. ASSUME NEW m \in Leaves, Transacted(m)
       PROVE  ViewFollows(p, m)' /\ Follows(m)'
  <2>0. ViewFollows(p, m) /\ Follows(m)
    BY <1>4, <1>13 DEF RunFollows, FollowInv
  <2>1. CASE m \in LeavesOf(n)
    <3>1. ~commits
      <4>1. site.dialect # "sqlite"
        BY DEF Followed
      <4> QED BY <1>6, <1>8, <1>13, <2>1, <4>1, NothingCommits DEF commits
    <3>2. schema' = schema
      BY <1>1, <3>1
    <3>3. IF step.backward
          THEN (ToSet(operations[m]) \ ToSet(run[p].todo)) \cap view[p] = {}
          ELSE ToSet(operations[m]) \ ToSet(run[p].todo) \subseteq view[p]
      BY <1>1, <1>5, <2>0, <2>1 DEF ViewFollows, step, n
    <3>4. IF step.backward
          THEN (ToSet(operations[m]) \ ToSet(r.todo)) \cap after = {}
          ELSE ToSet(operations[m]) \ ToSet(r.todo) \subseteq after
      BY <1>3, <1>7, <3>3 DEF after, Changed
    <3>5. ViewFollows(p, m)'
      BY <1>3, <1>5, <1>9, <1>10, <2>1, <3>4 DEF ViewFollows, n
    <3> QED BY <1>1, <2>0, <3>2, <3>5 DEF Follows
  <2>2. CASE m \notin LeavesOf(n)
    <3>1. ToSet(operations[m]) \cap ToSet(operations[n]) = {}
      BY <1>6, <2>2 DEF SquashesHoldTheirLeaves
    <3>2. view[p] \cap ToSet(operations[m]) = schema \cap ToSet(operations[m])
      BY <2>0, <2>2 DEF ViewFollows, step, n
    <3>3. after \cap ToSet(operations[m]) = view[p] \cap ToSet(operations[m])
      BY <1>8, <3>1 DEF after, Changed
    <3>4. schema' \cap ToSet(operations[m]) = schema \cap ToSet(operations[m])
      BY <1>1, <3>2, <3>3
    <3>5. ViewFollows(p, m)'
      BY <1>3, <1>9, <1>10, <2>2, <3>2, <3>3, <3>4 DEF ViewFollows, n
    <3>6. Follows(m)'
      BY <1>1, <2>0, <3>4 DEF Follows
    <3> QED BY <3>5, <3>6
  <2> QED BY <2>1, <2>2
<1>14. RunFollows(p)'
  <2>1. \A m : Transacted(m)' <=> Transacted(m)
    BY SiteStays DEF Transacted, Released
  <2> QED BY <1>9, <1>11, <1>12, <1>13, <2>1 DEF RunFollows, SeesCommitted
<1> QED BY <1>2, <1>9, <1>13, <1>14, FollowStep

(* The next step begins, in a transaction that sees what is committed.      *)
LEMMA AdvanceFollows ==
  ASSUME SquashesHoldTheirLeaves,
         MigrateInv, FollowInv, Followed, [Next]_vars, NEW p \in Processes,
         NEW names, Advance(p, names), run[p].plan # <<>>, p \in holders,
         view' = view, schema' = view[p],
         \A i \in DOMAIN run[p].plan : run[p].plan[i].skip /\ i > 1 =>
           LeavesOf(run[p].plan[i].name) \subseteq recorded',
         Works(p),
         \A m \in Leaves : Transacted(m) => Follows(m)'
  PROVE  FollowInv'
<1> DEFINE left == Tail(run[p].plan)
           request == run[p].request
           todo == IF left = <<>> THEN <<>> ELSE Body(left[1], request.fake)
           r == [run[p] EXCEPT !.recorded = names, !.plan = left, !.rest = {},
                               !.todo = todo]
<1>1. /\ run' = [run EXCEPT ![p] = r] /\ pc' = [pc EXCEPT ![p] = "running"]
  BY DEF Advance, Goto
<1>2. request \in Request /\ request.fake = FALSE
  BY RequestsAreTyped, NoFake DEF MigrateInv
<1>3. run[p].plan \in Seq(StepFor(request)) /\ IsRun(run[p])
  BY DEF MigrateInv, RunsFit, RunFits, LockInv, RunsAreRecords
<1>4. left \in Seq(StepFor(request))
  <2> HIDE DEF request
  <2> QED BY <1>3, HeadTailProperties
<1>5. todo = IF left = <<>> THEN <<>> ELSE Body(left[1], FALSE)
  BY <1>2
<1>6. \A i \in DOMAIN left : /\ i + 1 \in DOMAIN run[p].plan /\ i + 1 > 1
                             /\ left[i] = run[p].plan[i + 1]
  <2>1. \A i \in DOMAIN left : i + 1 > 1
    BY <1>4
  <2> QED BY <1>3, <2>1, StepsLeft
<1> HIDE DEF left, todo
<1>7. r.plan = left /\ r.todo = todo
  BY <1>3 DEF IsRun, RunFields
<1> HIDE DEF r, request
<1>8. /\ run'[p] = r /\ pc'[p] = "running" /\ view'[p] = schema'
      /\ \A q \in Processes \ {p} :
           run'[q] = run[q] /\ pc'[q] = pc[q] /\ view'[q] = view[q]
  BY <1>1 DEF MigrateInv, RunsFit, DataFits
<1>9. TodoFits(p)' /\ \A m \in Leaves : ViewFollows(p, m)'
  BY <1>2, <1>4, <1>5, <1>7, <1>8, FreshStep
<1>10. SkipsHold(p)
  BY DEF FollowInv, RunFollows
<1>11. SkipsHold(p)'
  <2> SUFFICES ASSUME NEW i \in DOMAIN left, left[i].skip
               PROVE  /\ LeavesOf(left[i].name) \subseteq recorded'
                      /\ \A j \in DOMAIN left : left[j].backward =>
                           LeavesOf(left[j].name) \cap LeavesOf(left[i].name) = {}
    BY <1>7, <1>8 DEF SkipsHold
  <2>1. i + 1 \in DOMAIN run[p].plan /\ i + 1 > 1 /\ left[i] = run[p].plan[i + 1]
    BY <1>6
  <2>2. LeavesOf(left[i].name) \subseteq recorded'
    BY <2>1
  <2>3. ASSUME NEW j \in DOMAIN left, left[j].backward
        PROVE  LeavesOf(left[j].name) \cap LeavesOf(left[i].name) = {}
    <3>1. j + 1 \in DOMAIN run[p].plan /\ left[j] = run[p].plan[j + 1]
      BY <1>6
    <3> QED BY <1>10, <2>1, <2>3, <3>1 DEF SkipsHold
  <2> QED BY <2>2, <2>3
<1>12. RunFollows(p)'
  BY <1>8, <1>9, <1>11 DEF RunFollows, SeesCommitted
<1> QED BY <1>8, <1>12, FollowStep

(* The step has undone all the operations of the leaves that are            *)
(* unrecorded.                                                              *)
LEMMA UnrecordFollows ==
  ASSUME SquashesHoldTheirLeaves,
         MigrateInv, FollowInv, Followed, [Next]_vars, NEW p \in Processes,
         Unrecord(p)
  PROVE  FollowInv'
<1> DEFINE n == Step(p).name
           gone == Unrecorded(run[p].graph, n)
           plan == run[p].plan
<1>1. /\ pc[p] = "running" /\ run[p].plan # <<>> /\ run[p].todo = <<>>
      /\ Step(p).backward
      /\ recorded' = recorded \ gone /\ schema' = view[p] /\ view' = view
      /\ Advance(p, run[p].recorded \ gone)
  BY DEF Unrecord
<1>2. p \in holders /\ Works(p) /\ RunFollows(p)
  BY <1>1 DEF MigrateInv, LockInv, OneAtATime, Works, FollowInv
<1>3. n \in Migrations /\ Step(p) \in StepFor(run[p].request)
  BY <1>1, StepIs
<1>4. ~Step(p).skip
  BY <1>1, <1>3 DEF StepFor
<1>5. run[p].graph.squashes \cup run[p].graph.unused = Squashes(run[p].request.files)
  BY <1>1 DEF MigrateInv, RunsFit, RunFits
<1>6. ASSUME NEW m \in Leaves PROVE m \in gone <=> m \in LeavesOf(n)
  <2>1. m \notin run[p].graph.squashes \cup run[p].graph.unused
    BY <1>5 DEF Leaves, Squashes
  <2> QED BY <2>1, LeavesAre DEF Unrecorded
<1> HIDE DEF gone
<1>7. ASSUME NEW m \in Leaves, Transacted(m) PROVE Follows(m)'
  <2>1. ViewFollows(p, m) /\ Follows(m)
    BY <1>2, <1>7 DEF RunFollows, FollowInv
  <2>2. CASE m \in LeavesOf(n)
    <3>1. ToSet(run[p].todo) = {}
      BY <1>1 DEF ToSet
    <3>2. ToSet(operations[m]) \cap view[p] = {}
      BY <1>1, <1>4, <2>1, <2>2, <3>1 DEF ViewFollows
    <3> QED BY <1>1, <1>6, <2>2, <3>2 DEF Follows
  <2>3. CASE m \notin LeavesOf(n)
    <3>1. view[p] \cap ToSet(operations[m]) = schema \cap ToSet(operations[m])
      BY <2>1, <2>3 DEF ViewFollows
    <3>2. m \in recorded' <=> m \in recorded
      BY <1>1, <1>6, <2>3
    <3> QED BY <1>1, <2>1, <3>1, <3>2 DEF Follows
  <2> QED BY <2>2, <2>3
<1>8. ASSUME NEW i \in DOMAIN plan, plan[i].skip, i > 1
      PROVE  LeavesOf(plan[i].name) \subseteq recorded'
  <2>1. plan \in Seq(StepFor(run[p].request))
    BY DEF MigrateInv, RunsFit, RunFits
  <2>2. 1 \in DOMAIN plan /\ plan[1] = Step(p)
    BY <1>1, <2>1 DEF Step
  <2>3. /\ LeavesOf(plan[i].name) \subseteq recorded
        /\ LeavesOf(n) \cap LeavesOf(plan[i].name) = {}
    BY <1>1, <1>2, <1>8, <2>2, ZenonT(40) DEF RunFollows, SkipsHold
  <2>4. ASSUME NEW l \in LeavesOf(plan[i].name) PROVE l \in Leaves
    <3>1. plan[i].name \in Migrations
      <4>1. plan[i] \in StepFor(run[p].request)
        BY <2>1
      <4>2. run[p].request \in Request
        BY RequestsAreTyped DEF MigrateInv
      <4> QED BY <4>1, <4>2 DEF StepFor, Request
    <3> QED BY <3>1 DEF LeavesOf, Leaves
  <2> HIDE DEF n
  <2> QED BY <1>1, <1>6, <2>3, <2>4
<1> DEFINE names == run[p].recorded \ gone
<1>9. Advance(p, names)
  BY <1>1
<1> HIDE DEF names
<1> QED BY <1>1, <1>2, <1>7, <1>8, <1>9, AdvanceFollows

(* The step has done all the operations of the leaves that are recorded, or *)
(* skips them because they are recorded already.                            *)
LEMMA RecordFollows ==
  ASSUME SquashesHoldTheirLeaves,
         MigrateInv, FollowInv, Followed, [Next]_vars, NEW p \in Processes,
         Record(p)
  PROVE  FollowInv'
<1> DEFINE n == Step(p).name
           names == run[p].recorded \cup NewlyRecorded(n)
           rest == run[p].graph.unused
           r == [run[p] EXCEPT !.recorded = names, !.rest = rest]
<1>1. /\ pc[p] = "running" /\ run[p].plan # <<>> /\ run[p].todo = <<>>
      /\ ~Step(p).backward
      /\ recorded' = recorded \cup (NewlyRecorded(n) \ run[p].recorded)
      /\ schema' = view[p] /\ view' = view
      /\ run' = [run EXCEPT ![p] = r] /\ pc' = [pc EXCEPT ![p] = "squashing"]
  BY DEF Record, Goto
<1>2. p \in holders /\ Works(p) /\ RunFollows(p) /\ run[p].recorded = recorded /\ IsRun(run[p])
  BY <1>1 DEF MigrateInv, LockInv, OneAtATime, Works, FollowInv, PlanIsCurrent, RunsAreRecords
<1>3. n \in Migrations /\ run[p].plan \in Seq(StepFor(run[p].request))
  BY <1>1, StepIs DEF MigrateInv, RunsFit, RunFits
<1>4. ASSUME NEW m \in Leaves
      PROVE  m \in recorded' <=> m \in recorded \/ m \in LeavesOf(n)
  BY <1>1, <1>2, LeavesAre DEF NewlyRecorded
<1> HIDE DEF names, rest
<1>5. r.plan = run[p].plan /\ r.todo = <<>>
  BY <1>1, <1>2 DEF IsRun, RunFields
<1> HIDE DEF r
<1>6. ASSUME NEW m \in Leaves, Transacted(m) PROVE Follows(m)'
  <2>1. ViewFollows(p, m) /\ Follows(m)
    BY <1>2, <1>6 DEF RunFollows, FollowInv
  <2>2. CASE m \in LeavesOf(n) /\ ~Step(p).skip
    <3>1. ToSet(run[p].todo) = {}
      BY <1>1 DEF ToSet
    <3>2. ToSet(operations[m]) \subseteq view[p]
      BY <1>1, <2>1, <2>2, <3>1 DEF ViewFollows
    <3> QED BY <1>1, <1>4, <2>2, <3>2 DEF Follows
  <2>3. CASE m \in LeavesOf(n) /\ Step(p).skip
    <3>1. 1 \in DOMAIN run[p].plan /\ run[p].plan[1] = Step(p)
      BY <1>1, <1>3 DEF Step
    <3>2. m \in recorded
      BY <1>2, <2>3, <3>1 DEF RunFollows, SkipsHold
    <3>3. view[p] \cap ToSet(operations[m]) = schema \cap ToSet(operations[m])
      BY <2>1, <2>3 DEF ViewFollows
    <3> QED BY <1>1, <1>4, <2>1, <3>2, <3>3 DEF Follows
  <2>4. CASE m \notin LeavesOf(n)
    <3>1. view[p] \cap ToSet(operations[m]) = schema \cap ToSet(operations[m])
      BY <2>1, <2>4 DEF ViewFollows
    <3> QED BY <1>1, <1>4, <2>1, <2>4, <3>1 DEF Follows
  <2> QED BY <2>2, <2>3, <2>4
<1>7. /\ run'[p] = r /\ pc'[p] = "squashing" /\ view'[p] = schema'
      /\ \A q \in Processes \ {p} :
           run'[q] = run[q] /\ pc'[q] = pc[q] /\ view'[q] = view[q]
  BY <1>1 DEF MigrateInv, RunsFit, DataFits
<1>8. TodoFits(p)' /\ \A m \in Leaves : ViewFollows(p, m)'
  BY <1>5, <1>7 DEF TodoFits, ViewFollows
<1>9. SkipsHold(p)'
  BY <1>1, <1>2, <1>5, <1>7 DEF RunFollows, SkipsHold
<1>10. RunFollows(p)'
  BY <1>7, <1>8, <1>9 DEF RunFollows, SeesCommitted
<1> QED BY <1>2, <1>6, <1>7, <1>10, FollowStep

(* A squash is no leaf. *)
LEMMA RecordSquashFollows ==
  ASSUME MigrateInv, FollowInv, Followed, [Next]_vars, NEW p \in Processes,
         RecordSquash(p)
  PROVE  FollowInv'
<1> DEFINE squash == Min(Completed(run[p].rest, Step(p).name, run[p].recorded))
           names == run[p].recorded \cup {squash}
           rest == {s \in run[p].rest : s > squash}
           r == [run[p] EXCEPT !.recorded = names, !.rest = rest]
<1>1. /\ pc[p] = "squashing" /\ recorded' = recorded \cup {squash}
      /\ run' = [run EXCEPT ![p] = r]
      /\ UNCHANGED <<schema, holders, pc, view, site>>
  BY DEF RecordSquash
<1>2. p \in holders /\ Works(p) /\ RunFollows(p) /\ IsRun(run[p])
  BY <1>1 DEF MigrateInv, LockInv, OneAtATime, Works, FollowInv, RunsAreRecords
<1>3. squash \notin Leaves
  <2>1. squash \in Completed(run[p].rest, Step(p).name, run[p].recorded)
    BY CompletedIsFound DEF RecordSquash
  <2> HIDE DEF squash
  <2>2. Step(p).name \in Replaced(squash)
    BY <2>1 DEF Completed
  <2> QED BY <2>2 DEF Replaced, ToSet, Leaves, IsSquash
<1> HIDE DEF squash, names, rest
<1>4. r.plan = run[p].plan /\ r.todo = run[p].todo
  BY <1>2 DEF IsRun, RunFields
<1> HIDE DEF r
<1>5. /\ run'[p] = r /\ pc'[p] = "squashing" /\ view'[p] = view[p] /\ schema' = schema
      /\ \A q \in Processes \ {p} :
           run'[q] = run[q] /\ pc'[q] = pc[q] /\ view'[q] = view[q]
  BY <1>1 DEF MigrateInv, RunsFit, DataFits
<1>6. ASSUME NEW m \in Leaves, Transacted(m) PROVE Follows(m)'
  BY <1>1, <1>3, <1>6 DEF FollowInv, Follows
<1>7. TodoFits(p)' /\ \A m \in Leaves : Transacted(m) => ViewFollows(p, m)'
  BY <1>1, <1>2, <1>4, <1>5 DEF RunFollows, TodoFits, ViewFollows
<1>8. SkipsHold(p)'
  BY <1>1, <1>2, <1>4, <1>5 DEF RunFollows, SkipsHold
<1>9. RunFollows(p)'
  <2>1. \A m : Transacted(m)' <=> Transacted(m)
    BY SiteStays DEF Transacted, Released
  <2>2. SeesCommitted(p)'
    BY <1>1, <1>2, <1>5 DEF RunFollows, SeesCommitted
  <2> QED BY <1>7, <1>8, <2>1, <2>2 DEF RunFollows
<1> QED BY <1>2, <1>5, <1>6, <1>9, FollowStep

(* The next step begins in what is committed. *)
LEMMA NextStepFollows ==
  ASSUME SquashesHoldTheirLeaves,
         MigrateInv, FollowInv, Followed, [Next]_vars, NEW p \in Processes,
         NextStep(p)
  PROVE  FollowInv'
<1>1. /\ pc[p] = "squashing" /\ Advance(p, run[p].recorded)
      /\ recorded' = recorded /\ schema' = schema /\ view' = view
  BY DEF NextStep, database
<1>2. p \in holders /\ Works(p) /\ RunFollows(p)
  BY <1>1 DEF MigrateInv, LockInv, OneAtATime, Works, FollowInv
<1>3. schema' = view[p] /\ run[p].plan # <<>>
  BY <1>1, <1>2 DEF RunFollows, SeesCommitted, MigrateInv, RunsFit, RunFits
<1>4. \A i \in DOMAIN run[p].plan : run[p].plan[i].skip /\ i > 1 =>
        LeavesOf(run[p].plan[i].name) \subseteq recorded'
  BY <1>1, <1>2 DEF RunFollows, SkipsHold
<1>5. \A m \in Leaves : Transacted(m) => Follows(m)'
  BY <1>1 DEF FollowInv, Follows
<1> DEFINE names == run[p].recorded
<1>6. Advance(p, names)
  BY <1>1
<1> HIDE DEF names
<1> QED BY <1>1, <1>2, <1>3, <1>4, <1>5, <1>6, AdvanceFollows

(* Every step of the specification preserves the invariant. *)
LEMMA NextFollows ==
  ASSUME SquashesAreNested, SquashesHoldTheirLeaves, MigrateInv, FollowInv,
         [Next]_vars
  PROVE  FollowInv'
<1>1. CASE ~Followed
  BY <1>1, FollowedStays DEF FollowInv
<1>2. CASE Followed
  <2>1. CASE UNCHANGED vars
    BY <2>1, ZenonT(40) DEF vars, FollowInv, Followed, StartsClean, NobodyFakes, Transacted,
       Released, Follows, Works, RunFollows, TodoFits, SkipsHold, SeesCommitted, ViewFollows, Step
  <2>2. ASSUME NEW p \in Processes, NEW request \in site.requests, Start(p, request)
        PROVE  FollowInv'
    BY <1>2, <2>2, StartFollows
  <2>3. ASSUME NEW p \in Processes, Proceed(p)
        PROVE  FollowInv'
    <3>1. CASE Acquire(p)
      BY <1>2, <3>1, AcquireFollows
    <3>2. CASE LockTimeout(p)
      BY <1>2, <3>2, EndFollows DEF LockTimeout, database
    <3>3. CASE MakePlan(p)
      BY <1>2, <3>3, MakePlanFollows
    <3>4. CASE Refuse(p)
      BY <1>2, <3>4, EndFollows DEF Refuse, Release, database
    <3>5. CASE RunOperation(p)
      BY <1>2, <3>5, RunOperationFollows
    <3>6. CASE Unrecord(p)
      BY <1>2, <3>6, UnrecordFollows
    <3>7. CASE Record(p)
      BY <1>2, <3>7, RecordFollows
    <3>8. CASE RecordSquash(p)
      BY <1>2, <3>8, RecordSquashFollows
    <3>9. CASE NextStep(p)
      BY <1>2, <3>9, NextStepFollows
    <3>10. CASE Finish(p)
      BY <1>2, <3>10, EndFollows DEF Finish, Release, database
    <3>11. CASE Fail(p)
      BY <1>2, <3>11, EndFollows DEF Fail, Release, database
    <3> QED
      BY <2>3, <3>1, <3>2, <3>3, <3>4, <3>5, <3>6, <3>7, <3>8, <3>9, <3>10, <3>11
         DEF Proceed
  <2>4. ASSUME NEW p \in Processes, Crash(p)
        PROVE  FollowInv'
    BY <1>2, <2>4, EndFollows DEF Crash, database
  <2> QED BY <2>1, <2>2, <2>3, <2>4 DEF Next
<1> QED BY <1>1, <1>2

(* In every committed state, a migration of which all is transactional is   *)
(* recorded exactly when its operations are in effect, whatever fails or    *)
(* dies, for all histories of nested squashes, all releases and any number  *)
(* of processes (_execute: "in a savepoint inside the transaction that also *)
(* records it"). On SQLite it is false: the run migrate_sqlite shows it.    *)
THEOREM SchemaAndRecordAgree ==
  ASSUME SquashesAreNested, SquashesHoldTheirLeaves
  PROVE  Spec => [](site.dialect # "sqlite" /\ StartsClean => SchemaFollowsRecord)
<1>1. Init => FollowInv
  <2> SUFFICES ASSUME Init, Followed PROVE FollowInv
    BY DEF FollowInv
  <2>1. \A m \in Leaves : Follows(m)
    BY DEF Init, Followed, StartsClean, Follows
  <2>2. \A p \in Processes : ~Works(p)
    BY DEF Init, Works
  <2> QED BY <2>1, <2>2 DEF FollowInv
<1>2. MigrateInv /\ FollowInv /\ [Next]_vars => FollowInv'
  BY NextFollows
<1>3. MigrateInv /\ FollowInv => (site.dialect # "sqlite" /\ StartsClean => SchemaFollowsRecord)
  <2> SUFFICES ASSUME MigrateInv, FollowInv, site.dialect # "sqlite", StartsClean
               PROVE  SchemaFollowsRecord
    OBVIOUS
  <2>1. ASSUME NEW m \in Leaves, Transactional(m) PROVE Transacted(m)
    BY <2>1, ReleasedAreTyped DEF Transactional, Transacted
  <2> QED BY <2>1 DEF FollowInv, Followed, Follows, SchemaFollowsRecord
<1> QED BY <1>1, <1>2, <1>3, MigrateInvariant, PTL DEF Spec

-----------------------------------------------------------------------------
(* What a sequence holds up to a position, and after it. *)

(* What a sequence holds from one position to another.                      *)
Part(s, i, j) == {s[x] : x \in i .. j}

(* c holds, up to any position and after it, what a and then b hold.        *)
IsConcat(c, a, b) ==
  /\ Len(a) \in Nat /\ Len(b) \in Nat /\ Len(c) = Len(a) + Len(b)
  /\ Part(a, 1, Len(a)) = ToSet(a) /\ ToSet(c) = ToSet(a) \cup ToSet(b)
  /\ \A k \in 0 .. Len(a) :
       /\ Part(c, 1, k) = Part(a, 1, k)
       /\ Part(c, k + 1, Len(c)) = Part(a, k + 1, Len(a)) \cup ToSet(b)
  /\ \A k \in 0 .. Len(b) :
       /\ Part(c, 1, Len(a) + k) = ToSet(a) \cup Part(b, 1, k)
       /\ Part(c, Len(a) + k + 1, Len(c)) = Part(b, k + 1, Len(b))

(* A concatenation does.                                                    *)
LEMMA ConcatParts ==
  ASSUME NEW S, NEW a \in Seq(S), NEW b \in Seq(S)
  PROVE  IsConcat(a \o b, a, b)
<1> DEFINE c == a \o b
<1>1. /\ Len(c) = Len(a) + Len(b) /\ Len(a) \in Nat /\ Len(b) \in Nat
      /\ \A x \in 1 .. Len(a) : c[x] = a[x]
      /\ \A x \in 1 .. Len(b) : c[Len(a) + x] = b[x]
  OBVIOUS
<1>2. /\ ToSet(a) = {a[x] : x \in 1 .. Len(a)} /\ ToSet(b) = {b[x] : x \in 1 .. Len(b)}
      /\ ToSet(c) = {c[x] : x \in 1 .. Len(a) + Len(b)}
  BY DEF ToSet
<1> HIDE DEF c
<1>3. ASSUME NEW k \in 0 .. Len(a)
      PROVE  /\ Part(c, 1, k) = Part(a, 1, k)
             /\ Part(c, k + 1, Len(c)) = Part(a, k + 1, Len(a)) \cup ToSet(b)
  <2>1. \A x \in 1 .. k : c[x] = a[x]
    BY <1>1
  <2>2. Part(c, 1, k) = Part(a, 1, k)
    BY <2>1 DEF Part
  <2>3. ASSUME NEW x \in k + 1 .. Len(c)
        PROVE  c[x] \in Part(a, k + 1, Len(a)) \cup ToSet(b)
    <3>1. CASE x <= Len(a)
      <4>1. c[x] = a[x] /\ x \in k + 1 .. Len(a)
        BY <1>1, <3>1
      <4> QED BY <4>1 DEF Part
    <3>2. CASE ~(x <= Len(a))
      <4>1. x - Len(a) \in 1 .. Len(b) /\ Len(a) + (x - Len(a)) = x
        BY <1>1, <3>2
      <4>2. c[x] = b[x - Len(a)]
        BY <1>1, <4>1
      <4> QED BY <4>1, <4>2, <1>2
    <3> QED BY <3>1, <3>2
  <2>4. ASSUME NEW x \in k + 1 .. Len(a) PROVE a[x] \in Part(c, k + 1, Len(c))
    <3>1. a[x] = c[x] /\ x \in k + 1 .. Len(c)
      BY <1>1
    <3> QED BY <3>1 DEF Part
  <2>5. ASSUME NEW x \in 1 .. Len(b) PROVE b[x] \in Part(c, k + 1, Len(c))
    <3>1. b[x] = c[Len(a) + x] /\ Len(a) + x \in k + 1 .. Len(c)
      BY <1>1
    <3> QED BY <3>1 DEF Part
  <2>6. Part(c, k + 1, Len(c)) \subseteq Part(a, k + 1, Len(a)) \cup ToSet(b)
    BY <2>3 DEF Part
  <2>7. Part(a, k + 1, Len(a)) \subseteq Part(c, k + 1, Len(c))
    BY <2>4 DEF Part
  <2>8. ToSet(b) \subseteq Part(c, k + 1, Len(c))
    BY <2>5, <1>2
  <2> QED BY <2>2, <2>6, <2>7, <2>8
<1>4. ASSUME NEW k \in 0 .. Len(b)
      PROVE  /\ Part(c, 1, Len(a) + k) = ToSet(a) \cup Part(b, 1, k)
             /\ Part(c, Len(a) + k + 1, Len(c)) = Part(b, k + 1, Len(b))
  <2>1. ASSUME NEW x \in 1 .. Len(a) + k PROVE c[x] \in ToSet(a) \cup Part(b, 1, k)
    <3>1. CASE x <= Len(a)
      <4>1. c[x] = a[x] /\ x \in 1 .. Len(a)
        BY <1>1, <3>1
      <4> QED BY <4>1, <1>2
    <3>2. CASE ~(x <= Len(a))
      <4>1. x - Len(a) \in 1 .. k /\ x - Len(a) \in 1 .. Len(b) /\ Len(a) + (x - Len(a)) = x
        BY <1>1, <3>2
      <4>2. c[x] = b[x - Len(a)]
        BY <1>1, <4>1
      <4> QED BY <4>1, <4>2 DEF Part
    <3> QED BY <3>1, <3>2
  <2>2. ASSUME NEW x \in 1 .. Len(a) PROVE a[x] \in Part(c, 1, Len(a) + k)
    <3>1. a[x] = c[x] /\ x \in 1 .. Len(a) + k
      BY <1>1
    <3> QED BY <3>1 DEF Part
  <2>3. ASSUME NEW x \in 1 .. k PROVE b[x] \in Part(c, 1, Len(a) + k)
    <3>1. b[x] = c[Len(a) + x] /\ Len(a) + x \in 1 .. Len(a) + k
      BY <1>1
    <3> QED BY <3>1 DEF Part
  <2>4. ASSUME NEW x \in Len(a) + k + 1 .. Len(c) PROVE c[x] \in Part(b, k + 1, Len(b))
    <3>1. /\ x - Len(a) \in k + 1 .. Len(b) /\ x - Len(a) \in 1 .. Len(b)
          /\ Len(a) + (x - Len(a)) = x
      BY <1>1
    <3>2. c[x] = b[x - Len(a)]
      BY <1>1, <3>1
    <3> QED BY <3>1, <3>2 DEF Part
  <2>5. ASSUME NEW x \in k + 1 .. Len(b) PROVE b[x] \in Part(c, Len(a) + k + 1, Len(c))
    <3>1. b[x] = c[Len(a) + x] /\ Len(a) + x \in Len(a) + k + 1 .. Len(c)
      BY <1>1
    <3> QED BY <3>1 DEF Part
  <2>6. Part(c, 1, Len(a) + k) \subseteq ToSet(a) \cup Part(b, 1, k)
    BY <2>1 DEF Part
  <2>7. Part(b, 1, k) \subseteq Part(c, 1, Len(a) + k)
    BY <2>3 DEF Part
  <2>8. ToSet(a) \subseteq Part(c, 1, Len(a) + k)
    BY <2>2, <1>2
  <2>9. Part(c, Len(a) + k + 1, Len(c)) \subseteq Part(b, k + 1, Len(b))
    BY <2>4 DEF Part
  <2>10. Part(b, k + 1, Len(b)) \subseteq Part(c, Len(a) + k + 1, Len(c))
    BY <2>5 DEF Part
  <2> QED BY <2>6, <2>7, <2>8, <2>9, <2>10
<1>5. Part(a, 1, Len(a)) = ToSet(a)
  BY <1>2 DEF Part
<1>6. ToSet(c) = ToSet(a) \cup ToSet(b)
  <2>1. ToSet(c) = Part(c, 0 + 1, Len(c)) /\ ToSet(a) = Part(a, 0 + 1, Len(a))
    BY <1>1, <1>2 DEF Part
  <2>2. 0 \in 0 .. Len(a)
    BY <1>1
  <2> QED BY <2>1, <2>2, <1>3
<1> QED
  <2>1. IsConcat(c, a, b)
    BY <1>1, <1>3, <1>4, <1>5, <1>6 DEF IsConcat
  <2> QED BY <2>1 DEF c

(* Up to any position, t holds what the first of seqs hold, and after it    *)
(* what the others hold.                                                    *)
IsJoined(t, seqs) ==
  \A k \in 0 .. Len(t) : \E i \in 0 .. Len(seqs) :
    /\ Part(t, 1, k) = UNION {ToSet(seqs[j]) : j \in 1 .. i}
    /\ Part(t, k + 1, Len(t)) = UNION {ToSet(seqs[j]) : j \in i + 1 .. Len(seqs)}

(* FlattenSeq joins sequences of one element or none.                       *)
LEMMA FlattenParts ==
  ASSUME NEW S, NEW seqs \in Seq(Seq(S)), \A i \in DOMAIN seqs : Len(seqs[i]) <= 1,
         NEW t, t = FlattenSeq(seqs)
  PROVE  IsJoined(t, seqs)
<1> DEFINE Sum(i, j) == UNION {ToSet(seqs[x]) : x \in i .. j}
           n == Len(seqs)
           Splits(a, m) == \A k \in 0 .. Len(a) : \E i \in 0 .. m :
             Part(a, 1, k) = Sum(1, i) /\ Part(a, k + 1, Len(a)) = Sum(i + 1, m)
<1>1. n \in Nat /\ \A i \in 1 .. n : seqs[i] \in Seq(S) /\ Len(seqs[i]) \in {0, 1}
  <2>1. ASSUME NEW i \in 1 .. n PROVE seqs[i] \in Seq(S) /\ Len(seqs[i]) \in {0, 1}
    <3>1. seqs[i] \in Seq(S) /\ Len(seqs[i]) <= 1
      OBVIOUS
    <3>2. Len(seqs[i]) \in Nat
      BY <3>1
    <3>3. \A x \in Nat : x <= 1 => x \in {0, 1}
      OBVIOUS
    <3> QED BY ONLY <3>1, <3>2, <3>3
  <2> QED BY <2>1
<1>2. Sum(1, 0) = {} /\ Sum(n + 1, n) = {}
  BY <1>1
<1>3. SUFFICES Splits(t, n)
  BY DEF IsJoined
<1>4. CASE seqs = <<>>
  <2>1. t = <<>> /\ n = 0
    BY <1>4 DEF FlattenSeq
  <2>2. 0 \in 0 .. n /\ 0 .. Len(t) = {0} /\ Part(t, 1, 0) = {} /\ Part(t, 0 + 1, Len(t)) = {}
        /\ 0 + 1 = n + 1
    BY <2>1 DEF Part
  <2>3. \A k \in 0 .. Len(t) : k = 0
    BY <2>2
  <2> HIDE DEF n, Sum
  <2> QED BY <1>2, <2>1, <2>2, <2>3
<1>5. CASE seqs # <<>>
  <2>1. PICK f : SumsUp(f, seqs, S) /\ FlattenSeq(seqs) = f[n]
    BY <1>5, FlattenSums
  <2> DEFINE T == {k \in Nat : k \in 1 .. n /\ ~Splits(f[k], k)}
  <2>2. n \in 1 .. n
    BY <1>5, <1>1
  <2>3. SUFFICES ASSUME T # {} PROVE FALSE
    <3>1. T = {} => Splits(f[n], n)
      <4> HIDE DEF Splits
      <4> QED BY <1>1, <2>2
    <3> HIDE DEF T, Splits
    <3> QED BY <2>1, <3>1
  <2>4. PICK m \in T : \A y \in T : m <= y
    <3>1. T \subseteq Nat
      OBVIOUS
    <3> HIDE DEF T
    <3> QED BY <2>3, <3>1, MinOf
  <2>5. m \in 1 .. n /\ ~Splits(f[m], m) /\ m \in Nat
    <3> HIDE DEF Splits
    <3> QED BY <2>4
  <2> DEFINE b == seqs[m]
  <2>6. f[m] \in Seq(S) /\ b \in Seq(S) /\ Len(b) \in {0, 1}
    BY <1>1, <2>1, <2>5 DEF SumsUp
  <2>7. m # 1
    <3> SUFFICES ASSUME m = 1 PROVE Splits(f[m], m)
      <4> HIDE DEF Splits
      <4> QED BY <2>5
    <3>1. f[m] = b /\ m = 1
      BY <2>1, <2>5 DEF SumsUp
    <3> SUFFICES ASSUME NEW k \in 0 .. Len(b)
                 PROVE  \E i \in 0 .. m : Part(b, 1, k) = Sum(1, i) /\ Part(b, k + 1, Len(b)) = Sum(i + 1, m)
      <4> HIDE DEF b, Sum
      <4> QED BY <3>1
    <3>2. Sum(1, 1) = ToSet(b) /\ Sum(2, 1) = {}
      BY <3>1
    <3>3. Part(b, 1, Len(b)) = ToSet(b) /\ Part(b, Len(b) + 1, Len(b)) = {} /\ Part(b, 1, 0) = {}
      <4> HIDE DEF b
      <4> QED BY <2>6 DEF Part, ToSet
    <3>4. CASE k = Len(b)
      <4> HIDE DEF b, Sum
      <4>1. 1 \in 0 .. m /\ 1 + 1 = 2
        BY <3>1
      <4> QED BY <3>1, <3>2, <3>3, <3>4, <4>1
    <3>5. CASE k # Len(b)
      <4> HIDE DEF b, Sum
      <4>1. k = 0 /\ Len(b) = 1
        <5>1. k \in 0 .. Len(b)
          OBVIOUS
        <5> DEFINE x == Len(b)
        <5>2. x \in {0, 1} /\ k # x /\ k \in 0 .. x
          BY ONLY <2>6, <3>5, <5>1
        <5> HIDE DEF x
        <5>3. k = 0 /\ x = 1
          BY ONLY <5>2
        <5> QED BY <5>3 DEF x
      <4>2. 0 \in 0 .. m /\ 0 + 1 = 1
        BY <3>1
      <4> QED BY <3>1, <3>2, <3>3, <4>1, <4>2, <1>2
    <3> QED BY <3>4, <3>5
  <2> DEFINE a == f[m - 1]
  <2>8. m - 1 \in 1 .. n /\ m - 1 \in Nat /\ m - 1 < m
    BY <2>5, <2>7, <1>1
  <2>9. a \in Seq(S) /\ f[m] = a \o b
    BY <2>1, <2>5, <2>7, <2>8 DEF SumsUp
  <2>10. Splits(a, m - 1)
    <3>1. m - 1 \notin T
      <4> HIDE DEF T
      <4> QED BY <2>4, <2>8, <2>5
    <3> HIDE DEF Splits
    <3> QED BY <2>8, <3>1
  <2>11. \A i \in 0 .. m - 1 : Sum(i + 1, m) = Sum(i + 1, m - 1) \cup ToSet(b)
    <3> SUFFICES ASSUME NEW i \in 0 .. m - 1
                 PROVE  Sum(i + 1, m) = Sum(i + 1, m - 1) \cup ToSet(b)
      OBVIOUS
    <3>1. i + 1 .. m = (i + 1 .. m - 1) \cup {m}
      BY <2>5, <2>8
    <3> QED BY <3>1
  <2>12. Sum(m + 1, m) = {} /\ Sum(1, m) = Sum(1, m - 1) \cup ToSet(b)
    <3>1. m + 1 .. m = {} /\ 0 \in 0 .. m - 1 /\ 0 + 1 = 1
      BY <2>5, <2>8
    <3>2. Sum(m + 1, m) = {}
      BY <3>1
    <3> HIDE DEF Sum
    <3> QED BY <2>11, <3>1, <3>2
  <2>13. ToSet(a) = Sum(1, m - 1)
    <3>1. Len(a) \in 0 .. Len(a) /\ Part(a, 1, Len(a)) = ToSet(a) /\ Part(a, Len(a) + 1, Len(a)) = {}
      <4> HIDE DEF a
      <4> QED BY <2>9 DEF Part, ToSet
    <3>2. PICK i \in 0 .. m - 1 : ToSet(a) = Sum(1, i) /\ {} = Sum(i + 1, m - 1)
      <4> HIDE DEF a, Sum
      <4> QED BY <2>10, <3>1
    <3>3. Sum(1, m - 1) = Sum(1, i) \cup Sum(i + 1, m - 1)
      <4>1. 1 .. m - 1 = (1 .. i) \cup (i + 1 .. m - 1)
        BY <2>5, <2>8
      <4> QED BY <4>1
    <3> HIDE DEF Sum, a
    <3> QED BY <3>2, <3>3
  <2>14. ASSUME NEW k \in 0 .. Len(f[m])
         PROVE  \E i \in 0 .. m : /\ Part(f[m], 1, k) = Sum(1, i)
                                  /\ Part(f[m], k + 1, Len(f[m])) = Sum(i + 1, m)
    <3> HIDE DEF Sum
    <3>1. IsConcat(f[m], a, b)
      <4>1. a \in Seq(S) /\ b \in Seq(S) /\ f[m] = a \o b
        BY <2>6, <2>9
      <4> HIDE DEF a, b
      <4> QED BY ONLY <4>1, ConcatParts
    <3> HIDE DEF a, b
    <3> DEFINE c == f[m]
               x == Len(a)
               y == Len(b)
    <3>2. x \in Nat /\ y \in {0, 1} /\ Len(c) = x + y /\ k \in 0 .. x + y
      BY <3>1, <2>6 DEF IsConcat
    <3> HIDE DEF c, x, y
    <3>3. CASE k \in 0 .. x
      <4>1. PICK i \in 0 .. m - 1 :
              Part(a, 1, k) = Sum(1, i) /\ Part(a, k + 1, Len(a)) = Sum(i + 1, m - 1)
        BY ONLY <2>10, <3>3 DEF x
      <4>2. /\ Part(c, 1, k) = Part(a, 1, k)
            /\ Part(c, k + 1, Len(c)) = Part(a, k + 1, Len(a)) \cup ToSet(b)
        BY ONLY <3>1, <3>3 DEF c, x, IsConcat
      <4>3. i \in 0 .. m /\ Sum(i + 1, m) = Sum(i + 1, m - 1) \cup ToSet(b)
        BY <2>5, <2>11 DEF b
      <4> QED BY ONLY <4>1, <4>2, <4>3 DEF c
    <3>4. CASE k \notin 0 .. x
      <4>1. k = x + y /\ y \in 0 .. y
        BY ONLY <3>2, <3>4
      <4>2. /\ Part(c, 1, x + y) = ToSet(a) \cup Part(b, 1, y)
            /\ Part(c, x + y + 1, Len(c)) = Part(b, y + 1, Len(b))
        BY ONLY <3>1, <4>1 DEF c, x, y, IsConcat
      <4>3. Part(b, 1, y) = ToSet(b) /\ Part(b, y + 1, Len(b)) = {}
        BY <2>6 DEF Part, ToSet, y
      <4>4. m \in 0 .. m
        BY <2>5
      <4>5. Part(c, 1, k) = Sum(1, m) /\ Part(c, k + 1, Len(c)) = Sum(m + 1, m)
        BY ONLY <2>12, <2>13, <4>1, <4>2, <4>3 DEF b
      <4> QED BY ONLY <4>4, <4>5 DEF c
    <3> QED BY ONLY <3>3, <3>4
  <2> QED
    <3>1. Splits(f[m], m)
      BY <2>14
    <3> HIDE DEF Splits
    <3> QED BY <2>5, <3>1
<1> QED BY <1>4, <1>5

(* What needs says comes first.                                             *)
InOrder(s, needs) == \A i \in DOMAIN s : needs[s[i]] \subseteq Part(s, 1, i - 1)

(* _sort() lists a node after what it depends on.                           *)
LEMMA SortIsInOrder ==
  ASSUME NEW nodes, nodes \subseteq Nat, IsFiniteSet(nodes), NEW needs
  PROVE  InOrder(Sort(nodes, needs), needs)
<1> DEFINE C == Cardinality(nodes)
<1>1. PICK f : SortsUp(f, nodes, needs) /\ Sort(nodes, needs) = f[C]
  BY SortSteps
<1>2. C \in Nat
  BY FS_CardinalityType
<1> HIDE DEF C
<1>3. /\ f[0] = <<>>
      /\ \A k \in 0 .. C : f[k] \in Distinct(nodes)
      /\ \A k \in 1 .. C : f[k] = WithReady(f[k - 1], nodes, needs)
  BY <1>1 DEF SortsUp, C
<1> DEFINE T == {k \in Nat : k <= C /\ ~InOrder(f[k], needs)}
<1>4. SUFFICES ASSUME T # {} PROVE FALSE
  BY <1>1, <1>2
<1>5. PICK m \in T : \A y \in T : m <= y
  <2>1. T \subseteq Nat
    OBVIOUS
  <2> HIDE DEF T
  <2> QED BY <1>4, <2>1, MinOf
<1>6. m \in Nat /\ m <= C /\ ~InOrder(f[m], needs)
  OBVIOUS
<1>7. m # 0
  <2>1. InOrder(<<>>, needs)
    BY DEF InOrder
  <2> QED BY <2>1, <1>3, <1>6
<1> DEFINE b == f[m - 1]
           e == Min(ReadyAfter(b, nodes, needs))
<1>8. m \in 1 .. C /\ m - 1 \in 0 .. C /\ m - 1 \in Nat /\ m - 1 < m
  BY <1>2, <1>6, <1>7
<1>9. InOrder(b, needs)
  BY <1>5, <1>8, <1>2
<1>10. b \in Seq(nodes)
  BY <1>3, <1>8 DEF Distinct
<1>11. f[m] = WithReady(b, nodes, needs)
  BY <1>3, <1>8
<1> HIDE DEF b
<1>12. ReadyAfter(b, nodes, needs) # {} /\ f[m] = Append(b, e)
  <2>1. f[m] # b
    BY <1>6, <1>9
  <2> QED BY <2>1, <1>11 DEF WithReady
<1>13. e \in nodes /\ needs[e] \subseteq ToSet(b)
  <2>1. ReadyAfter(b, nodes, needs) \subseteq Nat
    BY DEF ReadyAfter
  <2>2. e \in ReadyAfter(b, nodes, needs)
    BY <1>12, <2>1, MinOf
  <2> QED BY <2>2 DEF ReadyAfter
<1> HIDE DEF e
<1> DEFINE c == Append(b, e)
           n == Len(b)
<1>14. /\ n \in Nat /\ DOMAIN b = 1 .. n /\ DOMAIN c = 1 .. n + 1
       /\ c[n + 1] = e /\ \A x \in 1 .. n : c[x] = b[x]
       /\ ToSet(b) = {b[x] : x \in 1 .. n}
  BY <1>10, <1>13 DEF ToSet
<1> HIDE DEF c, n
<1>15. InOrder(c, needs)
  <2> SUFFICES ASSUME NEW i \in 1 .. n + 1 PROVE needs[c[i]] \subseteq Part(c, 1, i - 1)
    BY <1>14 DEF InOrder
  <2>1. i \in 1 .. n \/ i = n + 1
    BY ONLY <1>14, i \in 1 .. n + 1
  <2>2. CASE i \in 1 .. n
    <3>1. needs[b[i]] \subseteq Part(b, 1, i - 1) /\ c[i] = b[i]
      BY ONLY <1>9, <1>14, <2>2 DEF InOrder
    <3>2. \A x \in 1 .. i - 1 : c[x] = b[x]
      BY ONLY <1>14, <2>2
    <3>3. Part(b, 1, i - 1) = Part(c, 1, i - 1)
      BY ONLY <3>2 DEF Part
    <3> QED BY ONLY <3>1, <3>3
  <2>3. CASE i = n + 1
    <3>1. i - 1 = n /\ c[i] = e
      BY ONLY <1>14, <2>3
    <3>2. Part(c, 1, n) = ToSet(b)
      BY ONLY <1>14 DEF Part
    <3> QED BY ONLY <1>13, <3>1, <3>2
  <2> QED BY <2>1, <2>2, <2>3
<1> QED BY <1>6, <1>12, <1>15 DEF c

-----------------------------------------------------------------------------
(* What is complete, and what a name leads to. *)

(* A set of migrations that holds, with a leaf, what the leaf depends on.   *)
Complete(S) ==
  \A m \in S \cap Leaves : \A d \in dependencies[m] : LeavesOf(d) \subseteq S

(* Who has the leaves of e in a complete set has those of d in it.          *)
Leads(e, d) ==
  \A S : Complete(S) /\ LeavesOf(e) \subseteq S => LeavesOf(d) \subseteq S

(* What a squash replaces has no leaves of its own.                         *)
LEMMA LeavesInside ==
  ASSUME SquashesAreNested, NEW s \in Migrations, NEW e \in Replaced(s)
  PROVE  IsSquash(s) /\ e \in Migrations /\ LeavesOf(e) \subseteq LeavesOf(s)
<1>1. replaces[s] \in Seq(Migrations)
  BY GraphAssumption
<1>2. e \in Migrations /\ IsSquash(s)
  BY <1>1 DEF Replaced, ToSet, IsSquash
<1>3. Replaced(e) \subseteq Replaced(s)
  BY DEF SquashesAreNested
<1> QED BY <1>2, <1>3 DEF LeavesOf, Leaves

(* The last of what a squash replaces is in it, and leads to all of it.     *)
LEMMA LastLeads ==
  ASSUME SquashesAreChains, NEW s \in Migrations, IsSquash(s)
  PROVE  Last(replaces[s]) \in Replaced(s) /\ Leads(Last(replaces[s]), s)
<1> DEFINE r == replaces[s]
           n == Len(r)
<1>1. r \in Seq(Migrations) /\ r # <<>>
  BY GraphAssumption DEF IsSquash
<1>2. n \in Nat /\ n \in 1 .. n /\ DOMAIN r = 1 .. n /\ Last(r) = r[n]
  BY <1>1 DEF Last
<1>3. Replaced(s) = {r[i] : i \in 1 .. n}
  BY <1>2 DEF Replaced, ToSet
<1> HIDE DEF n
<1>4. ASSUME NEW S, Complete(S), LeavesOf(Last(r)) \subseteq S PROVE LeavesOf(s) \subseteq S
  <2> DEFINE T == {i \in 1 .. n : r[i] \in Leaves \ S}
  <2>1. SUFFICES ASSUME T # {} PROVE FALSE
    <3>1. LeavesOf(s) = {r[i] : i \in 1 .. n} \cap Leaves
      BY <1>3 DEF LeavesOf
    <3> QED BY <3>1
  <2>2. PICK i \in T : \A j \in T : i >= j
    <3>1. T \subseteq Nat /\ T \subseteq 1 .. n
      BY <1>2
    <3>2. IsFiniteSet(T)
      <4>1. 1 \in Int /\ n \in Int
        BY <1>2
      <4>2. IsFiniteSet(1 .. n)
        BY ONLY <4>1, FS_Interval
      <4> HIDE DEF T
      <4> QED BY ONLY <3>1, <4>2, FS_Subset
    <3> HIDE DEF T
    <3> QED BY <2>1, <3>1, <3>2, MaxOf
  <2>3. i \in 1 .. n /\ r[i] \in Leaves /\ r[i] \notin S
    OBVIOUS
  <2>4. PICK j \in i + 1 .. n :
          r[j] \in Leaves /\ \E d \in dependencies[r[j]] : r[i] \in LeavesOf(d)
    <3>1. r[i] \notin LeavesOf(Last(r))
      BY <1>4, <2>3
    <3>2. i \in DOMAIN replaces[s]
      BY <1>2, <2>3
    <3> QED BY <2>3, <3>1, <3>2 DEF SquashesAreChains, n
  <2>5. j \in 1 .. n /\ j > i
    BY <1>2, <2>3
  <2>6. r[j] \in S
    BY <2>2, <2>4, <2>5, <1>2
  <2> QED BY <2>3, <2>4, <2>6, <1>4 DEF Complete
<1>5. Last(r) \in Replaced(s)
  BY <1>2, <1>3
<1> QED BY <1>4, <1>5 DEF Leads

(* What a graph remaps: an unused squash to its end, what a squash in use   *)
(* replaces to the outermost such squash, and nothing else.                 *)
RemapIsOf(g, m) ==
  LET t == g.remap[m] IN
  IF m \in g.unused THEN t = Last(replaces[m])
  ELSE /\ t \in Migrations /\ t \notin g.unused /\ g.remap[t] = t
       /\ t \in g.files => t \in g.nodes
       /\ IF \E s \in g.squashes : m \in Replaced(s)
          THEN t \in g.squashes /\ m \in Replaced(t) ELSE t = m

(* The graph does.                                                          *)
LEMMA GraphRemaps ==
  ASSUME SquashesAreNested, SquashesComeLater,
         NEW files \in SUBSET Migrations, NEW rec, NEW g, g = Graph(files, rec),
         NEW m \in Migrations
  PROVE  RemapIsOf(g, m)
<1> DEFINE use == SquashesInUse(files, rec)
           unused == UnusedSquashes(files, rec)
           In(x) == {s \in use : x \in Replaced(s)}
           by(x) == In(x) \cup ({x} \cap unused)
<1>1. /\ g.squashes = use /\ g.unused = unused /\ g.files = files
      /\ g.remap = Remap(files, rec)
      /\ g.nodes = {x \in files \ unused : g.remap[x] = x \/ g.remap[x] \notin use}
  BY DEF Graph
<1>2. \A x \in Migrations :
        g.remap[x] = IF by(x) = {} THEN x
                     ELSE IF Max(by(x)) = x THEN Last(replaces[x]) ELSE Max(by(x))
  BY <1>1 DEF Remap
<1>3. /\ use \subseteq files /\ unused \subseteq files /\ use \cap unused = {}
      /\ \A s \in use : Replaced(s) \subseteq rec \/ Replaced(s) \cap rec = {}
      /\ \A s \in unused : ~(Replaced(s) \subseteq rec) /\ Replaced(s) \cap rec # {}
  BY DEF SquashesInUse, UnusedSquashes, Squashes
<1> HIDE DEF use, unused
<1>4. ASSUME NEW x \in unused PROVE In(x) = {}
  <2> SUFFICES ASSUME NEW s \in use, x \in Replaced(s) PROVE FALSE
    OBVIOUS
  <2>1. Replaced(x) \subseteq Replaced(s)
    BY <1>3 DEF SquashesAreNested
  <2> QED BY <2>1, <1>3
<1>5. ASSUME NEW x \in Migrations, x \notin unused, In(x) = {} PROVE g.remap[x] = x
  <2>1. by(x) = {}
    BY ONLY <1>5
  <2> QED BY ONLY <1>2, <1>5, <2>1
<1>6. ASSUME NEW x \in Migrations, x \notin unused, In(x) # {}
      PROVE  g.remap[x] \in In(x) /\ In(g.remap[x]) = {}
  <2>1. by(x) = In(x)
    BY <1>6
  <2> DEFINE t == Max(In(x))
  <2>2. In(x) \subseteq Nat /\ IsFiniteSet(In(x))
    <3>1. In(x) \subseteq Migrations
      BY <1>3
    <3> HIDE DEF In
    <3> QED BY <3>1, GraphAssumption, FS_Subset
  <2>3. t \in In(x) /\ \A s \in In(x) : t >= s
    <3> HIDE DEF In
    <3> QED BY <1>6, <2>2, MaxOf
  <2> HIDE DEF t
  <2>4. t # x
    BY <2>3, <1>3 DEF SquashesAreNested
  <2>5. g.remap[x] = t
    <3> HIDE DEF by, In
    <3> QED BY <1>2, <1>6, <2>1, <2>4 DEF t
  <2>6. In(t) = {}
    <3> SUFFICES ASSUME NEW s \in use, t \in Replaced(s) PROVE FALSE
      OBVIOUS
    <3>1. t \in use /\ x \in Replaced(t) /\ s \in Migrations /\ t \in Migrations
      BY <1>3, <2>3
    <3>2. Replaced(t) \subseteq Replaced(s)
      BY <3>1 DEF SquashesAreNested
    <3>3. s \in In(x)
      BY <3>1, <3>2
    <3>4. t < s /\ t \in Nat /\ s \in Nat
      BY <3>1, GraphAssumption DEF SquashesComeLater
    <3>5. t >= s
      BY <2>3, <3>3
    <3> HIDE DEF In
    <3> QED BY ONLY <3>4, <3>5
  <2> QED BY <2>3, <2>5, <2>6
<1>7. CASE m \in unused
  <2>1. by(m) = {m}
    BY <1>4, <1>7
  <2>2. Max({m}) = m
    <3>1. {m} \subseteq Nat /\ IsFiniteSet({m})
      BY GraphAssumption, FS_Singleton
    <3> QED BY <3>1, MaxOf
  <2>3. g.remap[m] = Last(replaces[m])
    <3> HIDE DEF by
    <3> QED BY <1>2, <2>1, <2>2
  <2> QED BY <2>3, <1>1, <1>7 DEF RemapIsOf
<1>8. CASE m \notin unused
  <2> DEFINE t == g.remap[m]
  <2>1. CASE In(m) = {}
    <3>1. t = m
      BY <1>5, <1>8, <2>1
    <3>2. ~\E s \in g.squashes : m \in Replaced(s)
      BY <1>1, <2>1
    <3> HIDE DEF In
    <3>3. m \in files => m \in g.nodes
      BY <1>1, <1>8, <3>1
    <3> QED BY <1>1, <1>8, <3>1, <3>2, <3>3 DEF RemapIsOf
  <2>2. CASE In(m) # {}
    <3>1. t \in In(m) /\ In(t) = {}
      <4> HIDE DEF In
      <4> QED BY <1>6, <1>8, <2>2
    <3>2. t \in use /\ t \in Migrations /\ t \notin unused /\ m \in Replaced(t)
      BY <1>3, <3>1
    <3>3. g.remap[t] = t
      <4> HIDE DEF In, t
      <4> QED BY <1>5, <3>1, <3>2
    <3>4. \E s \in g.squashes : m \in Replaced(s)
      BY <1>1, <3>2
    <3>5. t \in files /\ t \in g.nodes
      <4> HIDE DEF t
      <4> QED BY <1>1, <1>3, <3>2, <3>3
    <3> QED BY <1>1, <1>8, <3>2, <3>3, <3>4, <3>5 DEF RemapIsOf
  <2> QED BY <2>1, <2>2
<1> QED BY <1>7, <1>8

(* Files that hold what each of them depends on, or a squash of it.         *)
AreComplete(files) ==
  \A m \in files : \A d \in dependencies[m] :
    d \in files \/ \E s \in files : d \in Replaced(s)

(* g means complete files of a well-made history to a database.             *)
IsSound(g) ==
  /\ g.files \in SUBSET Migrations /\ g = Graph(g.files, g.recorded)
  /\ ~IsBroken(g) /\ AreComplete(g.files)

(* Such a graph has its files and an order of its nodes without one twice.  *)
LEMMA SoundGraph ==
  ASSUME NEW g, IsSound(g)
  PROVE  /\ g.files \subseteq Migrations /\ g.nodes \subseteq g.files
         /\ g.squashes \cup g.unused = Squashes(g.files) /\ g.unused \subseteq g.files
         /\ g.order \in Distinct(g.nodes) /\ g.order \in Seq(g.nodes)
<1> DEFINE files == g.files
<1>1. files \in SUBSET Migrations /\ g = Graph(files, g.recorded)
  BY DEF IsSound
<1> HIDE DEF files
<1>2. /\ g.nodes \subseteq files /\ g.squashes \cup g.unused = Squashes(files)
      /\ g.unused \subseteq files /\ g.order \in Distinct(g.nodes)
  BY ONLY <1>1, GraphFits
<1>3. g.order \in Seq(g.nodes)
  BY ONLY <1>2 DEF Distinct
<1> QED BY ONLY <1>1, <1>2, <1>3 DEF files

(* resolve() goes from d to one of its ends, and on to the node of that.    *)
LEMMA ResolveGoes ==
  ASSUME HistoryIsWellMade, NEW g, IsSound(g), NEW d \in Migrations
  PROVE  \E e \in Migrations :
           /\ e = d \/ (e \in Replaced(d) /\ e \in g.files)
           /\ e \notin g.unused /\ Resolve(g, d) = g.remap[e]
           /\ d \notin g.unused => e = d
           /\ Leads(e, d)
<1> USE DEF HistoryIsWellMade
<1>1. \A m \in Migrations : RemapIsOf(g, m)
  BY GraphRemaps DEF IsSound
<1>2. g.unused \subseteq g.files /\ \A s \in g.unused : IsSquash(s) /\ Replaced(s) \subseteq g.files
  <2>1. g.squashes \cup g.unused = Squashes(g.files) /\ g.unused \subseteq g.files
    BY SoundGraph
  <2> QED BY <2>1 DEF IsSound, IsBroken, Squashes
<1>3. ASSUME NEW e \in Migrations, e \notin g.unused
      PROVE  g.remap[g.remap[e]] = g.remap[e] /\ g.remap[e] \in Migrations
  BY <1>1, <1>3 DEF RemapIsOf
<1>4. \A e \in g.unused : g.remap[e] = Last(replaces[e])
  BY <1>1, <1>2 DEF RemapIsOf, IsSound
<1>5. \A e \in g.unused : /\ e \in Migrations /\ IsSquash(e)
                          /\ Last(replaces[e]) \in Replaced(e) /\ Leads(Last(replaces[e]), e)
  BY <1>2, LastLeads DEF IsSound
<1>6. \A e \in g.unused : Last(replaces[e]) \in g.files /\ Last(replaces[e]) \in Migrations
  BY <1>2, <1>5 DEF IsSound
<1> DEFINE e1 == Last(replaces[d])
           e2 == Last(replaces[e1])
<1>7. CASE d \notin g.unused
  <2>1. Resolve(g, d) = g.remap[d]
    BY <1>3, <1>7 DEF Resolve, ResolveBy
  <2>2. Leads(d, d)
    BY DEF Leads
  <2> QED BY <1>7, <2>1, <2>2
<1>8. CASE d \in g.unused /\ e1 \notin g.unused
  <2>1. Resolve(g, d) = g.remap[e1]
    <3> HIDE DEF e1
    <3> QED BY <1>3, <1>4, <1>6, <1>8 DEF Resolve, ResolveBy, e1
  <2>2. e1 \in Replaced(d) /\ Leads(e1, d) /\ e1 \in g.files /\ e1 \in Migrations
    BY <1>5, <1>6, <1>8
  <2> HIDE DEF e1
  <2> QED BY <1>8, <2>1, <2>2
<1>9. CASE d \in g.unused /\ e1 \in g.unused
  <2>1. e1 \in Replaced(d) /\ Leads(e1, d) /\ IsSquash(e1) /\ e1 \in Migrations /\ IsSquash(d)
    BY <1>5, <1>9
  <2>2. e2 \in Replaced(e1) /\ Leads(e2, e1) /\ e2 \in g.files /\ e2 \in Migrations
    BY <1>5, <1>6, <1>9
  <2>3. ~IsSquash(e2)
    BY <2>1 DEF SquashesAreShallow
  <2>4. e2 \notin g.unused
    BY <2>3, <1>5
  <2>5. e2 \in Replaced(d)
    <3>1. Replaced(e1) \subseteq Replaced(d)
      BY <2>1 DEF SquashesAreNested
    <3> QED BY <2>2, <3>1
  <2>6. Leads(e2, d)
    BY <2>1, <2>2 DEF Leads
  <2>7. Resolve(g, d) = g.remap[e2]
    <3>1. g.remap[d] = e1 /\ g.remap[e1] = e2
      BY <1>4, <1>9
    <3> HIDE DEF e1, e2
    <3> QED BY <3>1 DEF Resolve, ResolveBy
  <2> HIDE DEF e1, e2
  <2> QED BY <1>9, <2>2, <2>4, <2>5, <2>6, <2>7
<1> QED BY <1>7, <1>8, <1>9

(* What a node depends on is another node, one that leads to it.            *)
LEMMA DependencyIsNode ==
  ASSUME HistoryIsWellMade, NEW g, IsSound(g),
         NEW n \in g.nodes, NEW d \in dependencies[n]
  PROVE  /\ Resolve(g, d) \in g.nodes \cap DependenciesBy(g.remap, n)
         /\ Leads(Resolve(g, d), d)
<1>1. /\ n \in Migrations /\ n \in g.files /\ n \notin g.unused /\ d \in Migrations
      /\ g.squashes \cup g.unused = Squashes(g.files)
  <2>1. g.squashes \cup g.unused = Squashes(g.files) /\ g.nodes \subseteq g.files \ g.unused
    BY GraphFits DEF IsSound, Graph
  <2>2. n \in Migrations
    BY <2>1 DEF IsSound
  <2> QED BY <2>1, <2>2, GraphAssumption
<1>2. PICK e \in Migrations :
        /\ e = d \/ (e \in Replaced(d) /\ e \in g.files)
        /\ e \notin g.unused /\ Resolve(g, d) = g.remap[e]
        /\ d \notin g.unused => e = d
        /\ Leads(e, d)
  BY <1>1, ResolveGoes
<1> DEFINE t == g.remap[e]
<1>3. /\ t \in Migrations /\ t \notin g.unused
      /\ t \in g.files => t \in g.nodes
      /\ IF \E s \in g.squashes : e \in Replaced(s)
         THEN t \in g.squashes /\ e \in Replaced(t) ELSE t = e
  <2>1. RemapIsOf(g, e)
    BY GraphRemaps DEF IsSound, HistoryIsWellMade
  <2> QED BY <1>2, <2>1 DEF RemapIsOf
<1> HIDE DEF t
<1>4. t \in g.files
  <2>1. CASE \E s \in g.squashes : e \in Replaced(s)
    BY <1>1, <1>3, <2>1 DEF Squashes
  <2>2. CASE ~\E s \in g.squashes : e \in Replaced(s)
    <3>1. t = e
      BY <1>3, <2>2
    <3>2. CASE e # d
      BY <1>2, <3>1, <3>2
    <3>3. CASE e = d
      <4>1. d \in g.files \/ \E s \in g.files : d \in Replaced(s)
        BY <1>1 DEF IsSound, AreComplete
      <4>2. ASSUME NEW s \in g.files, d \in Replaced(s) PROVE d \in g.files
        <5>1. IsSquash(s)
          <6>1. s \in Migrations
            BY DEF IsSound
          <6> QED BY <4>2, <6>1, GraphAssumption DEF IsSquash, Replaced, ToSet
        <5>2. s \in g.unused
          BY <1>1, <2>2, <3>3, <4>2, <5>1 DEF Squashes
        <5> QED BY <4>2, <5>2 DEF IsSound, IsBroken
      <4> QED BY <3>1, <3>3, <4>1, <4>2
    <3> QED BY <3>2, <3>3
  <2> QED BY <2>1, <2>2
<1>5. t = e \/ (e \in Replaced(t) /\ t \in Migrations)
  BY <1>3
<1>6. t # n
  <2> SUFFICES ASSUME n = e \/ e \in Replaced(n) PROVE FALSE
    BY <1>5
  <2>1. d # n /\ d \notin Replaced(n) /\ n \notin Replaced(d)
    BY <1>1 DEF HistoryIsWellMade, DependenciesAreOutside
  <2>2. e \in Replaced(n) /\ e \in Replaced(d)
    BY <1>2, <2>1
  <2> QED BY <1>1, <2>1, <2>2 DEF HistoryIsWellMade, SquashesAreNested
<1>7. LeavesOf(e) \subseteq LeavesOf(t)
  BY <1>5, LeavesInside DEF HistoryIsWellMade
<1>8. Leads(t, d)
  BY <1>2, <1>7 DEF Leads
<1>9. t = Resolve(g, d)
  BY <1>2 DEF t
<1>10. t \in DependenciesBy(g.remap, n)
  BY <1>6, <1>9 DEF DependenciesBy, Resolve
<1> QED BY <1>3, <1>4, <1>8, <1>9, <1>10

-----------------------------------------------------------------------------
(* The order of a graph is a chain. *)

(* The leaves of the first migrations of a sequence.                        *)
Below(s, n) == UNION {LeavesOf(s[i]) : i \in 1 .. n}

(* The first migrations of an order without the last one of them.           *)
LEMMA BelowGrows ==
  ASSUME NEW s, NEW n \in Nat, n # 0
  PROVE  Below(s, n) = Below(s, n - 1) \cup LeavesOf(s[n])
<1>1. 1 .. n = (1 .. n - 1) \cup {n}
  OBVIOUS
<1> QED BY <1>1 DEF Below

(* What a migration stands for are leaves.                                  *)
LEMMA LeavesAreLeaves ==
  ASSUME NEW d \in Migrations
  PROVE  LeavesOf(d) \subseteq Leaves
BY DEF LeavesOf, Leaves

(* The order of a graph is that of its nodes by their dependencies.         *)
LEMMA GraphSorts ==
  ASSUME NEW files, NEW rec, NEW g, g = Graph(files, rec)
  PROVE  g.order = Sort(g.nodes, [m \in g.nodes |-> DependenciesBy(g.remap, m) \cap g.nodes])
<1> DEFINE remap == Remap(files, rec)
           use == SquashesInUse(files, rec)
           nodes == {m \in files \ UnusedSquashes(files, rec) :
                       remap[m] = m \/ remap[m] \notin use}
           needs == [m \in nodes |-> DependenciesBy(remap, m) \cap nodes]
<1>1. g.nodes = nodes /\ g.remap = remap /\ g.order = Sort(nodes, needs)
  BY DEF Graph
<1> HIDE DEF nodes, remap
<1> QED BY <1>1

(* If what lies below a node is complete, what it depends on lies there.    *)
LEMMA DependenciesLieBelow ==
  ASSUME HistoryIsWellMade, NEW g, IsSound(g), NEW m \in 1 .. Len(g.order),
         Complete(Below(g.order, m - 1)), NEW d \in dependencies[g.order[m]]
  PROVE  LeavesOf(d) \subseteq Below(g.order, m - 1)
<1>1. /\ g.order \in Seq(g.nodes) /\ Len(g.order) \in Nat
      /\ DOMAIN g.order = 1 .. Len(g.order) /\ g.nodes \subseteq Migrations
  <2>1. g.order \in Seq(g.nodes) /\ g.nodes \subseteq Migrations
    BY SoundGraph
  <2> QED BY ONLY <2>1
<1> DEFINE order == g.order
           n == order[m]
<1>2. InOrder(order, [x \in g.nodes |-> DependenciesBy(g.remap, x) \cap g.nodes])
  <2>1. order = Sort(g.nodes, [x \in g.nodes |-> DependenciesBy(g.remap, x) \cap g.nodes])
    BY GraphSorts DEF IsSound, order
  <2>2. g.nodes \subseteq Nat /\ IsFiniteSet(g.nodes)
    BY <1>1, GraphAssumption, FS_Subset
  <2> QED BY <2>1, <2>2, SortIsInOrder
<1>3. /\ m \in 1 .. Len(order) /\ Complete(Below(order, m - 1))
      /\ DOMAIN order = 1 .. Len(order)
  BY <1>1
<1>4. n \in g.nodes /\ n \in Migrations
  BY <1>1
<1> HIDE DEF order
<1>5. d \in dependencies[n]
  BY DEF order
<1> HIDE DEF n
<1>6. /\ Resolve(g, d) \in g.nodes \cap DependenciesBy(g.remap, n)
      /\ Leads(Resolve(g, d), d)
  BY <1>4, <1>5, DependencyIsNode
<1>7. Resolve(g, d) \in Part(order, 1, m - 1)
  BY <1>2, <1>3, <1>4, <1>6 DEF InOrder, n
<1>8. LeavesOf(Resolve(g, d)) \subseteq Below(order, m - 1)
  BY <1>7 DEF Below, Part
<1> QED BY <1>3, <1>6, <1>8 DEF Leads, order

(* Up to any position of the order, nothing depends on a later one.         *)
LEMMA OrderIsLayered ==
  ASSUME HistoryIsWellMade, NEW g, IsSound(g)
  PROVE  \A i \in 0 .. Len(g.order) : Complete(Below(g.order, i))
<1> DEFINE order == g.order
           T == {i \in Nat : i <= Len(order) /\ ~Complete(Below(order, i))}
<1>1. /\ order \in Seq(g.nodes) /\ Len(order) \in Nat /\ DOMAIN order = 1 .. Len(order)
      /\ g.nodes \subseteq Migrations
  BY SoundGraph DEF Distinct
<1> HIDE DEF order
<1>3. SUFFICES ASSUME T # {} PROVE FALSE
  BY <1>1 DEF order
<1>4. PICK m \in T : \A y \in T : m <= y
  <2>1. T \subseteq Nat
    OBVIOUS
  <2> HIDE DEF T
  <2> QED BY <1>3, <2>1, MinOf
<1>5. m \in Nat /\ m <= Len(order) /\ ~Complete(Below(order, m))
  OBVIOUS
<1>6. m # 0
  <2>1. Complete(Below(order, 0))
    BY DEF Complete, Below
  <2> QED BY <1>5, <2>1
<1>7. m \in 1 .. Len(order) /\ m - 1 \in Nat /\ m - 1 < m /\ m - 1 <= Len(order)
  BY <1>1, <1>5, <1>6
<1> DEFINE n == order[m]
           B == Below(order, m - 1)
<1>8. Complete(B)
  BY <1>4, <1>7
<1>9. Below(order, m) = B \cup LeavesOf(n)
  BY <1>5, <1>6, BelowGrows
<1>10. n \in g.nodes /\ n \in Migrations
  BY <1>1, <1>7
<1> HIDE DEF n, B
<1>11. ASSUME NEW d \in dependencies[n] PROVE LeavesOf(d) \subseteq B
  <2>1. d \in dependencies[g.order[m]] /\ m \in 1 .. Len(g.order)
    BY <1>7 DEF n, order
  <2>2. Complete(Below(g.order, m - 1))
    BY <1>8 DEF B, order
  <2>3. LeavesOf(d) \subseteq Below(g.order, m - 1)
    BY <2>1, <2>2, DependenciesLieBelow
  <2> QED BY <2>3 DEF B, order
<1>12. ASSUME NEW l \in LeavesOf(n), NEW d \in dependencies[l]
       PROVE  LeavesOf(d) \subseteq B \cup LeavesOf(n)
  <2>1. CASE ~IsSquash(n)
    BY <1>11, <1>12, <2>1 DEF LeavesOf
  <2>2. CASE IsSquash(n)
    <3>1. l \in Replaced(n) \cap Leaves /\ LeavesOf(n) = Replaced(n) \cap Leaves
      BY <1>12, <2>2 DEF LeavesOf
    <3>2. d \in Migrations
      BY <3>1, GraphAssumption DEF Leaves
    <3>3. LeavesOf(d) \subseteq Replaced(n) \cup UNION {LeavesOf(e) : e \in dependencies[n]}
      BY <1>10, <3>1 DEF HistoryIsWellMade, SquashesKeepDependencies
    <3>4. UNION {LeavesOf(e) : e \in dependencies[n]} \subseteq B
      BY <1>11
    <3> QED BY <3>1, <3>2, <3>3, <3>4, LeavesAreLeaves
  <2> QED BY <2>1, <2>2
<1>13. Complete(Below(order, m))
  <2> SUFFICES ASSUME NEW l \in (B \cup LeavesOf(n)) \cap Leaves, NEW d \in dependencies[l]
               PROVE  LeavesOf(d) \subseteq B \cup LeavesOf(n)
    BY <1>9 DEF Complete
  <2> QED BY <1>8, <1>12 DEF Complete
<1> QED BY <1>5, <1>13

(* Two nodes have no leaf in common.                                        *)
LEMMA NodesShareNoLeaf ==
  ASSUME SquashesAreNested, NEW g, IsSound(g),
         NEW m \in g.nodes, NEW n \in g.nodes, m # n
  PROVE  LeavesOf(m) \cap LeavesOf(n) = {}
<1>1. \A a, b \in g.nodes : IsSquash(a) => b \notin Replaced(a)
  <2> SUFFICES ASSUME NEW a \in g.nodes, NEW b \in g.nodes, IsSquash(a)
               PROVE  b \notin Replaced(a)
    OBVIOUS
  <2>1. a \in g.squashes
    BY NodesAreInUse DEF IsSound
  <2> QED BY <2>1, NodesAreApart DEF IsSound, SquashesAreNested, NoneReplacesItself
<1>2. m \in Migrations /\ n \in Migrations
  BY SoundGraph
<1> QED BY <1>1, <1>2 DEF LeavesOf, SquashesAreNested

(* The nodes hold what the files hold.                                      *)
LEMMA OrderCovers ==
  ASSUME HistoryIsWellMade, NEW g, IsSound(g)
  PROVE  Covered(g.files) \subseteq Below(g.order, Len(g.order))
<1> SUFFICES ASSUME NEW m \in g.files, NEW l \in LeavesOf(m)
             PROVE  \E n \in g.nodes : l \in LeavesOf(n)
  <2>1. g.order \in Seq(g.nodes) /\ ToSet(g.order) = g.nodes
    BY SoundGraph DEF IsSound, IsBroken
  <2>2. \A n \in g.nodes : LeavesOf(n) \subseteq Below(g.order, Len(g.order))
    BY <2>1 DEF ToSet, Below
  <2> QED BY <2>2 DEF Covered
<1>1. m \in Migrations /\ l \in Leaves
  BY LeavesAreLeaves DEF IsSound
<1>2. g.squashes \cup g.unused = Squashes(g.files)
  BY SoundGraph
<1>3. l \in Migrations /\ l \notin g.unused
  BY <1>1, <1>2 DEF Leaves, Squashes
<1>4. RemapIsOf(g, l)
  BY <1>3, GraphRemaps DEF IsSound, HistoryIsWellMade
<1> DEFINE t == g.remap[l]
<1>5. t \in Migrations /\ (t \in g.files => t \in g.nodes)
  BY <1>3, <1>4 DEF RemapIsOf
<1>6. CASE \E s \in g.squashes : l \in Replaced(s)
  <2>1. t \in g.squashes /\ l \in Replaced(t)
    BY <1>3, <1>4, <1>6 DEF RemapIsOf
  <2>2. t \in g.nodes /\ l \in LeavesOf(t)
    BY <1>1, <1>2, <1>5, <2>1 DEF Squashes, LeavesOf
  <2> QED BY <2>2
<1>7. CASE ~\E s \in g.squashes : l \in Replaced(s)
  <2>1. t = l
    BY <1>3, <1>4, <1>7 DEF RemapIsOf
  <2>2. l \in g.files
    <3>1. CASE ~IsSquash(m)
      BY <3>1 DEF LeavesOf
    <3>2. CASE IsSquash(m)
      <4>1. l \in Replaced(m)
        BY <3>2 DEF LeavesOf
      <4>2. m \in g.unused
        BY <1>2, <1>7, <3>2, <4>1 DEF Squashes
      <4> QED BY <4>1, <4>2 DEF IsSound, IsBroken
    <3> QED BY <3>1, <3>2
  <2>3. l \in LeavesOf(l)
    BY <1>1 DEF LeavesOf, Leaves
  <2> QED BY <1>5, <2>1, <2>2, <2>3
<1> QED BY <1>6, <1>7

(* What is recorded holds what its squashes replace.                        *)
IsWhole(names) == \A s \in names : Replaced(s) \subseteq names

(* A node is applied whole or not at all.                                   *)
LEMMA NodesAreAppliedWhole ==
  ASSUME NEW g, IsSound(g), IsWhole(g.recorded), NEW n \in g.nodes
  PROVE  /\ n \in g.applied <=> IsApplied(g, n)
         /\ IF IsApplied(g, n) THEN LeavesOf(n) \subseteq g.recorded
            ELSE LeavesOf(n) \cap g.recorded = {}
<1>1. /\ g.squashes = SquashesInUse(g.files, g.recorded)
      /\ g.applied = {m \in ToSet(g.order) : AppliedWith(g.squashes, g.recorded, m)}
      /\ ToSet(g.order) = g.nodes
  BY DEF IsSound, IsBroken, Graph
<1>2. n \in g.applied <=> IsApplied(g, n)
  BY <1>1 DEF IsApplied
<1>3. IsSquash(n) => n \in g.squashes
  BY NodesAreInUse DEF IsSound
<1>4. CASE IsApplied(g, n)
  <2>1. n \in g.recorded \/ (n \in g.squashes /\ Replaced(n) \subseteq g.recorded)
    BY <1>4 DEF IsApplied, AppliedWith
  <2>2. n \in g.squashes => IsSquash(n)
    BY <1>1 DEF SquashesInUse, Squashes
  <2>3. LeavesOf(n) \subseteq g.recorded
    BY <2>1, <2>2 DEF IsWhole, LeavesOf
  <2> QED BY <1>2, <1>4, <2>3
<1>5. CASE ~IsApplied(g, n)
  <2>1. n \notin g.recorded /\ ~(n \in g.squashes /\ Replaced(n) \subseteq g.recorded)
    BY <1>5 DEF IsApplied, AppliedWith
  <2>2. n \in g.squashes => Replaced(n) \cap g.recorded = {}
    BY <1>1, <2>1 DEF SquashesInUse
  <2> QED BY <1>2, <1>3, <1>5, <2>1, <2>2 DEF LeavesOf
<1> QED BY <1>4, <1>5

-----------------------------------------------------------------------------
(* What a plan leaves applied, step by step. *)

(* The leaves that backward steps take away, and that forward steps add.    *)
BackOf(steps) == UNION {LeavesOf(x.name) : x \in {y \in steps : y.backward}}
ForthOf(steps) == UNION {LeavesOf(x.name) : x \in {y \in steps : ~y.backward}}

(* What is applied, where S is, after the first steps of a plan that goes   *)
(* back first.                                                              *)
Effect(S, steps) == (S \ BackOf(steps)) \cup ForthOf(steps)
CourseAt(S, plan, k) == Effect(S, Part(plan, 1, k))

GoesBack(plan) == \A x \in ToSet(plan) : x.backward
GoesForth(plan) == \A x \in ToSet(plan) : ~x.backward

(* A plan that goes back first and leaves a complete set after every step.  *)
OnCourse(S, plan) ==
  /\ \A k \in 1 .. Len(plan) :
       plan[k].backward => \A x \in Part(plan, 1, k) : x.backward
  /\ \A k \in 0 .. Len(plan) : Complete(CourseAt(S, plan, k))

(* What is common to two complete sets is complete, and what is in either.  *)
LEMMA CompleteSets ==
  ASSUME NEW S, Complete(S), NEW X, Complete(X)
  PROVE  Complete(S \cap X) /\ Complete(S \cup X)
BY DEF Complete

(* Every split of t is a split of s, of the elements in set.                *)
SplitsAs(t, s, set) ==
  \A k \in 0 .. Len(t) : \E i \in 0 .. Len(s) :
    /\ Part(t, 1, k) = Part(s, 1, i) \cap set
    /\ Part(t, k + 1, Len(t)) = Part(s, i + 1, Len(s)) \cap set

(* What Among keeps of a sequence, up to a position and after it.           *)
LEMMA AmongParts ==
  ASSUME NEW S, NEW s \in Seq(S), NEW set, NEW t, t = Among(s, set)
  PROVE  t \in Seq(S \cap set) /\ SplitsAs(t, s, set)
<1> DEFINE one(i) == IF s[i] \in set THEN <<s[i]>> ELSE <<>>
           seqs == [i \in DOMAIN s |-> one(i)]
<1>1. t = FlattenSeq(seqs)
  BY DEF Among
<1>2. Len(s) \in Nat /\ DOMAIN s = 1 .. Len(s) /\ \A i \in 1 .. Len(s) : s[i] \in S
  OBVIOUS
<1>3. ASSUME NEW i \in 1 .. Len(s)
      PROVE  one(i) \in Seq(S) /\ Len(one(i)) <= 1 /\ ToSet(one(i)) = {s[i]} \cap set
  <2>1. CASE s[i] \in set
    <3>1. one(i) = <<s[i]>>
      BY <2>1
    <3>2. Len(<<s[i]>>) <= 1 /\ <<s[i]>> \in Seq(S) /\ ToSet(<<s[i]>>) = {s[i]}
      BY <1>2 DEF ToSet
    <3> HIDE DEF one
    <3> QED BY <2>1, <3>1, <3>2
  <2>2. CASE s[i] \notin set
    <3>1. one(i) = <<>>
      BY <2>2
    <3>2. Len(<<>>) <= 1 /\ <<>> \in Seq(S) /\ ToSet(<<>>) = {}
      BY DEF ToSet
    <3> HIDE DEF one
    <3> QED BY <2>2, <3>1, <3>2
  <2> QED BY <2>1, <2>2
<1> HIDE DEF one
<1>4. /\ Len(seqs) = Len(s) /\ DOMAIN seqs = 1 .. Len(s) /\ seqs \in Seq(Seq(S))
      /\ \A i \in 1 .. Len(s) : seqs[i] = one(i)
  BY <1>2, <1>3
<1> HIDE DEF seqs
<1>5. \A i \in DOMAIN seqs : Len(seqs[i]) <= 1
  BY <1>3, <1>4
<1>6. \A i \in 1 .. Len(s) : ToSet(seqs[i]) = {s[i]} \cap set
  BY <1>3, <1>4
<1>7. ASSUME NEW i \in 0 .. Len(s)
      PROVE  /\ UNION {ToSet(seqs[j]) : j \in 1 .. i} = Part(s, 1, i) \cap set
             /\ UNION {ToSet(seqs[j]) : j \in i + 1 .. Len(s)} = Part(s, i + 1, Len(s)) \cap set
  <2>1. \A j \in 1 .. i : ToSet(seqs[j]) = {s[j]} \cap set
    BY <1>2, <1>6
  <2>2. \A j \in i + 1 .. Len(s) : ToSet(seqs[j]) = {s[j]} \cap set
    BY <1>2, <1>6
  <2> QED BY ONLY <2>1, <2>2 DEF Part
<1>8. \A k \in 0 .. Len(t) : \E i \in 0 .. Len(s) :
           /\ Part(t, 1, k) = UNION {ToSet(seqs[j]) : j \in 1 .. i}
           /\ Part(t, k + 1, Len(t)) = UNION {ToSet(seqs[j]) : j \in i + 1 .. Len(s)}
  <2>1. IsJoined(t, seqs)
    BY <1>1, <1>4, <1>5, FlattenParts
  <2>2. Len(seqs) = Len(s)
    BY <1>4
  <2> QED BY ONLY <2>1, <2>2 DEF IsJoined
<1>9. t \in Seq(S \cap set)
  BY AmongIn
<1>10. ASSUME NEW k \in 0 .. Len(t)
       PROVE  \E i \in 0 .. Len(s) :
                /\ Part(t, 1, k) = Part(s, 1, i) \cap set
                /\ Part(t, k + 1, Len(t)) = Part(s, i + 1, Len(s)) \cap set
  <2>1. PICK i \in 0 .. Len(s) :
           /\ Part(t, 1, k) = UNION {ToSet(seqs[j]) : j \in 1 .. i}
           /\ Part(t, k + 1, Len(t)) = UNION {ToSet(seqs[j]) : j \in i + 1 .. Len(s)}
    BY <1>8
  <2> QED BY <1>7, <2>1
<1> QED BY <1>9, <1>10 DEF SplitsAs

(* Q unapplies names, the last of them first.                               *)
TakesBack(Q, names) ==
  \A k \in 0 .. Len(Q) :
    /\ Len(names) - k \in 0 .. Len(names)
    /\ Part(Q, 1, k) =
         {BackwardStep(m) : m \in Part(names, Len(names) - k + 1, Len(names))}
    /\ Part(Q, k + 1, Len(Q)) =
         {BackwardStep(m) : m \in Part(names, 1, Len(names) - k)}

(* Backwards() does.                                                        *)
LEMMA BackwardsParts ==
  ASSUME NEW S, NEW names \in Seq(S), NEW Q, Q = Backwards(names)
  PROVE  /\ Q \in Seq(BackwardIn(S)) /\ Len(Q) = Len(names) /\ Len(names) \in Nat
         /\ GoesBack(Q) /\ TakesBack(Q, names)
<1> DEFINE n == Len(names)
<1>1. n \in Nat /\ \A i \in 1 .. n : n - i + 1 \in 1 .. n /\ names[n - i + 1] \in S
  OBVIOUS
<1>2. Q = [i \in 1 .. n |-> BackwardStep(names[n - i + 1])]
  BY DEF Backwards, Reverse
<1>3. Q \in Seq(BackwardIn(S))
  BY BackwardsIn
<1> HIDE DEF n
<1>4. Len(Q) = n /\ \A i \in 1 .. n : Q[i] = BackwardStep(names[n - i + 1])
  BY ONLY <1>1, <1>2
<1>5. ASSUME NEW k \in 0 .. n
      PROVE  Part(Q, 1, k) = {BackwardStep(m) : m \in Part(names, n - k + 1, n)}
  <2>1. ASSUME NEW i \in 1 .. k
        PROVE  \E m \in Part(names, n - k + 1, n) : Q[i] = BackwardStep(m)
    <3>1. n - i + 1 \in n - k + 1 .. n /\ i \in 1 .. n
      BY <1>1
    <3> QED BY <1>4, <3>1 DEF Part
  <2>2. ASSUME NEW j \in n - k + 1 .. n
        PROVE  BackwardStep(names[j]) \in Part(Q, 1, k)
    <3>1. n - j + 1 \in 1 .. k /\ n - j + 1 \in 1 .. n /\ n - (n - j + 1) + 1 = j
      BY <1>1
    <3>2. Q[n - j + 1] = BackwardStep(names[j])
      BY <1>4, <3>1
    <3> QED BY <3>1, <3>2 DEF Part
  <2>3. Part(Q, 1, k) \subseteq {BackwardStep(m) : m \in Part(names, n - k + 1, n)}
    BY <2>1 DEF Part
  <2>4. {BackwardStep(m) : m \in Part(names, n - k + 1, n)} \subseteq Part(Q, 1, k)
    BY <2>2 DEF Part
  <2> QED BY <2>3, <2>4
<1>8. ASSUME NEW k \in 0 .. n
      PROVE  Part(Q, k + 1, n) = {BackwardStep(m) : m \in Part(names, 1, n - k)}
  <2>1. ASSUME NEW i \in k + 1 .. n
        PROVE  \E m \in Part(names, 1, n - k) : Q[i] = BackwardStep(m)
    <3>1. n - i + 1 \in 1 .. n - k /\ i \in 1 .. n
      BY <1>1
    <3> QED BY <1>4, <3>1 DEF Part
  <2>2. ASSUME NEW j \in 1 .. n - k
        PROVE  BackwardStep(names[j]) \in Part(Q, k + 1, n)
    <3>1. n - j + 1 \in k + 1 .. n /\ n - j + 1 \in 1 .. n /\ n - (n - j + 1) + 1 = j
      BY <1>1
    <3>2. Q[n - j + 1] = BackwardStep(names[j])
      BY <1>4, <3>1
    <3> QED BY <3>1, <3>2 DEF Part
  <2>3. Part(Q, k + 1, n) \subseteq {BackwardStep(m) : m \in Part(names, 1, n - k)}
    BY <2>1 DEF Part
  <2>4. {BackwardStep(m) : m \in Part(names, 1, n - k)} \subseteq Part(Q, k + 1, n)
    BY <2>2 DEF Part
  <2> QED BY <2>3, <2>4
<1>6. \A k \in 0 .. n : n - k \in 0 .. n
  BY <1>1
<1>7. GoesBack(Q)
  <2>1. \A i \in 1 .. n : Q[i].backward
    BY <1>4 DEF BackwardStep
  <2>2. ToSet(Q) = {Q[i] : i \in 1 .. n}
    BY <1>2, <1>4 DEF ToSet
  <2> QED BY <2>1, <2>2 DEF GoesBack
<1>9. TakesBack(Q, names)
  BY <1>4, <1>5, <1>6, <1>8 DEF TakesBack, n
<1> QED BY <1>1, <1>3, <1>4, <1>7, <1>9 DEF n

(* Steps back go back first, steps forward too.                             *)
LEMMA OneWay ==
  ASSUME NEW T, NEW Q \in Seq(T), GoesBack(Q) \/ GoesForth(Q), NEW k \in 1 .. Len(Q)
  PROVE  Q[k].backward => \A x \in Part(Q, 1, k) : x.backward
<1>1. ToSet(Q) = {Q[i] : i \in 1 .. Len(Q)} /\ Len(Q) \in Nat
  BY DEF ToSet
<1>2. \A i \in 1 .. k : i \in 1 .. Len(Q)
  BY <1>1
<1> QED BY <1>1, <1>2 DEF Part, GoesBack, GoesForth

(* Every part of names up to a position is complete, with B.                *)
Chained(B, names) == \A i \in 0 .. Len(names) : Complete(B \cup Below(names, i))

(* No name has a leaf of B, or one of a name before it.                     *)
Apart(B, names) ==
  \A i \in 1 .. Len(names) : LeavesOf(names[i]) \cap (B \cup Below(names, i - 1)) = {}

(* Two parts of what names hold.                                            *)
LEMMA BelowParts ==
  ASSUME NEW M, NEW s \in Seq(M), NEW i \in 0 .. Len(s)
  PROVE  /\ Below(s, i) = UNION {LeavesOf(m) : m \in Part(s, 1, i)}
         /\ Below(s, Len(s)) = Below(s, i) \cup UNION {LeavesOf(m) : m \in Part(s, i + 1, Len(s))}
<1>1. 1 .. Len(s) = (1 .. i) \cup (i + 1 .. Len(s))
  OBVIOUS
<1> QED BY ONLY <1>1 DEF Below, Part

(* Later names are apart from earlier ones.                                 *)
LEMMA ApartParts ==
  ASSUME NEW M, NEW s \in Seq(M), NEW B, Apart(B, s), NEW i \in 0 .. Len(s)
  PROVE  (UNION {LeavesOf(m) : m \in Part(s, i + 1, Len(s))}) \cap (B \cup Below(s, i)) = {}
<1> SUFFICES ASSUME NEW j \in i + 1 .. Len(s)
             PROVE  LeavesOf(s[j]) \cap (B \cup Below(s, i)) = {}
  BY DEF Part
<1>1. j \in 1 .. Len(s) /\ \A x \in 1 .. i : x \in 1 .. j - 1
  OBVIOUS
<1>2. Below(s, i) \subseteq Below(s, j - 1)
  BY <1>1 DEF Below
<1> QED BY <1>1, <1>2 DEF Apart

(* u starts as s does, for n names.                                         *)
StartsAs(u, s, n) == Len(u) = n /\ \A i \in 0 .. n : Below(u, i) = Below(s, i)

(* What follows from the start of a chain, and what goes on from there.     *)
LEMMA ChainParts ==
  ASSUME NEW M, NEW s \in Seq(M), NEW B, Chained(B, s), Apart(B, s),
         NEW n \in 0 .. Len(s)
  PROVE  /\ Upto(s, n) \in Seq(M) /\ StartsAs(Upto(s, n), s, n)
         /\ After(s, n) \in Seq(M) /\ n + Len(After(s, n)) = Len(s)
         /\ ToSet(Upto(s, n)) \subseteq ToSet(s) /\ ToSet(After(s, n)) \subseteq ToSet(s)
         /\ Chained(B, Upto(s, n)) /\ Apart(B, Upto(s, n))
         /\ Chained(B \cup Below(s, n), After(s, n))
         /\ Apart(B \cup Below(s, n), After(s, n))
         /\ (B \cup Below(s, n)) \cup Below(After(s, n), Len(After(s, n)))
              = B \cup Below(s, Len(s))
<1> DEFINE u == Upto(s, n)
           a == After(s, n)
           l == Len(s)
<1>1. l \in Nat /\ n \in Nat /\ n <= l
  OBVIOUS
<1>2. u \in Seq(M) /\ Len(u) = n /\ \A i \in 1 .. n : u[i] = s[i]
  BY DEF Upto
<1>3. a \in Seq(M) /\ Len(a) = l - n /\ \A i \in 1 .. l - n : a[i] = s[n + i]
  BY DEF After
<1>4. ToSet(s) = {s[i] : i \in 1 .. l}
  BY DEF ToSet
<1>5. ToSet(u) = {u[i] : i \in 1 .. n} /\ ToSet(a) = {a[i] : i \in 1 .. l - n}
  <2>1. DOMAIN u = 1 .. n /\ DOMAIN a = 1 .. l - n
    <3> HIDE DEF u, a, l
    <3> QED BY <1>2, <1>3
  <2> HIDE DEF u, a, l
  <2> QED BY <2>1 DEF ToSet
<1> HIDE DEF u, a, l
<1>6. ToSet(u) \subseteq ToSet(s) /\ ToSet(a) \subseteq ToSet(s)
  <2>1. (\A i \in 1 .. n : i \in 1 .. l) /\ \A i \in 1 .. l - n : n + i \in 1 .. l
    BY <1>1
  <2> QED BY <1>2, <1>3, <1>4, <1>5, <2>1
<1>7. \A i \in 0 .. n : Below(u, i) = Below(s, i)
  <2> SUFFICES ASSUME NEW i \in 0 .. n PROVE Below(u, i) = Below(s, i)
    OBVIOUS
  <2>1. \A j \in 1 .. i : u[j] = s[j]
    BY <1>1, <1>2
  <2> QED BY <2>1 DEF Below
<1>8. \A i \in 0 .. l - n : Below(s, n) \cup Below(a, i) = Below(s, n + i)
  <2> SUFFICES ASSUME NEW i \in 0 .. l - n
               PROVE  Below(s, n) \cup Below(a, i) = Below(s, n + i)
    OBVIOUS
  <2>1. \A j \in 1 .. i : a[j] = s[n + j] /\ n + j \in 1 .. n + i
    BY <1>1, <1>3
  <2>2. \A j \in 1 .. n + i : j \in 1 .. n \/ (j - n \in 1 .. i /\ n + (j - n) = j)
    BY <1>1
  <2>3. \A j \in 1 .. n : j \in 1 .. n + i
    BY <1>1
  <2>4. Below(s, n) \cup Below(a, i) \subseteq Below(s, n + i)
    BY <2>1, <2>3 DEF Below
  <2>5. ASSUME NEW j \in 1 .. n + i
        PROVE  LeavesOf(s[j]) \subseteq Below(s, n) \cup Below(a, i)
    <3>1. CASE j \in 1 .. n
      BY <3>1 DEF Below
    <3>2. CASE j - n \in 1 .. i /\ n + (j - n) = j
      <4>1. a[j - n] = s[j]
        BY <2>1, <3>2
      <4> QED BY <3>2, <4>1 DEF Below
    <3> QED BY <2>2, <3>1, <3>2
  <2>6. Below(s, n + i) \subseteq Below(s, n) \cup Below(a, i)
    BY <2>5 DEF Below
  <2> QED BY <2>4, <2>6
<1>9. Chained(B, u)
  <2>1. \A i \in 0 .. n : i \in 0 .. l
    BY <1>1
  <2> QED BY <1>2, <1>7, <2>1 DEF Chained, l
<1>10. Chained(B \cup Below(s, n), a)
  <2> SUFFICES ASSUME NEW i \in 0 .. l - n
               PROVE  Complete((B \cup Below(s, n)) \cup Below(a, i))
    BY <1>3 DEF Chained
  <2>1. n + i \in 0 .. l
    BY <1>1
  <2>2. (B \cup Below(s, n)) \cup Below(a, i) = B \cup Below(s, n + i)
    BY <1>8
  <2> QED BY <2>1, <2>2 DEF Chained, l
<1>11. Apart(B \cup Below(s, n), a)
  <2> SUFFICES ASSUME NEW i \in 1 .. l - n
               PROVE  LeavesOf(a[i]) \cap ((B \cup Below(s, n)) \cup Below(a, i - 1)) = {}
    BY <1>3 DEF Apart
  <2>1. n + i \in 1 .. l /\ i - 1 \in 0 .. l - n /\ n + (i - 1) = (n + i) - 1
    BY <1>1
  <2>2. (B \cup Below(s, n)) \cup Below(a, i - 1) = B \cup Below(s, (n + i) - 1)
    BY <1>8, <2>1
  <2>3. a[i] = s[n + i]
    BY <1>3
  <2> QED BY <2>1, <2>2, <2>3 DEF Apart, l
<1>12. (B \cup Below(s, n)) \cup Below(a, Len(a)) = B \cup Below(s, l)
  <2>1. Len(a) \in 0 .. l - n /\ n + Len(a) = l
    BY <1>1, <1>3
  <2> QED BY <1>8, <2>1
<1>13. n + Len(a) = l
  BY <1>1, <1>3
<1>14. Apart(B, u)
  <2> SUFFICES ASSUME NEW i \in 1 .. n
               PROVE  LeavesOf(u[i]) \cap (B \cup Below(u, i - 1)) = {}
    BY <1>2 DEF Apart
  <2>1. i \in 1 .. l /\ i - 1 \in 0 .. n
    BY <1>1
  <2>2. u[i] = s[i] /\ Below(u, i - 1) = Below(s, i - 1)
    BY <1>2, <1>7, <2>1
  <2> QED BY <2>1, <2>2 DEF Apart, l
<1> QED BY <1>2, <1>3, <1>6, <1>7, <1>9, <1>10, <1>11, <1>12, <1>13, <1>14
        DEF StartsAs, u, a, l

(* Unapplying the end of a chain leaves its start.                          *)
LEMMA BackSegment ==
  ASSUME NEW M, NEW names \in Seq(M), NEW A, NEW Q, Q = Backwards(Among(names, A)),
         NEW S, Complete(S), NEW B, Chained(B, names), Apart(B, names),
         S \subseteq B \cup Below(names, Len(names)),
         \A m \in ToSet(names) : m \in A \/ LeavesOf(m) \cap S = {}
  PROVE  /\ Q \in Seq(BackwardIn(M)) /\ GoesBack(Q) /\ OnCourse(S, Q)
         /\ CourseAt(S, Q, Len(Q)) = S \cap B
<1> DEFINE t == Among(names, A)
           n == Len(names)
<1>1. t \in Seq(M \cap A) /\ SplitsAs(t, names, A)
  BY AmongParts
<1>2. t \in Seq(M)
  <2>1. M \cap A \subseteq M
    OBVIOUS
  <2> HIDE DEF t
  <2> QED BY <1>1, <2>1, SeqMonotonic
<1> HIDE DEF t
<1>3. /\ Q \in Seq(BackwardIn(M)) /\ Len(Q) = Len(t) /\ Len(t) \in Nat /\ GoesBack(Q)
      /\ TakesBack(Q, t)
  <2>1. Q = Backwards(t)
    BY DEF t
  <2> QED BY <1>2, <2>1, BackwardsParts
<1>4. n \in Nat /\ ToSet(names) = {names[i] : i \in 1 .. n}
  BY DEF ToSet
<1> HIDE DEF n
<1>5. ASSUME NEW k \in 0 .. Len(Q)
      PROVE  \E i \in 0 .. n :
               /\ CourseAt(S, Q, k) = S \cap (B \cup Below(names, i))
               /\ k = Len(Q) => CourseAt(S, Q, k) = S \cap B
  <2> DEFINE j == Len(t) - k
  <2>1. j \in 0 .. Len(t) /\ Part(Q, 1, k) = {BackwardStep(m) : m \in Part(t, j + 1, Len(t))}
    BY <1>3 DEF TakesBack
  <2>2. k = Len(Q) => j = 0
    BY <1>3
  <2> HIDE DEF j
  <2>3. PICK i \in 0 .. n :
           /\ Part(t, 1, j) = Part(names, 1, i) \cap A
           /\ Part(t, j + 1, Len(t)) = Part(names, i + 1, n) \cap A
    BY <1>1, <2>1 DEF SplitsAs, n
  <2> DEFINE C == B \cup Below(names, i)
             L(X) == UNION {LeavesOf(m) : m \in X}
  <2>4. CourseAt(S, Q, k) = S \ L(Part(names, i + 1, n) \cap A)
    <3> DEFINE X == Part(names, i + 1, n) \cap A
    <3>1. Part(Q, 1, k) = {BackwardStep(m) : m \in X}
      BY <2>1, <2>3
    <3> HIDE DEF X
    <3>2. BackOf({BackwardStep(m) : m \in X}) = L(X) /\ ForthOf({BackwardStep(m) : m \in X}) = {}
      <4> DEFINE Y == {BackwardStep(m) : m \in X}
      <4>1. \A m : BackwardStep(m).backward /\ BackwardStep(m).name = m
        BY DEF BackwardStep
      <4>2. \A y \in Y : y.backward
        BY <4>1
      <4>3. UNION {LeavesOf(y.name) : y \in Y} = L(X)
        <5>1. UNION {LeavesOf(y.name) : y \in Y} \subseteq L(X)
          BY ONLY <4>1
        <5>2. L(X) \subseteq UNION {LeavesOf(y.name) : y \in Y}
          BY ONLY <4>1
        <5> QED BY ONLY <5>1, <5>2
      <4> HIDE DEF Y, L
      <4>4. BackOf(Y) = L(X) /\ ForthOf(Y) = {}
        BY <4>2, <4>3 DEF BackOf, ForthOf
      <4> QED BY <4>4 DEF Y
    <3> QED BY <3>1, <3>2 DEF CourseAt, Effect, X
  <2>5. \A m \in Part(names, i + 1, n) \cup Part(names, 1, i) : m \in A \/ LeavesOf(m) \cap S = {}
    <3>1. \A x \in (i + 1 .. n) \cup (1 .. i) : x \in 1 .. n
      BY <1>4
    <3> QED BY <1>4, <3>1 DEF Part
  <2>6. L(Part(names, i + 1, n)) \cap C = {}
    BY <1>4, ApartParts DEF n
  <2>7. S \subseteq C \cup L(Part(names, i + 1, n))
    <3>1. Below(names, n) = Below(names, i) \cup L(Part(names, i + 1, n))
      BY BelowParts DEF n
    <3>2. S \subseteq B \cup Below(names, n)
      BY DEF n
    <3> QED BY <3>1, <3>2
  <2>8. CourseAt(S, Q, k) = S \cap C
    <3>1. ASSUME NEW x \in S, x \notin C PROVE x \in L(Part(names, i + 1, n) \cap A)
      <4>1. PICK m \in Part(names, i + 1, n) : x \in LeavesOf(m)
        BY <2>7, <3>1
      <4>2. m \in A
        BY <2>5, <4>1
      <4> QED BY <4>1, <4>2
    <3>2. ASSUME NEW x \in S, x \in C PROVE x \notin L(Part(names, i + 1, n) \cap A)
      BY <2>6, <3>2
    <3> HIDE DEF L, C
    <3> QED BY <2>4, <3>1, <3>2
  <2>9. ASSUME k = Len(Q) PROVE S \cap C = S \cap B
    <3>1. Part(names, 1, i) \cap A = {}
      <4>1. Part(t, 1, 0) = {}
        BY DEF Part
      <4> QED BY <2>2, <2>3, <2>9, <4>1
    <3>2. Below(names, i) = L(Part(names, 1, i))
      BY BelowParts DEF n
    <3>3. Below(names, i) \cap S = {}
      BY <2>5, <3>1, <3>2
    <3> QED BY <3>3
  <2> HIDE DEF C
  <2>10. CourseAt(S, Q, k) = S \cap (B \cup Below(names, i))
    BY <2>8 DEF C
  <2>11. k = Len(Q) => CourseAt(S, Q, k) = S \cap B
    BY <2>8, <2>9
  <2> QED BY <2>10, <2>11
<1>6. ASSUME NEW k \in 0 .. Len(Q) PROVE Complete(CourseAt(S, Q, k))
  <2>1. PICK i \in 0 .. n : CourseAt(S, Q, k) = S \cap (B \cup Below(names, i))
    BY <1>5
  <2>2. Complete(B \cup Below(names, i))
    BY DEF Chained, n
  <2>3. Complete(S \cap (B \cup Below(names, i)))
    BY <2>2, CompleteSets
  <2> QED BY <2>1, <2>3
<1>7. CourseAt(S, Q, Len(Q)) = S \cap B
  <2>1. Len(Q) \in 0 .. Len(Q)
    BY <1>3
  <2> QED BY <1>5, <2>1
<1>8. OnCourse(S, Q)
  BY <1>3, <1>6, OneWay DEF OnCourse
<1> QED BY <1>3, <1>7, <1>8

NamesOf(steps) == {x.name : x \in steps}

(* Q goes through names: it applies one after the other, but for those of   *)
(* which all is in S.                                                       *)
Sweeps(Q, names, S) ==
  \A k \in 0 .. Len(Q) : \E i \in 0 .. Len(names) :
    /\ NamesOf(Part(Q, 1, k)) \subseteq Part(names, 1, i)
    /\ NamesOf(Part(Q, k + 1, Len(Q))) \subseteq Part(names, i + 1, Len(names))
    /\ \A m \in Part(names, 1, i) :
         m \in NamesOf(Part(Q, 1, k)) \/ LeavesOf(m) \subseteq S
    /\ \A m \in Part(names, i + 1, Len(names)) :
         m \in NamesOf(Part(Q, k + 1, Len(Q))) \/ LeavesOf(m) \subseteq S

(* Applying a chain on top of S adds it to S.                               *)
LEMMA ForthSegment ==
  ASSUME NEW M, NEW names \in Seq(M), NEW T, NEW Q \in Seq(T), GoesForth(Q),
         NEW S, Chained(S, names), Sweeps(Q, names, S)
  PROVE  /\ OnCourse(S, Q)
         /\ CourseAt(S, Q, Len(Q)) = S \cup Below(names, Len(names))
<1> DEFINE n == Len(names)
           L(X) == UNION {LeavesOf(m) : m \in X}
<1>1. Len(Q) \in Nat /\ n \in Nat
  OBVIOUS
<1>2. \A k \in 0 .. Len(Q) : \A x \in Part(Q, 1, k) : ~x.backward
  <2>1. \A k \in 0 .. Len(Q) : \A i \in 1 .. k : i \in 1 .. Len(Q)
    BY <1>1
  <2>2. ToSet(Q) = {Q[i] : i \in 1 .. Len(Q)}
    BY DEF ToSet
  <2> QED BY <2>1, <2>2 DEF Part, GoesForth
<1> HIDE DEF n
<1>3. ASSUME NEW k \in 0 .. Len(Q)
      PROVE  \E i \in 0 .. n : /\ CourseAt(S, Q, k) = S \cup Below(names, i)
                               /\ k = Len(Q) => CourseAt(S, Q, k) = S \cup Below(names, n)
  <2> DEFINE X == Part(Q, 1, k)
  <2>1. PICK i \in 0 .. n :
          /\ NamesOf(X) \subseteq Part(names, 1, i)
          /\ \A m \in Part(names, 1, i) : m \in NamesOf(X) \/ LeavesOf(m) \subseteq S
          /\ \A m \in Part(names, i + 1, n) :
               m \in NamesOf(Part(Q, k + 1, Len(Q))) \/ LeavesOf(m) \subseteq S
    BY DEF Sweeps, n
  <2>2. \A x \in X : ~x.backward
    BY <1>2
  <2> HIDE DEF X
  <2>3. BackOf(X) = {} /\ ForthOf(X) = L(NamesOf(X))
    BY <2>2 DEF BackOf, ForthOf, NamesOf
  <2>4. CourseAt(S, Q, k) = S \cup L(NamesOf(X))
    BY <2>3 DEF CourseAt, Effect, X
  <2>5. Below(names, i) = L(Part(names, 1, i))
    BY BelowParts DEF n
  <2>6. CourseAt(S, Q, k) = S \cup Below(names, i)
    <3>1. L(NamesOf(X)) \subseteq L(Part(names, 1, i))
      BY <2>1
    <3>2. L(Part(names, 1, i)) \subseteq S \cup L(NamesOf(X))
      BY <2>1
    <3> HIDE DEF L
    <3> QED BY <2>4, <2>5, <3>1, <3>2
  <2>7. ASSUME k = Len(Q) PROVE S \cup Below(names, i) = S \cup Below(names, n)
    <3>1. Part(Q, k + 1, Len(Q)) = {}
      BY <1>1, <2>7 DEF Part
    <3>2. L(Part(names, i + 1, n)) \subseteq S
      BY <2>1, <3>1 DEF NamesOf
    <3>3. Below(names, n) = Below(names, i) \cup L(Part(names, i + 1, n))
      BY BelowParts DEF n
    <3> QED BY <3>2, <3>3
  <2> QED BY <2>6, <2>7
<1>4. ASSUME NEW k \in 0 .. Len(Q) PROVE Complete(CourseAt(S, Q, k))
  <2>1. PICK i \in 0 .. n : CourseAt(S, Q, k) = S \cup Below(names, i)
    BY <1>3
  <2> QED BY <2>1 DEF Chained, n
<1>5. CourseAt(S, Q, Len(Q)) = S \cup Below(names, n)
  <2>1. Len(Q) \in 0 .. Len(Q)
    BY <1>1
  <2> QED BY <1>3, <2>1
<1>6. OnCourse(S, Q)
  BY <1>4, OneWay DEF OnCourse
<1> QED BY <1>5, <1>6 DEF n

(* The steps that apply a node are one step of it or none.                  *)
LEMMA ForwardIs ==
  ASSUME NEW g, NEW m, NEW adopt
  PROVE  \E skip : \/ /\ Forward(g, m, adopt) = <<ForwardStep(m, skip)>>
                      /\ skip = TRUE \/ ~IsApplied(g, m)
                   \/ Forward(g, m, adopt) = <<>> /\ IsApplied(g, m)
BY DEF Forward

(* forward() goes through the names.                                        *)
LEMMA ForwardSweeps ==
  ASSUME NEW g, NEW M, NEW names \in Seq(M), NEW adopt, NEW S,
         \A m \in ToSet(names) : IsApplied(g, m) => LeavesOf(m) \subseteq S,
         NEW Q, Q = ForwardAll(g, names, adopt)
  PROVE  /\ Q \in Seq(SkippedIn(SkippedOf(g, M, adopt)) \cup RunIn(M))
         /\ GoesForth(Q) /\ Sweeps(Q, names, S)
         /\ \A x \in ToSet(Q) : x.skip = TRUE \/ ~IsApplied(g, x.name)
<1> DEFINE U == SkippedIn(SkippedOf(g, M, adopt)) \cup RunIn(M)
           n == Len(names)
           one(i) == Forward(g, names[i], adopt)
           seqs == [i \in DOMAIN names |-> one(i)]
<1>1. n \in Nat /\ DOMAIN names = 1 .. n /\ \A i \in 1 .. n : names[i] \in M
  OBVIOUS
<1>2. Q \in Seq(U)
  BY ForwardAllIn
<1>3. \A x \in U : ~x.backward
  BY DEF SkippedIn, RunIn, ForwardStep
<1>4. GoesForth(Q)
  <2> HIDE DEF U
  <2>1. ToSet(Q) \subseteq U
    BY <1>2 DEF ToSet
  <2> QED BY <1>3, <2>1 DEF GoesForth
<1>5. Q = FlattenSeq(seqs)
  BY DEF ForwardAll
<1> DEFINE Y == UNION {ToSet(one(i)) : i \in 1 .. n}
<1>6. ASSUME NEW i \in 1 .. n
      PROVE  /\ one(i) \in Seq(Y) /\ Len(one(i)) <= 1
             /\ \/ NamesOf(ToSet(one(i))) = {names[i]}
                \/ NamesOf(ToSet(one(i))) = {} /\ LeavesOf(names[i]) \subseteq S
             /\ \A x \in ToSet(one(i)) : x.skip = TRUE \/ ~IsApplied(g, x.name)
  <2>1. PICK skip : \/ /\ one(i) = <<ForwardStep(names[i], skip)>>
                       /\ skip = TRUE \/ ~IsApplied(g, names[i])
                    \/ one(i) = <<>> /\ IsApplied(g, names[i])
    BY ForwardIs
  <2>2. names[i] \in ToSet(names)
    BY <1>1 DEF ToSet
  <2>3. CASE /\ one(i) = <<ForwardStep(names[i], skip)>>
             /\ skip = TRUE \/ ~IsApplied(g, names[i])
    <3> DEFINE e == ForwardStep(names[i], skip)
    <3>1. e.name = names[i] /\ e.skip = skip
      BY DEF ForwardStep
    <3>7. e.skip = TRUE \/ ~IsApplied(g, e.name)
      BY <2>3, <3>1
    <3> HIDE DEF e
    <3>2. ToSet(<<e>>) = {e} /\ Len(<<e>>) <= 1
      BY DEF ToSet
    <3>3. NamesOf({e}) = {names[i]}
      BY <3>1 DEF NamesOf
    <3>4. one(i) = <<e>>
      BY <2>3 DEF e
    <3> HIDE DEF one
    <3>5. e \in Y
      BY <3>2, <3>4
    <3> HIDE DEF Y
    <3>6. <<e>> \in Seq(Y)
      BY <3>5, SeqOfOne
    <3> QED BY <3>2, <3>3, <3>4, <3>6, <3>7
  <2>4. CASE one(i) = <<>> /\ IsApplied(g, names[i])
    <3>1. LeavesOf(names[i]) \subseteq S
      BY <2>2, <2>4
    <3> HIDE DEF Y
    <3>2. ToSet(<<>>) = {} /\ Len(<<>>) <= 1 /\ <<>> \in Seq(Y)
      BY DEF ToSet
    <3>3. NamesOf({}) = {}
      BY DEF NamesOf
    <3> HIDE DEF one
    <3> QED BY <2>4, <3>1, <3>2, <3>3
  <2> QED BY <2>1, <2>3, <2>4
<1> HIDE DEF one, Y
<1>7. /\ Len(seqs) = n /\ DOMAIN seqs = 1 .. n /\ seqs \in Seq(Seq(Y))
      /\ \A i \in 1 .. n : seqs[i] = one(i)
  <2>1. \A i \in 1 .. n : one(i) \in Seq(Y)
    BY <1>6
  <2> QED BY ONLY <1>1, <2>1
<1> HIDE DEF seqs, n
<1>8. IsJoined(Q, seqs)
  <2>1. \A i \in DOMAIN seqs : Len(seqs[i]) <= 1
    BY <1>6, <1>7
  <2>2. seqs \in Seq(Seq(Y))
    BY <1>7
  <2> QED BY ONLY <1>5, <2>1, <2>2, FlattenParts
<1>9. ASSUME NEW k \in 0 .. Len(Q)
      PROVE  \E i \in 0 .. n :
               /\ NamesOf(Part(Q, 1, k)) \subseteq Part(names, 1, i)
               /\ NamesOf(Part(Q, k + 1, Len(Q))) \subseteq Part(names, i + 1, n)
               /\ \A m \in Part(names, 1, i) :
                    m \in NamesOf(Part(Q, 1, k)) \/ LeavesOf(m) \subseteq S
               /\ \A m \in Part(names, i + 1, n) :
                    m \in NamesOf(Part(Q, k + 1, Len(Q))) \/ LeavesOf(m) \subseteq S
  <2>1. PICK i \in 0 .. n :
           /\ Part(Q, 1, k) = UNION {ToSet(seqs[j]) : j \in 1 .. i}
           /\ Part(Q, k + 1, Len(Q)) = UNION {ToSet(seqs[j]) : j \in i + 1 .. n}
    BY <1>7, <1>8 DEF IsJoined
  <2>2. \A j \in (1 .. i) \cup (i + 1 .. n) : j \in 1 .. n /\ seqs[j] = one(j)
    BY <1>1, <1>7
  <2>3. /\ Part(Q, 1, k) = UNION {ToSet(one(j)) : j \in 1 .. i}
        /\ Part(Q, k + 1, Len(Q)) = UNION {ToSet(one(j)) : j \in i + 1 .. n}
    BY <2>1, <2>2
  <2>4. \A j \in (1 .. i) \cup (i + 1 .. n) :
           \/ NamesOf(ToSet(one(j))) = {names[j]}
           \/ NamesOf(ToSet(one(j))) = {} /\ LeavesOf(names[j]) \subseteq S
    BY <1>6, <2>2
  <2>5. NamesOf(Part(Q, 1, k)) \subseteq Part(names, 1, i)
    <3> SUFFICES ASSUME NEW x \in Part(Q, 1, k) PROVE x.name \in Part(names, 1, i)
      BY DEF NamesOf
    <3>1. PICK j \in 1 .. i : x \in ToSet(one(j))
      BY <2>3
    <3>2. x.name \in NamesOf(ToSet(one(j)))
      BY <3>1 DEF NamesOf
    <3>3. x.name = names[j]
      BY <2>4, <3>2
    <3> QED BY <3>3 DEF Part
  <2>9. NamesOf(Part(Q, k + 1, Len(Q))) \subseteq Part(names, i + 1, n)
    <3> SUFFICES ASSUME NEW x \in Part(Q, k + 1, Len(Q))
                 PROVE  x.name \in Part(names, i + 1, n)
      BY DEF NamesOf
    <3>1. PICK j \in i + 1 .. n : x \in ToSet(one(j))
      BY <2>3
    <3>2. x.name \in NamesOf(ToSet(one(j)))
      BY <3>1 DEF NamesOf
    <3>3. x.name = names[j]
      BY <2>4, <3>2
    <3> QED BY <3>3 DEF Part
  <2>6. ASSUME NEW a, NEW b, NEW X, X = UNION {ToSet(one(j)) : j \in a .. b},
               \A j \in a .. b : \/ NamesOf(ToSet(one(j))) = {names[j]}
                                 \/ LeavesOf(names[j]) \subseteq S,
               NEW m \in Part(names, a, b)
        PROVE  m \in NamesOf(X) \/ LeavesOf(m) \subseteq S
    <3>1. PICK j \in a .. b : m = names[j]
      BY <2>6 DEF Part
    <3>2. CASE NamesOf(ToSet(one(j))) = {m}
      <4>1. PICK x \in ToSet(one(j)) : m = x.name
        BY <3>2 DEF NamesOf
      <4>2. x \in X
        BY <2>6, <4>1
      <4> QED BY <4>1, <4>2 DEF NamesOf
    <3> QED BY <2>6, <3>1, <3>2
  <2>7. \A m \in Part(names, 1, i) :
           m \in NamesOf(Part(Q, 1, k)) \/ LeavesOf(m) \subseteq S
    BY <2>3, <2>4, <2>6
  <2>8. \A m \in Part(names, i + 1, n) :
           m \in NamesOf(Part(Q, k + 1, Len(Q))) \/ LeavesOf(m) \subseteq S
    BY <2>3, <2>4, <2>6
  <2> QED BY <2>5, <2>7, <2>8, <2>9
<1>10. Sweeps(Q, names, S)
  BY <1>9 DEF Sweeps, n
<1>11. \A x \in ToSet(Q) : x.skip = TRUE \/ ~IsApplied(g, x.name)
  <2>1. Len(Q) \in Nat /\ ToSet(Q) = Part(Q, 1, Len(Q))
    <3> HIDE DEF U
    <3> QED BY <1>2 DEF ToSet, Part
  <2>2. Len(Q) \in 0 .. Len(Q)
    BY <2>1
  <2>3. PICK i \in 0 .. n : ToSet(Q) = UNION {ToSet(seqs[j]) : j \in 1 .. i}
    BY <1>7, <1>8, <2>1, <2>2 DEF IsJoined
  <2>4. \A j \in 1 .. i : j \in 1 .. n /\ seqs[j] = one(j)
    BY <1>1, <1>7
  <2> QED BY <1>6, <2>3, <2>4
<1> QED BY <1>2, <1>4, <1>10, <1>11

(* The steps that run names.                                                *)
RunAll(names) == [i \in DOMAIN names |-> ForwardStep(names[i], FALSE)]

(* So does running those of the names that are in a set, if the others are  *)
(* in S.                                                                    *)
LEMMA LeftSweeps ==
  ASSUME NEW M, NEW names \in Seq(M), NEW A, NEW left, left = Among(names, A), NEW S,
         \A m \in ToSet(names) : m \in A \/ LeavesOf(m) \subseteq S,
         NEW Q, Q = RunAll(left)
  PROVE  Q \in Seq(RunIn(M)) /\ GoesForth(Q) /\ Sweeps(Q, names, S)
<1>1. left \in Seq(M \cap A) /\ SplitsAs(left, names, A)
  BY AmongParts
<1> DEFINE n == Len(names)
           l == Len(left)
<1>2. l \in Nat /\ DOMAIN left = 1 .. l /\ \A i \in 1 .. l : left[i] \in M
  <2>1. \A i \in 1 .. l : left[i] \in M \cap A
    BY ONLY <1>1
  <2> QED BY <1>1, <2>1
<1>3. n \in Nat /\ ToSet(names) = {names[i] : i \in 1 .. n}
  BY DEF ToSet
<1> HIDE DEF n, l
<1>4. Q = [i \in 1 .. l |-> ForwardStep(left[i], FALSE)]
  BY <1>2 DEF RunAll
<1>5. \A i \in 1 .. l : ForwardStep(left[i], FALSE) \in RunIn(M)
  BY <1>2 DEF RunIn
<1>6. /\ Q \in Seq(RunIn(M)) /\ Len(Q) = l /\ DOMAIN Q = 1 .. l
      /\ \A i \in 1 .. l : Q[i] = ForwardStep(left[i], FALSE)
  <2> DEFINE f(i) == ForwardStep(left[i], FALSE)
  <2>1. l \in Nat /\ Q = [i \in 1 .. l |-> f(i)] /\ \A i \in 1 .. l : f(i) \in RunIn(M)
    BY <1>2, <1>4, <1>5
  <2> HIDE DEF f
  <2>2. Q \in Seq(RunIn(M)) /\ Len(Q) = l /\ DOMAIN Q = 1 .. l /\ \A i \in 1 .. l : Q[i] = f(i)
    BY ONLY <2>1
  <2> QED BY <2>2 DEF f
<1>7. \A i \in 1 .. l : ~Q[i].backward /\ Q[i].name = left[i]
  BY <1>6 DEF ForwardStep
<1>8. GoesForth(Q)
  <2>1. ToSet(Q) = {Q[i] : i \in 1 .. l}
    BY <1>6 DEF ToSet
  <2> QED BY <1>7, <2>1 DEF GoesForth
<1>9. \A a, b \in Nat : b <= l /\ 1 <= a => NamesOf(Part(Q, a, b)) = Part(left, a, b)
  <2> SUFFICES ASSUME NEW a \in Nat, NEW b \in Nat, b <= l, 1 <= a
               PROVE  NamesOf(Part(Q, a, b)) = Part(left, a, b)
    OBVIOUS
  <2>1. \A i \in a .. b : Q[i].name = left[i]
    <3>1. \A i \in a .. b : i \in 1 .. l
      BY <1>2
    <3> QED BY <1>7, <3>1
  <2>2. NamesOf(Part(Q, a, b)) \subseteq Part(left, a, b)
    <3> SUFFICES ASSUME NEW i \in a .. b PROVE Q[i].name \in Part(left, a, b)
      BY DEF NamesOf, Part
    <3> QED BY <2>1 DEF Part
  <2>3. ASSUME NEW i \in a .. b PROVE left[i] \in NamesOf(Part(Q, a, b))
    <3>1. Q[i] \in Part(Q, a, b) /\ Q[i].name = left[i]
      BY <2>1 DEF Part
    <3> QED BY <3>1 DEF NamesOf
  <2>4. Part(left, a, b) \subseteq NamesOf(Part(Q, a, b))
    BY <2>3 DEF Part
  <2> QED BY <2>2, <2>4
<1>10. ASSUME NEW k \in 0 .. l
       PROVE  \E i \in 0 .. n :
                /\ NamesOf(Part(Q, 1, k)) \subseteq Part(names, 1, i)
                /\ NamesOf(Part(Q, k + 1, l)) \subseteq Part(names, i + 1, n)
                /\ \A m \in Part(names, 1, i) :
                     m \in NamesOf(Part(Q, 1, k)) \/ LeavesOf(m) \subseteq S
                /\ \A m \in Part(names, i + 1, n) :
                     m \in NamesOf(Part(Q, k + 1, l)) \/ LeavesOf(m) \subseteq S
  <2>1. PICK i \in 0 .. n :
          /\ Part(left, 1, k) = Part(names, 1, i) \cap A
          /\ Part(left, k + 1, l) = Part(names, i + 1, n) \cap A
    BY <1>1 DEF SplitsAs, n, l
  <2>2. NamesOf(Part(Q, 1, k)) = Part(left, 1, k)
    <3>1. 1 \in Nat /\ k \in Nat /\ k <= l /\ 1 <= 1
      BY <1>2
    <3> QED BY <1>9, <3>1
  <2>3. NamesOf(Part(Q, k + 1, l)) = Part(left, k + 1, l)
    <3>1. k + 1 \in Nat /\ l \in Nat /\ l <= l /\ 1 <= k + 1
      BY <1>2
    <3> QED BY <1>9, <3>1
  <2>4. \A m \in Part(names, i + 1, n) \cup Part(names, 1, i) : m \in A \/ LeavesOf(m) \subseteq S
    <3>1. \A x \in (i + 1 .. n) \cup (1 .. i) : x \in 1 .. n
      BY <1>3
    <3> QED BY <1>3, <3>1 DEF Part
  <2> QED BY <2>1, <2>2, <2>3, <2>4
<1>11. Sweeps(Q, names, S)
  BY <1>6, <1>10 DEF Sweeps, n
<1> QED BY <1>6, <1>8, <1>11

(* Steps have the effect of their parts, if those before take nothing away  *)
(* that those after add.                                                    *)
LEMMA EffectsAddUp ==
  ASSUME NEW S, NEW A, NEW B, (\A x \in A : x.backward) \/ (\A x \in B : ~x.backward)
  PROVE  Effect(S, A \cup B) = Effect(Effect(S, A), B)
<1>1. BackOf(A \cup B) = BackOf(A) \cup BackOf(B)
  BY DEF BackOf
<1>2. ForthOf(A \cup B) = ForthOf(A) \cup ForthOf(B)
  BY DEF ForthOf
<1>3. ForthOf(A) = {} \/ BackOf(B) = {}
  BY DEF BackOf, ForthOf
<1> QED BY ONLY <1>1, <1>2, <1>3 DEF Effect

(* Two plans, one after the other.                                          *)
LEMMA CoursesFollow ==
  ASSUME NEW T, NEW P1 \in Seq(T), NEW P2 \in Seq(T), GoesBack(P1) \/ GoesForth(P2),
         NEW S, OnCourse(S, P1), OnCourse(CourseAt(S, P1, Len(P1)), P2)
  PROVE  /\ P1 \o P2 \in Seq(T) /\ OnCourse(S, P1 \o P2)
         /\ CourseAt(S, P1 \o P2, Len(P1 \o P2)) =
              CourseAt(CourseAt(S, P1, Len(P1)), P2, Len(P2))
<1> DEFINE P == P1 \o P2
           R == CourseAt(S, P1, Len(P1))
           m == Len(P1)
           n == Len(P2)
<1>1. /\ P \in Seq(T) /\ Len(P) = m + n /\ m \in Nat /\ n \in Nat
      /\ \A i \in 1 .. m : P[i] = P1[i]
      /\ \A i \in 1 .. n : P[m + i] = P2[i]
  OBVIOUS
<1>2. IsConcat(P, P1, P2)
  BY ConcatParts
<1>3. ToSet(P1) = {P1[i] : i \in 1 .. m} /\ ToSet(P2) = {P2[i] : i \in 1 .. n}
  BY DEF ToSet
<1>4. OnCourse(R, P2) /\ R = CourseAt(S, P1, Len(P1))
  OBVIOUS
<1> HIDE DEF m, n, P, R
<1>5. \A k \in 0 .. m : Part(P, 1, k) = Part(P1, 1, k)
  BY <1>2 DEF IsConcat, m
<1>6. \A k \in 0 .. n : Part(P, 1, m + k) = ToSet(P1) \cup Part(P2, 1, k)
  BY <1>2 DEF IsConcat, m, n
<1>7. R = Effect(S, ToSet(P1))
  BY <1>2, <1>4 DEF CourseAt, IsConcat
<1>8. ASSUME NEW k \in 0 .. n
      PROVE  CourseAt(S, P, m + k) = CourseAt(R, P2, k)
  <2> DEFINE A == ToSet(P1)
             B == Part(P2, 1, k)
  <2>1. (\A x \in A : x.backward) \/ (\A x \in B : ~x.backward)
    <3>1. \A i \in 1 .. k : i \in 1 .. n
      BY <1>1
    <3> QED BY <1>3, <3>1 DEF GoesBack, GoesForth, Part
  <2> HIDE DEF A, B
  <2>2. Effect(S, A \cup B) = Effect(Effect(S, A), B)
    BY <2>1, EffectsAddUp
  <2> QED BY <1>6, <1>7, <2>2 DEF CourseAt, A, B
<1>9. \A k \in 0 .. m + n : k \in 0 .. m \/ (k - m \in 0 .. n /\ m + (k - m) = k)
  BY <1>1
<1>10. ASSUME NEW k \in 0 .. m + n PROVE Complete(CourseAt(S, P, k))
  <2>1. CASE k \in 0 .. m
    <3>1. CourseAt(S, P, k) = CourseAt(S, P1, k)
      BY <1>5, <2>1 DEF CourseAt
    <3> QED BY <2>1, <3>1 DEF OnCourse, m
  <2>2. CASE k - m \in 0 .. n /\ m + (k - m) = k
    <3>1. CourseAt(S, P, k) = CourseAt(R, P2, k - m)
      BY <1>8, <2>2
    <3> QED BY <1>4, <2>2, <3>1 DEF OnCourse, n
  <2> QED BY <1>9, <2>1, <2>2
<1>11. ASSUME NEW k \in 1 .. m + n, P[k].backward
       PROVE  \A x \in Part(P, 1, k) : x.backward
  <2>1. CASE k \in 1 .. m
    <3>1. P[k] = P1[k] /\ k \in 0 .. m
      BY <1>1, <2>1
    <3>2. Part(P, 1, k) = Part(P1, 1, k)
      BY <1>5, <3>1
    <3>3. \A x \in Part(P1, 1, k) : x.backward
      BY <1>11, <2>1, <3>1 DEF OnCourse, m
    <3> QED BY <3>2, <3>3
  <2>2. CASE k \notin 1 .. m
    <3>1. k - m \in 1 .. n /\ k - m \in 0 .. n /\ m + (k - m) = k
      BY <1>1, <2>2
    <3> DEFINE j == k - m
    <3>2. P[k] = P2[j] /\ Part(P, 1, k) = ToSet(P1) \cup Part(P2, 1, j) /\ j \in 1 .. n
      BY <1>1, <1>6, <3>1
    <3> HIDE DEF j
    <3>3. P2[j] \in ToSet(P2)
      BY <1>3, <3>2
    <3>4. GoesBack(P1)
      BY <1>11, <3>2, <3>3 DEF GoesForth
    <3>5. \A x \in Part(P2, 1, j) : x.backward
      BY <1>11, <1>4, <3>2 DEF OnCourse, n
    <3> QED BY <3>2, <3>4, <3>5 DEF GoesBack
  <2> QED BY <2>1, <2>2
<1>12. OnCourse(S, P)
  BY <1>1, <1>10, <1>11 DEF OnCourse
<1>13. CourseAt(S, P, Len(P)) = CourseAt(R, P2, n)
  <2>1. n \in 0 .. n
    BY <1>1
  <2> QED BY <1>1, <1>8, <2>1
<1> QED BY <1>1, <1>12, <1>13 DEF n, P, R

(* Two plans that go forth are one that does.                               *)
LEMMA ForthFollows ==
  ASSUME NEW T, NEW P1 \in Seq(T), NEW P2 \in Seq(T), GoesForth(P1), GoesForth(P2)
  PROVE  GoesForth(P1 \o P2)
<1>1. ToSet(P1 \o P2) = ToSet(P1) \cup ToSet(P2)
  BY ConcatParts DEF IsConcat
<1> QED BY <1>1 DEF GoesForth

(* From where S is applied, the plan Q is on course to where R is.          *)
Course(S, Q, R) ==
  (\E T : Q \in Seq(T)) /\ OnCourse(S, Q) /\ CourseAt(S, Q, Len(Q)) = R

(* Two courses, one after the other.                                        *)
LEMMA CoursesJoin ==
  ASSUME NEW S, NEW P1, NEW R, Course(S, P1, R), NEW P2, NEW E, Course(R, P2, E),
         GoesBack(P1) \/ GoesForth(P2)
  PROVE  /\ Course(S, P1 \o P2, E)
         /\ GoesForth(P1) /\ GoesForth(P2) => GoesForth(P1 \o P2)
<1>1. PICK T1 : P1 \in Seq(T1)
  BY DEF Course
<1>2. PICK T2 : P2 \in Seq(T2)
  BY DEF Course
<1> DEFINE T == T1 \cup T2
<1>3. T1 \subseteq T /\ T2 \subseteq T
  OBVIOUS
<1> HIDE DEF T
<1>4. P1 \in Seq(T) /\ P2 \in Seq(T)
  BY <1>1, <1>2, <1>3, SeqMonotonic
<1>5. OnCourse(S, P1) /\ R = CourseAt(S, P1, Len(P1)) /\ OnCourse(R, P2)
      /\ CourseAt(R, P2, Len(P2)) = E
  BY DEF Course
<1>6. /\ P1 \o P2 \in Seq(T) /\ OnCourse(S, P1 \o P2)
      /\ CourseAt(S, P1 \o P2, Len(P1 \o P2)) = E
  BY <1>4, <1>5, CoursesFollow
<1>7. Course(S, P1 \o P2, E)
  BY <1>6 DEF Course
<1> QED BY <1>4, <1>7, ForthFollows

-----------------------------------------------------------------------------
(* Every plan is on course. *)

(* The order of a graph is a chain of nodes apart from each other.          *)
LEMMA OrderIsChain ==
  ASSUME HistoryIsWellMade, NEW g, IsSound(g)
  PROVE  /\ g.order \in Seq(g.nodes) /\ g.nodes \subseteq Migrations
         /\ ToSet(g.order) = g.nodes
         /\ Chained({}, g.order) /\ Apart({}, g.order)
<1>1. /\ g.order \in Distinct(g.nodes) /\ g.nodes \subseteq Migrations
      /\ ToSet(g.order) = g.nodes
  BY SoundGraph DEF IsSound, IsBroken
<1>2. g.order \in Seq(g.nodes)
  BY <1>1 DEF Distinct
<1>3. Chained({}, g.order)
  <2>1. \A i \in 0 .. Len(g.order) : Complete(Below(g.order, i))
    BY OrderIsLayered
  <2> QED BY <2>1 DEF Chained
<1>4. Apart({}, g.order)
  <2> DEFINE order == g.order
  <2>1. order \in Seq(g.nodes) /\ order \in Distinct(g.nodes)
    BY <1>1, <1>2
  <2> HIDE DEF order
  <2> SUFFICES ASSUME NEW i \in 1 .. Len(order), NEW j \in 1 .. i - 1
               PROVE  LeavesOf(order[i]) \cap LeavesOf(order[j]) = {}
    BY DEF Apart, Below, order
  <2>2. i \in DOMAIN order /\ j \in DOMAIN order /\ i # j
    BY <2>1
  <2>3. order[i] \in g.nodes /\ order[j] \in g.nodes /\ order[i] # order[j]
    BY <2>1, <2>2 DEF Distinct
  <2> QED BY <2>3, NodesShareNoLeaf DEF HistoryIsWellMade
<1> QED BY <1>1, <1>2, <1>3, <1>4

(* Of what is applied when a plan is made, a node has all leaves or none.   *)
LEMMA AppliedLeaves ==
  ASSUME NEW g, IsSound(g), IsWhole(g.recorded), NEW m \in g.nodes
  PROVE  /\ m \in g.applied \/ LeavesOf(m) \cap (g.recorded \cap Leaves) = {}
         /\ IsApplied(g, m) => LeavesOf(m) \subseteq g.recorded \cap Leaves
         /\ ~IsApplied(g, m) => LeavesOf(m) \cap (g.recorded \cap Leaves) = {}
         /\ m \in g.applied => LeavesOf(m) \subseteq g.recorded \cap Leaves
<1>1. m \in Migrations
  BY SoundGraph
<1>2. LeavesOf(m) \subseteq Leaves
  BY <1>1, LeavesAreLeaves
<1> QED BY <1>2, NodesAreAppliedWhole

(* Unapplying all nodes after a position leaves those up to it.             *)
LEMMA BackToPosition ==
  ASSUME HistoryIsWellMade, NEW g, IsSound(g), IsWhole(g.recorded),
         NEW S, S = g.recorded \cap Leaves, Complete(S),
         S \subseteq Below(g.order, Len(g.order)),
         NEW n \in 0 .. Len(g.order),
         NEW Q, Q = BackwardAll(g, After(g.order, n))
  PROVE  GoesBack(Q) /\ Course(S, Q, S \cap Below(g.order, n))
<1> DEFINE order == g.order
           names == After(order, n)
           B == {} \cup Below(order, n)
<1>1. /\ order \in Seq(g.nodes) /\ g.nodes \subseteq Migrations /\ ToSet(order) = g.nodes
      /\ Chained({}, order) /\ Apart({}, order)
  BY OrderIsChain
<1>2. Q = Backwards(Among(names, g.applied)) /\ n \in 0 .. Len(order)
      /\ S \subseteq Below(order, Len(order))
  BY DEF BackwardAll
<1> HIDE DEF order
<1>3. /\ names \in Seq(g.nodes) /\ ToSet(names) \subseteq ToSet(order)
      /\ Chained(B, names) /\ Apart(B, names)
      /\ B \cup Below(names, Len(names)) = {} \cup Below(order, Len(order))
  BY ONLY <1>1, <1>2, ChainParts
<1>4. S \subseteq B \cup Below(names, Len(names))
  <2> HIDE DEF B, names
  <2> QED BY <1>2, <1>3
<1>5. \A m \in ToSet(names) : m \in g.applied \/ LeavesOf(m) \cap S = {}
  BY <1>1, <1>3, AppliedLeaves
<1>6. B = Below(order, n)
  OBVIOUS
<1> HIDE DEF names, B
<1>7. /\ Q \in Seq(BackwardIn(g.nodes)) /\ GoesBack(Q) /\ OnCourse(S, Q)
      /\ CourseAt(S, Q, Len(Q)) = S \cap B
  <2> DEFINE A == g.applied
             nodes == g.nodes
  <2>1. /\ Q = Backwards(Among(names, A)) /\ names \in Seq(nodes)
        /\ \A m \in ToSet(names) : m \in A \/ LeavesOf(m) \cap S = {}
    BY <1>2, <1>3, <1>5
  <2> HIDE DEF A, nodes
  <2>2. /\ Q \in Seq(BackwardIn(nodes)) /\ GoesBack(Q) /\ OnCourse(S, Q)
        /\ CourseAt(S, Q, Len(Q)) = S \cap B
    BY ONLY <1>3, <1>4, <2>1, Complete(S), BackSegment
  <2> QED BY <2>2 DEF nodes
<1> QED BY <1>6, <1>7 DEF Course, order

(* Applying all nodes up to a position adds them.                           *)
LEMMA ForthToPosition ==
  ASSUME HistoryIsWellMade, NEW g, IsSound(g), IsWhole(g.recorded),
         NEW n \in 0 .. Len(g.order), NEW S, Complete(S),
         (g.recorded \cap Leaves) \cap Below(g.order, n) \subseteq S,
         NEW adopt, NEW Q, Q = ForwardAll(g, Upto(g.order, n), adopt)
  PROVE  GoesForth(Q) /\ Course(S, Q, S \cup Below(g.order, n))
<1> DEFINE order == g.order
           names == Upto(order, n)
<1>1. /\ order \in Seq(g.nodes) /\ g.nodes \subseteq Migrations /\ ToSet(order) = g.nodes
      /\ Chained({}, order) /\ Apart({}, order)
  BY OrderIsChain
<1>2. /\ Q = ForwardAll(g, names, adopt) /\ n \in 0 .. Len(order)
      /\ (g.recorded \cap Leaves) \cap Below(order, n) \subseteq S
  OBVIOUS
<1> HIDE DEF order
<1>3. /\ names \in Seq(g.nodes) /\ StartsAs(names, order, n)
      /\ ToSet(names) \subseteq ToSet(order) /\ Chained({}, names)
  BY ONLY <1>1, <1>2, ChainParts
<1> HIDE DEF names
<1>4. n \in 0 .. n /\ Below(names, n) = Below(order, n)
  <2>1. n \in 0 .. n
    BY <1>2
  <2> QED BY <1>3, <2>1 DEF StartsAs
<1>5. \A m \in ToSet(names) : IsApplied(g, m) => LeavesOf(m) \subseteq S
  <2> SUFFICES ASSUME NEW m \in ToSet(names), IsApplied(g, m)
               PROVE  LeavesOf(m) \subseteq S
    OBVIOUS
  <2>1. LeavesOf(m) \subseteq Below(names, n)
    <3>1. ToSet(names) = {names[i] : i \in 1 .. n}
      <4>1. DOMAIN names = 1 .. n
        BY <1>3 DEF StartsAs
      <4> QED BY <4>1 DEF ToSet
    <3> QED BY <3>1 DEF Below
  <2>2. LeavesOf(m) \subseteq g.recorded \cap Leaves
    BY <1>1, <1>3, AppliedLeaves
  <2> QED BY <1>2, <1>4, <2>1, <2>2
<1>6. Chained(S, names)
  <2> SUFFICES ASSUME NEW i \in 0 .. Len(names) PROVE Complete(S \cup Below(names, i))
    BY DEF Chained
  <2>1. Complete({} \cup Below(names, i))
    BY <1>3 DEF Chained
  <2>2. {} \cup Below(names, i) = Below(names, i)
    OBVIOUS
  <2> QED BY <2>1, <2>2, CompleteSets
<1>7. /\ Q \in Seq(SkippedIn(SkippedOf(g, g.nodes, adopt)) \cup RunIn(g.nodes))
      /\ GoesForth(Q) /\ Sweeps(Q, names, S)
  BY <1>2, <1>3, <1>5, ForwardSweeps
<1>8. /\ OnCourse(S, Q)
      /\ CourseAt(S, Q, Len(Q)) = S \cup Below(names, Len(names))
  BY <1>3, <1>6, <1>7, ForthSegment
<1> QED BY <1>3, <1>4, <1>7, <1>8 DEF Course, StartsAs, order

(* The originals of a squash in use that has any are its leaves, a chain on *)
(* top of what lies below the squash.                                       *)
LEMMA OriginalsAreChain ==
  ASSUME HistoryIsWellMade, NEW g, IsSound(g), NEW n \in 1 .. Len(g.order),
         NEW s, s = g.order[n], NEW own, own = Originals(g, s), own # <<>>,
         NEW B, B = Below(g.order, n - 1)
  PROVE  /\ own \in Seq(Leaves) /\ ToSet(own) = LeavesOf(s)
         /\ Chained(B, own) /\ Apart(B, own)
<1> DEFINE r == replaces[s]
           A == Migrations \ Squashes(g.files)
<1>1. s \in g.nodes /\ s \in Migrations /\ g.nodes \subseteq g.files
  <2>1. g.order \in Seq(g.nodes) /\ g.nodes \subseteq Migrations /\ g.nodes \subseteq g.files
    BY OrderIsChain, SoundGraph
  <2> DEFINE order == g.order
  <2>2. order \in Seq(g.nodes) /\ n \in 1 .. Len(order)
    BY <2>1
  <2> HIDE DEF order
  <2>3. order[n] \in g.nodes
    BY <2>2
  <2> QED BY <2>1, <2>3 DEF order
<1>2. r \in Seq(Migrations)
  BY <1>1, GraphAssumption
<1>3. own = Among(r, A) /\ ToSet(own) \subseteq g.files
  BY DEF Originals
<1> HIDE DEF r, A
<1>4. own \in Seq(Migrations \cap A) /\ SplitsAs(own, r, A)
  BY <1>2, <1>3, AmongParts
<1>5. DOMAIN own = 1 .. Len(own) /\ Len(own) \in Nat /\ Len(own) # 0
  BY <1>4
<1>6. Len(r) \in Nat /\ DOMAIN r = 1 .. Len(r)
  BY <1>2
<1>7. \A i \in 1 .. Len(own) : own[i] \in Leaves
  <2> SUFFICES ASSUME NEW i \in 1 .. Len(own) PROVE own[i] \in Leaves
    OBVIOUS
  <2>1. own[i] \in A /\ own[i] \in ToSet(own)
    BY <1>4, <1>5 DEF ToSet
  <2> QED BY <1>3, <2>1 DEF A, Squashes, Leaves
<1>8. Leaves \subseteq A
  BY DEF A, Squashes, Leaves
<1>9. ToSet(own) = Replaced(s) \cap Leaves
  <2>1. PICK i \in 0 .. Len(r) : /\ Part(own, 1, 0) = Part(r, 1, i) \cap A
                                 /\ Part(own, 0 + 1, Len(own)) = Part(r, i + 1, Len(r)) \cap A
    BY <1>4, <1>5 DEF SplitsAs
  <2>2. Part(own, 1, 0) = {} /\ Part(own, 0 + 1, Len(own)) = ToSet(own)
    BY <1>5 DEF Part, ToSet
  <2>3. Part(r, 1, i) \cup Part(r, i + 1, Len(r)) = ToSet(r)
    <3>1. 1 .. Len(r) = (1 .. i) \cup (i + 1 .. Len(r))
      BY <1>6
    <3> QED BY ONLY <1>6, <3>1 DEF Part, ToSet
  <2>4. ToSet(own) = Replaced(s) \cap A
    BY <2>1, <2>2, <2>3 DEF Replaced, r
  <2>5. ToSet(own) \subseteq Leaves
    BY <1>5, <1>7 DEF ToSet
  <2> QED BY <1>8, <2>4, <2>5
<1>10. IsSquash(s)
  <2>1. r # <<>>
    <3>1. own[1] \in ToSet(own)
      BY <1>5 DEF ToSet
    <3>2. \E m : m \in ToSet(r)
      BY <1>9, <3>1 DEF Replaced, r
    <3> QED BY <3>2 DEF ToSet
  <2> QED BY <2>1 DEF IsSquash, r
<1>11. ToSet(own) = LeavesOf(s)
  BY <1>9, <1>10 DEF LeavesOf
<1>12. own \in Seq(Leaves)
  BY <1>4, <1>5, <1>7
<1>13. ASSUME NEW m \in Leaves PROVE LeavesOf(m) = {m}
  BY <1>13 DEF LeavesOf, Leaves
<1>14. \A i \in 0 .. Len(own) : Below(own, i) = Part(own, 1, i)
  <2> SUFFICES ASSUME NEW i \in 0 .. Len(own) PROVE Below(own, i) = Part(own, 1, i)
    OBVIOUS
  <2>1. \A j \in 1 .. i : LeavesOf(own[j]) = {own[j]}
    <3>1. \A j \in 1 .. i : j \in 1 .. Len(own)
      BY <1>5
    <3> QED BY <1>7, <1>13, <3>1
  <2>2. Below(own, i) \subseteq Part(own, 1, i)
    <3> SUFFICES ASSUME NEW j \in 1 .. i, NEW l \in LeavesOf(own[j])
                 PROVE  l \in Part(own, 1, i)
      BY DEF Below
    <3>1. l = own[j]
      BY <2>1
    <3> QED BY <3>1 DEF Part
  <2>3. Part(own, 1, i) \subseteq Below(own, i)
    BY <2>1 DEF Below, Part
  <2> QED BY <2>2, <2>3
<1>15. Complete(B)
  <2>1. n - 1 \in 0 .. Len(g.order)
    OBVIOUS
  <2> QED BY <2>1, OrderIsLayered
<1>16. UNION {LeavesOf(e) : e \in dependencies[s]} \subseteq B
  BY <1>15, DependenciesLieBelow
<1>17. ASSUME NEW i \in 0 .. Len(own) PROVE Complete(B \cup Below(own, i))
  <2>1. PICK k \in 0 .. Len(r) :
          /\ Part(own, 1, i) = Part(r, 1, k) \cap A
          /\ Part(own, i + 1, Len(own)) = Part(r, k + 1, Len(r)) \cap A
    BY <1>4 DEF SplitsAs
  <2> DEFINE P == Part(own, 1, i)
  <2>2. ASSUME NEW m \in P, NEW d \in dependencies[m]
        PROVE  LeavesOf(d) \subseteq B \cup P
    <3>1. PICK x \in 1 .. k : m = r[x]
      BY <2>1 DEF Part
    <3>2. x \in DOMAIN replaces[s] /\ m = replaces[s][x]
      BY <1>6, <3>1 DEF r
    <3>3. m \in Leaves /\ m \in Replaced(s)
      <4>1. \A j \in 1 .. i : j \in 1 .. Len(own)
        BY <1>5
      <4>2. m \in ToSet(own)
        BY <1>5, <4>1 DEF Part, ToSet
      <4> QED BY <1>9, <4>2
    <3>4. LeavesOf(d) \cap Replaced(s) \subseteq {replaces[s][j] : j \in 1 .. x - 1}
      BY <1>1, <3>2, <3>3 DEF HistoryIsWellMade, SquashesAreChains
    <3>5. {replaces[s][j] : j \in 1 .. x - 1} \subseteq Part(r, 1, k)
      <4>1. \A j \in 1 .. x - 1 : j \in 1 .. k
        BY <3>1
      <4> QED BY <4>1 DEF Part, r
    <3>6. d \in Migrations
      BY <3>3, GraphAssumption DEF Leaves
    <3>7. LeavesOf(d) \subseteq A
      BY <1>8, <3>6, LeavesAreLeaves
    <3>8. LeavesOf(d) \cap Replaced(s) \subseteq P
      BY <2>1, <3>4, <3>5, <3>7
    <3>9. LeavesOf(d) \subseteq Replaced(s) \cup UNION {LeavesOf(e) : e \in dependencies[s]}
      BY <1>1, <3>3 DEF HistoryIsWellMade, SquashesKeepDependencies
    <3> QED BY <1>16, <3>8, <3>9
  <2>3. Below(own, i) = P
    BY <1>14
  <2> HIDE DEF P
  <2> QED BY <1>15, <2>2, <2>3 DEF Complete
<1>18. Chained(B, own)
  BY <1>17 DEF Chained
<1>19. ASSUME NEW i \in 1 .. Len(own)
       PROVE  LeavesOf(own[i]) \cap (B \cup Below(own, i - 1)) = {}
  <2>1. LeavesOf(own[i]) = {own[i]} /\ i - 1 \in 0 .. Len(own) /\ i - 1 + 1 = i
    BY <1>5, <1>7, <1>13
  <2>2. own[i] \notin B
    <3>1. own[i] \in LeavesOf(s)
      BY <1>5, <1>11 DEF ToSet
    <3>2. LeavesOf(s) \cap ({} \cup B) = {}
      BY OrderIsChain DEF Apart
    <3> QED BY <3>1, <3>2
  <2>3. PICK k \in 0 .. Len(r) :
          /\ Part(own, 1, i - 1) = Part(r, 1, k) \cap A
          /\ Part(own, (i - 1) + 1, Len(own)) = Part(r, k + 1, Len(r)) \cap A
    BY <1>4, <2>1 DEF SplitsAs
  <2>4. own[i] \in Part(r, k + 1, Len(r))
    <3>1. own[i] \in Part(own, (i - 1) + 1, Len(own))
      BY <1>5, <2>1 DEF Part
    <3> QED BY <2>3, <3>1
  <2>5. own[i] \notin Part(r, 1, k)
    <3> SUFFICES ASSUME NEW j \in 1 .. k, own[i] = r[j] PROVE FALSE
      BY DEF Part
    <3>1. PICK x \in k + 1 .. Len(r) : own[i] = r[x]
      BY <2>4 DEF Part
    <3>2. x \in DOMAIN replaces[s] /\ j \in 1 .. x - 1
      BY <1>6, <3>1 DEF r
    <3>3. replaces[s][x] \in Leaves
      BY <1>7, <3>1 DEF r
    <3>4. replaces[s][j] # replaces[s][x]
      BY <1>1, <3>2, <3>3 DEF HistoryIsWellMade, SquashesAreChains
    <3> QED BY <3>1, <3>4 DEF r
  <2>6. own[i] \notin Below(own, i - 1)
    BY <1>14, <2>1, <2>3, <2>5
  <2> QED BY <2>1, <2>2, <2>6
<1>20. Apart(B, own)
  BY <1>19 DEF Apart
<1> QED BY <1>11, <1>12, <1>18, <1>20

(* Back into a squash that is applied: its later originals go, too.         *)
LEMMA BackIntoSquash ==
  ASSUME HistoryIsWellMade, NEW g, IsSound(g), NEW n \in 1 .. Len(g.order),
         NEW own, own = Originals(g, g.order[n]), own # <<>>,
         NEW cut \in 0 .. Len(own),
         NEW S, S \subseteq g.recorded, Complete(S), S \subseteq Below(g.order, n),
         NEW Q, Q = Backwards(Among(After(own, cut), g.recorded))
  PROVE  GoesBack(Q) /\ \E R : Course(S, Q, R)
<1> DEFINE s == g.order[n]
           B == Below(g.order, n - 1)
           names == After(own, cut)
           D == B \cup Below(own, cut)
           A == g.recorded
<1>1. /\ own \in Seq(Leaves) /\ ToSet(own) = LeavesOf(s)
      /\ Chained(B, own) /\ Apart(B, own)
  BY OriginalsAreChain
<1>2. Below(g.order, n) = B \cup LeavesOf(s)
  <2>1. n \in Nat /\ n # 0
    OBVIOUS
  <2> QED BY <2>1, BelowGrows
<1>3. /\ cut \in 0 .. Len(own) /\ Q = Backwards(Among(names, A))
      /\ S \subseteq A /\ S \subseteq B \cup LeavesOf(s)
  BY <1>2
<1> HIDE DEF s, B, A
<1>4. /\ names \in Seq(Leaves) /\ ToSet(names) \subseteq ToSet(own)
      /\ Chained(D, names) /\ Apart(D, names)
      /\ D \cup Below(names, Len(names)) = B \cup Below(own, Len(own))
  BY ONLY <1>1, <1>3, ChainParts
<1> HIDE DEF names, D
<1>5. \A m \in Leaves : LeavesOf(m) = {m}
  BY DEF LeavesOf, Leaves
<1>6. S \subseteq D \cup Below(names, Len(names))
  <2>1. LeavesOf(s) \subseteq Below(own, Len(own))
    <3> SUFFICES ASSUME NEW m \in ToSet(own) PROVE m \in Below(own, Len(own))
      BY <1>1
    <3>1. PICK i \in 1 .. Len(own) : m = own[i]
      BY <1>1 DEF ToSet
    <3>2. LeavesOf(own[i]) = {m}
      BY <1>1, <1>5, <3>1
    <3> QED BY <3>1, <3>2 DEF Below
  <2> QED BY <1>3, <1>4, <2>1
<1>7. \A m \in ToSet(names) : m \in A \/ LeavesOf(m) \cap S = {}
  <2> SUFFICES ASSUME NEW m \in ToSet(names), m \notin A PROVE LeavesOf(m) \cap S = {}
    OBVIOUS
  <2>1. m \in Leaves
    BY <1>1, <1>4 DEF ToSet
  <2> QED BY <1>3, <1>5, <2>1
<1>8. /\ Q \in Seq(BackwardIn(Leaves)) /\ GoesBack(Q) /\ OnCourse(S, Q)
      /\ CourseAt(S, Q, Len(Q)) = S \cap D
  BY ONLY <1>3, <1>4, <1>6, <1>7, Complete(S), BackSegment
<1> QED BY <1>8 DEF Course

(* Forth into a squash that is not applied: its first originals come.       *)
LEMMA ForthIntoSquash ==
  ASSUME HistoryIsWellMade, NEW g, IsSound(g), NEW n \in 1 .. Len(g.order),
         NEW own, own = Originals(g, g.order[n]), own # <<>>,
         NEW cut \in 0 .. Len(own), LeavesOf(g.order[n]) \cap g.recorded = {},
         NEW left, left = Among(Upto(own, cut), Migrations \ g.recorded),
         NEW Q, Q = RunAll(left)
  PROVE  GoesForth(Q) /\ \E R : Course(Below(g.order, n - 1), Q, R)
<1> DEFINE s == g.order[n]
           B == Below(g.order, n - 1)
           names == Upto(own, cut)
           A == Migrations \ g.recorded
<1>1. /\ own \in Seq(Leaves) /\ ToSet(own) = LeavesOf(s)
      /\ Chained(B, own) /\ Apart(B, own)
  BY OriginalsAreChain
<1>2. /\ cut \in 0 .. Len(own) /\ left = Among(names, A)
      /\ LeavesOf(s) \cap g.recorded = {}
  OBVIOUS
<1> HIDE DEF s, B
<1>3. names \in Seq(Leaves) /\ ToSet(names) \subseteq ToSet(own) /\ Chained(B, names)
  BY ONLY <1>1, <1>2, ChainParts
<1> HIDE DEF names
<1>4. \A m \in ToSet(names) : m \in A \/ LeavesOf(m) \subseteq B
  <2> SUFFICES ASSUME NEW m \in ToSet(names) PROVE m \in A
    OBVIOUS
  <2>1. m \in ToSet(own)
    BY <1>3
  <2>2. ToSet(own) \subseteq Leaves
    BY <1>1 DEF ToSet
  <2>3. m \in Leaves /\ m \in LeavesOf(s)
    BY <1>1, <2>1, <2>2
  <2> QED BY <1>2, <2>3 DEF Leaves
<1> HIDE DEF A
<1>5. Q = RunAll(left)
  OBVIOUS
<1>6. Q \in Seq(RunIn(Leaves)) /\ GoesForth(Q) /\ Sweeps(Q, names, B)
  BY ONLY <1>2, <1>3, <1>4, <1>5, LeftSweeps
<1>7. OnCourse(B, Q) /\ CourseAt(B, Q, Len(Q)) = B \cup Below(names, Len(names))
  BY ONLY <1>3, <1>6, ForthSegment
<1> QED BY <1>6, <1>7 DEF Course, B

(* A plan to an original of a squash.                                       *)
LEMMA IntoSquashOnCourse ==
  ASSUME HistoryIsWellMade, NEW g, IsSound(g), IsWhole(g.recorded),
         NEW S, S = g.recorded \cap Leaves, Complete(S),
         S \subseteq Below(g.order, Len(g.order)),
         NEW at, IsInSquash(g, at), NEW adopt
  PROVE  \E R : Course(S, PlanIntoSquash(g, at, adopt), R)
<1> DEFINE s == Resolve(g, at)
           n == IndexOf(g.order, s)
           own == Originals(g, s)
           cut == IndexOf(own, at)
           left == Among(Upto(own, cut), Migrations \ g.recorded)
           Q1 == BackwardAll(g, After(g.order, n))
           Q2 == Backwards(Among(After(own, cut), g.recorded))
           Q3 == ForwardAll(g, Upto(g.order, n - 1), adopt)
           Q4 == RunAll(left)
           B == Below(g.order, n)
           C == Below(g.order, n - 1)
<1>1. s \in ToSet(g.order) /\ at \in ToSet(own)
  BY DEF IsInSquash
<1>2. g.order \in Seq(g.nodes) /\ g.nodes \subseteq Migrations /\ ToSet(g.order) = g.nodes
  BY OrderIsChain
<1>3. n \in 1 .. Len(g.order) /\ g.order[n] = s
  <2> DEFINE order == g.order
  <2>1. order \in Seq(g.nodes) /\ s \in ToSet(order) /\ n = IndexOf(order, s)
    BY <1>1, <1>2
  <2> HIDE DEF s, n, order
  <2>2. n \in 1 .. Len(order) /\ order[n] = s
    BY ONLY <2>1, IndexOfFinds
  <2> QED BY <2>2 DEF order
<1>4. PlanIntoSquash(g, at, adopt) = IF IsApplied(g, s) THEN Q1 \o Q2 ELSE (Q1 \o Q3) \o Q4
  BY DEF PlanIntoSquash, RunAll
<1> HIDE DEF s, n
<1>5. own = Originals(g, g.order[n]) /\ own # <<>>
  BY <1>1, <1>3 DEF ToSet
<1>6. own \in Seq(Leaves)
  <2> HIDE DEF own
  <2> QED BY <1>3, <1>5, OriginalsAreChain
<1>7. cut \in 0 .. Len(own)
  <2> HIDE DEF own
  <2>1. cut \in 1 .. Len(own)
    BY <1>1, <1>6, IndexOfFinds
  <2> QED BY <2>1
<1> HIDE DEF own, cut
<1>8. n \in 0 .. Len(g.order) /\ n - 1 \in 0 .. Len(g.order) /\ n \in Nat /\ n # 0
  BY <1>3
<1>9. GoesBack(Q1) /\ Course(S, Q1, S \cap B)
  <2> HIDE DEF Q1
  <2> QED BY <1>8, BackToPosition DEF Q1
<1>10. Complete(B) /\ Complete(C)
  BY <1>8, OrderIsLayered
<1>11. Complete(S \cap B)
  BY <1>10, CompleteSets
<1>12. CASE IsApplied(g, s)
  <2>1. S \cap B \subseteq g.recorded /\ S \cap B \subseteq Below(g.order, n)
    OBVIOUS
  <2>2. GoesBack(Q2) /\ \E R : Course(S \cap B, Q2, R)
    <3> DEFINE T == S \cap B
    <3>1. T \subseteq g.recorded /\ T \subseteq Below(g.order, n) /\ Complete(T)
      BY <1>11
    <3> HIDE DEF T
    <3>2. GoesBack(Q2) /\ \E R : Course(T, Q2, R)
      BY <1>3, <1>5, <1>7, <3>1, BackIntoSquash
    <3> QED BY <3>2 DEF T
  <2>3. PICK R : Course(S \cap B, Q2, R)
    BY <2>2
  <2> HIDE DEF Q1, Q2, B
  <2>4. Course(S, Q1 \o Q2, R)
    BY <1>9, <2>3, CoursesJoin
  <2> QED BY <1>4, <1>12, <2>4
<1>13. CASE ~IsApplied(g, s)
  <2>1. s \in g.nodes
    BY <1>1, <1>2
  <2>2. LeavesOf(s) \cap S = {} /\ LeavesOf(s) \cap g.recorded = {}
    BY <1>13, <2>1, AppliedLeaves, NodesAreAppliedWhole
  <2>3. B = C \cup LeavesOf(s)
    BY <1>3, <1>8, BelowGrows
  <2>4. S \cap B \subseteq C /\ S \cap C \subseteq S \cap B
    BY <2>2, <2>3
  <2>5. GoesForth(Q3) /\ Course(S \cap B, Q3, C)
    <3> DEFINE T == S \cap B
               m == n - 1
    <3>1. /\ Complete(T) /\ m \in 0 .. Len(g.order)
          /\ (g.recorded \cap Leaves) \cap Below(g.order, m) \subseteq T
          /\ Q3 = ForwardAll(g, Upto(g.order, m), adopt)
      BY <1>8, <1>11, <2>4
    <3> HIDE DEF T, m, Q3
    <3>2. GoesForth(Q3) /\ Course(T, Q3, T \cup Below(g.order, m))
      BY <3>1, ForthToPosition
    <3>3. T \cup Below(g.order, m) = C
      BY <2>4 DEF T, m
    <3> QED BY <3>2, <3>3 DEF T
  <2>6. GoesForth(Q4) /\ \E R : Course(C, Q4, R)
    <3>1. LeavesOf(g.order[n]) \cap g.recorded = {}
      BY <1>3, <2>2
    <3> HIDE DEF left
    <3>2. left = Among(Upto(own, cut), Migrations \ g.recorded)
      BY DEF left
    <3> QED BY <1>3, <1>5, <1>7, <3>1, <3>2, ForthIntoSquash
  <2>7. PICK R : Course(C, Q4, R)
    BY <2>6
  <2> HIDE DEF Q1, Q3, Q4, B, C
  <2>8. Course(S, Q1 \o Q3, C)
    BY <1>9, <2>5, CoursesJoin
  <2>9. Course(S, (Q1 \o Q3) \o Q4, R)
    BY <2>6, <2>7, <2>8, CoursesJoin
  <2> QED BY <1>4, <1>13, <2>9
<1> QED BY <1>12, <1>13

(* A plan keeps what is applied complete, after every step of it.           *)
LEMMA PlanIsOnCourse ==
  ASSUME HistoryIsWellMade, NEW g, IsSound(g), IsWhole(g.recorded),
         NEW S, S = g.recorded \cap Leaves, Complete(S),
         NEW target, target.kind \in {"latest", "zero", "to"},
         target.kind # "latest" => S \subseteq Covered(g.files),
         target.kind = "to" =>
           Target(g, target.to) \in g.nodes \/ IsInSquash(g, Target(g, target.to)),
         NEW adopt
  PROVE  \E R : Course(S, Plan(g, target, adopt), R)
<1> DEFINE l == Len(g.order)
           C == Below(g.order, l)
<1>1. g.order \in Seq(g.nodes) /\ g.nodes \subseteq Migrations /\ ToSet(g.order) = g.nodes
  BY OrderIsChain
<1>2. l \in Nat /\ l \in 0 .. l /\ 0 \in 0 .. l /\ Upto(g.order, l) = g.order
      /\ After(g.order, 0) = g.order
  <2> DEFINE order == g.order
  <2>1. order \in Seq(g.nodes)
    BY <1>1
  <2> HIDE DEF order
  <2>2. Len(order) \in Nat /\ SubSeq(order, 1, Len(order)) = order
    BY <2>1
  <2> QED BY <2>2 DEF Upto, After, order
<1>3. target.kind # "latest" => S \subseteq C
  BY OrderCovers
<1> HIDE DEF l
<1>4. CASE target.kind = "latest"
  <2> DEFINE Q == ForwardAll(g, Upto(g.order, l), adopt)
  <2>1. Plan(g, target, adopt) = Q
    BY <1>2, <1>4 DEF Plan
  <2> HIDE DEF Q
  <2>2. Course(S, Q, S \cup Below(g.order, l))
    BY <1>2, ForthToPosition DEF Q, l
  <2> QED BY <2>1, <2>2
<1>5. CASE target.kind = "zero"
  <2> DEFINE Q == BackwardAll(g, After(g.order, 0))
  <2>1. Plan(g, target, adopt) = Q
    BY <1>2, <1>5 DEF Plan
  <2> HIDE DEF Q
  <2>2. Course(S, Q, S \cap Below(g.order, 0))
    BY <1>2, <1>3, <1>5, BackToPosition DEF Q, l
  <2> QED BY <2>1, <2>2
<1>6. CASE target.kind = "to"
  <2> DEFINE at == Target(g, target.to)
  <2>1. CASE at \notin g.nodes
    <3>1. IsInSquash(g, at) /\ Plan(g, target, adopt) = PlanIntoSquash(g, at, adopt)
      BY <1>6, <2>1 DEF Plan
    <3>2. S \subseteq Below(g.order, Len(g.order))
      BY <1>3, <1>6 DEF l
    <3> HIDE DEF at
    <3> QED BY <3>1, <3>2, IntoSquashOnCourse
  <2>2. CASE at \in g.nodes
    <3> DEFINE n == Limit(g, at)
               B == Below(g.order, n)
               Q1 == BackwardAll(g, After(g.order, n))
               Q2 == ForwardAll(g, Upto(g.order, n), adopt)
    <3>1. Plan(g, target, adopt) = Q1 \o Q2
      BY <1>6, <2>2 DEF Plan
    <3> HIDE DEF at
    <3>2. n \in 0 .. l
      BY <1>1, <2>2, IndexOfFinds DEF Limit, l
    <3> HIDE DEF n
    <3>3. GoesBack(Q1) /\ Course(S, Q1, S \cap B)
      <4> HIDE DEF Q1
      <4> QED BY <1>3, <1>6, <3>2, BackToPosition DEF Q1, l
    <3>4. Complete(S \cap B)
      BY <3>2, OrderIsLayered, CompleteSets DEF l
    <3>5. Course(S \cap B, Q2, (S \cap B) \cup B)
      <4> DEFINE T == S \cap B
      <4>1. Complete(T) /\ (g.recorded \cap Leaves) \cap Below(g.order, n) \subseteq T
        BY <3>4
      <4> HIDE DEF T, Q2
      <4>2. Course(T, Q2, T \cup Below(g.order, n))
        BY <3>2, <4>1, ForthToPosition DEF Q2, l
      <4> QED BY <4>2 DEF T
    <3> HIDE DEF Q1, Q2
    <3>6. Course(S, Q1 \o Q2, (S \cap B) \cup B)
      BY <3>3, <3>5, CoursesJoin
    <3> QED BY <3>1, <3>6
  <2> QED BY <2>1, <2>2
<1> QED BY <1>4, <1>5, <1>6

(* After its first step, a plan is on course with the others.               *)
LEMMA CourseGoesOn ==
  ASSUME NEW T, NEW plan \in Seq(T), plan # <<>>, NEW S, OnCourse(S, plan),
         NEW R, R = Effect(S, {Head(plan)})
  PROVE  OnCourse(R, Tail(plan)) /\ Complete(R)
<1> DEFINE h == Head(plan)
           t == Tail(plan)
           n == Len(t)
<1>1. /\ Len(plan) = n + 1 /\ n \in Nat /\ plan[1] = h
      /\ \A i \in 1 .. n : t[i] = plan[i + 1]
  OBVIOUS
<1>2. /\ \A k \in 1 .. n + 1 : plan[k].backward => \A x \in Part(plan, 1, k) : x.backward
      /\ \A k \in 0 .. n + 1 : Complete(CourseAt(S, plan, k))
  BY <1>1 DEF OnCourse
<1>3. R = Effect(S, {h})
  OBVIOUS
<1> HIDE DEF h, t, n
<1>4. ASSUME NEW k \in 0 .. n PROVE Part(plan, 1, k + 1) = {h} \cup Part(t, 1, k)
  <2>1. 1 .. k + 1 = {1} \cup {i + 1 : i \in 1 .. k}
    <3>1. \A j \in 1 .. k + 1 : j = 1 \/ (j - 1 \in 1 .. k /\ j = (j - 1) + 1)
      BY <1>1
    <3>2. 1 \in 1 .. k + 1 /\ \A i \in 1 .. k : i + 1 \in 1 .. k + 1
      BY <1>1
    <3> QED BY <3>1, <3>2
  <2>2. \A i \in 1 .. k : t[i] = plan[i + 1]
    BY <1>1
  <2>3. Part(plan, 1, k + 1) \subseteq {h} \cup Part(t, 1, k)
    <3> SUFFICES ASSUME NEW j \in 1 .. k + 1 PROVE plan[j] \in {h} \cup Part(t, 1, k)
      BY DEF Part
    <3>1. CASE j = 1
      BY <1>1, <3>1
    <3>2. CASE \E i \in 1 .. k : j = i + 1
      BY <2>2, <3>2 DEF Part
    <3> QED BY <2>1, <3>1, <3>2
  <2>4. {h} \cup Part(t, 1, k) \subseteq Part(plan, 1, k + 1)
    <3>1. h \in Part(plan, 1, k + 1)
      BY <1>1, <2>1 DEF Part
    <3>2. \A i \in 1 .. k : t[i] \in Part(plan, 1, k + 1)
      BY <2>1, <2>2 DEF Part
    <3> QED BY <3>1, <3>2 DEF Part
  <2> QED BY <2>3, <2>4
<1>5. ASSUME NEW k \in 0 .. n PROVE CourseAt(R, t, k) = CourseAt(S, plan, k + 1)
  <2> DEFINE B == Part(t, 1, k)
  <2>1. (\A x \in {h} : x.backward) \/ (\A x \in B : ~x.backward)
    <3> SUFFICES ASSUME NEW i \in 1 .. k, t[i].backward PROVE h.backward
      BY DEF Part
    <3>1. i \in 1 .. n /\ i \in 0 .. n /\ i + 1 \in 1 .. n + 1
      BY <1>1
    <3>2. plan[i + 1].backward
      BY <1>1, <3>1
    <3>3. h \in Part(plan, 1, i + 1)
      BY <1>4, <3>1
    <3> QED BY <1>2, <3>1, <3>2, <3>3
  <2> HIDE DEF B
  <2>2. Effect(S, {h} \cup B) = Effect(Effect(S, {h}), B)
    BY <2>1, EffectsAddUp
  <2> QED BY <1>3, <1>4, <2>2 DEF CourseAt, B
<1>6. ASSUME NEW k \in 1 .. n, t[k].backward PROVE \A x \in Part(t, 1, k) : x.backward
  <2>1. k \in 0 .. n /\ k + 1 \in 1 .. n + 1 /\ plan[k + 1].backward
    BY <1>1, <1>6
  <2> QED BY <1>2, <1>4, <2>1
<1>7. ASSUME NEW k \in 0 .. n PROVE Complete(CourseAt(R, t, k))
  <2>1. k + 1 \in 0 .. n + 1
    BY <1>1
  <2> QED BY <1>2, <1>5, <2>1
<1>8. OnCourse(R, t)
  BY <1>6, <1>7 DEF OnCourse, n
<1>9. Complete(R)
  <2>1. 0 \in 0 .. n
    BY <1>1
  <2>2. CourseAt(R, t, 0) = R
    <3>1. Part(t, 1, 0) = {}
      BY DEF Part
    <3>2. BackOf({}) = {} /\ ForthOf({}) = {}
      BY DEF BackOf, ForthOf
    <3> QED BY <3>1, <3>2 DEF CourseAt, Effect
  <2> QED BY <1>7, <2>1, <2>2
<1> QED BY <1>8, <1>9 DEF t

-----------------------------------------------------------------------------
(* The steps of a plan are due, and apart from one another.                *)

(* The leaves that steps are about.                                         *)
Held(steps) == UNION {LeavesOf(x.name) : x \in steps}

(* No two steps of Q are about one leaf.                                    *)
StepsAreApart(Q) ==
  \A k \in 0 .. Len(Q) :
    Held(Part(Q, 1, k)) \cap Held(Part(Q, k + 1, Len(Q))) = {}

(* x does something where S is applied: it takes back what is in S, or adds *)
(* what is not.                                                             *)
IsDue(S, x) ==
  IF x.backward THEN LeavesOf(x.name) \subseteq S
  ELSE x.skip = TRUE \/ LeavesOf(x.name) \cap S = {}

(* Each step of Q does, whatever the steps before it did.                   *)
Fresh(S, Q) == StepsAreApart(Q) /\ \A x \in ToSet(Q) : IsDue(S, x)

(* Q is such a plan, about leaves in W.                                     *)
FreshIn(S, Q, W) ==
  (\E T : Q \in Seq(T)) /\ Fresh(S, Q) /\ Held(ToSet(Q)) \subseteq W

(* Two of them, one after the other.                                        *)
LEMMA FreshJoin ==
  ASSUME NEW S, NEW P1, NEW W1, FreshIn(S, P1, W1), NEW P2, NEW W2, FreshIn(S, P2, W2),
         W1 \cap W2 = {}
  PROVE  FreshIn(S, P1 \o P2, W1 \cup W2)
<1> DEFINE P == P1 \o P2
           m == Len(P1)
           n == Len(P2)
<1>1. PICK T1 : P1 \in Seq(T1)
  BY DEF FreshIn
<1>2. PICK T2 : P2 \in Seq(T2)
  BY DEF FreshIn
<1> DEFINE T == T1 \cup T2
<1>3. T1 \subseteq T /\ T2 \subseteq T
  OBVIOUS
<1> HIDE DEF T
<1>4. P1 \in Seq(T) /\ P2 \in Seq(T)
  BY <1>1, <1>2, <1>3, SeqMonotonic
<1>5. P \in Seq(T) /\ m \in Nat /\ n \in Nat
  BY <1>4
<1>6. IsConcat(P, P1, P2)
  BY <1>4, ConcatParts
<1> HIDE DEF P, m, n
<1>7. /\ StepsAreApart(P1) /\ Held(ToSet(P1)) \subseteq W1
      /\ StepsAreApart(P2) /\ Held(ToSet(P2)) \subseteq W2
  BY DEF FreshIn, Fresh
<1>8. \A X, Y : Held(X \cup Y) = Held(X) \cup Held(Y)
  BY DEF Held
<1>9. /\ \A i \in 0 .. m : Part(P1, 1, i) \subseteq ToSet(P1) /\ Part(P1, i + 1, m) \subseteq ToSet(P1)
      /\ \A i \in 0 .. n : Part(P2, 1, i) \subseteq ToSet(P2) /\ Part(P2, i + 1, n) \subseteq ToSet(P2)
  <2>1. ToSet(P1) = {P1[i] : i \in 1 .. m} /\ ToSet(P2) = {P2[i] : i \in 1 .. n}
    BY <1>4 DEF ToSet, m, n
  <2>2. /\ \A i \in 0 .. m : \A j \in (1 .. i) \cup (i + 1 .. m) : j \in 1 .. m
        /\ \A i \in 0 .. n : \A j \in (1 .. i) \cup (i + 1 .. n) : j \in 1 .. n
    BY <1>5
  <2> QED BY <2>1, <2>2 DEF Part
<1>10. \A X, Y : X \subseteq Y => Held(X) \subseteq Held(Y)
  BY DEF Held
<1>11. ASSUME NEW k \in 0 .. m
       PROVE  Held(Part(P, 1, k)) \cap Held(Part(P, k + 1, Len(P))) = {}
  <2>1. /\ Part(P, 1, k) = Part(P1, 1, k)
        /\ Part(P, k + 1, Len(P)) = Part(P1, k + 1, m) \cup ToSet(P2)
    BY <1>6 DEF IsConcat, m
  <2>2. Held(Part(P1, 1, k)) \cap Held(Part(P1, k + 1, m)) = {}
    BY <1>7 DEF StepsAreApart, m
  <2>3. Held(Part(P1, 1, k)) \subseteq W1
    BY <1>7, <1>9, <1>10
  <2> QED BY <1>7, <1>8, <2>1, <2>2, <2>3
<1>12. ASSUME NEW k \in 0 .. n
       PROVE  Held(Part(P, 1, m + k)) \cap Held(Part(P, m + k + 1, Len(P))) = {}
  <2>1. /\ Part(P, 1, m + k) = ToSet(P1) \cup Part(P2, 1, k)
        /\ Part(P, m + k + 1, Len(P)) = Part(P2, k + 1, n)
    BY <1>6 DEF IsConcat, m, n
  <2>2. Held(Part(P2, 1, k)) \cap Held(Part(P2, k + 1, n)) = {}
    BY <1>7 DEF StepsAreApart, n
  <2>3. Held(Part(P2, k + 1, n)) \subseteq W2
    BY <1>7, <1>9, <1>10
  <2> QED BY <1>7, <1>8, <2>1, <2>2, <2>3
<1>13. StepsAreApart(P)
  <2>1. Len(P) = m + n
    BY <1>6 DEF IsConcat, m, n
  <2>2. \A k \in 0 .. m + n : k \in 0 .. m \/ (k - m \in 0 .. n /\ m + (k - m) = k)
    BY <1>5
  <2> SUFFICES ASSUME NEW k \in 0 .. m + n
               PROVE  Held(Part(P, 1, k)) \cap Held(Part(P, k + 1, Len(P))) = {}
    BY <2>1 DEF StepsAreApart
  <2>3. CASE k \in 0 .. m
    BY <1>11, <2>3
  <2>4. CASE k - m \in 0 .. n /\ m + (k - m) = k
    <3> DEFINE j == k - m
    <3>1. j \in 0 .. n /\ k = m + j
      BY <2>4
    <3> HIDE DEF j
    <3> QED BY <1>12, <3>1
  <2> QED BY <2>2, <2>3, <2>4
<1>14. ToSet(P) = ToSet(P1) \cup ToSet(P2)
  BY <1>6 DEF IsConcat
<1>15. \A x \in ToSet(P) : IsDue(S, x)
  BY <1>14 DEF FreshIn, Fresh
<1>16. Held(ToSet(P)) \subseteq W1 \cup W2
  BY <1>7, <1>8, <1>14
<1> QED BY <1>5, <1>13, <1>15, <1>16 DEF FreshIn, Fresh, P

(* Unapplying names that are apart from B.                                  *)
LEMMA BackFresh ==
  ASSUME NEW M, NEW names \in Seq(M), NEW A, NEW Q, Q = Backwards(Among(names, A)),
         NEW B, Apart(B, names),
         NEW S, \A m \in ToSet(names) \cap A : LeavesOf(m) \subseteq S
  PROVE  FreshIn(S, Q, Below(names, Len(names)) \ B)
<1> DEFINE t == Among(names, A)
           n == Len(names)
           l == Len(t)
           L(X) == UNION {LeavesOf(m) : m \in X}
<1> DEFINE N == ToSet(names)
<1>0. names \in Seq(N)
  BY SeqOfElements
<1> HIDE DEF N
<1>1. t \in Seq(N \cap A) /\ SplitsAs(t, names, A)
  BY <1>0, AmongParts
<1>2. /\ Q \in Seq(BackwardIn(N \cap A)) /\ Len(Q) = l /\ l \in Nat /\ GoesBack(Q)
      /\ TakesBack(Q, t)
  <2> HIDE DEF t
  <2> QED BY <1>1, BackwardsParts DEF t
<1>3. n \in Nat
  OBVIOUS
<1> HIDE DEF t, n, l
<1>4. ASSUME NEW X PROVE Held({BackwardStep(m) : m \in X}) = L(X)
  <2>1. \A m : BackwardStep(m).name = m
    BY DEF BackwardStep
  <2> DEFINE Y == {BackwardStep(m) : m \in X}
  <2>2. UNION {LeavesOf(y.name) : y \in Y} \subseteq L(X)
    BY ONLY <2>1
  <2>3. L(X) \subseteq UNION {LeavesOf(y.name) : y \in Y}
    BY ONLY <2>1
  <2> QED BY ONLY <2>2, <2>3 DEF Held
<1>5. ASSUME NEW j \in 0 .. l
      PROVE  \E i \in 0 .. n :
               /\ L(Part(t, 1, j)) \subseteq Below(names, i)
               /\ L(Part(t, j + 1, l)) \subseteq L(Part(names, i + 1, n))
  <2>1. PICK i \in 0 .. n :
          /\ Part(t, 1, j) = Part(names, 1, i) \cap A
          /\ Part(t, j + 1, l) = Part(names, i + 1, n) \cap A
    BY <1>1 DEF SplitsAs, n, l
  <2>2. Below(names, i) = L(Part(names, 1, i))
    BY BelowParts DEF n
  <2>3. L(Part(t, 1, j)) \subseteq L(Part(names, 1, i))
    BY <2>1
  <2>4. L(Part(t, j + 1, l)) \subseteq L(Part(names, i + 1, n))
    BY <2>1
  <2> HIDE DEF L
  <2> QED BY <2>2, <2>3, <2>4
<1>6. ASSUME NEW i \in 0 .. n
      PROVE  L(Part(names, i + 1, n)) \cap (B \cup Below(names, i)) = {}
  BY ApartParts DEF n
<1>7. ASSUME NEW k \in 0 .. l
      PROVE  /\ l - k \in 0 .. l
             /\ Held(Part(Q, 1, k)) = L(Part(t, (l - k) + 1, l))
             /\ Held(Part(Q, k + 1, l)) = L(Part(t, 1, l - k))
  BY <1>2, <1>4 DEF TakesBack, l
<1> HIDE DEF L
<1>8. StepsAreApart(Q)
  <2> SUFFICES ASSUME NEW k \in 0 .. l
               PROVE  Held(Part(Q, 1, k)) \cap Held(Part(Q, k + 1, l)) = {}
    BY <1>2 DEF StepsAreApart
  <2> DEFINE j == l - k
  <2>1. /\ j \in 0 .. l /\ Held(Part(Q, 1, k)) = L(Part(t, j + 1, l))
        /\ Held(Part(Q, k + 1, l)) = L(Part(t, 1, j))
    BY <1>7
  <2> HIDE DEF j
  <2>2. PICK i \in 0 .. n : /\ L(Part(t, 1, j)) \subseteq Below(names, i)
                            /\ L(Part(t, j + 1, l)) \subseteq L(Part(names, i + 1, n))
    BY <1>5, <2>1
  <2> QED BY <1>6, <2>1, <2>2
<1>9. Held(ToSet(Q)) \subseteq Below(names, n) \ B
  <2>1. 0 \in 0 .. l /\ l \in 0 .. l /\ l - l = 0
    BY <1>2
  <2>2. ToSet(Q) = Part(Q, 1, l)
    BY <1>2 DEF ToSet, Part
  <2>3. Held(ToSet(Q)) = L(Part(t, 0 + 1, l))
    BY <1>7, <2>1, <2>2
  <2>4. PICK i \in 0 .. n : L(Part(t, 0 + 1, l)) \subseteq L(Part(names, i + 1, n))
    BY <1>5, <2>1
  <2>5. L(Part(names, i + 1, n)) \subseteq Below(names, n)
    BY BelowParts DEF n, L
  <2> QED BY <1>6, <2>3, <2>4, <2>5
<1>10. \A x \in ToSet(Q) : IsDue(S, x)
  <2> SUFFICES ASSUME NEW x \in ToSet(Q) PROVE IsDue(S, x)
    OBVIOUS
  <2>1. x \in BackwardIn(N \cap A) /\ x.backward
    BY <1>2 DEF ToSet, GoesBack
  <2>2. PICK m \in N \cap A : x = BackwardStep(m)
    BY <2>1 DEF BackwardIn
  <2>3. x.name = m
    BY <2>2 DEF BackwardStep
  <2> QED BY <2>1, <2>2, <2>3 DEF IsDue, N
<1> QED BY <1>2, <1>8, <1>9, <1>10 DEF FreshIn, Fresh, n

(* Applying names that are apart from B.                                    *)
LEMMA ForthFresh ==
  ASSUME NEW M, NEW names \in Seq(M), NEW B, Apart(B, names),
         NEW T, NEW Q \in Seq(T), GoesForth(Q), NEW R, Sweeps(Q, names, R),
         NEW S, \A x \in ToSet(Q) : x.skip = TRUE \/ LeavesOf(x.name) \cap S = {}
  PROVE  FreshIn(S, Q, Below(names, Len(names)) \ B)
<1> DEFINE n == Len(names)
           l == Len(Q)
           L(X) == UNION {LeavesOf(m) : m \in X}
<1>1. n \in Nat /\ l \in Nat
  OBVIOUS
<1>2. ToSet(Q) = Part(Q, 1, l)
  BY DEF ToSet, Part
<1> HIDE DEF n, l
<1>3. \A X, Y : NamesOf(X) \subseteq Y => Held(X) \subseteq L(Y)
  BY DEF NamesOf, Held
<1>4. ASSUME NEW k \in 0 .. l
      PROVE  \E i \in 0 .. n :
               /\ Held(Part(Q, 1, k)) \subseteq Below(names, i)
               /\ Held(Part(Q, k + 1, l)) \subseteq L(Part(names, i + 1, n))
  <2>1. PICK i \in 0 .. n :
          /\ NamesOf(Part(Q, 1, k)) \subseteq Part(names, 1, i)
          /\ NamesOf(Part(Q, k + 1, l)) \subseteq Part(names, i + 1, n)
    BY DEF Sweeps, n, l
  <2>2. Below(names, i) = L(Part(names, 1, i))
    BY BelowParts DEF n
  <2> HIDE DEF L
  <2> QED BY <1>3, <2>1, <2>2
<1>5. ASSUME NEW i \in 0 .. n
      PROVE  /\ L(Part(names, i + 1, n)) \cap (B \cup Below(names, i)) = {}
             /\ L(Part(names, i + 1, n)) \subseteq Below(names, n)
  BY ApartParts, BelowParts DEF n
<1> HIDE DEF L
<1>6. StepsAreApart(Q)
  <2> SUFFICES ASSUME NEW k \in 0 .. l
               PROVE  Held(Part(Q, 1, k)) \cap Held(Part(Q, k + 1, l)) = {}
    BY DEF StepsAreApart, l
  <2>1. PICK i \in 0 .. n :
          /\ Held(Part(Q, 1, k)) \subseteq Below(names, i)
          /\ Held(Part(Q, k + 1, l)) \subseteq L(Part(names, i + 1, n))
    BY <1>4
  <2> QED BY <1>5, <2>1
<1>7. Held(ToSet(Q)) \subseteq Below(names, n) \ B
  <2>1. 0 \in 0 .. l /\ Part(Q, 0 + 1, l) = Part(Q, 1, l)
    BY <1>1
  <2>2. PICK i \in 0 .. n : Held(Part(Q, 0 + 1, l)) \subseteq L(Part(names, i + 1, n))
    BY <1>4, <2>1
  <2> QED BY <1>2, <1>5, <2>1, <2>2
<1>8. \A x \in ToSet(Q) : IsDue(S, x)
  BY DEF GoesForth, IsDue
<1> QED BY <1>6, <1>7, <1>8 DEF FreshIn, Fresh, n

(* The first steps of a plan unapply what is applied after a position.      *)
LEMMA BackToPositionIsFresh ==
  ASSUME HistoryIsWellMade, NEW g, IsSound(g), IsWhole(g.recorded),
         NEW S, S = g.recorded \cap Leaves, NEW n \in 0 .. Len(g.order),
         NEW Q, Q = BackwardAll(g, After(g.order, n))
  PROVE  FreshIn(S, Q, Below(g.order, Len(g.order)) \ Below(g.order, n))
<1> DEFINE order == g.order
           names == After(order, n)
           B == {} \cup Below(order, n)
           A == g.applied
<1>1. /\ order \in Seq(g.nodes) /\ ToSet(order) = g.nodes
      /\ Chained({}, order) /\ Apart({}, order)
  BY OrderIsChain
<1>2. Q = Backwards(Among(names, A)) /\ n \in 0 .. Len(order)
  BY DEF BackwardAll
<1>3. B = Below(order, n)
  OBVIOUS
<1> HIDE DEF order
<1>4. /\ names \in Seq(g.nodes) /\ ToSet(names) \subseteq ToSet(order)
      /\ Apart(B, names)
      /\ B \cup Below(names, Len(names)) = {} \cup Below(order, Len(order))
  BY ONLY <1>1, <1>2, ChainParts
<1>5. \A m \in ToSet(names) \cap A : LeavesOf(m) \subseteq S
  BY <1>1, <1>4, AppliedLeaves
<1> HIDE DEF names, B, A
<1>6. FreshIn(S, Q, Below(names, Len(names)) \ B)
  <2> DEFINE nodes == g.nodes
  <2>1. names \in Seq(nodes)
    BY <1>4
  <2> HIDE DEF nodes
  <2> QED BY ONLY <1>2, <1>4, <1>5, <2>1, BackFresh
<1>7. Below(names, Len(names)) \ B = Below(order, Len(order)) \ Below(order, n)
  BY <1>3, <1>4
<1> QED BY <1>6, <1>7 DEF order

(* The others apply what is not applied up to a position.                   *)
LEMMA ForthToPositionIsFresh ==
  ASSUME HistoryIsWellMade, NEW g, IsSound(g), IsWhole(g.recorded),
         NEW S, S = g.recorded \cap Leaves, NEW n \in 0 .. Len(g.order), NEW adopt,
         NEW Q, Q = ForwardAll(g, Upto(g.order, n), adopt)
  PROVE  FreshIn(S, Q, Below(g.order, n))
<1> DEFINE order == g.order
           names == Upto(order, n)
<1>1. /\ order \in Seq(g.nodes) /\ ToSet(order) = g.nodes
      /\ Chained({}, order) /\ Apart({}, order)
  BY OrderIsChain
<1>2. Q = ForwardAll(g, names, adopt) /\ n \in 0 .. Len(order)
  OBVIOUS
<1> HIDE DEF order
<1>3. /\ names \in Seq(g.nodes) /\ StartsAs(names, order, n)
      /\ ToSet(names) \subseteq ToSet(order) /\ Apart({}, names)
  BY ONLY <1>1, <1>2, ChainParts
<1> HIDE DEF names
<1>4. Len(names) = n /\ Below(names, n) = Below(order, n)
  <2>1. n \in 0 .. n
    BY <1>2
  <2> QED BY <1>3, <2>1 DEF StartsAs
<1> DEFINE U == SkippedIn(SkippedOf(g, g.nodes, adopt)) \cup RunIn(g.nodes)
<1>5. /\ Q \in Seq(U) /\ GoesForth(Q) /\ Sweeps(Q, names, Leaves)
      /\ \A x \in ToSet(Q) : x.skip = TRUE \/ ~IsApplied(g, x.name)
  <2>1. \A m \in ToSet(names) : IsApplied(g, m) => LeavesOf(m) \subseteq Leaves
    BY <1>1, <1>3, AppliedLeaves
  <2> QED BY <1>2, <1>3, <2>1, ForwardSweeps
<1> HIDE DEF U
<1>6. \A x \in ToSet(Q) : x.name \in g.nodes
  <2>1. \A x \in ToSet(Q) : x \in U
    BY <1>5 DEF ToSet
  <2>2. \A x \in U : x.name \in g.nodes
    BY DEF U, SkippedIn, SkippedOf, RunIn, ForwardStep
  <2> QED BY <2>1, <2>2
<1>7. \A x \in ToSet(Q) : x.skip = TRUE \/ LeavesOf(x.name) \cap S = {}
  BY <1>5, <1>6, AppliedLeaves
<1>8. FreshIn(S, Q, Below(names, Len(names)) \ {})
  BY ONLY <1>3, <1>5, <1>7, ForthFresh
<1>9. Below(names, Len(names)) \ {} = Below(order, n)
  BY <1>4
<1> QED BY <1>8, <1>9 DEF order

(* The later originals of a squash, taken back.                             *)
LEMMA BackIntoSquashIsFresh ==
  ASSUME HistoryIsWellMade, NEW g, IsSound(g), NEW n \in 1 .. Len(g.order),
         NEW own, own = Originals(g, g.order[n]), own # <<>>,
         NEW cut \in 0 .. Len(own), NEW S, S = g.recorded \cap Leaves,
         NEW Q, Q = Backwards(Among(After(own, cut), g.recorded))
  PROVE  FreshIn(S, Q, Below(g.order, n))
<1> DEFINE s == g.order[n]
           B == Below(g.order, n - 1)
           names == After(own, cut)
           D == B \cup Below(own, cut)
           A == g.recorded
<1>1. /\ own \in Seq(Leaves) /\ ToSet(own) = LeavesOf(s)
      /\ Chained(B, own) /\ Apart(B, own)
  BY OriginalsAreChain
<1>2. Below(g.order, n) = B \cup LeavesOf(s)
  <2>1. n \in Nat /\ n # 0
    OBVIOUS
  <2> QED BY <2>1, BelowGrows
<1>3. cut \in 0 .. Len(own) /\ Q = Backwards(Among(names, A)) /\ S = A \cap Leaves
  OBVIOUS
<1> HIDE DEF s, B, A
<1>4. /\ names \in Seq(Leaves) /\ ToSet(names) \subseteq ToSet(own) /\ Apart(D, names)
  BY ONLY <1>1, <1>3, ChainParts
<1> HIDE DEF names, D
<1>5. \A m \in Leaves : LeavesOf(m) = {m}
  BY DEF LeavesOf, Leaves
<1>6. ToSet(names) \subseteq Leaves /\ ToSet(names) \subseteq LeavesOf(s)
  BY <1>1, <1>4, SeqOfElements
<1>7. \A m \in ToSet(names) \cap A : LeavesOf(m) \subseteq S
  BY <1>3, <1>5, <1>6
<1>8. FreshIn(S, Q, Below(names, Len(names)) \ D)
  BY ONLY <1>3, <1>4, <1>7, BackFresh
<1>9. Below(names, Len(names)) \subseteq LeavesOf(s)
  <2> SUFFICES ASSUME NEW i \in 1 .. Len(names) PROVE LeavesOf(names[i]) \subseteq LeavesOf(s)
    BY DEF Below
  <2>1. names[i] \in ToSet(names)
    BY <1>4 DEF ToSet
  <2> QED BY <1>5, <1>6, <2>1
<1>10. Below(names, Len(names)) \ D \subseteq Below(g.order, n)
  BY <1>2, <1>9
<1> QED BY <1>8, <1>10 DEF FreshIn

(* The first originals of a squash that is not applied.                     *)
LEMMA ForthIntoSquashIsFresh ==
  ASSUME HistoryIsWellMade, NEW g, IsSound(g), NEW n \in 1 .. Len(g.order),
         NEW own, own = Originals(g, g.order[n]), own # <<>>,
         NEW cut \in 0 .. Len(own), NEW S, S = g.recorded \cap Leaves,
         LeavesOf(g.order[n]) \cap g.recorded = {},
         NEW left, left = Among(Upto(own, cut), Migrations \ g.recorded),
         NEW Q, Q = RunAll(left)
  PROVE  FreshIn(S, Q, LeavesOf(g.order[n]) \ Below(g.order, n - 1))
<1> DEFINE s == g.order[n]
           B == Below(g.order, n - 1)
           names == Upto(own, cut)
           A == Migrations \ g.recorded
<1>1. /\ own \in Seq(Leaves) /\ ToSet(own) = LeavesOf(s)
      /\ Chained(B, own) /\ Apart(B, own)
  BY OriginalsAreChain
<1>2. /\ cut \in 0 .. Len(own) /\ left = Among(names, A) /\ Q = RunAll(left)
      /\ LeavesOf(s) \cap g.recorded = {}
  OBVIOUS
<1> HIDE DEF s, B
<1>3. names \in Seq(Leaves) /\ ToSet(names) \subseteq ToSet(own) /\ Apart(B, names)
  BY ONLY <1>1, <1>2, ChainParts
<1> HIDE DEF names
<1>4. ToSet(names) \subseteq Leaves /\ ToSet(names) \subseteq LeavesOf(s)
  BY <1>1, <1>3, SeqOfElements
<1>5. \A m \in Leaves : LeavesOf(m) = {m}
  BY DEF LeavesOf, Leaves
<1>6. \A m \in ToSet(names) : m \in A \/ LeavesOf(m) \subseteq Leaves
  BY <1>4, <1>5
<1> HIDE DEF A
<1> DEFINE N == ToSet(names)
<1>7. names \in Seq(N)
  BY <1>3, SeqOfElements
<1>8. \A m \in N : m \in A \/ LeavesOf(m) \subseteq Leaves
  BY <1>6
<1> HIDE DEF N
<1>9. Q \in Seq(RunIn(N)) /\ GoesForth(Q) /\ Sweeps(Q, names, Leaves)
  BY ONLY <1>2, <1>6, <1>7, LeftSweeps
<1>10. \A x \in ToSet(Q) : x.skip = TRUE \/ LeavesOf(x.name) \cap S = {}
  <2> SUFFICES ASSUME NEW x \in ToSet(Q) PROVE LeavesOf(x.name) \cap S = {}
    OBVIOUS
  <2>1. x \in RunIn(N)
    BY <1>9, SeqOfElements
  <2>2. x.name \in N
    BY <2>1 DEF RunIn, ForwardStep
  <2> QED BY <1>2, <1>4, <1>5, <2>2 DEF N
<1>11. FreshIn(S, Q, Below(names, Len(names)) \ B)
  BY ONLY <1>3, <1>9, <1>10, ForthFresh
<1>12. Below(names, Len(names)) \subseteq LeavesOf(s)
  <2> SUFFICES ASSUME NEW i \in 1 .. Len(names) PROVE LeavesOf(names[i]) \subseteq LeavesOf(s)
    BY DEF Below
  <2>1. names[i] \in ToSet(names)
    BY <1>3 DEF ToSet
  <2> QED BY <1>4, <1>5, <2>1
<1>13. Below(names, Len(names)) \ B \subseteq LeavesOf(s) \ B
  BY <1>12
<1> QED BY <1>11, <1>13 DEF FreshIn, s, B

(* A plan to an original of a squash.                                       *)
LEMMA IntoSquashIsFresh ==
  ASSUME HistoryIsWellMade, NEW g, IsSound(g), IsWhole(g.recorded),
         NEW S, S = g.recorded \cap Leaves,
         NEW at, IsInSquash(g, at), NEW adopt
  PROVE  \E W : FreshIn(S, PlanIntoSquash(g, at, adopt), W)
<1> DEFINE s == Resolve(g, at)
           n == IndexOf(g.order, s)
           own == Originals(g, s)
           cut == IndexOf(own, at)
           left == Among(Upto(own, cut), Migrations \ g.recorded)
           Q1 == BackwardAll(g, After(g.order, n))
           Q2 == Backwards(Among(After(own, cut), g.recorded))
           Q3 == ForwardAll(g, Upto(g.order, n - 1), adopt)
           Q4 == RunAll(left)
           B == Below(g.order, n)
           C == Below(g.order, n - 1)
           All == Below(g.order, Len(g.order))
<1>1. s \in ToSet(g.order) /\ at \in ToSet(own)
  BY DEF IsInSquash
<1>2. g.order \in Seq(g.nodes) /\ g.nodes \subseteq Migrations /\ ToSet(g.order) = g.nodes
  BY OrderIsChain
<1>3. n \in 1 .. Len(g.order) /\ g.order[n] = s
  <2> DEFINE order == g.order
  <2>1. order \in Seq(g.nodes) /\ s \in ToSet(order) /\ n = IndexOf(order, s)
    BY <1>1, <1>2
  <2> HIDE DEF s, n, order
  <2>2. n \in 1 .. Len(order) /\ order[n] = s
    BY ONLY <2>1, IndexOfFinds
  <2> QED BY <2>2 DEF order
<1>4. PlanIntoSquash(g, at, adopt) = IF IsApplied(g, s) THEN Q1 \o Q2 ELSE (Q1 \o Q3) \o Q4
  BY DEF PlanIntoSquash, RunAll
<1> HIDE DEF s, n
<1>5. own = Originals(g, g.order[n]) /\ own # <<>>
  BY <1>1, <1>3 DEF ToSet
<1>6. own \in Seq(Leaves)
  <2> HIDE DEF own
  <2> QED BY <1>3, <1>5, OriginalsAreChain
<1>7. cut \in 0 .. Len(own)
  <2> HIDE DEF own
  <2>1. cut \in 1 .. Len(own)
    BY <1>1, <1>6, IndexOfFinds
  <2> QED BY <2>1
<1> HIDE DEF own, cut
<1>8. n \in 0 .. Len(g.order) /\ n - 1 \in 0 .. Len(g.order) /\ n \in Nat /\ n # 0
  BY <1>3
<1>9. B = C \cup LeavesOf(s)
  BY <1>3, <1>8, BelowGrows
<1>10. FreshIn(S, Q1, All \ B)
  <2> HIDE DEF Q1
  <2> QED BY <1>8, BackToPositionIsFresh DEF Q1
<1>11. CASE IsApplied(g, s)
  <2>1. FreshIn(S, Q2, B)
    <3> HIDE DEF Q2
    <3>1. Q2 = Backwards(Among(After(own, cut), g.recorded))
      BY DEF Q2
    <3> QED BY <1>3, <1>5, <1>7, <3>1, BackIntoSquashIsFresh
  <2> HIDE DEF Q1, Q2, B, All
  <2>2. FreshIn(S, Q1 \o Q2, (All \ B) \cup B)
    <3>1. (All \ B) \cap B = {}
      OBVIOUS
    <3> QED BY <1>10, <2>1, <3>1, FreshJoin
  <2> QED BY <1>4, <1>11, <2>2
<1>12. CASE ~IsApplied(g, s)
  <2>1. LeavesOf(s) \cap g.recorded = {}
    BY <1>1, <1>2, <1>12, NodesAreAppliedWhole
  <2>2. FreshIn(S, Q3, C)
    <3> HIDE DEF Q3
    <3>1. Q3 = ForwardAll(g, Upto(g.order, n - 1), adopt)
      BY DEF Q3
    <3> DEFINE m == n - 1
    <3>2. m \in 0 .. Len(g.order) /\ Q3 = ForwardAll(g, Upto(g.order, m), adopt)
      BY <1>8, <3>1
    <3> HIDE DEF m
    <3>3. FreshIn(S, Q3, Below(g.order, m))
      BY <3>2, ForthToPositionIsFresh
    <3> QED BY <3>3 DEF m
  <2>3. FreshIn(S, Q4, LeavesOf(s) \ C)
    <3>1. LeavesOf(g.order[n]) \cap g.recorded = {}
      BY <1>3, <2>1
    <3> HIDE DEF left
    <3>2. left = Among(Upto(own, cut), Migrations \ g.recorded)
      BY DEF left
    <3>3. FreshIn(S, Q4, LeavesOf(g.order[n]) \ Below(g.order, n - 1))
      BY <1>3, <1>5, <1>7, <3>1, <3>2, ForthIntoSquashIsFresh
    <3> QED BY <1>3, <3>3
  <2> HIDE DEF Q1, Q3, Q4, B, C, All
  <2>4. FreshIn(S, Q1 \o Q3, (All \ B) \cup C)
    <3>1. (All \ B) \cap C = {}
      BY <1>9
    <3> QED BY <1>10, <2>2, <3>1, FreshJoin
  <2>5. FreshIn(S, (Q1 \o Q3) \o Q4, ((All \ B) \cup C) \cup (LeavesOf(s) \ C))
    <3>1. ((All \ B) \cup C) \cap (LeavesOf(s) \ C) = {}
      BY <1>9
    <3> QED BY <2>3, <2>4, <3>1, FreshJoin
  <2> QED BY <1>4, <1>12, <2>5
<1> QED BY <1>11, <1>12

(* No plan does again what is done, nor anything twice.                     *)
LEMMA PlanIsFresh ==
  ASSUME HistoryIsWellMade, NEW g, IsSound(g), IsWhole(g.recorded),
         NEW S, S = g.recorded \cap Leaves,
         NEW target, target.kind \in {"latest", "zero", "to"},
         target.kind = "to" =>
           Target(g, target.to) \in g.nodes \/ IsInSquash(g, Target(g, target.to)),
         NEW adopt
  PROVE  Fresh(S, Plan(g, target, adopt))
<1> DEFINE l == Len(g.order)
           All == Below(g.order, l)
<1> SUFFICES \E W : FreshIn(S, Plan(g, target, adopt), W)
  BY DEF FreshIn
<1>1. g.order \in Seq(g.nodes) /\ ToSet(g.order) = g.nodes
  BY OrderIsChain
<1>2. l \in 0 .. l /\ 0 \in 0 .. l /\ Upto(g.order, l) = g.order
      /\ After(g.order, 0) = g.order
  <2> DEFINE order == g.order
  <2>1. order \in Seq(g.nodes)
    BY <1>1
  <2> HIDE DEF order
  <2>2. Len(order) \in Nat /\ SubSeq(order, 1, Len(order)) = order
    BY <2>1
  <2> QED BY <2>2 DEF Upto, After, order
<1> HIDE DEF l
<1>3. CASE target.kind = "latest"
  <2> DEFINE Q == ForwardAll(g, Upto(g.order, l), adopt)
  <2>1. Plan(g, target, adopt) = Q
    BY <1>2, <1>3 DEF Plan
  <2> HIDE DEF Q
  <2>2. FreshIn(S, Q, Below(g.order, l))
    BY <1>2, ForthToPositionIsFresh DEF Q, l
  <2> QED BY <2>1, <2>2
<1>4. CASE target.kind = "zero"
  <2> DEFINE Q == BackwardAll(g, After(g.order, 0))
  <2>1. Plan(g, target, adopt) = Q
    BY <1>2, <1>4 DEF Plan
  <2> HIDE DEF Q
  <2>2. FreshIn(S, Q, Below(g.order, Len(g.order)) \ Below(g.order, 0))
    BY <1>2, BackToPositionIsFresh DEF Q, l
  <2> QED BY <2>1, <2>2
<1>5. CASE target.kind = "to"
  <2> DEFINE at == Target(g, target.to)
  <2>1. CASE at \notin g.nodes
    <3>1. IsInSquash(g, at) /\ Plan(g, target, adopt) = PlanIntoSquash(g, at, adopt)
      BY <1>5, <2>1 DEF Plan
    <3> HIDE DEF at
    <3> QED BY <3>1, IntoSquashIsFresh
  <2>2. CASE at \in g.nodes
    <3> DEFINE n == Limit(g, at)
               B == Below(g.order, n)
               Q1 == BackwardAll(g, After(g.order, n))
               Q2 == ForwardAll(g, Upto(g.order, n), adopt)
    <3>1. Plan(g, target, adopt) = Q1 \o Q2
      BY <1>5, <2>2 DEF Plan
    <3> HIDE DEF at
    <3>2. n \in 0 .. l
      BY <1>1, <2>2, IndexOfFinds DEF Limit, l
    <3> HIDE DEF n
    <3>3. FreshIn(S, Q1, All \ B)
      <4> HIDE DEF Q1
      <4> QED BY <3>2, BackToPositionIsFresh DEF Q1, l
    <3>4. FreshIn(S, Q2, B)
      <4> HIDE DEF Q2
      <4> QED BY <3>2, ForthToPositionIsFresh DEF Q2, l
    <3> HIDE DEF Q1, Q2, B, All
    <3>5. (All \ B) \cap B = {}
      OBVIOUS
    <3>6. FreshIn(S, Q1 \o Q2, (All \ B) \cup B)
      BY <3>3, <3>4, <3>5, FreshJoin
    <3> QED BY <3>1, <3>6
  <2> QED BY <2>1, <2>2
<1> QED BY <1>3, <1>4, <1>5

(* After its first step, the others are as fresh as they were.              *)
LEMMA FreshGoesOn ==
  ASSUME NEW T, NEW plan \in Seq(T), plan # <<>>, NEW S, Fresh(S, plan),
         NEW R, R = Effect(S, {Head(plan)})
  PROVE  Fresh(R, Tail(plan)) /\ IsDue(S, Head(plan))
<1> DEFINE h == Head(plan)
           t == Tail(plan)
           n == Len(t)
<1>1. /\ Len(plan) = n + 1 /\ n \in Nat /\ plan[1] = h
      /\ \A i \in 1 .. n : t[i] = plan[i + 1]
  OBVIOUS
<1>2. ToSet(t) = Part(t, 1, n) /\ h \in ToSet(plan)
  <2>1. t \in Seq(T) /\ DOMAIN t = 1 .. n /\ DOMAIN plan = 1 .. n + 1
    BY <1>1
  <2>2. 1 \in 1 .. n + 1
    BY <1>1
  <2> HIDE DEF t, n, h
  <2>3. ToSet(t) = Part(t, 1, n)
    BY <2>1 DEF ToSet, Part
  <2>4. plan[1] \in ToSet(plan)
    BY <2>1, <2>2 DEF ToSet
  <2> QED BY <1>1, <2>3, <2>4
<1>3. /\ \A k \in 0 .. n + 1 :
           Held(Part(plan, 1, k)) \cap Held(Part(plan, k + 1, n + 1)) = {}
      /\ \A x \in ToSet(plan) : IsDue(S, x)
  BY <1>1 DEF Fresh, StepsAreApart
<1>4. R = Effect(S, {h})
  OBVIOUS
<1>5. \A k \in 1 .. n + 1 : plan[k] \in ToSet(plan)
  BY <1>1 DEF ToSet
<1> HIDE DEF h, t, n
<1>6. ASSUME NEW k \in 0 .. n
      PROVE  /\ Part(t, 1, k) \subseteq Part(plan, 1, k + 1)
             /\ Part(t, k + 1, n) \subseteq Part(plan, k + 1 + 1, n + 1)
  <2>1. \A i \in 1 .. k : i \in 1 .. n /\ i + 1 \in 1 .. k + 1
    BY <1>1
  <2>2. \A i \in k + 1 .. n : i \in 1 .. n /\ i + 1 \in k + 1 + 1 .. n + 1
    BY <1>1
  <2> QED BY <1>1, <2>1, <2>2 DEF Part
<1>7. \A X, Y : X \subseteq Y => Held(X) \subseteq Held(Y)
  BY DEF Held
<1>8. StepsAreApart(t)
  <2> SUFFICES ASSUME NEW k \in 0 .. n
               PROVE  Held(Part(t, 1, k)) \cap Held(Part(t, k + 1, n)) = {}
    BY DEF StepsAreApart, n
  <2> DEFINE j == k + 1
  <2>1. j \in 0 .. n + 1
    BY <1>1
  <2>2. Part(t, 1, k) \subseteq Part(plan, 1, j) /\ Part(t, k + 1, n) \subseteq Part(plan, j + 1, n + 1)
    BY <1>6
  <2> HIDE DEF j
  <2> QED BY <1>3, <1>7, <2>1, <2>2
<1>9. ASSUME NEW x \in ToSet(t)
      PROVE  IsDue(S, x) /\ LeavesOf(x.name) \cap LeavesOf(h.name) = {}
  <2>1. PICK i \in 1 .. n : x = t[i]
    BY <1>2 DEF Part
  <2>2. x = plan[i + 1] /\ i + 1 \in 1 .. n + 1 /\ i + 1 \in 1 + 1 .. n + 1
    BY <1>1, <2>1
  <2>3. 1 \in 0 .. n + 1 /\ 1 \in 1 .. 1
    BY <1>1
  <2>4. h \in Part(plan, 1, 1) /\ x \in Part(plan, 1 + 1, n + 1)
    BY <1>1, <2>2, <2>3 DEF Part
  <2>5. LeavesOf(h.name) \subseteq Held(Part(plan, 1, 1))
        /\ LeavesOf(x.name) \subseteq Held(Part(plan, 1 + 1, n + 1))
    BY <2>4 DEF Held
  <2> QED BY <1>3, <1>5, <2>2, <2>3, <2>5
<1>10. R = (IF h.backward THEN S \ LeavesOf(h.name) ELSE S \cup LeavesOf(h.name))
  BY <1>4 DEF Effect, BackOf, ForthOf
<1>11. \A x \in ToSet(t) : IsDue(R, x)
  BY <1>9, <1>10 DEF IsDue
<1> QED BY <1>2, <1>3, <1>8, <1>11 DEF Fresh, h, t

(* A plan with S applied: what it leaves is complete, and each step is due. *)
Ready(S, plan) == OnCourse(S, plan) /\ Fresh(S, plan)

(* So it is again, after its first step.                                    *)
LEMMA ReadyGoesOn ==
  ASSUME NEW T, NEW plan \in Seq(T), plan # <<>>, NEW S, Ready(S, plan),
         NEW R, R = Effect(S, {Head(plan)})
  PROVE  Ready(R, Tail(plan)) /\ Complete(R)
<1>1. OnCourse(R, Tail(plan)) /\ Complete(R)
  BY CourseGoesOn DEF Ready
<1>2. Fresh(R, Tail(plan))
  BY FreshGoesOn DEF Ready
<1> QED BY <1>1, <1>2 DEF Ready

-----------------------------------------------------------------------------
(* The releases that take a database back know all that can be applied to   *)
(* it, and every release is complete.                                       *)
ReleasesCover == SquashesAreKnown /\ FilesAreComplete /\ FilesCoverNames

Applied == recorded \cap Leaves

(* The steps p has left are due, and keep what is applied complete.         *)
StaysOnCourse(p) ==
  /\ pc[p] = "running" => Ready(Applied, run[p].plan)
  /\ pc[p] = "squashing" => Ready(Applied, Tail(run[p].plan))

(* DependenciesAreApplied is not inductive: that what is left of a plan     *)
(* keeps the record complete, is. That it is due, too, is for OperationsFit.*)
CourseInv ==
  ReleasesCover => Complete(Applied) /\ \A p \in Processes : StaysOnCourse(p)

(* Where only p moves, and the record only if p holds the lock.             *)
LEMMA CourseStep ==
  ASSUME MigrateInv, CourseInv, ReleasesCover, [Next]_vars, NEW p \in Processes,
         \A q \in Processes \ {p} : run'[q] = run[q] /\ pc'[q] = pc[q],
         Applied' = Applied \/ p \in holders,
         Complete(Applied)', StaysOnCourse(p)'
  PROVE  CourseInv'
<1> SUFFICES ASSUME NEW q \in Processes PROVE StaysOnCourse(q)'
  BY DEF CourseInv
<1>1. CASE q = p
  BY <1>1
<1>2. CASE q # p
  <2>1. run'[q] = run[q] /\ pc'[q] = pc[q] /\ StaysOnCourse(q)
    BY <1>2 DEF CourseInv
  <2>2. CASE pc[q] \in {"running", "squashing"}
    <3>1. Applied' = Applied
      BY <1>2, <2>2 DEF MigrateInv, LockInv, OneAtATime
    <3> QED BY <2>1, <3>1 DEF StaysOnCourse
  <2>3. CASE pc[q] \notin {"running", "squashing"}
    BY <2>1, <2>3 DEF StaysOnCourse
  <2> QED BY <2>2, <2>3
<1> QED BY <1>1, <1>2

(* The plan of a run keeps what is applied now complete.                    *)
LEMMA MakePlanOnCourse ==
  ASSUME HistoryIsWellMade, MigrateInv, WholeInv, ReleasesCover, Complete(Applied),
         NEW p \in Processes, MakePlan(p)
  PROVE  Ready(Applied, run'[p].plan)
<1> DEFINE request == run[p].request
           files == request.files
           g == Graph(files, recorded)
           target == GoalOf(request, g)
           adopt == Adopted(request)
<1>1. request \in Request /\ request \in site.requests \cup {NoRun.request}
  BY RequestsAreTyped DEF MigrateInv, RunsFit, RunFits
<1>2. Accepted(request, g) /\ run'[p].plan = Plan(g, target, adopt)
  <2> DEFINE plan == PlanOf(request, g)
             todo == IF plan = <<>> THEN <<>> ELSE Body(plan[1], request.fake)
  <2>1. /\ Accepted(request, g)
        /\ run' = [run EXCEPT ![p] = [run[p] EXCEPT !.graph = g, !.recorded = recorded,
                                                   !.plan = plan, !.todo = todo]]
    BY DEF MakePlan
  <2>2. /\ p \in DOMAIN run /\ "plan" \in DOMAIN run[p]
    BY DEF MigrateInv, RunsFit, LockInv, RunsAreRecords, IsRun, RunFields
  <2> HIDE DEF plan, todo, g
  <2>3. run'[p].plan = plan
    BY <2>1, <2>2
  <2> QED BY <2>1, <2>3 DEF plan, PlanOf
<1>3. /\ target.kind \in {"latest", "zero", "to"}
      /\ target.kind = "latest" <=> request.target.kind = "latest"
  BY <1>1 DEF GoalOf, RollbackTarget, Zero, To, Request
<1>4. /\ ~IsBroken(g)
      /\ target.kind = "to" =>
           Target(g, target.to) \in g.nodes \/ IsInSquash(g, Target(g, target.to))
  BY <1>2 DEF Accepted
<1>5. files \in SUBSET Migrations /\ g.files = files /\ g.recorded = recorded
  BY <1>1 DEF Request, Graph
<1>6. AreComplete(files)
  <2>1. CASE request \in site.requests
    BY <2>1 DEF ReleasesCover, FilesAreComplete, AreComplete
  <2>2. CASE request = NoRun.request
    BY <2>2 DEF NoRun, AreComplete
  <2> QED BY <1>1, <2>1, <2>2
<1>7. IsSound(g)
  <2>1. g = Graph(g.files, g.recorded)
    BY <1>5
  <2> HIDE DEF g
  <2> QED BY <1>4, <1>5, <1>6, <2>1 DEF IsSound
<1>8. IsWhole(g.recorded)
  BY <1>5 DEF WholeInv, ReleasesCover, SquashesAreWhole, IsWhole
<1>9. target.kind # "latest" => Applied \subseteq Covered(g.files)
  <2> SUFFICES ASSUME request.target.kind # "latest" PROVE Applied \subseteq Covered(files)
    BY <1>3, <1>5
  <2>1. request \in site.requests
    BY <1>1 DEF NoRun, Latest
  <2> QED BY <2>1 DEF ReleasesCover, FilesCoverNames, WholeInv, Applied
<1>10. Applied = g.recorded \cap Leaves
  BY <1>5 DEF Applied
<1> HIDE DEF g, target, adopt
<1>11. \E R : Course(Applied, Plan(g, target, adopt), R)
  BY <1>3, <1>4, <1>7, <1>8, <1>9, <1>10, PlanIsOnCourse
<1>12. Fresh(Applied, Plan(g, target, adopt))
  BY <1>3, <1>4, <1>7, <1>8, <1>10, PlanIsFresh
<1> QED BY <1>2, <1>11, <1>12 DEF Course, Ready

(* Every process has a run and a place in it. *)
LEMMA ProcessesRun ==
  ASSUME MigrateInv
  PROVE  DOMAIN run = Processes /\ DOMAIN pc = Processes
BY DEF MigrateInv, RunsFit

(* Where nothing is recorded and p is not at work afterwards.               *)
LEMMA IdleOnCourse ==
  ASSUME MigrateInv, CourseInv, ReleasesCover, [Next]_vars, NEW p \in Processes,
         NEW r, NEW l, l \notin {"running", "squashing"},
         run' = [run EXCEPT ![p] = r], pc' = [pc EXCEPT ![p] = l], recorded' = recorded
  PROVE  CourseInv'
<1>1. Applied' = Applied
  BY DEF Applied
<1>2. /\ \A q \in Processes \ {p} : run'[q] = run[q] /\ pc'[q] = pc[q]
      /\ pc'[p] = l
  BY ProcessesRun
<1>3. StaysOnCourse(p)'
  BY <1>2 DEF StaysOnCourse
<1>4. Complete(Applied)'
  BY <1>1 DEF CourseInv, Complete
<1> QED BY <1>1, <1>2, <1>3, <1>4, CourseStep

(* The next step of a plan: what is left is on course from what is applied. *)
LEMMA AdvanceOnCourse ==
  ASSUME MigrateInv, CourseInv, ReleasesCover, [Next]_vars, NEW p \in Processes,
         p \in holders, NEW names, Advance(p, names),
         NEW R, R = Applied', Complete(R), Ready(R, Tail(run[p].plan))
  PROVE  CourseInv'
<1> DEFINE left == Tail(run[p].plan)
           todo == IF left = <<>> THEN <<>> ELSE Body(left[1], run[p].request.fake)
           r == [run[p] EXCEPT !.recorded = names, !.plan = left, !.rest = {},
                               !.todo = todo]
<1>1. run' = [run EXCEPT ![p] = r] /\ pc' = [pc EXCEPT ![p] = "running"]
  BY DEF Advance, Goto
<1> HIDE DEF left, todo
<1>2. r.plan = left
  BY DEF MigrateInv, LockInv, RunsAreRecords, IsRun, RunFields
<1> HIDE DEF r
<1>3. /\ \A q \in Processes \ {p} : run'[q] = run[q] /\ pc'[q] = pc[q]
      /\ run'[p] = r /\ pc'[p] = "running"
  <2>1. DOMAIN run = Processes /\ DOMAIN pc = Processes
    BY ProcessesRun
  <2> QED BY ONLY <1>1, <2>1, p \in Processes
<1>4. StaysOnCourse(p)'
  BY <1>2, <1>3 DEF StaysOnCourse, left
<1>5. Complete(Applied)'
  BY DEF Complete
<1> QED BY <1>3, <1>4, <1>5, CourseStep

(* A plan that is made is on course. *)
LEMMA MakePlanKeepsCourse ==
  ASSUME HistoryIsWellMade, MigrateInv, WholeInv, CourseInv, ReleasesCover, [Next]_vars,
         NEW p \in Processes, MakePlan(p)
  PROVE  CourseInv'
<1>1. recorded' = recorded /\ pc' = [pc EXCEPT ![p] = "running"]
  BY DEF MakePlan, Goto, database
<1>2. PICK r : run' = [run EXCEPT ![p] = r]
  BY DEF MakePlan
<1>3. /\ \A q \in Processes \ {p} : run'[q] = run[q] /\ pc'[q] = pc[q]
      /\ pc'[p] = "running"
  BY <1>1, <1>2, ProcessesRun
<1>4. Applied' = Applied /\ Complete(Applied)
  BY <1>1 DEF Applied, CourseInv
<1>5. Ready(Applied, run'[p].plan)
  BY <1>4, MakePlanOnCourse
<1>6. StaysOnCourse(p)'
  BY <1>3, <1>4, <1>5 DEF StaysOnCourse
<1>7. Complete(Applied)'
  BY <1>4 DEF Complete
<1> QED BY <1>3, <1>4, <1>6, <1>7, CourseStep

(* An operation records nothing, and the plan stays. *)
LEMMA RunOperationKeepsCourse ==
  ASSUME MigrateInv, CourseInv, ReleasesCover, [Next]_vars,
         NEW p \in Processes, RunOperation(p)
  PROVE  CourseInv'
<1> DEFINE r == [run[p] EXCEPT !.todo = Tail(run[p].todo)]
<1>1. /\ recorded' = recorded /\ pc' = [pc EXCEPT ![p] = "running"] /\ pc[p] = "running"
      /\ run' = [run EXCEPT ![p] = r]
  BY DEF RunOperation, MigrateInv, LockInv, RunsAreRecords
<1>2. r.plan = run[p].plan
  BY DEF MigrateInv, LockInv, RunsAreRecords, IsRun, RunFields
<1> HIDE DEF r
<1>3. /\ \A q \in Processes \ {p} : run'[q] = run[q] /\ pc'[q] = pc[q]
      /\ run'[p] = r /\ pc'[p] = "running"
  <2>1. DOMAIN run = Processes /\ DOMAIN pc = Processes
    BY ProcessesRun
  <2> QED BY ONLY <1>1, <2>1, p \in Processes
<1>4. Applied' = Applied
  BY <1>1 DEF Applied
<1>5. StaysOnCourse(p)'
  BY <1>1, <1>2, <1>3, <1>4 DEF StaysOnCourse, CourseInv
<1>6. Complete(Applied)'
  BY <1>4 DEF Complete, CourseInv
<1> QED BY <1>3, <1>4, <1>5, <1>6, CourseStep

(* The effect of one step on the leaves. *)
LEMMA EffectOfOne ==
  ASSUME NEW S, NEW h
  PROVE  Effect(S, {h}) = IF h.backward THEN S \ LeavesOf(h.name) ELSE S \cup LeavesOf(h.name)
BY DEF Effect, BackOf, ForthOf

(* A migration is unapplied with its leaves, and no others.                 *)
LEMMA UnrecordKeepsCourse ==
  ASSUME MigrateInv, CourseInv, ReleasesCover, [Next]_vars,
         NEW p \in Processes, Unrecord(p)
  PROVE  CourseInv'
<1> DEFINE n == Step(p).name
           gone == Unrecorded(run[p].graph, n)
           plan == run[p].plan
           names == run[p].recorded \ gone
<1>1. /\ pc[p] = "running" /\ plan # <<>> /\ Step(p).backward
      /\ recorded' = recorded \ gone /\ Advance(p, names)
  BY DEF Unrecord
<1>2. p \in holders
  BY <1>1 DEF MigrateInv, LockInv, OneAtATime
<1>3. run[p].graph.squashes \cup run[p].graph.unused = Squashes(run[p].request.files)
  BY <1>1 DEF MigrateInv, RunsFit, RunFits
<1>4. ASSUME NEW m \in Leaves PROVE m \in gone <=> m \in LeavesOf(n)
  <2>1. m \notin run[p].graph.squashes \cup run[p].graph.unused
    BY <1>3 DEF Leaves, Squashes
  <2> QED BY <2>1, LeavesAre DEF Unrecorded
<1> HIDE DEF gone, names
<1>5. Applied' = Applied \ LeavesOf(n)
  BY <1>1, <1>4 DEF Applied
<1>6. plan \in Seq(StepFor(run[p].request)) /\ Ready(Applied, plan)
  BY <1>1 DEF MigrateInv, RunsFit, RunFits, CourseInv, StaysOnCourse
<1> DEFINE R == Applied \ LeavesOf(n)
<1>7. R = Effect(Applied, {Head(plan)})
  BY <1>1, EffectOfOne DEF Step
<1> HIDE DEF R, plan
<1>8. Ready(R, Tail(plan)) /\ Complete(R)
  BY <1>1, <1>6, <1>7, ReadyGoesOn
<1>9. R = Applied'
  BY <1>5 DEF R
<1> QED BY <1>1, <1>2, <1>8, <1>9, AdvanceOnCourse DEF plan

(* A migration is applied with its leaves, and no others.                   *)
LEMMA RecordKeepsCourse ==
  ASSUME MigrateInv, CourseInv, ReleasesCover, [Next]_vars,
         NEW p \in Processes, Record(p)
  PROVE  CourseInv'
<1> DEFINE n == Step(p).name
           plan == run[p].plan
           names == run[p].recorded \cup NewlyRecorded(n)
           unused == run[p].graph.unused
           r == [run[p] EXCEPT !.recorded = names, !.rest = unused]
<1>1. /\ pc[p] = "running" /\ plan # <<>> /\ ~Step(p).backward
      /\ recorded' = recorded \cup (NewlyRecorded(n) \ run[p].recorded)
      /\ run' = [run EXCEPT ![p] = r] /\ pc' = [pc EXCEPT ![p] = "squashing"]
  BY DEF Record, Goto
<1>2. p \in holders /\ run[p].recorded = recorded
  BY <1>1 DEF MigrateInv, LockInv, OneAtATime, PlanIsCurrent
<1>3. Step(p).name \in Migrations
  BY <1>1, StepIs
<1>4. ASSUME NEW m \in Leaves PROVE m \in NewlyRecorded(n) <=> m \in LeavesOf(n)
  BY LeavesAre DEF NewlyRecorded
<1>5. LeavesOf(n) \subseteq Leaves
  BY <1>3, LeavesAreLeaves
<1> HIDE DEF n, names, unused
<1>6. r.plan = plan
  BY DEF MigrateInv, LockInv, RunsAreRecords, IsRun, RunFields
<1>7. Applied' = Applied \cup LeavesOf(n)
  BY <1>1, <1>2, <1>4, <1>5 DEF Applied
<1> HIDE DEF r
<1>8. /\ \A q \in Processes \ {p} : run'[q] = run[q] /\ pc'[q] = pc[q]
      /\ run'[p] = r /\ pc'[p] = "squashing"
  <2>1. DOMAIN run = Processes /\ DOMAIN pc = Processes
    BY ProcessesRun
  <2> QED BY ONLY <1>1, <2>1, p \in Processes
<1>9. plan \in Seq(StepFor(run[p].request)) /\ Ready(Applied, plan)
  BY <1>1 DEF MigrateInv, RunsFit, RunFits, CourseInv, StaysOnCourse
<1> DEFINE R == Applied \cup LeavesOf(n)
<1>10. R = Effect(Applied, {Head(plan)})
  BY <1>1, EffectOfOne DEF Step, n
<1> HIDE DEF R, plan
<1>11. Ready(R, Tail(plan)) /\ Complete(R)
  BY <1>1, <1>9, <1>10, ReadyGoesOn
<1>12. R = Applied'
  BY <1>7 DEF R
<1>13. StaysOnCourse(p)'
  BY <1>6, <1>8, <1>11, <1>12 DEF StaysOnCourse
<1>14. Complete(Applied)'
  BY <1>11, <1>12 DEF Complete
<1> QED BY <1>2, <1>8, <1>13, <1>14, CourseStep

(* A squash that is recorded when it is completed is no leaf.               *)
LEMMA RecordSquashKeepsCourse ==
  ASSUME MigrateInv, CourseInv, ReleasesCover, [Next]_vars,
         NEW p \in Processes, RecordSquash(p)
  PROVE  CourseInv'
<1> DEFINE squash == Min(Completed(run[p].rest, Step(p).name, run[p].recorded))
           names == run[p].recorded \cup {squash}
           rest == {s \in run[p].rest : s > squash}
           r == [run[p] EXCEPT !.recorded = names, !.rest = rest]
<1>1. /\ pc[p] = "squashing" /\ recorded' = recorded \cup {squash}
      /\ run' = [run EXCEPT ![p] = r] /\ pc' = [pc EXCEPT ![p] = "squashing"]
  BY DEF RecordSquash, MigrateInv, LockInv, RunsAreRecords
<1>2. squash \notin Leaves
  <2>1. squash \in Completed(run[p].rest, Step(p).name, run[p].recorded)
    BY CompletedIsFound DEF RecordSquash
  <2> HIDE DEF squash
  <2>2. Step(p).name \in Replaced(squash)
    BY <2>1 DEF Completed
  <2> QED BY <2>2 DEF Replaced, ToSet, Leaves, IsSquash
<1> HIDE DEF squash, names, rest
<1>3. Applied' = Applied
  BY <1>1, <1>2 DEF Applied
<1>4. r.plan = run[p].plan
  BY DEF MigrateInv, LockInv, RunsAreRecords, IsRun, RunFields
<1> HIDE DEF r
<1>5. /\ \A q \in Processes \ {p} : run'[q] = run[q] /\ pc'[q] = pc[q]
      /\ run'[p] = r /\ pc'[p] = "squashing"
  <2>1. DOMAIN run = Processes /\ DOMAIN pc = Processes
    BY ProcessesRun
  <2> QED BY ONLY <1>1, <2>1, p \in Processes
<1>6. StaysOnCourse(p)'
  BY <1>1, <1>3, <1>4, <1>5 DEF StaysOnCourse, CourseInv
<1>7. Complete(Applied)'
  BY <1>3 DEF Complete, CourseInv
<1> QED BY <1>3, <1>5, <1>6, <1>7, CourseStep

(* The next step begins where the last one led. *)
LEMMA NextStepKeepsCourse ==
  ASSUME MigrateInv, CourseInv, ReleasesCover, [Next]_vars,
         NEW p \in Processes, NextStep(p)
  PROVE  CourseInv'
<1> DEFINE names == run[p].recorded
<1>1. pc[p] = "squashing" /\ Advance(p, names) /\ recorded' = recorded
  BY DEF NextStep, database
<1> HIDE DEF names
<1>2. p \in holders
  BY <1>1 DEF MigrateInv, LockInv, OneAtATime
<1>3. Applied = Applied'
  BY <1>1 DEF Applied
<1>4. Complete(Applied) /\ Ready(Applied, Tail(run[p].plan))
  BY <1>1 DEF CourseInv, StaysOnCourse
<1> QED BY <1>1, <1>2, <1>3, <1>4, AdvanceOnCourse

(* However a run ends, it records nothing. *)
LEMMA EndKeepsCourse ==
  ASSUME MigrateInv, CourseInv, ReleasesCover, [Next]_vars, NEW p \in Processes,
         NEW outcome, End(p, outcome), recorded' = recorded
  PROVE  CourseInv'
<1> DEFINE r == [NoRun EXCEPT !.request = run[p].request, !.outcome = outcome]
<1>1. run' = [run EXCEPT ![p] = r] /\ pc' = [pc EXCEPT ![p] = "idle"]
  BY DEF End, Goto
<1> HIDE DEF r
<1> QED BY <1>1, IdleOnCourse

(* Every step of the specification preserves the invariant. *)
LEMMA NextKeepsCourse ==
  ASSUME HistoryIsWellMade, MigrateInv, WholeInv, CourseInv, [Next]_vars
  PROVE  CourseInv'
<1>1. ReleasesCover' <=> ReleasesCover
  <2>1. site'.requests = site.requests
    BY SiteStays
  <2>2. Released' = Released /\ Names' = Names
    BY <2>1 DEF Released, Names
  <2> QED BY <2>1, <2>2 DEF ReleasesCover, SquashesAreKnown, FilesAreComplete, FilesCoverNames
<1>2. CASE ~ReleasesCover
  BY <1>1, <1>2 DEF CourseInv
<1>3. CASE ReleasesCover
  <2>1. CASE UNCHANGED vars
    BY <2>1 DEF vars, CourseInv, ReleasesCover, SquashesAreKnown, FilesAreComplete,
       FilesCoverNames, Names, Released, StaysOnCourse, Applied
  <2>2. ASSUME NEW p \in Processes, NEW request \in site.requests, Start(p, request)
        PROVE  CourseInv'
    <3> DEFINE r == [NoRun EXCEPT !.request = request]
    <3>1. /\ run' = [run EXCEPT ![p] = r] /\ pc' = [pc EXCEPT ![p] = "waiting"]
          /\ recorded' = recorded
      BY <2>2 DEF Start, Goto, database
    <3> HIDE DEF r
    <3> QED BY <1>3, <3>1, IdleOnCourse
  <2>3. ASSUME NEW p \in Processes, Proceed(p)
        PROVE  CourseInv'
    <3>1. CASE Acquire(p)
      <4>1. /\ run' = [run EXCEPT ![p] = run[p]] /\ pc' = [pc EXCEPT ![p] = "locked"]
            /\ recorded' = recorded
        BY <3>1 DEF Acquire, Goto, database, MigrateInv, LockInv, RunsAreRecords
      <4> QED BY <1>3, <4>1, IdleOnCourse
    <3>2. CASE LockTimeout(p)
      BY <1>3, <3>2, EndKeepsCourse DEF LockTimeout, database
    <3>3. CASE MakePlan(p)
      BY <1>3, <3>3, MakePlanKeepsCourse
    <3>4. CASE Refuse(p)
      BY <1>3, <3>4, EndKeepsCourse DEF Refuse, Release, database
    <3>5. CASE RunOperation(p)
      BY <1>3, <3>5, RunOperationKeepsCourse
    <3>6. CASE Unrecord(p)
      BY <1>3, <3>6, UnrecordKeepsCourse
    <3>7. CASE Record(p)
      BY <1>3, <3>7, RecordKeepsCourse
    <3>8. CASE RecordSquash(p)
      BY <1>3, <3>8, RecordSquashKeepsCourse
    <3>9. CASE NextStep(p)
      BY <1>3, <3>9, NextStepKeepsCourse
    <3>10. CASE Finish(p)
      BY <1>3, <3>10, EndKeepsCourse DEF Finish, Release, database
    <3>11. CASE Fail(p)
      BY <1>3, <3>11, EndKeepsCourse DEF Fail, Release, database
    <3> QED
      BY <2>3, <3>1, <3>2, <3>3, <3>4, <3>5, <3>6, <3>7, <3>8, <3>9, <3>10, <3>11
         DEF Proceed
  <2>4. ASSUME NEW p \in Processes, Crash(p)
        PROVE  CourseInv'
    BY <1>3, <2>4, EndKeepsCourse DEF Crash, database
  <2> QED BY <2>1, <2>2, <2>3, <2>4 DEF Next
<1> QED BY <1>2, <1>3

(* What is applied has its dependencies applied, at every commit on the way *)
(* forward, backward and into a squash, whatever fails or dies, whoever     *)
(* migrates and fakes, for all well-made histories, where every release is  *)
(* complete and who takes the database back has all that can be applied in  *)
(* its files (_sort, _build_plan, _plan_into_squash).                       *)
THEOREM DependenciesStayApplied ==
  ASSUME HistoryIsWellMade
  PROVE  Spec => [](SquashesAreKnown /\ FilesCoverNames => DependenciesAreApplied)
<1>1. Init => CourseInv
  <2> SUFFICES ASSUME Init PROVE Complete(Applied) /\ \A p \in Processes : StaysOnCourse(p)
    BY DEF CourseInv
  <2>1. Applied = {}
    BY DEF Init, Applied
  <2> QED BY <2>1 DEF Init, Complete, StaysOnCourse
<1>2. MigrateInv /\ WholeInv /\ CourseInv /\ [Next]_vars => CourseInv'
  BY NextKeepsCourse
<1>3. Init => WholeInv
  BY DEF Init, WholeInv, SquashesAreWhole
<1>4. MigrateInv /\ WholeInv /\ [Next]_vars => WholeInv'
  BY StepKeepsWhole DEF HistoryIsWellMade
<1>5. CourseInv => (SquashesAreKnown /\ FilesCoverNames => DependenciesAreApplied)
  <2> SUFFICES ASSUME CourseInv, ReleasesCover, NEW m \in recorded \cap Leaves,
                      NEW d \in dependencies[m]
               PROVE  LeavesOf(d) \subseteq recorded
    BY DEF ReleasesCover, DependenciesAreApplied
  <2>1. LeavesOf(d) \subseteq Applied
    BY DEF CourseInv, Complete, Applied
  <2> QED BY <2>1 DEF Applied
<1> QED BY <1>1, <1>2, <1>3, <1>4, <1>5, MigrateInvariant, PTL DEF Spec

-----------------------------------------------------------------------------
(* The operations of the step in progress. *)

(* What the last theorem asks of the releases, too.                         *)
Fitting ==
  ReleasesCover /\ Followed /\ \A m \in Released : Transactional(m)

(* Of the operations body, todo is what comes after the first i: they are   *)
(* in effect, or not any more, and the others are not, or still are.        *)
AreDone(i, body, backward, todo, tables) ==
  /\ i \in 0 .. Len(body) /\ todo = After(body, i)
  /\ tables \cap ToSet(body) =
       IF backward THEN Part(body, i + 1, Len(body)) ELSE Part(body, 1, i)

(* p is in the middle of a step: as much of it is done as it has behind it. *)
IsMidway(p) ==
  pc[p] = "running" /\ run[p].plan # <<>> /\ ~Step(p).skip =>
    \E i \in Nat : AreDone(i, Body(Step(p), FALSE), Step(p).backward, run[p].todo, view[p])

(* OperationsFit is not inductive: that what is in effect of a step is what *)
(* is no longer to do of it, is.                                            *)
FitInv == Fitting => \A p \in Processes : IsMidway(p)

NoRepeats(s) == \A i, j \in DOMAIN s : s[i] = s[j] => i = j

(* body is how the operations own run: the last one first when unapplying.  *)
IsBody(body, own, backward) ==
  /\ own \in Seq(Operations) /\ body \in Seq(Operations)
  /\ Len(body) = Len(own) /\ ToSet(body) = ToSet(own)
  /\ NoRepeats(own) /\ NoRepeats(body)
  /\ IF backward
     THEN \A i \in 1 .. Len(own) : /\ (Len(own) - i) + 1 \in 1 .. Len(own)
                                   /\ own[i] = body[(Len(own) - i) + 1]
     ELSE body = own

(* The operations of a step. *)
LEMMA BodyIs ==
  ASSUME OperationsAreInOrder, NEW step, step.name \in Migrations, ~step.skip,
         NEW body, body = Body(step, FALSE)
  PROVE  IsBody(body, operations[step.name], step.backward)
<1> DEFINE own == operations[step.name]
<1>1. own \in Seq(Operations) /\ NoRepeats(own)
  BY MigrateAssumption DEF OperationsAreInOrder, NoRepeats
<1> HIDE DEF own
<1>2. CASE ~step.backward
  BY <1>1, <1>2 DEF Body, own, IsBody
<1>3. CASE step.backward
  <2> DEFINE n == Len(own)
  <2>1. body = Reverse(own)
    BY <1>3 DEF Body, own
  <2>2. n \in Nat /\ DOMAIN own = 1 .. n /\ \A i \in 1 .. n : own[i] \in Operations
    BY <1>1
  <2>3. body = [i \in 1 .. n |-> own[(n - i) + 1]]
    BY <2>1 DEF Reverse
  <2>4. \A i \in 1 .. n : (n - i) + 1 \in 1 .. n /\ (n - ((n - i) + 1)) + 1 = i
    BY <2>2
  <2> HIDE DEF n
  <2>5. body \in Seq(Operations) /\ Len(body) = n
    <3>1. body \in [1 .. n -> Operations]
      BY <2>2, <2>3, <2>4
    <3> QED BY ONLY <2>2, <3>1, SeqDef, LenProperties
  <2>6. ToSet(body) = ToSet(own)
    BY <1>1, <2>1, ToSetOfReverse
  <2>7. ASSUME NEW i \in 1 .. n PROVE own[i] = body[(n - i) + 1]
    <3> DEFINE k == (n - i) + 1
    <3>1. k \in 1 .. n /\ (n - k) + 1 = i
      BY <2>4
    <3> HIDE DEF k
    <3>2. body[k] = own[(n - k) + 1]
      BY <2>3, <3>1
    <3> QED BY <3>1, <3>2 DEF k
  <2>8. NoRepeats(body)
    <3> SUFFICES ASSUME NEW i \in 1 .. n, NEW j \in 1 .. n, body[i] = body[j]
                 PROVE  i = j
      BY <2>3 DEF NoRepeats
    <3>1. own[(n - i) + 1] = own[(n - j) + 1]
      BY <2>3
    <3>2. (n - i) + 1 = (n - j) + 1
      BY <1>1, <2>2, <2>4, <3>1 DEF NoRepeats
    <3> QED BY <2>2, <3>2
  <2> QED BY <1>1, <1>3, <2>4, <2>5, <2>6, <2>7, <2>8 DEF n, own, IsBody
<1> QED BY <1>2, <1>3

(* The operation that is next, and what is done once it is.                 *)
LEMMA OneMoreIsDone ==
  ASSUME NEW S, NEW body \in Seq(S), NEW i \in 0 .. Len(body),
         NEW todo, todo = After(body, i), todo # <<>>
  PROVE  /\ i + 1 \in 1 .. Len(body) /\ i + 1 \in 0 .. Len(body)
         /\ Head(todo) = body[i + 1] /\ Tail(todo) = After(body, i + 1)
         /\ Part(body, 1, i + 1) = Part(body, 1, i) \cup {body[i + 1]}
         /\ Part(body, i + 1, Len(body)) =
              {body[i + 1]} \cup Part(body, (i + 1) + 1, Len(body))
<1> DEFINE n == Len(body)
<1>1. n \in Nat /\ i \in Nat
  OBVIOUS
<1>2. /\ i + 1 \in 1 .. n /\ i + 1 \in 0 .. n
      /\ Head(todo) = body[i + 1] /\ Tail(todo) = After(body, i + 1)
  BY DEF After
<1> HIDE DEF n
<1>3. 1 .. i + 1 = (1 .. i) \cup {i + 1}
  BY <1>1
<1>4. i + 1 .. n = {i + 1} \cup ((i + 1) + 1 .. n)
  BY <1>1, <1>2
<1>5. Part(body, 1, i + 1) = Part(body, 1, i) \cup {body[i + 1]}
  BY <1>3 DEF Part
<1>6. Part(body, i + 1, n) = {body[i + 1]} \cup Part(body, (i + 1) + 1, n)
  BY <1>4 DEF Part
<1> QED BY <1>2, <1>5, <1>6 DEF n

(* What is recorded is in effect, and nothing else of what the leaves do.   *)
Agree(names, tables) ==
  \A m \in Leaves : IF m \in names THEN ToSet(operations[m]) \subseteq tables
                    ELSE ToSet(operations[m]) \cap tables = {}

(* A step that is due begins with nothing of it done.                       *)
LEMMA DueStepsBegin ==
  ASSUME SquashesHoldTheirLeaves, OperationsAreInOrder,
         NEW step, step.name \in Migrations, ~step.skip,
         NEW names, IsDue(names \cap Leaves, step), NEW tables,
         Agree(names, tables),
         NEW body, body = Body(step, FALSE)
  PROVE  AreDone(0, body, step.backward, body, tables)
<1> DEFINE n == step.name
           own == operations[n]
<1>1. body \in Seq(Operations) /\ ToSet(body) = ToSet(own)
  <2>1. IsBody(body, own, step.backward)
    BY BodyIs
  <2> HIDE DEF own
  <2> QED BY ONLY <2>1 DEF IsBody
<1>2. ToSet(own) \subseteq DoneBy(LeavesOf(n)) /\ LeavesOf(n) \subseteq Leaves
  BY LeavesAreLeaves DEF OperationsAreInOrder
<1>3. body = After(body, 0) /\ 0 \in 0 .. Len(body)
      /\ Part(body, 0 + 1, Len(body)) = ToSet(body) /\ Part(body, 1, 0) = {}
  <2>1. body \in Seq(Operations)
    BY <1>1
  <2>2. Len(body) \in Nat /\ DOMAIN body = 1 .. Len(body)
    BY ONLY <2>1
  <2>3. SubSeq(body, 1, Len(body)) = body
    BY ONLY <2>1
  <2> DEFINE l == Len(body)
  <2>4. l \in Nat /\ DOMAIN body = 1 .. l /\ SubSeq(body, 1, l) = body
    BY <2>2, <2>3
  <2> HIDE DEF l
  <2>5. 0 + 1 = 1 /\ 0 \in 0 .. l /\ 1 .. 0 = {}
    BY <2>4
  <2>6. After(body, 0) = body
    BY <2>4, <2>5 DEF After, l
  <2>7. Part(body, 0 + 1, l) = ToSet(body) /\ Part(body, 1, 0) = {}
    BY <2>4, <2>5 DEF Part, ToSet
  <2> QED BY <2>5, <2>6, <2>7 DEF l
<1> HIDE DEF own, n
<1>4. CASE step.backward
  <2>1. LeavesOf(n) \subseteq names
    BY <1>4 DEF IsDue, n
  <2>2. ToSet(own) \subseteq tables
    BY <1>2, <2>1 DEF DoneBy, Agree
  <2> QED BY <1>1, <1>3, <1>4, <2>2 DEF AreDone
<1>5. CASE ~step.backward
  <2>1. LeavesOf(n) \cap names = {}
    BY <1>2, <1>5 DEF IsDue, n
  <2>2. ToSet(own) \cap tables = {}
    BY <1>2, <2>1 DEF DoneBy, Agree
  <2> QED BY <1>1, <1>3, <1>5, <2>2 DEF AreDone
<1> QED BY <1>4, <1>5

(* All that can be applied is transactional where every release is.         *)
LEMMA AllAreTransacted ==
  ASSUME MigrateInv, Fitting, NEW m \in Leaves
  PROVE  Transacted(m)
<1>1. \A s \in Released : Transactional(s) /\ s \in Migrations
  BY ReleasedAreTyped DEF Fitting
<1> QED BY <1>1 DEF Transactional, Transacted

(* What is asked of the site and of the releases stays true.                *)
LEMMA FittingStays ==
  ASSUME MigrateInv, [Next]_vars
  PROVE  Fitting' <=> Fitting
<1>1. site'.requests = site.requests /\ site'.dialect = site.dialect
  BY SiteStays
<1>2. Released' = Released /\ Names' = Names
  BY <1>1 DEF Released, Names
<1>3. ReleasesCover' <=> ReleasesCover
  BY <1>1, <1>2 DEF ReleasesCover, SquashesAreKnown, FilesAreComplete, FilesCoverNames
<1>4. \A m : Transactional(m)' <=> Transactional(m)
  BY <1>1 DEF Transactional
<1> QED BY <1>2, <1>3, <1>4, FollowedStays DEF Fitting

(* Where only p moves. *)
LEMMA MidwayStep ==
  ASSUME MigrateInv, FitInv, Fitting, [Next]_vars, NEW p \in Processes,
         \A q \in Processes \ {p} :
           run'[q] = run[q] /\ pc'[q] = pc[q] /\ view'[q] = view[q],
         IsMidway(p)'
  PROVE  FitInv'
<1> SUFFICES ASSUME NEW q \in Processes PROVE IsMidway(q)'
  BY DEF FitInv
<1>1. CASE q = p
  BY <1>1
<1>2. CASE q # p
  <2>1. run'[q] = run[q] /\ pc'[q] = pc[q] /\ view'[q] = view[q] /\ IsMidway(q)
    BY <1>2 DEF FitInv
  <2> QED BY <2>1 DEF IsMidway, Step
<1> QED BY <1>1, <1>2

(* p begins a step that is due, in a transaction that sees what is          *)
(* committed.                                                               *)
LEMMA StepBegins ==
  ASSUME SquashesHoldTheirLeaves, OperationsAreInOrder,
         MigrateInv', FollowInv', CourseInv', Fitting', NEW p \in Processes,
         pc'[p] = "running", view'[p] = schema',
         NEW plan, plan = run'[p].plan,
         run'[p].todo = IF plan = <<>> THEN <<>> ELSE Body(plan[1], FALSE)
  PROVE  IsMidway(p)'
<1> SUFFICES ASSUME plan # <<>>, ~Step(p)'.skip
             PROVE  \E i \in Nat : AreDone(i, Body(Step(p)', FALSE), Step(p)'.backward,
                                            run'[p].todo, view'[p])
  BY DEF IsMidway
<1> DEFINE step == plan[1]
           body == Body(step, FALSE)
<1>1. PICK request \in Request : plan \in Seq(StepFor(request))
  <2>1. run'[p].request \in site'.requests \cup {NoRun.request}
        /\ plan \in Seq(StepFor(run'[p].request))
    BY DEF MigrateInv, RunsFit, RunFits
  <2>2. site'.requests \subseteq Request
    <3>1. PICK s \in Sites : site' = [s EXCEPT !.runs = site'.runs]
      BY DEF MigrateInv, DataFits
    <3>2. s \in Site
      BY MigrateAssumption
    <3> QED BY <3>1, <3>2 DEF Site
  <2>3. NoRun.request \in Request
    BY DEF NoRun, Request, Latest
  <2> QED BY <2>1, <2>2, <2>3
<1>2. step \in StepFor(request) /\ step = Step(p)' /\ step \in ToSet(plan)
  BY <1>1 DEF Step, ToSet
<1>3. step.name \in Migrations /\ ~step.skip
  BY <1>2 DEF StepFor, Request
<1> HIDE DEF step
<1>4. run'[p].todo = body
  BY DEF step
<1>5. IsDue(Applied', step)
  BY <1>2 DEF CourseInv, Fitting, StaysOnCourse, Ready, Fresh
<1>6. \A m \in Leaves : IF m \in recorded' THEN ToSet(operations[m]) \subseteq schema'
                        ELSE ToSet(operations[m]) \cap schema' = {}
  <2> SUFFICES ASSUME NEW m \in Leaves PROVE Follows(m)'
    BY DEF Follows
  <2>1. Transacted(m)'
    <3>1. \A s \in Released' : Transactional(s)' /\ s \in Migrations
      <4>1. \A r \in site'.requests : r.files \subseteq Migrations
        <5>1. PICK s \in Sites : site' = [s EXCEPT !.runs = site'.runs]
          BY DEF MigrateInv, DataFits
        <5>2. s \in Site
          BY MigrateAssumption
        <5> QED BY <5>1, <5>2 DEF Site, Request
      <4> QED BY <4>1 DEF Fitting, Released
    <3> QED BY <3>1 DEF Transactional, Transacted
  <2> QED BY <2>1 DEF FollowInv, Fitting
<1>7. AreDone(0, body, step.backward, body, schema')
  <2> DEFINE names == recorded'
             tables == schema'
  <2>1. IsDue(names \cap Leaves, step)
    BY <1>5 DEF Applied
  <2>2. Agree(names, tables)
    BY <1>6 DEF Agree
  <2>3. body = Body(step, FALSE)
    OBVIOUS
  <2> HIDE DEF names, tables, body
  <2>4. AreDone(0, body, step.backward, body, tables)
    BY ONLY SquashesHoldTheirLeaves, OperationsAreInOrder, <1>3, <2>1, <2>2, <2>3,
            DueStepsBegin
  <2> QED BY <2>4 DEF tables
<1> QED BY <1>2, <1>4, <1>7, 0 \in Nat

(* Where p is in no step afterwards. *)
LEMMA ElsewhereMidway ==
  ASSUME MigrateInv, FitInv, Fitting, [Next]_vars, NEW p \in Processes,
         NEW r, NEW v, NEW l, l # "running",
         run' = [run EXCEPT ![p] = r], pc' = [pc EXCEPT ![p] = l],
         view' = [view EXCEPT ![p] = v]
  PROVE  FitInv'
<1>1. /\ \A q \in Processes \ {p} :
           run'[q] = run[q] /\ pc'[q] = pc[q] /\ view'[q] = view[q]
      /\ pc'[p] # "running"
  BY DEF MigrateInv, RunsFit, DataFits
<1>2. IsMidway(p)'
  BY <1>1 DEF IsMidway
<1> QED BY <1>1, <1>2, MidwayStep

(* A run that ends is in no step. *)
LEMMA EndMidway ==
  ASSUME MigrateInv, FitInv, Fitting, [Next]_vars, NEW p \in Processes,
         NEW outcome, End(p, outcome)
  PROVE  FitInv'
<1> DEFINE r == [NoRun EXCEPT !.request = run[p].request, !.outcome = outcome]
<1>1. /\ run' = [run EXCEPT ![p] = r] /\ pc' = [pc EXCEPT ![p] = "idle"]
      /\ view' = [view EXCEPT ![p] = {}]
  BY DEF End, Goto
<1> HIDE DEF r
<1> QED BY <1>1, ElsewhereMidway

(* The first step of a plan begins in what is committed. *)
LEMMA MakePlanMidway ==
  ASSUME SquashesHoldTheirLeaves, OperationsAreInOrder,
         MigrateInv, FitInv, Fitting, [Next]_vars, NEW p \in Processes, MakePlan(p),
         MigrateInv', FollowInv', CourseInv'
  PROVE  FitInv'
<1> DEFINE request == run[p].request
           g == Graph(request.files, recorded)
           plan == PlanOf(request, g)
           todo == IF plan = <<>> THEN <<>> ELSE Body(plan[1], request.fake)
           r == [run[p] EXCEPT !.graph = g, !.recorded = recorded,
                               !.plan = plan, !.todo = todo]
<1>1. /\ run' = [run EXCEPT ![p] = r] /\ pc' = [pc EXCEPT ![p] = "running"]
      /\ view' = [view EXCEPT ![p] = schema] /\ schema' = schema
  BY DEF MakePlan, Goto, database
<1>2. request.fake = FALSE
  BY NoFake DEF Fitting
<1>3. todo = IF plan = <<>> THEN <<>> ELSE Body(plan[1], FALSE)
  BY <1>2
<1>4. IsRun(run[p])
  BY DEF MigrateInv, LockInv, RunsAreRecords
<1> HIDE DEF request, g, plan, todo
<1>5. r.plan = plan /\ r.todo = todo
  BY <1>4 DEF IsRun, RunFields
<1> HIDE DEF r
<1>6. /\ run'[p] = r /\ pc'[p] = "running" /\ view'[p] = schema'
      /\ \A q \in Processes \ {p} :
           run'[q] = run[q] /\ pc'[q] = pc[q] /\ view'[q] = view[q]
  BY <1>1 DEF MigrateInv, RunsFit, DataFits
<1>7. plan = run'[p].plan
      /\ run'[p].todo = IF plan = <<>> THEN <<>> ELSE Body(plan[1], FALSE)
  BY <1>3, <1>5, <1>6
<1>8. Fitting'
  BY FittingStays
<1>9. IsMidway(p)'
  BY <1>6, <1>7, <1>8, StepBegins
<1> QED BY <1>6, <1>9, MidwayStep

(* So does the next one. *)
LEMMA AdvanceMidway ==
  ASSUME SquashesHoldTheirLeaves, OperationsAreInOrder,
         MigrateInv, FitInv, Fitting, [Next]_vars, NEW p \in Processes,
         NEW names, Advance(p, names), view' = view, schema' = view[p],
         MigrateInv', FollowInv', CourseInv'
  PROVE  FitInv'
<1> DEFINE left == Tail(run[p].plan)
           request == run[p].request
           todo == IF left = <<>> THEN <<>> ELSE Body(left[1], request.fake)
           r == [run[p] EXCEPT !.recorded = names, !.plan = left, !.rest = {},
                               !.todo = todo]
<1>1. /\ run' = [run EXCEPT ![p] = r] /\ pc' = [pc EXCEPT ![p] = "running"]
  BY DEF Advance, Goto
<1>2. request.fake = FALSE
  BY NoFake DEF Fitting
<1>3. todo = IF left = <<>> THEN <<>> ELSE Body(left[1], FALSE)
  BY <1>2
<1>4. IsRun(run[p])
  BY DEF MigrateInv, LockInv, RunsAreRecords
<1> HIDE DEF left, todo
<1>5. r.plan = left /\ r.todo = todo
  BY <1>4 DEF IsRun, RunFields
<1> HIDE DEF r, request
<1>6. /\ run'[p] = r /\ pc'[p] = "running" /\ view'[p] = schema'
      /\ \A q \in Processes \ {p} :
           run'[q] = run[q] /\ pc'[q] = pc[q] /\ view'[q] = view[q]
  BY <1>1 DEF MigrateInv, RunsFit, DataFits
<1>7. left = run'[p].plan
      /\ run'[p].todo = IF left = <<>> THEN <<>> ELSE Body(left[1], FALSE)
  BY <1>3, <1>5, <1>6
<1>8. Fitting'
  BY FittingStays
<1>9. IsMidway(p)'
  BY <1>6, <1>7, <1>8, StepBegins
<1> QED BY <1>6, <1>9, MidwayStep

(* One more operation of the step is done. *)
LEMMA OperationIsDone ==
  ASSUME NEW S, NEW body \in Seq(S), NoRepeats(body), NEW i \in Nat, NEW backward,
         NEW todo, NEW tables, AreDone(i, body, backward, todo, tables), todo # <<>>
  PROVE  AreDone(i + 1, body, backward, Tail(todo),
                 Changed(tables, Head(todo), backward))
<1> DEFINE n == Len(body)
           o == body[i + 1]
<1>1. /\ i \in 0 .. n /\ todo = After(body, i)
      /\ tables \cap ToSet(body) =
           IF backward THEN Part(body, i + 1, n) ELSE Part(body, 1, i)
  BY DEF AreDone
<1>2. /\ i + 1 \in 1 .. n /\ i + 1 \in 0 .. n
      /\ Head(todo) = o /\ Tail(todo) = After(body, i + 1)
      /\ Part(body, 1, i + 1) = Part(body, 1, i) \cup {o}
      /\ Part(body, i + 1, n) = {o} \cup Part(body, (i + 1) + 1, n)
  BY <1>1, OneMoreIsDone
<1>3. o \in ToSet(body)
  BY <1>2 DEF ToSet
<1>4. o \notin Part(body, (i + 1) + 1, n)
  <2>1. \A x \in (i + 1) + 1 .. n : x \in 1 .. n /\ x # i + 1
    BY <1>2
  <2> QED BY <1>2, <2>1 DEF NoRepeats, Part
<1> HIDE DEF n, o
<1>5. Changed(tables, o, backward) \cap ToSet(body) =
        IF backward THEN Part(body, (i + 1) + 1, n) ELSE Part(body, 1, i + 1)
  BY <1>1, <1>2, <1>3, <1>4 DEF Changed
<1> QED BY <1>2, <1>5 DEF AreDone, n

(* The step in progress, where nobody fakes. *)
LEMMA StepInProgress ==
  ASSUME OperationsAreInOrder, MigrateInv, FollowInv, FitInv, Fitting,
         NEW p \in Processes, pc[p] = "running", run[p].todo # <<>>
  PROVE  /\ run[p].plan # <<>> /\ ~Step(p).skip /\ Step(p).name \in Migrations
         /\ RunFollows(p)
         /\ \E i \in Nat : AreDone(i, Body(Step(p), FALSE), Step(p).backward,
                                   run[p].todo, view[p])
<1>1. RunFollows(p)
  BY DEF FollowInv, Fitting, Works
<1>2. run[p].plan # <<>> /\ ~Step(p).skip
  BY <1>1 DEF RunFollows, TodoFits
<1>3. Step(p).name \in Migrations
  BY <1>2, StepIs
<1> QED BY <1>1, <1>2, <1>3 DEF FitInv, IsMidway

(* An operation goes from what is still to do to what is done. *)
LEMMA RunOperationMidway ==
  ASSUME OperationsAreInOrder,
         MigrateInv, FollowInv, FitInv, Fitting, [Next]_vars, NEW p \in Processes,
         RunOperation(p)
  PROVE  FitInv'
<1> DEFINE todo == run[p].todo
           r == [run[p] EXCEPT !.todo = Tail(todo)]
           step == Step(p)
           body == Body(step, FALSE)
           after == Changed(view[p], Head(todo), step.backward)
<1>1. /\ pc[p] = "running" /\ todo # <<>> /\ pc' = pc
      /\ run' = [run EXCEPT ![p] = r] /\ view' = [view EXCEPT ![p] = after]
  BY DEF RunOperation
<1>2. /\ run[p].plan # <<>> /\ ~step.skip /\ step.name \in Migrations
  BY <1>1, StepInProgress
<1>3. PICK i \in Nat : AreDone(i, body, step.backward, todo, view[p])
  BY <1>1, StepInProgress
<1>4. IsRun(run[p])
  BY DEF MigrateInv, LockInv, RunsAreRecords
<1> HIDE DEF todo
<1>5. r.plan = run[p].plan /\ r.todo = Tail(todo)
  BY <1>4 DEF IsRun, RunFields
<1> HIDE DEF r, after, step
<1>6. body \in Seq(Operations) /\ NoRepeats(body)
  <2>1. IsBody(body, operations[step.name], step.backward)
    BY <1>2, BodyIs
  <2> HIDE DEF body
  <2> QED BY ONLY <2>1 DEF IsBody
<1> HIDE DEF body
<1>7. AreDone(i + 1, body, step.backward, Tail(todo), after)
  <2> DEFINE tables == view[p]
             backward == step.backward
  <2>1. AreDone(i, body, backward, todo, tables)
    BY <1>3
  <2> HIDE DEF tables, backward
  <2>2. AreDone(i + 1, body, backward, Tail(todo), Changed(tables, Head(todo), backward))
    BY ONLY <1>1, <1>6, <2>1, i \in Nat, OperationIsDone
  <2> QED BY <2>2 DEF after, tables, backward
<1>8. /\ run'[p] = r /\ pc'[p] = "running" /\ view'[p] = after
      /\ \A q \in Processes \ {p} :
           run'[q] = run[q] /\ pc'[q] = pc[q] /\ view'[q] = view[q]
  BY <1>1 DEF MigrateInv, RunsFit, DataFits
<1>9. Step(p)' = step
  BY <1>5, <1>8 DEF Step, step
<1>10. i + 1 \in Nat /\ run'[p].todo = Tail(todo)
  BY <1>5, <1>8
<1>11. IsMidway(p)'
  <2>1. AreDone(i + 1, Body(Step(p)', FALSE), Step(p)'.backward, run'[p].todo, view'[p])
    BY <1>7, <1>8, <1>9, <1>10 DEF body
  <2> QED BY <1>10, <2>1 DEF IsMidway
<1> QED BY <1>8, <1>11, MidwayStep

(* A step that is recorded is over, and so it is while its squashes are.    *)
LEMMA RecordMidway ==
  ASSUME MigrateInv, FitInv, Fitting, [Next]_vars, NEW p \in Processes,
         Record(p) \/ RecordSquash(p)
  PROVE  FitInv'
<1>1. PICK r : run' = [run EXCEPT ![p] = r]
  BY DEF Record, RecordSquash
<1>2. pc' = [pc EXCEPT ![p] = "squashing"] /\ view' = [view EXCEPT ![p] = view[p]]
  BY DEF Record, RecordSquash, Goto, MigrateInv, RunsFit, DataFits
<1> QED BY <1>1, <1>2, ElsewhereMidway

(* Every step of the specification preserves the invariant. *)
LEMMA NextMidway ==
  ASSUME SquashesHoldTheirLeaves, OperationsAreInOrder,
         MigrateInv, FollowInv, FitInv, [Next]_vars,
         MigrateInv', FollowInv', CourseInv'
  PROVE  FitInv'
<1>1. CASE ~Fitting
  BY <1>1, FittingStays DEF FitInv
<1>2. CASE Fitting
  <2>1. CASE UNCHANGED vars
    <3>1. \A p \in Processes : IsMidway(p)'
      BY <1>2, <2>1 DEF vars, FitInv, IsMidway, Step
    <3> QED BY <3>1 DEF FitInv
  <2>2. ASSUME NEW p \in Processes, NEW request \in site.requests, Start(p, request)
        PROVE  FitInv'
    <3> DEFINE r == [NoRun EXCEPT !.request = request]
    <3>1. /\ run' = [run EXCEPT ![p] = r] /\ pc' = [pc EXCEPT ![p] = "waiting"]
          /\ view' = [view EXCEPT ![p] = view[p]]
      BY <2>2 DEF Start, Goto, MigrateInv, DataFits
    <3> HIDE DEF r
    <3> QED BY <1>2, <3>1, ElsewhereMidway
  <2>3. ASSUME NEW p \in Processes, Proceed(p)
        PROVE  FitInv'
    <3>1. CASE Acquire(p)
      <4>1. /\ run' = [run EXCEPT ![p] = run[p]] /\ pc' = [pc EXCEPT ![p] = "locked"]
            /\ view' = [view EXCEPT ![p] = view[p]]
        BY <3>1 DEF Acquire, Goto, MigrateInv, LockInv, RunsAreRecords, DataFits
      <4> QED BY <1>2, <4>1, ElsewhereMidway
    <3>2. CASE LockTimeout(p)
      BY <1>2, <3>2, EndMidway DEF LockTimeout
    <3>3. CASE MakePlan(p)
      BY <1>2, <3>3, MakePlanMidway
    <3>4. CASE Refuse(p)
      BY <1>2, <3>4, EndMidway DEF Refuse, Release
    <3>5. CASE RunOperation(p)
      BY <1>2, <3>5, RunOperationMidway
    <3>6. CASE Unrecord(p)
      <4> DEFINE names == run[p].recorded \ Unrecorded(run[p].graph, Step(p).name)
      <4>1. Advance(p, names) /\ view' = view /\ schema' = view[p]
        BY <3>6 DEF Unrecord
      <4> HIDE DEF names
      <4> QED BY <1>2, <4>1, AdvanceMidway
    <3>7. CASE Record(p) \/ RecordSquash(p)
      BY <1>2, <3>7, RecordMidway
    <3>8. CASE NextStep(p)
      <4> DEFINE names == run[p].recorded
      <4>1. /\ pc[p] = "squashing" /\ Advance(p, names)
            /\ view' = view /\ schema' = schema
        BY <3>8 DEF NextStep, database
      <4>2. schema' = view[p]
        BY <1>2, <4>1 DEF FollowInv, Fitting, Works, RunFollows, SeesCommitted
      <4> HIDE DEF names
      <4> QED BY <1>2, <4>1, <4>2, AdvanceMidway
    <3>9. CASE Finish(p)
      BY <1>2, <3>9, EndMidway DEF Finish, Release
    <3>10. CASE Fail(p)
      BY <1>2, <3>10, EndMidway DEF Fail, Release
    <3> QED
      BY <2>3, <3>1, <3>2, <3>3, <3>4, <3>5, <3>6, <3>7, <3>8, <3>9, <3>10 DEF Proceed
  <2>4. ASSUME NEW p \in Processes, Crash(p)
        PROVE  FitInv'
    BY <1>2, <2>4, EndMidway DEF Crash
  <2> QED BY <2>1, <2>2, <2>3, <2>4 DEF Next
<1> QED BY <1>1, <1>2

(* What is around the step n with Applied leaves applied, outside of it.    *)
LEMMA OthersAreInEffect ==
  ASSUME MigrateInv, FollowInv, Fitting, NEW p \in Processes,
         pc[p] = "running", run[p].plan # <<>>, ~Step(p).skip, RunFollows(p),
         NEW l \in Leaves \ LeavesOf(Step(p).name)
  PROVE  IF l \in Applied THEN ToSet(operations[l]) \subseteq view[p]
         ELSE ToSet(operations[l]) \cap view[p] = {}
<1>1. Transacted(l)
  BY AllAreTransacted
<1>2. view[p] \cap ToSet(operations[l]) = schema \cap ToSet(operations[l])
  BY <1>1 DEF RunFollows, ViewFollows
<1>3. Follows(l)
  BY <1>1 DEF FollowInv, Fitting
<1> QED BY <1>2, <1>3 DEF Follows, Applied

(* What an operation builds on is earlier in its migration. *)
LEMMA BuildsOnEarlier ==
  ASSUME OperationsAreInOrder, NEW m \in Migrations, NEW own, own = operations[m],
         NEW i \in DOMAIN own, NEW b \in buildsOn[own[i]], b \in ToSet(own)
  PROVE  b \in Part(own, 1, i - 1)
<1>1. b \in {operations[m][j] : j \in 1 .. i - 1}
  BY DEF OperationsAreInOrder
<1> QED BY <1>1 DEF Part

(* Or it is done by what its migration depends on. *)
LEMMA BuildsOnOthers ==
  ASSUME OperationsAreInOrder, NEW m \in Migrations, NEW own, own = operations[m],
         NEW i \in DOMAIN own, NEW b \in buildsOn[own[i]], b \notin ToSet(own),
         NEW S \in ClosedSets, LeavesOf(m) \subseteq S
  PROVE  b \in DoneBy(S)
BY DEF OperationsAreInOrder

(* The next operation fits, forward: what it builds on is in effect.        *)
LEMMA ForthFits ==
  ASSUME SquashesHoldTheirLeaves, OperationsAreInOrder,
         NEW n \in Migrations, NEW own, own = operations[n],
         IsBody(own, own, FALSE),
         NEW i \in Nat, NEW todo, NEW tables, AreDone(i, own, FALSE, todo, tables),
         todo # <<>>,
         NEW A \in SUBSET Leaves, A \cup LeavesOf(n) \in ClosedSets,
         \A l \in A \ LeavesOf(n) : ToSet(operations[l]) \subseteq tables
  PROVE  Fits(tables, Head(todo), FALSE)
<1> DEFINE o == Head(todo)
<1>0. own \in Seq(Operations) /\ NoRepeats(own)
  BY DEF IsBody
<1>1. /\ i \in 0 .. Len(own) /\ todo = After(own, i)
      /\ tables \cap ToSet(own) = Part(own, 1, i)
  BY DEF AreDone
<1>2. i + 1 \in 1 .. Len(own) /\ o = own[i + 1]
  BY <1>0, <1>1, OneMoreIsDone
<1> HIDE DEF o
<1>3. o \in ToSet(own)
  BY <1>0, <1>2 DEF ToSet
<1>4. o \notin Part(own, 1, i)
  <2>1. \A x \in 1 .. i : x \in 1 .. Len(own) /\ x # i + 1
    BY <1>1
  <2> QED BY <1>0, <1>2, <2>1 DEF NoRepeats, Part
<1>5. ASSUME NEW b \in buildsOn[o] PROVE b \in tables
  <2>1. CASE b \in ToSet(own)
    <3>1. i + 1 \in DOMAIN own /\ (i + 1) - 1 = i
      BY <1>0, <1>2
    <3>2. b \in Part(own, 1, (i + 1) - 1)
      BY <1>2, <2>1, <3>1, BuildsOnEarlier
    <3> QED BY <1>1, <3>1, <3>2
  <2>2. CASE b \notin ToSet(own)
    <3>1. b \in DoneBy(A \cup LeavesOf(n))
      <4> DEFINE S == A \cup LeavesOf(n)
      <4>1. i + 1 \in DOMAIN own /\ b \in buildsOn[own[i + 1]]
        BY <1>0, <1>2
      <4>2. S \in ClosedSets /\ LeavesOf(n) \subseteq S
        OBVIOUS
      <4> HIDE DEF S
      <4>3. b \in DoneBy(S)
        BY <2>2, <4>1, <4>2, BuildsOnOthers
      <4> QED BY <4>3 DEF S
    <3>2. PICK l \in A \cup LeavesOf(n) : b \in ToSet(operations[l])
      BY <3>1 DEF DoneBy
    <3>3. l \notin LeavesOf(n)
      BY <2>2, <3>2, LeavesAreLeaves DEF SquashesHoldTheirLeaves
    <3> QED BY <3>2, <3>3
  <2> QED BY <2>1, <2>2
<1> QED BY <1>1, <1>3, <1>4, <1>5 DEF Fits, o

(* And backward: nothing that is in effect builds on it.                    *)
LEMMA BackFits ==
  ASSUME SquashesHoldTheirLeaves, OperationsAreInOrder,
         NEW n \in Migrations, NEW own, own = operations[n],
         NEW body, IsBody(body, own, TRUE),
         NEW i \in Nat, NEW todo, NEW tables \in SUBSET Operations,
         AreDone(i, body, TRUE, todo, tables), todo # <<>>,
         NEW A \in SUBSET Leaves, A \ LeavesOf(n) \in ClosedSets,
         \A l \in Leaves \ LeavesOf(n) :
           l \notin A => ToSet(operations[l]) \cap tables = {}
  PROVE  Fits(tables, Head(todo), TRUE)
<1> DEFINE o == Head(todo)
           l == Len(own)
<1>0. /\ own \in Seq(Operations) /\ body \in Seq(Operations)
      /\ Len(body) = Len(own) /\ ToSet(body) = ToSet(own) /\ NoRepeats(body)
      /\ \A k \in 1 .. Len(own) : /\ (Len(own) - k) + 1 \in 1 .. Len(own)
                                  /\ own[k] = body[(Len(own) - k) + 1]
  BY ONLY IsBody(body, own, TRUE) DEF IsBody
<1>1. /\ i \in 0 .. Len(body) /\ todo = After(body, i)
      /\ tables \cap ToSet(body) = Part(body, i + 1, Len(body))
  BY DEF AreDone
<1>2. /\ i + 1 \in 1 .. Len(body) /\ o = body[i + 1]
      /\ Part(body, i + 1, Len(body)) = {o} \cup Part(body, (i + 1) + 1, Len(body))
  BY <1>0, <1>1, OneMoreIsDone
<1> HIDE DEF o
<1>3. o \in ToSet(own) /\ o \in tables
  BY <1>0, <1>1, <1>2 DEF ToSet
<1>4. o \in DoneBy(LeavesOf(n)) /\ LeavesOf(n) \subseteq Leaves
  BY <1>3, LeavesAreLeaves DEF OperationsAreInOrder
<1>5. ASSUME NEW q \in tables, o \in buildsOn[q] PROVE FALSE
  <2>1. q \in DoneBy(Leaves)
    <3>1. o \in DoneBy(Leaves)
      BY <1>4 DEF DoneBy
    <3> QED BY <1>5, <3>1 DEF OperationsAreInOrder
  <2>2. PICK m \in Leaves : q \in ToSet(operations[m])
    BY <2>1 DEF DoneBy
  <2>3. CASE q \in ToSet(own)
    <3>1. PICK j \in 1 .. l : q = own[j]
      BY <1>0, <2>3 DEF ToSet
    <3>2. o \in {own[k] : k \in 1 .. j - 1}
      <4>1. j \in DOMAIN own
        BY <1>0, <3>1
      <4>2. o \in buildsOn[own[j]]
        BY <1>5, <3>1
      <4>3. o \in Part(own, 1, j - 1)
        BY <1>3, <4>1, <4>2, BuildsOnEarlier
      <4> QED BY <4>3 DEF Part
    <3>3. PICK k \in 1 .. j - 1 : o = own[k]
      BY <3>2
    <3>4. k \in 1 .. l /\ k < j
      BY <1>0, <3>1, <3>3
    <3>5. body[(l - k) + 1] = body[i + 1] /\ (l - k) + 1 \in 1 .. l
      BY <1>0, <1>2, <3>3, <3>4
    <3>6. (l - k) + 1 = i + 1
      <4>1. (l - k) + 1 \in DOMAIN body /\ i + 1 \in DOMAIN body
        BY <1>0, <1>2, <3>5
      <4> QED BY <1>0, <3>5, <4>1 DEF NoRepeats
    <3>7. q = body[(l - j) + 1] /\ (l - j) + 1 \in 1 .. l
      BY <1>0, <3>1
    <3>8. (l - j) + 1 < i + 1
      BY <1>0, <3>1, <3>4, <3>6
    <3>9. q \notin Part(body, i + 1, Len(body))
      <4> DEFINE x == (l - j) + 1
      <4>1. x \in 1 .. Len(body) /\ x < i + 1 /\ q = body[x]
        BY <1>0, <3>7, <3>8
      <4> HIDE DEF x
      <4>2. \A y \in i + 1 .. Len(body) : y \in 1 .. Len(body) /\ y # x
        BY <1>0, <4>1
      <4> QED BY <1>0, <4>1, <4>2 DEF NoRepeats, Part
    <3>10. q \in ToSet(body)
      BY <1>0, <2>3
    <3> QED BY <1>1, <3>9, <3>10
  <2>4. CASE q \notin ToSet(own)
    <3>1. m \notin LeavesOf(n)
      BY <2>2, <2>4 DEF SquashesHoldTheirLeaves
    <3>2. m \in A \ LeavesOf(n)
      BY <2>2, <3>1
    <3>3. m \in Migrations /\ LeavesOf(m) = {m}
      BY DEF Leaves, LeavesOf
    <3>4. o \notin ToSet(operations[m])
      BY <1>3, <3>1 DEF SquashesHoldTheirLeaves
    <3>5. PICK j \in DOMAIN operations[m] : q = operations[m][j]
      BY <2>2 DEF ToSet
    <3>6. o \in DoneBy(A \ LeavesOf(n))
      <4> DEFINE S == A \ LeavesOf(n)
      <4>1. o \in buildsOn[operations[m][j]]
        BY <1>5, <3>5
      <4>2. S \in ClosedSets /\ LeavesOf(m) \subseteq S
        BY <3>2, <3>3
      <4> HIDE DEF S
      <4>3. o \in DoneBy(S)
        BY <3>3, <3>4, <3>5, <4>1, <4>2, BuildsOnOthers
      <4> QED BY <4>3 DEF S
    <3>7. PICK d \in A \ LeavesOf(n) : o \in ToSet(operations[d])
      BY <3>6 DEF DoneBy
    <3>8. ToSet(operations[d]) \cap ToSet(own) = {}
      BY <3>7 DEF SquashesHoldTheirLeaves
    <3> QED BY <1>3, <3>7, <3>8
  <2> QED BY <2>3, <2>4
<1> QED BY <1>3, <1>5 DEF Fits, o

(* What is applied when a step is recorded has its dependencies applied.    *)
LEMMA StepsLeadToClosed ==
  ASSUME MigrateInv, CourseInv, ReleasesCover, NEW p \in Processes,
         pc[p] = "running", run[p].plan # <<>>
  PROVE  IF Step(p).backward THEN Applied \ LeavesOf(Step(p).name) \in ClosedSets
         ELSE Applied \cup LeavesOf(Step(p).name) \in ClosedSets
<1> DEFINE plan == run[p].plan
           R == Effect(Applied, {Head(plan)})
<1>1. plan \in Seq(StepFor(run[p].request)) /\ plan # <<>> /\ Ready(Applied, plan)
  BY DEF MigrateInv, RunsFit, RunFits, CourseInv, StaysOnCourse
<1>2. LeavesOf(Step(p).name) \subseteq Leaves
  BY StepIs, LeavesAreLeaves
<1>3. R = IF Step(p).backward THEN Applied \ LeavesOf(Step(p).name)
          ELSE Applied \cup LeavesOf(Step(p).name)
  BY EffectOfOne DEF Step
<1> HIDE DEF plan, R
<1>4. Complete(R)
  BY <1>1, ReadyGoesOn DEF R
<1>5. R \subseteq Leaves
  BY <1>2, <1>3 DEF Applied
<1>6. R \in ClosedSets
  BY <1>4, <1>5 DEF Complete, ClosedSets
<1> QED BY <1>3, <1>6

(* The next operation of a run fits what its transaction sees.              *)
LEMMA NextOperationFits ==
  ASSUME SquashesHoldTheirLeaves, OperationsAreInOrder,
         MigrateInv, FollowInv, CourseInv, FitInv, Fitting,
         NEW p \in Processes, pc[p] = "running", run[p].todo # <<>>
  PROVE  Fits(view[p], Head(run[p].todo), Step(p).backward)
<1> DEFINE step == Step(p)
           n == step.name
           own == operations[n]
           body == Body(step, FALSE)
           todo == run[p].todo
           tables == view[p]
<1>1. /\ run[p].plan # <<>> /\ ~step.skip /\ n \in Migrations /\ RunFollows(p)
      /\ \E i \in Nat : AreDone(i, body, step.backward, todo, tables)
  BY StepInProgress
<1>2. PICK i \in Nat : AreDone(i, body, step.backward, todo, tables)
  BY <1>1
<1>3. \A l \in Leaves \ LeavesOf(n) :
        IF l \in Applied THEN ToSet(operations[l]) \subseteq tables
        ELSE ToSet(operations[l]) \cap tables = {}
  BY <1>1, OthersAreInEffect
<1>4. IF step.backward THEN Applied \ LeavesOf(n) \in ClosedSets
      ELSE Applied \cup LeavesOf(n) \in ClosedSets
  BY <1>1, StepsLeadToClosed DEF Fitting
<1>5. Applied \in SUBSET Leaves /\ tables \in SUBSET Operations
  BY DEF Applied, MigrateInv, DataFits
<1>6. todo # <<>>
  OBVIOUS
<1> HIDE DEF todo, tables, step
<1>7. IsBody(body, own, step.backward)
  BY <1>1, BodyIs
<1> HIDE DEF body
<1>8. CASE ~step.backward
  <2>0. body = own /\ step.backward = FALSE
    BY <1>7, <1>8 DEF IsBody
  <2>1. AreDone(i, own, FALSE, todo, tables) /\ IsBody(own, own, FALSE)
    BY <1>2, <1>7, <2>0
  <2>2. \A l \in Applied \ LeavesOf(n) : ToSet(operations[l]) \subseteq tables
    BY <1>3, <1>5
  <2>3. Fits(tables, Head(todo), FALSE)
    BY <1>1, <1>4, <1>5, <1>6, <1>7, <1>8, <2>1, <2>2, ForthFits
  <2> QED BY <1>8, <2>3 DEF Fits, step, todo, tables
<1>9. CASE step.backward
  <2>1. AreDone(i, body, TRUE, todo, tables) /\ IsBody(body, own, TRUE)
    BY <1>2, <1>7, <1>9 DEF AreDone, IsBody
  <2>2. \A l \in Leaves \ LeavesOf(n) :
          l \notin Applied => ToSet(operations[l]) \cap tables = {}
    BY <1>3
  <2>3. Fits(tables, Head(todo), TRUE)
    BY <1>1, <1>4, <1>5, <1>6, <1>7, <1>9, <2>1, <2>2, BackFits
  <2> QED BY <1>9, <2>3 DEF Fits, step, todo, tables
<1> QED BY <1>8, <1>9

(* No run applies or unapplies an operation where the schema does not fit   *)
(* it: what it builds on is in effect, nothing that is builds on what it    *)
(* takes back, and nothing is done twice. So for every history that is well *)
(* made, every set of complete releases whose migrations are transactional, *)
(* and any number of processes, whatever fails or dies                      *)
(* (MigrationGraph._sort, _build_plan, _plan_into_squash, _execute).        *)
THEOREM OperationsAlwaysFit ==
  ASSUME HistoryIsWellMade, SquashesHoldTheirLeaves, OperationsAreInOrder
  PROVE  Spec => [](SquashesAreKnown /\ FilesAreComplete /\ FilesCoverNames
                      /\ site.dialect # "sqlite" /\ StartsClean => OperationsFit)
<1>1. Init => WholeInv /\ CourseInv /\ FollowInv /\ FitInv
  <2> SUFFICES ASSUME Init PROVE WholeInv /\ CourseInv /\ FollowInv /\ FitInv
    OBVIOUS
  <2>1. WholeInv
    BY DEF Init, WholeInv, SquashesAreWhole
  <2>2. CourseInv
    BY DEF Init, CourseInv, Applied, Complete, StaysOnCourse
  <2>3. FollowInv
    BY DEF Init, FollowInv, Followed, StartsClean, Follows, Works
  <2>4. FitInv
    BY DEF Init, FitInv, IsMidway
  <2> QED BY <2>1, <2>2, <2>3, <2>4
<1>2. MigrateInv /\ WholeInv /\ CourseInv /\ FollowInv /\ [Next]_vars
        => MigrateInv' /\ WholeInv' /\ CourseInv' /\ FollowInv'
  BY NextFits, StepKeepsWhole, NextKeepsCourse, NextFollows DEF HistoryIsWellMade
<1>3. MigrateInv /\ FollowInv /\ FitInv /\ [Next]_vars
        /\ MigrateInv' /\ FollowInv' /\ CourseInv' => FitInv'
  BY NextMidway
<1>4. MigrateInv /\ CourseInv /\ FollowInv /\ FitInv
        => (SquashesAreKnown /\ FilesAreComplete /\ FilesCoverNames
              /\ site.dialect # "sqlite" /\ StartsClean => OperationsFit)
  <2> SUFFICES ASSUME MigrateInv, CourseInv, FollowInv, FitInv,
                      SquashesAreKnown, FilesAreComplete, FilesCoverNames,
                      site.dialect # "sqlite", StartsClean, NobodyFakes,
                      \A m \in Released : Transactional(m),
                      NEW p \in Processes, pc[p] = "running", run[p].todo # <<>>
               PROVE  Fits(view[p], Head(run[p].todo), Step(p).backward)
    BY DEF OperationsFit
  <2>1. Fitting
    BY DEF Fitting, ReleasesCover, Followed
  <2> QED BY <2>1, NextOperationFits
<1> QED BY <1>1, <1>2, <1>3, <1>4, MigrateInvariant, PTL DEF Spec

=============================================================================
