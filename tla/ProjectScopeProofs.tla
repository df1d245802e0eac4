------------------------- MODULE ProjectScopeProofs -------------------------
(***************************************************************************)
(* For any number of tasks, projects and event loops the gates count       *)
(* their calls; and where the process has one event loop, and no call is   *)
(* made on another project inside a call, a call keeps its project's code. *)
(***************************************************************************)
EXTENDS ProjectScope, FiniteSetTheorems, TLAPS

OneLoop == \A l, m \in Loops : l = m

(* Who is inside a call, and who waits for a project. *)
PlacesAreRight ==
  \A t \in Tasks :
    /\ pc[t] \in {"inside", "inthread"} <=> InCall(t)
    /\ pc[t] \in {"waiting", "notified"} => wanted[t] \in Projects

(* All calls of a loop are on the project of its gate. *)
GatesServeOneProject ==
  ~MayNest => \A t \in Tasks : \A i \in DOMAIN scopes[t] :
                scopes[t][i] = gate[loop[t]].root

(* The only loop's project is the one whose code is loaded. *)
ServedIsLoaded ==
  ~MayNest /\ OneLoop => \A t \in Tasks : InCall(t) => loaded = gate[loop[t]].root

(* CallsKeepTheirCode holds because a gate that counts no call is at no     *)
(* call's expense given to another project: the count has to be exact.      *)
ScopeInv ==
  /\ TypeOK
  /\ ActiveIsCounted
  /\ PlacesAreRight
  /\ GatesServeOneProject
  /\ ServedIsLoaded

(* The callers of a loop are finitely many. *)
LEMMA CallersAreFinite ==
  \A l : IsFiniteSet(Callers(l)) /\ Cardinality(Callers(l)) \in Nat
         /\ Cardinality(Callers(l)) <= Cardinality(Tasks)
         /\ Cardinality(Tasks) \in Nat
<1> SUFFICES ASSUME NEW l
             PROVE  /\ IsFiniteSet(Callers(l)) /\ Cardinality(Callers(l)) \in Nat
                    /\ Cardinality(Callers(l)) <= Cardinality(Tasks)
                    /\ Cardinality(Tasks) \in Nat
  OBVIOUS
<1>1. Callers(l) \in SUBSET Tasks
  BY DEF Callers
<1>2. IsFiniteSet(Tasks)
  BY ScopeAssumption
<1> QED
  BY <1>1, <1>2, FS_Subset, FS_CardinalityType

(* Nobody calls in the first state. *)
LEMMA InitHolds == Init => ScopeInv
<1> SUFFICES ASSUME Init PROVE ScopeInv
  OBVIOUS
<1>1. \A l : Callers(l) = {}
  BY DEF Init, Callers, InCall
<1>2. Cardinality(Tasks) \in Nat
  BY CallersAreFinite
<1>3. TypeOK
  BY <1>2, ScopeAssumption DEF Init, TypeOK, Projects0
<1>4. ActiveIsCounted
  BY <1>1, FS_EmptySet DEF Init, ActiveIsCounted
<1>5. PlacesAreRight
  BY DEF Init, PlacesAreRight, InCall
<1>6. GatesServeOneProject /\ ServedIsLoaded
  BY DEF Init, GatesServeOneProject, ServedIsLoaded, InCall
<1> QED
  BY <1>3, <1>4, <1>5, <1>6 DEF ScopeInv

(* A call through an open gate: it is counted, and the others at the gate   *)
(* are on the same project, or there are none.                              *)
LEMMA AdmitStep ==
  ASSUME ScopeInv, NEW t \in Tasks, NEW r \in Projects,
         pc[t] \notin {"inside", "inthread"}, IsOpen(loop[t], r), Admit(t, r),
         thread' = thread, ncalls' \in 0 .. MaxCalls
  PROVE  ScopeInv'
<1> DEFINE l == loop[t]
<1>0. l \in Loops /\ loop \in [Tasks -> Loops] /\ ~InCall(t)
  BY ScopeAssumption DEF ScopeInv, PlacesAreRight
<1>1. /\ Callers(l)' = Callers(l) \cup {t} /\ t \notin Callers(l)
      /\ \A m : m # l => Callers(m)' = Callers(m)
  BY <1>0 DEF Admit, Callers, InCall, ScopeInv, TypeOK
<1>2. Cardinality(Callers(l)') = Cardinality(Callers(l)) + 1
  BY <1>1, CallersAreFinite, FS_AddElement, SMTT(30)
<1>3. Cardinality(Callers(l)') <= Cardinality(Tasks) /\ Cardinality(Callers(l)') \in Nat
  <2>1. Callers(l)' \in SUBSET Tasks
    BY DEF Callers
  <2> QED
    BY <2>1, ScopeAssumption, FS_Subset, FS_CardinalityType
<1>4. gate[l].active = Cardinality(Callers(l))
  BY <1>0 DEF ScopeInv, ActiveIsCounted
<1>5. TypeOK'
  <2>1. gate' \in [Loops -> [root : Projects0, active : 0 .. Cardinality(Tasks)]]
    BY <1>0, <1>2, <1>3, <1>4 DEF Admit, ScopeInv, TypeOK, Projects0
  <2> QED
    BY <2>1 DEF Admit, SwitchTo, Goto, ScopeInv, TypeOK, Projects0
<1>6. ActiveIsCounted'
  <2> SUFFICES ASSUME NEW m \in Loops
               PROVE  gate'[m].active = Cardinality(Callers(m)')
    BY DEF ActiveIsCounted
  <2>1. CASE m = l
    BY <2>1, <1>0, <1>2, <1>4 DEF Admit, ScopeInv, TypeOK
  <2>2. CASE m # l
    BY <2>2, <1>0, <1>1 DEF Admit, ScopeInv, TypeOK, ActiveIsCounted
  <2> QED
    BY <2>1, <2>2
<1>7. PlacesAreRight'
  BY DEF Admit, Goto, ScopeInv, TypeOK, PlacesAreRight, InCall
<1>8. \A u \in Tasks : u # t => scopes'[u] = scopes[u]
  BY DEF Admit, ScopeInv, TypeOK
<1>9. scopes'[t] = <<r>> /\ gate'[l].root = r /\ loaded' = r
  BY <1>0 DEF Admit, SwitchTo, ScopeInv, TypeOK
<1>10. ASSUME NEW u \in Tasks, loop[u] = l, InCall(u) PROVE gate[l].root = r
  <2>1. u \in Callers(l)
    BY <1>10 DEF Callers
  <2>2. gate[l].active # 0
    BY <2>1, <1>4, CallersAreFinite, FS_EmptySet
  <2> QED
    BY <2>2 DEF IsOpen
<1>11. GatesServeOneProject'
  <2> SUFFICES ASSUME ~MayNest, NEW u \in Tasks, NEW i \in DOMAIN scopes'[u]
               PROVE  scopes'[u][i] = gate'[loop[u]].root
    BY DEF GatesServeOneProject
  <2>1. CASE u = t
    BY <2>1, <1>9
  <2>2. CASE u # t
    <3>1. scopes[u][i] = gate[loop[u]].root /\ i \in DOMAIN scopes[u]
      BY <2>2, <1>8 DEF ScopeInv, GatesServeOneProject
    <3>2. InCall(u)
      BY <3>1 DEF InCall
    <3>3. CASE loop[u] = l
      BY <2>2, <3>1, <3>2, <3>3, <1>8, <1>9, <1>10
    <3>4. CASE loop[u] # l
      BY <2>2, <3>1, <3>4, <1>0, <1>8 DEF Admit, ScopeInv, TypeOK
    <3> QED
      BY <3>3, <3>4
  <2> QED
    BY <2>1, <2>2
<1>12. ServedIsLoaded'
  <2> SUFFICES ASSUME ~MayNest, OneLoop, NEW u \in Tasks
               PROVE  loaded' = gate'[loop[u]].root
    BY DEF ServedIsLoaded
  <2>1. loop[u] = l
    BY <1>0 DEF OneLoop
  <2> QED
    BY <2>1, <1>9
<1> QED
  BY <1>5, <1>6, <1>7, <1>11, <1>12 DEF ScopeInv

(* Steps that move a task but leave gates, code and scopes alone.           *)
LEMMA MoveStep ==
  ASSUME ScopeInv, TypeOK', UNCHANGED <<gate, loaded, scopes>>, PlacesAreRight'
  PROVE  ScopeInv'
<1>1. \A l : Callers(l)' = Callers(l)
  BY DEF Callers, InCall
<1>2. ActiveIsCounted'
  BY <1>1 DEF ScopeInv, ActiveIsCounted
<1>3. GatesServeOneProject' /\ ServedIsLoaded'
  BY DEF ScopeInv, GatesServeOneProject, ServedIsLoaded, InCall
<1> QED
  BY <1>2, <1>3 DEF ScopeInv

(* A call inside a call: the gate does not notice it.                       *)
LEMMA NestStep ==
  ASSUME ScopeInv, NEW t \in Tasks, NEW r \in Projects, Nest(t, r)
  PROVE  ScopeInv'
<1>1. /\ InCall(t) /\ scopes[t] \in Seq(Projects)
      /\ Len(scopes[t]) \in Nat /\ Len(scopes[t]) # 0
  BY DEF Nest, ScopeInv, TypeOK, PlacesAreRight, InCall
<1>2. /\ scopes'[t] = Append(scopes[t], r)
      /\ \A u \in Tasks : u # t => scopes'[u] = scopes[u]
      /\ scopes' \in [Tasks -> Seq(Projects)]
  BY DEF Nest, ScopeInv, TypeOK
<1>3. \A u \in Tasks : InCall(u)' <=> InCall(u)
  BY <1>1, <1>2 DEF InCall
<1>4. TypeOK'
  <2>1. ncalls' \in 0 .. MaxCalls
    BY ScopeAssumption DEF Nest, Call, ScopeInv, TypeOK
  <2>2. loaded' \in Projects0
    BY DEF Nest, SwitchTo, ScopeInv, TypeOK, Projects0
  <2> QED
    BY <1>2, <2>1, <2>2 DEF Nest, Call, ScopeInv, TypeOK
<1>5. \A l : Callers(l)' = Callers(l)
  BY <1>3 DEF Callers
<1>6. ActiveIsCounted'
  BY <1>5 DEF Nest, ScopeInv, ActiveIsCounted
<1>7. PlacesAreRight'
  BY <1>3 DEF Nest, ScopeInv, PlacesAreRight
<1>8. ASSUME ~MayNest PROVE r = gate[loop[t]].root /\ loaded' = loaded
  <2>1. r = Current(t) /\ loaded' = loaded
    BY <1>8 DEF Nest
  <2>2. 1 \in DOMAIN scopes[t]
    BY <1>1
  <2> QED
    BY <1>8, <2>1, <2>2 DEF Current, ScopeInv, GatesServeOneProject
<1>9. GatesServeOneProject'
  <2> SUFFICES ASSUME ~MayNest, NEW u \in Tasks, NEW i \in DOMAIN scopes'[u]
               PROVE  scopes'[u][i] = gate[loop[u]].root
    BY DEF Nest, GatesServeOneProject
  <2>1. CASE u # t
    BY <2>1, <1>2 DEF ScopeInv, GatesServeOneProject
  <2>2. CASE u = t /\ i = Len(scopes[t]) + 1
    BY <2>2, <1>1, <1>2, <1>8
  <2>3. CASE u = t /\ i # Len(scopes[t]) + 1
    <3>1. i \in DOMAIN scopes[t] /\ scopes'[t][i] = scopes[t][i]
      BY <2>3, <1>1, <1>2
    <3> QED
      BY <2>3, <3>1 DEF ScopeInv, GatesServeOneProject
  <2> QED
    BY <2>1, <2>2, <2>3
<1>10. ServedIsLoaded'
  BY <1>3, <1>8 DEF Nest, ScopeInv, ServedIsLoaded
<1> QED
  BY <1>4, <1>6, <1>7, <1>9, <1>10 DEF ScopeInv

(* The outermost call of t is over: one call less is counted.               *)
LEMMA LeaveGateStep ==
  ASSUME ScopeInv, NEW t \in Tasks, InCall(t), LeaveGate(t),
         scopes' = [scopes EXCEPT ![t] = <<>>],
         UNCHANGED <<loaded, wanted, thread, ncalls>>
  PROVE  ScopeInv'
<1> DEFINE l == loop[t]
<1>0. l \in Loops /\ loop \in [Tasks -> Loops]
  BY ScopeAssumption
<1>1. /\ Callers(l)' = Callers(l) \ {t} /\ t \in Callers(l)
      /\ \A m : m # l => Callers(m)' = Callers(m)
  BY <1>0 DEF Callers, InCall, ScopeInv, TypeOK
<1>2. Cardinality(Callers(l)') = Cardinality(Callers(l)) - 1
  BY <1>1, CallersAreFinite, FS_RemoveElement
<1>3. Cardinality(Callers(l)') \in Nat
  BY <1>1, CallersAreFinite, FS_RemoveElement, FS_CardinalityType
<1>4. gate[l].active = Cardinality(Callers(l))
  BY <1>0 DEF ScopeInv, ActiveIsCounted
<1>5. \A u \in Tasks :
        IF u = t THEN pc'[u] = "idle"
        ELSE pc'[u] = pc[u] \/ (pc[u] = "waiting" /\ pc'[u] = "notified")
  <2> SUFFICES ASSUME NEW u \in Tasks
               PROVE  IF u = t THEN pc'[u] = "idle"
                      ELSE pc'[u] = pc[u] \/ (pc[u] = "waiting" /\ pc'[u] = "notified")
    OBVIOUS
  <2>1. pc'[u] = IF u = t THEN "idle"
                 ELSE IF u \in Notified(l) THEN "notified" ELSE pc[u]
    BY DEF LeaveGate
  <2> QED
    BY <2>1 DEF Notified
<1>6. TypeOK'
  <2>1. gate' \in [Loops -> [root : Projects0, active : 0 .. Cardinality(Tasks)]]
    <3>1. gate[l].active - 1 \in 0 .. Cardinality(Tasks)
      BY <1>0, <1>2, <1>3, <1>4, CallersAreFinite
    <3>2. gate' = [gate EXCEPT ![l].active = gate[l].active - 1]
      BY DEF LeaveGate
    <3> QED
      BY <1>0, <3>1, <3>2 DEF ScopeInv, TypeOK
  <2>2. pc' \in [Tasks -> {"idle", "waiting", "notified", "inside", "inthread"}]
    BY DEF LeaveGate, ScopeInv, TypeOK
  <2>3. scopes' \in [Tasks -> Seq(Projects)]
    BY DEF ScopeInv, TypeOK
  <2> QED
    BY <2>1, <2>2, <2>3 DEF ScopeInv, TypeOK
<1>7. ActiveIsCounted'
  <2> SUFFICES ASSUME NEW m \in Loops
               PROVE  gate'[m].active = Cardinality(Callers(m)')
    BY DEF ActiveIsCounted
  <2>1. CASE m = l
    BY <2>1, <1>0, <1>2, <1>4 DEF LeaveGate, ScopeInv, TypeOK
  <2>2. CASE m # l
    BY <2>2, <1>0, <1>1 DEF LeaveGate, ScopeInv, TypeOK, ActiveIsCounted
  <2> QED
    BY <2>1, <2>2
<1>8. \A u \in Tasks : IF u = t THEN scopes'[u] = <<>> ELSE scopes'[u] = scopes[u]
  BY DEF ScopeInv, TypeOK
<1>9. PlacesAreRight'
  BY <1>5, <1>8 DEF ScopeInv, PlacesAreRight, InCall
<1>10. \A m \in Loops : gate'[m].root = gate[m].root
  BY <1>0 DEF LeaveGate, ScopeInv, TypeOK
<1>11. GatesServeOneProject'
  BY <1>0, <1>8, <1>10 DEF ScopeInv, GatesServeOneProject
<1>12. ServedIsLoaded'
  BY <1>0, <1>8, <1>10 DEF ScopeInv, ServedIsLoaded, InCall
<1> QED
  BY <1>6, <1>7, <1>9, <1>11, <1>12 DEF ScopeInv

(* An inner call is over: the gate does not notice it.                      *)
LEMMA LeaveStep ==
  ASSUME ScopeInv, NEW t \in Tasks, Leave(t)
  PROVE  ScopeInv'
<1>1. /\ InCall(t) /\ scopes[t] \in Seq(Projects)
      /\ Len(scopes[t]) \in Nat /\ Len(scopes[t]) # 0
  BY DEF Leave, ScopeInv, TypeOK, PlacesAreRight, InCall
<1> DEFINE rest == SubSeq(scopes[t], 1, Len(scopes[t]) - 1)
<1>2. CASE Len(scopes[t]) = 1
  <2>1. rest = <<>>
    BY <1>1, <1>2
  <2> QED
    BY <1>1, <1>2, <2>1, LeaveGateStep DEF Leave
<1>3. CASE Len(scopes[t]) # 1
  <2>1. /\ rest \in Seq(Projects) /\ rest # <<>>
        /\ \A i \in DOMAIN rest : i \in DOMAIN scopes[t] /\ rest[i] = scopes[t][i]
    <3> DEFINE n == Len(scopes[t])
    <3>0. n \in Nat /\ n # 0 /\ n # 1
      BY <1>1, <1>3
    <3>1. n \in Nat /\ n - 1 \in 1 .. n /\ DOMAIN scopes[t] = 1 .. n
      <4>1. n - 1 \in 1 .. n
        <5> HIDE DEF n
        <5> QED
          BY <3>0
      <4> QED
        BY <3>0, <4>1, <1>1
    <3>2. /\ rest \in Seq(Projects) /\ Len(rest) = n - 1
          /\ \A i \in 1 .. n - 1 : rest[i] = scopes[t][i]
      BY <1>1, <3>1
    <3>3. DOMAIN rest = 1 .. n - 1
      BY <3>1, <3>2
    <3>4. rest # <<>>
      <4>1. Len(rest) # 0
        <5>1. n - 1 # 0
          BY <3>0
        <5> QED
          BY <3>2, <5>1
      <4> QED
        BY <4>1
    <3>5. ASSUME NEW i \in DOMAIN rest
          PROVE  i \in DOMAIN scopes[t] /\ rest[i] = scopes[t][i]
      BY <3>1, <3>2, <3>3
    <3> QED
      BY <3>2, <3>4, <3>5
  <2>2. /\ scopes'[t] = rest
        /\ \A u \in Tasks : u # t => scopes'[u] = scopes[u]
        /\ scopes' \in [Tasks -> Seq(Projects)]
    BY <2>1 DEF Leave, ScopeInv, TypeOK
  <2>3. UNCHANGED <<gate, pc, loaded, wanted, thread, ncalls>>
    BY <1>3 DEF Leave
  <2>4. \A u \in Tasks : InCall(u)' <=> InCall(u)
    BY <1>1, <2>1, <2>2 DEF InCall
  <2>5. \A l : Callers(l)' = Callers(l)
    BY <2>4 DEF Callers
  <2>6. TypeOK'
    BY <2>2, <2>3 DEF ScopeInv, TypeOK
  <2>7. ActiveIsCounted' /\ PlacesAreRight' /\ ServedIsLoaded'
    BY <2>3, <2>4, <2>5 DEF ScopeInv, ActiveIsCounted, PlacesAreRight, ServedIsLoaded
  <2>8. GatesServeOneProject'
    <3> SUFFICES ASSUME ~MayNest, NEW u \in Tasks, NEW i \in DOMAIN scopes'[u]
                 PROVE  scopes'[u][i] = gate[loop[u]].root
      BY <2>3 DEF GatesServeOneProject
    <3>1. i \in DOMAIN scopes[u] /\ scopes'[u][i] = scopes[u][i]
      <4>1. CASE u = t
        <5> HIDE DEF rest
        <5> QED
          BY <4>1, <2>1, <2>2
      <4>2. CASE u # t
        BY <4>2, <2>2
      <4> QED
        BY <4>1, <4>2
    <3> QED
      BY <3>1 DEF ScopeInv, GatesServeOneProject
  <2> QED
    BY <2>6, <2>7, <2>8 DEF ScopeInv
<1> QED
  BY <1>2, <1>3

(* Every step of the specification preserves the invariant.                 *)
LEMMA StepPreserves == ScopeInv /\ [Next]_vars => ScopeInv'
<1> SUFFICES ASSUME ScopeInv, [Next]_vars PROVE ScopeInv'
  OBVIOUS
<1>1. CASE UNCHANGED vars
  <2>1. TypeOK' /\ PlacesAreRight'
    BY <1>1 DEF vars, ScopeInv, TypeOK, PlacesAreRight, InCall
  <2> QED
    BY <1>1, <2>1, MoveStep DEF vars
<1>2. ASSUME NEW t \in Tasks, NEW r \in Projects, Enter(t, r) PROVE ScopeInv'
  <2>1. ncalls' \in 0 .. MaxCalls /\ thread' = thread
    BY <1>2, ScopeAssumption DEF Enter, Call, ScopeInv, TypeOK
  <2> QED
    BY <1>2, <2>1, AdmitStep DEF Enter
<1>3. ASSUME NEW t \in Tasks, NEW r \in Projects, Wait(t, r) PROVE ScopeInv'
  <2>1. TypeOK'
    BY <1>3, ScopeAssumption DEF Wait, Call, Goto, ScopeInv, TypeOK, Projects0
  <2>2. PlacesAreRight'
    BY <1>3 DEF Wait, Goto, ScopeInv, TypeOK, PlacesAreRight, InCall
  <2> QED
    BY <1>3, <2>1, <2>2, MoveStep DEF Wait
<1>4. ASSUME NEW t \in Tasks, NEW r \in Projects, Nest(t, r) PROVE ScopeInv'
  BY <1>4, NestStep
<1>5. ASSUME NEW t \in Tasks, WakeUp(t) PROVE ScopeInv'
  <2>1. CASE IsOpen(loop[t], wanted[t])
    <3>1. wanted[t] \in Projects /\ pc[t] = "notified"
      BY <1>5 DEF WakeUp, ScopeInv, PlacesAreRight
    <3>2. ncalls' \in 0 .. MaxCalls /\ thread' = thread
      BY <1>5 DEF WakeUp, ScopeInv, TypeOK
    <3> QED
      BY <1>5, <2>1, <3>1, <3>2, AdmitStep DEF WakeUp
  <2>2. CASE ~IsOpen(loop[t], wanted[t])
    <3>1. /\ pc' = [pc EXCEPT ![t] = "waiting"] /\ pc[t] = "notified"
          /\ UNCHANGED <<gate, loaded, scopes, wanted, thread, ncalls>>
      BY <1>5, <2>2 DEF WakeUp, Goto
    <3>2. TypeOK' /\ PlacesAreRight'
      BY <3>1 DEF ScopeInv, TypeOK, PlacesAreRight, InCall
    <3> QED
      BY <3>1, <3>2, MoveStep
  <2> QED
    BY <2>1, <2>2
<1>6. ASSUME NEW t \in Tasks, GiveUp(t) PROVE ScopeInv'
  <2>1. TypeOK' /\ PlacesAreRight'
    BY <1>6 DEF GiveUp, Goto, ScopeInv, TypeOK, Projects0, PlacesAreRight, InCall
  <2> QED
    BY <1>6, <2>1, MoveStep DEF GiveUp
<1>7. ASSUME NEW t \in Tasks, StartThread(t) PROVE ScopeInv'
  <2>1. Innermost(t) \in Projects
    BY <1>7 DEF StartThread, Innermost, ScopeInv, TypeOK, PlacesAreRight, InCall
  <2>2. TypeOK' /\ PlacesAreRight'
    BY <1>7, <2>1 DEF StartThread, Goto, ScopeInv, TypeOK, Projects0,
                      PlacesAreRight, InCall
  <2> QED
    BY <1>7, <2>2, MoveStep DEF StartThread
<1>8. ASSUME NEW t \in Tasks, EndThread(t) PROVE ScopeInv'
  <2>1. TypeOK' /\ PlacesAreRight'
    BY <1>8 DEF EndThread, Goto, ScopeInv, TypeOK, Projects0, PlacesAreRight, InCall
  <2> QED
    BY <1>8, <2>1, MoveStep DEF EndThread
<1>9. ASSUME NEW t \in Tasks, Leave(t) PROVE ScopeInv'
  BY <1>9, LeaveStep
<1>10. ASSUME NEW t \in Tasks, Cancel(t) PROVE ScopeInv'
  <2>1. InCall(t)
    BY <1>10 DEF Cancel, ScopeInv, PlacesAreRight
  <2> QED
    BY <1>10, <2>1, LeaveGateStep DEF Cancel
<1> QED
  BY <1>1, <1>2, <1>3, <1>4, <1>5, <1>6, <1>7, <1>8, <1>9, <1>10 DEF Next

(* The invariant holds in every state. *)
THEOREM ScopeInvariant == Spec => []ScopeInv
<1>1. Init => ScopeInv
  BY InitHolds
<1>2. ScopeInv /\ [Next]_vars => ScopeInv'
  BY StepPreserves
<1> QED
  BY <1>1, <1>2, PTL DEF Spec

(* Every variable of the scopes keeps its type.                            *)
THEOREM ScopeTypeCorrect == Spec => []TypeOK
<1>1. ScopeInv => TypeOK
  BY DEF ScopeInv
<1> QED
  BY <1>1, ScopeInvariant, PTL

(* The gate of every event loop counts exactly the calls that went through  *)
(* it, whether they return, raise or are cancelled: no project is shut out  *)
(* by a call that is long over.                                             *)
THEOREM GatesCount == Spec => []ActiveIsCounted
<1>1. ScopeInv => ActiveIsCounted
  BY DEF ScopeInv
<1> QED
  BY <1>1, ScopeInvariant, PTL

(* In a process with one event loop, where no call is made on another       *)
(* project inside a call, a call and those inside it find their project's   *)
(* code loaded until they return.                                           *)
THEOREM CodeIsKept == ASSUME OneLoop PROVE Spec => []CallsKeepTheirCode
<1>1. ScopeInv => CallsKeepTheirCode
  <2> SUFFICES ASSUME ScopeInv, ~MayNest, NEW t \in Tasks, NEW i \in DOMAIN scopes[t]
               PROVE  loaded = scopes[t][i]
    BY DEF CallsKeepTheirCode
  <2>1. InCall(t)
    BY DEF InCall
  <2> QED
    BY <2>1 DEF ScopeInv, GatesServeOneProject, ServedIsLoaded
<1> QED
  BY <1>1, ScopeInvariant, PTL
=============================================================================
