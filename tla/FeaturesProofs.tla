--------------------------- MODULE FeaturesProofs ---------------------------
(***************************************************************************)
(* For any features and files, however many calls are made, and wherever   *)
(* they are cut short: no text of a feature's own is lost but by a cut     *)
(* inside its own step, and the project is what the manifest says.         *)
(***************************************************************************)
EXTENDS Features, FiniteSetTheorems, TLAPS

Own(f) == {a \in Files : owners[a] = {f}}

Cutting == {"cut", "host", "blockRecord"}
Moving == {"move", "testRecord"}
Restoring == {"restore", "unlink"}
Archiving == {"routes", "trim"} \cup Cutting \cup Moving
Archives == run.what \in {"deactivate", "delete"}

Calls ==
  [what : {"none", "deactivate", "activate", "delete"},
   feature : Features \cup {NoFeature}, at : Stages,
   todo : SUBSET Files, cut : SUBSET Files, item : Files \cup {NoFeature}]

(* What is still to be had of the last texts.                              *)
Held == [a \in Files |-> IF a \in lost THEN Gone ELSE latest[a]]

(* The shape of the state.                                                  *)
Typed ==
  /\ tree \in [Files -> Texts]
  /\ parked \in [Features -> [Files -> Texts]]
  /\ record \in [Features -> (SUBSET Files) \cup {NoRecord}]
  /\ routes \subseteq Features /\ models \subseteq Features
  /\ dropped \subseteq Features /\ unmigrated \subseteq Features
  /\ manifest \in [Features -> [status : {"active", "archived", "none"},
                                pending : BOOLEAN]]
  /\ run \in Calls
  /\ nedits \in 0 .. MaxEdits
  /\ latest \in [Files -> Texts] /\ Held \in [Files -> Texts]
  /\ hurt \subseteq Files /\ lost \subseteq hurt
  /\ short \in [Features -> {"no", "call", "delete"}]

(* Where a call can be, and on which features.                              *)
CallFits ==
  /\ run.what = "none" => run = NoCall
  /\ run.what # "none" => F \in Features /\ manifest[F].status # "none"
  /\ run.what = "activate" =>
       /\ run.at \in {"imports", "tests", "rebuild", "status", "purge"} \cup Restoring
       /\ ~manifest[F].pending
       /\ run.at = "purge" => manifest[F].status = "active"
  /\ run.what = "deactivate" => run.at \in Archiving \cup {"status"}
  /\ run.what = "delete" =>
       run.at \in Archiving \cup {"models", "pending", "purge", "forget"}

(* What its memory holds there: files of its feature, still to be done or   *)
(* done, and the one it is at.                                              *)
MemoryFits ==
  /\ run.cut \subseteq Owned(F, Files) /\ run.todo \subseteq Owned(F, Files)
  /\ run.at \in {"routes", "imports"} => run.cut = {}
  /\ run.at \in Cutting => /\ run.todo \subseteq Blocks
                            /\ run.cut \subseteq Blocks \cap Listed(F)
  /\ run.at = "trim" =>
       /\ run.todo \subseteq Imports /\ run.cut \cap Blocks \subseteq Listed(F)
       /\ \A i \in (run.todo \cup run.cut) \cap Imports : importOf[i] \in run.cut
  /\ run.at \in Moving =>
       /\ run.todo \subseteq Tests
       /\ \A a \in run.todo : tree[a] # Gone \/ (run.at = "testRecord" /\ a = run.item)
  /\ run.at = "imports" => run.todo \subseteq Listed(F) \cap Imports
  /\ run.at \in Restoring => run.todo \subseteq Listed(F) \cap Blocks
  /\ run.at = "tests" => run.todo \subseteq Listed(F) \cap Tests
  /\ run.at \in {"host", "blockRecord", "testRecord", "unlink"} =>
       run.item \in run.todo
  /\ run.at = "host" => /\ tree[run.item] # Gone
                         /\ parked[F][run.item] = tree[run.item]
  /\ run.at \in {"blockRecord", "testRecord"} => tree[run.item] = Gone
  /\ run.at = "unlink" => tree[run.item] # Gone

(* An archive lists files of its feature, and no import without its block.  *)
RecordFits(f) ==
  /\ Listed(f) \subseteq Owned(f, Files)
  /\ \A i \in Listed(f) \cap Imports : importOf[i] \in Listed(f)

(* An import is there as it was generated, or not.                          *)
ImportsAreGenerated ==
  \A i \in Imports :
    /\ tree[i] \in {Gone, Generated} /\ Held[i] \in {Gone, Generated}
    /\ \A f \in Features : parked[f][i] \in {Gone, Generated}

(* Trimmed, and not yet on the record.                                      *)
Unwritten(a) == Here("trim") /\ a \in run.cut \cap Imports

(* A text is in the tree, and if it is not, it is in the archive.           *)
TextsAreKept(f) ==
  \A a \in Own(f) :
    /\ tree[a] # Gone => Held[a] \in {Gone, tree[a]}
    /\ tree[a] = Gone /\ Held[a] # Gone => Held[a] = parked[f][a] \/ Unwritten(a)

(* What is in the archive only is on the record, from the end of the step   *)
(* that took it.                                                            *)
ArchiveIsListed(f) ==
  \A a \in Own(f) \ hurt :
    tree[a] = Gone /\ Held[a] # Gone =>
      \/ a \in Listed(f)
      \/ Unwritten(a)
      \/ run.at \in {"blockRecord", "testRecord"} /\ a = run.item

(* An import has its block, except while a call is about to remove the one  *)
(* or to bring back the other.                                              *)
ImportsHaveBlocks(f) ==
  \A i \in Owned(f, Imports) \ hurt :
    tree[i] # Gone =>
      \/ tree[importOf[i]] # Gone
      \/ /\ F = f
         /\ \/ run.at \in Cutting /\ importOf[i] \in run.cut
            \/ run.at = "blockRecord" /\ importOf[i] = run.item
            \/ run.at = "trim" /\ i \in run.todo
            \/ /\ run.at \in {"imports", "tests"} \cup Restoring
               /\ importOf[i] \in Listed(f)
            \/ run.at = "rebuild"

(* How far deactivate_feature and delete_feature have come: what is left in *)
(* the tree is still to be done.                                            *)
ArchivingComesFar ==
  Archives =>
    /\ run.at # "routes" => F \notin routes
    /\ run.at \notin {"routes"} =>
         \A a \in Owned(F, Blocks) :
           tree[a] # Gone => run.at \in Cutting /\ a \in run.todo
    /\ run.at \notin {"routes", "trim"} \cup Cutting =>
         \A a \in Own(F) \cap Tests :
           tree[a] # Gone => run.at \in Moving /\ a \in run.todo
    /\ run.what = "delete" /\ run.at \in {"purge", "forget"} =>
         F \notin models /\ F \in dropped \cup unmigrated

(* How far activate_feature has: what is not in the tree is still to be     *)
(* done, or missing, and then in the archive neither.                       *)
RestoringComesFar ==
  run.what = "activate" =>
    /\ \A a \in Listed(F) \cap Imports :
         \/ tree[a] # Gone \/ parked[F][a] = Gone
         \/ run.at = "imports" /\ a \in run.todo
    /\ run.at \in {"tests"} \cup Restoring =>
         /\ \A a \in Listed(F) \cap Blocks :
              \/ tree[a] # Gone \/ a \in run.cut
              \/ run.at \in Restoring /\ a \in run.todo
         /\ \A a \in run.cut : parked[F][a] = Gone
    /\ run.at = "tests" =>
         \A a \in Listed(F) \cap Tests : tree[a] # Gone \/ a \in run.cut \cup run.todo
    /\ run.at \in {"rebuild", "status", "purge"} =>
         /\ F \in routes
         /\ \A a \in Own(F) \ hurt : tree[a] # Gone \/ Held[a] = Gone

(* Only a delete removes models, and it is finished, pending or cut short.  *)
ModelsAreThere(f) ==
  f \notin models =>
    \/ manifest[f].status = "none" \/ manifest[f].pending \/ short[f] = "delete"
    \/ F = f /\ run.what = "delete"

(* The manifest tells the truth of a feature whose last call has returned.  *)
IsActive(f) ==
  /\ f \in routes /\ f \in models
  /\ \A a \in Own(f) \ hurt : Held[a] # Gone => tree[a] # Gone

IsOut(f) == f \notin routes /\ \A a \in Own(f) \ hurt : tree[a] = Gone

IsForgotten(f) == IsOut(f) /\ f \notin models /\ f \in dropped \cup unmigrated

IsAsItSays(f) ==
  /\ manifest[f].status = "active" => IsActive(f)
  /\ manifest[f].status = "archived" => IsOut(f)
  /\ manifest[f].status = "none" => IsForgotten(f)

ManifestIsTrue(f) == f # F /\ short[f] = "no" => IsAsItSays(f)

FeatureFits(f) ==
  /\ RecordFits(f) /\ TextsAreKept(f) /\ ArchiveIsListed(f)
  /\ ImportsHaveBlocks(f) /\ ModelsAreThere(f) /\ ManifestIsTrue(f)

(* No text is lost because what leaves the tree is in the archive before,   *)
(* and on its record right after; the rest says how far a call has come,    *)
(* so that it cannot return before the manifest is true.                    *)
FeaturesInv ==
  /\ Typed /\ CallFits /\ MemoryFits /\ ImportsAreGenerated
  /\ ArchivingComesFar /\ RestoringComesFar
  /\ \A f \in Features : FeatureFits(f)

-----------------------------------------------------------------------------
(* What a step of a call leaves alone: all of the features it is not on.    *)
Elsewhere(f) ==
  /\ \A g \in Features \ {f} :
       /\ \A a \in Own(g) : /\ tree'[a] = tree[a] /\ Held'[a] = Held[a]
                            /\ parked'[g][a] = parked[g][a]
       /\ record'[g] = record[g] /\ manifest'[g] = manifest[g] /\ short'[g] = short[g]
       /\ (g \in routes') = (g \in routes) /\ (g \in models') = (g \in models)
       /\ g \in dropped \cup unmigrated => g \in dropped' \cup unmigrated'
  /\ hurt \subseteq hurt'

(* The files of a feature and how they are owned.                           *)
LEMMA OwnFacts ==
  ASSUME NEW f \in Features
  PROVE  /\ Own(f) \subseteq Owned(f, Files)
         /\ Owned(f, Blocks) \subseteq Own(f) /\ Owned(f, Imports) \subseteq Own(f)
         /\ \A g \in Features : g # f => Own(g) \cap Owned(f, Files) = {}
         /\ \A i \in Owned(f, Imports) : importOf[i] \in Owned(f, Blocks)
         /\ Owned(f, Files) \subseteq Files /\ Own(f) \subseteq Files
         /\ Own(f) \subseteq Owned(f, Blocks) \cup Owned(f, Imports) \cup (Own(f) \cap Tests)
<1>1. \A a \in Blocks \cup Imports : f \in owners[a] => owners[a] = {f}
  BY FeaturesAssumption
<1>2. \A i \in Owned(f, Imports) : importOf[i] \in Owned(f, Blocks)
  BY FeaturesAssumption DEF Owned
<1> QED BY <1>1, <1>2 DEF Own, Owned, Files

(* Nothing is in the call where there is none.                              *)
LEMMA NoCallFacts ==
  /\ NoCall.what = "none" /\ NoCall.feature = NoFeature /\ NoCall.at = "none"
  /\ NoCall.todo = {} /\ NoCall.cut = {} /\ NoCall.item = NoFeature
BY DEF NoCall

(* A step of a call on one feature keeps what holds of the others.          *)
LEMMA OthersKeep ==
  ASSUME FeaturesInv, NEW f \in Features, F = f, Elsewhere(f),
         F' \in {f, NoFeature}, NEW g \in Features, g # f
  PROVE  FeatureFits(g)'
<1>1. /\ Typed /\ MemoryFits /\ FeatureFits(g)
  BY DEF FeaturesInv
<1>2. /\ \A a \in Own(g) : /\ tree'[a] = tree[a] /\ Held'[a] = Held[a]
                           /\ parked'[g][a] = parked[g][a]
      /\ record'[g] = record[g] /\ manifest'[g] = manifest[g] /\ short'[g] = short[g]
      /\ (g \in routes') = (g \in routes) /\ (g \in models') = (g \in models)
      /\ g \in dropped \cup unmigrated => g \in dropped' \cup unmigrated'
      /\ hurt \subseteq hurt'
  BY DEF Elsewhere
<1>3. \A a \in Own(g) : a \notin run.cut /\ a \notin run.todo
  BY <1>1, OwnFacts DEF MemoryFits
<1>4. \A a \in Own(g) : ~Unwritten(a)
                        /\ ~(run.at \in {"blockRecord", "testRecord"} /\ a = run.item)
  BY <1>1, <1>3 DEF MemoryFits, Unwritten
<1>5. g # F /\ g # F'
  BY FeaturesAssumption
<1>6. RecordFits(g)' /\ ModelsAreThere(g)' /\ ManifestIsTrue(g)'
  <2>1. RecordFits(g)'
    BY <1>1, <1>2 DEF FeatureFits, RecordFits, Listed, Owned
  <2>2. ModelsAreThere(g)'
    BY <1>1, <1>2, <1>5 DEF FeatureFits, ModelsAreThere
  <2>3. ManifestIsTrue(g)'
    BY <1>1, <1>2, <1>5 DEF FeatureFits, ManifestIsTrue, IsAsItSays, IsActive,
                            IsForgotten, IsOut, Own
  <2> QED BY <2>1, <2>2, <2>3
<1>7. TextsAreKept(g)' /\ ArchiveIsListed(g)'
  BY <1>1, <1>2, <1>4 DEF FeatureFits, TextsAreKept, ArchiveIsListed, Listed, Own
<1>8. ImportsHaveBlocks(g)'
  BY <1>1, <1>2, <1>5, OwnFacts DEF FeatureFits, ImportsHaveBlocks, Owned
<1> QED BY <1>6, <1>7, <1>8 DEF FeatureFits

(* A step of a call within the same call.                                   *)
LEMMA AdvanceFacts ==
  ASSUME Typed, NEW at \in Stages, NEW todo \in SUBSET Files, Advance(at, todo)
  PROVE  /\ run' \in Calls
         /\ run'.what = run.what /\ F' = F /\ run'.at = at
         /\ run'.todo = todo /\ run'.cut = run.cut /\ run'.item = run.item
BY DEF Typed, Advance, Calls, F

-----------------------------------------------------------------------------
(* In the first state all features are active, and no call runs.            *)
LEMMA InitHolds ==
  ASSUME LifecycleInit
  PROVE  FeaturesInv
<1>1. /\ run = NoCall /\ run.what = "none" /\ run.feature = NoFeature
      /\ run.at = "none" /\ run.todo = {} /\ run.cut = {} /\ run.item = NoFeature
  BY NoCallFacts DEF LifecycleInit
<1>2. Typed
  <2>1. Generated \in Texts /\ Gone \in Texts
    BY FeaturesAssumption DEF Texts, Generated, Gone
  <2>2. run \in Calls
    BY DEF LifecycleInit, NoCall, Calls, Stages
  <2>3. /\ tree \in [Files -> Texts] /\ latest \in [Files -> Texts]
        /\ Held \in [Files -> Texts] /\ lost \subseteq hurt
        /\ parked \in [Features -> [Files -> Texts]]
    BY <2>1 DEF LifecycleInit, Held
  <2>4. /\ manifest \in [Features -> [status : {"active", "archived", "none"},
                                    pending : BOOLEAN]]
    <3>1. [status |-> "active", pending |-> FALSE]
            \in [status : {"active", "archived", "none"}, pending : BOOLEAN]
      OBVIOUS
    <3> QED BY <3>1 DEF LifecycleInit
  <2>7. short \in [Features -> {"no", "call", "delete"}]
    BY DEF LifecycleInit
  <2>6. record \in [Features -> (SUBSET Files) \cup {NoRecord}]
    BY DEF LifecycleInit
  <2>5. nedits \in 0 .. MaxEdits
    BY FeaturesAssumption DEF LifecycleInit
  <2> QED BY <2>2, <2>3, <2>4, <2>5, <2>6, <2>7 DEF LifecycleInit, Typed
<1>3. CallFits /\ MemoryFits /\ ArchivingComesFar /\ RestoringComesFar
  BY <1>1 DEF CallFits, MemoryFits, ArchivingComesFar, RestoringComesFar, Cutting, Moving,
              Restoring, Archives
<1>4. ImportsAreGenerated
  BY DEF LifecycleInit, ImportsAreGenerated, Files, Held
<1>5. ASSUME NEW f \in Features PROVE FeatureFits(f)
  <2>1. Listed(f) = {} /\ Gone # Generated
    BY DEF Listed, LifecycleInit, Gone, Generated
  <2>2. \A a \in Files : tree[a] = Generated /\ Held[a] = Generated
    BY DEF LifecycleInit, Held
  <2>3. RecordFits(f) /\ TextsAreKept(f) /\ ArchiveIsListed(f)
    BY <2>1, <2>2 DEF RecordFits, TextsAreKept, ArchiveIsListed, Own
  <2>4. ImportsHaveBlocks(f)
    BY <2>1, <2>2, OwnFacts DEF ImportsHaveBlocks, Owned, Files
  <2>5. ModelsAreThere(f) /\ ManifestIsTrue(f)
    BY <2>1, <2>2 DEF LifecycleInit, ModelsAreThere, ManifestIsTrue, IsAsItSays, IsActive, Own
  <2> QED BY <2>3, <2>4, <2>5 DEF FeatureFits
<1> QED BY <1>2, <1>3, <1>4, <1>5 DEF FeaturesInv

-----------------------------------------------------------------------------
(* Between calls: where nothing is held in memory.                          *)
LEMMA IdleFacts ==
  ASSUME FeaturesInv, run = NoCall
  PROVE  /\ run.what = "none" /\ F = NoFeature /\ F \notin Features
         /\ run.at = "none" /\ run.todo = {} /\ run.cut = {}
         /\ \A a : ~Unwritten(a)
         /\ \A g \in Features : \A i \in Owned(g, Imports) \ hurt :
              tree[i] # Gone => tree[importOf[i]] # Gone
<1>1. /\ run.what = "none" /\ F = NoFeature /\ F \notin Features
      /\ run.at = "none" /\ run.todo = {} /\ run.cut = {}
  BY NoCallFacts, FeaturesAssumption DEF F
<1>2. \A a : ~Unwritten(a)
  BY <1>1 DEF Unwritten
<1>3. \A g \in Features : \A i \in Owned(g, Imports) \ hurt :
        tree[i] # Gone => tree[importOf[i]] # Gone
  BY <1>1 DEF FeaturesInv, FeatureFits, ImportsHaveBlocks
<1> QED BY <1>1, <1>2, <1>3

(* A call begins with nothing done.                                         *)
LEMMA StartKeeps ==
  ASSUME FeaturesInv,
         NEW f \in Features, NEW what \in {"deactivate", "activate", "delete"},
         StartCall(what, f)
  PROVE  FeaturesInv'
<1> DEFINE at == IF what = "activate" THEN "imports" ELSE "routes"
           todo == IF what = "activate" THEN Listed(f) \cap Imports ELSE {}
<1>1. /\ Typed /\ ImportsAreGenerated /\ \A g \in Features : FeatureFits(g)
  BY DEF FeaturesInv
<1>2. /\ run = NoCall /\ Allowed(what, f) /\ UNCHANGED disk /\ UNCHANGED history
      /\ UNCHANGED nedits
  BY DEF StartCall
<1>3. run' = [what |-> what, feature |-> f, at |-> at, todo |-> todo, cut |-> {},
               item |-> NoFeature]
  BY DEF StartCall, NoCall
<1>4. /\ run'.what = what /\ F' = f /\ run'.at = at
      /\ run'.todo = todo /\ run'.cut = {}
  BY <1>3 DEF F
<1>5. /\ UNCHANGED <<tree, parked, record, routes, models, dropped, manifest>>
      /\ UNCHANGED <<latest, lost, Held, hurt, short, unmigrated>>
  BY <1>2 DEF disk, history, Held
<1>6. Listed(f) \subseteq Owned(f, Files) /\ Listed(f)' = Listed(f)
  BY <1>1, <1>5 DEF FeatureFits, RecordFits, Listed
<1>7. Typed'
  <2>1. todo \subseteq Files /\ at \in Stages
    BY <1>6 DEF Stages, Owned
  <2>2. run' \in Calls
    BY <1>3, <2>1 DEF Calls
  <2> QED BY <1>1, <1>2, <1>5, <2>2 DEF Typed
<1>8. CallFits'
  BY <1>2, <1>4, <1>5 DEF CallFits, Allowed, Archiving, Cutting, Moving, Restoring
<1>9. MemoryFits'
  BY <1>4, <1>5, <1>6 DEF MemoryFits, Cutting, Moving, Restoring, Listed
<1>10. ImportsAreGenerated'
  BY <1>1, <1>5 DEF ImportsAreGenerated
<1>11. ArchivingComesFar' /\ RestoringComesFar'
  BY <1>4, <1>5, <1>6 DEF ArchivingComesFar, RestoringComesFar, Archives, Restoring, Listed
<1>12. ASSUME NEW g \in Features PROVE FeatureFits(g)'
  <2>1. FeatureFits(g)
    BY <1>1
  <2>2. RecordFits(g)'
    BY <1>5, <2>1 DEF FeatureFits, RecordFits, Listed
  <2>3. TextsAreKept(g)' /\ ArchiveIsListed(g)'
    BY <1>2, <1>5, <2>1, IdleFacts
       DEF FeatureFits, TextsAreKept, ArchiveIsListed, Listed, Own
  <2>4. ImportsHaveBlocks(g)'
    BY <1>2, <1>5, IdleFacts DEF ImportsHaveBlocks, Owned
  <2>5. ModelsAreThere(g)'
    BY <1>2, <1>5, <2>1, IdleFacts DEF FeatureFits, ModelsAreThere
  <2>6. ManifestIsTrue(g)'
    BY <1>2, <1>4, <1>5, <2>1, IdleFacts
       DEF FeatureFits, ManifestIsTrue, IsAsItSays, IsActive, IsOut, IsForgotten, Own
  <2> QED BY <2>2, <2>3, <2>4, <2>5, <2>6 DEF FeatureFits
<1> QED BY <1>7, <1>8, <1>9, <1>10, <1>11, <1>12 DEF FeaturesInv

(* An edit is a text that may not be lost, of a file that is there.         *)
LEMMA EditKeeps ==
  ASSUME FeaturesInv, NEW a \in Files, Edit(a)
  PROVE  FeaturesInv'
<1>1. /\ Typed /\ ImportsAreGenerated /\ \A g \in Features : FeatureFits(g)
  BY DEF FeaturesInv
<1>2. /\ run = NoCall /\ a \notin Imports /\ tree[a] # Gone
      /\ nedits' = nedits + 1 /\ nedits < MaxEdits
      /\ tree' = [tree EXCEPT ![a] = nedits + 2]
      /\ latest' = [latest EXCEPT ![a] = nedits + 2] /\ lost' = lost \ {a}
      /\ UNCHANGED <<parked, record, routes, models, dropped, manifest, run,
                     hurt, short, unmigrated>>
  BY DEF Edit
<1>3. /\ nedits \in Nat /\ nedits + 2 \in Texts /\ nedits + 2 # Gone
      /\ nedits' \in 0 .. MaxEdits
  BY <1>1, <1>2, FeaturesAssumption DEF Typed, Texts, Gone
<1>4. \A b \in Files : /\ tree'[b] = IF b = a THEN nedits + 2 ELSE tree[b]
                       /\ Held'[b] = IF b = a THEN nedits + 2 ELSE Held[b]
  BY <1>1, <1>2 DEF Typed, Held
<1>5. \A b \in Files : (tree'[b] # Gone) = (tree[b] # Gone)
  BY <1>2, <1>3, <1>4
<1>6. Typed'
  <2>1. Held' = [b \in Files |-> IF b = a THEN nedits + 2 ELSE Held[b]]
    BY <1>1, <1>2 DEF Typed, Held
  <2> QED BY <1>1, <1>2, <1>3, <2>1 DEF Typed
<1>7. CallFits' /\ MemoryFits' /\ ArchivingComesFar' /\ RestoringComesFar'
  BY <1>2, IdleFacts DEF CallFits, MemoryFits, ArchivingComesFar, RestoringComesFar,
                         Cutting, Moving, Restoring, Archives
<1>8. ImportsAreGenerated'
  BY <1>1, <1>2, <1>4 DEF ImportsAreGenerated, Files
<1>9. ASSUME NEW g \in Features PROVE FeatureFits(g)'
  <2>1. FeatureFits(g)
    BY <1>1
  <2>2. RecordFits(g)' /\ ModelsAreThere(g)'
    BY <1>2, <2>1 DEF FeatureFits, RecordFits, ModelsAreThere, Listed, F
  <2>3. TextsAreKept(g)'
    BY <1>2, <1>3, <1>4, <2>1, IdleFacts DEF FeatureFits, TextsAreKept, Own
  <2>4. ArchiveIsListed(g)'
    BY <1>2, <1>3, <1>4, <2>1, IdleFacts DEF FeatureFits, ArchiveIsListed, Own, Listed
  <2>5. ImportsHaveBlocks(g)'
    <3>1. \A i \in Owned(g, Imports) : i \in Files /\ importOf[i] \in Files
      BY OwnFacts DEF Owned, Files
    <3> QED BY <1>2, <1>5, <3>1, IdleFacts DEF ImportsHaveBlocks
  <2>6. ManifestIsTrue(g)'
    <3>1. g # F /\ (g # F)'
      BY <1>2, IdleFacts DEF F
    <3>2. \A b \in Own(g) : b \in Files
      BY DEF Own
    <3>3. \A b \in Own(g) \ hurt : tree[b] = Gone => b # a
      BY <1>2
    <3> QED BY <1>2, <1>4, <1>5, <2>1, <3>1, <3>2, <3>3
            DEF FeatureFits, ManifestIsTrue, IsAsItSays, IsActive, IsOut, IsForgotten
  <2> QED BY <2>2, <2>3, <2>4, <2>5, <2>6 DEF FeatureFits
<1> QED BY <1>6, <1>7, <1>8, <1>9 DEF FeaturesInv

(* A migration by itself drops what has no models.                          *)
LEMMA MigrationsKeep ==
  ASSUME FeaturesInv, MakeMigrations
  PROVE  FeaturesInv'
<1>1. /\ run = NoCall /\ dropped' = Features \ models
      /\ UNCHANGED <<tree, parked, record, routes, models, manifest, run>>
      /\ UNCHANGED <<latest, lost, Held, hurt, short, unmigrated, nedits>>
  BY DEF MakeMigrations, bounds, history, Held
<1>2. Typed' /\ ImportsAreGenerated'
  BY <1>1 DEF FeaturesInv, Typed, ImportsAreGenerated
<1>3. CallFits' /\ MemoryFits' /\ ArchivingComesFar' /\ RestoringComesFar'
  BY <1>1, IdleFacts DEF CallFits, MemoryFits, ArchivingComesFar, RestoringComesFar,
                         Cutting, Moving, Restoring, Archives
<1>4. ASSUME NEW g \in Features PROVE FeatureFits(g)'
  <2>1. FeatureFits(g)
    BY DEF FeaturesInv
  <2>2. RecordFits(g)' /\ ModelsAreThere(g)' /\ TextsAreKept(g)' /\ ArchiveIsListed(g)'
    BY <1>1, <2>1 DEF FeatureFits, RecordFits, ModelsAreThere, TextsAreKept,
                      ArchiveIsListed, Listed, Own, Unwritten, F, Here
  <2>3. ImportsHaveBlocks(g)'
    BY <1>1, IdleFacts DEF ImportsHaveBlocks, Owned
  <2>4. ManifestIsTrue(g)'
    BY <1>1, <2>1 DEF FeatureFits, ManifestIsTrue, IsAsItSays, IsActive, IsOut,
                      IsForgotten, Own, F
  <2> QED BY <2>2, <2>3, <2>4 DEF FeatureFits
<1> QED BY <1>2, <1>3, <1>4 DEF FeaturesInv

-----------------------------------------------------------------------------
(* What runs where.                                                         *)
LEMMA PlaceFacts ==
  ASSUME FeaturesInv, run.at # "none"
  PROVE  /\ F \in Features /\ run.what # "none" /\ FeatureFits(F)
         /\ manifest[F].status # "none"
         /\ run.at \in Archiving => Archives
         /\ run.at \in {"imports", "tests", "rebuild"} \cup Restoring =>
              run.what = "activate"
         /\ run.at \in {"models", "pending", "forget"} => run.what = "delete"
         /\ run.at = "status" => run.what \in {"activate", "deactivate"}
         /\ run.at = "purge" => run.what \in {"activate", "delete"}
<1>1. /\ Typed /\ CallFits /\ \A g \in Features : FeatureFits(g)
  BY DEF FeaturesInv
<1>2. run.what # "none"
  BY <1>1, NoCallFacts DEF CallFits
<1>3. F \in Features /\ manifest[F].status # "none" /\ FeatureFits(F)
  BY <1>1, <1>2 DEF CallFits
<1>4. run.what \in {"deactivate", "activate", "delete"}
  BY <1>1, <1>2 DEF Typed, Calls
<1> QED BY <1>1, <1>2, <1>3, <1>4
        DEF CallFits, Archiving, Cutting, Moving, Restoring, Archives

(* The invariant after a step of a call on feature f.                       *)
LEMMA StepKeeps ==
  ASSUME FeaturesInv, NEW f \in Features, F = f,
         F' \in {f, NoFeature}, Elsewhere(f),
         Typed', CallFits', MemoryFits', ImportsAreGenerated',
         ArchivingComesFar', RestoringComesFar', FeatureFits(f)'
  PROVE  FeaturesInv'
BY OthersKeep DEF FeaturesInv

(* archive_artifacts() takes the routes first.                              *)
LEMMA UnregisterRoutesKeeps ==
  ASSUME FeaturesInv, UnregisterRoutes, NEW f, f = F
  PROVE  FeaturesInv'
<1> DEFINE todo == Owned(f, Blocks)
<1>1. /\ Typed /\ CallFits /\ MemoryFits /\ ImportsAreGenerated
  BY DEF FeaturesInv
<1>2. /\ run.at = "routes" /\ routes' = routes \ {f} /\ Advance("cut", todo)
      /\ UNCHANGED <<tree, parked, record, models, dropped, manifest>>
      /\ UNCHANGED <<latest, lost, Held, hurt, short, unmigrated, nedits>>
  BY DEF UnregisterRoutes, Here, bounds, history, Held
<1>3. /\ f \in Features /\ Archives /\ FeatureFits(f) /\ manifest[f].status # "none"
  BY <1>2, PlaceFacts DEF Archiving
<1>4. todo \in SUBSET Files /\ "cut" \in Stages
  BY DEF Owned, Files, Stages
<1>5. /\ run' \in Calls /\ run'.what = run.what /\ F' = f /\ run'.at = "cut"
      /\ run'.todo = todo /\ run'.cut = {} /\ run'.item = run.item
  BY <1>1, <1>2, <1>4, AdvanceFacts DEF MemoryFits
<1>6. Elsewhere(f)
  BY <1>2 DEF Elsewhere
<1>7. Typed' /\ ImportsAreGenerated'
  BY <1>1, <1>2, <1>5 DEF Typed, ImportsAreGenerated
<1>8. CallFits'
  BY <1>1, <1>2, <1>3, <1>5 DEF CallFits, Archives, Archiving, Cutting
<1>9. MemoryFits'
  BY <1>5 DEF MemoryFits, Cutting, Moving, Restoring, Owned, Files
<1>10. ArchivingComesFar'
  BY <1>2, <1>5 DEF ArchivingComesFar, Cutting
<1>11. RestoringComesFar'
  BY <1>3, <1>5 DEF RestoringComesFar, Archives
<1>12. FeatureFits(f)'
  <2>1. RecordFits(f)' /\ ModelsAreThere(f)' /\ ManifestIsTrue(f)'
    BY <1>2, <1>3, <1>5 DEF FeatureFits, RecordFits, Listed, ModelsAreThere, ManifestIsTrue
  <2>2. TextsAreKept(f)' /\ ArchiveIsListed(f)'
    BY <1>2, <1>3, <1>5 DEF FeatureFits, TextsAreKept, ArchiveIsListed, Listed, Unwritten, Here
  <2>3. ImportsHaveBlocks(f)'
    BY <1>2, <1>3, <1>5 DEF FeatureFits, ImportsHaveBlocks, Cutting, Restoring
  <2> QED BY <2>1, <2>2, <2>3 DEF FeatureFits
<1> QED BY <1>3, <1>5, <1>6, <1>7, <1>8, <1>9, <1>10, <1>11, <1>12, StepKeeps

(* The fragment is on the disk before the host loses the block.             *)
LEMMA CutKeeps ==
  ASSUME FeaturesInv, NEW a \in Files, Cut(a), NEW f, f = F
  PROVE  FeaturesInv'
<1>1. /\ Typed /\ CallFits /\ MemoryFits /\ ImportsAreGenerated /\ ArchivingComesFar
  BY DEF FeaturesInv
<1>2. /\ run.at = "cut" /\ a \in run.todo
      /\ UNCHANGED <<tree, record, routes, models, dropped, manifest>>
      /\ UNCHANGED <<latest, lost, Held, hurt, short, unmigrated, nedits>>
  BY DEF Cut, Here, bounds, history, Held
<1>3. /\ f \in Features /\ Archives /\ FeatureFits(f) /\ manifest[f].status # "none"
  BY <1>2, PlaceFacts DEF Archiving, Cutting
<1>4. a \in Own(f) /\ a \in Blocks /\ a \notin Imports
  BY <1>1, <1>2, <1>3, OwnFacts, FeaturesAssumption DEF MemoryFits, Cutting, Owned
<1>5. CASE tree[a] = Gone /\ Advance("cut", run.todo \ {a}) /\ UNCHANGED parked
  <2>1. run.todo \ {a} \in SUBSET Files /\ "cut" \in Stages
    BY <1>1 DEF Typed, Calls, Stages
  <2>2. /\ run' \in Calls /\ run'.what = run.what /\ F' = f /\ run'.at = "cut"
        /\ run'.todo = run.todo \ {a} /\ run'.cut = run.cut /\ run'.item = run.item
    BY <1>1, <1>5, <2>1, AdvanceFacts
  <2>3. Elsewhere(f)
    BY <1>2, <1>5 DEF Elsewhere
  <2>4. Typed' /\ ImportsAreGenerated'
    BY <1>1, <1>2, <1>5, <2>2 DEF Typed, ImportsAreGenerated
  <2>5. CallFits'
    BY <1>1, <1>2, <1>3, <2>2 DEF CallFits, Archives, Archiving, Cutting
  <2>6. MemoryFits'
    BY <1>1, <1>2, <2>2 DEF MemoryFits, Cutting, Moving, Restoring, Listed
  <2>7. ArchivingComesFar' /\ RestoringComesFar'
    BY <1>1, <1>2, <1>3, <1>5, <2>2
       DEF ArchivingComesFar, RestoringComesFar, Cutting, Archives
  <2>8. FeatureFits(f)'
    BY <1>2, <1>3, <1>5, <2>2
       DEF FeatureFits, RecordFits, ModelsAreThere, ManifestIsTrue, TextsAreKept,
           ArchiveIsListed, ImportsHaveBlocks, Listed, Unwritten, Here
  <2> QED BY <1>3, <2>2, <2>3, <2>4, <2>5, <2>6, <2>7, <2>8, StepKeeps
<1>6. CASE /\ tree[a] # Gone
           /\ parked' = [parked EXCEPT ![f][a] = tree[a]]
           /\ run' = [run EXCEPT !.at = "host", !.item = a]
  <2>1. /\ run' \in Calls /\ run'.what = run.what /\ F' = f /\ run'.at = "host"
        /\ run'.todo = run.todo /\ run'.cut = run.cut /\ run'.item = a
    BY <1>1, <1>6 DEF Typed, Calls, F, Stages
  <2>2. \A g \in Features, b \in Files :
          parked'[g][b] = IF g = f /\ b = a THEN tree[a] ELSE parked[g][b]
    BY <1>1, <1>6 DEF Typed
  <2>3. Elsewhere(f)
    BY <1>2, <2>2 DEF Elsewhere, Own
  <2>4. Typed'
    <3>1. tree[a] \in Texts
      BY <1>1 DEF Typed
    <3>2. parked' \in [Features -> [Files -> Texts]]
      BY <1>1, <1>6, <3>1 DEF Typed
    <3> QED BY <1>1, <1>2, <2>1, <3>2 DEF Typed
  <2>5. ImportsAreGenerated'
    BY <1>1, <1>2, <1>4, <2>2 DEF ImportsAreGenerated, Files
  <2>6. CallFits'
    BY <1>1, <1>2, <1>3, <2>1 DEF CallFits, Archives, Archiving, Cutting
  <2>7. MemoryFits'
    BY <1>1, <1>2, <1>3, <1>6, <2>1, <2>2
       DEF MemoryFits, Cutting, Moving, Restoring, Listed
  <2>8. ArchivingComesFar' /\ RestoringComesFar'
    BY <1>1, <1>2, <1>3, <2>1
       DEF ArchivingComesFar, RestoringComesFar, Cutting, Archives
  <2>9. TextsAreKept(f)'
    BY <1>2, <1>3, <1>4, <1>6, <2>1, <2>2
       DEF FeatureFits, TextsAreKept, Unwritten, Here, Own
  <2>10. ArchiveIsListed(f)'
    BY <1>2, <1>3, <2>1 DEF FeatureFits, ArchiveIsListed, Listed, Unwritten, Here
  <2>11. ImportsHaveBlocks(f)'
    BY <1>2, <1>3, <2>1 DEF FeatureFits, ImportsHaveBlocks, Cutting, Restoring
  <2>12. FeatureFits(f)'
    BY <1>2, <1>3, <2>1, <2>9, <2>10, <2>11
       DEF FeatureFits, RecordFits, ModelsAreThere, ManifestIsTrue, Listed
  <2> QED BY <1>3, <2>1, <2>3, <2>4, <2>5, <2>6, <2>7, <2>8, <2>12, StepKeeps
<1> QED BY <1>5, <1>6 DEF Cut

(* The host loses the block.                                                *)
LEMMA CutHostKeeps ==
  ASSUME FeaturesInv, CutHost, NEW f, f = F
  PROVE  FeaturesInv'
<1> DEFINE a == run.item
<1>1. /\ Typed /\ CallFits /\ MemoryFits /\ ImportsAreGenerated /\ ArchivingComesFar
  BY DEF FeaturesInv
<1>2. /\ run.at = "host" /\ tree' = [tree EXCEPT ![a] = Gone]
      /\ Advance("blockRecord", run.todo)
      /\ UNCHANGED <<parked, record, routes, models, dropped, manifest>>
      /\ UNCHANGED <<latest, lost, Held, hurt, short, unmigrated, nedits>>
  BY DEF CutHost, Here, bounds, history, Held
<1>3. /\ f \in Features /\ Archives /\ FeatureFits(f) /\ manifest[f].status # "none"
  BY <1>2, PlaceFacts DEF Archiving, Cutting
<1>4. /\ a \in run.todo /\ a \in Own(f) /\ a \in Blocks /\ a \notin Imports /\ a \in Files
      /\ tree[a] # Gone /\ parked[f][a] = tree[a]
  BY <1>1, <1>2, <1>3, OwnFacts, FeaturesAssumption DEF MemoryFits, Cutting, Owned
<1>5. /\ run' \in Calls /\ run'.what = run.what /\ F' = f /\ run'.at = "blockRecord"
      /\ run'.todo = run.todo /\ run'.cut = run.cut /\ run'.item = a
  <2>1. run.todo \in SUBSET Files /\ "blockRecord" \in Stages
    BY <1>1 DEF Typed, Calls, Stages
  <2> QED BY <1>1, <1>2, <2>1, AdvanceFacts
<1>6. \A b \in Files : tree'[b] = IF b = a THEN Gone ELSE tree[b]
  BY <1>1, <1>2 DEF Typed
<1> HIDE DEF a
<1>7. Elsewhere(f)
  BY <1>2, <1>4, <1>6 DEF Elsewhere, Own
<1>8. Typed'
  <2>1. Gone \in Texts
    BY FeaturesAssumption DEF Gone, Texts
  <2> QED BY <1>1, <1>2, <1>5, <2>1 DEF Typed
<1>9. CallFits'
  BY <1>1, <1>2, <1>3, <1>5 DEF CallFits, Archives, Archiving, Cutting
<1>10. MemoryFits'
  BY <1>1, <1>2, <1>3, <1>4, <1>5, <1>6 DEF MemoryFits, Cutting, Moving, Restoring, Listed
<1>11. ImportsAreGenerated'
  BY <1>1, <1>2, <1>4, <1>6 DEF ImportsAreGenerated, Files
<1>12. ArchivingComesFar' /\ RestoringComesFar'
  BY <1>1, <1>2, <1>3, <1>5, <1>6
     DEF ArchivingComesFar, RestoringComesFar, Cutting, Archives, Owned, Files
<1>13. FeatureFits(f)'
  <2>1. TextsAreKept(f)'
    BY <1>2, <1>3, <1>4, <1>5, <1>6 DEF FeatureFits, TextsAreKept, Unwritten, Here, Own
  <2>2. ArchiveIsListed(f)'
    BY <1>2, <1>3, <1>4, <1>5, <1>6
       DEF FeatureFits, ArchiveIsListed, Unwritten, Here, Own, Listed
  <2>3. ImportsHaveBlocks(f)'
    <3>1. \A i \in Owned(f, Imports) : i \in Files /\ i # a /\ importOf[i] \in Files
      BY <1>3, <1>4, OwnFacts, FeaturesAssumption DEF Owned, Files
    <3> QED BY <1>2, <1>3, <1>5, <1>6, <3>1
            DEF FeatureFits, ImportsHaveBlocks, Cutting, Restoring
  <2> QED BY <1>2, <1>3, <1>5, <2>1, <2>2, <2>3
          DEF FeatureFits, RecordFits, ModelsAreThere, ManifestIsTrue, Listed
<1> QED BY <1>3, <1>5, <1>7, <1>8, <1>9, <1>10, <1>11, <1>12, <1>13, StepKeeps

(* What a record lists after one more file.                                 *)
LEMMA CheckpointFacts ==
  ASSUME Typed, NEW f \in Features, RecordFits(f),
         NEW added \in SUBSET Files, record' = [record EXCEPT ![f] = Listed(f) \cup added]
  PROVE  /\ Listed(f)' = Listed(f) \cup added
         /\ \A g \in Features : g # f => record'[g] = record[g]
         /\ record' \in [Features -> (SUBSET Files) \cup {NoRecord}]
<1>1. Listed(f) \subseteq Files /\ NoFeature \notin Files
  BY OwnFacts, FeaturesAssumption DEF RecordFits, Owned
<1>2. record'[f] = Listed(f) \cup added
  BY DEF Typed
<1>3. record'[f] # NoRecord
  BY <1>1, <1>2 DEF NoRecord
<1> QED BY <1>1, <1>2, <1>3 DEF Typed, Listed

(* The record lists what was cut, before anything else is cut.              *)
LEMMA RecordBlockKeeps ==
  ASSUME FeaturesInv, RecordBlock, NEW f, f = F
  PROVE  FeaturesInv'
<1> DEFINE a == run.item
<1>1. /\ Typed /\ CallFits /\ MemoryFits /\ ImportsAreGenerated /\ ArchivingComesFar
  BY DEF FeaturesInv
<1>2. /\ run.at = "blockRecord"
      /\ run' = [run EXCEPT !.at = "cut", !.todo = @ \ {a}, !.item = NoFeature,
                              !.cut = @ \cup {a}]
      /\ record' = [record EXCEPT ![f] = Listed(f) \cup {a}]
      /\ UNCHANGED <<tree, parked, routes, models, dropped, manifest>>
      /\ UNCHANGED <<latest, lost, Held, hurt, short, unmigrated, nedits>>
  BY DEF RecordBlock, Checkpointed, Here, bounds, history, Held
<1>3. /\ f \in Features /\ Archives /\ FeatureFits(f) /\ manifest[f].status # "none"
      /\ RecordFits(f)
  BY <1>2, PlaceFacts DEF Archiving, Cutting, FeatureFits
<1>4. /\ a \in run.todo /\ a \in Own(f) /\ a \in Blocks /\ a \notin Imports /\ a \in Files
      /\ a \in Owned(f, Files) /\ tree[a] = Gone
  BY <1>1, <1>2, <1>3, OwnFacts, FeaturesAssumption DEF MemoryFits, Cutting, Owned
<1>5. /\ run' \in Calls /\ run'.what = run.what /\ F' = f /\ run'.at = "cut"
      /\ run'.todo = run.todo \ {a} /\ run'.cut = run.cut \cup {a}
  BY <1>1, <1>2, <1>4 DEF Typed, Calls, F, Stages
<1> HIDE DEF a
<1>6. /\ Listed(f)' = Listed(f) \cup {a}
      /\ \A g \in Features : g # f => record'[g] = record[g]
      /\ record' \in [Features -> (SUBSET Files) \cup {NoRecord}]
  <2>1. {a} \in SUBSET Files
    BY <1>4
  <2> QED BY <1>1, <1>2, <1>3, <2>1, CheckpointFacts
<1>7. Elsewhere(f)
  BY <1>2, <1>6 DEF Elsewhere
<1>8. Typed'
  BY <1>1, <1>2, <1>5, <1>6 DEF Typed
<1>9. CallFits'
  BY <1>1, <1>2, <1>3, <1>5 DEF CallFits, Archives, Archiving, Cutting
<1>10. MemoryFits'
  BY <1>1, <1>2, <1>3, <1>4, <1>5, <1>6 DEF MemoryFits, Cutting, Moving, Restoring
<1>11. ImportsAreGenerated'
  BY <1>1, <1>2 DEF ImportsAreGenerated
<1>12. ArchivingComesFar' /\ RestoringComesFar'
  BY <1>1, <1>2, <1>3, <1>4, <1>5
     DEF ArchivingComesFar, RestoringComesFar, Cutting, Archives, Owned
<1>13. FeatureFits(f)'
  <2>1. TextsAreKept(f)'
    BY <1>2, <1>3, <1>5 DEF FeatureFits, TextsAreKept, Unwritten, Here
  <2>2. ArchiveIsListed(f)'
    BY <1>2, <1>3, <1>4, <1>5, <1>6 DEF FeatureFits, ArchiveIsListed, Unwritten, Here, a
  <2>3. ImportsHaveBlocks(f)'
    BY <1>2, <1>3, <1>5, <1>6 DEF FeatureFits, ImportsHaveBlocks, Cutting, Restoring, a
  <2>4. RecordFits(f)'
    BY <1>3, <1>4, <1>6 DEF RecordFits, Owned
  <2> QED BY <1>2, <1>3, <1>5, <2>1, <2>2, <2>3, <2>4
          DEF FeatureFits, ModelsAreThere, ManifestIsTrue
<1> QED BY <1>3, <1>5, <1>7, <1>8, <1>9, <1>10, <1>11, <1>12, <1>13, StepKeeps

(* The imports of the blocks that were cut are to be trimmed.               *)
LEMMA EndCutsKeeps ==
  ASSUME FeaturesInv, EndCuts, NEW f, f = F
  PROVE  FeaturesInv'
<1>1. /\ Typed /\ CallFits /\ MemoryFits /\ ImportsAreGenerated /\ ArchivingComesFar
  BY DEF FeaturesInv
<1>2. /\ run.at = "cut" /\ run.todo = {} /\ Advance("trim", Trimmed)
      /\ UNCHANGED <<tree, parked, record, routes, models, dropped, manifest>>
      /\ UNCHANGED <<latest, lost, Held, hurt, short, unmigrated, nedits>>
  BY DEF EndCuts, Here, bounds, history, Held, disk
<1>3. /\ f \in Features /\ Archives /\ FeatureFits(f) /\ manifest[f].status # "none"
  BY <1>2, PlaceFacts DEF Archiving, Cutting
<1>4. /\ run' \in Calls /\ run'.what = run.what /\ F' = f /\ run'.at = "trim"
      /\ run'.todo = Trimmed /\ run'.cut = run.cut
  <2>1. Trimmed \in SUBSET Files /\ "trim" \in Stages
    BY DEF Trimmed, Files, Stages
  <2> QED BY <1>1, <1>2, <2>1, AdvanceFacts
<1>5. Trimmed \subseteq Owned(f, Files) /\ Trimmed \subseteq Imports
      /\ run.cut \subseteq Blocks \cap Listed(f) /\ Imports \cap Blocks = {}
      /\ run.cut \subseteq Owned(f, Files)
  BY <1>1, <1>2, FeaturesAssumption DEF Trimmed, MemoryFits, Cutting, Owned, Files
<1>6. Elsewhere(f)
  BY <1>2 DEF Elsewhere
<1>7. Typed' /\ ImportsAreGenerated'
  BY <1>1, <1>2, <1>4 DEF Typed, ImportsAreGenerated
<1>8. CallFits'
  BY <1>1, <1>2, <1>3, <1>4 DEF CallFits, Archives, Archiving
<1>9. MemoryFits'
  <2>1. \A i \in (Trimmed \cup run.cut) \cap Imports : importOf[i] \in run.cut
    BY <1>5 DEF Trimmed
  <2> QED BY <1>2, <1>4, <1>5, <2>1 DEF MemoryFits, Cutting, Moving, Restoring, Listed
<1>10. ArchivingComesFar' /\ RestoringComesFar'
  BY <1>1, <1>2, <1>3, <1>4
     DEF ArchivingComesFar, RestoringComesFar, Cutting, Archives
<1>11. FeatureFits(f)'
  <2>1. TextsAreKept(f)' /\ ArchiveIsListed(f)'
    BY <1>2, <1>3, <1>4, <1>5
       DEF FeatureFits, TextsAreKept, ArchiveIsListed, Unwritten, Here, Listed
  <2>2. ImportsHaveBlocks(f)'
    <3>1. \A i \in Owned(f, Imports) : tree[importOf[i]] = Gone
      BY <1>1, <1>2, <1>3, OwnFacts DEF ArchivingComesFar, Cutting
    <3>2. ASSUME NEW i \in Owned(f, Imports) \ hurt, tree[i] # Gone
          PROVE  i \in Trimmed
      <4>1. importOf[i] \in run.cut
        BY <1>2, <1>3, <3>1, <3>2 DEF FeatureFits, ImportsHaveBlocks, Cutting, Restoring
      <4> QED BY <3>2, <4>1 DEF Trimmed, Owned
    <3> QED BY <1>2, <1>4, <3>2 DEF ImportsHaveBlocks
  <2> QED BY <1>2, <1>3, <1>4, <2>1, <2>2
          DEF FeatureFits, RecordFits, ModelsAreThere, ManifestIsTrue, Listed
<1> QED BY <1>3, <1>4, <1>6, <1>7, <1>8, <1>9, <1>10, <1>11, StepKeeps

(* An import leaves its module; its text is in memory.                      *)
LEMMA TrimKeeps ==
  ASSUME FeaturesInv, NEW a \in Files, Trim(a), NEW f, f = F
  PROVE  FeaturesInv'
<1>1. /\ Typed /\ CallFits /\ MemoryFits /\ ImportsAreGenerated /\ ArchivingComesFar
  BY DEF FeaturesInv
<1>2. /\ run.at = "trim" /\ a \in run.todo
      /\ tree' = [tree EXCEPT ![a] = Gone]
      /\ run' = [run EXCEPT !.todo = @ \ {a}, !.cut = @ \cup {a}]
      /\ UNCHANGED <<parked, record, routes, models, dropped, manifest>>
      /\ UNCHANGED <<latest, lost, Held, hurt, short, unmigrated, nedits>>
  BY DEF Trim, Here, bounds, history, Held
<1>3. /\ f \in Features /\ Archives /\ FeatureFits(f) /\ manifest[f].status # "none"
  BY <1>2, PlaceFacts DEF Archiving
<1>4. /\ a \in Own(f) /\ a \in Imports /\ a \notin Blocks /\ a \notin Tests
      /\ a \in Owned(f, Files)
  BY <1>1, <1>2, <1>3, OwnFacts, FeaturesAssumption DEF MemoryFits, Owned
<1>5. /\ run' \in Calls /\ run'.what = run.what /\ F' = f /\ run'.at = "trim"
      /\ run'.todo = run.todo \ {a} /\ run'.cut = run.cut \cup {a}
  BY <1>1, <1>2, <1>4 DEF Typed, Calls, F, Stages
<1>6. \A b \in Files : tree'[b] = IF b = a THEN Gone ELSE tree[b]
  BY <1>1, <1>2 DEF Typed
<1>7. Elsewhere(f)
  BY <1>2, <1>4, <1>6 DEF Elsewhere, Own
<1>8. Typed'
  <2>1. Gone \in Texts
    BY FeaturesAssumption DEF Gone, Texts
  <2> QED BY <1>1, <1>2, <1>5, <2>1 DEF Typed
<1>9. CallFits'
  BY <1>1, <1>2, <1>3, <1>5 DEF CallFits, Archives, Archiving
<1>10. MemoryFits'
  BY <1>1, <1>2, <1>3, <1>4, <1>5 DEF MemoryFits, Cutting, Moving, Restoring, Listed
<1>11. ImportsAreGenerated'
  BY <1>1, <1>2, <1>6 DEF ImportsAreGenerated, Files
<1>12. ArchivingComesFar' /\ RestoringComesFar'
  BY <1>1, <1>2, <1>3, <1>4, <1>5, <1>6
     DEF ArchivingComesFar, RestoringComesFar, Cutting, Archives, Owned, Files
<1>13. FeatureFits(f)'
  <2>1. TextsAreKept(f)'
    BY <1>2, <1>3, <1>4, <1>5, <1>6 DEF FeatureFits, TextsAreKept, Unwritten, Here, Own
  <2>2. ArchiveIsListed(f)'
    BY <1>2, <1>3, <1>4, <1>5, <1>6
       DEF FeatureFits, ArchiveIsListed, Unwritten, Here, Own, Listed
  <2>3. ImportsHaveBlocks(f)'
    <3>1. \A i \in Owned(f, Imports) : i \in Files /\ importOf[i] \in Files
                                       /\ importOf[i] # a
      BY <1>3, <1>4, OwnFacts, FeaturesAssumption DEF Owned, Files
    <3> QED BY <1>2, <1>3, <1>5, <1>6, <3>1
            DEF FeatureFits, ImportsHaveBlocks, Cutting, Restoring
  <2> QED BY <1>2, <1>3, <1>5, <2>1, <2>2, <2>3
          DEF FeatureFits, RecordFits, ModelsAreThere, ManifestIsTrue, Listed
<1> QED BY <1>3, <1>5, <1>7, <1>8, <1>9, <1>10, <1>11, <1>12, <1>13, StepKeeps

(* The record lists the imports, with their text.                           *)
LEMMA RecordTrimsKeeps ==
  ASSUME FeaturesInv, RecordTrims, NEW f, f = F
  PROVE  FeaturesInv'
<1> DEFINE todo == {a \in Owned(f, Tests) : tree[a] # Gone /\ ~Kept(a)}
<1>1. /\ Typed /\ CallFits /\ MemoryFits /\ ImportsAreGenerated /\ ArchivingComesFar
  BY DEF FeaturesInv
<1>2. /\ run.at = "trim" /\ run.todo = {} /\ Advance("move", todo)
      /\ record' = [record EXCEPT ![f] = Listed(f) \cup run.cut]
      /\ parked' = [parked EXCEPT ![f] = [a \in Files |->
                      IF a \in run.cut \cap Imports THEN Generated ELSE parked[f][a]]]
      /\ UNCHANGED <<tree, routes, models, dropped, manifest>>
      /\ UNCHANGED <<latest, lost, Held, hurt, short, unmigrated, nedits>>
  BY DEF RecordTrims, Here, bounds, history, Held, Typed, FeaturesInv
<1>3. /\ f \in Features /\ Archives /\ FeatureFits(f) /\ manifest[f].status # "none"
      /\ RecordFits(f)
  BY <1>2, PlaceFacts DEF Archiving, FeatureFits
<1>4. run.cut \subseteq Owned(f, Files) /\ Owned(f, Files) \subseteq Files
  BY <1>1, <1>3, OwnFacts DEF MemoryFits
<1>5. /\ run' \in Calls /\ run'.what = run.what /\ F' = f /\ run'.at = "move"
      /\ run'.todo = todo /\ run'.cut = run.cut
  <2>1. todo \in SUBSET Files /\ "move" \in Stages
    BY DEF Owned, Files, Stages
  <2> QED BY <1>1, <1>2, <2>1, AdvanceFacts
<1>6. /\ Listed(f)' = Listed(f) \cup run.cut
      /\ \A g \in Features : g # f => record'[g] = record[g]
      /\ record' \in [Features -> (SUBSET Files) \cup {NoRecord}]
  BY <1>1, <1>2, <1>3, <1>4, CheckpointFacts
<1>7. \A g \in Features, a \in Files :
        parked'[g][a] = IF g = f /\ a \in run.cut \cap Imports THEN Generated
                        ELSE parked[g][a]
  BY <1>1, <1>2, <1>3 DEF Typed
<1>8. Elsewhere(f)
  BY <1>2, <1>6, <1>7 DEF Elsewhere, Own
<1>9. Typed'
  <2>1. Generated \in Texts
    BY FeaturesAssumption DEF Generated, Texts
  <2>2. [a \in Files |-> IF a \in run.cut \cap Imports THEN Generated ELSE parked[f][a]]
          \in [Files -> Texts]
    BY <1>1, <1>3, <2>1 DEF Typed
  <2>3. parked' \in [Features -> [Files -> Texts]]
    BY <1>1, <1>2, <2>2 DEF Typed
  <2> QED BY <1>1, <1>2, <1>5, <1>6, <2>3 DEF Typed
<1>10. CallFits'
  BY <1>1, <1>2, <1>3, <1>5 DEF CallFits, Archives, Archiving, Moving
<1>11. MemoryFits'
  <2>1. /\ todo \subseteq Owned(f, Files) /\ todo \subseteq Tests
        /\ \A a \in todo : tree[a] # Gone
    BY DEF Owned, Files
  <2> HIDE DEF todo
  <2> QED BY <1>2, <1>4, <1>5, <2>1 DEF MemoryFits, Cutting, Moving, Restoring
<1>12. ImportsAreGenerated'
  BY <1>1, <1>2, <1>7 DEF ImportsAreGenerated, Files
<1>13. ArchivingComesFar' /\ RestoringComesFar'
  <2>1. \A a \in Own(f) \cap Tests : tree[a] # Gone => a \in todo
    BY <1>3 DEF Own, Owned, Kept
  <2> QED BY <1>1, <1>2, <1>3, <1>5, <2>1
          DEF ArchivingComesFar, RestoringComesFar, Cutting, Moving, Archives
<1>14. FeatureFits(f)'
  <2>1. TextsAreKept(f)'
    <3> SUFFICES ASSUME NEW a \in Own(f)
                 PROVE  /\ tree[a] # Gone => Held[a] \in {Gone, tree[a]}
                        /\ tree[a] = Gone /\ Held[a] # Gone => Held[a] = parked'[f][a]
      BY <1>2 DEF TextsAreKept
    <3>1. a \in Files
      BY DEF Own
    <3>2. CASE a \in run.cut \cap Imports
      BY <1>1, <1>3, <1>7, <3>1, <3>2 DEF FeatureFits, TextsAreKept, ImportsAreGenerated
    <3>3. CASE a \notin run.cut \cap Imports
      BY <1>3, <1>7, <3>1, <3>3 DEF FeatureFits, TextsAreKept, Unwritten
    <3> QED BY <3>2, <3>3
  <2>2. ArchiveIsListed(f)'
    BY <1>2, <1>3, <1>5, <1>6 DEF FeatureFits, ArchiveIsListed, Unwritten, Here, Own
  <2>3. ImportsHaveBlocks(f)'
    BY <1>2, <1>3, <1>5 DEF FeatureFits, ImportsHaveBlocks, Cutting, Restoring
  <2>4. RecordFits(f)'
    <3>1. \A i \in run.cut \cap Imports : importOf[i] \in run.cut
      BY <1>1, <1>2 DEF MemoryFits
    <3> QED BY <1>3, <1>4, <1>6, <3>1 DEF RecordFits, Owned
  <2> QED BY <1>2, <1>3, <1>5, <2>1, <2>2, <2>3, <2>4
          DEF FeatureFits, ModelsAreThere, ManifestIsTrue
<1> QED BY <1>3, <1>5, <1>8, <1>9, <1>10, <1>11, <1>12, <1>13, <1>14, StepKeeps

(* A file of tests moves into the archive.                                  *)
LEMMA MoveKeeps ==
  ASSUME FeaturesInv, NEW a \in Files, Move(a), NEW f, f = F
  PROVE  FeaturesInv'
<1>1. /\ Typed /\ CallFits /\ MemoryFits /\ ImportsAreGenerated /\ ArchivingComesFar
  BY DEF FeaturesInv
<1>2. /\ run.at = "move" /\ a \in run.todo
      /\ tree' = [tree EXCEPT ![a] = Gone]
      /\ parked' = [parked EXCEPT ![f][a] = tree[a]]
      /\ run' = [run EXCEPT !.at = "testRecord", !.item = a]
      /\ UNCHANGED <<record, routes, models, dropped, manifest>>
      /\ UNCHANGED <<latest, lost, Held, hurt, short, unmigrated, nedits>>
  BY DEF Move, Here, bounds, history, Held
<1>3. /\ f \in Features /\ Archives /\ FeatureFits(f) /\ manifest[f].status # "none"
  BY <1>2, PlaceFacts DEF Archiving, Moving
<1>4. a \in Owned(f, Files) /\ a \in Tests /\ a \notin Blocks /\ a \notin Imports
      /\ tree[a] # Gone
  BY <1>1, <1>2, FeaturesAssumption DEF MemoryFits, Moving
<1>5. /\ run' \in Calls /\ run'.what = run.what /\ F' = f /\ run'.at = "testRecord"
      /\ run'.todo = run.todo /\ run'.cut = run.cut /\ run'.item = a
  BY <1>1, <1>2 DEF Typed, Calls, F, Stages
<1>6. /\ \A b \in Files : tree'[b] = IF b = a THEN Gone ELSE tree[b]
      /\ \A g \in Features, b \in Files :
           parked'[g][b] = IF g = f /\ b = a THEN tree[a] ELSE parked[g][b]
  BY <1>1, <1>2 DEF Typed
<1>7. Elsewhere(f)
  <2>1. \A g \in Features \ {f} : a \notin Own(g)
    BY <1>3, <1>4, OwnFacts
  <2>2. \A g : Own(g) \subseteq Files
    BY DEF Own
  <2> QED BY <1>2, <1>6, <2>1, <2>2 DEF Elsewhere
<1>8. Typed'
  <2>1. Gone \in Texts /\ tree[a] \in Texts
    BY <1>1, FeaturesAssumption DEF Gone, Texts, Typed
  <2>2. tree' \in [Files -> Texts] /\ parked' \in [Features -> [Files -> Texts]]
    BY <1>1, <1>2, <2>1 DEF Typed
  <2> QED BY <1>1, <1>2, <1>5, <2>2 DEF Typed
<1>9. CallFits'
  BY <1>1, <1>2, <1>3, <1>5 DEF CallFits, Archives, Archiving, Moving
<1>10. MemoryFits'
  BY <1>1, <1>2, <1>3, <1>4, <1>5, <1>6 DEF MemoryFits, Cutting, Moving, Restoring, Owned
<1>11. ImportsAreGenerated'
  BY <1>1, <1>2, <1>4, <1>6 DEF ImportsAreGenerated, Files
<1>12. ArchivingComesFar' /\ RestoringComesFar'
  BY <1>1, <1>2, <1>3, <1>4, <1>5, <1>6
     DEF ArchivingComesFar, RestoringComesFar, Cutting, Moving, Archives, Own, Owned, Files
<1>13. FeatureFits(f)'
  <2>1. TextsAreKept(f)'
    BY <1>2, <1>3, <1>4, <1>5, <1>6 DEF FeatureFits, TextsAreKept, Unwritten, Here, Own
  <2>2. ArchiveIsListed(f)'
    BY <1>2, <1>3, <1>4, <1>5, <1>6
       DEF FeatureFits, ArchiveIsListed, Unwritten, Here, Own, Listed
  <2>3. ImportsHaveBlocks(f)'
    <3>1. \A i \in Owned(f, Imports) : i \in Files /\ importOf[i] \in Files
                                       /\ importOf[i] # a
      BY <1>3, <1>4, OwnFacts, FeaturesAssumption DEF Owned, Files
    <3> QED BY <1>2, <1>3, <1>5, <1>6, <3>1
            DEF FeatureFits, ImportsHaveBlocks, Cutting, Restoring
  <2> QED BY <1>2, <1>3, <1>5, <2>1, <2>2, <2>3
          DEF FeatureFits, RecordFits, ModelsAreThere, ManifestIsTrue, Listed
<1> QED BY <1>3, <1>5, <1>7, <1>8, <1>9, <1>10, <1>11, <1>12, <1>13, StepKeeps

(* The record lists the file.                                               *)
LEMMA RecordTestKeeps ==
  ASSUME FeaturesInv, RecordTest, NEW f, f = F
  PROVE  FeaturesInv'
<1> DEFINE a == run.item
<1>1. /\ Typed /\ CallFits /\ MemoryFits /\ ImportsAreGenerated /\ ArchivingComesFar
  BY DEF FeaturesInv
<1>2. /\ run.at = "testRecord"
      /\ run' = [run EXCEPT !.at = "move", !.todo = @ \ {a}, !.item = NoFeature]
      /\ record' = [record EXCEPT ![f] = Listed(f) \cup {a}]
      /\ UNCHANGED <<tree, parked, routes, models, dropped, manifest>>
      /\ UNCHANGED <<latest, lost, Held, hurt, short, unmigrated, nedits>>
  BY DEF RecordTest, Checkpointed, Here, bounds, history, Held
<1>3. /\ f \in Features /\ Archives /\ FeatureFits(f) /\ manifest[f].status # "none"
      /\ RecordFits(f)
  BY <1>2, PlaceFacts DEF Archiving, Moving, FeatureFits
<1>4. /\ a \in Tests /\ a \notin Imports /\ a \in Files
      /\ a \in Owned(f, Files) /\ tree[a] = Gone
      /\ run.todo \subseteq Tests /\ \A b \in run.todo : b # a => tree[b] # Gone
  BY <1>1, <1>2, <1>3, FeaturesAssumption DEF MemoryFits, Moving, Owned, Files
<1>5. /\ run' \in Calls /\ run'.what = run.what /\ F' = f /\ run'.at = "move"
      /\ run'.todo = run.todo \ {a} /\ run'.cut = run.cut
  BY <1>1, <1>2, <1>4 DEF Typed, Calls, F, Stages
<1> HIDE DEF a
<1>6. /\ Listed(f)' = Listed(f) \cup {a}
      /\ \A g \in Features : g # f => record'[g] = record[g]
      /\ record' \in [Features -> (SUBSET Files) \cup {NoRecord}]
  <2>1. {a} \in SUBSET Files
    BY <1>4
  <2> QED BY <1>1, <1>2, <1>3, <2>1, CheckpointFacts
<1>7. Elsewhere(f)
  BY <1>2, <1>6 DEF Elsewhere
<1>8. Typed'
  BY <1>1, <1>2, <1>5, <1>6 DEF Typed
<1>9. CallFits'
  BY <1>1, <1>2, <1>3, <1>5 DEF CallFits, Archives, Archiving, Moving
<1>10. MemoryFits'
  <2>1. run.cut \subseteq Owned(f, Files) /\ run.todo \subseteq Owned(f, Files)
    BY <1>1 DEF MemoryFits
  <2>2. Owned(f, Files)' = Owned(f, Files)
    BY DEF Owned, Files
  <2> QED BY <1>2, <1>4, <1>5, <2>1, <2>2 DEF MemoryFits, Cutting, Moving, Restoring
<1>11. ImportsAreGenerated'
  BY <1>1, <1>2 DEF ImportsAreGenerated
<1>12. ArchivingComesFar' /\ RestoringComesFar'
  BY <1>1, <1>2, <1>3, <1>4, <1>5
     DEF ArchivingComesFar, RestoringComesFar, Cutting, Moving, Archives, Owned
<1>13. FeatureFits(f)'
  <2>1. TextsAreKept(f)'
    BY <1>2, <1>3, <1>5 DEF FeatureFits, TextsAreKept, Unwritten, Here
  <2>2. ArchiveIsListed(f)'
    BY <1>2, <1>3, <1>4, <1>5, <1>6 DEF FeatureFits, ArchiveIsListed, Unwritten, Here, a
  <2>3. ImportsHaveBlocks(f)'
    BY <1>2, <1>3, <1>5, <1>6 DEF FeatureFits, ImportsHaveBlocks, Cutting, Restoring
  <2>4. RecordFits(f)'
    BY <1>3, <1>4, <1>6 DEF RecordFits, Owned
  <2> QED BY <1>2, <1>3, <1>5, <2>1, <2>2, <2>3, <2>4
          DEF FeatureFits, ModelsAreThere, ManifestIsTrue
<1> QED BY <1>3, <1>5, <1>7, <1>8, <1>9, <1>10, <1>11, <1>12, <1>13, StepKeeps

(* archive_artifacts() returns: nothing of the feature is left in the tree. *)
LEMMA EndArchiveKeeps ==
  ASSUME FeaturesInv, EndArchive, NEW f, f = F
  PROVE  FeaturesInv'
<1> DEFINE at == IF run.what = "delete" THEN "models" ELSE "status"
<1>1. /\ Typed /\ CallFits /\ MemoryFits /\ ImportsAreGenerated /\ ArchivingComesFar
  BY DEF FeaturesInv
<1>2. /\ run.at = "move" /\ run.todo = {} /\ Advance(at, {})
      /\ record' = [record EXCEPT ![f] = Listed(f)]
      /\ UNCHANGED <<tree, parked, routes, models, dropped, manifest>>
      /\ UNCHANGED <<latest, lost, Held, hurt, short, unmigrated, nedits>>
  BY DEF EndArchive, Here, bounds, history, Held
<1>3. /\ f \in Features /\ Archives /\ FeatureFits(f) /\ manifest[f].status # "none"
      /\ RecordFits(f)
  BY <1>2, PlaceFacts DEF Archiving, Moving, FeatureFits
<1>4. /\ run' \in Calls /\ run'.what = run.what /\ F' = f /\ run'.at = at
      /\ run'.todo = {} /\ run'.cut = run.cut
  <2>1. {} \in SUBSET Files /\ at \in Stages
    BY DEF Stages
  <2> QED BY <1>1, <1>2, <2>1, AdvanceFacts
<1>5. /\ Listed(f)' = Listed(f)
      /\ \A g \in Features : g # f => record'[g] = record[g]
      /\ record' \in [Features -> (SUBSET Files) \cup {NoRecord}]
  <2>1. {} \in SUBSET Files /\ Listed(f) = Listed(f) \cup {}
    OBVIOUS
  <2>2. record' = [record EXCEPT ![f] = Listed(f) \cup {}]
    BY <1>2, <2>1
  <2> QED BY <1>1, <1>3, <2>1, <2>2, CheckpointFacts
<1>6. Elsewhere(f)
  BY <1>2, <1>5 DEF Elsewhere
<1>7. Typed' /\ ImportsAreGenerated'
  BY <1>1, <1>2, <1>4, <1>5 DEF Typed, ImportsAreGenerated
<1>8. CallFits'
  BY <1>1, <1>2, <1>3, <1>4 DEF CallFits, Archives, Archiving
<1>9. MemoryFits'
  BY <1>1, <1>4 DEF MemoryFits, Cutting, Moving, Restoring
<1>10. ArchivingComesFar' /\ RestoringComesFar'
  BY <1>1, <1>2, <1>3, <1>4
     DEF ArchivingComesFar, RestoringComesFar, Cutting, Moving, Archives
<1>11. FeatureFits(f)'
  BY <1>2, <1>3, <1>4, <1>5
     DEF FeatureFits, RecordFits, TextsAreKept, ArchiveIsListed, ImportsHaveBlocks,
         ModelsAreThere, ManifestIsTrue, Unwritten, Here, Cutting, Restoring
<1> QED BY <1>3, <1>4, <1>6, <1>7, <1>8, <1>9, <1>10, <1>11, StepKeeps

-----------------------------------------------------------------------------
(* An import is written back.                                               *)
LEMMA RestoreImportKeeps ==
  ASSUME FeaturesInv, NEW i \in Files, RestoreImport(i), NEW f, f = F
  PROVE  FeaturesInv'
<1>1. /\ Typed /\ CallFits /\ MemoryFits /\ ImportsAreGenerated /\ RestoringComesFar
  BY DEF FeaturesInv
<1>2. /\ run.at = "imports" /\ i \in run.todo /\ Advance("imports", run.todo \ {i})
      /\ tree' = [tree EXCEPT ![i] = IF tree[i] = Gone THEN parked[f][i] ELSE tree[i]]
      /\ UNCHANGED <<parked, record, routes, models, dropped, manifest>>
      /\ UNCHANGED <<latest, lost, Held, hurt, short, unmigrated, nedits>>
  BY DEF RestoreImport, Here, bounds, history, Held, Typed, FeaturesInv
<1>3. /\ f \in Features /\ run.what = "activate" /\ FeatureFits(f)
      /\ manifest[f].status # "none" /\ RecordFits(f)
  BY <1>2, PlaceFacts DEF FeatureFits
<1>4. /\ i \in Listed(f) /\ i \in Imports /\ i \notin Blocks /\ i \notin Tests
      /\ i \in Own(f) /\ i \in Owned(f, Files) /\ importOf[i] \in Listed(f)
  BY <1>1, <1>2, <1>3, OwnFacts, FeaturesAssumption DEF MemoryFits, RecordFits, Owned
<1>5. /\ run' \in Calls /\ run'.what = run.what /\ F' = f /\ run'.at = "imports"
      /\ run'.todo = run.todo \ {i} /\ run'.cut = {}
  <2>1. run.todo \ {i} \in SUBSET Files /\ "imports" \in Stages
    BY <1>1 DEF Typed, Calls, Stages
  <2> QED BY <1>1, <1>2, <2>1, AdvanceFacts DEF MemoryFits
<1>6. \A b \in Files : tree'[b] = IF b = i /\ tree[i] = Gone THEN parked[f][i] ELSE tree[b]
  BY <1>1, <1>2 DEF Typed
<1>7. Elsewhere(f)
  BY <1>2, <1>4, <1>6 DEF Elsewhere, Own
<1>8. Typed'
  <2>1. tree' \in [Files -> Texts]
    BY <1>1, <1>2, <1>3 DEF Typed
  <2> QED BY <1>1, <1>2, <1>5, <2>1 DEF Typed
<1>9. CallFits'
  BY <1>1, <1>2, <1>3, <1>5 DEF CallFits
<1>10. MemoryFits'
  BY <1>1, <1>2, <1>5 DEF MemoryFits, Cutting, Moving, Restoring, Listed
<1>11. ImportsAreGenerated'
  BY <1>1, <1>2, <1>3, <1>6 DEF ImportsAreGenerated, Files
<1>12. ArchivingComesFar' /\ RestoringComesFar'
  <2>1. \A a \in Listed(f) \cap Imports : a \in Files
    BY DEF Files
  <2> QED BY <1>1, <1>2, <1>3, <1>5, <1>6, <2>1
          DEF ArchivingComesFar, RestoringComesFar, Restoring, Archives, Listed
<1>13. FeatureFits(f)'
  <2>1. TextsAreKept(f)'
    <3> SUFFICES ASSUME NEW a \in Own(f)
                 PROVE  /\ tree'[a] # Gone => Held[a] \in {Gone, tree'[a]}
                        /\ tree'[a] = Gone /\ Held[a] # Gone => Held[a] = parked[f][a]
      BY <1>2 DEF TextsAreKept
    <3>1. /\ tree[a] # Gone => Held[a] \in {Gone, tree[a]}
          /\ tree[a] = Gone /\ Held[a] # Gone => Held[a] = parked[f][a]
      BY <1>2, <1>3 DEF FeatureFits, TextsAreKept, Unwritten, Here
    <3>2. a \in Files
      BY DEF Own
    <3> QED BY <1>6, <3>1, <3>2
  <2>2. ArchiveIsListed(f)'
    <3>1. \A a \in Own(f) : tree'[a] = Gone => tree[a] = Gone
      BY <1>6 DEF Own
    <3> QED BY <1>2, <1>3, <3>1
            DEF FeatureFits, ArchiveIsListed, Unwritten, Here, Listed
  <2>3. ImportsHaveBlocks(f)'
    <3>1. \A b \in Owned(f, Imports) :
            b \in Files /\ importOf[b] \in Files /\ importOf[b] # i
      BY <1>3, <1>4, OwnFacts, FeaturesAssumption DEF Owned, Files
    <3> QED BY <1>2, <1>3, <1>4, <1>5, <1>6, <3>1
            DEF FeatureFits, ImportsHaveBlocks, Cutting, Restoring, Listed
  <2> QED BY <1>2, <1>3, <1>5, <2>1, <2>2, <2>3
          DEF FeatureFits, RecordFits, ModelsAreThere, ManifestIsTrue, Listed
<1> QED BY <1>3, <1>5, <1>7, <1>8, <1>9, <1>10, <1>11, <1>12, <1>13, StepKeeps

(* The blocks come next.                                                    *)
LEMMA EndImportsKeeps ==
  ASSUME FeaturesInv, EndImports, NEW f, f = F
  PROVE  FeaturesInv'
<1> DEFINE todo == Listed(f) \cap Blocks
<1>1. /\ Typed /\ CallFits /\ MemoryFits /\ ImportsAreGenerated /\ RestoringComesFar
  BY DEF FeaturesInv
<1>2. /\ run.at = "imports" /\ run.todo = {} /\ Advance("restore", todo)
      /\ UNCHANGED <<tree, parked, record, routes, models, dropped, manifest>>
      /\ UNCHANGED <<latest, lost, Held, hurt, short, unmigrated, nedits>>
  BY DEF EndImports, Here, disk, bounds, history, Held
<1>3. /\ f \in Features /\ run.what = "activate" /\ FeatureFits(f)
      /\ manifest[f].status # "none" /\ RecordFits(f)
  BY <1>2, PlaceFacts DEF FeatureFits
<1>4. todo \subseteq Owned(f, Files) /\ todo \in SUBSET Files /\ "restore" \in Stages
  BY <1>3, OwnFacts DEF RecordFits, Stages
<1>5. /\ run' \in Calls /\ run'.what = run.what /\ F' = f /\ run'.at = "restore"
      /\ run'.todo = todo /\ run'.cut = {}
  BY <1>1, <1>2, <1>4, AdvanceFacts DEF MemoryFits
<1>6. Elsewhere(f)
  BY <1>2 DEF Elsewhere
<1>7. Typed' /\ ImportsAreGenerated'
  BY <1>1, <1>2, <1>5 DEF Typed, ImportsAreGenerated
<1>8. CallFits'
  BY <1>1, <1>2, <1>3, <1>5 DEF CallFits, Restoring
<1>9. MemoryFits'
  BY <1>2, <1>4, <1>5 DEF MemoryFits, Cutting, Moving, Restoring, Listed
<1>10. ArchivingComesFar' /\ RestoringComesFar'
  BY <1>1, <1>2, <1>3, <1>5 DEF ArchivingComesFar, RestoringComesFar, Restoring, Archives, Listed
<1>11. FeatureFits(f)'
  BY <1>2, <1>3, <1>5
     DEF FeatureFits, RecordFits, TextsAreKept, ArchiveIsListed, ImportsHaveBlocks,
         ModelsAreThere, ManifestIsTrue, Unwritten, Here, Cutting, Restoring, Listed
<1> QED BY <1>3, <1>5, <1>6, <1>7, <1>8, <1>9, <1>10, <1>11, StepKeeps

(* A block is written back; what is there, or nowhere, is passed over.      *)
LEMMA RestoreKeeps ==
  ASSUME FeaturesInv, NEW a \in Files, Restore(a), NEW f, f = F
  PROVE  FeaturesInv'
<1>1. /\ Typed /\ CallFits /\ MemoryFits /\ ImportsAreGenerated /\ RestoringComesFar
  BY DEF FeaturesInv
<1>2. /\ run.at = "restore" /\ a \in run.todo
      /\ UNCHANGED <<parked, record, routes, models, dropped, manifest>>
      /\ UNCHANGED <<latest, lost, Held, hurt, short, unmigrated, nedits>>
  BY DEF Restore, Here, bounds, history, Held
<1>3. /\ f \in Features /\ run.what = "activate" /\ FeatureFits(f)
      /\ manifest[f].status # "none"
  BY <1>2, PlaceFacts DEF Restoring
<1>4. /\ a \in Listed(f) /\ a \in Blocks /\ a \notin Imports /\ a \notin Tests
      /\ a \in Owned(f, Files)
  BY <1>1, <1>2, <1>3, FeaturesAssumption DEF MemoryFits, Restoring
<1>5. ASSUME tree[a] = Gone /\ parked[f][a] # Gone,
             tree' = [tree EXCEPT ![a] = parked[f][a]],
             run' = [run EXCEPT !.at = "unlink", !.item = a]
      PROVE  FeaturesInv'
  <2>1. /\ run' \in Calls /\ run'.what = run.what /\ F' = f /\ run'.at = "unlink"
        /\ run'.todo = run.todo /\ run'.cut = run.cut /\ run'.item = a
    BY <1>1, <1>2, <1>5 DEF Typed, Calls, F, Stages
  <2>2. \A b \in Files : tree'[b] = IF b = a THEN parked[f][a] ELSE tree[b]
    BY <1>1, <1>5 DEF Typed
  <2>3. Elsewhere(f)
    <3>1. \A g \in Features \ {f} : a \notin Own(g)
      BY <1>3, <1>4, OwnFacts
    <3> QED BY <1>2, <2>2, <3>1 DEF Elsewhere, Own
  <2>4. Typed'
    <3>1. tree' \in [Files -> Texts]
      BY <1>1, <1>3, <1>5 DEF Typed
    <3> QED BY <1>1, <1>2, <2>1, <3>1 DEF Typed
  <2>5. CallFits'
    BY <1>1, <1>2, <1>3, <2>1 DEF CallFits, Restoring
  <2>6. MemoryFits'
    BY <1>1, <1>2, <1>5, <2>1, <2>2 DEF MemoryFits, Cutting, Moving, Restoring, Listed
  <2>7. ImportsAreGenerated'
    BY <1>1, <1>2, <1>4, <2>2 DEF ImportsAreGenerated, Files
  <2>8. ArchivingComesFar' /\ RestoringComesFar'
    <3>1. \A b \in Listed(f) \cap (Imports \cup Blocks) : b \in Files
      BY DEF Files
    <3> QED BY <1>1, <1>2, <1>3, <1>4, <1>5, <2>1, <2>2, <3>1
            DEF ArchivingComesFar, RestoringComesFar, Restoring, Archives, Listed
  <2>9. TextsAreKept(f)'
    BY <1>2, <1>3, <1>5, <2>1, <2>2 DEF FeatureFits, TextsAreKept, Unwritten, Here, Own
  <2>10. ArchiveIsListed(f)'
    BY <1>2, <1>3, <1>5, <2>1, <2>2
       DEF FeatureFits, ArchiveIsListed, Unwritten, Here, Own, Listed
  <2>11. ImportsHaveBlocks(f)'
    <3>1. \A i \in Owned(f, Imports) : i \in Files /\ importOf[i] \in Files /\ i # a
      BY <1>4, FeaturesAssumption DEF Owned, Files
    <3> QED BY <1>2, <1>3, <1>5, <2>1, <2>2, <3>1
            DEF FeatureFits, ImportsHaveBlocks, Cutting, Restoring, Listed
  <2>12. FeatureFits(f)'
    BY <1>2, <1>3, <2>1, <2>9, <2>10, <2>11
       DEF FeatureFits, RecordFits, ModelsAreThere, ManifestIsTrue, Listed
  <2> QED BY <1>3, <2>1, <2>3, <2>4, <2>5, <2>6, <2>7, <2>8, <2>12, StepKeeps
<1>6. ASSUME ~(tree[a] = Gone /\ parked[f][a] # Gone), UNCHANGED tree,
             run' = [run EXCEPT !.todo = @ \ {a},
                                  !.cut = IF tree[a] = Gone THEN @ \cup {a} ELSE @]
      PROVE  FeaturesInv'
  <2>1. /\ run' \in Calls /\ run'.what = run.what /\ F' = f /\ run'.at = "restore"
        /\ run'.todo = run.todo \ {a}
        /\ run'.cut = run.cut \cup (IF tree[a] = Gone THEN {a} ELSE {})
    BY <1>1, <1>2, <1>6 DEF Typed, Calls, F, Stages
  <2>2. Elsewhere(f)
    BY <1>2, <1>6 DEF Elsewhere
  <2>3. Typed' /\ ImportsAreGenerated'
    BY <1>1, <1>2, <1>6, <2>1 DEF Typed, ImportsAreGenerated
  <2>4. CallFits'
    BY <1>1, <1>2, <1>3, <2>1 DEF CallFits, Restoring
  <2>5. MemoryFits'
    BY <1>1, <1>2, <1>4, <1>6, <2>1 DEF MemoryFits, Cutting, Moving, Restoring, Listed
  <2>6. ArchivingComesFar' /\ RestoringComesFar'
    BY <1>1, <1>2, <1>3, <1>4, <1>6, <2>1
       DEF ArchivingComesFar, RestoringComesFar, Restoring, Archives, Listed
  <2>7. TextsAreKept(f)' /\ ArchiveIsListed(f)'
    BY <1>2, <1>3, <1>6, <2>1
       DEF FeatureFits, TextsAreKept, ArchiveIsListed, Unwritten, Here, Listed
  <2>8. ImportsHaveBlocks(f)'
    BY <1>2, <1>3, <1>6, <2>1
       DEF FeatureFits, ImportsHaveBlocks, Cutting, Restoring, Listed
  <2>9. FeatureFits(f)'
    BY <1>2, <1>3, <2>1, <2>7, <2>8
       DEF FeatureFits, RecordFits, ModelsAreThere, ManifestIsTrue, Listed
  <2> QED BY <1>3, <2>1, <2>2, <2>3, <2>4, <2>5, <2>6, <2>9, StepKeeps
<1> QED BY <1>5, <1>6 DEF Restore, IsToBePutBack

(* The fragment goes once the block is in its host.                         *)
LEMMA UnlinkKeeps ==
  ASSUME FeaturesInv, Unlink, NEW f, f = F
  PROVE  FeaturesInv'
<1> DEFINE a == run.item
<1>1. /\ Typed /\ CallFits /\ MemoryFits /\ ImportsAreGenerated /\ RestoringComesFar
  BY DEF FeaturesInv
<1>2. /\ run.at = "unlink"
      /\ parked' = [parked EXCEPT ![f][a] = Gone]
      /\ run' = [run EXCEPT !.at = "restore", !.todo = @ \ {a}, !.item = NoFeature]
      /\ UNCHANGED <<tree, record, routes, models, dropped, manifest>>
      /\ UNCHANGED <<latest, lost, Held, hurt, short, unmigrated, nedits>>
  BY DEF Unlink, Here, bounds, history, Held
<1>3. /\ f \in Features /\ run.what = "activate" /\ FeatureFits(f)
      /\ manifest[f].status # "none"
  BY <1>2, PlaceFacts DEF Restoring
<1>4. /\ a \in Listed(f) /\ a \in Blocks /\ a \notin Imports /\ a \notin Tests
      /\ a \in Files /\ tree[a] # Gone
  BY <1>1, <1>2, <1>3, FeaturesAssumption DEF MemoryFits, Restoring, Files
<1>5. /\ run' \in Calls /\ run'.what = run.what /\ F' = f /\ run'.at = "restore"
      /\ run'.todo = run.todo \ {a} /\ run'.cut = run.cut
  BY <1>1, <1>2, <1>4 DEF Typed, Calls, F, Stages
<1>6. /\ run.todo \subseteq Listed(f) \cap Blocks
      /\ run.cut \subseteq Owned(f, Files) /\ run.todo \subseteq Owned(f, Files)
  BY <1>1, <1>2 DEF MemoryFits, Restoring
<1> HIDE DEF a
<1>7. \A g \in Features, b \in Files :
        parked'[g][b] = IF g = f /\ b = a THEN Gone ELSE parked[g][b]
  BY <1>1, <1>2, <1>3, <1>4 DEF Typed
<1>8. Elsewhere(f)
  BY <1>2, <1>7 DEF Elsewhere, Own
<1>9. Typed'
  <2>1. Gone \in Texts
    BY FeaturesAssumption DEF Gone, Texts
  <2>2. parked' \in [Features -> [Files -> Texts]]
    BY <1>1, <1>2, <1>3, <1>4, <2>1 DEF Typed
  <2> QED BY <1>1, <1>2, <1>5, <2>2 DEF Typed
<1>10. CallFits'
  BY <1>1, <1>2, <1>3, <1>5 DEF CallFits, Restoring
<1>11. MemoryFits'
  <2>1. Owned(f, Files)' = Owned(f, Files) /\ Listed(f)' = Listed(f)
    BY <1>2 DEF Owned, Files, Listed
  <2> QED BY <1>5, <1>6, <2>1 DEF MemoryFits, Cutting, Moving, Restoring
<1>12. ImportsAreGenerated'
  BY <1>1, <1>2, <1>7 DEF ImportsAreGenerated, Files
<1>13. ArchivingComesFar' /\ RestoringComesFar'
  <2>1. \A b \in (Listed(f) \cap Imports) \cup run.cut : b \in Files
    BY <1>3, <1>6, OwnFacts DEF Files
  <2> QED BY <1>1, <1>2, <1>3, <1>4, <1>5, <1>7, <2>1
          DEF ArchivingComesFar, RestoringComesFar, Restoring, Archives, Listed
<1>14. FeatureFits(f)'
  <2>1. TextsAreKept(f)'
    <3> SUFFICES ASSUME NEW b \in Own(f)
                 PROVE  /\ tree[b] # Gone => Held[b] \in {Gone, tree[b]}
                        /\ tree[b] = Gone /\ Held[b] # Gone => Held[b] = parked'[f][b]
      BY <1>2 DEF TextsAreKept
    <3>1. /\ tree[b] # Gone => Held[b] \in {Gone, tree[b]}
          /\ tree[b] = Gone /\ Held[b] # Gone => Held[b] = parked[f][b]
      BY <1>2, <1>3 DEF FeatureFits, TextsAreKept, Unwritten, Here
    <3>2. b \in Files
      BY DEF Own
    <3> QED BY <1>3, <1>4, <1>7, <3>1, <3>2
  <2>2. ArchiveIsListed(f)' /\ ImportsHaveBlocks(f)'
    BY <1>2, <1>3, <1>5
       DEF FeatureFits, ArchiveIsListed, ImportsHaveBlocks, Unwritten, Here, Listed,
           Cutting, Restoring
  <2> QED BY <1>2, <1>3, <1>5, <2>1, <2>2
          DEF FeatureFits, RecordFits, ModelsAreThere, ManifestIsTrue, Listed
<1> QED BY <1>3, <1>5, <1>8, <1>9, <1>10, <1>11, <1>12, <1>13, <1>14, StepKeeps

(* The test files come last.                                                *)
LEMMA EndBlocksKeeps ==
  ASSUME FeaturesInv, EndBlocks, NEW f, f = F
  PROVE  FeaturesInv'
<1> DEFINE todo == Listed(f) \cap Tests
<1>1. /\ Typed /\ CallFits /\ MemoryFits /\ ImportsAreGenerated /\ RestoringComesFar
  BY DEF FeaturesInv
<1>2. /\ run.at = "restore" /\ run.todo = {} /\ Advance("tests", todo)
      /\ UNCHANGED <<tree, parked, record, routes, models, dropped, manifest>>
      /\ UNCHANGED <<latest, lost, Held, hurt, short, unmigrated, nedits>>
  BY DEF EndBlocks, Here, disk, bounds, history, Held
<1>3. /\ f \in Features /\ run.what = "activate" /\ FeatureFits(f)
      /\ manifest[f].status # "none" /\ RecordFits(f)
  BY <1>2, PlaceFacts DEF FeatureFits, Restoring
<1>4. todo \subseteq Owned(f, Files) /\ todo \in SUBSET Files /\ "tests" \in Stages
  BY <1>3, OwnFacts DEF RecordFits, Stages
<1>5. /\ run' \in Calls /\ run'.what = run.what /\ F' = f /\ run'.at = "tests"
      /\ run'.todo = todo /\ run'.cut = run.cut
  BY <1>1, <1>2, <1>4, AdvanceFacts
<1>6. Elsewhere(f)
  BY <1>2 DEF Elsewhere
<1>7. Typed' /\ ImportsAreGenerated'
  BY <1>1, <1>2, <1>5 DEF Typed, ImportsAreGenerated
<1>8. CallFits'
  BY <1>1, <1>2, <1>3, <1>5 DEF CallFits
<1>9. MemoryFits'
  BY <1>1, <1>2, <1>4, <1>5 DEF MemoryFits, Cutting, Moving, Restoring, Listed
<1>10. ArchivingComesFar' /\ RestoringComesFar'
  BY <1>1, <1>2, <1>3, <1>5 DEF ArchivingComesFar, RestoringComesFar, Restoring, Archives, Listed
<1>11. FeatureFits(f)'
  BY <1>2, <1>3, <1>5
     DEF FeatureFits, RecordFits, TextsAreKept, ArchiveIsListed, ImportsHaveBlocks,
         ModelsAreThere, ManifestIsTrue, Unwritten, Here, Cutting, Restoring, Listed
<1> QED BY <1>3, <1>5, <1>6, <1>7, <1>8, <1>9, <1>10, <1>11, StepKeeps

(* A file of tests moves back.                                              *)
LEMMA MoveBackKeeps ==
  ASSUME FeaturesInv, NEW a \in Files, MoveBack(a), NEW f, f = F
  PROVE  FeaturesInv'
<1>1. /\ Typed /\ CallFits /\ MemoryFits /\ ImportsAreGenerated /\ RestoringComesFar
  BY DEF FeaturesInv
<1>2. /\ run.at = "tests" /\ a \in run.todo
      /\ UNCHANGED <<record, routes, models, dropped, manifest>>
      /\ UNCHANGED <<latest, lost, Held, hurt, short, unmigrated, nedits>>
  BY DEF MoveBack, Here, bounds, history, Held
<1>3. /\ f \in Features /\ run.what = "activate" /\ FeatureFits(f)
      /\ manifest[f].status # "none"
  BY <1>2, PlaceFacts DEF Restoring
<1>4. /\ a \in Listed(f) /\ a \in Tests /\ a \notin Imports /\ a \notin Blocks
      /\ a \in Owned(f, Files)
  BY <1>1, <1>2, <1>3, FeaturesAssumption DEF MemoryFits, Restoring
<1>5. ASSUME tree[a] = Gone /\ parked[f][a] # Gone,
             tree' = [tree EXCEPT ![a] = parked[f][a]],
             parked' = [parked EXCEPT ![f][a] = Gone],
             Advance("tests", run.todo \ {a})
      PROVE  FeaturesInv'
  <2>1. /\ run' \in Calls /\ run'.what = run.what /\ F' = f /\ run'.at = "tests"
        /\ run'.todo = run.todo \ {a} /\ run'.cut = run.cut
    <3>1. run.todo \ {a} \in SUBSET Files /\ "tests" \in Stages
      BY <1>1 DEF Typed, Calls, Stages
    <3> QED BY <1>1, <1>5, <3>1, AdvanceFacts
  <2>2. /\ \A b \in Files : tree'[b] = IF b = a THEN parked[f][a] ELSE tree[b]
        /\ \A g \in Features, b \in Files :
             parked'[g][b] = IF g = f /\ b = a THEN Gone ELSE parked[g][b]
    BY <1>1, <1>3, <1>5 DEF Typed
  <2>3. Elsewhere(f)
    <3>1. \A g \in Features \ {f} : a \notin Own(g)
      BY <1>3, <1>4, OwnFacts
    <3>2. \A g : Own(g) \subseteq Files
      BY DEF Own
    <3> QED BY <1>2, <2>2, <3>1, <3>2 DEF Elsewhere
  <2>4. Typed'
    <3>1. Gone \in Texts
      BY FeaturesAssumption DEF Gone, Texts
    <3>2. tree' \in [Files -> Texts] /\ parked' \in [Features -> [Files -> Texts]]
      BY <1>1, <1>3, <1>5, <3>1 DEF Typed
    <3> QED BY <1>1, <1>2, <2>1, <3>2 DEF Typed
  <2>5. CallFits'
    BY <1>1, <1>2, <1>3, <2>1 DEF CallFits
  <2>6. MemoryFits'
    BY <1>1, <1>2, <2>1 DEF MemoryFits, Cutting, Moving, Restoring, Listed
  <2>7. ImportsAreGenerated'
    BY <1>1, <1>2, <1>4, <2>2 DEF ImportsAreGenerated, Files
  <2>8. ArchivingComesFar' /\ RestoringComesFar'
    <3>1. Listed(f)' = Listed(f)
      BY <1>2 DEF Listed
    <3>2. \A b \in Imports \cup Blocks \cup Tests \cup run.cut : b \in Files
      BY <1>1 DEF Files, Typed, Calls
    <3>3. \A b \in Listed(f) \cap Imports : tree'[b] # Gone \/ parked'[f][b] = Gone
      BY <1>1, <1>2, <1>3, <1>4, <2>2, <3>2 DEF RestoringComesFar
    <3>4. \A b \in Listed(f) \cap Blocks : tree'[b] # Gone \/ b \in run.cut
      BY <1>1, <1>2, <1>3, <1>4, <2>2, <3>2 DEF RestoringComesFar, Restoring
    <3>5. \A b \in run.cut : parked'[f][b] = Gone
      BY <1>1, <1>2, <1>3, <2>2, <3>2 DEF RestoringComesFar
    <3>6. \A b \in Listed(f) \cap Tests :
            tree'[b] # Gone \/ b \in run.cut \cup (run.todo \ {a})
      BY <1>1, <1>2, <1>3, <1>5, <2>2, <3>2 DEF RestoringComesFar
    <3> QED BY <1>2, <1>3, <2>1, <3>1, <3>3, <3>4, <3>5, <3>6
            DEF ArchivingComesFar, RestoringComesFar, Restoring, Archives
  <2>9. TextsAreKept(f)'
    BY <1>2, <1>3, <1>5, <2>1, <2>2 DEF FeatureFits, TextsAreKept, Unwritten, Here, Own
  <2>10. ArchiveIsListed(f)'
    BY <1>2, <1>3, <1>5, <2>1, <2>2
       DEF FeatureFits, ArchiveIsListed, Unwritten, Here, Own, Listed
  <2>11. ImportsHaveBlocks(f)'
    <3>1. \A i \in Owned(f, Imports) : /\ i \in Files /\ importOf[i] \in Files
                                       /\ i # a /\ importOf[i] # a
      BY <1>3, <1>4, OwnFacts, FeaturesAssumption DEF Owned, Files
    <3> QED BY <1>2, <1>3, <1>5, <2>1, <2>2, <3>1
            DEF FeatureFits, ImportsHaveBlocks, Cutting, Restoring, Listed
  <2>12. FeatureFits(f)'
    BY <1>2, <1>3, <2>1, <2>9, <2>10, <2>11
       DEF FeatureFits, RecordFits, ModelsAreThere, ManifestIsTrue, Listed
  <2> QED BY <1>3, <2>1, <2>3, <2>4, <2>5, <2>6, <2>7, <2>8, <2>12, StepKeeps
<1>6. ASSUME ~(tree[a] = Gone /\ parked[f][a] # Gone), UNCHANGED <<tree, parked>>,
             run' = [run EXCEPT !.todo = @ \ {a},
                                  !.cut = IF tree[a] = Gone THEN @ \cup {a} ELSE @]
      PROVE  FeaturesInv'
  <2>1. /\ run' \in Calls /\ run'.what = run.what /\ F' = f /\ run'.at = "tests"
        /\ run'.todo = run.todo \ {a}
        /\ run'.cut = run.cut \cup (IF tree[a] = Gone THEN {a} ELSE {})
    BY <1>1, <1>2, <1>6 DEF Typed, Calls, F, Stages
  <2>2. Elsewhere(f)
    BY <1>2, <1>6 DEF Elsewhere
  <2>3. Typed' /\ ImportsAreGenerated'
    BY <1>1, <1>2, <1>6, <2>1 DEF Typed, ImportsAreGenerated
  <2>4. CallFits'
    BY <1>1, <1>2, <1>3, <2>1 DEF CallFits
  <2>5. MemoryFits'
    BY <1>1, <1>2, <1>4, <1>6, <2>1 DEF MemoryFits, Cutting, Moving, Restoring, Listed
  <2>6. ArchivingComesFar' /\ RestoringComesFar'
    BY <1>1, <1>2, <1>3, <1>4, <1>6, <2>1
       DEF ArchivingComesFar, RestoringComesFar, Restoring, Archives, Listed
  <2>7. TextsAreKept(f)' /\ ArchiveIsListed(f)'
    BY <1>2, <1>3, <1>6, <2>1
       DEF FeatureFits, TextsAreKept, ArchiveIsListed, Unwritten, Here, Listed
  <2>8. ImportsHaveBlocks(f)'
    BY <1>2, <1>3, <1>6, <2>1
       DEF FeatureFits, ImportsHaveBlocks, Cutting, Restoring, Listed
  <2>9. FeatureFits(f)'
    BY <1>2, <1>3, <2>1, <2>7, <2>8
       DEF FeatureFits, RecordFits, ModelsAreThere, ManifestIsTrue, Listed
  <2> QED BY <1>3, <2>1, <2>2, <2>3, <2>4, <2>5, <2>6, <2>9, StepKeeps
<1> QED BY <1>5, <1>6 DEF MoveBack, IsToBePutBack

(* All is back, or the rest is to be rebuilt.                               *)
LEMMA RegisterRoutesKeeps ==
  ASSUME FeaturesInv, RegisterRoutes, NEW f, f = F
  PROVE  FeaturesInv'
<1> DEFINE at == IF run.cut = {} THEN "status" ELSE "rebuild"
<1>1. /\ Typed /\ CallFits /\ MemoryFits /\ ImportsAreGenerated /\ RestoringComesFar
  BY DEF FeaturesInv
<1>2. /\ run.at = "tests" /\ run.todo = {} /\ Advance(at, {}) /\ routes' = routes \cup {f}
      /\ UNCHANGED <<tree, parked, record, models, dropped, manifest>>
      /\ UNCHANGED <<latest, lost, Held, hurt, short, unmigrated, nedits>>
  BY DEF RegisterRoutes, Here, bounds, history, Held
<1>3. /\ f \in Features /\ run.what = "activate" /\ FeatureFits(f)
      /\ manifest[f].status # "none" /\ RecordFits(f)
  BY <1>2, PlaceFacts DEF FeatureFits
<1>4. /\ run' \in Calls /\ run'.what = run.what /\ F' = f /\ run'.at = at
      /\ run'.todo = {} /\ run'.cut = run.cut
  <2>1. {} \in SUBSET Files /\ at \in Stages
    BY DEF Stages
  <2> QED BY <1>1, <1>2, <2>1, AdvanceFacts
<1>5. /\ at \in {"status", "rebuild"}
      /\ at = "status" => run.cut = {}
  OBVIOUS
<1> HIDE DEF at
<1>6. \A a \in Own(f) \ hurt : tree[a] # Gone \/ Held[a] = Gone
  <2> SUFFICES ASSUME NEW a \in Own(f) \ hurt, tree[a] = Gone, Held[a] # Gone
               PROVE  FALSE
    OBVIOUS
  <2>1. parked[f][a] # Gone
    BY <1>2, <1>3 DEF FeatureFits, TextsAreKept, Unwritten, Here
  <2>2. a \in Listed(f)
    BY <1>2, <1>3 DEF FeatureFits, ArchiveIsListed, Unwritten, Here
  <2>3. a \in Blocks \cup Imports \cup Tests
    BY DEF Own, Files
  <2> QED BY <1>1, <1>2, <1>3, <2>1, <2>2, <2>3 DEF RestoringComesFar, Restoring
<1>7. Elsewhere(f)
  BY <1>2 DEF Elsewhere
<1>8. Typed' /\ ImportsAreGenerated'
  BY <1>1, <1>2, <1>3, <1>4 DEF Typed, ImportsAreGenerated
<1>9. CallFits'
  BY <1>1, <1>2, <1>3, <1>4, <1>5 DEF CallFits
<1>10. MemoryFits'
  BY <1>1, <1>4, <1>5 DEF MemoryFits, Cutting, Moving, Restoring
<1>11. ArchivingComesFar' /\ RestoringComesFar'
  BY <1>1, <1>2, <1>3, <1>4, <1>5, <1>6
     DEF ArchivingComesFar, RestoringComesFar, Restoring, Archives, Listed
<1>12. FeatureFits(f)'
  <2>1. ImportsHaveBlocks(f)'
    <3>1. \A i \in Owned(f, Imports) : importOf[i] \in Blocks
      BY FeaturesAssumption DEF Owned
    <3>2. at = "status" => \A b \in Listed(f) \cap Blocks : tree[b] # Gone
      BY <1>1, <1>2, <1>3, <1>5 DEF RestoringComesFar, Restoring
    <3> QED BY <1>2, <1>3, <1>4, <1>5, <3>1, <3>2
            DEF FeatureFits, ImportsHaveBlocks, Cutting, Restoring, Listed
  <2> QED BY <1>2, <1>3, <1>4, <2>1
          DEF FeatureFits, RecordFits, TextsAreKept, ArchiveIsListed,
              ModelsAreThere, ManifestIsTrue, Unwritten, Here, Listed
<1> QED BY <1>3, <1>4, <1>7, <1>8, <1>9, <1>10, <1>11, <1>12, StepKeeps

(* What is missing is generated anew.                                       *)
LEMMA RebuildKeeps ==
  ASSUME FeaturesInv, Rebuild, NEW f, f = F
  PROVE  FeaturesInv'
<1> DEFINE created == {a \in Owned(f, Files) : tree[a] = Gone}
<1>1. /\ Typed /\ CallFits /\ MemoryFits /\ ImportsAreGenerated /\ RestoringComesFar
  BY DEF FeaturesInv
<1>2. /\ run.at = "rebuild" /\ Advance("status", {}) /\ models' = models \cup {f}
      /\ tree' = [a \in Files |-> IF a \in created THEN Generated ELSE tree[a]]
      /\ latest' = [a \in Files |->
           IF a \in created /\ latest[a] = Gone THEN Generated ELSE latest[a]]
      /\ lost' = lost \cup {a \in created \cap hurt : latest[a] # Gone}
      /\ UNCHANGED <<parked, record, routes, dropped, manifest>>
      /\ UNCHANGED <<hurt, short, unmigrated, nedits>>
  BY DEF Rebuild, Here, bounds
<1>3. /\ f \in Features /\ run.what = "activate" /\ FeatureFits(f)
      /\ manifest[f].status # "none" /\ RecordFits(f)
  BY <1>2, PlaceFacts DEF FeatureFits
<1>4. /\ run' \in Calls /\ run'.what = run.what /\ F' = f /\ run'.at = "status"
      /\ run'.todo = {} /\ run'.cut = run.cut
  <2>1. {} \in SUBSET Files /\ "status" \in Stages
    BY DEF Stages
  <2> QED BY <1>1, <1>2, <2>1, AdvanceFacts
<1>5. \A a \in Files :
        /\ a \in Owned(f, Files) => tree'[a] # Gone
        /\ tree'[a] # tree[a] =>
             a \in Owned(f, Files) /\ tree[a] = Gone /\ tree'[a] = Generated
        /\ tree[a] # Gone => tree'[a] = tree[a]
        /\ Held'[a] # Held[a] => /\ a \in Owned(f, Files)
                                  /\ Held'[a] \in {Gone, Generated}
                                  /\ tree'[a] = Generated
        /\ a \in Owned(f, Files) /\ tree[a] = Gone =>
             \/ Held'[a] \in {Gone, Generated}
             \/ a \notin hurt /\ Held'[a] = Held[a]
  BY <1>1, <1>2 DEF Typed, Generated, Gone, Held
<1> HIDE DEF created
<1>6. Elsewhere(f)
  <2>1. \A g \in Features \ {f} : Own(g) \cap Owned(f, Files) = {} /\ Own(g) \subseteq Files
    BY <1>3, OwnFacts
  <2> QED BY <1>2, <1>5, <2>1 DEF Elsewhere
<1>7. Typed'
  <2>1. Generated \in Texts
    BY FeaturesAssumption DEF Generated, Texts
  <2>2. /\ tree' \in [Files -> Texts] /\ latest' \in [Files -> Texts]
        /\ Held' \in [Files -> Texts] /\ lost' \subseteq hurt
    <3>1. Gone \in Texts
      BY FeaturesAssumption DEF Gone, Texts
    <3> QED BY <1>1, <1>2, <2>1, <3>1 DEF Typed, Held
  <2> QED BY <1>1, <1>2, <1>3, <1>4, <2>2 DEF Typed
<1>8. CallFits'
  BY <1>1, <1>2, <1>3, <1>4 DEF CallFits
<1>9. MemoryFits'
  BY <1>1, <1>4 DEF MemoryFits, Cutting, Moving, Restoring
<1>10. ImportsAreGenerated'
  BY <1>1, <1>2, <1>5 DEF ImportsAreGenerated, Files
<1>11. \A a \in Owned(f, Files) : tree'[a] # Gone
  BY <1>5 DEF Owned
<1>12. ArchivingComesFar' /\ RestoringComesFar'
  BY <1>1, <1>2, <1>3, <1>4, <1>11, OwnFacts
     DEF ArchivingComesFar, RestoringComesFar, Restoring, Archives, Listed, RecordFits
<1>13. FeatureFits(f)'
  <2>1. TextsAreKept(f)' /\ ArchiveIsListed(f)'
    <3> SUFFICES ASSUME NEW a \in Own(f)
                 PROVE  tree'[a] # Gone /\ Held'[a] \in {Gone, tree'[a]}
      BY DEF TextsAreKept, ArchiveIsListed
    <3>1. a \in Owned(f, Files) /\ a \in Files
      BY <1>3, OwnFacts
    <3>2. CASE tree[a] = Gone
      <4>1. a \in hurt \/ Held[a] = Gone
        BY <1>1, <1>2, <1>3, <3>2 DEF RestoringComesFar
      <4> QED BY <1>5, <3>1, <3>2, <4>1
    <3>3. CASE tree[a] # Gone
      BY <1>3, <1>5, <3>1, <3>3 DEF FeatureFits, TextsAreKept
    <3> QED BY <3>2, <3>3
  <2>2. ImportsHaveBlocks(f)'
    <3>1. \A i \in Owned(f, Imports) : importOf[i] \in Owned(f, Files)
      BY <1>3, OwnFacts DEF Owned, Files
    <3> QED BY <1>11, <3>1 DEF ImportsHaveBlocks
  <2> QED BY <1>2, <1>3, <1>4, <2>1, <2>2
          DEF FeatureFits, RecordFits, ModelsAreThere, ManifestIsTrue, Listed
<1> QED BY <1>3, <1>4, <1>6, <1>7, <1>8, <1>9, <1>10, <1>12, <1>13, StepKeeps

-----------------------------------------------------------------------------
(* Nothing is in the memory of no call.                                     *)
LEMMA EndedFacts ==
  ASSUME run' = NoCall
  PROVE  /\ CallFits' /\ MemoryFits' /\ ArchivingComesFar' /\ RestoringComesFar'
         /\ run'.what = "none" /\ F' = NoFeature /\ run'.at = "none" /\ run' \in Calls
<1>1. /\ run'.what = "none" /\ F' = NoFeature /\ run'.at = "none"
      /\ run'.todo = {} /\ run'.cut = {}
  BY NoCallFacts DEF F
<1>2. run' \in Calls
  BY DEF NoCall, Calls, Stages
<1> QED BY <1>1, <1>2 DEF CallFits, MemoryFits, ArchivingComesFar, RestoringComesFar,
                          Cutting, Moving, Restoring, Archives

(* A call returns: it has not been cut short, but an earlier delete may     *)
(* have taken the models.                                                   *)
LEMMA ReturnFacts ==
  ASSUME Typed, NEW f \in Features, Finish(f)
  PROVE  /\ run' = NoCall
         /\ short' \in [Features -> {"no", "call", "delete"}]
         /\ \A g \in Features : g # f => short'[g] = short[g]
         /\ short[f] = "delete" /\ run.what # "delete" => short'[f] = "delete"
BY DEF Typed, Finish

(* Where a call returns nothing is half done.                               *)
LEMMA ReturnedFits ==
  ASSUME Typed, NEW f \in Features, FeatureFits(f), Finish(f),
         run.at \in {"status", "pending", "purge", "forget"},
         UNCHANGED <<tree, hurt, models>>,
         \A a \in Own(f) : Held'[a] \in {Gone, Held[a]} /\ parked'[f][a] = parked[f][a],
         record'[f] = record[f], F = f, IsAsItSays(f)',
         f \notin models =>
           \/ manifest'[f].status = "none" \/ manifest'[f].pending
           \/ run.what # "delete" /\ short[f] = "delete"
  PROVE  FeatureFits(f)'
<1>1. run'.at = "none" /\ F' = NoFeature /\ f # NoFeature
  BY EndedFacts, ReturnFacts, FeaturesAssumption
<1>2. TextsAreKept(f)'
  BY <1>1 DEF FeatureFits, TextsAreKept, Unwritten, Here
<1>3. ArchiveIsListed(f)'
  BY <1>1 DEF FeatureFits, ArchiveIsListed, Unwritten, Here, Listed
<1>4. ImportsHaveBlocks(f)'
  BY <1>1 DEF FeatureFits, ImportsHaveBlocks, Cutting, Restoring
<1>5. ModelsAreThere(f)'
  BY ReturnFacts DEF ModelsAreThere
<1> QED BY <1>2, <1>3, <1>4, <1>5 DEF FeatureFits, RecordFits, ManifestIsTrue, Listed

(* What deactivate_feature and delete_feature leave in the tree when all    *)
(* is archived.                                                             *)
LEMMA ArchivedFacts ==
  ASSUME FeaturesInv, NEW f \in Features, f = F, Archives,
         run.at \in {"status", "models", "pending", "purge", "forget"}
  PROVE  IsOut(f)
<1>1. ArchivingComesFar /\ FeatureFits(f)
  BY DEF FeaturesInv
<1>2. f \notin routes
  BY <1>1 DEF ArchivingComesFar
<1>3. \A a \in Owned(f, Blocks) \cup (Own(f) \cap Tests) : tree[a] = Gone
  BY <1>1 DEF ArchivingComesFar, Cutting, Moving
<1>4. \A a \in Owned(f, Imports) \ hurt : tree[a] = Gone
  BY <1>1, <1>3, OwnFacts
     DEF FeatureFits, ImportsHaveBlocks, Cutting, Restoring
<1> QED BY <1>2, <1>3, <1>4, OwnFacts DEF IsOut

(* set_status.                                                              *)
LEMMA SetStatusKeeps ==
  ASSUME FeaturesInv, SetStatus, NEW f, f = F
  PROVE  FeaturesInv'
<1> DEFINE status == IF run.what = "activate" THEN "active" ELSE "archived"
<1>1. /\ Typed /\ CallFits /\ MemoryFits /\ ImportsAreGenerated
      /\ ArchivingComesFar /\ RestoringComesFar
  BY DEF FeaturesInv
<1>2. /\ run.at = "status" /\ manifest' = [manifest EXCEPT ![f].status = status]
      /\ UNCHANGED <<tree, parked, record, routes, models, dropped>>
      /\ UNCHANGED <<latest, lost, Held, hurt, unmigrated, nedits>>
  BY DEF SetStatus, Here, bounds, Held
<1>3. /\ f \in Features /\ FeatureFits(f) /\ manifest[f].status # "none"
      /\ run.what \in {"activate", "deactivate"}
  BY <1>2, PlaceFacts
<1>4. /\ manifest' \in [Features -> [status : {"active", "archived", "none"},
                                     pending : BOOLEAN]]
      /\ manifest'[f].status = status /\ manifest'[f].pending = manifest[f].pending
      /\ \A g \in Features : g # f => manifest'[g] = manifest[g]
  BY <1>1, <1>2, <1>3 DEF Typed
<1>5. ImportsAreGenerated'
  BY <1>1, <1>2 DEF ImportsAreGenerated
<1>6. ASSUME run.what = "activate", Advance("purge", {}), UNCHANGED short
      PROVE  FeaturesInv'
  <2>1. /\ run' \in Calls /\ run'.what = run.what /\ F' = f /\ run'.at = "purge"
        /\ run'.todo = {} /\ run'.cut = run.cut
    <3>1. {} \in SUBSET Files /\ "purge" \in Stages
      BY DEF Stages
    <3> QED BY <1>1, <1>6, <3>1, AdvanceFacts
  <2>2. Elsewhere(f)
    BY <1>2, <1>4, <1>6 DEF Elsewhere
  <2>3. Typed'
    BY <1>1, <1>2, <1>4, <1>6, <2>1 DEF Typed
  <2>4. CallFits'
    BY <1>1, <1>3, <1>4, <1>6, <2>1 DEF CallFits
  <2>5. MemoryFits'
    BY <1>1, <2>1 DEF MemoryFits, Cutting, Moving, Restoring
  <2>6. ArchivingComesFar' /\ RestoringComesFar'
    BY <1>1, <1>2, <1>6, <2>1
       DEF ArchivingComesFar, RestoringComesFar, Restoring, Archives, Listed
  <2>7. ModelsAreThere(f)'
    BY <1>1, <1>2, <1>3, <1>4, <1>6, <2>1 DEF FeatureFits, ModelsAreThere
  <2>8. FeatureFits(f)'
    BY <1>2, <1>3, <1>6, <2>1, <2>7
       DEF FeatureFits, RecordFits, TextsAreKept, ArchiveIsListed, ImportsHaveBlocks,
           ManifestIsTrue, Unwritten, Here, Cutting, Restoring, Listed
  <2> QED BY <1>3, <1>5, <2>1, <2>2, <2>3, <2>4, <2>5, <2>6, <2>8, StepKeeps
<1>7. ASSUME run.what = "deactivate", Finish(f)
      PROVE  FeaturesInv'
  <2>1. Elsewhere(f)
    BY <1>1, <1>2, <1>3, <1>4, <1>7, ReturnFacts DEF Elsewhere
  <2>2. Typed'
    BY <1>1, <1>2, <1>3, <1>4, <1>7, ReturnFacts, EndedFacts DEF Typed
  <2>3. IsAsItSays(f)'
    <3>1. IsOut(f)
      BY <1>2, <1>3, <1>7, ArchivedFacts DEF Archives
    <3> QED BY <1>2, <1>4, <1>7, <3>1 DEF IsAsItSays, IsOut
  <2>4. FeatureFits(f)'
    <3>1. f \notin models => manifest'[f].pending \/ short[f] = "delete"
      BY <1>3, <1>4, <1>7 DEF FeatureFits, ModelsAreThere
    <3> QED BY <1>1, <1>2, <1>3, <1>7, <2>3, <3>1, ReturnedFits
  <2> QED BY <1>1, <1>3, <1>5, <1>7, <2>1, <2>2, <2>4, ReturnFacts, EndedFacts, StepKeeps
<1> QED BY <1>6, <1>7 DEF SetStatus

(* delete_model and make_migrations, or the failure of either.              *)
LEMMA DeleteModelsKeeps ==
  ASSUME FeaturesInv, NEW migrate \in BOOLEAN, DeleteModels(migrate),
         NEW f, f = F
  PROVE  FeaturesInv'
<1> DEFINE at == IF f \in models' \/ (migrate /\ f \notin dropped') THEN "pending"
                 ELSE "purge"
<1>1. /\ Typed /\ CallFits /\ MemoryFits /\ ImportsAreGenerated
      /\ ArchivingComesFar /\ RestoringComesFar
  BY DEF FeaturesInv
<1>2. /\ run.at = "models" /\ Advance(at, {})
      /\ models' \in {models, models \ {f}}
      /\ dropped' \in {dropped, dropped \cup (Features \ models')}
      /\ unmigrated' = IF migrate THEN unmigrated \ {f} ELSE unmigrated \cup {f}
      /\ UNCHANGED <<tree, parked, record, routes, manifest>>
      /\ UNCHANGED <<latest, lost, Held, hurt, short, nedits>>
  BY DEF DeleteModels, Here, bounds, Held
<1>3. /\ f \in Features /\ FeatureFits(f) /\ manifest[f].status # "none"
      /\ run.what = "delete"
  BY <1>2, PlaceFacts
<1>4. /\ run' \in Calls /\ run'.what = run.what /\ F' = f /\ run'.at = at
      /\ run'.todo = {} /\ run'.cut = run.cut
  <2>1. {} \in SUBSET Files /\ at \in Stages
    BY DEF Stages
  <2> QED BY <1>1, <1>2, <2>1, AdvanceFacts
<1>5. /\ at \in {"pending", "purge"}
      /\ at = "purge" => f \notin models' /\ f \in dropped' \cup unmigrated'
  BY <1>2
<1> HIDE DEF at
<1>6. Elsewhere(f)
  BY <1>2 DEF Elsewhere
<1>7. Typed' /\ ImportsAreGenerated'
  BY <1>1, <1>2, <1>3, <1>4 DEF Typed, ImportsAreGenerated
<1>8. CallFits'
  BY <1>1, <1>2, <1>3, <1>4, <1>5 DEF CallFits
<1>9. MemoryFits'
  BY <1>1, <1>4, <1>5 DEF MemoryFits, Cutting, Moving, Restoring
<1>10. ArchivingComesFar' /\ RestoringComesFar'
  BY <1>1, <1>2, <1>3, <1>4, <1>5
     DEF ArchivingComesFar, RestoringComesFar, Cutting, Moving, Archives
<1>11. FeatureFits(f)'
  BY <1>2, <1>3, <1>4, <1>5
     DEF FeatureFits, RecordFits, TextsAreKept, ArchiveIsListed, ImportsHaveBlocks,
         ModelsAreThere, ManifestIsTrue, Unwritten, Here, Cutting, Restoring, Listed
<1> QED BY <1>3, <1>4, <1>6, <1>7, <1>8, <1>9, <1>10, <1>11, StepKeeps

(* The delete is to be taken up again.                                      *)
LEMMA SetPendingKeeps ==
  ASSUME FeaturesInv, SetPending, NEW f, f = F
  PROVE  FeaturesInv'
<1>1. /\ Typed /\ ImportsAreGenerated
  BY DEF FeaturesInv
<1>2. /\ run.at = "pending" /\ Finish(f)
      /\ manifest' = [manifest EXCEPT ![f] = [status |-> "archived", pending |-> TRUE]]
      /\ UNCHANGED <<tree, parked, record, routes, models, dropped>>
      /\ UNCHANGED <<latest, lost, Held, hurt, unmigrated, nedits>>
  BY DEF SetPending, Here, bounds, Held
<1>3. /\ f \in Features /\ FeatureFits(f) /\ run.what = "delete"
  BY <1>2, PlaceFacts
<1>4. /\ manifest' \in [Features -> [status : {"active", "archived", "none"},
                                     pending : BOOLEAN]]
      /\ manifest'[f].status = "archived" /\ manifest'[f].pending
      /\ \A g \in Features : g # f => manifest'[g] = manifest[g]
  BY <1>1, <1>2, <1>3 DEF Typed
<1>5. Elsewhere(f)
  BY <1>1, <1>2, <1>3, <1>4, ReturnFacts DEF Elsewhere
<1>6. Typed' /\ ImportsAreGenerated'
  BY <1>1, <1>2, <1>3, <1>4, ReturnFacts, EndedFacts DEF Typed, ImportsAreGenerated
<1>7. IsAsItSays(f)'
  <2>1. IsOut(f)
    BY <1>2, <1>3, ArchivedFacts DEF Archives
  <2> QED BY <1>2, <1>4, <2>1 DEF IsAsItSays, IsOut
<1>8. FeatureFits(f)'
  BY <1>1, <1>2, <1>3, <1>4, <1>7, ReturnedFits
<1> QED BY <1>1, <1>2, <1>3, <1>5, <1>6, <1>8, ReturnFacts, EndedFacts, StepKeeps

(* The entry goes last.                                                     *)
LEMMA ForgetKeeps ==
  ASSUME FeaturesInv, Forget, NEW f, f = F
  PROVE  FeaturesInv'
<1>1. /\ Typed /\ ImportsAreGenerated /\ ArchivingComesFar
  BY DEF FeaturesInv
<1>2. /\ run.at = "forget" /\ Finish(f)
      /\ manifest' = [manifest EXCEPT ![f] = [status |-> "none", pending |-> FALSE]]
      /\ UNCHANGED <<tree, parked, record, routes, models, dropped>>
      /\ UNCHANGED <<latest, lost, Held, hurt, unmigrated, nedits>>
  BY DEF Forget, Here, bounds, Held
<1>3. /\ f \in Features /\ FeatureFits(f) /\ run.what = "delete"
  BY <1>2, PlaceFacts
<1>4. /\ manifest' \in [Features -> [status : {"active", "archived", "none"},
                                     pending : BOOLEAN]]
      /\ manifest'[f].status = "none"
      /\ \A g \in Features : g # f => manifest'[g] = manifest[g]
  BY <1>1, <1>2, <1>3 DEF Typed
<1>5. Elsewhere(f)
  BY <1>1, <1>2, <1>3, <1>4, ReturnFacts DEF Elsewhere
<1>6. Typed' /\ ImportsAreGenerated'
  BY <1>1, <1>2, <1>3, <1>4, ReturnFacts, EndedFacts DEF Typed, ImportsAreGenerated
<1>7. IsAsItSays(f)'
  <2>1. IsOut(f)
    BY <1>2, <1>3, ArchivedFacts DEF Archives
  <2>2. f \notin models /\ f \in dropped \cup unmigrated
    BY <1>1, <1>2, <1>3 DEF ArchivingComesFar, Archives
  <2> QED BY <1>2, <1>4, <2>1, <2>2 DEF IsAsItSays, IsForgotten, IsOut
<1>8. FeatureFits(f)'
  BY <1>1, <1>2, <1>3, <1>4, <1>7, ReturnedFits
<1> QED BY <1>1, <1>2, <1>3, <1>5, <1>6, <1>8, ReturnFacts, EndedFacts, StepKeeps

(* purge_archive(): what only the archive had is given up.                  *)
LEMMA PurgeKeeps ==
  ASSUME FeaturesInv, Purge, NEW f, f = F
  PROVE  FeaturesInv'
<1> DEFINE only == {a \in Owned(f, Files) : tree[a] = Gone}
           given == {a \in only : run.what = "delete" \/ a \in hurt}
<1>1. /\ Typed /\ CallFits /\ MemoryFits /\ ImportsAreGenerated
      /\ ArchivingComesFar /\ RestoringComesFar
  BY DEF FeaturesInv
<1>2. /\ run.at = "purge"
      /\ IF run.what = "delete"
         THEN latest' = [a \in Files |-> IF a \in only THEN Gone ELSE latest[a]] /\ lost' = lost
         ELSE lost' = lost \cup (only \cap hurt) /\ latest' = latest
      /\ UNCHANGED <<tree, routes, models, dropped, manifest>>
      /\ UNCHANGED <<hurt, unmigrated, nedits>>
  BY DEF Purge, Here, bounds
<1>3. /\ f \in Features /\ FeatureFits(f) /\ manifest[f].status # "none"
      /\ run.what \in {"activate", "delete"} /\ RecordFits(f)
  BY <1>2, PlaceFacts DEF FeatureFits
<1>4. Gone \in Texts
  BY FeaturesAssumption DEF Gone, Texts
<1>5. /\ latest' \in [Files -> Texts] /\ lost' \subseteq hurt
      /\ Held' \in [Files -> Texts]
      /\ \A a \in Files : Held'[a] = IF a \in given THEN Gone ELSE Held[a]
      /\ \A a \in given : a \in Owned(f, Files)
  <2>1. CASE run.what = "delete"
    BY <1>1, <1>2, <1>4, <2>1 DEF Typed, Held
  <2>2. CASE run.what # "delete"
    BY <1>1, <1>2, <1>4, <2>2 DEF Typed, Held
  <2> QED BY <2>1, <2>2
<1>6. \A a \in Own(f) : tree[a] = Gone /\ Held'[a] # Gone =>
        a \notin hurt /\ run.what = "activate" /\ Held[a] # Gone
  BY <1>3, <1>5, OwnFacts
<1>7. \A a \in Own(f) : tree[a] = Gone => Held'[a] = Gone
  BY <1>1, <1>2, <1>3, <1>6 DEF RestoringComesFar
<1> HIDE DEF given, only
<1>8. \A g \in Features \ {f} : \A a \in Own(g) : Held'[a] = Held[a]
  BY <1>3, <1>5, OwnFacts
<1>9. /\ TextsAreKept(f)' /\ ArchiveIsListed(f)'
  <2>1. \A a \in Own(f) : Held'[a] \in {Gone, Held[a]}
    BY <1>5 DEF Own
  <2> QED BY <1>2, <1>3, <1>7, <2>1 DEF FeatureFits, TextsAreKept, ArchiveIsListed, Own
<1>10. \A i \in Imports : Held'[i] \in {Gone, Generated}
  BY <1>1, <1>5 DEF ImportsAreGenerated, Files
<1>11. ASSUME NEW a \in Blocks \cup Tests, parked' = [parked EXCEPT ![f][a] = Gone],
              UNCHANGED <<record, run, short>>
       PROVE  FeaturesInv'
  <2>1. /\ parked' \in [Features -> [Files -> Texts]]
        /\ \A g \in Features, b \in Files :
             parked'[g][b] = IF g = f /\ b = a THEN Gone ELSE parked[g][b]
    <3>1. a \in Files
      BY DEF Files
    <3> QED BY <1>1, <1>3, <1>4, <1>11, <3>1 DEF Typed
  <2>2. Elsewhere(f)
    BY <1>2, <1>8, <1>11, <2>1 DEF Elsewhere, Own
  <2>3. Typed'
    BY <1>1, <1>2, <1>5, <1>11, <2>1 DEF Typed
  <2>4. F' = f /\ run'.at = "purge" /\ run'.what = run.what
    BY <1>2, <1>11 DEF F
  <2>5. CallFits'
    BY <1>1, <1>2, <1>3, <1>11 DEF CallFits, F
  <2>6. MemoryFits'
    BY <1>1, <1>2, <1>11, <2>4 DEF MemoryFits, Cutting, Moving, Restoring, F, Owned, Files
  <2>7. ImportsAreGenerated'
    BY <1>1, <1>2, <1>10, <2>1 DEF ImportsAreGenerated, Files
  <2>8. ArchivingComesFar'
    BY <1>1, <1>2, <1>11 DEF ArchivingComesFar, Cutting, Moving, Archives, F
  <2>9. RestoringComesFar'
    <3>1. /\ Listed(f)' = Listed(f)
          /\ \A b \in Imports : parked'[f][b] = parked[f][b]
      BY <1>3, <1>11, <2>1, FeaturesAssumption DEF Listed, Files
    <3> QED BY <1>1, <1>2, <1>7, <2>4, <3>1 DEF RestoringComesFar, Restoring
  <2>10. FeatureFits(f)'
    BY <1>2, <1>3, <1>9, <1>11, <2>4
       DEF FeatureFits, RecordFits, ImportsHaveBlocks, ModelsAreThere, ManifestIsTrue,
           Cutting, Restoring, Listed
  <2> QED BY <1>3, <2>2, <2>3, <2>4, <2>5, <2>6, <2>7, <2>8, <2>9, <2>10, StepKeeps
<1>12. ASSUME record' = [record EXCEPT ![f] = NoRecord],
              parked' = [parked EXCEPT ![f] = [a \in Files |->
                           IF a \in Imports THEN Gone ELSE parked[f][a]]],
              UNCHANGED <<run, short>>
       PROVE  FeaturesInv'
  <2>1. /\ parked' \in [Features -> [Files -> Texts]]
        /\ \A g \in Features, b \in Files :
             parked'[g][b] = IF g = f /\ b \in Imports THEN Gone ELSE parked[g][b]
    <3>1. [a \in Files |-> IF a \in Imports THEN Gone ELSE parked[f][a]] \in [Files -> Texts]
      BY <1>1, <1>3, <1>4 DEF Typed
    <3> QED BY <1>1, <1>3, <1>12, <3>1 DEF Typed
  <2>2. /\ Listed(f)' = {}
        /\ \A g \in Features : g # f => record'[g] = record[g]
        /\ record' \in [Features -> (SUBSET Files) \cup {NoRecord}]
    BY <1>1, <1>3, <1>12 DEF Typed, Listed
  <2>3. Elsewhere(f)
    BY <1>2, <1>8, <1>12, <2>1, <2>2 DEF Elsewhere, Own
  <2>4. Typed'
    BY <1>1, <1>2, <1>5, <1>12, <2>1, <2>2 DEF Typed
  <2>5. F' = f /\ run'.at = "purge" /\ run'.what = run.what
    BY <1>2, <1>12 DEF F
  <2>6. CallFits'
    BY <1>1, <1>2, <1>3, <1>12 DEF CallFits, F
  <2>7. MemoryFits'
    BY <1>1, <1>2, <1>12, <2>5 DEF MemoryFits, Cutting, Moving, Restoring, F, Owned, Files
  <2>8. ImportsAreGenerated'
    BY <1>1, <1>2, <1>10, <2>1 DEF ImportsAreGenerated, Files
  <2>9. ArchivingComesFar'
    BY <1>1, <1>2, <1>12 DEF ArchivingComesFar, Cutting, Moving, Archives, F
  <2>10. RestoringComesFar'
    BY <1>1, <1>2, <1>7, <2>2, <2>5 DEF RestoringComesFar, Restoring
  <2>11. RecordFits(f)'
    BY <2>2 DEF RecordFits
  <2>12. FeatureFits(f)'
    BY <1>2, <1>3, <1>9, <1>12, <2>5, <2>11
       DEF FeatureFits, ImportsHaveBlocks, ModelsAreThere, ManifestIsTrue,
           Cutting, Restoring
  <2> QED BY <1>3, <2>3, <2>4, <2>5, <2>6, <2>7, <2>8, <2>9, <2>10, <2>12, StepKeeps
<1>13. ASSUME run.what = "delete", Advance("forget", {}), UNCHANGED <<parked, record, short>>
       PROVE  FeaturesInv'
  <2>1. /\ run' \in Calls /\ run'.what = run.what /\ F' = f /\ run'.at = "forget"
        /\ run'.todo = {} /\ run'.cut = run.cut
    <3>1. {} \in SUBSET Files /\ "forget" \in Stages
      BY DEF Stages
    <3> QED BY <1>1, <1>13, <3>1, AdvanceFacts
  <2>2. Elsewhere(f)
    BY <1>2, <1>8, <1>13 DEF Elsewhere
  <2>3. Typed'
    BY <1>1, <1>2, <1>5, <1>13, <2>1 DEF Typed
  <2>4. CallFits'
    BY <1>2, <1>3, <1>13, <2>1 DEF CallFits
  <2>5. MemoryFits'
    BY <1>1, <2>1 DEF MemoryFits, Cutting, Moving, Restoring
  <2>6. ImportsAreGenerated'
    BY <1>1, <1>2, <1>10, <1>13 DEF ImportsAreGenerated
  <2>7. ArchivingComesFar' /\ RestoringComesFar'
    BY <1>1, <1>2, <1>13, <2>1
       DEF ArchivingComesFar, RestoringComesFar, Cutting, Moving, Archives
  <2>8. FeatureFits(f)'
    BY <1>2, <1>3, <1>9, <1>13, <2>1
       DEF FeatureFits, RecordFits, ImportsHaveBlocks, ModelsAreThere, ManifestIsTrue,
           Cutting, Restoring, Listed
  <2> QED BY <1>3, <2>1, <2>2, <2>3, <2>4, <2>5, <2>6, <2>7, <2>8, StepKeeps
<1>14. ASSUME run.what = "activate", Finish(f), UNCHANGED <<parked, record>>
       PROVE  FeaturesInv'
  <2>1. Elsewhere(f)
    BY <1>1, <1>2, <1>3, <1>8, <1>14, ReturnFacts DEF Elsewhere
  <2>2. Typed'
    BY <1>1, <1>2, <1>3, <1>5, <1>14, ReturnFacts, EndedFacts DEF Typed
  <2>3. ImportsAreGenerated'
    BY <1>1, <1>2, <1>10, <1>14 DEF ImportsAreGenerated
  <2>4. FeatureFits(f)'
    <3>1. f \notin models => short[f] = "delete"
      BY <1>1, <1>3, <1>14 DEF FeatureFits, ModelsAreThere, CallFits
    <3>2. ManifestIsTrue(f)'
      <4>1. f \in routes
        BY <1>1, <1>2, <1>14 DEF RestoringComesFar
      <4>2. short'[f] = "no" => f \in models
        BY <1>1, <1>3, <1>14, <3>1, ReturnFacts
      <4>3. manifest'[f].status = "active"
        BY <1>1, <1>2, <1>14 DEF CallFits
      <4> QED BY <1>2, <1>7, <4>1, <4>2, <4>3 DEF ManifestIsTrue, IsAsItSays, IsActive, Own
    <3>3. run'.at = "none"
      BY <1>1, <1>3, <1>14, ReturnFacts, EndedFacts
    <3>4. ImportsHaveBlocks(f)'
      BY <1>2, <1>3, <3>3 DEF FeatureFits, ImportsHaveBlocks, Cutting, Restoring
    <3>5. ModelsAreThere(f)'
      BY <1>1, <1>2, <1>3, <1>14, <3>1, ReturnFacts DEF ModelsAreThere
    <3> QED BY <1>3, <1>9, <1>14, <3>2, <3>4, <3>5 DEF FeatureFits, RecordFits, Listed
  <2> QED BY <1>1, <1>3, <1>14, <2>1, <2>2, <2>3, <2>4, ReturnFacts, EndedFacts, StepKeeps
<1> QED
  <2>1. \/ \E a \in Blocks \cup Tests : /\ parked' = [parked EXCEPT ![f][a] = Gone]
                                        /\ UNCHANGED <<record, run, short>>
        \/ /\ record' = [record EXCEPT ![f] = NoRecord]
           /\ parked' = [parked EXCEPT ![f] = [a \in Files |->
                           IF a \in Imports THEN Gone ELSE parked[f][a]]]
           /\ UNCHANGED <<run, short>>
        \/ /\ UNCHANGED <<parked, record>>
           /\ \/ run.what = "delete" /\ Advance("forget", {}) /\ UNCHANGED short
              \/ run.what = "activate" /\ Finish(f)
    BY <1>1, <1>3 DEF Purge, Typed
  <2> QED BY <1>11, <1>12, <1>13, <1>14, <2>1

(* A call is cut short: what its memory held is hurt.                       *)
LEMMA CutShortKeeps ==
  ASSUME FeaturesInv, CutShort, NEW f, f = F
  PROVE  FeaturesInv'
<1> DEFINE unrecorded == {i \in run.cut \cap Imports : Here("trim")}
           inside == {run.item} \cap {a \in Files : Here("blockRecord") \/ Here("testRecord")}
           dangling == {i \in Owned(f, Imports) : tree[i] # Gone /\ tree[importOf[i]] = Gone}
<1>1. /\ Typed /\ CallFits /\ MemoryFits /\ ImportsAreGenerated
  BY DEF FeaturesInv
<1>2. /\ run # NoCall /\ run' = NoCall
      /\ hurt' = hurt \cup inside \cup dangling \cup unrecorded
      /\ latest' = latest /\ lost' = lost \cup unrecorded
      /\ short' = [short EXCEPT ![f] =
           IF short[f] = "delete" \/ (run.what = "delete" /\ f \notin models)
           THEN "delete" ELSE "call"]
      /\ UNCHANGED <<tree, parked, record, routes, models, dropped, manifest>>
      /\ UNCHANGED <<nedits, unmigrated>>
  <2>1. f \in Features
    BY DEF CutShort, FeaturesInv, CallFits
  <2> QED BY <1>1, <2>1 DEF CutShort, disk, Typed
<1>3. /\ f \in Features /\ FeatureFits(f) /\ manifest[f].status # "none"
  <2>1. run.at # "none"
    BY <1>1, <1>2 DEF CallFits, Archiving, Cutting, Moving, Restoring, Typed, Calls
  <2> QED BY <2>1, PlaceFacts
<1>4. /\ run'.at = "none" /\ F' = NoFeature /\ run' \in Calls
      /\ CallFits' /\ MemoryFits' /\ ArchivingComesFar' /\ RestoringComesFar'
  BY <1>2, EndedFacts
<1>5. /\ unrecorded \subseteq Owned(f, Files) /\ unrecorded \subseteq Files
      /\ inside \subseteq Files /\ dangling \subseteq Files
      /\ \A a : Unwritten(a) <=> a \in unrecorded
      /\ \A a \in Files : run.at \in {"blockRecord", "testRecord"} /\ a = run.item =>
                            a \in inside
  BY <1>1, <1>3, OwnFacts DEF MemoryFits, Unwritten, Owned, Files, Here
<1>6. \A a \in Files : Held'[a] = IF Unwritten(a) THEN Gone ELSE Held[a]
  BY <1>2, <1>5 DEF Held
<1>7. /\ short' \in [Features -> {"no", "call", "delete"}] /\ short'[f] # "no"
      /\ \A g \in Features : g # f => short'[g] = short[g]
      /\ short[f] = "delete" \/ (run.what = "delete" /\ f \notin models)
           => short'[f] = "delete"
  BY <1>1, <1>2, <1>3 DEF Typed
<1>8. \A a \in Files : a \notin hurt' =>
        /\ a \notin hurt /\ ~Unwritten(a) /\ a \notin dangling
        /\ ~(run.at \in {"blockRecord", "testRecord"} /\ a = run.item)
  BY <1>2, <1>5
<1>9. Elsewhere(f)
  <2>1. \A g \in Features \ {f} : \A a \in Own(g) : a \in Files /\ ~Unwritten(a)
    BY <1>3, <1>5, OwnFacts
  <2> QED BY <1>2, <1>6, <1>7, <2>1 DEF Elsewhere
<1>10. Typed'
  <2>1. Gone \in Texts
    BY FeaturesAssumption DEF Gone, Texts
  <2>2. /\ latest' \in [Files -> Texts] /\ Held' \in [Files -> Texts]
        /\ lost' \subseteq hurt'
    BY <1>1, <1>2, <2>1 DEF Typed, Held
  <2>3. hurt' \subseteq Files
    BY <1>1, <1>2, <1>5 DEF Typed
  <2> QED BY <1>1, <1>2, <1>4, <1>7, <2>2, <2>3 DEF Typed
<1>11. ImportsAreGenerated'
  BY <1>1, <1>2, <1>6 DEF ImportsAreGenerated, Files
<1>12. FeatureFits(f)'
  <2>1. TextsAreKept(f)'
    BY <1>2, <1>3, <1>6 DEF FeatureFits, TextsAreKept, Own
  <2>2. ArchiveIsListed(f)'
    BY <1>2, <1>3, <1>6, <1>8 DEF FeatureFits, ArchiveIsListed, Own, Listed
  <2>3. ImportsHaveBlocks(f)'
    <3>1. \A i \in Owned(f, Imports) : tree[i] # Gone /\ tree[importOf[i]] = Gone =>
                                         i \in hurt'
      BY <1>2
    <3> QED BY <1>2, <3>1 DEF ImportsHaveBlocks, Owned
  <2>4. ModelsAreThere(f)'
    BY <1>2, <1>3, <1>7 DEF FeatureFits, ModelsAreThere
  <2>5. RecordFits(f)' /\ ManifestIsTrue(f)'
    BY <1>2, <1>3, <1>7 DEF FeatureFits, RecordFits, ManifestIsTrue, Listed
  <2> QED BY <2>1, <2>2, <2>3, <2>4, <2>5 DEF FeatureFits
<1> QED BY <1>3, <1>4, <1>9, <1>10, <1>11, <1>12, StepKeeps

-----------------------------------------------------------------------------
LEMMA StutterKeeps ==
  ASSUME FeaturesInv, UNCHANGED lifecycleVars
  PROVE  FeaturesInv'
<1>1. /\ UNCHANGED <<tree, parked, record, routes, models, dropped, manifest, run>>
      /\ UNCHANGED <<nedits, latest, lost, Held, hurt, short, unmigrated>> /\ F' = F
  BY DEF lifecycleVars, disk, bounds, history, Held, F
<1>2. Typed' /\ CallFits' /\ MemoryFits' /\ ImportsAreGenerated'
  BY <1>1 DEF FeaturesInv, Typed, CallFits, MemoryFits, ImportsAreGenerated, Listed
<1>3. ArchivingComesFar' /\ RestoringComesFar'
  BY <1>1 DEF FeaturesInv, ArchivingComesFar, RestoringComesFar, Archives, Listed
<1>4. ASSUME NEW f \in Features PROVE FeatureFits(f)'
  <2>1. FeatureFits(f)
    BY DEF FeaturesInv
  <2> QED BY <1>1, <2>1
          DEF FeatureFits, RecordFits, TextsAreKept, ArchiveIsListed, ImportsHaveBlocks,
              ModelsAreThere, ManifestIsTrue, IsAsItSays, IsActive, IsOut, IsForgotten,
              Unwritten, Here, Listed
<1> QED BY <1>2, <1>3, <1>4 DEF FeaturesInv

LEMMA NextKeeps ==
  ASSUME FeaturesInv, LifecycleNext
  PROVE  FeaturesInv'
<1>1. ASSUME NEW f \in Features, NEW what \in {"deactivate", "activate", "delete"},
             StartCall(what, f)
      PROVE  FeaturesInv'
  BY <1>1, StartKeeps
<1>2. CASE UnregisterRoutes \/ CutHost \/ RecordBlock \/ EndCuts \/ RecordTrims
           \/ RecordTest \/ EndArchive
  BY <1>2, UnregisterRoutesKeeps, CutHostKeeps, RecordBlockKeeps, EndCutsKeeps,
     RecordTrimsKeeps, RecordTestKeeps, EndArchiveKeeps
<1>3. CASE EndImports \/ Unlink \/ EndBlocks \/ RegisterRoutes \/ Rebuild \/ SetStatus
  BY <1>3, EndImportsKeeps, UnlinkKeeps, EndBlocksKeeps, RegisterRoutesKeeps, RebuildKeeps,
     SetStatusKeeps
<1>4. CASE SetPending \/ Purge \/ Forget \/ CutShort \/ MakeMigrations
  BY <1>4, SetPendingKeeps, PurgeKeeps, ForgetKeeps, CutShortKeeps, MigrationsKeep
<1>5. ASSUME NEW migrate \in BOOLEAN, DeleteModels(migrate)
      PROVE  FeaturesInv'
  BY <1>5, DeleteModelsKeeps
<1>6. ASSUME NEW a \in Files,
             Edit(a) \/ Cut(a) \/ Trim(a) \/ Move(a) \/ RestoreImport(a) \/ Restore(a)
               \/ MoveBack(a)
      PROVE  FeaturesInv'
  BY <1>6, EditKeeps, CutKeeps, TrimKeeps, MoveKeeps, RestoreImportKeeps, RestoreKeeps,
     MoveBackKeeps
<1> QED BY <1>1, <1>2, <1>3, <1>4, <1>5, <1>6 DEF LifecycleNext

(* The inductive invariant holds in every state.                            *)
THEOREM FeaturesInvariant ==
  LifecycleSpec => []FeaturesInv
<1>1. LifecycleInit => FeaturesInv
  BY InitHolds
<1>2. FeaturesInv /\ [LifecycleNext]_lifecycleVars => FeaturesInv'
  BY NextKeeps, StutterKeeps
<1> QED BY <1>1, <1>2, PTL DEF LifecycleSpec

-----------------------------------------------------------------------------
(* The files of one feature are those of some feature alone.                *)
LEMMA OwnFilesAreOwn ==
  ASSUME NEW a \in OwnFiles
  PROVE  \E f \in Features : a \in Own(f) /\ owners[a] = {f}
<1>1. a \in Files /\ owners[a] \subseteq Features /\ Cardinality(owners[a]) = 1
  BY FeaturesAssumption DEF OwnFiles
<1>2. IsFiniteSet(owners[a])
  BY <1>1, FS_Subset, FeaturesAssumption
<1>3. \E f : owners[a] = {f}
  BY <1>1, <1>2, FS_Singleton
<1> QED BY <1>1, <1>3 DEF Own

LEMMA InvImpliesTypeOK ==
  ASSUME FeaturesInv
  PROVE  LifecycleTypeOK
<1>1. Typed /\ CallFits
  BY DEF FeaturesInv
<1>2. \A f \in Features : record[f] = NoRecord \/ record[f] \subseteq Files
  BY <1>1 DEF Typed
<1>3. (run.what = "none") = (run.feature = NoFeature)
  BY <1>1, NoCallFacts, FeaturesAssumption DEF CallFits, F
<1>4. /\ run.what \in {"none", "deactivate", "activate", "delete"}
      /\ run.at \in Stages /\ run.todo \cup run.cut \subseteq Files
      /\ run.feature \in Features \cup {NoFeature}
  BY <1>1 DEF Typed, Calls
<1> QED BY <1>1, <1>2, <1>3, <1>4 DEF Typed, LifecycleTypeOK

LEMMA InvImpliesNothingIsLost ==
  ASSUME FeaturesInv
  PROVE  NothingIsLost
<1> SUFFICES ASSUME NEW a \in OwnFiles \ lost
             PROVE  \/ latest[a] \in {Gone, tree[a]}
                    \/ \E f \in owners[a] : latest[a] = parked[f][a]
                    \/ Here("trim") /\ a \in run.cut
  BY DEF NothingIsLost
<1>1. PICK f \in Features : a \in Own(f) /\ owners[a] = {f}
  BY OwnFilesAreOwn
<1>2. /\ tree[a] # Gone => Held[a] \in {Gone, tree[a]}
      /\ tree[a] = Gone /\ Held[a] # Gone => Held[a] = parked[f][a] \/ Unwritten(a)
  BY <1>1 DEF FeaturesInv, FeatureFits, TextsAreKept
<1>3. Held[a] = latest[a]
  BY DEF Held, OwnFiles
<1> QED BY <1>1, <1>2, <1>3 DEF Unwritten

LEMMA InvImpliesStatusIsTrue ==
  ASSUME FeaturesInv
  PROVE  StatusIsTrue
<1> SUFFICES ASSUME NEW f \in Features, f # F, short[f] = "no"
             PROVE  LET own == {a \in OwnFiles \ hurt : f \in owners[a] /\ latest[a] # Gone}
                        out == f \notin routes /\ \A a \in own : tree[a] = Gone
                    IN CASE manifest[f].status = "active" ->
                              f \in routes /\ f \in models /\ \A a \in own : tree[a] # Gone
                         [] manifest[f].status = "archived" -> out /\ own \subseteq record[f]
                         [] manifest[f].status = "none" ->
                              out /\ f \notin models /\ f \in dropped \cup unmigrated
  BY DEF StatusIsTrue
<1> DEFINE own == {a \in OwnFiles \ hurt : f \in owners[a] /\ latest[a] # Gone}
           out == f \notin routes /\ \A a \in own : tree[a] = Gone
<1>1. /\ Typed /\ MemoryFits /\ FeatureFits(f) /\ IsAsItSays(f)
  BY DEF FeaturesInv, FeatureFits, ManifestIsTrue
<1>2. \A a \in own : a \in Own(f) \ hurt /\ Held[a] # Gone
  BY <1>1, OwnFilesAreOwn DEF Typed, Held, Own
<1> HIDE DEF own
<1>3. manifest[f].status = "active" =>
        f \in routes /\ f \in models /\ \A a \in own : tree[a] # Gone
  BY <1>1, <1>2 DEF IsAsItSays, IsActive
<1>4. manifest[f].status \in {"archived", "none"} => out
  BY <1>1, <1>2 DEF IsAsItSays, IsForgotten, IsOut
<1>5. manifest[f].status = "archived" => own \subseteq record[f]
  <2> SUFFICES ASSUME manifest[f].status = "archived", NEW a \in own
               PROVE  a \in record[f]
    OBVIOUS
  <2>1. a \notin Owned(F, Files)
    <3>1. F \in Features \/ Owned(F, Files) = {}
      BY FeaturesAssumption DEF Owned
    <3> QED BY <1>2, <3>1, OwnFacts
  <2>2. a \notin run.cut /\ a \notin run.todo
    BY <1>1, <2>1 DEF MemoryFits
  <2>3. a \in Listed(f)
    BY <1>1, <1>2, <1>4, <2>2
       DEF FeatureFits, ArchiveIsListed, Unwritten, MemoryFits
  <2> QED BY <2>3 DEF Listed
<1>6. manifest[f].status = "none" => f \notin models /\ f \in dropped \cup unmigrated
  BY <1>1 DEF IsAsItSays, IsForgotten
<1>7. manifest[f].status \in {"active", "archived", "none"}
  BY <1>1 DEF Typed
<1> HIDE DEF out
<1>8. CASE manifest[f].status = "active"
  BY <1>3, <1>8 DEF own, out
<1>9. CASE manifest[f].status = "archived"
  BY <1>4, <1>5, <1>9 DEF own, out
<1>10. CASE manifest[f].status = "none"
  BY <1>4, <1>6, <1>10 DEF own, out
<1> QED BY <1>7, <1>8, <1>9, <1>10

(* Type correctness, for all features and files.                            *)
THEOREM FeaturesTypeCorrect ==
  LifecycleSpec => []LifecycleTypeOK
BY FeaturesInvariant, InvImpliesTypeOK, PTL

(* However many calls there are, and wherever they are cut short, the last  *)
(* text of a file is in the tree or in the archive until a delete gives it  *)
(* up, unless a call was cut short inside the step of that very file and    *)
(* its text went because of it: _cut() writes the fragment before the host, *)
(* and purge_archive() comes when all of the record is back.                *)
THEOREM NoTextIsLost ==
  LifecycleSpec => []NothingIsLost
BY FeaturesInvariant, InvImpliesNothingIsLost, PTL

(* And once the last call on a feature has returned, its status is what is  *)
(* in the project: set_status comes when everything else is done.           *)
THEOREM ManifestsAreTrue ==
  LifecycleSpec => []StatusIsTrue
BY FeaturesInvariant, InvImpliesStatusIsTrue, PTL
=============================================================================
