------------------------------ MODULE Features ------------------------------
(***************************************************************************)
(* The lifecycle of features (zeeb_agents): deactivate_feature,            *)
(* activate_feature and delete_feature (intent.py), the surgery on the     *)
(* files of the project (feature_archive.py) and the manifest              *)
(* (feature_manifest.py).  An action is one write to the disk; a call may  *)
(* be cut short after each of them, by an error or by the death of the     *)
(* process, and then another call comes.                                   *)
(*                                                                         *)
(* A file of the model is whatever archiving moves as a whole: the block   *)
(* of a class or function, the import of one in a module that stays, a     *)
(* file of tests.                                                          *)
(***************************************************************************)
EXTENDS Integers, FiniteSets

CONSTANTS
  Features,
  Blocks,    \* classes and functions, each of one feature
  Imports,   \* imports of them elsewhere
  Tests,     \* test files, which old manifests give to several features
  owners,    \* the features in whose artifacts a file is
  importOf,  \* the block each import imports
  NoFeature,
  MaxStarts, MaxEdits, MaxCuts  \* bounds: calls, edits, calls cut short

Files == Blocks \cup Imports \cup Tests

(* Blocks and imports are of one feature, an import of that of its block.  *)
ASSUME FeaturesAssumption ==
  /\ IsFiniteSet(Features) /\ NoFeature \notin Features \cup Files
  /\ MaxEdits \in Nat
  /\ Blocks \cap Imports = {} /\ Blocks \cap Tests = {} /\ Imports \cap Tests = {}
  /\ owners \in [Files -> SUBSET Features]
  /\ \A a \in Blocks \cup Imports : \E f \in Features : owners[a] = {f}
  /\ importOf \in [Imports -> Blocks]
  /\ \A i \in Imports : owners[importOf[i]] = owners[i]

VARIABLES
  tree,      \* the text of each file in the project
  parked,    \* its text in the archive of each feature
  record,    \* archive.json of each feature: what it lists
  routes,    \* the features whose routes are registered
  models,    \* the features whose models are in models.py
  dropped,   \* the features for whose tables a migration drops
  manifest,  \* the status of each feature, and delete_pending
  run,       \* the call that runs
  nstarts, nedits, ncuts,
  latest,    \* history: the last text of each file, until a delete gives it up
  hurt,      \* history: the files a cut inside their own step concerned
  lost,      \* history: those whose text went because of it
  short,     \* history: the features whose last call was cut short
  unmigrated \* history: the features deleted with migrate=False

disk == <<tree, parked, record, routes, models, dropped, manifest>>
bounds == <<nstarts, nedits, ncuts>>
history == <<latest, hurt, lost, short, unmigrated>>
lifecycleVars == <<disk, run, bounds, history>>

Gone == 0
Generated == 1
Texts == 0 .. MaxEdits + 1

NoRecord == {NoFeature}

NoCall == [what |-> "none", feature |-> NoFeature, at |-> "none", todo |-> {},
           cut |-> {}, item |-> NoFeature]

Stages == {"none", "routes", "cut", "host", "blockRecord", "trim", "trimRecord",
           "move", "testRecord", "imports", "restore", "unlink", "tests", "register",
           "rebuild", "status", "models", "pending", "purge", "forget"}

LifecycleTypeOK ==
  /\ tree \in [Files -> Texts]
  /\ parked \in [Features -> [Files -> Texts]]
  /\ \A f \in Features : record[f] = NoRecord \/ record[f] \subseteq Files
  /\ routes \cup models \cup dropped \cup unmigrated \subseteq Features
  /\ manifest \in [Features -> [status : {"active", "archived", "none"}, pending : BOOLEAN]]
  /\ run.what \in {"none", "deactivate", "activate", "delete"}
  /\ run.at \in Stages /\ run.todo \cup run.cut \subseteq Files
  /\ run.feature \in Features \cup {NoFeature}
  /\ (run.what = "none") = (run.feature = NoFeature)
  /\ latest \in [Files -> Texts] /\ hurt \subseteq Files /\ lost \subseteq hurt
  /\ short \in [Features -> {"no", "call", "delete"}]

LifecycleInit ==
  /\ tree = [a \in Files |-> Generated]
  /\ parked = [f \in Features |-> [a \in Files |-> Gone]]
  /\ record = [f \in Features |-> NoRecord]
  /\ routes = Features /\ models = Features /\ dropped = {}
  /\ manifest = [f \in Features |-> [status |-> "active", pending |-> FALSE]]
  /\ run = NoCall
  /\ nstarts = 0 /\ nedits = 0 /\ ncuts = 0
  /\ latest = tree /\ hurt = {} /\ lost = {} /\ unmigrated = {}
  /\ short = [f \in Features |-> "no"]

-----------------------------------------------------------------------------
Owned(f, kind) == {a \in kind : f \in owners[a]}
Listed(f) == IF record[f] = NoRecord THEN {} ELSE record[f]

Here(at) == run.at = at
F == run.feature

Advance(at, todo) == run' = [run EXCEPT !.at = at, !.todo = todo]

Finish(f) ==
  /\ run' = NoCall
  /\ short' = [short EXCEPT ![f] =
       IF @ = "delete" /\ run.what # "delete" THEN "delete" ELSE "no"]

(* A developer edits a file; an import is there or not. *)
Edit(a) ==
  /\ run = NoCall /\ nedits < MaxEdits /\ a \notin Imports /\ tree[a] # Gone
  /\ nedits' = nedits + 1
  /\ tree' = [tree EXCEPT ![a] = nedits + 2]
  /\ latest' = [latest EXCEPT ![a] = nedits + 2]
  /\ lost' = lost \ {a}
  /\ UNCHANGED <<parked, record, routes, models, dropped, manifest, run, nstarts, ncuts,
                 hurt, short, unmigrated>>

(* make_migrations() by itself, for models that have gone. *)
MakeMigrations ==
  /\ run = NoCall /\ dropped # Features \ models
  /\ dropped' = Features \ models
  /\ UNCHANGED <<tree, parked, record, routes, models, manifest, run, bounds, history>>

\* Mutated: a half-deleted feature is archived.
AllowedByStatus(what, f) ==
  manifest[f].status # "none" /\ (what # "delete" =>
    manifest[f].status = IF what = "activate" THEN "archived" ELSE "active")

(* delete_feature refuses nothing by the status; activate_feature refuses  *)
(* a feature that is half-deleted.                                         *)
Allowed(what, f) ==
  CASE what = "deactivate" -> manifest[f].status = "active"
    [] what = "activate" -> manifest[f].status = "archived" /\ ~manifest[f].pending
    [] what = "delete" -> manifest[f].status # "none"

StartCall(what, f) ==
  /\ run = NoCall /\ nstarts < MaxStarts /\ Allowed(what, f)
  /\ nstarts' = nstarts + 1
  /\ run' = [NoCall EXCEPT !.what = what, !.feature = f,
                !.at = IF what = "activate" THEN "imports" ELSE "routes",
                !.todo = IF what = "activate" THEN Listed(f) \cap Imports ELSE {}]
  /\ UNCHANGED <<disk, nedits, ncuts, history>>

-----------------------------------------------------------------------------
(* archive_artifacts() *)

UnregisterRoutes ==
  /\ Here("routes")
  /\ routes' = routes \ {F}
  /\ Advance("cut", Owned(F, Blocks))
  /\ UNCHANGED <<tree, parked, record, models, dropped, manifest, bounds, history>>

(* _cut(): the fragment lands before the host loses the block.  A block    *)
(* that is not there is skipped.                                           *)
Cut(a) ==
  /\ Here("cut") /\ a \in run.todo
  /\ \/ /\ tree[a] = Gone
        /\ Advance("cut", run.todo \ {a})
        /\ UNCHANGED parked
     \/ /\ tree[a] # Gone
        /\ parked' = [parked EXCEPT ![F][a] = tree[a]]
        /\ run' = [run EXCEPT !.at = "host", !.item = a]
  /\ UNCHANGED <<tree, record, routes, models, dropped, manifest, bounds, history>>

CutHost ==
  /\ Here("host")
  /\ tree' = [tree EXCEPT ![run.item] = Gone]
  /\ Advance("blockRecord", run.todo)
  /\ UNCHANGED <<parked, record, routes, models, dropped, manifest, bounds, history>>

\* Mutated: the record is written when everything has been cut.
CheckpointedAtLast(a) == IF run.todo = {a} THEN Listed(F) \cup run.cut \cup {a} ELSE record[F]

(* What the record lists after a cut. *)
Checkpointed(a) == Listed(F) \cup {a}

RecordBlock ==
  /\ Here("blockRecord")
  /\ record' = [record EXCEPT ![F] = Checkpointed(run.item)]
  /\ run' = [run EXCEPT !.at = "cut", !.todo = @ \ {run.item}, !.item = NoFeature,
                        !.cut = @ \cup {run.item}]
  /\ UNCHANGED <<tree, parked, routes, models, dropped, manifest, bounds, history>>

(* The imports of what this run has cut. *)
Trimmed == {i \in Imports : importOf[i] \in run.cut /\ tree[i] # Gone}

EndCuts ==
  /\ Here("cut") /\ run.todo = {}
  /\ Advance("trim", Trimmed)
  /\ UNCHANGED <<disk, bounds, history>>

(* _trim_imports(), _prune_host_imports(): module by module; the text is   *)
(* in memory until the record is written.                                  *)
Trim(i) ==
  /\ Here("trim") /\ i \in run.todo
  /\ tree' = [tree EXCEPT ![i] = Gone]
  /\ run' = [run EXCEPT !.todo = @ \ {i}, !.cut = @ \cup {i}]
  /\ UNCHANGED <<parked, record, routes, models, dropped, manifest, bounds, history>>

(* Test files another feature owns, too, stay: an active one, when this    *)
(* one is deactivated, any, when it is deleted.                            *)
Kept(a) ==
  \E g \in owners[a] \ {F} :
    manifest[g].status \in (IF run.what = "delete" THEN {"active", "archived"} ELSE {"active"})

RecordTrims ==
  /\ Here("trim") /\ run.todo = {}
  /\ record' = [record EXCEPT ![F] = Listed(F) \cup run.cut]
  /\ parked' = [parked EXCEPT ![F] = [a \in Files |->
                  IF a \in run.cut \cap Imports THEN Generated ELSE @[a]]]
  /\ Advance("move", {a \in Owned(F, Tests) : tree[a] # Gone /\ ~Kept(a)})
  /\ UNCHANGED <<tree, routes, models, dropped, manifest, bounds, history>>

Move(a) ==
  /\ Here("move") /\ a \in run.todo
  /\ tree' = [tree EXCEPT ![a] = Gone]
  /\ parked' = [parked EXCEPT ![F][a] = tree[a]]
  /\ run' = [run EXCEPT !.at = "testRecord", !.item = a]
  /\ UNCHANGED <<record, routes, models, dropped, manifest, bounds, history>>

RecordTest ==
  /\ Here("testRecord")
  /\ record' = [record EXCEPT ![F] = Checkpointed(run.item)]
  /\ run' = [run EXCEPT !.at = "move", !.todo = @ \ {run.item}, !.item = NoFeature]
  /\ UNCHANGED <<tree, parked, routes, models, dropped, manifest, bounds, history>>

EndArchive ==
  /\ Here("move") /\ run.todo = {}
  /\ record' = [record EXCEPT ![F] = Listed(F)]
  /\ Advance(IF run.what = "delete" THEN "models" ELSE "status", {})
  /\ UNCHANGED <<tree, parked, routes, models, dropped, manifest, bounds, history>>

-----------------------------------------------------------------------------
(* restore_artifacts(), and what activate_feature does after it *)

RestoreImport(i) ==
  /\ Here("imports") /\ i \in run.todo
  /\ tree' = [tree EXCEPT ![i] = IF @ = Gone THEN parked[F][i] ELSE @]
  /\ Advance("imports", run.todo \ {i})
  /\ UNCHANGED <<parked, record, routes, models, dropped, manifest, bounds, history>>

EndImports ==
  /\ Here("imports") /\ run.todo = {}
  /\ Advance("restore", Listed(F) \cap Blocks)
  /\ UNCHANGED <<disk, bounds, history>>

\* Mutated: the fragment is put back without a look at the host.
IsInArchive(a) == parked[F][a] # Gone

(* Present in its host is checked before the fragment. *)
IsToBePutBack(a) == tree[a] = Gone /\ parked[F][a] # Gone

Restore(a) ==
  /\ Here("restore") /\ a \in run.todo
  /\ \/ /\ IsToBePutBack(a)
        /\ tree' = [tree EXCEPT ![a] = parked[F][a]]
        /\ run' = [run EXCEPT !.at = "unlink", !.item = a]
     \/ /\ ~IsToBePutBack(a)
        /\ run' = [run EXCEPT !.todo = @ \ {a},
                              !.cut = IF tree[a] = Gone THEN @ \cup {a} ELSE @]
        /\ UNCHANGED tree
  /\ UNCHANGED <<parked, record, routes, models, dropped, manifest, bounds, history>>

Unlink ==
  /\ Here("unlink")
  /\ parked' = [parked EXCEPT ![F][run.item] = Gone]
  /\ run' = [run EXCEPT !.at = "restore", !.todo = @ \ {run.item}, !.item = NoFeature]
  /\ UNCHANGED <<tree, record, routes, models, dropped, manifest, bounds, history>>

EndBlocks ==
  /\ Here("restore") /\ run.todo = {}
  /\ Advance("tests", Listed(F) \cap Tests)
  /\ UNCHANGED <<disk, bounds, history>>

MoveBack(a) ==
  /\ Here("tests") /\ a \in run.todo
  /\ \/ /\ IsToBePutBack(a)
        /\ tree' = [tree EXCEPT ![a] = parked[F][a]]
        /\ parked' = [parked EXCEPT ![F][a] = Gone]
        /\ Advance("tests", run.todo \ {a})
     \/ /\ ~IsToBePutBack(a)
        /\ run' = [run EXCEPT !.todo = @ \ {a},
                              !.cut = IF tree[a] = Gone THEN @ \cup {a} ELSE @]
        /\ UNCHANGED <<tree, parked>>
  /\ UNCHANGED <<record, routes, models, dropped, manifest, bounds, history>>

(* run.cut is now what is missing. *)
RegisterRoutes ==
  /\ Here("tests") /\ run.todo = {}
  /\ routes' = routes \cup {F}
  /\ Advance(IF run.cut = {} THEN "status" ELSE "rebuild", {})
  /\ UNCHANGED <<tree, parked, record, models, dropped, manifest, bounds, history>>

(* The stored spec, compiled: it creates what is not there, in place of a  *)
(* text, too, that a cut had left off the record, and is lost with that.   *)
Rebuild ==
  /\ Here("rebuild")
  /\ LET created == {a \in Owned(F, Files) : tree[a] = Gone} IN
     /\ tree' = [a \in Files |-> IF a \in created THEN Generated ELSE tree[a]]
     /\ latest' = [a \in Files |->
          IF a \in created /\ latest[a] = Gone THEN Generated ELSE latest[a]]
     /\ lost' = lost \cup {a \in created \cap hurt : latest[a] # Gone}
  /\ models' = models \cup {F}
  /\ Advance("status", {})
  /\ UNCHANGED <<parked, record, routes, dropped, manifest, bounds, hurt, short, unmigrated>>

(* set_status *)
SetStatus ==
  /\ Here("status")
  /\ manifest' = [manifest EXCEPT ![F].status =
       IF run.what = "activate" THEN "active" ELSE "archived"]
  /\ \/ run.what = "activate" /\ Advance("purge", {}) /\ UNCHANGED short
     \/ run.what = "deactivate" /\ Finish(F)
  /\ UNCHANGED <<tree, parked, record, routes, models, dropped, bounds, latest, hurt, lost, unmigrated>>

-----------------------------------------------------------------------------
(* delete_feature, after the archive *)

(* delete_model, make_migrations: either may fail. *)
DeleteModels(migrate) ==
  /\ Here("models")
  /\ \/ /\ models' = models \ {F}
        /\ \/ migrate /\ dropped' = dropped \cup (Features \ models')
           \/ UNCHANGED dropped
     \/ UNCHANGED <<models, dropped>>
  /\ unmigrated' = IF migrate THEN unmigrated \ {F} ELSE unmigrated \cup {F}
  /\ Advance(IF F \in models' \/ (migrate /\ F \notin dropped') THEN "pending" ELSE "purge", {})
  /\ UNCHANGED <<tree, parked, record, routes, manifest, bounds, latest, hurt, lost, short>>

(* The archive and the entry are kept. *)
SetPending ==
  /\ Here("pending")
  /\ manifest' = [manifest EXCEPT ![F] = [status |-> "archived", pending |-> TRUE]]
  /\ Finish(F)
  /\ UNCHANGED <<tree, parked, record, routes, models, dropped, bounds, latest, hurt, lost, unmigrated>>

(* purge_archive(): file by file.  Whatever of the archive is in no other  *)
(* place is given up by delete_feature, as it says, and lost through       *)
(* activate_feature where a cut had left it off the record.                *)
Purge ==
  /\ Here("purge")
  /\ \/ \E a \in Blocks \cup Tests :
          /\ parked[F][a] # Gone
          /\ parked' = [parked EXCEPT ![F][a] = Gone]
          /\ UNCHANGED <<record, run, short>>
     \/ /\ record[F] # NoRecord
        /\ record' = [record EXCEPT ![F] = NoRecord]
        /\ parked' = [parked EXCEPT ![F] = [a \in Files |->
                        IF a \in Imports THEN Gone ELSE @[a]]]
        /\ UNCHANGED <<run, short>>
     \/ /\ record[F] = NoRecord /\ \A a \in Files : parked[F][a] = Gone
        /\ UNCHANGED <<parked, record>>
        /\ \/ run.what = "delete" /\ Advance("forget", {}) /\ UNCHANGED short
           \/ run.what = "activate" /\ Finish(F)
  /\ LET only == {a \in Owned(F, Files) : tree[a] = Gone} IN
     IF run.what = "delete"
     THEN /\ latest' = [a \in Files |-> IF a \in only THEN Gone ELSE latest[a]]
          /\ UNCHANGED lost
     ELSE lost' = lost \cup (only \cap hurt) /\ UNCHANGED latest
  /\ UNCHANGED <<tree, routes, models, dropped, manifest, bounds, hurt, unmigrated>>

(* forget_feature() *)
Forget ==
  /\ Here("forget")
  /\ manifest' = [manifest EXCEPT ![F] = [status |-> "none", pending |-> FALSE]]
  /\ Finish(F)
  /\ UNCHANGED <<tree, parked, record, routes, models, dropped, bounds, latest, hurt, lost, unmigrated>>

(* The call is cut short.  What only its memory held is lost; a file       *)
(* inside its own step, and the imports of blocks it took, are hurt.       *)
CutShort ==
  /\ run # NoCall /\ ncuts < MaxCuts
  /\ ncuts' = ncuts + 1
  /\ LET unrecorded == {i \in run.cut \cap Imports : Here("trim")}
         inside == {run.item} \cap {a \in Files : Here("blockRecord") \/ Here("testRecord")}
         dangling == {i \in Owned(F, Imports) : tree[i] # Gone /\ tree[importOf[i]] = Gone}
     IN /\ hurt' = hurt \cup inside \cup dangling \cup unrecorded
        /\ lost' = lost \cup unrecorded
  /\ short' = [short EXCEPT ![F] =
       IF @ = "delete" \/ (run.what = "delete" /\ F \notin models) THEN "delete" ELSE "call"]
  /\ run' = NoCall
  /\ UNCHANGED <<disk, nstarts, nedits, latest, unmigrated>>

LifecycleNext ==
  \/ \E f \in Features, what \in {"deactivate", "activate", "delete"} : StartCall(what, f)
  \/ UnregisterRoutes \/ CutHost \/ RecordBlock \/ EndCuts
  \/ RecordTrims \/ RecordTest \/ EndArchive
  \/ EndImports \/ Unlink \/ EndBlocks \/ RegisterRoutes \/ Rebuild \/ SetStatus
  \/ SetPending \/ Purge \/ Forget \/ CutShort \/ MakeMigrations
  \/ \E migrate \in BOOLEAN : DeleteModels(migrate)
  \/ \E a \in Files :
       Edit(a) \/ Cut(a) \/ Trim(a) \/ Move(a) \/ RestoreImport(a) \/ Restore(a) \/ MoveBack(a)

LifecycleSpec == LifecycleInit /\ [][LifecycleNext]_lifecycleVars

-----------------------------------------------------------------------------
(* The files of one feature. *)
OwnFiles == {a \in Files : Cardinality(owners[a]) = 1}

(* No text is lost, hand edits included, by calls that return, fail or die *)
(* anywhere but inside the step of that very file: until a delete gives it *)
(* up it is in the tree or in the archive.  For a file cut short inside    *)
(* its own step the promise of archiving ("without losing anything: not    *)
(* the code, not the hand edits made to it") does not hold: its text is in *)
(* the archive and not on the record, so activate_feature does not put it  *)
(* back and removes it with the archive, or builds the file anew; and an   *)
(* import so cut is lost at once.  `lost' are the files that happened to.  *)
NothingIsLost ==
  \A a \in OwnFiles \ lost :
    \/ latest[a] \in {Gone, tree[a]}
    \/ \E f \in owners[a] : latest[a] = parked[f][a]
    \/ Here("trim") /\ a \in run.cut

(* When the last call on a feature has returned, the project is what the   *)
(* manifest says: all of an active feature is there, nothing of an         *)
(* archived one, and all of that is on the record; a feature is forgotten  *)
(* only without its models and with a migration that drops its tables;     *)
(* and a feature without models does not come back.                        *)
StatusIsTrue ==
  \A f \in Features : f # F /\ short[f] = "no" =>
    LET own == {a \in OwnFiles \ hurt : f \in owners[a] /\ latest[a] # Gone}
        out == f \notin routes /\ \A a \in own : tree[a] = Gone
    IN CASE manifest[f].status = "active" ->
              f \in routes /\ f \in models /\ \A a \in own : tree[a] # Gone
         [] manifest[f].status = "archived" -> out /\ own \subseteq record[f]
         [] manifest[f].status = "none" ->
              out /\ f \notin models /\ f \in dropped \cup unmigrated
=============================================================================
