----------------------------- MODULE MCMigrate -----------------------------
(* Model-checking instances of Migrate: small histories with squashes.      *)
EXTENDS Migrate

CONSTANTS p1, p2

TwoProcesses == {p1, p2}

AllOperations ==
  {"a", "b", "c", "d", "e", "f", "g", "h", "i", "j", "k", "l", "m", "n",
   "o", "p", "q", "r"}

Ask(files, target) ==
  [files |-> files, target |-> target, fake |-> FALSE, fakeInitial |-> FALSE]

SiteOf(dialect, processes, requests, tables, runs) ==
  [dialect |-> dialect, processes |-> processes, requests |-> requests,
   schema |-> tables, runs |-> runs]

-----------------------------------------------------------------------------
(* One set of migrations with four histories that have nothing in common.  *)
(*                                                                          *)
(* 1 to 7: 4 is a squash of 2 and 3, 5 came after it; 6 is a squash of all   *)
(* that, 4 included, and 7 came after it.                                   *)
(* 8 to 12: 9 and 10 write data, 10 is irreversible; 11 is a squash of the   *)
(* two, and 12 came after it.                                               *)
(* 13 to 15: a chain.                                                       *)
(* 16 to 19: 18 and 19 come from one branch, 17 from another one.           *)
AllMigrations == 1 .. 19
AllDependencies ==
  <<{}, {1}, {2}, {1}, {4}, {}, {6}, {}, {8}, {9}, {8}, {11}, {}, {13}, {14},
    {}, {16}, {16}, {18}>>
AllReplaces ==
  <<<<>>, <<>>, <<>>, <<2, 3>>, <<>>, <<1, 2, 3, 4, 5>>, <<>>,
    <<>>, <<>>, <<>>, <<9, 10>>, <<>>, <<>>, <<>>, <<>>,
    <<>>, <<>>, <<>>, <<>>>>
AllOperationLists ==
  <<<<"a">>, <<"b">>, <<"c">>, <<"b", "c">>, <<"d", "e">>,
    <<"a", "b", "c", "d", "e">>, <<"f">>,
    <<"g">>, <<"h">>, <<"i">>, <<"h", "i">>, <<"j", "k">>,
    <<"l">>, <<"m">>, <<"n">>,
    <<"o">>, <<"p">>, <<"q">>, <<"r">>>>
AllBuildsOn ==
  [o \in AllOperations |->
    CASE o \in {"a", "g", "l", "o"} -> {}
      [] o \in {"b", "f"} -> {"a"} [] o = "c" -> {"b"} [] o = "d" -> {"c"}
      [] o = "e" -> {"d"}
      [] o = "h" -> {"g"} [] o = "i" -> {"h"} [] o = "j" -> {"i"}
      [] o = "k" -> {"j"}
      [] o \in {"m", "n"} -> {"l"}
      [] o \in {"p", "q"} -> {"o"} [] o = "r" -> {"q"}]

(* Releases of the first history: without the squash; with it and the       *)
(* originals; without the originals, or with one of them deleted; the same  *)
(* around the squash of the squash, its originals deleted in two steps.     *)
First == 1 .. 3
Second == 1 .. 5
Third == {1, 4, 5}
Halfway == {1, 2, 4, 5}
Fourth == 1 .. 7
Fifth == {1, 4, 5, 6, 7}
Sixth == {6, 7}

ReleaseRequests ==
  {Ask(First, Latest), Ask(Second, Latest), Ask(Third, Latest),
   Ask(Second, To(2)), Ask(Second, Zero), Ask(Second, Back(2)),
   Ask(Halfway, To(2)), Ask(Third, To(4)), Ask(Third, Back(2))}
Releases == SiteOf("postgresql", TwoProcesses, ReleaseRequests, {}, 4)

NestedRequests ==
  {Ask(files, Latest) : files \in {First, Second, Fourth, Fifth, Sixth}}
  \cup {Ask(Fourth, To(m)) : m \in Fourth}
  \cup {Ask(Fourth, Back(n)) : n \in 1 .. 3}
  \cup {Ask(Fifth, To(m)) : m \in Fifth}
  \cup {Ask(Sixth, Back(1)), Ask(Sixth, Zero)}
Nested == SiteOf("postgresql", {p1}, NestedRequests, {}, 4)

(* MySQL: DDL commits at once and the lock times out. *)
DataRequests ==
  {Ask(8 .. 10, Latest), Ask(8 .. 10, Back(1)), Ask(8 .. 10, Zero),
   Ask(8 .. 12, Latest), Ask(8 .. 12, Back(2)), Ask(8 .. 12, To(11))}
MySQL == SiteOf("mysql", TwoProcesses, DataRequests, {}, 3)

(* 15 depends on 14, which an early release lacked: --fake repairs what     *)
(* that release left, and --fake-initial adopts the tables a database has.  *)
Repairing(files, target, fake, fakeInitial) ==
  [files |-> files, target |-> target, fake |-> fake,
   fakeInitial |-> fakeInitial]
RepairRequests ==
  {Repairing({13, 15}, Latest, FALSE, TRUE),
   Repairing(13 .. 15, Latest, FALSE, TRUE),
   Repairing(13 .. 15, To(15), TRUE, FALSE),
   Repairing(13 .. 15, To(13), FALSE, FALSE),
   Repairing(13 .. 15, Zero, TRUE, FALSE)}
Repairs == {SiteOf("postgresql", TwoProcesses, RepairRequests, tables, 4) :
              tables \in {{}, {"l"}}}

(* A team that has 14 from the start adopts tables, and corrects its record. *)
AdoptingRequests ==
  {Repairing(13 .. 15, Latest, FALSE, TRUE),
   Repairing(13 .. 15, Latest, FALSE, FALSE),
   Repairing(13 .. 15, To(14), TRUE, FALSE),
   Repairing(13 .. 15, To(13), TRUE, FALSE),
   Repairing(13 .. 15, Back(1), FALSE, FALSE)}
Adopting == SiteOf("postgresql", TwoProcesses, AdoptingRequests, {"l"}, 4)

AllSites == {Releases, Nested, MySQL, Adopting} \cup Repairs

(* These histories are ones that the theorems are about. *)
ASSUME SquashesAreNested /\ SquashesHoldTheirLeaves /\ SquashesStayIrreversible
ASSUME HistoryIsWellMade /\ OperationsAreInOrder

-----------------------------------------------------------------------------
(* What the code does not do as it says. *)

(* SQLite: the first history from nothing, on one process that may die.     *)
SQLite == {SiteOf("sqlite", {p1}, ReleaseRequests, {}, 1)}

(* The old release takes the database back behind the squash of a squash.   *)
OldRelease ==
  {SiteOf("postgresql", {p1},
     {Ask(Fourth, Latest), Ask(Second, To(2)), Ask(Second, Zero)}, {}, 2)}

(* A rollback where the branch of 17 was merged below what is applied.      *)
Merged ==
  {SiteOf("postgresql", {p1},
     {Ask({16, 18, 19}, Latest), Ask(16 .. 19, Back(1))}, {}, 2)}
=============================================================================
