---------------------------- MODULE Transactions ----------------------------
(***************************************************************************)
(* What atomic() promises a program that opens and leaves blocks one at a  *)
(* time: the docstring of atomic() in zeeb_orm/db/connection.py and that   *)
(* of on_commit() in zeeb_orm/db/transaction.py.                           *)
(*                                                                         *)
(* A scope is a block that is open.  What it wrote and the callbacks it    *)
(* registered are its own until it is left: by success they go to the      *)
(* innermost scope left on its database or, if there is none, become       *)
(* durable and due; by failure they are gone.  No session, no savepoint.   *)
(***************************************************************************)
EXTENDS Naturals, Sequences

CONSTANTS Aliases, WriteIds, CallbackIds

VARIABLES
  scopes,  \* the open blocks, outermost first
  durable, \* the writes that were committed
  due,     \* the callbacks a commit has set off and that have not run
  ran      \* the callbacks that ran, in order

absvars == <<scopes, durable, due, ran>>

Init == scopes = <<>> /\ durable = {} /\ due = <<>> /\ ran = <<>>

(* The scopes open on database a. *)
On(a) == {i \in DOMAIN scopes : scopes[i].alias = a}
Innermost(S) == CHOOSE i \in S : \A j \in S : j <= i

Open(a) ==
  /\ due = <<>>
  /\ scopes' = Append(scopes, [alias |-> a, writes |-> {}, calls |-> <<>>])
  /\ UNCHANGED <<durable, due, ran>>

Write(a, w) ==
  /\ due = <<>>
  /\ IF On(a) = {}
     THEN durable' = durable \cup {w} /\ UNCHANGED scopes
     ELSE /\ scopes' = [scopes EXCEPT ![Innermost(On(a))].writes = @ \cup {w}]
          /\ UNCHANGED durable
  /\ UNCHANGED <<due, ran>>

Register(a, c) ==
  /\ due = <<>> /\ On(a) # {}
  /\ scopes' = [scopes EXCEPT ![Innermost(On(a))].calls = Append(@, c)]
  /\ UNCHANGED <<durable, due, ran>>

(* The innermost scope and those around it, and those on its database. *)
Last == scopes[Len(scopes)]
Rest == SubSeq(scopes, 1, Len(scopes) - 1)
Around == {i \in DOMAIN Rest : Rest[i].alias = Last.alias}

(* The scope s once it has what t wrote and registered, too. *)
With(s, t) ==
  [alias |-> s.alias, writes |-> s.writes \cup t.writes, calls |-> s.calls \o t.calls]

Succeed ==
  /\ due = <<>> /\ scopes # <<>>
  /\ IF Around = {}
     THEN /\ scopes' = Rest
          /\ durable' = durable \cup Last.writes
          /\ due' = Last.calls
     ELSE /\ scopes' = [Rest EXCEPT ![Innermost(Around)] = With(@, Last)]
          /\ UNCHANGED <<durable, due>>
  /\ UNCHANGED ran

Fail ==
  /\ due = <<>> /\ scopes # <<>>
  /\ scopes' = Rest
  /\ UNCHANGED <<durable, due, ran>>

(* The next callback runs; if it raises, those behind it are skipped. *)
Call ==
  /\ due # <<>>
  /\ ran' = Append(ran, Head(due))
  /\ due' \in {Tail(due), <<>>}
  /\ UNCHANGED <<scopes, durable>>

Next ==
  \/ \E a \in Aliases : \/ Open(a)
                        \/ \E w \in WriteIds : Write(a, w)
                        \/ \E c \in CallbackIds : Register(a, c)
  \/ Succeed \/ Fail \/ Call

AbsSpec == Init /\ [][Next]_absvars
=============================================================================
