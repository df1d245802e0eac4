------------------------------ MODULE MCAtomic ------------------------------
(* Model-checking instance of Atomic: tasks and aliases are model values.   *)
EXTENDS AtomicRefinement, TLC

CONSTANTS t1, t2, main, other

OneTask == {t1}
TwoTasks == {t1, t2}
OneAlias == {main}
TwoAliases == {main, other}
=============================================================================
