--------------------------- MODULE MCProjectScope ---------------------------
(* Model-checking instance of ProjectScope.                                 *)
EXTENDS ProjectScope

CONSTANTS t1, t2, t3, l1, blog, shop

ThreeTasks == {t1, t2, t3}
TwoProjects == {blog, shop}
OneLoop == {l1}
OnOneLoop == [t \in ThreeTasks |-> l1]
=============================================================================
