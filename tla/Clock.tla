------------------------------- MODULE Clock -------------------------------
(***************************************************************************)
(* The clock that the components of zeeb_api read, in ticks.  Each says    *)
(* itself when a tick may pass.                                            *)
(***************************************************************************)

CONSTANT MaxTime \* bound of the clock

VARIABLE now      \* time.time(), time.monotonic()
=============================================================================
