--------------------------- MODULE MCBackgroundWork ---------------------------
(* Small instances of BackgroundWork for TLC: two tasks, one of them with an  *)
(* external effect, that share a holder lock.                                 *)
EXTENDS BackgroundWork, TLC

CONSTANTS x, y

TwoTasks == {x, y}
OneExternal == {x}
SharedLock == (x :> 1) @@ (y :> 1)
=============================================================================
