--------------------------- MODULE MCManagerLocks ---------------------------
(* ManagerLocks as TLC checks it: one goroutine of each kind.                  *)
EXTENDS ManagerLocks
=============================================================================
