-------------------------- MODULE MCDetailOverlay --------------------------
(* DetailOverlay as TLC checks it: two zones, the touch goroutine and one      *)
(* debug request.                                                              *)
EXTENDS DetailOverlay
=============================================================================
