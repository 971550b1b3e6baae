------------------------------ MODULE MCPageNav ------------------------------
(* PageNav as TLC checks it: at most three pages, so that going round the end  *)
(* is not a step to a neighbour, and one goroutine of each kind of request.    *)
EXTENDS PageNav
==============================================================================
