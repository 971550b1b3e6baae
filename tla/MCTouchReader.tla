---------------------------- MODULE MCTouchReader ----------------------------
(* TouchReader as TLC checks it: twelve units, so that one, two, three and five *)
(* of them fall into the different bands of shouldCommitSwipe, and three pages. *)
EXTENDS TouchReader
==============================================================================
