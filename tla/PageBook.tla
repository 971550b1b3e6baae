------------------------------ MODULE PageBook ------------------------------
(***************************************************************************)
(* What the swipe promises: a book of pages on which one gesture turns one *)
(* page, forward or back, and never goes round the end.  A page that was   *)
(* let go of half turned is adrift: it may come down on the other end.     *)
(***************************************************************************)
EXTENDS Naturals

CONSTANT MaxPages
VARIABLES
  pages, page,
  adrift    \* The page in hand has been let go of.  Not the book's to say.

Init == pages \in 1..MaxPages /\ page = 0

TurnForward == page + 1 < pages /\ page' = page + 1 /\ UNCHANGED pages
TurnBack    == page > 0 /\ page' = page - 1 /\ UNCHANGED pages

GoRound ==
  /\ adrift
  /\ \/ page = 0 /\ page' = pages - 1
     \/ page = pages - 1 /\ page' = 0
  /\ UNCHANGED pages

Next == TurnForward \/ TurnBack \/ GoRound

Spec == Init /\ [][Next]_<<pages, page>>
=============================================================================
