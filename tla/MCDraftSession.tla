---------------------------- MODULE MCDraftSession ----------------------------
(* DraftSession as TLC checks it: layouts of up to four pages, two of them     *)
(* full, one empty and one broken.                                             *)
EXTENDS DraftSession
===============================================================================
