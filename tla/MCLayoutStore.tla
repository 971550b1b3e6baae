---------------------------- MODULE MCLayoutStore ----------------------------
(* LayoutStore as TLC checks it: two pages, two zones, and a display of three   *)
(* pixels, of which a page of two zones gives one more to one of them.  Two     *)
(* layout requests run together, one with a tap or a configuration request, and *)
(* two taps with a configuration request; which of two makes no difference.     *)
EXTENDS LayoutStore, TLC

(* Requests ask for one width, that of the display, and for the plugin and the  *)
(* configuration of the bundled layout, which taps and configuration requests   *)
(* change: a PUT beside those writes the old ones back.                         *)
MCAsked == {[width |-> DisplayWidthPx, plugin |-> Default, config |-> Empty]}

Alike == Permutations(Editors) \cup Permutations(Taps)
==============================================================================
