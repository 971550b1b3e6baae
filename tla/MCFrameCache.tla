---------------------------- MODULE MCFrameCache ----------------------------
(* FrameCache as TLC checks it: two pages, one payload per zone, one layout    *)
(* edit, one goroutine of each kind.  All of them at once are out of reach:    *)
(* beside the render loop those of one cast take part in a behaviour.          *)
EXTENDS FrameCache

CONSTANTS
  Casts,     (* Sets of goroutines that take part together. *)
  Ageing     (* The cast whose payloads expire.             *)

VARIABLE cast

MCInit == Init /\ cast \in Casts

\* The others stay where they are, and without Ageing no payload expires.
MCNext ==
  /\ Next
  /\ \A p \in Procs \ ({Loop} \cup cast) : pc'[p] = "idle"
  /\ cast = Ageing \/ \A p \in Pages : ~expired'[p]
  /\ UNCHANGED cast

MCSpec == MCInit /\ [][MCNext]_<<vars, cast>>
=============================================================================
