---------------------------- MODULE DetailOverlay ----------------------------
(***************************************************************************)
(* The detail overlay of zone.Manager (internal/zone/manager_detail.go):   *)
(* a tap on a zone asks its plugin for a picture, slides it over the page  *)
(* and has it drawn anew every second, until a tap, a long press, a debug  *)
(* request or a timeout of 10 s dismisses it.                              *)
(*                                                                         *)
(* Each critical section of detailMu is a step; a plugin may answer as     *)
(* late as it likes.  A picture is the zone it was drawn for.              *)
(***************************************************************************)
EXTENDS Naturals

CONSTANTS
  Zones,     (* Zones whose plugin is a Tapper.                               *)
  Nil,       (* No zone.                                                      *)
  Touch,     (* The touch goroutine.                                          *)
  Tapper,    (* The goroutine the touch handler leaves HandleZoneTap to.      *)
  Requests,  (* HTTP requests to /api/debug/tap and /api/debug/tap-zone.      *)
  MaxShows   (* Overlays shown.  Bounds the model.                            *)

ASSUME ConstantsAssumption ==
  /\ Nil \notin Zones /\ MaxShows \in Nat
  /\ Touch # Tapper /\ Touch \notin Requests /\ Tapper \notin Requests

Openers == {Tapper} \cup Requests   \* the goroutines that may run HandleZoneTap
Procs   == {Touch} \cup Openers
Refreshers == 1..MaxShows           \* the refresh goroutines, as they are started

VARIABLES
  active, zone, frame,   \* detailActive, detailZoneID; whose picture detailFrame is
  stale,        \* detailFrame was drawn by a goroutine that is not the overlay's own
  age,          \* of the overlay: sliding up, within detailDebounce, or older
  timer,        \* detailTimer: nil, armed, or fired (its function was started)
  firing,       \* functions of fired timers that have not taken detailMu yet
  refreshStop,  \* the goroutine whose channel is in detailRefreshStop, 0: nil
  refresh,      \* the refresh goroutines
  note,         \* the call of onDetailState under way
  told,         \* what onDetailState was told last
  shows,        \* overlays asked for
  overlapped,   \* two HandleZoneTap have been under way at once
  pc, loc       \* the position and the zone of each goroutine

overlay == <<active, zone, frame, stale, age, timer>>
refreshing == <<refreshStop, refresh>>
clients == <<note, told>>
vars == <<overlay, firing, refreshing, clients, shows, overlapped, pc, loc>>

NoRefresh == [zone |-> Nil, stop |-> FALSE, at |-> "none"]
Refresh == [zone : Zones \cup {Nil}, stop : BOOLEAN,
            at : {"none", "select", "ontap", "gone"}]

TypeOK ==
  /\ active \in BOOLEAN /\ stale \in BOOLEAN
  /\ zone \in Zones \cup {Nil} /\ frame \in Zones \cup {Nil}
  /\ age \in {"rising", "fresh", "old"}
  /\ timer \in {"nil", "armed", "fired"} /\ firing \in Nat
  /\ refreshStop \in {0} \cup Refreshers
  /\ refresh \in [Refreshers -> Refresh]
  /\ note \in {"none", "shown", "hidden"}
  /\ told \in {"shown", "hidden", "unknown"}
  /\ shows \in 0..MaxShows /\ overlapped \in BOOLEAN
  /\ pc \in [Procs -> {"idle", "tap", "show", "start", "route", "clear"}]
  /\ loc \in [Procs -> Zones \cup {Nil}]

Init ==
  /\ active = FALSE /\ zone = Nil /\ frame = Nil /\ stale = FALSE
  /\ age = "old" /\ timer = "nil" /\ firing = 0
  /\ refreshStop = 0 /\ refresh = [i \in Refreshers |-> NoRefresh]
  /\ note = "none" /\ told = "hidden"
  /\ shows = 0 /\ overlapped = FALSE
  /\ pc = [p \in Procs |-> "idle"] /\ loc = [p \in Procs |-> Nil]

-----------------------------------------------------------------------------
Goto(p, step) == pc' = [pc EXCEPT ![p] = step]
Return(p) == Goto(p, "idle") /\ loc' = [loc EXCEPT ![p] = Nil]

\* go m.onDetailState(...): a goroutine of its own.  Which of two comes last nobody can
\* say, and no call is followed after that.
Tell(what) ==
  IF note = "none" /\ told # "unknown" THEN note' = what /\ UNCHANGED told
  ELSE note' = "none" /\ told' = "unknown"

\* HandleZoneTap begins on p.
Begin(p, z) ==
  /\ Goto(p, "tap") /\ loc' = [loc EXCEPT ![p] = z]
  /\ overlapped' = (overlapped \/ \E q \in Openers : q # p /\ pc[q] \in {"tap", "show", "start"})

\* IsShowingDetail: taps are for the overlay from the slide up to the dismissal.
Showing == active \/ age = "rising"

-----------------------------------------------------------------------------
(* HandleZoneTap, on the goroutine of a tap or of a request *)

\* The plugin is asked, once the ripple has been visible.  It may not be loaded, not
\* be a Tapper, not be expandable now, or fail: nothing is shown then.
OnTap(p) ==
  /\ pc[p] = "tap"
  /\ \/ Return(p) /\ UNCHANGED shows
     \/ Goto(p, "show") /\ shows < MaxShows /\ shows' = shows + 1 /\ UNCHANGED loc
  /\ UNCHANGED <<overlay, firing, refreshing, clients, overlapped>>

\* Mutant: a timer is started only if there is none.
MutShowDetail(p) ==
  /\ pc[p] = "show"
  /\ active' = TRUE /\ zone' = loc[p] /\ frame' = loc[p] /\ stale' = FALSE
  /\ age' = "rising" /\ timer' = IF timer = "nil" THEN "armed" ELSE timer
  /\ Tell("shown") /\ Goto(p, "start")
  /\ UNCHANGED <<firing, refreshing, shows, overlapped, loc>>

\* A timer that has fired cannot be stopped any more, only replaced.
ShowDetail(p) ==
  /\ pc[p] = "show"
  /\ active' = TRUE /\ zone' = loc[p] /\ frame' = loc[p] /\ stale' = FALSE
  /\ age' = "rising" /\ timer' = "armed"
  /\ Tell("shown") /\ Goto(p, "start")
  /\ UNCHANGED <<firing, refreshing, shows, overlapped, loc>>

Started(p, i) ==
  /\ refresh[i] = NoRefresh /\ \A j \in 1..(i - 1) : refresh[j] # NoRefresh
  /\ refreshStop' = i
  /\ Return(p)
  /\ UNCHANGED <<overlay, firing, clients, shows, overlapped>>

\* Mutant: the goroutine before is not told to stop.
MutStartDetailRefresh(p) ==
  /\ pc[p] = "start"
  /\ \E i \in Refreshers :
       /\ Started(p, i)
       /\ refresh' = [refresh EXCEPT ![i] = [zone |-> loc[p], stop |-> FALSE, at |-> "select"]]

StartDetailRefresh(p) ==
  /\ pc[p] = "start"
  /\ \E i \in Refreshers :
       /\ Started(p, i)
       /\ refresh' = [j \in Refreshers |->
            IF j = i THEN [zone |-> loc[p], stop |-> FALSE, at |-> "select"]
            ELSE IF j = refreshStop THEN [refresh[j] EXCEPT !.stop = TRUE]
            ELSE refresh[j]]

-----------------------------------------------------------------------------
(* The refresh goroutines *)

RefreshTo(i, at) ==
  refresh' = [refresh EXCEPT ![i] =
                [zone |-> IF at = "gone" THEN Nil ELSE @.zone, stop |-> @.stop, at |-> at]]

\* select, on a closed channel ...
RefreshStops(i) ==
  /\ refresh[i].at = "select" /\ refresh[i].stop
  /\ RefreshTo(i, "gone")
  /\ UNCHANGED <<overlay, firing, refreshStop, clients, shows, overlapped, pc, loc>>

\* Mutant: the goroutine does not ask whether an overlay is on.
MutRefreshTick(i) ==
  /\ refresh[i].at = "select"
  /\ RefreshTo(i, "ontap")
  /\ UNCHANGED <<overlay, firing, refreshStop, clients, shows, overlapped, pc, loc>>

\* ... or on the ticker: it ends if no overlay is on, of whatever zone.
RefreshTick(i) ==
  /\ refresh[i].at = "select"
  /\ RefreshTo(i, IF active THEN "ontap" ELSE "gone")
  /\ UNCHANGED <<overlay, firing, refreshStop, clients, shows, overlapped, pc, loc>>

\* The plugin fails, or answers and updateDetailFrame draws if an overlay is on.
UpdateDetailFrame(i) ==
  /\ refresh[i].at = "ontap"
  /\ RefreshTo(i, "select")
  /\ \/ UNCHANGED <<frame, stale>>
     \/ /\ active
        /\ frame' = refresh[i].zone
        /\ stale' = (refresh[i].stop \/ \E p \in Procs : pc[p] = "start")
  /\ UNCHANGED <<active, zone, age, timer, firing, refreshStop, clients, shows,
                 overlapped, pc, loc>>

-----------------------------------------------------------------------------
(* ClearDetail *)

\* Its critical section does nothing without an overlay, or within detailDebounce of
\* showing it.
Ignored ==
  /\ ~active \/ age # "old"
  /\ UNCHANGED <<overlay, refreshing, clients>>

\* Mutant: the closed channel stays in detailRefreshStop.
MutDismissed ==
  /\ active /\ age = "old"
  /\ active' = FALSE /\ zone' = Nil /\ timer' = "nil"
  /\ refresh' = [i \in Refreshers |->
       IF i = refreshStop THEN [refresh[i] EXCEPT !.stop = TRUE] ELSE refresh[i]]
  /\ Tell("hidden")
  /\ UNCHANGED <<frame, stale, age, refreshStop>>

Dismissed ==
  /\ active /\ age = "old"
  /\ active' = FALSE /\ zone' = Nil /\ timer' = "nil"
  /\ refresh' = [i \in Refreshers |->
       IF i = refreshStop THEN [refresh[i] EXCEPT !.stop = TRUE] ELSE refresh[i]]
  /\ refreshStop' = 0
  /\ Tell("hidden")
  /\ UNCHANGED <<frame, stale, age>>

Dismiss == Ignored \/ Dismissed

ClearDetail(p) ==
  /\ pc[p] = "clear"
  /\ Dismiss
  /\ Return(p)
  /\ UNCHANGED <<firing, shows, overlapped>>

\* Mutant: the timeout is not longer than the debounce.
MutTimerFires ==
  /\ timer = "armed" /\ age = "fresh"
  /\ timer' = "fired" /\ firing' = firing + 1
  /\ UNCHANGED <<active, zone, frame, stale, age, refreshing, clients, shows, overlapped,
                 pc, loc>>

\* detailTimeout is longer than detailDebounce.
TimerFires ==
  /\ timer = "armed" /\ age = "old"
  /\ timer' = "fired" /\ firing' = firing + 1
  /\ UNCHANGED <<active, zone, frame, stale, age, refreshing, clients, shows, overlapped,
                 pc, loc>>

\* Mutant: the clients are not told of an overlay that timed out.
MutTimerClears ==
  /\ firing > 0 /\ firing' = firing - 1
  /\ \/ Ignored
     \/ /\ active /\ age = "old"
        /\ active' = FALSE /\ zone' = Nil /\ timer' = "nil" /\ refreshStop' = 0
        /\ UNCHANGED <<frame, stale, age, refresh, clients>>
  /\ UNCHANGED <<shows, overlapped, pc, loc>>

TimerClears ==
  /\ firing > 0 /\ firing' = firing - 1
  /\ Dismiss
  /\ UNCHANGED <<shows, overlapped, pc, loc>>

-----------------------------------------------------------------------------
(* What a finger or a debug request asks for *)

\* A tap with an overlay on is for the overlay.  Otherwise it is for the zone below the
\* finger, and dropped while an earlier one is under way (detailInFlight).
TouchTap(z) ==
  /\ pc[Touch] = "idle"
  /\ \/ Showing /\ Goto(Touch, "route") /\ UNCHANGED <<overlapped, loc>>
     \/ ~Showing /\ pc[Tapper] = "idle" /\ Begin(Tapper, z)
  /\ UNCHANGED <<overlay, firing, refreshing, clients, shows>>

\* HandleDetailTap: a plugin that takes taps may answer that the overlay is to stay.
HandleDetailTap ==
  /\ pc[Touch] = "route"
  /\ Dismiss \/ UNCHANGED <<overlay, refreshing, clients>>
  /\ Return(Touch)
  /\ UNCHANGED <<firing, shows, overlapped>>

LongPress ==
  /\ pc[Touch] = "idle" /\ Showing /\ Goto(Touch, "clear")
  /\ UNCHANGED <<overlay, firing, refreshing, clients, shows, overlapped, loc>>

DebugTap(r, z) ==
  /\ pc[r] = "idle"
  /\ \/ Showing /\ Goto(r, "clear") /\ UNCHANGED <<overlapped, loc>>
     \/ ~Showing /\ Begin(r, z)
  /\ UNCHANGED <<overlay, firing, refreshing, clients, shows>>

\* handleDebugTapZone does not ask whether an overlay is on.
DebugTapZone(r, z) ==
  /\ pc[r] = "idle" /\ Begin(r, z)
  /\ UNCHANGED <<overlay, firing, refreshing, clients, shows>>

-----------------------------------------------------------------------------
(* Time, and the callback *)

\* Sliding up takes 200 ms, the debounce 600 ms.  (The slide down of a dismissed overlay
\* lets taps through and is not told apart from its end.)
Age ==
  /\ age # "old"
  /\ age' = IF age = "rising" THEN "fresh" ELSE "old"
  /\ UNCHANGED <<active, zone, frame, stale, timer, firing, refreshing, clients, shows,
                 overlapped, pc, loc>>

\* BroadcastDetailState tells the WebSocket clients.
OnDetailState ==
  /\ note # "none"
  /\ note' = "none" /\ told' = note
  /\ UNCHANGED <<overlay, firing, refreshing, shows, overlapped, pc, loc>>

-----------------------------------------------------------------------------
Work(p) == OnTap(p) \/ ShowDetail(p) \/ StartDetailRefresh(p) \/ ClearDetail(p)

Next ==
  \/ \E p \in Procs : Work(p)
  \/ HandleDetailTap \/ LongPress
  \/ \E z \in Zones : TouchTap(z)
  \/ \E r \in Requests, z \in Zones : DebugTap(r, z) \/ DebugTapZone(r, z)
  \/ \E i \in Refreshers : RefreshStops(i) \/ RefreshTick(i) \/ UpdateDetailFrame(i)
  \/ TimerFires \/ TimerClears \/ Age \/ OnDetailState

Spec == Init /\ [][Next]_vars

\* Clocks run, goroutines that hold a mutex go on, plugins answer (their calls have a
\* deadline), and a select takes a closed channel it is offered again and again (Go
\* picks at random).  Nothing is assumed of fingers and requests.
Fairness ==
  /\ \A p \in Openers : WF_vars(Work(p))
  /\ WF_vars(TimerFires) /\ WF_vars(TimerClears) /\ WF_vars(Age)
  /\ \A i \in Refreshers :
       SF_vars(RefreshStops(i)) /\ WF_vars(RefreshTick(i)) /\ WF_vars(UpdateDetailFrame(i))

FairSpec == Spec /\ Fairness

-----------------------------------------------------------------------------
(* Properties *)

Open(i) == refresh[i].at \in {"select", "ontap"} /\ ~refresh[i].stop

\* An overlay that is shown will be dismissed by a timer that runs, or by one that
\* has fired and whose function has yet to take detailMu, although the functions of
\* earlier timers, which nothing can stop, come in between and are debounced.
OverlayIsTimed == active => timer = "armed" \/ (timer = "fired" /\ firing > 0)

\* "A previous refresh goroutine (if any) is cancelled first": at most one refresh
\* goroutine has not been told to stop, and the channel in detailRefreshStop was not
\* closed before (closing it again would end the program).
OneRefresh ==
  /\ \A i \in Refreshers : Open(i) => i = refreshStop
  /\ refreshStop # 0 => ~refresh[refreshStop].stop

\* The picture on the overlay is that of its zone, except that a goroutine which is not
\* the overlay's own may have drawn it last: one told to stop while it asked its plugin,
\* or one that draws before the overlay's own is started.  (With two taps handled at
\* once the wrong goroutine may be the one that stays.)
FrameFollows == (active /\ ~stale /\ ~overlapped) => frame = zone

\* What the clients were told last is so, once the calls of onDetailState have been
\* made, unless two were under way at once: the older may be the last then.
ClientsTold == (note = "none" /\ told # "unknown") => (told = "shown") = active

\* Every overlay is dismissed (after MaxShows at most none is shown in its place).
OverlayEnds == active ~> ~active

\* No refresh goroutine is left behind.
RefreshEnds ==
  (\E i \in Refreshers : refresh[i].at \in {"select", "ontap"})
    ~> (\A i \in Refreshers : refresh[i].at \in {"none", "gone"})
=============================================================================
