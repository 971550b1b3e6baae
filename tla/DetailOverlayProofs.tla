------------------------- MODULE DetailOverlayProofs -------------------------
(***************************************************************************)
(* Proofs about the detail overlay, for any zones, requests and number of  *)
(* overlays: types; an overlay on the display is timed; one refresh        *)
(* goroutine is not told to stop; the picture and the clients follow.      *)
(***************************************************************************)
EXTENDS DetailOverlay, TLAPS

PcSteps == {"idle", "tap", "show", "start", "route", "clear"}

LEMMA GotoType ==
  ASSUME TypeOK, NEW p \in Procs, NEW step \in PcSteps, Goto(p, step)
  PROVE  pc' \in [Procs -> {"idle", "tap", "show", "start", "route", "clear"}]
BY DEF TypeOK, Goto, PcSteps

LEMMA ReturnType ==
  ASSUME TypeOK, NEW p \in Procs, Return(p)
  PROVE  /\ pc' \in [Procs -> {"idle", "tap", "show", "start", "route", "clear"}]
         /\ loc' \in [Procs -> Zones \cup {Nil}]
<1>1. pc' \in [Procs -> {"idle", "tap", "show", "start", "route", "clear"}]
  BY GotoType DEF Return, PcSteps
<1> QED BY <1>1 DEF Return, TypeOK

LEMMA BeginType ==
  ASSUME TypeOK, NEW p \in Procs, NEW z \in Zones, Begin(p, z)
  PROVE  /\ pc' \in [Procs -> {"idle", "tap", "show", "start", "route", "clear"}]
         /\ loc' \in [Procs -> Zones \cup {Nil}] /\ overlapped' \in BOOLEAN
<1>1. pc' \in [Procs -> {"idle", "tap", "show", "start", "route", "clear"}]
  BY GotoType DEF Begin, PcSteps
<1>2. loc' \in [Procs -> Zones \cup {Nil}]
  BY DEF Begin, TypeOK
<1>3. overlapped' \in BOOLEAN
  BY DEF Begin
<1> QED BY <1>1, <1>2, <1>3

LEMMA TellType ==
  ASSUME TypeOK, NEW what \in {"shown", "hidden"}, Tell(what)
  PROVE  note' \in {"none", "shown", "hidden"} /\ told' \in {"shown", "hidden", "unknown"}
BY DEF Tell, TypeOK

LEMMA DismissType ==
  ASSUME TypeOK, Dismiss
  PROVE  /\ active' \in BOOLEAN /\ zone' \in Zones \cup {Nil} /\ frame' = frame
         /\ stale' = stale /\ age' = age /\ timer' \in {"nil", "armed", "fired"}
         /\ refreshStop' \in {0} \cup Refreshers /\ refresh' \in [Refreshers -> Refresh]
         /\ note' \in {"none", "shown", "hidden"} /\ told' \in {"shown", "hidden", "unknown"}
<1>1. CASE Ignored
  BY <1>1 DEF Ignored, overlay, refreshing, clients, TypeOK
<1>2. CASE Dismissed
  <2>1. refresh' \in [Refreshers -> Refresh]
    BY <1>2 DEF Dismissed, TypeOK, Refresh
  <2>2. note' \in {"none", "shown", "hidden"} /\ told' \in {"shown", "hidden", "unknown"}
    BY <1>2, TellType DEF Dismissed
  <2> QED BY <1>2, <2>1, <2>2 DEF Dismissed, TypeOK
<1> QED BY <1>1, <1>2 DEF Dismiss

LEMMA WorkType ==
  ASSUME TypeOK, NEW p \in Procs, Work(p)
  PROVE  TypeOK'
<1>1. CASE OnTap(p)
  <2>1. /\ pc' \in [Procs -> {"idle", "tap", "show", "start", "route", "clear"}]
        /\ loc' \in [Procs -> Zones \cup {Nil}]
    BY <1>1, ReturnType, GotoType DEF OnTap, PcSteps, TypeOK
  <2>2. shows' \in 0..MaxShows
    BY <1>1, ConstantsAssumption DEF OnTap, TypeOK
  <2> QED BY <1>1, <2>1, <2>2 DEF OnTap, overlay, refreshing, clients, TypeOK
<1>2. CASE ShowDetail(p)
  <2>1. pc' \in [Procs -> {"idle", "tap", "show", "start", "route", "clear"}]
    BY <1>2, GotoType DEF ShowDetail, PcSteps
  <2>2. note' \in {"none", "shown", "hidden"} /\ told' \in {"shown", "hidden", "unknown"}
    BY <1>2, TellType DEF ShowDetail
  <2>3. loc[p] \in Zones \cup {Nil}
    BY DEF TypeOK
  <2> QED BY <1>2, <2>1, <2>2, <2>3 DEF ShowDetail, refreshing, TypeOK
<1>3. CASE StartDetailRefresh(p)
  <2>1. PICK i \in Refreshers :
          /\ Started(p, i)
          /\ refresh' = [j \in Refreshers |->
               IF j = i THEN [zone |-> loc[p], stop |-> FALSE, at |-> "select"]
               ELSE IF j = refreshStop THEN [refresh[j] EXCEPT !.stop = TRUE]
               ELSE refresh[j]]
    BY <1>3 DEF StartDetailRefresh
  <2>2. loc[p] \in Zones \cup {Nil}
    BY DEF TypeOK
  <2>3. refresh' \in [Refreshers -> Refresh]
    BY <2>1, <2>2 DEF TypeOK, Refresh
  <2>4. /\ pc' \in [Procs -> {"idle", "tap", "show", "start", "route", "clear"}]
        /\ loc' \in [Procs -> Zones \cup {Nil}]
    BY <2>1, ReturnType DEF Started
  <2> QED BY <2>1, <2>3, <2>4 DEF Started, overlay, clients, TypeOK
<1>4. CASE ClearDetail(p)
  <2>1. /\ pc' \in [Procs -> {"idle", "tap", "show", "start", "route", "clear"}]
        /\ loc' \in [Procs -> Zones \cup {Nil}]
    BY <1>4, ReturnType DEF ClearDetail
  <2> QED BY <1>4, <2>1, DismissType DEF ClearDetail, TypeOK
<1> QED BY <1>1, <1>2, <1>3, <1>4 DEF Work

LEMMA ProcsType == Touch \in Procs /\ Tapper \in Procs /\ Requests \subseteq Procs
BY DEF Procs, Openers

LEMMA FingerType ==
  ASSUME TypeOK,
         \/ HandleDetailTap \/ LongPress
         \/ \E z \in Zones : TouchTap(z)
         \/ \E r \in Requests, z \in Zones : DebugTap(r, z) \/ DebugTapZone(r, z)
  PROVE  TypeOK'
<1>1. CASE HandleDetailTap
  <2>1. /\ pc' \in [Procs -> {"idle", "tap", "show", "start", "route", "clear"}]
        /\ loc' \in [Procs -> Zones \cup {Nil}]
    BY <1>1, ProcsType, ReturnType DEF HandleDetailTap
  <2>2. CASE Dismiss
    BY <1>1, <2>1, <2>2, DismissType DEF HandleDetailTap, TypeOK
  <2>3. CASE UNCHANGED <<overlay, refreshing, clients>>
    BY <1>1, <2>1, <2>3 DEF HandleDetailTap, overlay, refreshing, clients, TypeOK
  <2> QED BY <1>1, <2>2, <2>3 DEF HandleDetailTap
<1>2. CASE LongPress \/ (\E z \in Zones : TouchTap(z))
           \/ \E r \in Requests, z \in Zones : DebugTap(r, z) \/ DebugTapZone(r, z)
  <2>1. UNCHANGED <<overlay, firing, refreshing, clients, shows>>
    BY <1>2 DEF LongPress, TouchTap, DebugTap, DebugTapZone
  <2>2. \/ \E p \in Procs : \/ \E step \in {"route", "clear"} :
                                 Goto(p, step) /\ UNCHANGED <<overlapped, loc>>
                            \/ \E z \in Zones : Begin(p, z)
    BY <1>2, ProcsType DEF LongPress, TouchTap, DebugTap, DebugTapZone
  <2>3. /\ pc' \in [Procs -> {"idle", "tap", "show", "start", "route", "clear"}]
        /\ loc' \in [Procs -> Zones \cup {Nil}] /\ overlapped' \in BOOLEAN
    BY <2>2, GotoType, BeginType DEF PcSteps, TypeOK
  <2> QED BY <2>1, <2>3 DEF overlay, refreshing, clients, TypeOK
<1> QED BY <1>1, <1>2

LEMMA RefresherType ==
  ASSUME TypeOK, NEW i \in Refreshers, RefreshStops(i) \/ RefreshTick(i) \/ UpdateDetailFrame(i)
  PROVE  TypeOK'
<1>1. PICK a \in {"select", "ontap", "gone"} : RefreshTo(i, a)
  BY DEF RefreshStops, RefreshTick, UpdateDetailFrame
<1>2. refresh' \in [Refreshers -> Refresh]
  <2>1. [zone |-> IF a = "gone" THEN Nil ELSE refresh[i].zone, stop |-> refresh[i].stop, at |-> a]
          \in Refresh
    BY DEF TypeOK, Refresh
  <2> QED BY <1>1, <2>1 DEF RefreshTo, TypeOK
<1>3. CASE RefreshStops(i) \/ RefreshTick(i)
  BY <1>2, <1>3 DEF RefreshStops, RefreshTick, overlay, clients, TypeOK
<1>4. CASE UpdateDetailFrame(i)
  <2>1. stale' \in BOOLEAN /\ frame' \in Zones \cup {Nil}
    BY <1>4 DEF UpdateDetailFrame, TypeOK, Refresh
  <2> QED BY <1>2, <1>4, <2>1 DEF UpdateDetailFrame, clients, TypeOK
<1> QED BY <1>3, <1>4

LEMMA ClockType ==
  ASSUME TypeOK, TimerFires \/ TimerClears \/ Age \/ OnDetailState
  PROVE  TypeOK'
<1>1. CASE TimerFires
  BY <1>1 DEF TimerFires, refreshing, clients, TypeOK
<1>2. CASE TimerClears
  <2>1. firing' \in Nat
    BY <1>2 DEF TimerClears, TypeOK
  <2> QED BY <1>2, <2>1, DismissType DEF TimerClears, TypeOK
<1>3. CASE Age
  BY <1>3 DEF Age, refreshing, clients, TypeOK
<1>4. CASE OnDetailState
  BY <1>4 DEF OnDetailState, overlay, refreshing, TypeOK
<1> QED BY <1>1, <1>2, <1>3, <1>4

LEMMA InitType == Init => TypeOK
<1> SUFFICES ASSUME Init PROVE TypeOK
  OBVIOUS
<1>1. refresh \in [Refreshers -> Refresh]
  BY DEF Init, NoRefresh, Refresh
<1>2. active \in BOOLEAN /\ stale \in BOOLEAN /\ overlapped \in BOOLEAN
  BY DEF Init
<1>3. shows \in 0..MaxShows
  BY ConstantsAssumption DEF Init
<1>4. pc \in [Procs -> PcSteps] /\ loc \in [Procs -> Zones \cup {Nil}]
  BY DEF Init, PcSteps
<1> QED BY <1>1, <1>2, <1>3, <1>4 DEF Init, TypeOK, PcSteps

LEMMA NextType == TypeOK /\ [Next]_vars => TypeOK'
<1> SUFFICES ASSUME TypeOK, [Next]_vars PROVE TypeOK'
  OBVIOUS
<1>1. CASE UNCHANGED vars
  BY <1>1 DEF vars, overlay, refreshing, clients, TypeOK
<1> QED BY <1>1, WorkType, FingerType, RefresherType, ClockType DEF Next

\* Overlay, timers and goroutines keep their types, for any number of zones and requests.
THEOREM TypeCorrect == Spec => []TypeOK
<1> QED BY InitType, NextType, PTL DEF Spec

-----------------------------------------------------------------------------
(* An overlay on the display is timed *)

\* The timer is only let go when the debounce is over: then a dismissal is not ignored.
Timed ==
  active => \/ timer = "armed"
            \/ timer = "fired" /\ age = "old" /\ firing > 0

LEMMA TimedAlike ==
  ASSUME Timed, UNCHANGED <<active, timer, age, firing>> \/ ~active' \/ timer' = "armed"
  PROVE  Timed'
<1>1. CASE UNCHANGED <<active, timer, age, firing>>
  BY <1>1 DEF Timed
<1>2. CASE ~active' \/ timer' = "armed"
  BY <1>2 DEF Timed
<1> QED BY <1>1, <1>2

LEMMA TimedStep == TypeOK /\ Timed /\ [Next]_vars => Timed'
<1> SUFFICES ASSUME TypeOK, Timed, [Next]_vars PROVE Timed'
  OBVIOUS
<1>1. CASE Dismiss /\ firing' = firing
  <2>1. UNCHANGED <<active, timer, age, firing>> \/ ~active'
    BY <1>1 DEF Dismiss, Ignored, Dismissed, overlay
  <2> QED BY <2>1, TimedAlike
<1>2. CASE TimerClears
  <2>1. CASE Dismissed
    BY <2>1, TimedAlike DEF Dismissed
  <2>2. CASE ~active /\ UNCHANGED overlay
    BY <2>2, TimedAlike DEF overlay
  <2>3. CASE active /\ age # "old" /\ UNCHANGED overlay
    <3>1. timer = "armed"
      BY <2>3 DEF Timed
    <3> QED BY <2>3, <3>1, TimedAlike DEF overlay
  <2> QED BY <1>2, <2>1, <2>2, <2>3 DEF TimerClears, Dismiss, Ignored
<1>3. CASE TimerFires
  <2>1. firing' > 0
    BY <1>3 DEF TimerFires, TypeOK
  <2> QED BY <1>3, <2>1 DEF TimerFires, Timed
<1>4. CASE Age
  <2>1. active => timer = "armed"
    BY <1>4 DEF Age, Timed
  <2>2. timer' = timer /\ active' = active
    BY <1>4 DEF Age
  <2> QED BY <2>1, <2>2 DEF Timed
<1>5. CASE \E p \in Procs : ShowDetail(p)
  BY <1>5, TimedAlike DEF ShowDetail
<1>6. CASE (\E p \in Procs : OnTap(p) \/ StartDetailRefresh(p)) \/ OnDetailState
  BY <1>6, TimedAlike DEF OnTap, StartDetailRefresh, Started, OnDetailState, overlay
<1>7. CASE \E i \in Refreshers : RefreshStops(i) \/ RefreshTick(i) \/ UpdateDetailFrame(i)
  BY <1>7, TimedAlike DEF RefreshStops, RefreshTick, UpdateDetailFrame, overlay
<1>8. CASE \/ LongPress \/ (\E z \in Zones : TouchTap(z))
           \/ \E r \in Requests, z \in Zones : DebugTap(r, z) \/ DebugTapZone(r, z)
  BY <1>8, TimedAlike DEF LongPress, TouchTap, DebugTap, DebugTapZone, overlay
<1>9. CASE UNCHANGED vars
  BY <1>9, TimedAlike DEF vars, overlay
<1>10. CASE HandleDetailTap
  <2>1. CASE UNCHANGED <<overlay, refreshing, clients>>
    BY <1>10, <2>1, TimedAlike DEF HandleDetailTap, overlay
  <2> QED BY <1>1, <1>10, <2>1 DEF HandleDetailTap
<1>11. CASE \E p \in Procs : ClearDetail(p)
  BY <1>1, <1>11 DEF ClearDetail
<1> QED BY <1>2, <1>3, <1>4, <1>5, <1>6, <1>7, <1>8, <1>9, <1>10, <1>11 DEF Next, Work

\* Whatever late timers fire in between, an overlay on the display has a timer that runs or
\* whose function will take detailMu, and is not ignored then.
THEOREM OverlayIsTimedAlways == Spec => []OverlayIsTimed
<1>1. Init => Timed
  BY DEF Init, Timed
<1>2. Timed => OverlayIsTimed
  BY DEF Timed, OverlayIsTimed
<1> QED BY <1>1, <1>2, InitType, NextType, TimedStep, PTL DEF Spec

-----------------------------------------------------------------------------
(* The clients are told *)

Told ==
  /\ told = "unknown" => note = "none"
  /\ told # "unknown" => (active <=> IF note = "none" THEN told = "shown" ELSE note = "shown")

LEMMA ToldTell ==
  ASSUME TypeOK, Told, NEW what \in {"shown", "hidden"}, Tell(what), active' <=> what = "shown"
  PROVE  Told'
BY DEF Tell, Told, TypeOK

LEMMA ToldDismiss ==
  ASSUME TypeOK, Told, Dismiss
  PROVE  Told'
<1>1. CASE Ignored
  BY <1>1 DEF Ignored, overlay, clients, Told
<1>2. CASE Dismissed
  BY <1>2, ToldTell DEF Dismissed
<1> QED BY <1>1, <1>2 DEF Dismiss

LEMMA ToldStep == TypeOK /\ Told /\ [Next]_vars => Told'
<1> SUFFICES ASSUME TypeOK, Told, [Next]_vars PROVE Told'
  OBVIOUS
<1>1. CASE UNCHANGED <<active, note, told>>
  BY <1>1 DEF Told
<1>2. CASE \E p \in Procs : ShowDetail(p)
  BY <1>2, ToldTell DEF ShowDetail
<1>3. CASE OnDetailState
  BY <1>3 DEF OnDetailState, overlay, Told, TypeOK
<1>4. CASE TimerClears \/ HandleDetailTap \/ \E p \in Procs : ClearDetail(p)
  BY <1>1, <1>4, ToldDismiss DEF TimerClears, HandleDetailTap, ClearDetail, overlay, clients
<1>5. CASE \/ TimerFires \/ Age \/ LongPress
           \/ \E p \in Procs : OnTap(p) \/ StartDetailRefresh(p)
           \/ \E z \in Zones : TouchTap(z)
  BY <1>1, <1>5 DEF TimerFires, Age, LongPress, OnTap, StartDetailRefresh, Started, TouchTap,
     overlay, clients
<1>6. CASE \/ \E r \in Requests, z \in Zones : DebugTap(r, z) \/ DebugTapZone(r, z)
           \/ UNCHANGED vars
  BY <1>1, <1>6 DEF DebugTap, DebugTapZone, vars, overlay, clients
<1>7. CASE \E i \in Refreshers : RefreshStops(i) \/ RefreshTick(i) \/ UpdateDetailFrame(i)
  BY <1>1, <1>7 DEF RefreshStops, RefreshTick, UpdateDetailFrame, overlay, clients
<1> QED BY <1>2, <1>3, <1>4, <1>5, <1>6, <1>7 DEF Next, Work

\* What the clients were told last is so, unless two calls of onDetailState crossed.
THEOREM ClientsToldAlways == Spec => []ClientsTold
<1>1. Init => Told
  BY DEF Init, Told
<1>2. Told /\ TypeOK => ClientsTold
  BY DEF Told, ClientsTold, TypeOK
<1> QED BY <1>1, <1>2, InitType, NextType, ToldStep, PTL DEF Spec

-----------------------------------------------------------------------------
(* One refresh goroutine *)

LEMMA StartsOne ==
  ASSUME TypeOK, NEW p \in Procs, StartDetailRefresh(p)
  PROVE  \E i \in Refreshers :
           /\ refreshStop' = i /\ Return(p) /\ UNCHANGED <<overlay, overlapped>>
           /\ refresh'[i] = [zone |-> loc[p], stop |-> FALSE, at |-> "select"]
           /\ \A j \in Refreshers : j # i =>
                refresh'[j] = IF j = refreshStop THEN [refresh[j] EXCEPT !.stop = TRUE] ELSE refresh[j]
BY DEF StartDetailRefresh, Started

LEMMA StopsOne ==
  ASSUME TypeOK, Dismissed
  PROVE  /\ refreshStop' = 0
         /\ \A j \in Refreshers :
              refresh'[j] = IF j = refreshStop THEN [refresh[j] EXCEPT !.stop = TRUE] ELSE refresh[j]
BY DEF Dismissed, TypeOK

\* A refresh goroutine moves on and keeps its channel and, until it ends, its zone.
LEMMA MovesOne ==
  ASSUME TypeOK, NEW i \in Refreshers, RefreshStops(i) \/ RefreshTick(i) \/ UpdateDetailFrame(i)
  PROVE  /\ refreshStop' = refreshStop
         /\ \A j \in Refreshers :
              /\ refresh'[j].stop = refresh[j].stop
              /\ refresh'[j].zone = refresh[j].zone \/ refresh'[j].at = "gone"
              /\ j # i => refresh'[j] = refresh[j]
         /\ refresh[i].at \in {"select", "ontap"}
<1>1. PICK a \in {"select", "ontap", "gone"} : RefreshTo(i, a)
  BY DEF RefreshStops, RefreshTick, UpdateDetailFrame
<1>2. \A j \in Refreshers :
        /\ refresh'[j].stop = refresh[j].stop
        /\ refresh'[j].zone = refresh[j].zone \/ refresh'[j].at = "gone"
        /\ j # i => refresh'[j] = refresh[j]
  BY <1>1 DEF RefreshTo, TypeOK, Refresh
<1> QED BY <1>2 DEF RefreshStops, RefreshTick, UpdateDetailFrame

LEMMA OneStep == TypeOK /\ OneRefresh /\ [Next]_vars => OneRefresh'
<1> SUFFICES ASSUME TypeOK, OneRefresh, [Next]_vars PROVE OneRefresh'
  OBVIOUS
<1>t. 0 \notin Refreshers /\ refresh \in [Refreshers -> Refresh]
      /\ refreshStop \in {0} \cup Refreshers
  BY DEF TypeOK, Refreshers
<1>1. CASE UNCHANGED refreshing
  BY <1>1 DEF refreshing, OneRefresh, Open
<1>2. CASE \E p \in Procs : StartDetailRefresh(p)
  <2>1. PICK p \in Procs : StartDetailRefresh(p)
    BY <1>2
  <2>2. PICK i \in Refreshers :
          /\ refreshStop' = i
          /\ refresh'[i] = [zone |-> loc[p], stop |-> FALSE, at |-> "select"]
          /\ \A j \in Refreshers : j # i =>
               refresh'[j] = IF j = refreshStop THEN [refresh[j] EXCEPT !.stop = TRUE] ELSE refresh[j]
    BY <2>1, StartsOne
  <2>3. \A j \in Refreshers : j # i => ~Open(j)'
    BY <1>t, <2>2 DEF OneRefresh, Open, Refresh
  <2>4. ~refresh'[i].stop
    BY <2>2
  <2> QED BY <2>2, <2>3, <2>4 DEF OneRefresh
<1>3. CASE Dismissed
  <2>1. \A j \in Refreshers : ~Open(j)'
    BY <1>t, <1>3, StopsOne DEF OneRefresh, Open, Refresh
  <2> QED BY <1>3, <2>1, StopsOne DEF OneRefresh
<1>4. CASE \E i \in Refreshers : RefreshStops(i) \/ RefreshTick(i) \/ UpdateDetailFrame(i)
  <2>1. PICK i \in Refreshers : RefreshStops(i) \/ RefreshTick(i) \/ UpdateDetailFrame(i)
    BY <1>4
  <2>2. \A j \in Refreshers : Open(j)' => Open(j)
    BY <2>1, MovesOne DEF Open
  <2>3. refreshStop' # 0 => ~refresh'[refreshStop'].stop
    BY <1>t, <2>1, MovesOne DEF OneRefresh
  <2> QED BY <2>1, <2>2, <2>3, MovesOne DEF OneRefresh
<1>5. CASE \E p \in Procs : OnTap(p) \/ ShowDetail(p) \/ ClearDetail(p)
  BY <1>1, <1>3, <1>5 DEF OnTap, ShowDetail, ClearDetail, Dismiss, Ignored
<1>6. CASE \/ LongPress \/ (\E z \in Zones : TouchTap(z)) \/ HandleDetailTap
           \/ \E r \in Requests, z \in Zones : DebugTap(r, z) \/ DebugTapZone(r, z)
  BY <1>1, <1>3, <1>6 DEF LongPress, TouchTap, HandleDetailTap, DebugTap, DebugTapZone,
     Dismiss, Ignored
<1>7. CASE TimerFires \/ TimerClears \/ Age \/ OnDetailState \/ UNCHANGED vars
  BY <1>1, <1>3, <1>7 DEF TimerFires, TimerClears, Age, OnDetailState, vars, Dismiss, Ignored
<1> QED BY <1>2, <1>4, <1>5, <1>6, <1>7 DEF Next, Work

\* However taps, requests and timers come together, no two refresh goroutines are open, and
\* no channel is closed twice.
THEOREM OneRefreshAlways == Spec => []OneRefresh
<1>1. Init => OneRefresh
  BY DEF Init, OneRefresh, Open, NoRefresh
<1> QED BY <1>1, InitType, NextType, OneStep, PTL DEF Spec

-----------------------------------------------------------------------------
(* The picture is that of the overlay's zone *)

Busy(p) == pc[p] \in {"tap", "show", "start"}

\* One tap is handled at a time, not by the touch goroutine, ...
OneTap == ~overlapped => \A p, q \in Openers : Busy(p) /\ Busy(q) => p = q
NotTouch == ~Busy(Touch)

\* ... so the goroutine it starts is for the zone on the overlay, ...
Starts == (~overlapped /\ active) => \A p \in Procs : pc[p] = "start" => loc[p] = zone

\* ... and so is the one that is not told to stop.
Own ==
  (active /\ ~overlapped /\ refreshStop # 0 /\ \A p \in Procs : pc[p] # "start") =>
     (refresh[refreshStop].at = "gone" \/ refresh[refreshStop].zone = zone)

FollowInv == OneTap /\ NotTouch /\ Starts /\ Own /\ FrameFollows

\* Nobody begins to handle a tap, and what the overlay shows stays.
LEMMA FollowAlike ==
  ASSUME FollowInv,
         UNCHANGED <<zone, frame, stale, overlapped, refresh, refreshStop>> \/ ~active',
         overlapped' = overlapped,
         active' => active,
         \A p \in Procs : Busy(p)' => Busy(p),
         \A p \in Procs : (pc'[p] = "start") <=> (pc[p] = "start"),
         \A p \in Procs : pc[p] = "start" => loc'[p] = loc[p]
  PROVE  FollowInv'
<1>1. OneTap' /\ NotTouch'
  BY DEF FollowInv, OneTap, NotTouch, Procs, Openers
<1>2. Starts' /\ Own' /\ FrameFollows'
  BY DEF FollowInv, Starts, Own, FrameFollows
<1> QED BY <1>1, <1>2 DEF FollowInv

LEMMA FollowReturns ==
  ASSUME TypeOK, FollowInv, NEW p \in Procs, pc[p] \in {"clear", "route"}, Return(p),
         overlapped' = overlapped,
         active' => active /\ UNCHANGED <<active, zone, frame, stale, refresh, refreshStop>>
  PROVE  FollowInv'
<1>1. \A q \in Procs : q # p => pc'[q] = pc[q] /\ loc'[q] = loc[q]
  BY DEF Return, Goto, TypeOK
<1>2. pc'[p] = "idle"
  BY DEF Return, Goto, TypeOK
<1> QED BY <1>1, <1>2, FollowAlike DEF Busy

LEMMA FollowBegins ==
  ASSUME TypeOK, FollowInv, NEW p \in Openers, NEW z \in Zones, pc[p] = "idle", Begin(p, z),
         UNCHANGED <<overlay, refreshing>>
  PROVE  FollowInv'
<1>1. /\ \A q \in Procs : q # p => pc'[q] = pc[q] /\ loc'[q] = loc[q]
      /\ pc'[p] = "tap" /\ p \in Procs
  BY DEF Begin, Goto, TypeOK, Procs
<1>2. overlapped' <=> (overlapped \/ \E q \in Openers : q # p /\ Busy(q))
  BY DEF Begin, Busy
<1>3. p # Touch
  BY ConstantsAssumption DEF Openers
<1>4. OneTap'
  BY <1>1, <1>2 DEF FollowInv, OneTap, Busy, Procs
<1>5. NotTouch'
  BY <1>1, <1>3, ProcsType DEF FollowInv, NotTouch, Busy
<1>6. ~overlapped' => ~overlapped
  BY <1>2
<1>7. UNCHANGED <<active, zone, frame, stale, refresh, refreshStop>>
  BY DEF overlay, refreshing
<1>8. Starts'
  BY <1>1, <1>6, <1>7 DEF FollowInv, Starts
<1>9. Own' /\ FrameFollows'
  BY <1>1, <1>6, <1>7 DEF FollowInv, Own, FrameFollows
<1> QED BY <1>4, <1>5, <1>8, <1>9 DEF FollowInv

LEMMA FollowShows ==
  ASSUME TypeOK, FollowInv, NEW p \in Procs, ShowDetail(p)
  PROVE  FollowInv'
<1>1. /\ \A q \in Procs : pc'[q] = IF q = p THEN "start" ELSE pc[q]
      /\ pc[p] = "show" /\ loc' = loc /\ overlapped' = overlapped
      /\ zone' = loc[p] /\ frame' = zone'
  BY DEF ShowDetail, Goto, TypeOK
<1>2. p \in Openers
  BY <1>1 DEF FollowInv, NotTouch, Busy, Procs
<1>3. OneTap' /\ NotTouch'
  BY <1>1 DEF FollowInv, OneTap, NotTouch, Busy, Procs
<1>4. ~overlapped => \A q \in Procs : pc'[q] = "start" => q = p
  BY <1>1, <1>2 DEF FollowInv, OneTap, NotTouch, Busy, Procs
<1>5. Starts' /\ Own' /\ FrameFollows'
  BY <1>1, <1>4 DEF Starts, Own, FrameFollows
<1> QED BY <1>3, <1>5 DEF FollowInv

LEMMA FollowStarts ==
  ASSUME TypeOK, FollowInv, NEW p \in Procs, StartDetailRefresh(p)
  PROVE  FollowInv'
<1>1. PICK i \in Refreshers :
        /\ refreshStop' = i /\ Return(p) /\ UNCHANGED <<overlay, overlapped>>
        /\ refresh'[i] = [zone |-> loc[p], stop |-> FALSE, at |-> "select"]
  BY StartsOne
<1>2. /\ \A q \in Procs : q # p => pc'[q] = pc[q] /\ loc'[q] = loc[q]
      /\ pc[p] = "start" /\ pc'[p] = "idle" /\ overlapped' = overlapped
      /\ UNCHANGED <<active, zone, frame, stale>>
  BY <1>1 DEF StartDetailRefresh, Return, Goto, TypeOK, overlay
<1>3. OneTap' /\ NotTouch'
  BY <1>2 DEF FollowInv, OneTap, NotTouch, Busy, Procs
<1>4. Starts'
  BY <1>2 DEF FollowInv, Starts
<1>5. Own'
  BY <1>1, <1>2 DEF FollowInv, Own, Starts
<1>6. FrameFollows'
  BY <1>2 DEF FollowInv, FrameFollows
<1> QED BY <1>3, <1>4, <1>5, <1>6 DEF FollowInv

LEMMA FollowRefreshes ==
  ASSUME TypeOK, OneRefresh, FollowInv, NEW i \in Refreshers,
         RefreshStops(i) \/ RefreshTick(i) \/ UpdateDetailFrame(i)
  PROVE  FollowInv'
<1>1. UNCHANGED <<active, zone, overlapped, pc, loc, refreshStop>>
  BY DEF RefreshStops, RefreshTick, UpdateDetailFrame, overlay
<1>2. OneTap' /\ NotTouch' /\ Starts'
  BY <1>1 DEF FollowInv, OneTap, NotTouch, Starts, Busy
<1>3. refreshStop \in {0} \cup Refreshers
  BY DEF TypeOK
<1>4. Own'
  <2>1. SUFFICES ASSUME active, ~overlapped, refreshStop # 0, \A p \in Procs : pc[p] # "start"
                 PROVE  refresh'[refreshStop].at = "gone" \/ refresh'[refreshStop].zone = zone
    BY <1>1 DEF Own
  <2>2. refresh[refreshStop].at = "gone" \/ refresh[refreshStop].zone = zone
    BY <2>1 DEF FollowInv, Own
  <2>3. CASE refreshStop = i
    BY <1>3, <2>1, <2>2, <2>3, MovesOne
  <2>4. CASE refreshStop # i
    BY <1>3, <2>1, <2>2, <2>4, MovesOne
  <2> QED BY <2>3, <2>4
<1>5. CASE UNCHANGED <<frame, stale>>
  BY <1>1, <1>2, <1>4, <1>5 DEF FollowInv, FrameFollows
<1>6. CASE UpdateDetailFrame(i) /\ frame' = refresh[i].zone
           /\ stale' = (refresh[i].stop \/ \E p \in Procs : pc[p] = "start")
  <2>1. SUFFICES ASSUME active, ~stale', ~overlapped PROVE refresh[i].zone = zone
    BY <1>1, <1>2, <1>4, <1>6 DEF FollowInv, FrameFollows
  <2>2. ~refresh[i].stop /\ \A p \in Procs : pc[p] # "start"
    BY <1>6, <2>1
  <2>3. refresh[i].at = "ontap"
    BY <1>6 DEF UpdateDetailFrame
  <2>4. i = refreshStop /\ i # 0
    BY <2>2, <2>3 DEF OneRefresh, Open, Refreshers
  <2> QED BY <2>1, <2>2, <2>3, <2>4 DEF FollowInv, Own
<1> QED BY <1>5, <1>6 DEF RefreshStops, RefreshTick, UpdateDetailFrame, overlay

LEMMA FollowStep == TypeOK /\ OneRefresh /\ FollowInv /\ [Next]_vars => FollowInv'
<1> SUFFICES ASSUME TypeOK, OneRefresh, FollowInv, [Next]_vars PROVE FollowInv'
  OBVIOUS
<1>1. CASE \E p \in Procs : OnTap(p)
  <2>1. PICK p \in Procs : OnTap(p)
    BY <1>1
  <2>2. /\ \A q \in Procs : q # p => pc'[q] = pc[q] /\ loc'[q] = loc[q]
        /\ pc[p] = "tap" /\ pc'[p] \in {"idle", "show"}
        /\ UNCHANGED <<active, zone, frame, stale, refresh, refreshStop, overlapped>>
    BY <2>1 DEF OnTap, Return, Goto, TypeOK, overlay, refreshing
  <2> QED BY <2>2, FollowAlike DEF Busy
<1>2. CASE \E p \in Procs : ClearDetail(p)
  BY <1>2, FollowReturns DEF ClearDetail, Dismiss, Ignored, Dismissed, overlay, refreshing
<1>3. CASE HandleDetailTap
  BY <1>3, FollowReturns, ProcsType
     DEF HandleDetailTap, Dismiss, Ignored, Dismissed, overlay, refreshing
<1>4. CASE TimerClears
  BY <1>4, FollowAlike
     DEF TimerClears, Dismiss, Ignored, Dismissed, overlay, refreshing, Busy
<1>5. CASE LongPress \/ (\E z \in Zones : TouchTap(z))
           \/ \E r \in Requests, z \in Zones : DebugTap(r, z) \/ DebugTapZone(r, z)
  <2>1. UNCHANGED <<overlay, refreshing>>
    BY <1>5 DEF LongPress, TouchTap, DebugTap, DebugTapZone
  <2>2. \/ \E p \in Openers, z \in Zones : pc[p] = "idle" /\ Begin(p, z)
        \/ \E p \in Procs, step \in {"route", "clear"} :
             pc[p] = "idle" /\ Goto(p, step) /\ UNCHANGED <<overlapped, loc>>
    BY <1>5, ProcsType DEF LongPress, TouchTap, DebugTap, DebugTapZone, Openers
  <2>3. CASE \E p \in Openers, z \in Zones : pc[p] = "idle" /\ Begin(p, z)
    BY <2>1, <2>3, FollowBegins
  <2>4. ASSUME NEW p \in Procs, NEW step \in {"route", "clear"},
               pc[p] = "idle", Goto(p, step), UNCHANGED <<overlapped, loc>>
        PROVE  FollowInv'
    <3>1. \A q \in Procs : pc'[q] = IF q = p THEN step ELSE pc[q]
      BY <2>4 DEF Goto, TypeOK
    <3>2. UNCHANGED <<active, zone, frame, stale, overlapped, refresh, refreshStop>>
      BY <2>1, <2>4 DEF overlay, refreshing
    <3> QED BY <2>4, <3>1, <3>2, FollowAlike DEF Busy
  <2> QED BY <2>2, <2>3, <2>4
<1>6. CASE TimerFires \/ Age \/ OnDetailState \/ UNCHANGED vars
  <2>1. UNCHANGED <<active, zone, frame, stale, overlapped, refresh, refreshStop, pc, loc>>
    BY <1>6 DEF TimerFires, Age, OnDetailState, vars, overlay, refreshing
  <2> QED BY <2>1, FollowAlike DEF Busy
<1> QED BY <1>1, <1>2, <1>3, <1>4, <1>5, <1>6, FollowShows, FollowStarts, FollowRefreshes
        DEF Next, Work

\* With one tap handled at a time the picture on the overlay is that of its zone, unless a
\* goroutine that is not the overlay's own has drawn it last.
THEOREM FrameFollowsAlways == Spec => []FrameFollows
<1>1. Init => FollowInv
  BY DEF Init, FollowInv, OneTap, NotTouch, Starts, Own, FrameFollows, Busy, Procs, Openers
<1>2. Init => OneRefresh
  BY DEF Init, OneRefresh, Open, NoRefresh
<1>3. FollowInv => FrameFollows
  BY DEF FollowInv
<1> QED BY <1>1, <1>2, <1>3, InitType, NextType, OneStep, FollowStep, PTL DEF Spec
=============================================================================
