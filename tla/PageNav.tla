------------------------------ MODULE PageNav ------------------------------
(***************************************************************************)
(* Page navigation of zone.Manager (internal/zone/manager*.go and          *)
(* transition.go) and of the touch goroutine that drives it: the           *)
(* finger-driven ("live") swipe, the page switches asked for over HTTP,    *)
(* the layout reloads of the editor and the page transition, run by        *)
(* different goroutines on one Manager whose currentPage no mutex guards.  *)
(*                                                                         *)
(* This module keeps the control of these operations.  The pictures they   *)
(* draw, cache and slide (lastFrame, frameBufs, pageCache, the frames of   *)
(* the transition) are the matter of FrameCache.                           *)
(***************************************************************************)
EXTENDS Naturals

CONSTANTS
  MaxPages,     (* A layout has 1..MaxPages pages.  Bounds the model.         *)
  Navs,         (* Goroutines serving POST /navigate: SwitchPage.             *)
  Editors,      (* Goroutines serving layout edits: ReloadFromConfig.         *)
  Touch,        (* The one goroutine of touch.Handler.processLoop.            *)
  Nobody,       (* No goroutine: the owner of a free mutex.                   *)
  MayReverse    (* Whether a finger may turn back past its starting point.    *)

Procs == {Touch} \cup Navs \cup Editors

ASSUME ConstantsAssumption ==
  /\ MaxPages \in Nat \ {0}
  /\ Touch \notin Navs \cup Editors
  /\ Navs \cap Editors = {}
  /\ Nobody \notin Procs
  /\ MayReverse \in BOOLEAN

(***************************************************************************)
(* Drag progress, on the scale the code tells apart: exactly 0, above 0,   *)
(* from DistanceAutoCommit (0.40) on, and exactly 1 (the whole display),   *)
(* which a drag never reaches because a finger moves 639 of 640 pixels.    *)
(***************************************************************************)
Far  == 2
Full == 3
Levels == 0..Full
Drags  == 0..(Full - 1)

Pages == 0..(MaxPages - 1)

VARIABLES
  numPages,     \* len(m.config.Pages)
  currentPage,  \* m.currentPage, guarded by no mutex
  zonesPage,    \* the page m.zones and m.compositor were built for
  drawn,        \* m.lastFrame is not nil
  live,         \* the liveSwipe* fields
  cooldown,     \* lastSwipeFinalize is less than 250 ms old
  transition,   \* m.transition
  finger,       \* the gesture in progress, as touch.HIDTouchReader sees it
  liveSwipeMu,  \* the goroutine that holds liveSwipeMu across a step
  pc, loc,      \* the position and the locals of each goroutine
  overlapped    \* history: two page changes have been under way at once

vars == <<numPages, currentPage, zonesPage, drawn, live, cooldown, transition,
          finger, liveSwipeMu, pc, loc, overlapped>>

page == <<numPages, currentPage, zonesPage, drawn>>

\* The fields of an inactive live swipe or transition are never read before they
\* are set again: the model resets them when it ends.
\* orphan (history): the finger that began the swipe went without being lifted.
Live == [active : BOOLEAN, left : BOOLEAN, boundary : BOOLEAN, orphan : BOOLEAN]
NoSwipe == [active |-> FALSE, left |-> FALSE, boundary |-> FALSE, orphan |-> FALSE]

Transition == [active : BOOLEAN, manual : BOOLEAN, spring : BOOLEAN,
               goal : {0, Full}, progress : Levels]
NoTransition == [active |-> FALSE, manual |-> FALSE, spring |-> FALSE,
                 goal |-> 0, progress |-> 0]

Finger == [down : BOOLEAN, left : BOOLEAN, progress : Drags]
NoFinger == [down |-> FALSE, left |-> FALSE, progress |-> 0]

\* target: the page asked for; prev: the page left; read: the page initializePage
\* picked; slide: oldFrame was not nil.
Locals == [target : Pages, prev : Pages, read : Pages, slide : BOOLEAN]
NoLocals == [target |-> 0, prev |-> 0, read |-> 0, slide |-> FALSE]

Steps == {"idle", "commit", "cancel", "leave", "clamp", "read", "build", "show"}

TypeOK ==
  /\ numPages \in 1..MaxPages
  /\ currentPage \in Pages
  /\ zonesPage \in Pages
  /\ drawn \in BOOLEAN
  /\ live \in Live
  /\ cooldown \in BOOLEAN
  /\ transition \in Transition
  /\ finger \in Finger
  /\ liveSwipeMu \in Procs \cup {Nobody}
  /\ pc \in [Procs -> Steps]
  /\ loc \in [Procs -> Locals]
  /\ overlapped \in BOOLEAN

Init ==
  /\ numPages \in 1..MaxPages
  /\ currentPage = 0
  /\ zonesPage = 0
  /\ drawn = FALSE
  /\ live = NoSwipe
  /\ cooldown = FALSE
  /\ transition = NoTransition
  /\ finger = NoFinger
  /\ liveSwipeMu = Nobody
  /\ pc = [p \in Procs |-> "idle"]
  /\ loc = [p \in Procs |-> NoLocals]
  /\ overlapped = FALSE

Goto(p, step) == pc' = [pc EXCEPT ![p] = step]
Return(p) == Goto(p, "idle") /\ loc' = [loc EXCEPT ![p] = NoLocals]

\* Goroutine p is changing the page or the layout.
Changing(p) == pc[p] \notin {"idle", "cancel"}
BeginChange(p) == overlapped' = (overlapped \/ \E q \in Procs \ {p} : Changing(q))

-----------------------------------------------------------------------------
(* TransitionState *)

StartTimed == [NoTransition EXCEPT !.active = TRUE]
StartManual == [StartTimed EXCEPT !.manual = TRUE]

\* An ongoing transition of either kind becomes manual; at Full it ends.
SetManualProgress(t, g) ==
  IF ~t.active \/ g = Full THEN NoTransition
  ELSE [StartManual EXCEPT !.progress = g]

\* Mutant: the spring is aimed but never started.
MutStartSpring(t, goal) ==
  IF ~t.active THEN t ELSE [t EXCEPT !.manual = TRUE, !.goal = goal]

StartSpring(t, goal) ==
  IF ~t.active THEN t
  ELSE [t EXCEPT !.manual = TRUE, !.spring = TRUE, !.goal = goal]

\* GetProgress: a spring moves one level nearer to its goal and settles there; a
\* manual transition at either end is over; so is a timed one whose duration has
\* elapsed.
GetProgress(t, elapsed) ==
  IF ~t.active THEN t
  ELSE IF ~t.manual THEN (IF elapsed THEN NoTransition ELSE t)
  ELSE IF t.spring /\ t.progress # t.goal
       THEN [t EXCEPT !.progress = IF @ < t.goal THEN @ + 1 ELSE @ - 1]
  ELSE IF t.spring \/ t.progress = 0 THEN NoTransition
  ELSE t

-----------------------------------------------------------------------------
(* The render loop: one tick is RenderFrame, then IsTransitioning. *)

RenderTick(elapsed) ==
  /\ transition' = GetProgress(transition, elapsed)
  /\ drawn' = (drawn \/ ~transition'.active)
  /\ UNCHANGED <<numPages, currentPage, zonesPage, live, cooldown, finger,
                 liveSwipeMu, pc, loc, overlapped>>

-----------------------------------------------------------------------------
(* The live swipe, on the touch goroutine *)

\* Mutant: the page count is forgotten.
MutNeighbour(p, left, n) == IF left THEN p + 1 ELSE IF p = 0 THEN n - 1 ELSE p - 1

\* The page a committed swipe goes to from page p of n, wrapping around.
Neighbour(p, left, n) ==
  IF left THEN (p + 1) % n ELSE IF p = 0 THEN n - 1 ELSE p - 1

\* Mutant: pages counted from one.
MutAtEdge(p, left, n) == IF left THEN p = n ELSE p = 0

AtEdge(p, left, n) == IF left THEN p = n - 1 ELSE p = 0

\* Rubber-banding: sqrt(g) / 4 leaves 0 at 0 and the rest well below Far.
Banded(l, g) == IF l.boundary /\ g > 0 THEN 1 ELSE g

\* The tail of every accepted UpdateLiveSwipe: a reversal flips the direction (and
\* for a moment the progress), then the progress is set.  The boundary found when
\* the swipe started is not looked at again.
Advance(l, t, left, g) ==
  LET turned == IF l.left # left /\ t.manual THEN SetManualProgress(t, Full - g) ELSE t
  IN /\ live' = [l EXCEPT !.left = left]
     /\ transition' = SetManualProgress(turned, g)

TouchReady == pc[Touch] = "idle" /\ liveSwipeMu = Nobody

\* A touch packet with the finger down and the swipe threshold passed.
Packet(left, g) ==
  /\ TouchReady
  /\ MayReverse \/ (finger.down => left = finger.left)
  /\ finger' = [down |-> TRUE, left |-> left, progress |-> g]

\* UpdateLiveSwipe within 250 ms of a release ignores the packet.
IgnoreStray(left, g) ==
  /\ Packet(left, g)
  /\ ~live.active /\ cooldown
  /\ UNCHANGED <<page, live, cooldown, transition, liveSwipeMu, pc, loc, overlapped>>

\* UpdateLiveSwipe starts a live swipe.
BeginSwipe(left, g) ==
  /\ Packet(left, g)
  /\ ~live.active /\ ~cooldown
  /\ drawn' = TRUE
  /\ LET begun == [NoSwipe EXCEPT !.active = TRUE, !.left = left,
                     !.boundary = AtEdge(currentPage, left, numPages)]
     IN Advance(begun, SetManualProgress(StartManual, g), left, Banded(begun, g))
  /\ UNCHANGED <<numPages, currentPage, zonesPage, cooldown, liveSwipeMu, pc, loc, overlapped>>

\* UpdateLiveSwipe while a live swipe is active.
MoveSwipe(left, g) ==
  /\ Packet(left, g)
  /\ live.active
  /\ Advance(live, transition, left, Banded(live, g))
  /\ UNCHANGED <<page, cooldown, liveSwipeMu, pc, loc, overlapped>>

\* The finger is lifted.  shouldCommitSwipe always commits from Far on, never at 0;
\* between them the velocity of the release decides.
Lifted(commit) ==
  /\ TouchReady /\ finger.down
  /\ IF commit THEN finger.progress > 0 ELSE finger.progress < Far
  /\ finger' = NoFinger

\* The device goes with the finger on it: the reader is dropped with the gesture, and
\* nobody tells the manager, whose live swipe stays as it is until a later gesture
\* drives it on.
FingerLost ==
  /\ TouchReady /\ finger.down
  /\ finger' = NoFinger
  /\ live' = [live EXCEPT !.orphan = live.active]
  /\ UNCHANGED <<page, cooldown, transition, liveSwipeMu, pc, loc, overlapped>>

\* handleSwipeComplete calls CancelLiveSwipe.
ReleaseToCancel ==
  /\ Lifted(FALSE)
  /\ Goto(Touch, "cancel")
  /\ UNCHANGED <<page, live, cooldown, transition, liveSwipeMu, loc, overlapped>>

\* FinalizeLiveSwipe with no live swipe (its packets were ignored, or a page switch
\* ended it) only starts the cooldown.
FinalizeNothing ==
  /\ Lifted(TRUE)
  /\ ~live.active
  /\ cooldown' = TRUE
  /\ UNCHANGED <<page, live, transition, liveSwipeMu, pc, loc, overlapped>>

\* FinalizeLiveSwipe of a swipe into a boundary unlocks, then cancels.
FinalizeBoundary ==
  /\ Lifted(TRUE)
  /\ live.active /\ live.boundary
  /\ live' = [live EXCEPT !.boundary = FALSE]
  /\ Goto(Touch, "cancel")
  /\ UNCHANGED <<page, cooldown, transition, liveSwipeMu, loc, overlapped>>

CancelLiveSwipe ==
  /\ pc[Touch] = "cancel" /\ liveSwipeMu = Nobody
  /\ Goto(Touch, "idle")
  /\ IF live.active
     THEN /\ transition' = IF transition.manual THEN StartSpring(transition, 0)
                           ELSE NoTransition
          /\ live' = NoSwipe
          /\ cooldown' = TRUE
     ELSE UNCHANGED <<transition, live, cooldown>>
  /\ UNCHANGED <<page, finger, liveSwipeMu, loc, overlapped>>

\* FinalizeLiveSwipe, under liveSwipeMu: the target is computed from the page and
\* the page count of this instant; ...
FinalizeTarget ==
  /\ Lifted(TRUE)
  /\ live.active /\ ~live.boundary
  /\ cooldown' = TRUE
  /\ loc' = [loc EXCEPT ![Touch].target = Neighbour(currentPage, live.left, numPages)]
  /\ liveSwipeMu' = Touch
  /\ Goto(Touch, "commit")
  /\ BeginChange(Touch)
  /\ UNCHANGED <<page, live, transition>>

\* Mutant: the zones of the page before stay.
MutFinalizeCommit ==
  /\ pc[Touch] = "commit"
  /\ currentPage' = loc[Touch].target
  /\ live' = NoSwipe
  /\ liveSwipeMu' = Nobody
  /\ Goto(Touch, "show")
  /\ UNCHANGED <<numPages, zonesPage, drawn, cooldown, transition, finger, loc, overlapped>>

\* ... the page changes, the transition is sent to its end (by the spring, or by
\* the clock when it is not manual), and liveSwipeMu is released.
FinalizeCommit ==
  /\ pc[Touch] = "commit"
  /\ currentPage' = loc[Touch].target
  /\ transition' = IF transition.manual THEN StartSpring(transition, Full) ELSE transition
  /\ live' = NoSwipe
  /\ liveSwipeMu' = Nobody
  /\ Goto(Touch, "read")
  /\ UNCHANGED <<numPages, zonesPage, drawn, cooldown, finger, loc, overlapped>>

\* ... initializePage follows (below), then the final frame is put in place.
FinalizeShow ==
  /\ pc[Touch] = "show"
  /\ Return(Touch)
  /\ UNCHANGED <<page, live, cooldown, transition, finger, liveSwipeMu, overlapped>>

\* 250 ms have passed since lastSwipeFinalize.
CooldownEnds ==
  /\ cooldown
  /\ cooldown' = FALSE
  /\ UNCHANGED <<page, live, transition, finger, liveSwipeMu, pc, loc, overlapped>>

-----------------------------------------------------------------------------
(* initializePage, shared by the three kinds of goroutine *)

\* It picks the page of m.currentPage before it takes payloadsMu.  Out of range
\* it fails: a swipe goes on, a switch restores the page, a reload gives up.
InitRead(p) ==
  /\ pc[p] = "read"
  /\ IF currentPage < numPages
     THEN /\ loc' = [loc EXCEPT ![p].read = currentPage]
          /\ Goto(p, "build")
          /\ UNCHANGED currentPage
     ELSE /\ IF p = Touch THEN Goto(p, "show") /\ UNCHANGED loc ELSE Return(p)
          /\ currentPage' = IF p \in Navs THEN loc[p].prev ELSE currentPage
  /\ UNCHANGED <<numPages, zonesPage, drawn, live, cooldown, transition, finger,
                 liveSwipeMu, overlapped>>

\* Under payloadsMu it replaces the zones and the compositor by that page's.
InitBuild(p) ==
  /\ pc[p] = "build"
  /\ zonesPage' = loc[p].read
  /\ IF p \in Editors THEN Return(p) ELSE Goto(p, "show") /\ UNCHANGED loc
  /\ UNCHANGED <<numPages, currentPage, drawn, live, cooldown, transition, finger,
                 liveSwipeMu, overlapped>>

-----------------------------------------------------------------------------
(* SwitchPageWithTransition, on a goroutine of the HTTP server *)

\* The request is checked and a live swipe is ended.  The log line that follows
\* indexes Pages[currentPage]: out of range it panics, which the HTTP server turns
\* into the end of this request.
SwitchPage(p, target) ==
  /\ pc[p] = "idle" /\ liveSwipeMu = Nobody
  /\ target < numPages /\ target # currentPage
  /\ live' = NoSwipe
  /\ BeginChange(p)
  /\ IF currentPage < numPages
     THEN loc' = [loc EXCEPT ![p].target = target] /\ Goto(p, "leave")
     ELSE UNCHANGED <<loc, pc>>
  /\ UNCHANGED <<page, cooldown, transition, finger, liveSwipeMu>>

\* The frame on display and the page left are remembered, the page changes.
SwitchLeave(p) ==
  /\ pc[p] = "leave"
  /\ loc' = [loc EXCEPT ![p].prev = currentPage, ![p].slide = drawn]
  /\ currentPage' = loc[p].target
  /\ Goto(p, "read")
  /\ UNCHANGED <<numPages, zonesPage, drawn, live, cooldown, transition, finger,
                 liveSwipeMu, overlapped>>

\* After initializePage the new page is drawn and slides in.
SwitchShow(p) ==
  /\ pc[p] = "show"
  /\ transition' = IF loc[p].slide THEN StartTimed ELSE transition
  /\ Return(p)
  /\ UNCHANGED <<page, live, cooldown, finger, liveSwipeMu, overlapped>>

-----------------------------------------------------------------------------
(* ReloadFromConfig, on a goroutine of the HTTP server *)

\* The new layout is put in place, ...
Reload(p, n) ==
  /\ pc[p] = "idle"
  /\ numPages' = n
  /\ Goto(p, "clamp")
  /\ BeginChange(p)
  /\ UNCHANGED <<currentPage, zonesPage, drawn, live, cooldown, transition, finger,
                 liveSwipeMu, loc>>

\* Mutant: the last page is taken for a page past the end.
MutReloadClamp(p) ==
  /\ pc[p] = "clamp"
  /\ currentPage' = IF currentPage > numPages THEN 0 ELSE currentPage
  /\ Goto(p, "read")
  /\ UNCHANGED <<numPages, zonesPage, drawn, live, cooldown, transition, finger,
                 liveSwipeMu, loc, overlapped>>

\* ... then currentPage is brought into it, and initializePage follows.
ReloadClamp(p) ==
  /\ pc[p] = "clamp"
  /\ currentPage' = IF currentPage >= numPages THEN 0 ELSE currentPage
  /\ Goto(p, "read")
  /\ UNCHANGED <<numPages, zonesPage, drawn, live, cooldown, transition, finger,
                 liveSwipeMu, loc, overlapped>>

-----------------------------------------------------------------------------
Packets ==
  \E left \in BOOLEAN, g \in Drags :
     IgnoreStray(left, g) \/ BeginSwipe(left, g) \/ MoveSwipe(left, g)

Lift == ReleaseToCancel \/ FinalizeNothing \/ FinalizeBoundary \/ FinalizeTarget

\* The steps a goroutine takes once it runs a handler.
TouchStep ==
  CancelLiveSwipe \/ FinalizeCommit \/ FinalizeShow \/ InitRead(Touch) \/ InitBuild(Touch)
NavStep(p)    == SwitchLeave(p) \/ InitRead(p) \/ InitBuild(p) \/ SwitchShow(p)
EditorStep(p) == ReloadClamp(p) \/ InitRead(p) \/ InitBuild(p)

Next ==
  \/ \E elapsed \in BOOLEAN : RenderTick(elapsed)
  \/ CooldownEnds
  \/ Packets \/ Lift \/ FingerLost \/ TouchStep
  \/ \E p \in Navs : NavStep(p) \/ \E target \in Pages : SwitchPage(p, target)
  \/ \E p \in Editors : EditorStep(p) \/ \E n \in 1..MaxPages : Reload(p, n)

\* The render loop ticks for ever; a goroutine that can run does.
Fairness ==
  /\ WF_vars(RenderTick(TRUE))
  /\ WF_vars(TouchStep)
  /\ \A p \in Navs : WF_vars(NavStep(p))
  /\ \A p \in Editors : WF_vars(EditorStep(p))

Spec == Init /\ [][Next]_vars
FairSpec == Spec /\ Fairness

-----------------------------------------------------------------------------
(* Properties *)

Resting == \A p \in Procs : pc[p] = "idle"

\* As long as no two page changes were under way at once: when every goroutine is
\* done the zones on the device are those of currentPage ("initializePage sets up
\* zones and renderers for the current page").
ZonesFollowPage == Resting /\ ~overlapped => zonesPage = currentPage

\* On the same condition currentPage is then a page of the layout, however many
\* pages edits added and took away ("Clamp currentPage to new page count").
PageInLayout == Resting /\ ~overlapped => currentPage < numPages

\* A swipe never goes round the end of the layout ("Boundary swipes always cancel -
\* never commit a wrap-around page change").
NoWrap == [][FinalizeCommit => IF live.left THEN currentPage' = currentPage + 1
                                            ELSE currentPage = currentPage' + 1]_vars

\* With the finger lifted, whatever transition it left behind ends: the display does
\* not freeze between two pages, unless page changes overlapped, or the finger has
\* gone with the device.
Excused == overlapped \/ live.orphan
ReleasedSettles ==
  (~finger.down /\ transition.active /\ ~Excused)
     ~> (finger.down \/ ~transition.active \/ Excused)

Book == INSTANCE PageBook WITH pages <- numPages, page <- currentPage,
                               adrift <- live.orphan

\* A swipe that keeps its direction, with no other goroutine on the manager, turns
\* one page and never goes round the end: the manager implements PageBook.  A swipe
\* whose finger went with the device is taken on by the next gesture, whatever its
\* direction, with the boundary it began with; it turns one page too.
BookSpec == Book!Spec
=============================================================================
