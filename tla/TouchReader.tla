------------------------------ MODULE TouchReader ------------------------------
(***************************************************************************)
(* From the packets of the touch panel to the manager: the gesture engine  *)
(* of touch.HIDTouchReader (internal/touch/reader.go), the decisions of    *)
(* touch.Handler and SwipeConfig, and the live swipe of PageNav, which     *)
(* this module drives: every swipe event it makes is a step of PageNav.    *)
(*                                                                         *)
(* The display is Width units wide.  The One-Euro filter is left at what   *)
(* the gestures can tell: each position it gives lies between the one it   *)
(* gave before and the one the device reports.                             *)
(***************************************************************************)
EXTENDS PageNav, Integers, FiniteSetsExt

CONSTANTS
  Width,     (* screenWidth, in units.  Bounds the model.                   *)
  Edges,     (* Where the zones of a page begin, after ComputeOffsets.      *)
  Rested,    (* Touches lie far enough apart for the filter to forget.      *)
  Turns      (* Whether a finger may turn back during a touch.              *)

Positions == 0..(Width - 1)

ASSUME TouchAssumption ==
  /\ Width \in Nat \ {0}
  /\ Edges \subseteq Positions /\ 0 \in Edges
  /\ Rested \in BOOLEAN /\ Turns \in BOOLEAN

VARIABLES
  plugged,   \* the device answers and processEvents reads it
  at,        \* where the finger is, or was when it was lifted
  reader,    \* the HIDTouchReader
  gesture    \* history: the touch so far, or what the last one came to

\* x: what the filter gave last, which is lastDownX while the finger is down.
Readers == [down : BOOLEAN, start : Positions, x : Positions, active : BOOLEAN]
NewReader == [down |-> FALSE, start |-> 0, x |-> 0, active |-> FALSE]

\* lo, hi: how far the finger went.
Kinds == {"none", "down", "tap", "overlay", "long", "commit", "cancel"}
Touches == [kind : Kinds, zone : Edges, lo : Positions, hi : Positions]
NoTouch == [kind |-> "none", zone |-> 0, lo |-> 0, hi |-> 0]

nav == vars
touching == <<plugged, at, reader, gesture>>
all == <<vars, touching>>

TouchTypeOK ==
  /\ TypeOK
  /\ plugged \in BOOLEAN
  /\ at \in Positions
  /\ reader \in Readers
  /\ gesture \in Touches

TouchInit ==
  /\ Init
  /\ plugged = TRUE /\ at = 0 /\ reader = NewReader /\ gesture = NoTouch

-----------------------------------------------------------------------------
(* Arithmetic of the reader and the handler *)

Distance(a, b) == IF a < b THEN b - a ELSE a - b

\* d is at least this many hundredths of the display.
AtLeast(d, percent) == 100 * d >= percent * Width

\* oneEuro.filter
Filter(before, raw) == Min({before, raw})..Max({before, raw})

\* How far a finger goes before it swipes: between 0.07 and 0.09, less for a fast one.
swipeStartFrac == 7..9

\* The tiers of the velocity of a release, from velWindow.
VelocitySlow == 0
VelocityMedium == 1
VelocityFastFlick == 2
VelocityFlick == 3
Velocities == VelocitySlow..VelocityFlick

\* A swipe that goes far commits, one that hardly moved does not, and in between a
\* faster one needs less.
shouldCommitSwipe(d, v) ==
  \/ AtLeast(d, 40)
  \/ /\ AtLeast(d, 5)
     /\ \/ v = VelocityFlick
        \/ v >= VelocityFastFlick /\ AtLeast(d, 7)
        \/ v = VelocitySlow /\ AtLeast(d, 20)
        \/ v > VelocitySlow /\ AtLeast(d, 15)

\* The distance on the scale of PageNav.
Level(d) == IF AtLeast(d, 40) THEN Far ELSE IF d > 0 THEN 1 ELSE 0

\* The zone that contains x.
ZoneAt(x) == Max({e \in Edges : e <= x})

\* tapMaxMovePixels, 100 of 640
Sliding(d) == 640 * d > 100 * Width

-----------------------------------------------------------------------------
(* HIDTouchReader.Read, and what the handler makes of its events *)

Ready == plugged /\ TouchReady

\* Mutant: the start of the gesture is not set.
MutPress(r) ==
  /\ Ready /\ ~reader.down
  /\ \E xi \in IF Rested THEN {r} ELSE Filter(reader.x, r) :
       reader' = [reader EXCEPT !.down = TRUE, !.x = xi, !.active = FALSE]
  /\ at' = r
  /\ gesture' = [NoTouch EXCEPT !.kind = "down", !.lo = r, !.hi = r]
  /\ UNCHANGED <<nav, plugged>>

\* The finger comes down.
Press(r) ==
  /\ Ready /\ ~reader.down
  /\ \E xi \in IF Rested THEN {r} ELSE Filter(reader.x, r) :
       reader' = [down |-> TRUE, start |-> xi, x |-> xi, active |-> FALSE]
  /\ at' = r
  /\ gesture' = [NoTouch EXCEPT !.kind = "down", !.lo = r, !.hi = r]
  /\ UNCHANGED <<nav, plugged>>

\* A finger that does not turn back goes on the way it took.
Moves(r) ==
  \/ Turns
  \/ r >= at /\ at = gesture.hi
  \/ r <= at /\ at = gesture.lo

\* It is held or moved.  Past the threshold every packet is a live event, whose
\* direction and progress are those of the way from the start.
Hold(r) ==
  /\ Ready /\ reader.down /\ Moves(r)
  /\ at' = r
  /\ gesture' = [gesture EXCEPT !.lo = Min({@, r}), !.hi = Max({@, r})]
  /\ \E xi \in Filter(reader.x, r), frac \in swipeStartFrac :
       LET d == Distance(xi, reader.start)
           active == reader.active \/ AtLeast(d, frac)
           left == xi < reader.start
       IN /\ reader' = [reader EXCEPT !.x = xi, !.active = active]
          /\ IF active
             THEN \/ IgnoreStray(left, Level(d))
                  \/ BeginSwipe(left, Level(d))
                  \/ MoveSwipe(left, Level(d))
             ELSE UNCHANGED nav
  /\ UNCHANGED plugged

\* The device reports 0 for a finger that is lifted: the filter takes it in, and the
\* gesture counts from lastDownX.
Up ==
  /\ Ready /\ reader.down
  /\ \E xi \in IF Rested THEN {0} ELSE Filter(reader.x, 0) :
       reader' = [NewReader EXCEPT !.x = xi]
  /\ UNCHANGED <<plugged, at>>

Moved == Distance(reader.x, reader.start)

\* A swipe is complete.  handleSwipeComplete
LiftSwipe ==
  /\ Up /\ reader.active
  /\ \E v \in Velocities :
       IF shouldCommitSwipe(Moved, v)
       THEN /\ FinalizeNothing \/ FinalizeBoundary \/ FinalizeTarget
            /\ gesture' = [gesture EXCEPT !.kind = "commit"]
       ELSE /\ ReleaseToCancel
            /\ gesture' = [gesture EXCEPT !.kind = "cancel"]

\* Half a second and more is a long press, which dismisses the overlay.
LiftLong ==
  /\ Up /\ ~reader.active
  /\ gesture' = [gesture EXCEPT !.kind = "long"]
  /\ UNCHANGED nav

\* Mutant: the position the device reports for a lifted finger is taken.
MutTap ==
  /\ Up /\ ~reader.active
  /\ gesture' = [gesture EXCEPT !.kind = "tap", !.zone = ZoneAt(reader'.x)]
  /\ UNCHANGED nav

\* A tap goes to the zone under it, ...
Tap ==
  /\ Up /\ ~reader.active
  /\ gesture' = IF Sliding(Moved) THEN [gesture EXCEPT !.kind = "none"]
              ELSE [gesture EXCEPT !.kind = "tap", !.zone = ZoneAt(reader.x)]
  /\ UNCHANGED nav

\* ... or to the overlay that is shown.
TapOverlay ==
  /\ Up /\ ~reader.active
  /\ gesture' = [gesture EXCEPT !.kind = "overlay"]
  /\ UNCHANGED nav

-----------------------------------------------------------------------------
(* The device goes and comes back *)

\* A read fails, in the middle of a gesture if need be, whose end is lost; processLoop
\* tries again, after a second at first and later thirty.
Unplug ==
  /\ Ready
  /\ plugged' = FALSE
  /\ IF finger.down THEN FingerLost ELSE UNCHANGED nav
  /\ UNCHANGED <<at, reader, gesture>>

\* connectOnce makes a new reader; the manager is not told.
Replug ==
  /\ ~plugged
  /\ plugged' = TRUE
  /\ reader' = NewReader /\ gesture' = NoTouch
  /\ UNCHANGED <<nav, at>>

-----------------------------------------------------------------------------
\* The rest of the program: the render loop and the page changes under way, as in
\* PageNav, with no other goroutine on the manager.
Elsewhere ==
  /\ (\E elapsed \in BOOLEAN : RenderTick(elapsed)) \/ CooldownEnds \/ TouchStep
  /\ UNCHANGED touching

TouchNext ==
  \/ \E r \in Positions : Press(r) \/ Hold(r)
  \/ LiftSwipe \/ LiftLong \/ Tap \/ TapOverlay
  \/ Unplug \/ Replug
  \/ Elsewhere

TouchSpec == TouchInit /\ [][TouchNext]_all

-----------------------------------------------------------------------------
(* Properties *)

\* BookSpec of PageNav: a swipe as the panel reports it turns one page and never goes
\* round the end.  Reader, handler and manager together implement PageBook, however
\* slowly the filter follows, however much of a swipe falls into the cooldown, and
\* with a device that goes in the middle of a swipe: what is left of that one may go
\* round the end, none after it.

\* A finger that hardly moved is never taken for a swipe ("keep short taps from
\* triggering swipes").
SwipesMove ==
  gesture.kind \in {"commit", "cancel"} => AtLeast(gesture.hi - gesture.lo, 7)

\* A tap goes to a zone the finger has been on ("device zeroes coordinates on lift,
\* use last known position").
TapsHit ==
  gesture.kind = "tap" => gesture.zone \in {ZoneAt(x) : x \in gesture.lo..gesture.hi}
================================================================================
