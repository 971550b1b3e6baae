---------------------------- MODULE NavigationProofs ----------------------------
(***************************************************************************)
(* Proofs about page navigation, first of PageNav and then of TouchReader, *)
(* which extends it.                                                       *)
(*                                                                         *)
(* PageNav, for any number of pages and of goroutines: its type invariant, *)
(* and that page changes which do not overlap leave the zones, the current *)
(* page and the layout in agreement.                                       *)
(*                                                                         *)
(* TouchReader, for any width of the display, zones and number of pages:   *)
(* taps hit what was touched, swipes have moved, and with fingers that do  *)
(* not turn back reader, handler and manager implement PageBook.  All of   *)
(* it for touches that lie far enough apart for the filter to forget.      *)
(***************************************************************************)
EXTENDS TouchReader, TLAPS

\* The page a swipe goes to is a page of the layout it was computed from.
LEMMA NeighbourIsPage ==
  ASSUME NEW p \in Nat, NEW left \in BOOLEAN, NEW n \in Nat \ {0}, p < n
  PROVE  Neighbour(p, left, n) \in 0..(n - 1)
BY DEF Neighbour

\* Out of the layout too, the page a swipe goes to is one that a layout may have.
LEMMA NeighbourIsPossible ==
  ASSUME NEW p \in Pages, NEW left \in BOOLEAN, NEW n \in 1..MaxPages
  PROVE  Neighbour(p, left, n) \in Pages
BY ConstantsAssumption DEF Neighbour, Pages

\* The steps of the page transition stay within its values.
LEMMA TransitionTypes ==
  ASSUME NEW t \in Transition, NEW g \in Levels, NEW e \in BOOLEAN
  PROVE  /\ StartTimed \in Transition
         /\ StartManual \in Transition
         /\ NoTransition \in Transition
         /\ SetManualProgress(t, g) \in Transition
         /\ GetProgress(t, e) \in Transition
         /\ StartSpring(t, 0) \in Transition
         /\ StartSpring(t, Full) \in Transition
<1>1. NoTransition \in Transition
  BY DEF Transition, NoTransition, Levels, Full
<1>2. StartTimed \in Transition
  BY <1>1 DEF StartTimed, Transition
<1>3. StartManual \in Transition
  BY <1>2 DEF StartManual, Transition
<1> USE <1>1, <1>2, <1>3 DEF Transition, Levels, Full
<1>4. SetManualProgress(t, g) \in Transition
  BY DEF SetManualProgress
<1>5. StartSpring(t, 0) \in Transition /\ StartSpring(t, Full) \in Transition
  BY DEF StartSpring
<1>6. GetProgress(t, e) \in Transition
  <2>1. CASE t.active /\ t.manual /\ t.spring /\ t.progress # t.goal
    <3>1. t.progress \in 0..3 /\ t.goal \in {0, 3}
      OBVIOUS
    <3>2. (IF t.progress < t.goal THEN t.progress + 1 ELSE t.progress - 1) \in 0..3
      BY <2>1, <3>1
    <3> QED BY <2>1, <3>2 DEF GetProgress
  <2>2. CASE ~(t.active /\ t.manual /\ t.spring /\ t.progress # t.goal)
    BY <2>2 DEF GetProgress
  <2> QED BY <2>1, <2>2
<1> QED BY <1>1, <1>2, <1>3, <1>4, <1>5, <1>6

-----------------------------------------------------------------------------
(* The type invariant, one step per action *)

LEMMA InitType == Init => TypeOK
<1> SUFFICES ASSUME Init PROVE TypeOK
  OBVIOUS
<1>1. NoSwipe \in Live /\ NoFinger \in Finger
  BY DEF NoSwipe, Live, NoFinger, Finger, Drags, Full
<1>2. NoTransition \in Transition
  BY DEF NoTransition, Transition, Levels, Full
<1>3. 0 \in Pages /\ NoLocals \in Locals
  BY ConstantsAssumption DEF Pages, NoLocals, Locals
<1> QED BY <1>1, <1>2, <1>3 DEF Init, TypeOK, Steps

LEMMA NextType == TypeOK /\ [Next]_vars => TypeOK'
<1> SUFFICES ASSUME TypeOK, [Next]_vars PROVE TypeOK'
  OBVIOUS
<1>t. /\ Touch \in Procs /\ Navs \subseteq Procs /\ Editors \subseteq Procs
      /\ 0 \in Pages /\ NoLocals \in Locals /\ NoSwipe \in Live /\ NoFinger \in Finger
  BY ConstantsAssumption
     DEF Procs, Pages, NoLocals, Locals, NoSwipe, Live, NoFinger, Finger, Drags, Full
<1>1. ASSUME NEW e \in BOOLEAN, RenderTick(e) PROVE TypeOK'
  <2>1. transition' \in Transition
    BY <1>1, TransitionTypes, 0 \in Levels DEF RenderTick, TypeOK, Levels, Full
  <2>2. drawn' \in BOOLEAN
    BY <1>1, <2>1 DEF RenderTick, TypeOK, Transition
  <2> QED BY <1>1, <2>1, <2>2 DEF RenderTick, TypeOK
<1>2. ASSUME CooldownEnds PROVE TypeOK'
  BY <1>2 DEF CooldownEnds, TypeOK, page
<1>3. ASSUME NEW left \in BOOLEAN, NEW g \in Drags,
             IgnoreStray(left, g) \/ BeginSwipe(left, g) \/ MoveSwipe(left, g)
      PROVE  TypeOK'
  <2>1. finger' \in Finger
    <3>1. finger' = [down |-> TRUE, left |-> left, progress |-> g]
      BY <1>3 DEF IgnoreStray, BeginSwipe, MoveSwipe, Packet
    <3> QED BY <3>1 DEF Finger
  <2>2. g \in Levels /\ Full - g \in Levels
    BY DEF Drags, Levels, Full
  <2>3. ASSUME NEW l \in Live PROVE Banded(l, g) \in Levels
    BY <2>2 DEF Banded, Levels, Full
  <2>4. ASSUME NEW l \in Live, NEW t \in Transition, NEW b \in Levels,
               Advance(l, t, left, b)
        PROVE  live' \in Live /\ transition' \in Transition
    <3>1. live' \in Live
      BY <2>4 DEF Advance, Live
    <3>2. Full - b \in Levels
      BY DEF Levels, Full
    <3>3. SetManualProgress(t, Full - b) \in Transition
      BY <3>2, TransitionTypes
    <3>4. transition' = SetManualProgress(IF l.left # left /\ t.manual
                          THEN SetManualProgress(t, Full - b) ELSE t, b)
      BY <2>4 DEF Advance
    <3> QED BY <3>1, <3>3, <3>4, TransitionTypes
  <2>5. CASE IgnoreStray(left, g)
    BY <2>1, <2>5 DEF IgnoreStray, TypeOK, page
  <2>6. CASE BeginSwipe(left, g)
    <3> DEFINE begun == [NoSwipe EXCEPT !.active = TRUE, !.left = left,
                           !.boundary = AtEdge(currentPage, left, numPages)]
    <3>1. begun \in Live
      BY DEF Live, NoSwipe, AtEdge
    <3>2. SetManualProgress(StartManual, g) \in Transition
      BY <2>2, <1>t, TransitionTypes DEF TypeOK
    <3>3. Advance(begun, SetManualProgress(StartManual, g), left, Banded(begun, g))
      BY <2>6 DEF BeginSwipe
    <3>4. live' \in Live /\ transition' \in Transition
      <4> HIDE DEF begun
      <4> QED BY <2>3, <2>4, <3>1, <3>2, <3>3
    <3> QED BY <2>1, <2>6, <3>4 DEF BeginSwipe, TypeOK
  <2>7. CASE MoveSwipe(left, g)
    <3>1. live' \in Live /\ transition' \in Transition
      BY <2>3, <2>4, <2>7 DEF MoveSwipe, TypeOK
    <3> QED BY <2>1, <2>7, <3>1 DEF MoveSwipe, TypeOK, page
  <2> QED BY <1>3, <2>5, <2>6, <2>7
<1>4. ASSUME ReleaseToCancel PROVE TypeOK'
  BY <1>4, <1>t DEF ReleaseToCancel, Lifted, Goto, TypeOK, page, Steps
<1>5. ASSUME FinalizeNothing PROVE TypeOK'
  BY <1>5, <1>t DEF FinalizeNothing, Lifted, TypeOK, page
<1>6. ASSUME FinalizeBoundary PROVE TypeOK'
  <2>1. live' \in Live
    BY <1>6 DEF FinalizeBoundary, TypeOK, Live
  <2> QED BY <1>6, <1>t, <2>1 DEF FinalizeBoundary, Lifted, Goto, TypeOK, page, Steps
<1>7. ASSUME CancelLiveSwipe PROVE TypeOK'
  <2>1. transition' \in Transition
    BY <1>7, TransitionTypes, 0 \in Levels DEF CancelLiveSwipe, TypeOK, Levels, Full
  <2> QED BY <1>7, <1>t, <2>1 DEF CancelLiveSwipe, Goto, TypeOK, page, Steps
<1>8. ASSUME FinalizeTarget PROVE TypeOK'
  <2>1. Neighbour(currentPage, live.left, numPages) \in Pages
    BY NeighbourIsPossible DEF TypeOK, Live
  <2>2. loc' \in [Procs -> Locals]
    BY <1>8, <1>t, <2>1 DEF FinalizeTarget, TypeOK, Locals
  <2> QED BY <1>8, <1>t, <2>2
          DEF FinalizeTarget, Lifted, Goto, BeginChange, TypeOK, page, Steps
<1>9. ASSUME FinalizeCommit PROVE TypeOK'
  <2>1. transition' \in Transition
    BY <1>9, TransitionTypes, 0 \in Levels, TRUE \in BOOLEAN
       DEF FinalizeCommit, TypeOK, Levels, Full
  <2>2. loc[Touch].target \in Pages
    BY <1>t DEF TypeOK, Locals
  <2> QED BY <1>9, <1>t, <2>1, <2>2 DEF FinalizeCommit, Goto, TypeOK, Steps
<1>10. ASSUME FinalizeShow PROVE TypeOK'
  BY <1>10, <1>t DEF FinalizeShow, Return, Goto, TypeOK, page, Steps
<1>11. ASSUME NEW p \in Procs, InitRead(p) PROVE TypeOK'
  <2>1. loc[p].prev \in Pages
    BY DEF TypeOK, Locals
  <2>2. currentPage' \in Pages
    BY <1>11, <2>1 DEF InitRead, TypeOK
  <2>3. loc' \in [Procs -> Locals] /\ pc' \in [Procs -> Steps]
    BY <1>11, <1>t DEF InitRead, Goto, Return, TypeOK, Locals, Steps
  <2> QED BY <1>11, <2>2, <2>3 DEF InitRead, TypeOK
<1>12. ASSUME NEW p \in Procs, InitBuild(p) PROVE TypeOK'
  <2>1. zonesPage' \in Pages
    BY <1>12 DEF InitBuild, TypeOK, Locals
  <2>2. loc' \in [Procs -> Locals] /\ pc' \in [Procs -> Steps]
    BY <1>12, <1>t DEF InitBuild, Goto, Return, TypeOK, Steps
  <2> QED BY <1>12, <2>1, <2>2 DEF InitBuild, TypeOK
<1>13. ASSUME NEW p \in Navs, NEW target \in Pages, SwitchPage(p, target) PROVE TypeOK'
  <2>1. p \in Procs
    BY <1>t
  <2>2. loc' \in [Procs -> Locals] /\ pc' \in [Procs -> Steps]
    BY <1>13, <2>1 DEF SwitchPage, Goto, TypeOK, Locals, Steps
  <2> QED BY <1>13, <1>t, <2>2 DEF SwitchPage, BeginChange, TypeOK, page
<1>14. ASSUME NEW p \in Navs, SwitchLeave(p) PROVE TypeOK'
  <2>1. p \in Procs
    BY <1>t
  <2>2. loc' \in [Procs -> Locals] /\ pc' \in [Procs -> Steps]
    BY <1>14, <2>1 DEF SwitchLeave, Goto, TypeOK, Locals, Steps
  <2>3. loc[p].target \in Pages
    BY <2>1 DEF TypeOK, Locals
  <2> QED BY <1>14, <2>2, <2>3 DEF SwitchLeave, TypeOK
<1>15. ASSUME NEW p \in Navs, SwitchShow(p) PROVE TypeOK'
  <2>1. transition' \in Transition
    BY <1>15, TransitionTypes, 0 \in Levels, TRUE \in BOOLEAN
       DEF SwitchShow, TypeOK, Levels, Full
  <2> QED BY <1>15, <1>t, <2>1 DEF SwitchShow, Return, Goto, TypeOK, page, Steps
<1>16. ASSUME NEW p \in Editors, NEW n \in 1..MaxPages, Reload(p, n) PROVE TypeOK'
  BY <1>16, <1>t DEF Reload, Goto, BeginChange, TypeOK, Steps
<1>17. ASSUME NEW p \in Editors, ReloadClamp(p) PROVE TypeOK'
  BY <1>17, <1>t DEF ReloadClamp, Goto, TypeOK, Steps
<1>18. ASSUME FingerLost PROVE TypeOK'
  <2>1. live' \in Live
    BY <1>18 DEF FingerLost, TypeOK, Live
  <2> QED BY <1>18, <1>t, <2>1 DEF FingerLost, TypeOK, page
<1>19. ASSUME UNCHANGED vars PROVE TypeOK'
  BY <1>19 DEF vars, TypeOK
<1> QED
  BY <1>1, <1>2, <1>3, <1>4, <1>5, <1>6, <1>7, <1>8, <1>9, <1>10, <1>11, <1>12,
     <1>13, <1>14, <1>15, <1>16, <1>17, <1>18, <1>19, <1>t
     DEF Next, Packets, Lift, TouchStep, NavStep, EditorStep

\* Every variable keeps its type, whatever the number of pages and of goroutines.
THEOREM TypeCorrect == Spec => []TypeOK
BY InitType, NextType, PTL DEF Spec
-----------------------------------------------------------------------------
(* Page changes that do not overlap                                        *)
(*                                                                         *)
(* The invariant is inductive once it says what each position of the only  *)
(* page change under way has achieved: before initializePage the page is   *)
(* one of the layout, after it the zones are those of the page.            *)

Settled == zonesPage = currentPage /\ currentPage < numPages

OnItsWay(p) ==
  /\ pc[p] \in {"commit", "leave"} => currentPage < numPages /\ loc[p].target < numPages
  /\ pc[p] = "read"  => currentPage < numPages
  /\ pc[p] = "build" => currentPage < numPages /\ loc[p].read = currentPage
  /\ pc[p] = "show"  => Settled

Alone ==
  ~overlapped =>
    /\ \A p, q \in Procs : Changing(p) /\ Changing(q) => p = q
    /\ \A p \in Procs : OnItsWay(p)
    /\ (\A p \in Procs : ~Changing(p)) => Settled

LEMMA InitAlone == Init => Alone
<1> SUFFICES ASSUME Init PROVE Alone
  OBVIOUS
<1>1. \A p \in Procs : pc[p] = "idle"
  BY DEF Init
<1>2. Settled
  BY DEF Init, Settled
<1> QED BY <1>1, <1>2 DEF Alone, OnItsWay, Changing

\* A step that leaves the page, the zones, the layout and the positions and targets
\* of the page changes alone.
LEMMA BystanderAlone ==
  ASSUME TypeOK, Alone, overlapped' = overlapped,
         UNCHANGED <<numPages, currentPage, zonesPage, loc>>,
         \A p \in Procs : pc'[p] = pc[p] \/ (~Changing(p) /\ ~Changing(p)')
  PROVE  Alone'
<1>1. \A p \in Procs : Changing(p)' = Changing(p)
  BY DEF Changing
<1>2. ASSUME ~overlapped, NEW p \in Procs PROVE OnItsWay(p)'
  BY <1>2 DEF Alone, OnItsWay, Settled, Changing
<1>3. Settled' = Settled
  BY DEF Settled
<1> QED BY <1>1, <1>2, <1>3 DEF Alone

\* A page change starts: if no other is under way, the page is settled.
LEMMA BeginAlone ==
  ASSUME TypeOK, Alone, NEW p \in Procs, ~Changing(p), BeginChange(p), ~overlapped'
  PROVE  ~overlapped /\ Settled /\ \A q \in Procs : ~Changing(q)
<1>1. ~overlapped /\ \A q \in Procs \ {p} : ~Changing(q)
  BY DEF BeginChange, TypeOK
<1>2. \A q \in Procs : ~Changing(q)
  BY <1>1
<1> QED BY <1>1, <1>2 DEF Alone

\* A step of the only page change under way, which goes on.
LEMMA GoOnAlone ==
  ASSUME TypeOK, Alone, NEW p \in Procs, Changing(p), overlapped' = overlapped,
         \A q \in Procs \ {p} : pc'[q] = pc[q],
         ~overlapped => OnItsWay(p)', Changing(p)'
  PROVE  Alone'
<1> SUFFICES ASSUME ~overlapped' PROVE Alone'
  BY DEF Alone
<1>1. \A q \in Procs \ {p} : ~Changing(q) /\ ~Changing(q)'
  BY DEF Alone, Changing
<1>2. \A q \in Procs \ {p} : OnItsWay(q)'
  BY <1>1 DEF OnItsWay, Changing
<1> QED BY <1>1, <1>2 DEF Alone

\* The last step of the only page change under way.
LEMMA FinishAlone ==
  ASSUME TypeOK, Alone, NEW p \in Procs, Changing(p), overlapped' = overlapped,
         \A q \in Procs \ {p} : pc'[q] = pc[q],
         pc'[p] = "idle", ~overlapped => Settled'
  PROVE  Alone'
<1> SUFFICES ASSUME ~overlapped' PROVE Alone'
  BY DEF Alone
<1>1. \A q \in Procs : ~Changing(q)'
  BY DEF Alone, Changing
<1>2. \A q \in Procs : OnItsWay(q)'
  BY <1>1 DEF OnItsWay, Changing
<1> QED BY <1>1, <1>2 DEF Alone

\* The first step of a page change, which is the only one.
LEMMA StartAlone ==
  ASSUME TypeOK, Alone, NEW p \in Procs, ~Changing(p), BeginChange(p),
         \A q \in Procs \ {p} : pc'[q] = pc[q],
         ~overlapped' => IF Changing(p)' THEN OnItsWay(p)' ELSE Settled'
  PROVE  Alone'
<1> SUFFICES ASSUME ~overlapped' PROVE Alone'
  BY DEF Alone
<1>1. \A q \in Procs \ {p} : ~Changing(q)'
  BY BeginAlone DEF Changing
<1>2. \A q \in Procs \ {p} : OnItsWay(q)'
  BY <1>1 DEF OnItsWay, Changing
<1>3. CASE Changing(p)'
  BY <1>1, <1>2, <1>3 DEF Alone
<1>4. CASE ~Changing(p)'
  BY <1>1, <1>2, <1>4 DEF Alone, OnItsWay, Changing
<1> QED BY <1>3, <1>4

LEMMA NextAlone == TypeOK /\ Alone /\ [Next]_vars => Alone'
<1> SUFFICES ASSUME TypeOK, Alone, [Next]_vars PROVE Alone'
  OBVIOUS
<1> USE DEF Goto, Return, page
<1>t. Touch \in Procs /\ Navs \subseteq Procs /\ Editors \subseteq Procs
      /\ Touch \notin Navs /\ Touch \notin Editors /\ Navs \cap Editors = {}
  BY ConstantsAssumption DEF Procs
<1>p. \A p \in Procs : pc[p] \in Steps
  BY DEF TypeOK
<1>1. ASSUME NEW e \in BOOLEAN, RenderTick(e) PROVE Alone'
  BY <1>1, BystanderAlone DEF RenderTick
<1>2. ASSUME CooldownEnds PROVE Alone'
  BY <1>2, BystanderAlone DEF CooldownEnds
<1>3. ASSUME NEW left \in BOOLEAN, NEW g \in Drags,
             IgnoreStray(left, g) \/ BeginSwipe(left, g) \/ MoveSwipe(left, g)
      PROVE  Alone'
  BY <1>3, BystanderAlone DEF IgnoreStray, BeginSwipe, MoveSwipe
<1>4. ASSUME ReleaseToCancel \/ FinalizeNothing \/ FinalizeBoundary \/ CancelLiveSwipe
      PROVE  Alone'
  <2>1. \A p \in Procs : pc'[p] = pc[p] \/ (~Changing(p) /\ ~Changing(p)')
    BY <1>4, <1>t DEF ReleaseToCancel, FinalizeNothing, FinalizeBoundary,
       CancelLiveSwipe, Lifted, TouchReady, Changing, TypeOK
  <2> QED BY <1>4, <2>1, BystanderAlone
          DEF ReleaseToCancel, FinalizeNothing, FinalizeBoundary, CancelLiveSwipe
<1>5. ASSUME FinalizeTarget PROVE Alone'
  <2>1. ~Changing(Touch) /\ BeginChange(Touch)
    BY <1>5 DEF FinalizeTarget, Lifted, TouchReady, Changing
  <2>2. /\ pc'[Touch] = "commit" /\ \A q \in Procs \ {Touch} : pc'[q] = pc[q]
        /\ loc'[Touch].target = Neighbour(currentPage, live.left, numPages)
        /\ UNCHANGED <<numPages, currentPage, zonesPage>>
    BY <1>5, <1>t DEF FinalizeTarget, TypeOK, Locals
  <2>3. ASSUME ~overlapped' PROVE OnItsWay(Touch)'
    <3>1. currentPage < numPages
      BY <1>t, <2>1, <2>3, BeginAlone DEF Settled
    <3>2. Neighbour(currentPage, live.left, numPages) < numPages
      BY <3>1, NeighbourIsPage DEF TypeOK, Live, Pages
    <3> QED BY <2>2, <3>1, <3>2 DEF OnItsWay
  <2>4. Changing(Touch)'
    BY <2>2 DEF Changing
  <2> QED BY <1>t, <2>1, <2>2, <2>3, <2>4, StartAlone
<1>6. ASSUME FinalizeCommit PROVE Alone'
  <2>1. /\ pc[Touch] = "commit" /\ pc'[Touch] = "read"
        /\ \A q \in Procs \ {Touch} : pc'[q] = pc[q]
        /\ currentPage' = loc[Touch].target
        /\ UNCHANGED <<numPages, zonesPage, overlapped>>
    BY <1>6, <1>t DEF FinalizeCommit, TypeOK
  <2>2. Changing(Touch) /\ Changing(Touch)'
    BY <2>1 DEF Changing
  <2>3. ~overlapped => OnItsWay(Touch)'
    BY <1>t, <2>1 DEF Alone, OnItsWay
  <2> QED BY <1>t, <2>1, <2>2, <2>3, GoOnAlone
<1>7. ASSUME NEW p \in Procs, (FinalizeShow /\ p = Touch) \/ SwitchShow(p) PROVE Alone'
  <2>1. /\ pc[p] = "show" /\ pc'[p] = "idle"
        /\ \A q \in Procs \ {p} : pc'[q] = pc[q]
        /\ UNCHANGED <<numPages, currentPage, zonesPage, overlapped>>
    BY <1>7 DEF FinalizeShow, SwitchShow, TypeOK
  <2>2. Changing(p)
    BY <2>1 DEF Changing
  <2>3. ~overlapped => Settled'
    BY <2>1 DEF Alone, OnItsWay, Settled
  <2> QED BY <2>1, <2>2, <2>3, FinishAlone
<1>8. ASSUME NEW p \in Procs, InitRead(p) PROVE Alone'
  <2>1. /\ pc[p] = "read" /\ \A q \in Procs \ {p} : pc'[q] = pc[q]
        /\ UNCHANGED <<numPages, zonesPage, overlapped>>
    BY <1>8 DEF InitRead, TypeOK
  <2>2. Changing(p)
    BY <2>1 DEF Changing
  <2>3. CASE currentPage < numPages
    <3>1. pc'[p] = "build" /\ loc'[p].read = currentPage /\ UNCHANGED currentPage
      BY <1>8, <2>3 DEF InitRead, TypeOK, Locals
    <3>2. Changing(p)' /\ OnItsWay(p)'
      BY <2>1, <2>3, <3>1 DEF Changing, OnItsWay
    <3> QED BY <2>1, <2>2, <3>2, GoOnAlone
  <2>4. CASE ~(currentPage < numPages)
    <3>1. overlapped'
      BY <2>1, <2>4 DEF Alone, OnItsWay, TypeOK
    <3> QED BY <3>1 DEF Alone
  <2> QED BY <2>3, <2>4
<1>9. ASSUME NEW p \in Procs, InitBuild(p) PROVE Alone'
  <2>1. /\ pc[p] = "build" /\ \A q \in Procs \ {p} : pc'[q] = pc[q]
        /\ pc'[p] \in {"idle", "show"}
        /\ zonesPage' = loc[p].read
        /\ UNCHANGED <<numPages, currentPage, overlapped>>
    BY <1>9 DEF InitBuild, TypeOK
  <2>2. Changing(p)
    BY <2>1 DEF Changing
  <2>3. ~overlapped => Settled'
    BY <2>1 DEF Alone, OnItsWay, Settled
  <2>4. CASE pc'[p] = "show"
    <3>1. Changing(p)' /\ (~overlapped => OnItsWay(p)')
      BY <2>3, <2>4 DEF Changing, OnItsWay
    <3> QED BY <2>1, <2>2, <3>1, GoOnAlone
  <2>5. CASE pc'[p] = "idle"
    BY <2>1, <2>2, <2>3, <2>5, FinishAlone
  <2> QED BY <2>1, <2>4, <2>5
<1>10. ASSUME NEW p \in Navs, NEW target \in Pages, SwitchPage(p, target) PROVE Alone'
  <2>1. /\ p \in Procs /\ pc[p] = "idle" /\ BeginChange(p) /\ target < numPages
        /\ \A q \in Procs \ {p} : pc'[q] = pc[q]
        /\ UNCHANGED <<numPages, currentPage, zonesPage>>
    BY <1>10, <1>t DEF SwitchPage, TypeOK
  <2>2. ~Changing(p)
    BY <2>1 DEF Changing
  <2>3. ASSUME ~overlapped' PROVE IF Changing(p)' THEN OnItsWay(p)' ELSE Settled'
    <3>1. Settled
      BY <2>1, <2>2, <2>3, BeginAlone
    <3>2. pc'[p] = "leave" /\ loc'[p].target = target
      BY <1>10, <2>1, <3>1 DEF SwitchPage, Settled, TypeOK, Locals
    <3> QED BY <2>1, <3>1, <3>2 DEF OnItsWay, Settled, Changing
  <2> QED BY <2>1, <2>2, <2>3, StartAlone
<1>11. ASSUME NEW p \in Navs, SwitchLeave(p) PROVE Alone'
  <2>1. /\ p \in Procs /\ pc[p] = "leave" /\ pc'[p] = "read"
        /\ \A q \in Procs \ {p} : pc'[q] = pc[q]
        /\ currentPage' = loc[p].target
        /\ UNCHANGED <<numPages, zonesPage, overlapped>>
    BY <1>11, <1>t DEF SwitchLeave, TypeOK
  <2>2. Changing(p) /\ Changing(p)'
    BY <2>1 DEF Changing
  <2>3. ~overlapped => OnItsWay(p)'
    BY <2>1 DEF Alone, OnItsWay
  <2> QED BY <2>1, <2>2, <2>3, GoOnAlone
<1>12. ASSUME NEW p \in Editors, NEW n \in 1..MaxPages, Reload(p, n) PROVE Alone'
  <2>1. /\ p \in Procs /\ pc[p] = "idle" /\ pc'[p] = "clamp" /\ BeginChange(p)
        /\ \A q \in Procs \ {p} : pc'[q] = pc[q]
    BY <1>12, <1>t DEF Reload, TypeOK
  <2>2. ~Changing(p) /\ Changing(p)' /\ OnItsWay(p)'
    BY <2>1 DEF Changing, OnItsWay
  <2> QED BY <2>1, <2>2, StartAlone
<1>13. ASSUME NEW p \in Editors, ReloadClamp(p) PROVE Alone'
  <2>1. /\ p \in Procs /\ pc[p] = "clamp" /\ pc'[p] = "read"
        /\ \A q \in Procs \ {p} : pc'[q] = pc[q]
        /\ currentPage' < numPages'
        /\ UNCHANGED overlapped
    BY <1>13, <1>t DEF ReloadClamp, TypeOK, Pages
  <2>2. Changing(p) /\ Changing(p)' /\ OnItsWay(p)'
    BY <2>1 DEF Changing, OnItsWay
  <2> QED BY <2>1, <2>2, GoOnAlone
<1>14. ASSUME FingerLost PROVE Alone'
  BY <1>14, BystanderAlone DEF FingerLost
<1>15. ASSUME UNCHANGED vars PROVE Alone'
  BY <1>15, BystanderAlone DEF vars
<1> QED
  BY <1>1, <1>2, <1>3, <1>4, <1>5, <1>6, <1>7, <1>8, <1>9, <1>10, <1>11, <1>12,
     <1>13, <1>14, <1>15, <1>t
     DEF Next, Packets, Lift, TouchStep, NavStep, EditorStep

LEMMA AloneAlways == Spec => [](TypeOK /\ Alone)
<1>1. Init => TypeOK /\ Alone
  BY InitType, InitAlone
<1>2. TypeOK /\ Alone /\ [Next]_vars => (TypeOK /\ Alone)'
  BY NextType, NextAlone
<1> QED BY <1>1, <1>2, PTL DEF Spec

LEMMA RestingIsSettled == TypeOK /\ Alone => ZonesFollowPage /\ PageInLayout
<1> SUFFICES ASSUME TypeOK, Alone, Resting, ~overlapped
             PROVE  zonesPage = currentPage /\ currentPage < numPages
  BY DEF ZonesFollowPage, PageInLayout
<1>1. \A p \in Procs : ~Changing(p)
  BY DEF Resting, Changing
<1> QED BY <1>1 DEF Alone, Settled

\* As long as page changes do not overlap, once every goroutine is done the zones on
\* display are those of currentPage.
THEOREM ZonesFollowPageAlways == Spec => []ZonesFollowPage
BY AloneAlways, RestingIsSettled, PTL

\* ... and currentPage is a page of the layout, however layouts shrink.
THEOREM PageInLayoutAlways == Spec => []PageInLayout
BY AloneAlways, RestingIsSettled, PTL

-----------------------------------------------------------------------------
(* The touch goroutine alone implements PageBook                           *)
(*                                                                         *)
(* The boundary flag of a live swipe is computed once, when it starts.  As *)
(* long as nobody else changes the page and the finger does not turn back  *)
(* it goes on saying whether the page has a neighbour on that side, so the *)
(* target of a committed swipe is that neighbour.  A swipe whose finger    *)
(* went with the device has lost this: it may go to any neighbour, round   *)
(* the end too.                                                            *)

OnlyTouch == Navs = {} /\ Editors = {} /\ ~MayReverse

Turned(p) == \/ p = currentPage + 1 /\ p < numPages
             \/ p + 1 = currentPage

Round(p) == \/ currentPage = 0 /\ p = numPages - 1
            \/ currentPage = numPages - 1 /\ p = 0

FlagHolds ==
  /\ currentPage < numPages
  /\ live.active /\ ~live.orphan /\ pc[Touch] = "idle" =>
       /\ finger.down /\ live.left = finger.left
       /\ live.boundary = AtEdge(currentPage, live.left, numPages)
  /\ pc[Touch] = "commit" => \/ Turned(loc[Touch].target)
                             \/ live.orphan /\ Round(loc[Touch].target)
  /\ pc[Touch] \notin {"idle", "commit", "cancel"} => ~live.active

\* A swipe that is not at the edge goes to the page next to it.
LEMMA NeighbourTurns ==
  ASSUME TypeOK, currentPage < numPages, NEW left \in BOOLEAN,
         ~AtEdge(currentPage, left, numPages)
  PROVE  Turned(Neighbour(currentPage, left, numPages))
<1>1. /\ currentPage \in Nat /\ numPages \in Nat \ {0}
  BY DEF TypeOK, Pages
<1>2. CASE left
  <2>1. currentPage + 1 < numPages
    BY <1>1, <1>2 DEF AtEdge
  <2>2. (currentPage + 1) % numPages = currentPage + 1
    BY <1>1, <2>1
  <2> QED BY <1>2, <2>1, <2>2 DEF Neighbour, Turned
<1>3. CASE ~left
  BY <1>1, <1>3 DEF AtEdge, Neighbour, Turned
<1> QED BY <1>2, <1>3

\* One that is goes round it, and so does one on a layout of one page.
LEMMA NeighbourGoes ==
  ASSUME TypeOK, currentPage < numPages, NEW left \in BOOLEAN
  PROVE  LET p == Neighbour(currentPage, left, numPages) IN Turned(p) \/ Round(p)
<1>1. CASE ~AtEdge(currentPage, left, numPages)
  BY <1>1, NeighbourTurns
<1>2. CASE AtEdge(currentPage, left, numPages)
  <2>1. currentPage \in Nat /\ numPages \in Nat \ {0}
    BY DEF TypeOK, Pages
  <2>2. CASE left
    <3>1. currentPage = numPages - 1
      BY <1>2, <2>2 DEF AtEdge
    <3>2. (currentPage + 1) % numPages = 0
      BY <2>1, <3>1
    <3> QED BY <2>2, <3>1, <3>2 DEF Neighbour, Round
  <2>3. CASE ~left
    BY <1>2, <2>3 DEF AtEdge, Neighbour, Round
  <2> QED BY <2>2, <2>3
<1> QED BY <1>1, <1>2

LEMMA InitFlag == Init => FlagHolds
<1> SUFFICES ASSUME Init PROVE FlagHolds
  OBVIOUS
<1>1. currentPage < numPages
  BY ConstantsAssumption DEF Init
<1>2. pc[Touch] = "idle" /\ ~live.active
  BY DEF Init, Procs, NoSwipe
<1> QED BY <1>1, <1>2 DEF FlagHolds

\* A finger on the display goes on in the direction it has.
KeepsDirection == finger.down /\ finger'.down => finger'.left = finger.left

LEMMA NextFlag ==
  ASSUME Navs = {}, Editors = {}, TypeOK, FlagHolds, [Next]_vars, KeepsDirection
  PROVE  FlagHolds' /\ [Book!Next]_<<numPages, currentPage>>
<1> USE DEF Goto, Return, page
<1>t. Procs = {Touch} /\ Navs = {} /\ Editors = {}
  BY DEF Procs
<1> DEFINE Goal == FlagHolds' /\ [Book!Next]_<<numPages, currentPage>>
<1>1. ASSUME NEW e \in BOOLEAN, RenderTick(e) PROVE Goal
  BY <1>1 DEF RenderTick, FlagHolds, Turned, Round
<1>2. ASSUME CooldownEnds PROVE Goal
  BY <1>2 DEF CooldownEnds, FlagHolds, Turned, Round
<1>3. ASSUME NEW left \in BOOLEAN, NEW g \in Drags,
             IgnoreStray(left, g) \/ BeginSwipe(left, g) \/ MoveSwipe(left, g)
      PROVE  Goal
  <2>1. /\ pc[Touch] = "idle" /\ UNCHANGED <<numPages, currentPage, pc, loc>>
        /\ finger'.down /\ finger'.left = left
        /\ finger.down => left = finger.left
    BY <1>3, <1>t DEF IgnoreStray, BeginSwipe, MoveSwipe, Packet, TouchReady, KeepsDirection
  <2>2. CASE IgnoreStray(left, g)
    BY <2>1, <2>2 DEF IgnoreStray, FlagHolds
  <2>3. CASE BeginSwipe(left, g)
    <3>1. live'.left = left /\ live'.boundary = AtEdge(currentPage, left, numPages)
      BY <2>3 DEF BeginSwipe, Advance
    <3> QED BY <2>1, <3>1 DEF FlagHolds, AtEdge
  <2>4. CASE MoveSwipe(left, g)
    <3>1. /\ live.active /\ live'.left = left /\ live'.boundary = live.boundary
          /\ live'.orphan = live.orphan
      BY <2>4 DEF MoveSwipe, Advance, TypeOK, Live
    <3>2. ~live.orphan => live.left = left
      BY <2>1, <3>1 DEF FlagHolds
    <3> QED BY <2>1, <3>1, <3>2 DEF FlagHolds, AtEdge
  <2> QED BY <1>3, <2>2, <2>3, <2>4
<1>4. ASSUME ReleaseToCancel \/ FinalizeBoundary PROVE Goal
  <2>1. pc'[Touch] = "cancel" /\ UNCHANGED <<numPages, currentPage>>
    BY <1>4, <1>t DEF ReleaseToCancel, FinalizeBoundary, TypeOK
  <2> QED BY <2>1 DEF FlagHolds
<1>5. ASSUME FinalizeNothing PROVE Goal
  BY <1>5 DEF FinalizeNothing, Lifted, TouchReady, FlagHolds
<1>6. ASSUME CancelLiveSwipe PROVE Goal
  <2>1. pc'[Touch] = "idle" /\ UNCHANGED <<numPages, currentPage>> /\ ~live'.active
    BY <1>6, <1>t DEF CancelLiveSwipe, TypeOK, NoSwipe, Live
  <2> QED BY <2>1 DEF FlagHolds
<1>7. ASSUME FinalizeTarget PROVE Goal
  <2>1. /\ live.active /\ ~live.boundary /\ pc[Touch] = "idle" /\ pc'[Touch] = "commit"
        /\ loc'[Touch].target = Neighbour(currentPage, live.left, numPages)
        /\ UNCHANGED <<numPages, currentPage>>
    BY <1>7, <1>t DEF FinalizeTarget, Lifted, TouchReady, TypeOK, Locals
  <2>2. live.left \in BOOLEAN /\ currentPage < numPages /\ live' = live
    BY <1>7 DEF FinalizeTarget, TypeOK, Live, FlagHolds
  <2>3. \/ Turned(Neighbour(currentPage, live.left, numPages))
        \/ live.orphan /\ Round(Neighbour(currentPage, live.left, numPages))
    <3>1. CASE live.orphan
      BY <2>2, <3>1, NeighbourGoes
    <3>2. CASE ~live.orphan
      BY <2>1, <2>2, <3>2, NeighbourTurns DEF FlagHolds
    <3> QED BY <3>1, <3>2
  <2> QED BY <2>1, <2>2, <2>3 DEF FlagHolds, Turned, Round
<1>8. ASSUME FinalizeCommit PROVE Goal
  <2>1. /\ pc[Touch] = "commit" /\ pc'[Touch] = "read" /\ ~live'.active
        /\ currentPage' = loc[Touch].target /\ UNCHANGED numPages
    BY <1>8, <1>t DEF FinalizeCommit, TypeOK, NoSwipe
  <2>2. Turned(currentPage') \/ (live.orphan /\ Round(currentPage'))
    BY <2>1 DEF FlagHolds
  <2>3. currentPage \in Nat /\ currentPage' \in Nat /\ numPages \in Nat
    BY <2>1, <1>t DEF TypeOK, Pages, Locals
  <2>4. currentPage' < numPages
    <3>1. currentPage < numPages
      BY DEF FlagHolds
    <3>2. CASE currentPage' = currentPage + 1 /\ currentPage' < numPages
      BY <3>2
    <3>3. CASE currentPage' + 1 = currentPage
      <4> HIDE DEF Goal
      <4>1. \A i, j, n \in Nat : i + 1 = j /\ j < n => i < n
        OBVIOUS
      <4> QED BY <2>3, <3>1, <3>3, <4>1
    <3>4. CASE Round(currentPage')
      BY <2>3, <3>1, <3>4 DEF Round
    <3> QED BY <2>2, <3>2, <3>3, <3>4 DEF Turned
  <2>5. Book!Next
    <3>1. CASE Turned(currentPage')
      BY <2>1, <2>3, <3>1 DEF Turned, Book!Next, Book!TurnForward, Book!TurnBack
    <3>2. CASE live.orphan /\ Round(currentPage')
      BY <2>1, <3>2 DEF Round, Book!Next, Book!GoRound
    <3> QED BY <2>2, <3>1, <3>2
  <2> QED BY <2>1, <2>4, <2>5 DEF FlagHolds
<1>9. ASSUME FinalizeShow PROVE Goal
  <2>1. pc[Touch] = "show" /\ pc'[Touch] = "idle"
        /\ UNCHANGED <<numPages, currentPage, live>>
    BY <1>9, <1>t DEF FinalizeShow, TypeOK
  <2> QED BY <2>1 DEF FlagHolds
<1>10. ASSUME InitRead(Touch) \/ InitBuild(Touch) PROVE Goal
  <2>1. /\ pc[Touch] \in {"read", "build"} /\ pc'[Touch] \in {"build", "show"}
        /\ UNCHANGED <<numPages, currentPage, live>>
    BY <1>10, <1>t, ConstantsAssumption DEF InitRead, InitBuild, TypeOK, FlagHolds
  <2> QED BY <2>1 DEF FlagHolds
<1>11. ASSUME UNCHANGED vars PROVE Goal
  BY <1>11 DEF vars, FlagHolds, Turned, Round
<1>12. ASSUME FingerLost PROVE Goal
  <2>1. /\ pc[Touch] = "idle" /\ pc' = pc /\ UNCHANGED <<numPages, currentPage>>
        /\ live'.active => live'.orphan
    BY <1>12 DEF FingerLost, TouchReady, TypeOK, Live
  <2> QED BY <2>1 DEF FlagHolds
<1> QED
  BY <1>1, <1>2, <1>3, <1>4, <1>5, <1>6, <1>7, <1>8, <1>9, <1>10, <1>11, <1>12, <1>t
     DEF Next, Packets, Lift, TouchStep

LEMMA FingerKeeps ==
  ASSUME OnlyTouch, TypeOK, [Next]_vars
  PROVE  KeepsDirection
<1>1. CASE Packets
  BY <1>1 DEF Packets, IgnoreStray, BeginSwipe, MoveSwipe, Packet, OnlyTouch, KeepsDirection
<1>2. CASE Lift
  BY <1>2 DEF Lift, ReleaseToCancel, FinalizeNothing, FinalizeBoundary, FinalizeTarget, Lifted,
              NoFinger, KeepsDirection
<1>3. CASE UNCHANGED finger \/ FingerLost
  BY <1>3 DEF FingerLost, NoFinger, KeepsDirection
<1> QED BY <1>1, <1>2, <1>3 DEF Next, RenderTick, CooldownEnds, TouchStep, CancelLiveSwipe,
        FinalizeCommit, FinalizeShow, InitRead, InitBuild, OnlyTouch, vars

LEMMA NextFlagAlone ==
  ASSUME OnlyTouch, TypeOK, FlagHolds, [Next]_vars
  PROVE  FlagHolds' /\ [Book!Next]_<<numPages, currentPage>>
<1>1. Navs = {} /\ Editors = {}
  BY DEF OnlyTouch
<1> QED BY <1>1, FingerKeeps, NextFlag

\* With swipes that keep their direction and no other goroutine on the manager, a
\* swipe turns one page and never goes round the end, whatever the number of pages,
\* but for what is left of a swipe whose finger went with the device.
THEOREM ImplementsPageBook ==
  ASSUME OnlyTouch
  PROVE  Spec => BookSpec
<1>1. Init => TypeOK /\ FlagHolds
  BY InitType, InitFlag
<1>2. TypeOK /\ FlagHolds /\ [Next]_vars => (TypeOK /\ FlagHolds)'
  BY NextType, NextFlagAlone
<1>3. TypeOK /\ FlagHolds /\ [Next]_vars => [Book!Next]_<<numPages, currentPage>>
  BY NextFlagAlone
<1>4. Init => Book!Init
  BY DEF Init, Book!Init
<1> QED BY <1>1, <1>2, <1>3, <1>4, PTL DEF Spec, BookSpec, Book!Spec

-----------------------------------------------------------------------------
(* TouchReader *)

-----------------------------------------------------------------------------
(* The arithmetic *)

LEMMA MinMax ==
  ASSUME NEW a \in Int, NEW b \in Int
  PROVE  /\ Min({a, b}) = IF a <= b THEN a ELSE b
         /\ Max({a, b}) = IF a <= b THEN b ELSE a
<1>1. Min({a, b}) = IF a <= b THEN a ELSE b
  <2>1. CASE a <= b
    <3>1. \A x \in {a, b} : (\A y \in {a, b} : x =< y) <=> x = a
      BY <2>1
    <3> QED BY <2>1, <3>1 DEF Min
  <2>2. CASE ~(a <= b)
    <3>1. \A x \in {a, b} : (\A y \in {a, b} : x =< y) <=> x = b
      BY <2>2
    <3> QED BY <2>2, <3>1 DEF Min
  <2> QED BY <2>1, <2>2
<1>2. Max({a, b}) = IF a <= b THEN b ELSE a
  <2>1. CASE a <= b
    <3>1. \A x \in {a, b} : (\A y \in {a, b} : x >= y) <=> x = b
      BY <2>1
    <3> QED BY <2>1, <3>1 DEF Max
  <2>2. CASE ~(a <= b)
    <3>1. \A x \in {a, b} : (\A y \in {a, b} : x >= y) <=> x = a
      BY <2>2
    <3> QED BY <2>2, <3>1 DEF Max
  <2> QED BY <2>1, <2>2
<1> QED BY <1>1, <1>2

\* The filter gives a position between the one it gave before and the one reported.
LEMMA FilterBetween ==
  ASSUME NEW before \in Positions, NEW raw \in Positions, NEW xi \in Filter(before, raw)
  PROVE  /\ xi \in Positions
         /\ \/ before <= xi /\ xi <= raw
            \/ raw <= xi /\ xi <= before
<1>1. before \in Int /\ raw \in Int
  BY DEF Positions
<1>2. /\ Min({before, raw}) = IF before <= raw THEN before ELSE raw
      /\ Max({before, raw}) = IF before <= raw THEN raw ELSE before
  BY <1>1, MinMax
<1> QED BY <1>1, <1>2, TouchAssumption DEF Filter, Positions

\* A finger that has not moved does not swipe; one that has, went its seven hundredths.
LEMMA Threshold ==
  ASSUME NEW d \in Nat, NEW frac \in swipeStartFrac, AtLeast(d, frac)
  PROVE  d # 0 /\ AtLeast(d, 7)
<1>1. frac = 7 \/ frac = 8 \/ frac = 9
  BY DEF swipeStartFrac
<1>2. Width \in Nat /\ Width > 0
  BY TouchAssumption
<1>3. 100 * d >= 7 * Width
  <2>1. CASE frac = 7
    BY <2>1 DEF AtLeast
  <2>2. CASE frac = 8
    BY <1>2, <2>2 DEF AtLeast
  <2>3. CASE frac = 9
    BY <1>2, <2>3 DEF AtLeast
  <2> QED BY <1>1, <2>1, <2>2, <2>3
<1> QED BY <1>2, <1>3 DEF AtLeast

LEMMA LevelType ==
  ASSUME NEW d \in Nat
  PROVE  Level(d) \in Drags
BY DEF Level, Drags, Far, Full

-----------------------------------------------------------------------------
(* Every step of the reader is one of the manager, or none *)

LEMMA NavSteps ==
  ASSUME reader \in Readers, [TouchNext]_all
  PROVE  [Next]_vars
<1>1. CASE \E r \in Positions : Press(r)
  BY <1>1 DEF Press, nav
<1>2. CASE LiftSwipe
  BY <1>2 DEF LiftSwipe, Next, Lift
<1>3. CASE LiftLong \/ Tap \/ TapOverlay \/ Unplug \/ Replug
  BY <1>3 DEF LiftLong, Tap, TapOverlay, Unplug, Replug, nav, Next
<1>4. CASE Elsewhere
  BY <1>4 DEF Elsewhere, Next
<1>5. CASE UNCHANGED all
  BY <1>5 DEF all
<1>6. ASSUME NEW r \in Positions, Hold(r) PROVE [Next]_vars
  <2>1. PICK xi \in Filter(reader.x, r), frac \in swipeStartFrac :
          LET d == Distance(xi, reader.start)
              left == xi < reader.start
          IN \/ IgnoreStray(left, Level(d))
             \/ BeginSwipe(left, Level(d))
             \/ MoveSwipe(left, Level(d))
             \/ UNCHANGED nav
    BY <1>6 DEF Hold
  <2>2. xi \in Positions /\ reader.start \in Positions /\ reader.x \in Positions
    BY <1>6, FilterBetween DEF Readers
  <2>3. Distance(xi, reader.start) \in Nat /\ (xi < reader.start) \in BOOLEAN
    BY <2>2, TouchAssumption DEF Distance, Positions
  <2>4. Level(Distance(xi, reader.start)) \in Drags
    BY <2>3, LevelType
  <2> QED BY <2>1, <2>3, <2>4 DEF Next, Packets, nav
<1> QED BY <1>1, <1>2, <1>3, <1>4, <1>5, <1>6 DEF TouchNext

-----------------------------------------------------------------------------
(* What the reader knows of a touch *)

\* The way the finger went contains where it started and where the filter has it.
Between(x) == gesture.lo <= x /\ x <= gesture.hi

ReaderOK ==
  /\ reader \in Readers /\ at \in Positions /\ plugged \in BOOLEAN
  /\ gesture.kind \in Kinds /\ gesture.lo \in Positions /\ gesture.hi \in Positions
  /\ gesture = [kind |-> gesture.kind, zone |-> gesture.zone, lo |-> gesture.lo, hi |-> gesture.hi]
  /\ reader.active => reader.down
  /\ reader.down =>
       /\ gesture.kind = "down"
       /\ Between(at) /\ Between(reader.x) /\ Between(reader.start)
  /\ reader.active => AtLeast(gesture.hi - gesture.lo, 7)

GestureInv == ReaderOK /\ SwipesMove /\ TapsHit

LEMMA InitGesture == TouchInit => GestureInv
<1> SUFFICES ASSUME TouchInit PROVE GestureInv
  OBVIOUS
<1>1. 0 \in Positions
  BY TouchAssumption DEF Positions
<1> QED BY <1>1 DEF TouchInit, NewReader, NoTouch, GestureInv, ReaderOK, SwipesMove, TapsHit,
            Readers, Kinds

\* d grows with the way.
LEMMA AtLeastMore ==
  ASSUME NEW d \in Int, NEW e \in Int, d <= e, AtLeast(d, 7)
  PROVE  AtLeast(e, 7)
BY TouchAssumption DEF AtLeast

LEMMA PressGesture ==
  ASSUME Rested, ReaderOK, NEW r \in Positions, Press(r)
  PROVE  GestureInv'
<1>1. /\ reader' = [down |-> TRUE, start |-> r, x |-> r, active |-> FALSE] /\ at' = r
      /\ gesture' = [kind |-> "down", zone |-> 0, lo |-> r, hi |-> r] /\ plugged' = plugged
  BY DEF Press, NoTouch
<1>2. r <= r
  BY TouchAssumption DEF Positions
<1> QED BY <1>1, <1>2 DEF GestureInv, ReaderOK, SwipesMove, TapsHit, Readers, Kinds, Between

LEMMA HoldFacts ==
  ASSUME ReaderOK, NEW r \in Positions, Hold(r)
  PROVE  /\ \E xi \in Positions, frac \in swipeStartFrac :
              /\ (reader.x <= xi /\ xi <= r) \/ (r <= xi /\ xi <= reader.x)
              /\ reader' = [reader EXCEPT !.x = xi, !.active =
                              reader.active \/ AtLeast(Distance(xi, reader.start), frac)]
         /\ gesture'.lo = IF gesture.lo <= r THEN gesture.lo ELSE r
         /\ gesture'.hi = IF gesture.hi <= r THEN r ELSE gesture.hi
         /\ gesture'.kind = "down" /\ gesture'.zone = gesture.zone
         /\ gesture' = [gesture EXCEPT !.lo = gesture'.lo, !.hi = gesture'.hi]
         /\ reader.down /\ at' = r /\ plugged' = plugged
<1>1. gesture.lo \in Int /\ gesture.hi \in Int /\ r \in Int
  BY TouchAssumption DEF ReaderOK, Positions
<1>2. gesture' = [gesture EXCEPT !.lo = IF gesture.lo <= r THEN gesture.lo ELSE r,
                                 !.hi = IF gesture.hi <= r THEN r ELSE gesture.hi]
  BY <1>1, MinMax DEF Hold
<1>3. PICK xi \in Filter(reader.x, r), frac \in swipeStartFrac :
        reader' = [reader EXCEPT !.x = xi, !.active =
                     reader.active \/ AtLeast(Distance(xi, reader.start), frac)]
  BY DEF Hold
<1>4. xi \in Positions /\ ((reader.x <= xi /\ xi <= r) \/ (r <= xi /\ xi <= reader.x))
  BY FilterBetween DEF ReaderOK, Readers
<1>5. reader.down /\ at' = r /\ plugged' = plugged /\ gesture.kind = "down"
  BY DEF Hold, ReaderOK
<1>6. /\ gesture'.lo = IF gesture.lo <= r THEN gesture.lo ELSE r
      /\ gesture'.hi = IF gesture.hi <= r THEN r ELSE gesture.hi
      /\ gesture'.kind = "down" /\ gesture'.zone = gesture.zone
  BY <1>2, <1>5 DEF ReaderOK
<1> QED BY <1>2, <1>3, <1>4, <1>5, <1>6

LEMMA HoldGesture ==
  ASSUME ReaderOK, NEW r \in Positions, Hold(r)
  PROVE  GestureInv'
<1>1. PICK xi \in Positions, frac \in swipeStartFrac :
         /\ (reader.x <= xi /\ xi <= r) \/ (r <= xi /\ xi <= reader.x)
         /\ reader' = [reader EXCEPT !.x = xi, !.active =
                         reader.active \/ AtLeast(Distance(xi, reader.start), frac)]
  BY HoldFacts
<1>2. /\ gesture'.lo = IF gesture.lo <= r THEN gesture.lo ELSE r
      /\ gesture'.hi = IF gesture.hi <= r THEN r ELSE gesture.hi
      /\ gesture'.kind = "down" /\ gesture'.zone = gesture.zone
      /\ gesture' = [gesture EXCEPT !.lo = gesture'.lo, !.hi = gesture'.hi]
      /\ reader.down /\ at' = r /\ plugged' = plugged
  BY HoldFacts
<1>3. /\ reader'.x = xi /\ reader'.start = reader.start /\ reader'.down
      /\ reader'.active <=> reader.active \/ AtLeast(Distance(xi, reader.start), frac)
      /\ reader' \in Readers
  BY <1>1, <1>2 DEF ReaderOK, Readers
<1>4. /\ gesture.lo \in Int /\ gesture.hi \in Int /\ r \in Int /\ xi \in Int
      /\ reader.x \in Int /\ reader.start \in Int
  BY TouchAssumption DEF ReaderOK, Positions, Readers
<1>5. /\ gesture.lo <= reader.x /\ reader.x <= gesture.hi
      /\ gesture.lo <= reader.start /\ reader.start <= gesture.hi
  BY <1>2 DEF ReaderOK, Between
<1>6. /\ gesture'.lo <= r /\ r <= gesture'.hi
      /\ gesture'.lo <= xi /\ xi <= gesture'.hi
      /\ gesture'.lo <= reader.start /\ reader.start <= gesture'.hi
      /\ gesture.hi - gesture.lo <= gesture'.hi - gesture'.lo
  BY <1>1, <1>2, <1>4, <1>5
<1>7. gesture'.lo \in Positions /\ gesture'.hi \in Positions
  BY <1>2 DEF ReaderOK
<1>8. reader'.active => AtLeast(gesture'.hi - gesture'.lo, 7)
  <2>1. /\ gesture.hi - gesture.lo \in Int /\ gesture'.hi - gesture'.lo \in Int
    BY <1>2, <1>4
  <2>2. CASE reader.active
    BY <1>6, <2>1, <2>2, AtLeastMore DEF ReaderOK
  <2>3. CASE AtLeast(Distance(xi, reader.start), frac)
    <3>1. Distance(xi, reader.start) \in Nat /\ Distance(xi, reader.start) <= gesture'.hi - gesture'.lo
      BY <1>2, <1>4, <1>6 DEF Distance
    <3> QED BY <2>1, <2>3, <3>1, Threshold, AtLeastMore
  <2> QED BY <1>3, <2>2, <2>3
<1>9. ReaderOK'
  <2>1. gesture' = [kind |-> gesture'.kind, zone |-> gesture'.zone,
                    lo |-> gesture'.lo, hi |-> gesture'.hi]
    BY <1>2 DEF ReaderOK
  <2>2. gesture'.kind \in Kinds /\ at' \in Positions /\ plugged' \in BOOLEAN
    BY <1>2 DEF Kinds, ReaderOK
  <2>3. reader'.down => Between(at)' /\ Between(reader.x)' /\ Between(reader.start)'
    BY <1>2, <1>3, <1>6 DEF Between
  <2> QED BY <1>2, <1>3, <1>7, <1>8, <2>1, <2>2, <2>3 DEF ReaderOK
<1> QED BY <1>2, <1>9 DEF GestureInv, SwipesMove, TapsHit

\* The finger is lifted, or the panel comes or goes: the way stays what it was.
LEMMA LiftGesture ==
  ASSUME Rested, ReaderOK, Up
  PROVE  /\ reader.down /\ ~reader'.down /\ ~reader'.active /\ reader' \in Readers
         /\ at' = at /\ plugged' = plugged
<1>1. reader' = [NewReader EXCEPT !.x = 0] /\ reader.down /\ at' = at /\ plugged' = plugged
  BY DEF Up
<1>2. 0 \in Positions
  BY TouchAssumption DEF Positions
<1> QED BY <1>1, <1>2 DEF NewReader, Readers

LEMMA NextGesture == Rested /\ GestureInv /\ [TouchNext]_all => GestureInv'
<1> SUFFICES ASSUME Rested, GestureInv, [TouchNext]_all PROVE GestureInv'
  OBVIOUS
<1>t. ReaderOK
  BY DEF GestureInv
<1>1. ASSUME NEW r \in Positions, Press(r) PROVE GestureInv'
  BY <1>t, <1>1, PressGesture
<1>2. ASSUME NEW r \in Positions, Hold(r) PROVE GestureInv'
  BY <1>t, <1>2, HoldGesture
<1>3. ASSUME Up, NEW kind \in Kinds \ {"down"}, NEW zone,
             gesture' = [gesture EXCEPT !.kind = kind, !.zone = zone]
      PROVE  /\ ReaderOK'
             /\ gesture'.kind = kind /\ gesture'.zone = zone
             /\ gesture'.lo = gesture.lo /\ gesture'.hi = gesture.hi
  <2>1. /\ gesture'.kind = kind /\ gesture'.zone = zone
        /\ gesture'.lo = gesture.lo /\ gesture'.hi = gesture.hi
        /\ gesture' = [kind |-> gesture'.kind, zone |-> gesture'.zone,
                       lo |-> gesture'.lo, hi |-> gesture'.hi]
    BY <1>t, <1>3 DEF ReaderOK
  <2> QED BY <1>t, <1>3, <2>1, LiftGesture DEF ReaderOK
<1>4. CASE LiftSwipe
  <2>1. PICK kind \in {"commit", "cancel"} : gesture' = [gesture EXCEPT !.kind = kind]
    BY <1>4 DEF LiftSwipe
  <2>2. gesture' = [gesture EXCEPT !.kind = kind, !.zone = gesture.zone]
    BY <1>t, <2>1 DEF ReaderOK
  <2>3. Up /\ reader.active /\ kind \in Kinds \ {"down"}
    BY <1>4 DEF LiftSwipe, Kinds
  <2>4. /\ ReaderOK' /\ gesture'.kind = kind
        /\ gesture'.lo = gesture.lo /\ gesture'.hi = gesture.hi
    BY <1>3, <2>2, <2>3
  <2>5. AtLeast(gesture.hi - gesture.lo, 7)
    BY <1>t, <2>3 DEF ReaderOK
  <2> QED BY <2>4, <2>5 DEF GestureInv, SwipesMove, TapsHit
<1>5. CASE LiftLong \/ TapOverlay
  <2>1. PICK kind \in {"long", "overlay"} : gesture' = [gesture EXCEPT !.kind = kind]
    BY <1>5 DEF LiftLong, TapOverlay
  <2>2. gesture' = [gesture EXCEPT !.kind = kind, !.zone = gesture.zone]
    BY <1>t, <2>1 DEF ReaderOK
  <2>3. Up /\ kind \in Kinds \ {"down"}
    BY <1>5 DEF LiftLong, TapOverlay, Kinds
  <2>4. ReaderOK' /\ gesture'.kind = kind
    BY <1>3, <2>2, <2>3
  <2> QED BY <2>4 DEF GestureInv, SwipesMove, TapsHit
<1>6. CASE Tap
  <2>1. Up
    BY <1>6 DEF Tap
  <2>2. CASE gesture' = [gesture EXCEPT !.kind = "none"]
    <3>1. gesture' = [gesture EXCEPT !.kind = "none", !.zone = gesture.zone]
      BY <1>t, <2>2 DEF ReaderOK
    <3>2. ReaderOK' /\ gesture'.kind = "none"
      BY <1>3, <2>1, <3>1 DEF Kinds
    <3> QED BY <3>2 DEF GestureInv, SwipesMove, TapsHit
  <2>3. CASE gesture' = [gesture EXCEPT !.kind = "tap", !.zone = ZoneAt(reader.x)]
    <3>1. /\ ReaderOK' /\ gesture'.kind = "tap" /\ gesture'.zone = ZoneAt(reader.x)
          /\ gesture'.lo = gesture.lo /\ gesture'.hi = gesture.hi
      BY <1>3, <2>1, <2>3 DEF Kinds
    <3>2. reader.x \in gesture.lo..gesture.hi
      BY <1>t, <2>1, LiftGesture, TouchAssumption DEF ReaderOK, Between, Readers, Positions
    <3> QED BY <3>1, <3>2 DEF GestureInv, SwipesMove, TapsHit
  <2> QED BY <1>6, <2>2, <2>3 DEF Tap
<1>7. CASE Unplug
  BY <1>7 DEF Unplug, GestureInv, ReaderOK, Between, SwipesMove, TapsHit
<1>8. CASE Replug
  <2>1. 0 \in Positions
    BY TouchAssumption DEF Positions
  <2> QED BY <1>t, <1>8, <2>1 DEF Replug, NewReader, NoTouch, Readers, Kinds,
             GestureInv, ReaderOK, SwipesMove, TapsHit
<1>9. CASE Elsewhere \/ UNCHANGED all
  BY <1>9 DEF Elsewhere, all, touching, GestureInv, ReaderOK, Between, SwipesMove, TapsHit
<1> QED BY <1>1, <1>2, <1>4, <1>5, <1>6, <1>7, <1>8, <1>9 DEF TouchNext

\* A finger that hardly moved is never taken for a swipe, whatever the filter makes of
\* its positions during the touch, as long as touches lie far enough apart for it to
\* forget the one before: without Rested it does not hold.
THEOREM SwipesMoveAlways ==
  ASSUME Rested
  PROVE  TouchSpec => []SwipesMove
<1>1. GestureInv /\ [TouchNext]_all => GestureInv'
  BY NextGesture
<1>2. GestureInv => SwipesMove
  BY DEF GestureInv
<1> QED BY <1>1, <1>2, InitGesture, PTL DEF TouchSpec

\* A tap goes to a zone the finger has been on, as long as touches lie far enough apart
\* for the filter to forget: without Rested it does not hold.
THEOREM TapsHitAlways ==
  ASSUME Rested
  PROVE  TouchSpec => []TapsHit
<1>1. GestureInv /\ [TouchNext]_all => GestureInv'
  BY NextGesture
<1>2. GestureInv => TapsHit
  BY DEF GestureInv
<1> QED BY <1>1, <1>2, InitGesture, PTL DEF TouchSpec

-----------------------------------------------------------------------------
(* A finger that does not turn back                                        *)
(*                                                                         *)
(* The filter follows it from one side only, so that the direction of a    *)
(* live swipe never changes once the swipe has begun.                      *)

\* The finger has gone from lo to hi or from hi to lo, the filter some of that way.
OneWay ==
  \/ /\ reader.start = gesture.lo /\ at = gesture.hi
     /\ reader.start <= reader.x /\ reader.x <= at
  \/ /\ reader.start = gesture.hi /\ at = gesture.lo
     /\ at <= reader.x /\ reader.x <= reader.start

Course ==
  /\ reader.down => OneWay
  /\ reader.active => reader.x # reader.start
  /\ finger.down =>
       plugged /\ reader.active /\ finger.left = (reader.x < reader.start)

\* Where no goroutine but touch is on the manager.
TouchAlone == Rested /\ ~Turns /\ Navs = {} /\ Editors = {}

LEMMA InitCourse == TouchInit => Course
BY DEF TouchInit, Init, NewReader, NoFinger, Course

LEMMA HoldCourse ==
  ASSUME ~Turns, TypeOK, ReaderOK, Course, NEW r \in Positions, Hold(r)
  PROVE  Course' /\ KeepsDirection
<1>1. PICK xi \in Positions, frac \in swipeStartFrac :
        LET d == Distance(xi, reader.start)
            active == reader.active \/ AtLeast(d, frac)
            left == xi < reader.start
        IN /\ (reader.x <= xi /\ xi <= r) \/ (r <= xi /\ xi <= reader.x)
           /\ reader' = [reader EXCEPT !.x = xi, !.active = active]
           /\ IF active
              THEN \/ IgnoreStray(left, Level(d))
                   \/ BeginSwipe(left, Level(d))
                   \/ MoveSwipe(left, Level(d))
              ELSE UNCHANGED nav
  BY FilterBetween DEF Hold, ReaderOK, Readers
<1>2. /\ gesture'.lo = IF gesture.lo <= r THEN gesture.lo ELSE r
      /\ gesture'.hi = IF gesture.hi <= r THEN r ELSE gesture.hi
      /\ reader.down /\ at' = r /\ plugged' = plugged
  BY HoldFacts
<1>3. plugged /\ ((r >= at /\ at = gesture.hi) \/ (r <= at /\ at = gesture.lo))
  BY DEF Hold, Moves, Ready
<1>4. /\ gesture.lo \in Int /\ gesture.hi \in Int /\ r \in Int /\ xi \in Int
      /\ reader.x \in Int /\ reader.start \in Int /\ at \in Int
  BY TouchAssumption DEF ReaderOK, Positions, Readers
<1>5. reader'.x = xi /\ reader'.start = reader.start
  BY <1>1 DEF ReaderOK, Readers
<1>6. OneWay
  BY <1>2 DEF Course
<1>7. OneWay'
  BY <1>1, <1>2, <1>3, <1>4, <1>5, <1>6 DEF OneWay
<1>8. reader.x # reader.start => xi # reader.start /\ (xi < reader.start <=> reader.x < reader.start)
  BY <1>1, <1>2, <1>3, <1>4, <1>6 DEF OneWay
<1>9. reader'.active <=> reader.active \/ AtLeast(Distance(xi, reader.start), frac)
  BY <1>1 DEF ReaderOK, Readers
<1>10. reader'.active => xi # reader.start
  <2>1. CASE reader.active
    BY <1>8, <2>1 DEF Course
  <2>2. CASE AtLeast(Distance(xi, reader.start), frac)
    <3>1. Distance(xi, reader.start) \in Nat
      BY <1>4 DEF Distance
    <3>2. Distance(xi, reader.start) # 0
      BY <2>2, <3>1, Threshold
    <3> QED BY <1>4, <3>2 DEF Distance
  <2> QED BY <1>9, <2>1, <2>2
<1>11. CASE ~reader'.active
  <2>1. UNCHANGED finger
    BY <1>1, <1>9, <1>11 DEF nav, vars
  <2>2. ~finger.down
    BY <1>9, <1>11 DEF Course
  <2> QED BY <1>2, <1>3, <1>7, <1>11, <2>1, <2>2 DEF Course, KeepsDirection
<1>12. CASE reader'.active
  <2>1. finger'.down /\ finger'.left = (xi < reader.start)
    BY <1>1, <1>9, <1>12 DEF IgnoreStray, BeginSwipe, MoveSwipe, Packet
  <2>2. finger.down => reader.x # reader.start /\ finger.left = (reader.x < reader.start)
    BY DEF Course
  <2>3. KeepsDirection
    BY <1>8, <2>1, <2>2 DEF KeepsDirection
  <2> QED BY <1>2, <1>3, <1>5, <1>7, <1>10, <1>12, <2>1, <2>3 DEF Course
<1> QED BY <1>11, <1>12

LEMMA NextCourse ==
  ASSUME TouchAlone, TypeOK, ReaderOK, Course, [TouchNext]_all
  PROVE  Course' /\ KeepsDirection
<1>t. Rested /\ ~Turns /\ Navs = {} /\ Editors = {}
  BY DEF TouchAlone
<1>1. ASSUME NEW r \in Positions, Press(r) PROVE Course' /\ KeepsDirection
  <2>1. /\ reader' = [down |-> TRUE, start |-> r, x |-> r, active |-> FALSE] /\ at' = r
        /\ gesture'.lo = r /\ gesture'.hi = r /\ finger' = finger /\ ~reader.down
    BY <1>t, <1>1 DEF Press, NoTouch, nav, vars
  <2>2. ~finger.down
    BY <2>1 DEF Course, ReaderOK
  <2>3. r <= r
    BY TouchAssumption DEF Positions
  <2> QED BY <2>1, <2>2, <2>3 DEF Course, OneWay, KeepsDirection
<1>2. ASSUME NEW r \in Positions, Hold(r) PROVE Course' /\ KeepsDirection
  BY <1>t, <1>2, HoldCourse
<1>3. CASE LiftSwipe
  <2>1. ~reader'.down /\ ~reader'.active
    BY <1>t, <1>3, LiftGesture DEF LiftSwipe
  <2>2. finger' = NoFinger
    BY <1>3 DEF LiftSwipe, FinalizeNothing, FinalizeBoundary, FinalizeTarget, ReleaseToCancel, Lifted
  <2> QED BY <2>1, <2>2 DEF NoFinger, Course, KeepsDirection
<1>4. CASE LiftLong \/ Tap \/ TapOverlay
  <2>1. Up /\ ~reader.active /\ finger' = finger
    BY <1>4 DEF LiftLong, Tap, TapOverlay, nav, vars
  <2>2. ~reader'.down /\ ~reader'.active
    BY <1>t, <2>1, LiftGesture
  <2> QED BY <2>1, <2>2 DEF Course, KeepsDirection
<1>5. CASE Unplug
  <2>1. ~finger'.down
    BY <1>5 DEF Unplug, FingerLost, NoFinger, nav, vars
  <2> QED BY <1>5, <2>1 DEF Unplug, Course, OneWay, KeepsDirection
<1>6. CASE Replug
  BY <1>6 DEF Replug, NewReader, nav, vars, Course, KeepsDirection
<1>7. CASE Elsewhere
  <2>1. finger' = finger
    BY <1>7 DEF Elsewhere, RenderTick, CooldownEnds, TouchStep, CancelLiveSwipe, FinalizeCommit,
       FinalizeShow, InitRead, InitBuild
  <2> QED BY <1>7, <2>1 DEF Elsewhere, touching, Course, OneWay, KeepsDirection
<1>8. CASE UNCHANGED all
  BY <1>8 DEF all, vars, touching, Course, OneWay, KeepsDirection
<1> QED BY <1>1, <1>2, <1>3, <1>4, <1>5, <1>6, <1>7, <1>8 DEF TouchNext

\* Reader, handler and manager together implement PageBook: with a finger that does not
\* turn back a swipe turns one page and never goes round the end, however slowly the
\* filter follows, for any width of the display and number of pages, but for what is
\* left of a swipe in the middle of which the device went.
THEOREM TouchImplementsPageBook ==
  ASSUME TouchAlone
  PROVE  TouchSpec => BookSpec
<1> DEFINE Inv == TypeOK /\ FlagHolds /\ GestureInv /\ Course
<1>t. Rested /\ Navs = {} /\ Editors = {}
  BY DEF TouchAlone
<1>1. TouchInit => Inv /\ Book!Init
  BY InitType, InitFlag, InitGesture, InitCourse DEF TouchInit, Init, Book!Init
<1>2. ASSUME Inv, [TouchNext]_all PROVE Inv' /\ [Book!Next]_<<numPages, currentPage>>
  <2>1. ReaderOK /\ reader \in Readers
    BY <1>2 DEF GestureInv, ReaderOK
  <2>2. [Next]_vars
    BY <1>2, <2>1, NavSteps
  <2>3. Course' /\ KeepsDirection
    BY <1>2, <2>1, NextCourse
  <2>4. FlagHolds' /\ [Book!Next]_<<numPages, currentPage>>
    BY <1>t, <1>2, <2>2, <2>3, NextFlag
  <2>5. TypeOK' /\ GestureInv'
    BY <1>t, <1>2, <2>2, NextType, NextGesture
  <2> QED BY <2>3, <2>4, <2>5
<1> HIDE DEF Inv
<1> QED BY <1>1, <1>2, PTL DEF TouchSpec, BookSpec, Book!Spec
================================================================================
