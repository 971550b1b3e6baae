-------------------------- MODULE DraftSessionProofs --------------------------
(***************************************************************************)
(* Proofs about DraftSession, for any number of requests, sockets and      *)
(* timers and any set of pages: its types, that no draft is without a      *)
(* timer that will look at it, and that the device shows the layout that   *)
(* is edited.                                                              *)
(***************************************************************************)
EXTENDS DraftSession, TLAPS

-----------------------------------------------------------------------------
(* Types *)

LEMMA LayoutTypes ==
  /\ {} \in Layouts /\ Factory \in Layouts /\ NoLocals \in Locals
  /\ \A l \in Layouts : l # NoDraft /\ renderSafe(l) \in Layouts
BY ConstantsAssumption DEF Layouts, Pages, NoLocals, Locals, NoDraft, renderSafe

LEMMA EditedTypes ==
  ASSUME NEW l \in Layouts
  PROVE  Edited(l) \subseteq Layouts
BY DEF Edited, Layouts

\* Where a goroutine goes and what it remembers keep their types.
LEMMA Moves ==
  ASSUME TypeOK, NEW p \in Procs
  PROVE  /\ \A step \in Steps : Goto(p, step) => pc' \in [Procs -> Steps]
         /\ \A l \in Layouts, then \in {"idle", "show", "discard"} :
              With(p, l, then) => loc' \in [Procs -> Locals]
         /\ Return(p) => pc' \in [Procs -> Steps] /\ loc' \in [Procs -> Locals]
<1>1. \A step \in Steps : Goto(p, step) => pc' \in [Procs -> Steps]
  BY DEF TypeOK, Goto
<1>2. \A l \in Layouts, then \in {"idle", "show", "discard"} :
        With(p, l, then) => loc' \in [Procs -> Locals]
  BY DEF TypeOK, With, Locals
<1>3. Return(p) => pc' \in [Procs -> Steps] /\ loc' \in [Procs -> Locals]
  BY <1>1, LayoutTypes DEF Return, TypeOK, Steps
<1> QED BY <1>1, <1>2, <1>3

LEMMA BeginType ==
  ASSUME TypeOK, NEW p, NEW other \in BOOLEAN, Begin(p, other)
  PROVE  aside' \in BOOLEAN
BY DEF TypeOK, Begin

\* What is at hand of a goroutine.
LEMMA LocalTypes ==
  ASSUME TypeOK, NEW p \in Procs
  PROVE  loc[p].layout \in Layouts /\ loc[p].then \in {"idle", "show", "discard"}
<1>1. loc[p] \in Locals
  BY DEF TypeOK
<1> QED BY <1>1 DEF Locals

\* The draft is a layout once it is open.
LEMMA OpenTypes ==
  ASSUME TypeOK, OpenDraft
  PROVE  draft' \in Layouts /\ timer' \in {"nil", "armed", "fired"}
BY DEF TypeOK, OpenDraft, Loadable

LEMMA InitType == Init => TypeOK
<1> SUFFICES ASSUME Init PROVE TypeOK
  OBVIOUS
<1>1. pc \in [Procs -> Steps] /\ loc \in [Procs -> Locals]
  BY LayoutTypes DEF Init, Steps
<1>2. committed \in Layouts /\ display \in Layouts /\ draft \in Layouts \cup {NoDraft}
  BY LayoutTypes DEF Init
<1> QED BY <1>1, <1>2 DEF Init, TypeOK

LEMMA DraftType ==
  ASSUME TypeOK, NEW p \in Requests,
         \/ handleGetDraft(p) \/ EditDraft(p) \/ handleDraftReorderZones(p)
         \/ handlePutDraft(p) \/ UpdateDraft(p) \/ Preview(p)
         \/ Commit(p) \/ SaveConfigToDB(p) \/ CommitClear(p)
  PROVE  TypeOK'
<1>t. p \in Procs /\ loc[p].layout \in Layouts
  BY LocalTypes DEF Procs
<1>1. CASE handleGetDraft(p)
  BY <1>1, OpenTypes DEF handleGetDraft, clock, TypeOK
<1>2. CASE EditDraft(p)
  <2>1. /\ draft' \in Layouts /\ timer' \in {"nil", "armed", "fired"} /\ aside' \in BOOLEAN
        /\ pc' \in [Procs -> Steps]
    BY <1>2, <1>t, OpenTypes, BeginType, Moves DEF EditDraft, Steps
  <2>2. loc' \in [Procs -> Locals]
    <3>1. PICK l \in Edited(draft'), then \in {"idle", "show"} : With(p, l, then)
      BY <1>2 DEF EditDraft
    <3>2. l \in Layouts
      BY <2>1, <3>1, EditedTypes
    <3> QED BY <1>t, <3>1, <3>2, Moves
  <2> QED BY <1>2, <2>1, <2>2 DEF EditDraft, clock, TypeOK
<1>r. CASE handleDraftReorderZones(p)
  <2>1. /\ draft' \in Layouts /\ timer' \in {"nil", "armed", "fired"} /\ aside' \in BOOLEAN
        /\ pc' \in [Procs -> Steps]
    BY <1>r, <1>t, OpenTypes, BeginType, Moves DEF handleDraftReorderZones, Steps
  <2>2. loc' \in [Procs -> Locals]
    <3>1. PICK l \in Edited(draft') : With(p, l, "idle")
      BY <1>r DEF handleDraftReorderZones
    <3>2. l \in Layouts
      BY <2>1, <3>1, EditedTypes
    <3> QED BY <1>t, <3>1, <3>2, Moves
  <2> QED BY <1>r, <2>1, <2>2 DEF handleDraftReorderZones, clock, TypeOK
<1>3. CASE handlePutDraft(p)
  <2>1. pc' \in [Procs -> Steps] /\ loc' \in [Procs -> Locals] /\ aside' \in BOOLEAN
    BY <1>3, <1>t, BeginType, Moves DEF handlePutDraft, Steps
  <2> QED BY <1>3, <2>1 DEF handlePutDraft, session, clock, TypeOK
<1>4. CASE UpdateDraft(p)
  <2>1. pc' \in [Procs -> Steps] /\ loc' \in [Procs -> Locals]
    BY <1>4, <1>t, Moves DEF UpdateDraft, Steps, TypeOK
  <2> QED BY <1>4, <1>t, <2>1 DEF UpdateDraft, clock, TypeOK
<1>5. CASE Preview(p)
  <2>1. pc' \in [Procs -> Steps] /\ loc' \in [Procs -> Locals]
    BY <1>5, <1>t, Moves DEF Preview, Steps, TypeOK
  <2>2. display' \in Layouts
    BY <1>5, <1>t, LayoutTypes DEF Preview, TypeOK
  <2> QED BY <1>5, <2>1, <2>2 DEF Preview, session, clock, TypeOK
<1>6. CASE Commit(p)
  <2>1. draft \in Layouts
    BY <1>6 DEF Commit, TypeOK
  <2>2. pc' \in [Procs -> Steps] /\ loc' \in [Procs -> Locals] /\ aside' \in BOOLEAN
    BY <1>6, <1>t, <2>1, BeginType, Moves DEF Commit, Steps
  <2> QED BY <1>6, <2>2 DEF Commit, session, clock, TypeOK
<1>7. CASE SaveConfigToDB(p)
  <2>1. pc' \in [Procs -> Steps] /\ loc' \in [Procs -> Locals]
    BY <1>7, <1>t, Moves DEF SaveConfigToDB, Steps, TypeOK
  <2> QED BY <1>7, <1>t, <2>1 DEF SaveConfigToDB, session, clock, TypeOK
<1>8. CASE CommitClear(p)
  <2>1. pc' \in [Procs -> Steps] /\ loc' \in [Procs -> Locals]
    BY <1>8, <1>t, LayoutTypes, Moves DEF CommitClear, Steps
  <2> QED BY <1>8, <2>1 DEF CommitClear, Drop, clock, TypeOK
<1> QED BY <1>1, <1>2, <1>r, <1>3, <1>4, <1>5, <1>6, <1>7, <1>8

LEMMA LayoutType ==
  ASSUME TypeOK, NEW p \in Requests,
         EditPages(p) \/ EditZones(p) \/ Redistribute(p) \/ TriggerReload(p)
  PROVE  TypeOK'
<1>t. p \in Procs /\ loc[p].layout \in Layouts /\ loc[p].then \in {"idle", "show", "discard"}
  BY LocalTypes DEF Procs
<1>1. CASE EditPages(p)
  <2>1. pc' \in [Procs -> Steps] /\ loc' \in [Procs -> Locals] /\ aside' \in BOOLEAN
    BY <1>1, <1>t, LayoutTypes, BeginType, Moves DEF EditPages, Steps
  <2>2. committed' \in Layouts
    BY <1>1 DEF EditPages, TypeOK, Layouts, Pages
  <2> QED BY <1>1, <2>1, <2>2 DEF EditPages, session, clock, TypeOK
<1>2. CASE EditZones(p)
  <2>1. committed' \in Layouts /\ aside' \in BOOLEAN
    BY <1>2, EditedTypes, BeginType DEF EditZones, TypeOK
  <2>2. (committed' \ committed) \cap Broken \in Layouts
    BY <2>1 DEF Layouts
  <2>3. pc' \in [Procs -> Steps] /\ loc' \in [Procs -> Locals]
    BY <1>2, <1>t, <2>2, LayoutTypes, Moves DEF EditZones, Steps, TypeOK
  <2> QED BY <1>2, <2>1, <2>3 DEF EditZones, session, clock, TypeOK
<1>3. CASE Redistribute(p)
  <2>1. pc' \in [Procs -> Steps] /\ loc' \in [Procs -> Locals]
    BY <1>3, <1>t, LayoutTypes, Moves DEF Redistribute, Steps
  <2>2. committed' \in Layouts
    BY <1>3 DEF Redistribute, TypeOK, Layouts, Pages
  <2> QED BY <1>3, <2>1, <2>2 DEF Redistribute, session, clock, TypeOK
<1>4. CASE TriggerReload(p)
  <2>1. (IF renderSafe(committed) = {} THEN display ELSE renderSafe(committed)) \in Layouts
    BY LayoutTypes DEF TypeOK
  <2>2. pc' \in [Procs -> Steps] /\ loc' \in [Procs -> Locals]
    BY <1>4, <1>t, <2>1, Moves DEF TriggerReload, Steps
  <2> QED BY <1>4, <2>2 DEF TriggerReload, session, clock, TypeOK
<1> QED BY <1>1, <1>2, <1>3, <1>4

LEMMA ShowType ==
  ASSUME TypeOK, NEW p \in Procs, Discard(p) \/ Revert(p) \/ Show(p)
  PROVE  TypeOK'
<1>t. loc[p].layout \in Layouts
  BY LocalTypes
<1>1. CASE Discard(p)
  <2>1. pc' \in [Procs -> Steps] /\ loc' \in [Procs -> Locals]
    BY <1>1, LayoutTypes, Moves DEF Discard, Steps
  <2>2. aside' \in BOOLEAN /\ draft' \in Layouts \cup {NoDraft}
        /\ timer' \in {"nil", "armed", "fired"}
    BY <1>1, BeginType DEF Discard, Drop, session, TypeOK
  <2> QED BY <1>1, <2>1, <2>2 DEF Discard, clock, TypeOK
<1>2. CASE Revert(p)
  <2>1. renderSafe(committed) \in Layouts
    BY LayoutTypes DEF TypeOK
  <2>2. pc' \in [Procs -> Steps] /\ loc' \in [Procs -> Locals]
    BY <1>2, <2>1, Moves DEF Revert, Steps
  <2> QED BY <1>2, <2>2 DEF Revert, session, clock, TypeOK
<1>3. CASE Show(p)
  <2>1. pc' \in [Procs -> Steps] /\ loc' \in [Procs -> Locals]
    BY <1>3, LayoutTypes, Moves DEF Show, Steps
  <2> QED BY <1>3, <1>t, <2>1 DEF Show, session, clock, TypeOK
<1> QED BY <1>1, <1>2, <1>3

LEMMA NextType == TypeOK /\ [Next]_vars => TypeOK'
<1> SUFFICES ASSUME TypeOK, [Next]_vars PROVE TypeOK'
  OBVIOUS
<1>1. ASSUME NEW s \in Sockets, SocketStep(s) PROVE TypeOK'
  <2>1. pc' \in [Procs -> Steps]
    BY <1>1, Moves
       DEF SocketStep, Subscribe, Unsubscribe, CheckClients, Procs, Steps
  <2> QED BY <1>1, <2>1
          DEF SocketStep, Subscribe, Unsubscribe, CheckClients, session, clock, TypeOK
<1>2. CASE TimerFires
  BY <1>2 DEF TimerFires, TypeOK
<1>3. CASE onIdleTimeout
  <2>1. firing' \in Nat /\ UNCHANGED <<up, committed, display, pc, loc>>
    BY <1>3 DEF onIdleTimeout, TypeOK
  <2>2. CASE draft = NoDraft
    <3>1. UNCHANGED <<draft, timer, leaked, aside>>
      BY <1>3, <2>2 DEF onIdleTimeout, session
    <3> QED BY <2>1, <3>1 DEF TypeOK
  <2>3. CASE draft # NoDraft
    <3>1. draft' = NoDraft /\ timer' = "nil" /\ aside' = TRUE /\ leaked' \in Nat
      BY <1>3, <2>3 DEF onIdleTimeout, Drop, TypeOK
    <3> QED BY <2>1, <3>1 DEF TypeOK
  <2> QED BY <2>2, <2>3
<1>4. CASE Restart
  <2>1. pc' \in [Procs -> Steps] /\ loc' \in [Procs -> Locals]
    BY <1>4, LayoutTypes DEF Restart, Steps
  <2>2. committed' \in Layouts /\ display' \in Layouts /\ up' \in BOOLEAN
    BY <1>4, LayoutTypes DEF Restart, TypeOK, Valid
  <2> QED BY <1>4, <2>1, <2>2 DEF Restart, Drop, TypeOK
<1>5. CASE UNCHANGED vars
  BY <1>5 DEF vars, TypeOK
<1> QED BY <1>1, <1>2, <1>3, <1>4, <1>5, DraftType, LayoutType, ShowType DEF Next, RequestStep

\* Layouts, timers and locals keep their types, for any set of pages and requests.
THEOREM TypeCorrect == Spec => []TypeOK
<1>1. TypeOK /\ [Next]_vars => TypeOK'
  BY NextType
<1> QED BY <1>1, InitType, PTL DEF Spec

-----------------------------------------------------------------------------
(* The idle timer *)

Timed == TypeOK /\ DraftIsTimed

LEMMA TimedStep == Timed /\ [Next]_vars => Timed'
<1> SUFFICES ASSUME Timed, [Next]_vars PROVE DraftIsTimed'
  BY NextType DEF Timed
<1>t. /\ TypeOK /\ DraftIsTimed
  BY DEF Timed
<1>1. ASSUME OpenDraft, UNCHANGED clock PROVE DraftIsTimed'
  <2>1. committed # NoDraft
    BY <1>t, LayoutTypes DEF TypeOK
  <2> QED BY <1>1, <1>t, <2>1 DEF OpenDraft, Loadable, clock, DraftIsTimed
<1>2. ASSUME NEW p \in Procs, UpdateDraft(p) PROVE DraftIsTimed'
  <2>1. loc[p].layout # NoDraft
    BY <1>t, LocalTypes, LayoutTypes
  <2> QED BY <1>2, <2>1 DEF UpdateDraft, DraftIsTimed
<1>3. ASSUME Drop PROVE DraftIsTimed'
  BY <1>3 DEF Drop, DraftIsTimed
<1>4. ASSUME UNCHANGED <<session, clock>> PROVE DraftIsTimed'
  BY <1>4, <1>t DEF session, clock, DraftIsTimed
<1>5. CASE TimerFires
  BY <1>5, <1>t DEF TimerFires, TypeOK, DraftIsTimed
<1>6. CASE onIdleTimeout
  <2>1. CASE draft = NoDraft
    BY <1>6, <1>t, <2>1 DEF onIdleTimeout, session, DraftIsTimed
  <2>2. CASE draft # NoDraft
    BY <1>6, <1>3, <2>2 DEF onIdleTimeout
  <2> QED BY <2>1, <2>2
<1>7. ASSUME NEW p \in Requests, RequestStep(p) PROVE DraftIsTimed'
  <2>1. CASE handleGetDraft(p) \/ EditDraft(p) \/ handleDraftReorderZones(p)
    BY <1>1, <2>1 DEF handleGetDraft, EditDraft, handleDraftReorderZones
  <2>2. CASE UpdateDraft(p)
    BY <1>2, <2>2 DEF Procs
  <2>3. CASE CommitClear(p)
    BY <1>3, <2>3 DEF CommitClear
  <2>4. CASE \/ handlePutDraft(p) \/ Preview(p) \/ Commit(p) \/ SaveConfigToDB(p)
             \/ EditPages(p) \/ EditZones(p) \/ Redistribute(p) \/ TriggerReload(p)
    <3>1. UNCHANGED <<session, clock>>
      BY <2>4 DEF handlePutDraft, Preview, Commit, SaveConfigToDB, EditPages, EditZones,
                  Redistribute, TriggerReload
    <3> QED BY <1>4, <3>1
  <2> QED BY <1>7, <2>1, <2>2, <2>3, <2>4 DEF RequestStep
<1>8. ASSUME NEW s \in Sockets, SocketStep(s) PROVE DraftIsTimed'
  <2>1. UNCHANGED <<session, clock>>
    BY <1>8 DEF SocketStep, Subscribe, Unsubscribe, CheckClients
  <2> QED BY <1>4, <2>1
<1>9. ASSUME NEW p \in Procs, Discard(p) \/ Revert(p) \/ Show(p) PROVE DraftIsTimed'
  <2>1. Drop \/ UNCHANGED <<session, clock>>
    BY <1>9 DEF Discard, Revert, Show
  <2> QED BY <1>3, <1>4, <2>1
<1>10. CASE Restart
  BY <1>3, <1>10 DEF Restart
<1>11. CASE UNCHANGED vars
  <2>1. UNCHANGED <<session, clock>>
    BY <1>11 DEF vars, session, clock
  <2> QED BY <1>4, <2>1
<1> QED BY <1>5, <1>6, <1>7, <1>8, <1>9, <1>10, <1>11 DEF Next

\* However requests, disconnects, commits and late timers interleave, an open draft
\* has a timer that runs or whose function waits for dm.mu, and only an open draft.
THEOREM DraftIsTimedAlways == Spec => []DraftIsTimed
<1>1. Init => Timed
  BY InitType DEF Init, Timed, DraftIsTimed
<1>2. Timed => DraftIsTimed
  BY DEF Timed
<1> QED BY <1>1, <1>2, TimedStep, PTL DEF Spec

-----------------------------------------------------------------------------
(* The layout on display *)

\* The layout being edited, as it can be shown; it is shown; it is the stored one; it is
\* shown once l has been handed to ReloadFromConfig.
Edit == renderSafe(IF draft = NoDraft THEN committed ELSE draft)
Shown == Valid(Edit) => display = Edit
Stored == Valid(Edit) => Edit = renderSafe(committed)
ToShow(l) == Valid(Edit) => (IF Valid(l) THEN l ELSE display) = Edit

\* A socket that is about to discard has not looked at the draft yet.
Working(p) == Busy(p) /\ ~(p \in Sockets /\ pc[p] = "discard")

Alone == \A p, q \in Procs : Working(p) /\ Working(q) => p = q
Rest == (\A p \in Procs : ~Working(p)) => Shown

\* What p relies on at each step.
Discards(p) == loc[p].then = "discard" /\ draft # NoDraft
Ready(p) ==
  /\ pc[p] = "preview" => draft = loc[p].layout
  /\ pc[p] = "save" => draft = loc[p].layout /\ Shown
  /\ pc[p] = "clear" => draft = loc[p].layout /\ committed = loc[p].layout /\ Shown
  /\ pc[p] = "widths" =>
       /\ draft = NoDraft \/ draft = committed
       /\ loc[p].layout \subseteq committed /\ loc[p].layout \cap Broken # {}
  /\ pc[p] = "reload" => Discards(p) \/ Stored
  /\ pc[p] = "show" => Discards(p) \/ ToShow(loc[p].layout)
  /\ pc[p] = "show" /\ loc[p].then = "discard" => p \in Requests
  /\ pc[p] = "discard" /\ p \in Requests => draft # NoDraft \/ Shown
  /\ pc[p] = "revert" => Stored

Sound == Alone /\ Rest /\ \A p \in Procs : Ready(p)
Follow == up /\ ~aside => Sound

LEMMA SafeValid ==
  ASSUME NEW l \in Layouts
  PROVE  /\ Valid(l) => renderSafe(l) = l
         /\ l \cap Broken # {} => ~Valid(renderSafe(l))
         /\ renderSafe(l) = {} => ~Valid(renderSafe(l))
BY ConstantsAssumption DEF Valid, renderSafe, Layouts, Pages

LEMMA ReadyAtRest ==
  ASSUME NEW p \in Procs, ~Working(p)'
  PROVE  Ready(p)'
<1>1. pc'[p] \in {"idle", "on", "gone"} \/ (p \in Sockets /\ pc'[p] = "discard")
  BY DEF Working, Busy
<1>2. ~(p \in Sockets /\ p \in Requests)
  BY ConstantsAssumption
<1> QED BY <1>1, <1>2 DEF Ready

\* One goroutine works, and moves.
LEMMA FollowWork ==
  ASSUME NEW p \in Procs, \A q \in Procs : q # p => pc'[q] = pc[q] /\ ~Working(q),
         Ready(p)', Working(p)' \/ Shown'
  PROVE  Sound'
<1>1. \A q \in Procs : q # p => ~Working(q)'
  BY DEF Working, Busy
<1>2. Alone' /\ Rest'
  BY <1>1 DEF Alone, Rest
<1>3. \A q \in Procs : Ready(q)'
  BY <1>1, ReadyAtRest
<1> QED BY <1>2, <1>3 DEF Sound

\* One goroutine moves that does not work, before or after.
LEMMA FollowIdle ==
  ASSUME Sound, NEW p \in Procs, ~Working(p), ~Working(p)',
         UNCHANGED <<draft, committed, display>>,
         \A q \in Procs : q # p => pc'[q] = pc[q] /\ loc'[q] = loc[q]
  PROVE  Sound'
<1>1. \A q \in Procs : Working(q)' <=> Working(q)
  BY DEF Working, Busy
<1>2. Alone' /\ Rest'
  BY <1>1 DEF Sound, Alone, Rest, Shown, Edit
<1>3. \A q \in Procs : q # p => Ready(q)'
  BY DEF Sound, Ready, Discards, Shown, Stored, ToShow, Edit
<1> QED BY <1>2, <1>3, ReadyAtRest DEF Sound

LEMMA FollowSame ==
  ASSUME Sound, UNCHANGED <<draft, committed, display, pc, loc>>
  PROVE  Sound'
BY DEF Sound, Alone, Rest, Ready, Discards, Working, Busy, Shown, Stored, ToShow, Edit

\* Whoever begins without leaving the display aside is alone, and finds it as it should be.
LEMMA Begins ==
  ASSUME Sound, NEW p \in Procs, NEW other \in BOOLEAN, Begin(p, other), ~aside'
  PROVE  /\ ~aside /\ ~other
         /\ \A q \in Procs : q # p => ~Busy(q) /\ ~Working(q)
         /\ ~Working(p) => Shown
<1>1. ~aside /\ ~other /\ \A q \in Procs \ {p} : ~Busy(q)
  BY DEF Begin
<1>2. \A q \in Procs : q # p => ~Busy(q) /\ ~Working(q)
  BY <1>1 DEF Working
<1> QED BY <1>1, <1>2 DEF Sound, Rest

LEMMA GotoOthers ==
  ASSUME TypeOK, NEW p \in Procs, NEW step, Goto(p, step)
  PROVE  pc'[p] = step /\ \A q \in Procs : q # p => pc'[q] = pc[q]
BY DEF Goto, TypeOK

LEMMA WithOthers ==
  ASSUME TypeOK, NEW p \in Procs, NEW l, NEW then, With(p, l, then)
  PROVE  /\ loc'[p].layout = l /\ loc'[p].then = then
         /\ \A q \in Procs : q # p => loc'[q] = loc[q]
BY DEF With, TypeOK

LEMMA ReturnOthers ==
  ASSUME TypeOK, NEW p \in Procs, Return(p)
  PROVE  /\ pc'[p] = "idle" /\ ~Working(p)'
         /\ \A q \in Procs : q # p => pc'[q] = pc[q] /\ loc'[q] = loc[q]
BY DEF Return, Goto, TypeOK, Working, Busy

\* The others do not work while p does.
LEMMA OthersRest ==
  ASSUME Sound, NEW p \in Procs, Working(p)
  PROVE  \A q \in Procs : q # p => ~Working(q)
BY DEF Sound, Alone

LEMMA FollowEdits ==
  ASSUME TypeOK, Sound, NEW p \in Requests, ~aside',
         EditDraft(p) \/ handleDraftReorderZones(p) \/ handlePutDraft(p)
  PROVE  Sound'
<1>1. p \in Procs /\ Goto(p, "update") /\ Begin(p, FALSE)
  BY DEF EditDraft, handleDraftReorderZones, handlePutDraft, Procs
<1>2. pc'[p] = "update" /\ \A q \in Procs : q # p => pc'[q] = pc[q] /\ ~Working(q)
  BY <1>1, Begins, GotoOthers
<1>3. Ready(p)' /\ Working(p)'
  BY <1>2 DEF Ready, Working, Busy
<1> QED BY <1>1, <1>2, <1>3, FollowWork

\* A draft that is opened is the committed layout.
LEMMA FollowGet ==
  ASSUME TypeOK, Sound, NEW p \in Requests, handleGetDraft(p)
  PROVE  Sound'
<1>1. /\ UNCHANGED <<committed, display, pc, loc>>
      /\ draft' = IF draft = NoDraft THEN committed ELSE draft
  BY DEF handleGetDraft, OpenDraft
<1>2. committed # NoDraft /\ \A q \in Procs : loc[q].layout # NoDraft
  BY LayoutTypes, LocalTypes DEF TypeOK
<1>3. Edit' = Edit
  BY <1>1, <1>2 DEF Edit
<1>4. /\ Shown' <=> Shown
      /\ Stored' <=> Stored
      /\ \A q \in Procs : ToShow(loc[q].layout)' <=> ToShow(loc[q].layout)
  BY <1>1, <1>3 DEF Shown, Stored, ToShow
<1>5. Alone' /\ Rest'
  BY <1>1, <1>4 DEF Sound, Alone, Rest, Working, Busy
<1>6. ASSUME NEW q \in Procs PROVE Ready(q)'
  <2>1. Ready(q)
    BY DEF Sound
  <2>2. CASE draft # NoDraft
    <3>1. draft' = draft
      BY <1>1, <2>2
    <3> QED BY <1>1, <1>4, <2>1, <3>1 DEF Ready, Discards
  <2>3. CASE draft = NoDraft
    <3>1. draft' = committed /\ draft' # NoDraft /\ pc[q] \notin {"preview", "save", "clear"}
      BY <1>1, <1>2, <2>1, <2>3 DEF Ready
    <3> QED BY <1>1, <1>4, <2>1, <2>3, <3>1 DEF Ready, Discards
  <2> QED BY <2>2, <2>3
<1> QED BY <1>5, <1>6 DEF Sound

LEMMA WorksAt ==
  ASSUME NEW p \in Requests, pc[p] \notin {"idle", "on", "gone"}
  PROVE  p \in Procs /\ Working(p)
BY ConstantsAssumption DEF Working, Busy, Procs

LEMMA FollowUpdate ==
  ASSUME TypeOK, Sound, NEW p \in Requests, UpdateDraft(p)
  PROVE  Sound'
<1>1. p \in Procs /\ Working(p) /\ \A q \in Procs : q # p => ~Working(q)
  BY WorksAt, OthersRest DEF UpdateDraft
<1>2. loc[p].layout \in Layouts /\ loc[p].layout # NoDraft /\ draft' = loc[p].layout
  BY <1>1, LocalTypes, LayoutTypes DEF UpdateDraft
<1>3. CASE renderSafe(loc[p].layout) = {}
  <2>1. Return(p)
    BY <1>3 DEF UpdateDraft
  <2>2. Shown'
    BY <1>2, <1>3, SafeValid DEF Shown, Edit
  <2>3. Ready(p)'
    BY <1>1, <2>1, ReturnOthers, ReadyAtRest
  <2> QED BY <1>1, <2>1, <2>2, <2>3, ReturnOthers, FollowWork
<1>4. CASE renderSafe(loc[p].layout) # {}
  <2>1. Goto(p, "preview") /\ loc' = loc
    BY <1>4 DEF UpdateDraft
  <2>2. pc'[p] = "preview" /\ \A q \in Procs : q # p => pc'[q] = pc[q]
    BY <1>1, <2>1, GotoOthers
  <2>3. Ready(p)' /\ Working(p)'
    BY <1>2, <2>1, <2>2 DEF Ready, Working, Busy
  <2> QED BY <1>1, <2>2, <2>3, FollowWork
<1> QED BY <1>3, <1>4

LEMMA FollowPreview ==
  ASSUME TypeOK, Sound, NEW p \in Requests, Preview(p)
  PROVE  Sound'
<1>1. p \in Procs /\ Working(p) /\ \A q \in Procs : q # p => ~Working(q)
  BY WorksAt, OthersRest DEF Preview
<1>2. loc[p].layout \in Layouts /\ draft = loc[p].layout /\ draft # NoDraft /\ draft' = draft
  BY <1>1, LocalTypes, LayoutTypes DEF Preview, Sound, Ready, session
<1>3. Edit' = renderSafe(loc[p].layout)
  BY <1>2 DEF Edit
<1>4. CASE Return(p)
  <2>1. Shown'
    BY <1>3, <1>4 DEF Preview, Shown
  <2>2. Ready(p)'
    BY <1>1, <1>4, ReturnOthers, ReadyAtRest
  <2> QED BY <1>1, <1>4, <2>1, <2>2, ReturnOthers, FollowWork
<1>5. CASE Goto(p, "show") /\ loc' = loc /\ display' = Edit' /\ loc[p].then = "show"
  <2>1. pc'[p] = "show" /\ \A q \in Procs : q # p => pc'[q] = pc[q]
    BY <1>1, <1>5, GotoOthers
  <2>2. ToShow(loc[p].layout)'
    BY <1>2, <1>3, <1>5, SafeValid DEF ToShow
  <2>3. Ready(p)' /\ Working(p)'
    BY <1>5, <2>1, <2>2 DEF Ready, Working, Busy
  <2> QED BY <1>1, <2>1, <2>3, FollowWork
<1> QED BY <1>3, <1>4, <1>5 DEF Preview

LEMMA FollowCommit ==
  ASSUME TypeOK, Sound, NEW p \in Requests, Commit(p), ~aside'
  PROVE  Sound'
<1>1. p \in Procs /\ Begin(p, FALSE) /\ ~Working(p) /\ draft \in Layouts
  BY DEF Commit, Idle, Working, Busy, Procs, TypeOK
<1>2. Shown /\ \A q \in Procs : q # p => ~Working(q)
  BY <1>1, Begins
<1>3. Shown'
  BY <1>2 DEF Commit, session, Shown, Edit
<1>4. /\ pc'[p] = "save" /\ \A q \in Procs : q # p => pc'[q] = pc[q]
      /\ loc'[p].layout = draft /\ draft' = draft
  BY <1>1, GotoOthers, WithOthers DEF Commit, session
<1>5. Ready(p)' /\ Working(p)'
  BY <1>3, <1>4, ConstantsAssumption DEF Ready, Working, Busy
<1> QED BY <1>1, <1>2, <1>4, <1>5, FollowWork

LEMMA FollowSave ==
  ASSUME TypeOK, Sound, NEW p \in Requests, SaveConfigToDB(p)
  PROVE  Sound'
<1>1. p \in Procs /\ Working(p) /\ \A q \in Procs : q # p => ~Working(q)
  BY WorksAt, OthersRest DEF SaveConfigToDB
<1>2. draft = loc[p].layout /\ draft # NoDraft /\ Shown /\ draft' = draft /\ display' = display
  BY <1>1, LocalTypes, LayoutTypes DEF SaveConfigToDB, Sound, Ready, session
<1>3. Shown'
  BY <1>2 DEF Shown, Edit
<1>4. CASE Return(p)
  <2>1. Ready(p)'
    BY <1>1, <1>4, ReturnOthers, ReadyAtRest
  <2> QED BY <1>1, <1>3, <1>4, <2>1, ReturnOthers, FollowWork
<1>5. CASE committed' = loc[p].layout /\ Goto(p, "clear") /\ loc' = loc
  <2>1. pc'[p] = "clear" /\ \A q \in Procs : q # p => pc'[q] = pc[q]
    BY <1>1, <1>5, GotoOthers
  <2>2. Ready(p)' /\ Working(p)'
    BY <1>2, <1>3, <1>5, <2>1 DEF Ready, Working, Busy
  <2> QED BY <1>1, <2>1, <2>2, FollowWork
<1> QED BY <1>4, <1>5 DEF SaveConfigToDB

\* Without a draft the layout to show is the stored one.
LEMMA StoredWithout == draft = NoDraft => Stored
BY DEF Stored, Edit

LEMMA StoredWithoutNext == draft' = NoDraft => Stored'
BY DEF Stored, Edit

LEMMA FollowClear ==
  ASSUME TypeOK, Sound, NEW p \in Requests, CommitClear(p)
  PROVE  Sound'
<1>1. p \in Procs /\ Working(p) /\ \A q \in Procs : q # p => ~Working(q)
  BY WorksAt, OthersRest DEF CommitClear
<1>2. Stored' /\ pc'[p] = "reload" /\ \A q \in Procs : q # p => pc'[q] = pc[q]
  BY <1>1, GotoOthers, StoredWithoutNext DEF CommitClear, Drop
<1>3. Ready(p)' /\ Working(p)'
  BY <1>2 DEF Ready, Working, Busy
<1> QED BY <1>1, <1>2, <1>3, FollowWork

LEMMA FollowPages ==
  ASSUME TypeOK, Sound, NEW p \in Requests, EditPages(p), ~aside'
  PROVE  Sound'
<1>1. p \in Procs /\ Begin(p, FALSE)
  BY DEF EditPages, Procs
<1>2. /\ pc'[p] = "reload" /\ loc'[p].then = "discard" /\ draft' = draft
      /\ \A q \in Procs : q # p => pc'[q] = pc[q] /\ ~Working(q)
  BY <1>1, GotoOthers, WithOthers, Begins DEF EditPages, session
<1>3. Discards(p)' \/ Stored'
  BY <1>2, StoredWithoutNext DEF Discards
<1>4. Ready(p)' /\ Working(p)'
  BY <1>2, <1>3 DEF Ready, Working, Busy
<1> QED BY <1>1, <1>2, <1>4, FollowWork

LEMMA FollowZones ==
  ASSUME TypeOK, Sound, NEW p \in Requests, EditZones(p), ~aside'
  PROVE  Sound'
<1>1. p \in Procs /\ Begin(p, draft # NoDraft) /\ pc[p] = "idle"
  BY DEF EditZones, Idle, Procs
<1>2. draft = NoDraft /\ draft' = NoDraft /\ \A q \in Procs : q # p => ~Working(q)
  BY <1>1, Begins DEF EditZones, session
<1>3. committed' \in Layouts
  BY EditedTypes DEF EditZones, TypeOK
<1>4. Edit' = renderSafe(committed')
  BY <1>2 DEF Edit
<1>5. DEFINE broken == (committed' \ committed) \cap Broken
<1>6. CASE broken # {} /\ UNCHANGED <<pc, loc>>
  <2>1. Shown'
    BY <1>3, <1>4, <1>6, SafeValid DEF Shown
  <2>2. Ready(p)'
    BY <1>1, <1>6 DEF Ready
  <2> QED BY <1>1, <1>2, <1>6, <2>1, <2>2, FollowWork
<1>7. CASE Goto(p, "reload")
  <2>1. pc'[p] = "reload" /\ \A q \in Procs : q # p => pc'[q] = pc[q]
    BY <1>1, <1>7, GotoOthers
  <2>2. Ready(p)' /\ Working(p)'
    BY <1>2, <2>1, StoredWithoutNext DEF Ready, Working, Busy
  <2> QED BY <1>1, <1>2, <2>1, <2>2, FollowWork
<1>8. CASE broken # {} /\ With(p, broken, "idle") /\ Goto(p, "widths")
  <2>1. /\ pc'[p] = "widths" /\ \A q \in Procs : q # p => pc'[q] = pc[q]
        /\ loc'[p].layout = broken
    BY <1>1, <1>8, GotoOthers, WithOthers
  <2>2. Ready(p)' /\ Working(p)'
    BY <1>2, <1>8, <2>1 DEF Ready, Working, Busy
  <2> QED BY <1>1, <1>2, <2>1, <2>2, FollowWork
<1> QED BY <1>6, <1>7, <1>8 DEF EditZones

LEMMA FollowWidths ==
  ASSUME TypeOK, Sound, NEW p \in Requests, Redistribute(p)
  PROVE  Sound'
<1>1. p \in Procs /\ Working(p) /\ \A q \in Procs : q # p => ~Working(q)
  BY WorksAt, OthersRest DEF Redistribute
<1>2. /\ draft = NoDraft \/ draft = committed
      /\ loc[p].layout \subseteq committed /\ loc[p].layout \cap Broken # {}
      /\ draft' = draft
  BY <1>1 DEF Redistribute, Sound, Ready, session
<1>3. Stored'
  <2>1. CASE draft # NoDraft
    <3>1. draft \in Layouts /\ draft \cap Broken # {}
      BY <1>2, <2>1 DEF TypeOK
    <3>2. ~Valid(Edit')
      BY <1>2, <2>1, <3>1, SafeValid DEF Edit
    <3> QED BY <3>2 DEF Stored
  <2> QED BY <1>2, <2>1, StoredWithoutNext
<1>4. pc'[p] = "reload" /\ \A q \in Procs : q # p => pc'[q] = pc[q]
  BY <1>1, GotoOthers DEF Redistribute
<1>5. Ready(p)' /\ Working(p)'
  BY <1>3, <1>4 DEF Ready, Working, Busy
<1> QED BY <1>1, <1>4, <1>5, FollowWork

LEMMA FollowReload ==
  ASSUME TypeOK, Sound, NEW p \in Requests, TriggerReload(p)
  PROVE  Sound'
<1>1. p \in Procs /\ Working(p) /\ \A q \in Procs : q # p => ~Working(q)
  BY WorksAt, OthersRest DEF TriggerReload
<1>2. DEFINE l == IF renderSafe(committed) = {} THEN display ELSE renderSafe(committed)
<1>3. /\ pc'[p] = "show" /\ \A q \in Procs : q # p => pc'[q] = pc[q]
      /\ loc'[p].layout = l /\ loc'[p].then = loc[p].then
      /\ UNCHANGED <<draft, committed, display>>
  BY <1>1, GotoOthers, WithOthers DEF TriggerReload, session
<1>4. Discards(p) \/ Stored
  BY <1>1 DEF TriggerReload, Sound, Ready
<1>5. ASSUME Stored PROVE ToShow(l)
  <2>1. SUFFICES ASSUME Valid(Edit) PROVE Valid(l) /\ l = Edit
    BY DEF ToShow
  <2>2. Edit = renderSafe(committed) /\ Edit # {}
    BY <1>5, <2>1 DEF Stored, Valid
  <2> QED BY <2>1, <2>2
<1>6. Discards(p)' \/ ToShow(loc[p].layout)'
  BY <1>3, <1>4, <1>5 DEF Discards, ToShow, Edit
<1>7. Ready(p)' /\ Working(p)'
  BY <1>3, <1>6 DEF Ready, Working, Busy
<1> QED BY <1>1, <1>3, <1>7, FollowWork

LEMMA FollowShow ==
  ASSUME TypeOK, Sound, NEW p \in Procs, Show(p)
  PROVE  Sound'
<1>1. Working(p) /\ (\A q \in Procs : q # p => ~Working(q)) /\ Ready(p) /\ pc[p] = "show"
  BY OthersRest DEF Show, Working, Busy, Sound
<1>2. /\ display' = IF Valid(loc[p].layout) THEN loc[p].layout ELSE display
      /\ UNCHANGED <<draft, committed>>
  BY DEF Show, session
<1>3. Discards(p) \/ Shown'
  BY <1>1, <1>2 DEF Ready, ToShow, Shown, Edit
<1>4. CASE loc[p].then = "discard"
  <2>1. /\ pc'[p] = "discard" /\ \A q \in Procs : q # p => pc'[q] = pc[q]
        /\ p \in Requests /\ ~(p \in Sockets)
    BY <1>1, <1>4, GotoOthers, ConstantsAssumption DEF Show, Ready
  <2>2. Ready(p)' /\ Working(p)'
    BY <1>2, <1>3, <2>1 DEF Ready, Working, Busy, Discards
  <2> QED BY <1>1, <2>1, <2>2, FollowWork
<1>5. CASE loc[p].then # "discard"
  <2>1. Return(p) /\ Shown'
    BY <1>3, <1>5 DEF Show, Discards
  <2>2. Ready(p)'
    BY <2>1, ReturnOthers, ReadyAtRest
  <2> QED BY <1>1, <2>1, <2>2, ReturnOthers, FollowWork
<1> QED BY <1>4, <1>5

LEMMA FollowRevert ==
  ASSUME TypeOK, Sound, NEW p \in Procs, Revert(p)
  PROVE  Sound'
<1>1. Working(p) /\ (\A q \in Procs : q # p => ~Working(q)) /\ Stored
  BY OthersRest DEF Revert, Working, Busy, Sound, Ready
<1>2. UNCHANGED <<draft, committed, display>> /\ committed \in Layouts
  BY DEF Revert, session, TypeOK
<1>3. CASE renderSafe(committed) = {}
  <2>1. Return(p) /\ ~Valid(Edit)
    BY <1>1, <1>3 DEF Revert, Stored, Valid
  <2>2. Shown'
    BY <1>2, <2>1 DEF Shown, Edit
  <2>3. Ready(p)'
    BY <2>1, ReturnOthers, ReadyAtRest
  <2> QED BY <1>1, <2>1, <2>2, <2>3, ReturnOthers, FollowWork
<1>4. CASE renderSafe(committed) # {}
  <2>1. /\ pc'[p] = "show" /\ \A q \in Procs : q # p => pc'[q] = pc[q]
        /\ loc'[p].layout = renderSafe(committed) /\ loc'[p].then = "idle"
    BY <1>4, GotoOthers, WithOthers DEF Revert
  <2>2. ToShow(loc[p].layout)'
    <3>1. ToShow(renderSafe(committed))
      BY <1>1 DEF Stored, ToShow
    <3> QED BY <1>2, <2>1, <3>1 DEF ToShow, Edit
  <2>3. Ready(p)' /\ Working(p)'
    BY <2>1, <2>2 DEF Ready, Working, Busy
  <2> QED BY <1>1, <2>1, <2>3, FollowWork
<1> QED BY <1>3, <1>4

LEMMA FollowDiscard ==
  ASSUME TypeOK, Sound, NEW p \in Procs, Discard(p), ~aside'
  PROVE  Sound'
<1>1. CASE draft = NoDraft /\ ~Working(p)
  <2>1. Return(p) /\ UNCHANGED <<draft, committed, display>>
    BY <1>1 DEF Discard, session
  <2> QED BY <1>1, <2>1, ReturnOthers, FollowIdle
<1>2. CASE draft = NoDraft /\ Working(p)
  <2>1. Return(p) /\ UNCHANGED <<draft, committed, display>>
    BY <1>2 DEF Discard, session
  <2>2. pc[p] = "discard" /\ p \in Requests
    BY <1>2 DEF Discard, Idle, Working, Busy, Procs
  <2>3. Shown'
    BY <1>2, <2>1, <2>2 DEF Sound, Ready, Shown, Edit
  <2>4. Ready(p)'
    BY <2>1, ReturnOthers, ReadyAtRest
  <2> QED BY <1>2, <2>1, <2>3, <2>4, OthersRest, ReturnOthers, FollowWork
<1>3. CASE draft # NoDraft
  <2>1. /\ draft' = NoDraft /\ pc'[p] = "revert"
        /\ \A q \in Procs : q # p => pc'[q] = pc[q] /\ ~Working(q)
    BY <1>3, GotoOthers, Begins DEF Discard, Drop
  <2>2. Ready(p)' /\ Working(p)'
    BY <2>1, StoredWithoutNext DEF Ready, Working, Busy
  <2> QED BY <2>1, <2>2, FollowWork
<1> QED BY <1>1, <1>2, <1>3

LEMMA FollowSocket ==
  ASSUME TypeOK, Sound, NEW s \in Sockets, SocketStep(s)
  PROVE  Sound'
<1>1. PICK step \in {"idle", "on", "gone", "discard"} : Goto(s, step)
  BY DEF SocketStep, Subscribe, Unsubscribe, CheckClients
<1>2. s \in Procs /\ ~Working(s)
  BY DEF SocketStep, Subscribe, Unsubscribe, CheckClients, Working, Busy, Procs
<1>3. pc'[s] = step /\ \A q \in Procs : q # s => pc'[q] = pc[q]
  BY <1>1, <1>2, GotoOthers
<1>4. ~Working(s)' /\ UNCHANGED <<draft, committed, display, loc>>
  BY <1>1, <1>3 DEF SocketStep, Subscribe, Unsubscribe, CheckClients, session, Working, Busy
<1> QED BY <1>2, <1>3, <1>4, FollowIdle

LEMMA FollowRestart ==
  ASSUME TypeOK, Restart, up'
  PROVE  Sound'
<1>1. DEFINE stored == IF committed = {} THEN Factory ELSE committed
<1>2. /\ committed' = stored /\ Valid(stored) /\ display' = stored /\ draft' = NoDraft
      /\ \A p \in Procs : pc'[p] = "idle"
  BY DEF Restart, Drop
<1>3. stored \in Layouts
  BY LayoutTypes DEF TypeOK
<1>4. Shown'
  BY <1>2, <1>3, SafeValid DEF Shown, Edit
<1>5. \A p \in Procs : ~Working(p)'
  BY <1>2 DEF Working, Busy
<1> QED BY <1>4, <1>5, ReadyAtRest DEF Sound, Alone, Rest

LEMMA FollowStep == TypeOK /\ Follow /\ [Next]_vars => Follow'
<1> SUFFICES ASSUME TypeOK, Follow, [Next]_vars, up', ~aside' PROVE Sound'
  BY DEF Follow
<1>1. CASE Restart
  BY <1>1, FollowRestart
<1>2. CASE ~Restart
  <2>1. up
    BY <1>2 DEF Next, RequestStep, SocketStep, handleGetDraft, EditDraft, handleDraftReorderZones,
       handlePutDraft, UpdateDraft, Preview, Commit, SaveConfigToDB, CommitClear, EditPages,
       EditZones, Redistribute, TriggerReload, Subscribe, Unsubscribe, CheckClients, Discard,
       Revert, Show, TimerFires, onIdleTimeout, vars
  <2>2. ~aside
    BY <1>2 DEF Next, RequestStep, SocketStep, handleGetDraft, EditDraft, handleDraftReorderZones,
       handlePutDraft, UpdateDraft, Preview, Commit, SaveConfigToDB, CommitClear, EditPages,
       EditZones, Redistribute, TriggerReload, Subscribe, Unsubscribe, CheckClients, Discard,
       Revert, Show, TimerFires, onIdleTimeout, Begin, vars
  <2>3. Sound
    BY <2>1, <2>2 DEF Follow
  <2>4. CASE \E p \in Requests : RequestStep(p)
    BY <2>3, <2>4, FollowGet, FollowEdits, FollowUpdate, FollowPreview, FollowCommit, FollowSave,
       FollowClear, FollowPages, FollowZones, FollowWidths, FollowReload DEF RequestStep
  <2>5. CASE TimerFires \/ onIdleTimeout \/ UNCHANGED vars
    <3>1. UNCHANGED <<draft, committed, display, pc, loc>>
      BY <2>5 DEF TimerFires, onIdleTimeout, vars, session
    <3> QED BY <2>3, <3>1, FollowSame
  <2> QED BY <1>2, <2>3, <2>4, <2>5, FollowSocket, FollowDiscard, FollowRevert, FollowShow DEF Next
<1> QED BY <1>1, <1>2

\* When requests did not overlap and no draft timed out, the device shows the layout that
\* is edited whenever nothing is under way, for any pages, requests and sockets.
THEOREM DisplayFollowsAlways == Spec => []DisplayFollows
<1>1. Init => Follow
  <2> SUFFICES ASSUME Init PROVE Sound
    BY DEF Follow
  <2>1. Valid(Factory) /\ renderSafe(Factory) = Factory
    BY ConstantsAssumption, LayoutTypes, SafeValid DEF Valid
  <2>2. Shown /\ \A p \in Procs : ~Working(p) /\ pc[p] = "idle"
    BY <2>1 DEF Init, Shown, Edit, Working, Busy
  <2> QED BY <2>2 DEF Sound, Alone, Rest, Ready
<1>2. Follow => DisplayFollows
  BY DEF Follow, Sound, Rest, Working, Shown, Edit, DisplayFollows
<1> QED BY <1>1, <1>2, InitType, NextType, FollowStep, PTL DEF Spec
=============================================================================
