----------------------------- MODULE DraftSession -----------------------------
(***************************************************************************)
(* The layout editor behind the HTTP API (internal/api/draft.go,           *)
(* draft_handlers.go, layout_handlers.go, ws.go): one draft in memory, the *)
(* committed layout in the database, the layout on display in the zone     *)
(* manager, and the requests, sockets and idle timers that move layouts    *)
(* between the three.                                                      *)
(*                                                                         *)
(* A layout is a set of pages.  All that matters of a page is whether it   *)
(* can be drawn: a full page can, a page without zones is left out, and a  *)
(* page whose zones do not fit is an error.  What an operation does under  *)
(* dm.mu, and every operation of the store, is one step.                   *)
(***************************************************************************)
EXTENDS Naturals

CONSTANTS
  Full,       (* Pages whose zones are valid and fill the width.               *)
  Empty,      (* Pages without zones.                                          *)
  Broken,     (* Pages with zones that Page.Validate refuses.                  *)
  Factory,    (* The layout of the bundled YAML file.                          *)
  Nil,        (* No page.                                                      *)
  Requests,   (* Goroutines serving the editor's HTTP requests.                *)
  Sockets,    (* Goroutines serving a WebSocket client each.                   *)
  MaxFires    (* Timers running or gone off.  Bounds the model.                *)

Pages == Full \cup Empty \cup Broken
Layouts == SUBSET Pages
Procs == Requests \cup Sockets

\* dm.draft is nil.
NoDraft == {Nil}

\* Config.Validate: some pages, and none that is empty or broken.
Valid(l) == l # {} /\ l \subseteq Full

ASSUME ConstantsAssumption ==
  /\ Full \cap Empty = {} /\ Full \cap Broken = {} /\ Empty \cap Broken = {}
  /\ Factory \subseteq Full /\ Factory # {}
  /\ Nil \notin Pages
  /\ Requests \cap Sockets = {}
  /\ MaxFires \in Nat \ {0}

VARIABLES
  up,         \* the daemon runs: zone.NewManager accepted the committed layout
  committed,  \* the layout in the database
  draft,      \* dm.draft
  display,    \* m.config of the zone manager
  timer,      \* dm.timer: "nil", "armed", "fired" (its function waits for dm.mu)
  leaked,     \* armed timers that dm.timer has lost
  firing,     \* calls of onIdleTimeout that wait for dm.mu
  pc, loc,    \* the position and the locals of each goroutine
  aside       \* history: the display may differ from the layout being edited

vars == <<up, committed, draft, display, timer, leaked, firing, pc, loc, aside>>

session == <<draft, timer>>
clock == <<leaked, firing>>

\* layout: the layout at hand; then: what follows once it is shown.
Locals == [layout : Layouts, then : {"idle", "show", "discard"}]
NoLocals == [layout |-> {}, then |-> "idle"]

Steps == {"idle", "update", "preview", "save", "clear", "widths", "reload", "show",
          "discard", "revert", "on", "gone"}

TypeOK ==
  /\ up \in BOOLEAN
  /\ committed \in Layouts
  /\ draft \in Layouts \cup {NoDraft}
  /\ display \in Layouts
  /\ timer \in {"nil", "armed", "fired"}
  /\ leaked \in Nat /\ firing \in Nat
  /\ pc \in [Procs -> Steps]
  /\ loc \in [Procs -> Locals]
  /\ aside \in BOOLEAN

Init ==
  /\ up = TRUE
  /\ committed = Factory /\ display = Factory
  /\ draft = NoDraft /\ timer = "nil"
  /\ leaked = 0 /\ firing = 0
  /\ pc = [p \in Procs |-> "idle"]
  /\ loc = [p \in Procs |-> NoLocals]
  /\ aside = FALSE

Goto(p, step) == pc' = [pc EXCEPT ![p] = step]
Return(p) == Goto(p, "idle") /\ loc' = [loc EXCEPT ![p] = NoLocals]
With(p, l, then) == loc' = [loc EXCEPT ![p] = [layout |-> l, then |-> then]]

\* p is working on a layout.
Busy(p) == pc[p] \notin {"idle", "on", "gone"}

Idle(p) == up /\ p \in Requests /\ pc[p] = "idle"

\* Two pieces of work at once, or an edit of the committed layout that leaves a
\* draft open, may leave another layout on display.
Begin(p, other) == aside' = (aside \/ other \/ \E q \in Procs \ {p} : Busy(q))

-----------------------------------------------------------------------------
(* DraftManager *)

\* renderSafeConfig
renderSafe(l) == l \ Empty

\* loadFromStore reads the committed layout, with its empty pages, and refuses a
\* database that has none.
Loadable == committed # {}

\* OpenDraft gives the draft, opening one from the database if there is none.
OpenDraft ==
  /\ draft # NoDraft \/ Loadable
  /\ draft' = IF draft = NoDraft THEN committed ELSE draft
  /\ timer' = IF draft = NoDraft THEN "armed" ELSE timer

\* stopTimerLocked: a call that waits for dm.mu is not stopped.
Drop == draft' = NoDraft /\ timer' = "nil"

\* One page of a layout changes: zones are patched, added, removed or put in another
\* order.  The first zone of a page fills it.
Edited(l) ==
  {(l \ {e[1]}) \cup {e[2]} :
     e \in {e \in l \X (Pages \ l) : e[1] \in Empty => e[2] \in Full}}

-----------------------------------------------------------------------------
(* The draft requests *)

handleGetDraft(p) ==
  /\ Idle(p)
  /\ OpenDraft
  /\ UNCHANGED <<up, committed, display, clock, pc, loc, aside>>

\* The zone requests change a copy of the draft; a patch of the theme shows it twice.
EditDraft(p) ==
  /\ Idle(p)
  /\ OpenDraft
  /\ \E l \in Edited(draft'), then \in {"idle", "show"} : With(p, l, then)
  /\ Goto(p, "update")
  /\ Begin(p, FALSE)
  /\ UNCHANGED <<up, committed, display, clock>>

\* The zones of a page that are not in the order asked for are dropped.
handleDraftReorderZones(p) ==
  /\ Idle(p)
  /\ OpenDraft
  /\ \E l \in Edited(draft') : Empty \cap draft' \subseteq l /\ With(p, l, "idle")
  /\ Goto(p, "update")
  /\ Begin(p, FALSE)
  /\ UNCHANGED <<up, committed, display, clock>>

handlePutDraft(p) ==
  /\ Idle(p)
  /\ \E l \in Layouts : With(p, l, "idle")
  /\ Goto(p, "update")
  /\ Begin(p, FALSE)
  /\ UNCHANGED <<up, committed, session, display, clock>>

\* Mutant: the idle timer of the draft is not started again.
MutUpdateDraft(p) ==
  /\ pc[p] = "update"
  /\ draft' = loc[p].layout
  /\ IF renderSafe(loc[p].layout) = {} THEN Return(p) ELSE Goto(p, "preview") /\ UNCHANGED loc
  /\ UNCHANGED <<up, committed, display, timer, clock, aside>>

\* UpdateDraft puts the copy in the place of the draft, whatever that is by then, ...
UpdateDraft(p) ==
  /\ pc[p] = "update"
  /\ draft' = loc[p].layout
  /\ timer' = "armed"
  /\ IF renderSafe(loc[p].layout) = {} THEN Return(p) ELSE Goto(p, "preview") /\ UNCHANGED loc
  /\ UNCHANGED <<up, committed, display, clock, aside>>

\* ... and then shows it.  If it cannot be shown the request fails, the draft stays.
Preview(p) ==
  /\ pc[p] = "preview"
  /\ LET l == renderSafe(loc[p].layout)
     IN IF Valid(l)
        THEN /\ display' = l
             /\ IF loc[p].then = "show" THEN Goto(p, "show") /\ UNCHANGED loc ELSE Return(p)
        ELSE Return(p) /\ UNCHANGED display
  /\ UNCHANGED <<up, committed, session, clock, aside>>

\* Mutant: Commit does not look whether there is a draft.
MutCommit(p) ==
  /\ Idle(p)
  /\ With(p, draft, "idle")
  /\ Goto(p, "save")
  /\ Begin(p, FALSE)
  /\ UNCHANGED <<up, committed, session, display, clock>>

\* Commit takes a copy of the draft, ...
Commit(p) ==
  /\ Idle(p)
  /\ draft # NoDraft
  /\ With(p, draft, "idle")
  /\ Goto(p, "save")
  /\ Begin(p, FALSE)
  /\ UNCHANGED <<up, committed, session, display, clock>>

\* ... writes it to the database in one transaction, which may fail, ...
SaveConfigToDB(p) ==
  /\ pc[p] = "save"
  /\ \/ committed' = loc[p].layout /\ Goto(p, "clear") /\ UNCHANGED loc
     \/ Return(p) /\ UNCHANGED committed
  /\ UNCHANGED <<up, session, display, clock, aside>>

\* ... drops the draft, whatever that is by then, and reloads.
CommitClear(p) ==
  /\ pc[p] = "clear"
  /\ Drop
  /\ Goto(p, "reload")
  /\ With(p, {}, "idle")
  /\ UNCHANGED <<up, committed, display, clock, aside>>

\* Discard, for the request and after the others that call it.
Discard(p) ==
  /\ pc[p] = "discard" \/ Idle(p)
  /\ IF draft = NoDraft THEN Return(p) /\ UNCHANGED <<session, aside>>
     ELSE Drop /\ Goto(p, "revert") /\ With(p, {}, "idle") /\ Begin(p, FALSE)
  /\ UNCHANGED <<up, committed, display, clock>>

\* The committed layout is read back.
Revert(p) ==
  /\ pc[p] = "revert"
  /\ IF renderSafe(committed) = {} THEN Return(p)
     ELSE With(p, renderSafe(committed), "idle") /\ Goto(p, "show")
  /\ UNCHANGED <<up, committed, session, display, clock, aside>>

-----------------------------------------------------------------------------
(* The layout requests, which edit the database *)

\* handleLayoutPages and handleLayoutPage create or delete a page, reload, discard.
EditPages(p) ==
  /\ Idle(p)
  /\ committed' \in {committed \cup {e} : e \in Empty} \cup {committed \ {e} : e \in committed}
  /\ With(p, {}, "discard")
  /\ Goto(p, "reload")
  /\ Begin(p, FALSE)
  /\ UNCHANGED <<up, session, display, clock>>

\* handleLayoutZone, handleCreateZone and the reorder requests change one page and
\* reload.  A zone created or deleted leaves its page broken until the widths are
\* distributed; an update that breaks the page is answered with an error, and stays.
EditZones(p) ==
  /\ Idle(p)
  /\ committed' \in Edited(committed)
  /\ LET broken == (committed' \ committed) \cap Broken
     IN IF broken = {} THEN With(p, {}, "idle") /\ Goto(p, "reload")
        ELSE \/ UNCHANGED <<pc, loc>>
             \/ With(p, broken, "idle") /\ Goto(p, "widths")
  /\ Begin(p, draft # NoDraft)
  /\ UNCHANGED <<up, session, display, clock>>

\* redistributePageWidths repairs that page, if it is still there.
Redistribute(p) ==
  /\ pc[p] = "widths"
  /\ IF loc[p].layout \subseteq committed
     THEN \E page \in Full \ committed : committed' = (committed \ loc[p].layout) \cup {page}
     ELSE UNCHANGED committed
  /\ Goto(p, "reload")
  /\ With(p, {}, "idle")
  /\ UNCHANGED <<up, session, display, clock, aside>>

\* Mutant: the pages without zones are kept.
MutTriggerReload(p) ==
  /\ pc[p] = "reload"
  /\ With(p, committed, loc[p].then)
  /\ Goto(p, "show")
  /\ UNCHANGED <<up, committed, session, display, clock, aside>>

\* triggerLayoutReload reads the database (with no page to draw it takes the layout
\* on display), ...
TriggerReload(p) ==
  /\ pc[p] = "reload"
  /\ With(p, IF renderSafe(committed) = {} THEN display ELSE renderSafe(committed),
          loc[p].then)
  /\ Goto(p, "show")
  /\ UNCHANGED <<up, committed, session, display, clock, aside>>

\* ... and ReloadFromConfig shows what was read, unless Validate refuses it.
Show(p) ==
  /\ pc[p] = "show"
  /\ display' = IF Valid(loc[p].layout) THEN loc[p].layout ELSE display
  /\ IF loc[p].then = "discard" THEN Goto(p, "discard") /\ With(p, {}, "idle") ELSE Return(p)
  /\ UNCHANGED <<up, committed, session, clock, aside>>

-----------------------------------------------------------------------------
(* handleWS *)

Subscribe(s) ==
  /\ up /\ pc[s] = "idle"
  /\ Goto(s, "on")
  /\ UNCHANGED <<up, committed, session, display, clock, loc, aside>>

Unsubscribe(s) ==
  /\ pc[s] = "on"
  /\ Goto(s, "gone")
  /\ UNCHANGED <<up, committed, session, display, clock, loc, aside>>

\* The last client that leaves discards the draft.
CheckClients(s) ==
  /\ pc[s] = "gone"
  /\ Goto(s, IF draft = NoDraft \/ \E q \in Sockets : pc[q] = "on" THEN "idle" ELSE "discard")
  /\ UNCHANGED <<up, committed, session, display, clock, loc, aside>>

-----------------------------------------------------------------------------
(* The idle timer *)

TimerFires ==
  /\ firing < MaxFires
  /\ \/ timer = "armed" /\ timer' = "fired" /\ UNCHANGED leaked
     \/ leaked > 0 /\ leaked' = leaked - 1 /\ UNCHANGED timer
  /\ firing' = firing + 1
  /\ UNCHANGED <<up, committed, draft, display, pc, loc, aside>>

\* onIdleTimeout drops the draft, be it another one than the timer was started for,
\* and leaves it on display.  A timer started again meanwhile is forgotten, not
\* stopped.
onIdleTimeout ==
  /\ firing > 0
  /\ firing' = firing - 1
  /\ IF draft = NoDraft THEN UNCHANGED <<session, leaked, aside>>
     ELSE /\ Drop
          /\ timer = "armed" => leaked < MaxFires
          /\ leaked' = IF timer = "armed" THEN leaked + 1 ELSE leaked
          /\ aside' = TRUE
  /\ UNCHANGED <<up, committed, display, pc, loc>>

-----------------------------------------------------------------------------
\* The daemon stops at any moment and starts again: zone.NewManager reads the
\* layout back, seeds an empty database, and fails on a layout that is not valid.
Restart ==
  /\ LET stored == IF committed = {} THEN Factory ELSE committed
     IN /\ committed' = stored
        /\ up' = Valid(stored)
        /\ display' = IF Valid(stored) THEN stored ELSE display
  /\ Drop
  /\ leaked' = 0 /\ firing' = 0
  /\ pc' = [p \in Procs |-> "idle"]
  /\ loc' = [p \in Procs |-> NoLocals]
  /\ aside' = FALSE

RequestStep(p) ==
  \/ handleGetDraft(p) \/ EditDraft(p) \/ handleDraftReorderZones(p) \/ handlePutDraft(p)
  \/ UpdateDraft(p) \/ Preview(p)
  \/ Commit(p) \/ SaveConfigToDB(p) \/ CommitClear(p)
  \/ EditPages(p) \/ EditZones(p) \/ Redistribute(p) \/ TriggerReload(p)

SocketStep(s) == Subscribe(s) \/ Unsubscribe(s) \/ CheckClients(s)

Next ==
  \/ \E p \in Requests : RequestStep(p)
  \/ \E s \in Sockets : SocketStep(s)
  \/ \E p \in Procs : Discard(p) \/ Revert(p) \/ Show(p)
  \/ TimerFires \/ onIdleTimeout
  \/ Restart

Spec == Init /\ [][Next]_vars

-----------------------------------------------------------------------------
(* Properties *)

\* A draft is open exactly while dm.timer is set, and that timer runs or has its
\* function waiting: no draft outlives the session of its editor for good, however
\* requests, disconnects and late timers interleave.
DraftIsTimed ==
  /\ draft = NoDraft <=> timer = "nil"
  /\ timer = "fired" => firing > 0

\* When nothing is under way the device shows the layout being edited, or the
\* committed one if none is ("calls update the draft and immediately reload the
\* hardware display", "Discard reloads committed layout"), except after requests
\* that overlapped, edits of the committed layout behind an open draft, and drafts
\* that timed out.
DisplayFollows ==
  LET edited == renderSafe(IF draft = NoDraft THEN committed ELSE draft)
  IN up /\ ~aside /\ (\A p \in Procs : ~Busy(p)) /\ Valid(edited) => display = edited

\* Commit clears no draft but the one it wrote to the database ("Commit writes the
\* current draft to the DB via commitFn and clears the draft").
ClearsWhatItSaved ==
  [][\A p \in Requests : CommitClear(p) => draft \in {NoDraft, loc[p].layout}]_vars

\* Whatever the requests left in the database, the daemon starts again with it ("the
\* manager loads the layout from SQLite first").
StartsAgain == up
=============================================================================
