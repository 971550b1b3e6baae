----------------------------- MODULE FrameCache -----------------------------
(***************************************************************************)
(* The pictures of zone.Manager (internal/zone/manager_render.go,          *)
(* manager_page.go and the cold path of manager_swipe.go): lastFrame and   *)
(* its dirty flag, the two reused compositor buffers, the page cache, and  *)
(* the goroutines that draw into and read from them under payloadsMu.      *)
(*                                                                         *)
(* A picture is abstracted to what it was drawn from: a page, the layout   *)
(* that page had, the payload of its zone and whether that had expired     *)
(* (the background is in Startup).  Each page has one zone, so its payload *)
(* is numbered with the page.  A zone's cachedImg is keyed by the          *)
(* payload's timestamp, which is taken to differ between payloads, so a    *)
(* drawing always shows the payload of its instant.                        *)
(*                                                                         *)
(* renderZoneImages holds payloadsMu for reading only: several goroutines  *)
(* may draw at once, into the same buffer too, and flip frameBufIdx under  *)
(* each other's hands.  So a drawing has a beginning and an end, and a     *)
(* buffer between the two is half drawn.                                   *)
(***************************************************************************)
EXTENDS Naturals

CONSTANTS
  LastPage,     (* The layout has pages 0..LastPage.                          *)
  MaxData,      (* Payloads a zone receives.  Bounds the model.               *)
  MaxLayout,    (* Layout edits.  Bounds the model.                           *)
  Loop,         (* The render loop of app.App.                                *)
  Switchers,    (* Goroutines in SwitchPageWithTransition.                    *)
  Swipers,      (* Goroutines in FinalizeLiveSwipe: the touch goroutine.      *)
  Editors,      (* Goroutines in ReloadFromConfig.                            *)
  Warmers,      (* Goroutines in preRenderPage.                               *)
  Colds         (* Goroutines of a live swipe whose target was not cached.    *)

Painters  == Switchers \cup Swipers
Renderers == {Loop} \cup Swipers
Procs == {Loop} \cup Painters \cup Editors \cup Warmers \cup Colds

ASSUME ConstantsAssumption ==
  /\ LastPage \in Nat /\ MaxData \in Nat /\ MaxLayout \in Nat
  /\ Loop \notin Painters \cup Editors \cup Warmers \cup Colds
  /\ Switchers \cap (Swipers \cup Editors \cup Warmers \cup Colds) = {}
  /\ Swipers \cap (Editors \cup Warmers \cup Colds) = {}
  /\ Editors \cap (Warmers \cup Colds) = {}
  /\ Warmers \cap Colds = {}

Pages   == 0..LastPage
Buffers == 0..1

Picture == [page : Pages, layout : 0..MaxLayout, data : 0..MaxData, stale : BOOLEAN]
Blank   == [page |-> 0, layout |-> 0, data |-> 0, stale |-> FALSE]

\* A frame pointer: to a reused buffer, or to a picture of its own (with, for the
\* properties, the kind of goroutine that drew or cached it).
Kinds == {"buf", "swipe", "warm", "cold", "none"}
BufFrame(b) == [kind |-> "buf", buf |-> b, pic |-> Blank]
\* Mutant: a page off display is drawn into the shared back buffer.
MutOwnFrame(p, pic) == [kind |-> "buf", buf |-> 0, pic |-> Blank]
OwnFrame(p, pic) ==
  [kind |-> IF p \in Warmers THEN "warm" ELSE "cold", buf |-> 0, pic |-> pic]
SwipeFrame(b) == [kind |-> "swipe", buf |-> b, pic |-> Blank]
NoFrame == [kind |-> "none", buf |-> 0, pic |-> Blank]
Frames == [kind : Kinds, buf : Buffers, pic : Picture]

VARIABLES
  data,         \* data[p]: m.payloads of the zone of page p
  expired,      \* expired[p]: that payload is older than its time to live
  layout,       \* the version of m.config
  zonesPage,    \* the page m.zones and m.compositor were built for, ...
  zonesLayout,  \* ... and from which version of the layout
  frameDirty, lastFrame, frameBufIdx, pageCache,   \* as in the code
  picture,      \* picture[b]: what m.frameBufs[b] shows
  readers,      \* the goroutines holding payloadsMu for reading across a step
  pc, loc       \* the position and the locals of each goroutine

vars == <<data, expired, layout, zonesPage, zonesLayout, frameDirty,
          lastFrame, frameBufIdx, pageCache, picture, readers, pc, loc>>

input  == <<data, expired>>
zones  == <<zonesPage, zonesLayout>>
front  == <<frameDirty, lastFrame>>
buffer == <<frameBufIdx, picture>>

Locals == [page : Pages, layout : 0..MaxLayout, dst : Buffers, pic : Picture]
NoLocals == [page |-> 0, layout |-> 0, dst |-> 0, pic |-> Blank]

Steps == {"idle", "read", "build", "lookup", "paint", "painting", "store",
          "first", "draw", "drawn", "clear"}

TypeOK ==
  /\ data \in [Pages -> 0..MaxData]
  /\ expired \in [Pages -> BOOLEAN]
  /\ layout \in 0..MaxLayout
  /\ zonesPage \in Pages /\ zonesLayout \in 0..MaxLayout
  /\ frameDirty \in BOOLEAN
  /\ lastFrame \in {BufFrame(b) : b \in Buffers} \cup {NoFrame}
  /\ frameBufIdx \in Buffers
  /\ pageCache \in [Pages -> Frames]
  /\ picture \in [Buffers -> Picture]
  /\ readers \in SUBSET Procs
  /\ pc \in [Procs -> Steps]
  /\ loc \in [Procs -> Locals]

Init ==
  /\ data = [p \in Pages |-> 0]
  /\ expired = [p \in Pages |-> FALSE]
  /\ layout = 0
  /\ zonesPage = 0 /\ zonesLayout = 0
  /\ frameDirty = TRUE
  /\ lastFrame = NoFrame
  /\ frameBufIdx = 0
  /\ pageCache = [p \in Pages |-> NoFrame]
  /\ picture = [b \in Buffers |-> Blank]
  /\ readers = {}
  /\ pc = [p \in Procs |-> "idle"]
  /\ loc = [p \in Procs |-> NoLocals]

-----------------------------------------------------------------------------
Shows(f) == IF f.kind \in {"buf", "swipe"} THEN picture[f.buf] ELSE f.pic

\* What preRenderPage and renderPageFrame draw: they do not look at the age of a
\* payload.
PictureOf(page, version) ==
  [page |-> page, layout |-> version, data |-> data[page], stale |-> FALSE]

\* What renderZoneImages draws: "Stale" in place of an expired payload.
PictureOfZones ==
  [page |-> zonesPage, layout |-> zonesLayout, data |-> data[zonesPage],
   stale |-> expired[zonesPage]]

Goto(p, step) == pc' = [pc EXCEPT ![p] = step]
Return(p) == Goto(p, "idle") /\ loc' = [loc EXCEPT ![p] = NoLocals]

\* renderZoneImages, under payloadsMu.RLock: the current zones are looked up and the
\* drawing into the back buffer begins; ...
BeginDraw(p) ==
  /\ readers' = readers \cup {p}
  /\ loc' = [loc EXCEPT ![p].dst = frameBufIdx, ![p].pic = PictureOfZones]

Drawers    == {q \in Procs : pc[q] \in {"draw", "painting"}}
Drawing(b) == \E q \in Drawers : loc[q].dst = b

\* ... it ends, and frameBufIdx ^= 1.  Beside another drawing that is a race, which
\* may leave either index.
FinishDraw(p) ==
  /\ picture' = [picture EXCEPT ![loc[p].dst] = loc[p].pic]
  /\ \/ frameBufIdx' = 1 - frameBufIdx
     \/ Drawers # {p} /\ frameBufIdx' = frameBufIdx

CacheFrame(page, f) == pageCache' = [pageCache EXCEPT ![page] = f]

-----------------------------------------------------------------------------
(* RenderFrame with no overlay or transition on: of the render loop, and of the *)
(* touch goroutine that starts a live swipe before there is a first frame.      *)

SwipeNeedsFrame(p) ==
  /\ p \in Swipers /\ pc[p] = "idle" /\ lastFrame = NoFrame
  /\ Goto(p, "first")
  /\ UNCHANGED <<input, layout, zones, front, buffer, pageCache, readers, loc>>

AtRenderFrame(p) == p \in Renderers /\ pc[p] = (IF p = Loop THEN "idle" ELSE "first")

\* Nothing has changed: lastFrame is good enough.
RenderCached(p) ==
  /\ AtRenderFrame(p) /\ ~frameDirty /\ lastFrame # NoFrame
  /\ Return(p)
  /\ UNCHANGED <<input, layout, zones, front, buffer, pageCache, readers>>

\* Something changed, or a ripple or a marquee runs: the zones are drawn.
RenderFrame(p) ==
  /\ AtRenderFrame(p)
  /\ BeginDraw(p)
  /\ Goto(p, "draw")
  /\ UNCHANGED <<input, layout, zones, front, buffer, pageCache>>

\* Mutant: payloadsMu is released before the drawing becomes lastFrame.
MutRenderDrawn(p) ==
  /\ pc[p] = "draw"
  /\ FinishDraw(p)
  /\ readers' = readers \ {p}
  /\ Goto(p, "drawn")
  /\ UNCHANGED <<input, layout, zones, front, pageCache, loc>>

RenderDrawn(p) ==
  /\ pc[p] = "draw"
  /\ FinishDraw(p)
  /\ Goto(p, "drawn")
  /\ UNCHANGED <<input, layout, zones, front, pageCache, readers, loc>>

\* Still under payloadsMu the drawing becomes lastFrame; a ripple leaves it dirty.
RenderPublish(p, ripple) ==
  /\ pc[p] = "drawn"
  /\ lastFrame' = BufFrame(loc[p].dst)
  /\ frameDirty' = (ripple /\ frameDirty)
  /\ readers' = readers \ {p}
  /\ Return(p)
  /\ UNCHANGED <<input, layout, zones, buffer, pageCache>>

-----------------------------------------------------------------------------
(* initializePage: the page and its configuration are read first, then, alone *)
(* on payloadsMu, the zones and their compositor are built.                   *)

InitRead(p, page) ==
  /\ pc[p] = "idle"
  /\ loc' = [loc EXCEPT ![p].page = page, ![p].layout = layout]
  /\ Goto(p, "build")
  /\ UNCHANGED <<input, layout, zones, front, buffer, pageCache, readers>>

InitBuild(p) ==
  /\ pc[p] = "build" /\ readers = {}
  /\ zonesPage' = loc[p].page /\ zonesLayout' = loc[p].layout
  /\ frameDirty' = TRUE
  /\ Goto(p, IF p \in Editors THEN "clear" ELSE "lookup")
  /\ UNCHANGED <<input, layout, lastFrame, buffer, pageCache, readers, loc>>

\* SwitchPageWithTransition drops the cached frame of its page.
SwitchDrop(p) ==
  /\ p \in Switchers /\ pc[p] = "lookup"
  /\ CacheFrame(loc[p].page, NoFrame)
  /\ Goto(p, "paint")
  /\ UNCHANGED <<input, layout, zones, front, buffer, readers, loc>>

\* FinalizeLiveSwipe is content with a cached frame.
SwipeLookup(p) ==
  /\ p \in Swipers /\ pc[p] = "lookup"
  /\ IF pageCache[loc[p].page] = NoFrame
     THEN Goto(p, "paint") /\ UNCHANGED loc
     ELSE Return(p)
  /\ UNCHANGED <<input, layout, zones, front, buffer, pageCache, readers>>

\* renderImmediateFrameForCurrentPage.  A switch slides the drawing in; ...
PaintBegin(p) ==
  /\ pc[p] = "paint"
  /\ BeginDraw(p)
  /\ Goto(p, "painting")
  /\ UNCHANGED <<input, layout, zones, front, buffer, pageCache>>

Painted(p) ==
  /\ pc[p] = "painting"
  /\ FinishDraw(p)
  /\ readers' = readers \ {p}
  /\ IF p \in Switchers THEN Return(p) ELSE Goto(p, "store") /\ UNCHANGED loc
  /\ UNCHANGED <<input, layout, zones, front, pageCache>>

\* ... a swipe has released payloadsMu, and stores the buffer itself in the cache.
SwipeStore(p) ==
  /\ p \in Swipers /\ pc[p] = "store"
  /\ CacheFrame(loc[p].page, SwipeFrame(loc[p].dst))
  /\ Return(p)
  /\ UNCHANGED <<input, layout, zones, front, buffer, readers>>

-----------------------------------------------------------------------------
(* ReloadFromConfig: a new configuration, initializePage, an empty cache. *)

Reload(p) ==
  /\ pc[p] = "idle" /\ layout < MaxLayout
  /\ layout' = layout + 1
  /\ loc' = [loc EXCEPT ![p].page = zonesPage, ![p].layout = layout + 1]
  /\ Goto(p, "build")
  /\ UNCHANGED <<input, zones, front, buffer, pageCache, readers>>

ReloadClear(p) ==
  /\ pc[p] = "clear"
  /\ pageCache' = [q \in Pages |-> NoFrame]
  /\ Return(p)
  /\ UNCHANGED <<input, layout, zones, front, buffer, readers>>

-----------------------------------------------------------------------------
(* Drawing a page that is not on display, into a frame of its own *)

\* preRenderPage and renderPageFrame copy the page's zones from the configuration
\* before they take payloadsMu.
PreRender(p, page) ==
  /\ p \in Warmers /\ pc[p] = "idle" /\ page # zonesPage
  /\ loc' = [loc EXCEPT ![p].page = page, ![p].layout = layout]
  /\ Goto(p, "read")
  /\ UNCHANGED <<input, layout, zones, front, buffer, pageCache, readers>>

ColdRender(p, page) ==
  /\ p \in Colds /\ pc[p] = "idle" /\ pageCache[page] = NoFrame
  /\ loc' = [loc EXCEPT ![p].page = page, ![p].layout = layout]
  /\ Goto(p, "read")
  /\ UNCHANGED <<input, layout, zones, front, buffer, pageCache, readers>>

\* Mutant: preRenderPage does not hold payloadsMu until the frame is stored.
MutDrawPage(p) ==
  /\ pc[p] = "read"
  /\ loc' = [loc EXCEPT ![p].pic = PictureOf(loc[p].page, loc[p].layout)]
  /\ Goto(p, "store")
  /\ UNCHANGED <<input, layout, zones, front, buffer, pageCache, readers>>

\* Under payloadsMu the page is drawn.  preRenderPage keeps holding it until the
\* frame is stored; renderPageFrame releases it when it returns.
DrawPage(p) ==
  /\ pc[p] = "read"
  /\ loc' = [loc EXCEPT ![p].pic = PictureOf(loc[p].page, loc[p].layout)]
  /\ readers' = IF p \in Warmers THEN readers \cup {p} ELSE readers
  /\ Goto(p, "store")
  /\ UNCHANGED <<input, layout, zones, front, buffer, pageCache>>

PreRenderStore(p) ==
  /\ p \in Warmers /\ pc[p] = "store"
  /\ CacheFrame(loc[p].page, OwnFrame(p, loc[p].pic))
  /\ readers' = readers \ {p}
  /\ Return(p)
  /\ UNCHANGED <<input, layout, zones, front, buffer>>

\* The goroutine of the live swipe stores the frame it got.
ColdStore(p) ==
  /\ p \in Colds /\ pc[p] = "store"
  /\ CacheFrame(loc[p].page, OwnFrame(p, loc[p].pic))
  /\ Return(p)
  /\ UNCHANGED <<input, layout, zones, front, buffer, readers>>

-----------------------------------------------------------------------------
\* UpdatePayload, alone on payloadsMu, for the zone of a page.
UpdatePayload(page) ==
  /\ readers = {} /\ data[page] < MaxData
  /\ data' = [data EXCEPT ![page] = @ + 1]
  /\ expired' = [expired EXCEPT ![page] = FALSE]
  /\ frameDirty' = TRUE
  /\ CacheFrame(page, NoFrame)
  /\ UNCHANGED <<layout, zones, lastFrame, buffer, readers, pc, loc>>

\* The time to live of a payload runs out.  Nothing is told of it.
Expire(page) ==
  /\ data[page] > 0 /\ ~expired[page]
  /\ expired' = [expired EXCEPT ![page] = TRUE]
  /\ UNCHANGED <<data, layout, zones, front, buffer, pageCache, readers, pc, loc>>

-----------------------------------------------------------------------------
PaintStep(p) ==
  \/ InitBuild(p) \/ SwitchDrop(p) \/ SwipeLookup(p)
  \/ PaintBegin(p) \/ Painted(p) \/ SwipeStore(p)

RenderStep(p) ==
  \/ SwipeNeedsFrame(p) \/ RenderCached(p) \/ RenderFrame(p) \/ RenderDrawn(p)
  \/ \E ripple \in BOOLEAN : RenderPublish(p, ripple)

Next ==
  \/ \E p \in Renderers : RenderStep(p)
  \/ \E p \in Painters : PaintStep(p) \/ \E page \in Pages : InitRead(p, page)
  \/ \E p \in Editors : Reload(p) \/ InitBuild(p) \/ ReloadClear(p)
  \/ \E p \in Warmers : DrawPage(p) \/ PreRenderStore(p) \/ \E page \in Pages : PreRender(p, page)
  \/ \E p \in Colds : DrawPage(p) \/ ColdStore(p) \/ \E page \in Pages : ColdRender(p, page)
  \/ \E page \in Pages : UpdatePayload(page) \/ Expire(page)

Spec == Init /\ [][Next]_vars

-----------------------------------------------------------------------------
(* Properties *)

\* The picture of the zones as they are.  A payload that has expired since may still be
\* shown, for its expiry makes nothing dirty; one that has not is not shown as stale.
Current(pic) ==
  /\ pic.page = zonesPage /\ pic.layout = zonesLayout /\ pic.data = data[zonesPage]
  /\ pic.stale => expired[zonesPage]

\* The frame RenderFrame hands out without drawing, because nothing is dirty, shows
\* the current zones and payloads, or is just being drawn anew: no payload and no
\* page change is lost between the drawing and the clearing of frameDirty, although
\* other goroutines draw into both buffers, and flip them, behind the render loop's
\* back.
FrontFrameFresh ==
  ~frameDirty =>
    lastFrame # NoFrame /\ (Drawing(lastFrame.buf) \/ Current(Shows(lastFrame)))

\* A frame preRenderPage cached shows the payload of this instant, whatever else
\* runs ("UpdatePayload updates the rendered data for a zone and invalidates the page
\* cache").
CacheShowsPayload ==
  \A p \in Pages : pageCache[p].kind = "warm" => pageCache[p].pic.data = data[p]

\* The frame cached for a page shows that page, however often pages change
\* ("getCachedPageFrame returns a pre-rendered frame for the given page"), unless a
\* committed swipe cached it.
CacheShowsItsPage ==
  \A p \in Pages :
    pageCache[p].kind \notin {"none", "swipe"} => Shows(pageCache[p]).page = p

\* Not so: a clean front frame may be half drawn.  Two drawings outside the render
\* loop, one after the other or at once, come round to its buffer.
FrontFrameWhole == ~frameDirty => ~Drawing(lastFrame.buf)

\* Not so: ReloadFromConfig empties the cache so that no frame of the old layout is
\* left, and a pre-render that has read that layout stores its frame afterwards.
CacheShowsLayout ==
  (\A p \in Editors : pc[p] = "idle") =>
    \A p \in Pages : pageCache[p].kind = "warm" => pageCache[p].pic.layout = layout

\* Not so: the frame of a committed swipe is a buffer that is drawn into again.
SwipedShowsItsPage ==
  \A p \in Pages : pageCache[p].kind = "swipe" => Shows(pageCache[p]).page = p
=============================================================================
