--------------------------- MODULE FrameCacheProofs ---------------------------
(***************************************************************************)
(* Proofs about FrameCache, for any number of pages and of goroutines: the *)
(* frame on display and the frames that preRenderPage caches are not       *)
(* stale, because payloadsMu is held from the drawing of a frame until it  *)
(* is stored.                                                              *)
(***************************************************************************)
EXTENDS FrameCache, TLAPS

-----------------------------------------------------------------------------
(* The type invariant *)

LEMMA BlankTypes ==
  /\ 0 \in Pages /\ Blank \in Picture /\ NoFrame \in Frames /\ NoLocals \in Locals
  /\ \A b \in Buffers : SwipeFrame(b) \in Frames
<1>1. 0 \in Pages /\ 0 \in 0..MaxData /\ 0 \in 0..MaxLayout /\ 0 \in Buffers
  BY ConstantsAssumption DEF Pages, Buffers
<1>2. Blank \in Picture
  BY <1>1 DEF Blank, Picture
<1> QED BY <1>1, <1>2 DEF NoFrame, Frames, Kinds, NoLocals, Locals, SwipeFrame

LEMMA PictureTypes ==
  ASSUME TypeOK
  PROVE  /\ \A page \in Pages, v \in 0..MaxLayout : PictureOf(page, v) \in Picture
         /\ PictureOfZones \in Picture
BY DEF TypeOK, PictureOf, PictureOfZones, Picture

LEMMA DrawTypes ==
  ASSUME TypeOK, NEW p \in Procs
  PROVE  /\ BeginDraw(p) => loc' \in [Procs -> Locals] /\ readers' \in SUBSET Procs
         /\ FinishDraw(p) => picture' \in [Buffers -> Picture] /\ frameBufIdx' \in Buffers
<1>1. /\ PictureOfZones \in Picture /\ frameBufIdx \in Buffers /\ 1 - frameBufIdx \in Buffers
      /\ loc \in [Procs -> Locals] /\ loc[p] \in Locals
  BY PictureTypes DEF TypeOK, Buffers
<1>2. ASSUME BeginDraw(p) PROVE loc' \in [Procs -> Locals] /\ readers' \in SUBSET Procs
  BY <1>1, <1>2 DEF BeginDraw, Locals, TypeOK
<1>3. ASSUME FinishDraw(p) PROVE picture' \in [Buffers -> Picture] /\ frameBufIdx' \in Buffers
  BY <1>1, <1>3 DEF FinishDraw, Locals, TypeOK
<1> QED BY <1>2, <1>3

\* What a goroutine remembers, and where it goes, keep their types.
LEMMA LocalUpdates ==
  ASSUME TypeOK, NEW p \in Procs
  PROVE  /\ \A page \in Pages, v \in 0..MaxLayout :
              [loc EXCEPT ![p].page = page, ![p].layout = v] \in [Procs -> Locals]
         /\ \A pic \in Picture : [loc EXCEPT ![p].pic = pic] \in [Procs -> Locals]
         /\ [loc EXCEPT ![p] = NoLocals] \in [Procs -> Locals]
BY BlankTypes DEF TypeOK, Locals

LEMMA PcUpdates ==
  ASSUME TypeOK, NEW p \in Procs, NEW step \in Steps
  PROVE  [pc EXCEPT ![p] = step] \in [Procs -> Steps]
BY DEF TypeOK

LEMMA InitType == Init => TypeOK
<1> SUFFICES ASSUME Init PROVE TypeOK
  OBVIOUS
<1>1. 0 \in 0..MaxData /\ 0 \in 0..MaxLayout /\ 0 \in Buffers
  BY ConstantsAssumption DEF Buffers
<1> QED BY <1>1, BlankTypes DEF Init, TypeOK, Steps

LEMMA NextType == TypeOK /\ [Next]_vars => TypeOK'
<1> SUFFICES ASSUME TypeOK, [Next]_vars PROVE TypeOK'
  OBVIOUS
<1>t. /\ Loop \in Procs /\ Painters \subseteq Procs /\ Editors \subseteq Procs
      /\ Warmers \subseteq Procs /\ Colds \subseteq Procs
  BY DEF Procs
<1>s. \A p \in Procs : loc[p] \in Locals
  BY DEF TypeOK
<1>l. \A p \in Procs : /\ loc[p].page \in Pages /\ loc[p].layout \in 0..MaxLayout
                       /\ loc[p].dst \in Buffers /\ loc[p].pic \in Picture
  BY <1>s DEF Locals
<1>1. ASSUME NEW p \in Renderers,
             SwipeNeedsFrame(p) \/ RenderCached(p) \/ RenderFrame(p) \/ RenderDrawn(p)
      PROVE  TypeOK'
  <2>r. p \in Procs
    BY <1>1, <1>t DEF Renderers, Painters
  <2>1. CASE SwipeNeedsFrame(p)
    <3>1. pc' \in [Procs -> Steps]
      BY <2>1, <2>r, PcUpdates DEF SwipeNeedsFrame, Goto, Steps
    <3> QED BY <2>1, <3>1 DEF SwipeNeedsFrame, input, zones, front, buffer, TypeOK
  <2>2. CASE RenderCached(p)
    <3>1. pc' \in [Procs -> Steps] /\ loc' \in [Procs -> Locals]
      BY <2>2, <2>r, PcUpdates, LocalUpdates DEF RenderCached, Return, Goto, Steps
    <3> QED BY <2>2, <3>1 DEF RenderCached, input, zones, front, buffer, TypeOK
  <2>3. CASE RenderFrame(p)
    <3>1. pc' \in [Procs -> Steps]
      BY <2>3, <2>r, PcUpdates DEF RenderFrame, Goto, Steps
    <3> QED BY <2>3, <2>r, <3>1, DrawTypes DEF RenderFrame, input, zones, front, buffer, TypeOK
  <2>4. CASE RenderDrawn(p)
    <3>1. pc' \in [Procs -> Steps]
      BY <2>4, <2>r, PcUpdates DEF RenderDrawn, Goto, Steps
    <3> QED BY <2>4, <2>r, <3>1, DrawTypes DEF RenderDrawn, input, zones, front, TypeOK
  <2> QED BY <1>1, <2>1, <2>2, <2>3, <2>4
<1>2. ASSUME NEW p \in Renderers, NEW ripple \in BOOLEAN, RenderPublish(p, ripple)
      PROVE  TypeOK'
  <2>r. p \in Procs
    BY <1>2, <1>t DEF Renderers, Painters
  <2>1. pc' \in [Procs -> Steps] /\ loc' \in [Procs -> Locals]
    BY <1>2, <2>r, PcUpdates, LocalUpdates DEF RenderPublish, Return, Goto, Steps
  <2>2. lastFrame' \in {BufFrame(b) : b \in Buffers} \cup {NoFrame} /\ frameDirty' \in BOOLEAN
    BY <1>2, <2>r, <1>l DEF RenderPublish, TypeOK
  <2> QED BY <1>2, <2>1, <2>2 DEF RenderPublish, input, zones, buffer, TypeOK
<1>3. ASSUME NEW p \in Painters, NEW page \in Pages, InitRead(p, page) PROVE TypeOK'
  <2>1. pc' \in [Procs -> Steps] /\ loc' \in [Procs -> Locals]
    BY <1>3, <1>t, PcUpdates, LocalUpdates DEF InitRead, Goto, Steps, TypeOK
  <2> QED BY <1>3, <2>1 DEF InitRead, input, zones, front, buffer, TypeOK
<1>4. ASSUME NEW p \in Painters \cup Editors, InitBuild(p) PROVE TypeOK'
  <2>1. pc' \in [Procs -> Steps]
    BY <1>4, <1>t, PcUpdates DEF InitBuild, Goto, Steps
  <2> QED BY <1>4, <1>t, <1>l, <2>1, ConstantsAssumption DEF InitBuild, input, buffer, TypeOK
<1>5. ASSUME NEW p \in Painters, SwitchDrop(p) PROVE TypeOK'
  <2>1. pc' \in [Procs -> Steps]
    BY <1>5, <1>t, PcUpdates DEF SwitchDrop, Goto, Steps
  <2> QED BY <1>5, <1>t, <1>l, <2>1, BlankTypes
          DEF SwitchDrop, CacheFrame, input, zones, front, buffer, TypeOK
<1>6. ASSUME NEW p \in Painters, SwipeLookup(p) PROVE TypeOK'
  <2>1. pc' = [pc EXCEPT ![p] = "paint"] \/ pc' = [pc EXCEPT ![p] = "idle"]
    BY <1>6 DEF SwipeLookup, Return, Goto
  <2>2. pc' \in [Procs -> Steps]
    BY <1>t, <2>1, PcUpdates DEF Steps
  <2>3. loc' = loc \/ loc' = [loc EXCEPT ![p] = NoLocals]
    BY <1>6 DEF SwipeLookup, Return
  <2>4. loc' \in [Procs -> Locals]
    <3>1. p \in Procs /\ loc \in [Procs -> Locals]
      BY <1>t DEF TypeOK
    <3>2. [loc EXCEPT ![p] = NoLocals] \in [Procs -> Locals]
      BY <3>1, LocalUpdates
    <3> QED BY <2>3, <3>1, <3>2
  <2> QED BY <1>6, <2>2, <2>4 DEF SwipeLookup, input, zones, front, buffer, TypeOK
<1>7. ASSUME NEW p \in Painters, PaintBegin(p) \/ Painted(p) PROVE TypeOK'
  <2>1. CASE PaintBegin(p)
    <3>1. pc' \in [Procs -> Steps]
      BY <1>t, <2>1, PcUpdates DEF PaintBegin, Goto, Steps
    <3> QED BY <1>t, <2>1, <3>1, DrawTypes DEF PaintBegin, input, zones, front, buffer, TypeOK
  <2>2. CASE Painted(p)
    <3>1. pc' = [pc EXCEPT ![p] = "idle"] \/ pc' = [pc EXCEPT ![p] = "store"]
      BY <2>2 DEF Painted, Return, Goto
    <3>2. pc' \in [Procs -> Steps]
      BY <1>t, <3>1, PcUpdates DEF Steps
    <3>3. loc' = loc \/ loc' = [loc EXCEPT ![p] = NoLocals]
      BY <2>2 DEF Painted, Return
    <3>4. p \in Procs /\ loc \in [Procs -> Locals]
      BY <1>t DEF TypeOK
    <3>5. [loc EXCEPT ![p] = NoLocals] \in [Procs -> Locals]
      BY <3>4, LocalUpdates
    <3>6. loc' \in [Procs -> Locals]
      BY <3>3, <3>4, <3>5
    <3> QED BY <1>t, <2>2, <3>2, <3>6, DrawTypes DEF Painted, input, zones, front, TypeOK
  <2> QED BY <1>7, <2>1, <2>2
<1>8. ASSUME NEW p \in Painters, SwipeStore(p) PROVE TypeOK'
  <2>1. pc' \in [Procs -> Steps] /\ loc' \in [Procs -> Locals]
    BY <1>8, <1>t, PcUpdates, LocalUpdates DEF SwipeStore, Return, Goto, Steps
  <2>2. SwipeFrame(loc[p].dst) \in Frames
    BY <1>t, <1>l, BlankTypes
  <2> QED BY <1>8, <1>t, <1>l, <2>1, <2>2
          DEF SwipeStore, CacheFrame, input, zones, front, buffer, TypeOK
<1>9. ASSUME NEW p \in Editors, Reload(p) PROVE TypeOK'
  <2>1. layout' \in 0..MaxLayout /\ layout' = layout + 1
    BY <1>9, ConstantsAssumption DEF Reload, TypeOK
  <2>2. pc' \in [Procs -> Steps] /\ loc' \in [Procs -> Locals]
    BY <1>9, <1>t, <2>1, PcUpdates, LocalUpdates DEF Reload, Goto, Steps, TypeOK
  <2> QED BY <1>9, <2>1, <2>2 DEF Reload, input, zones, front, buffer, TypeOK
<1>10. ASSUME NEW p \in Editors, ReloadClear(p) PROVE TypeOK'
  <2>1. pc' \in [Procs -> Steps] /\ loc' \in [Procs -> Locals]
    BY <1>10, <1>t, PcUpdates, LocalUpdates DEF ReloadClear, Return, Goto, Steps
  <2> QED BY <1>10, <2>1, BlankTypes DEF ReloadClear, input, zones, front, buffer, TypeOK
<1>11. ASSUME NEW p \in Warmers \cup Colds, NEW page \in Pages,
              PreRender(p, page) \/ ColdRender(p, page)
       PROVE  TypeOK'
  <2>1. pc' = [pc EXCEPT ![p] = "read"]
    BY <1>11 DEF PreRender, ColdRender, Goto
  <2>2. loc' = [loc EXCEPT ![p].page = page, ![p].layout = layout] /\ layout \in 0..MaxLayout
    BY <1>11 DEF PreRender, ColdRender, TypeOK
  <2>3. pc' \in [Procs -> Steps]
    BY <1>t, <2>1, PcUpdates DEF Steps
  <2>4. loc' \in [Procs -> Locals]
    BY <1>t, <2>2, LocalUpdates
  <2> QED BY <1>11, <2>3, <2>4 DEF PreRender, ColdRender, input, zones, front, buffer, TypeOK
<1>12. ASSUME NEW p \in Warmers \cup Colds, DrawPage(p) PROVE TypeOK'
  <2>1. PictureOf(loc[p].page, loc[p].layout) \in Picture
    BY <1>t, <1>l, PictureTypes
  <2>2. pc' \in [Procs -> Steps] /\ loc' \in [Procs -> Locals]
    BY <1>12, <1>t, <2>1, PcUpdates, LocalUpdates DEF DrawPage, Goto, Steps
  <2> QED BY <1>12, <1>t, <2>2 DEF DrawPage, input, zones, front, buffer, TypeOK
<1>13. ASSUME NEW p \in Warmers \cup Colds, PreRenderStore(p) \/ ColdStore(p) PROVE TypeOK'
  <2>1. pc' \in [Procs -> Steps] /\ loc' \in [Procs -> Locals]
    BY <1>13, <1>t, PcUpdates, LocalUpdates DEF PreRenderStore, ColdStore, Return, Goto, Steps
  <2>2. OwnFrame(p, loc[p].pic) \in Frames
    BY <1>t, <1>l DEF OwnFrame, Frames, Kinds, Buffers
  <2>3. pageCache' \in [Pages -> Frames] /\ readers' \in SUBSET Procs
    BY <1>13, <1>t, <1>l, <2>2 DEF PreRenderStore, ColdStore, CacheFrame, TypeOK
  <2> QED BY <1>13, <2>1, <2>3 DEF PreRenderStore, ColdStore, input, zones, front, buffer, TypeOK
<1>14. ASSUME NEW page \in Pages, UpdatePayload(page) PROVE TypeOK'
  <2>1. data[page] + 1 \in 0..MaxData
    BY <1>14, ConstantsAssumption DEF UpdatePayload, TypeOK
  <2> QED BY <1>14, <2>1, BlankTypes DEF UpdatePayload, CacheFrame, zones, buffer, TypeOK
<1>15. ASSUME NEW page \in Pages, Expire(page) PROVE TypeOK'
  BY <1>15 DEF Expire, zones, front, buffer, TypeOK
<1>16. CASE UNCHANGED vars
  BY <1>16 DEF vars, TypeOK
<1> QED BY <1>1, <1>2, <1>3, <1>4, <1>5, <1>6, <1>7, <1>8, <1>9, <1>10, <1>11, <1>12, <1>13,
           <1>14, <1>15, <1>16 DEF Next, PaintStep, RenderStep

\* The pictures, the cache and the locals keep their types, for any number of pages.
THEOREM TypeCorrect == Spec => []TypeOK
<1>1. TypeOK /\ [Next]_vars => TypeOK'
  BY NextType
<1> QED BY <1>1, InitType, PTL DEF Spec

-----------------------------------------------------------------------------
(* The frame on display *)

\* A buffer that shows the zones of now, or will when who draws into it is done.
Fresh(b) == Drawing(b) \/ Current(picture[b])

\* Whoever draws holds payloadsMu, and a renderer until its drawing is published:
\* nothing it has drawn from changes, and who else draws meanwhile, into its buffer
\* or the other, draws the same.
Front ==
  /\ \A p \in Drawers : p \in readers /\ Current(loc[p].pic)
  /\ \A p \in Procs : pc[p] = "drawn" => p \in readers /\ Fresh(loc[p].dst)
  /\ ~frameDirty => lastFrame # NoFrame /\ Fresh(lastFrame.buf)

FrontInv == TypeOK /\ Front

LEMMA FrontIsFresh == FrontInv => FrontFrameFresh
<1> SUFFICES ASSUME FrontInv, ~frameDirty
             PROVE  lastFrame # NoFrame /\ (Drawing(lastFrame.buf) \/ Current(Shows(lastFrame)))
  BY DEF FrontFrameFresh
<1>1. lastFrame # NoFrame /\ Fresh(lastFrame.buf)
  BY DEF FrontInv, Front
<1>2. lastFrame.kind = "buf"
  BY <1>1 DEF FrontInv, TypeOK, BufFrame
<1> QED BY <1>1, <1>2 DEF Fresh, Shows

\* Nothing is drawn from that has changed, but that payloads expire.
SameZones ==
  /\ UNCHANGED <<data, zonesPage, zonesLayout, frameDirty, lastFrame>>
  /\ \A q \in Pages : expired[q] => expired'[q]

\* A goroutine that neither begins nor ends a drawing.
Undrawn(p) ==
  \/ pc[p] \notin {"draw", "painting"} /\ pc'[p] \notin {"draw", "painting", "drawn"}
  \/ pc'[p] = pc[p] /\ loc'[p] = loc[p] /\ (p \in readers => p \in readers')

LEMMA CurrentStays ==
  ASSUME TypeOK, SameZones, NEW pic, Current(pic)
  PROVE  Current(pic)'
BY DEF TypeOK, SameZones, Current

LEMMA FrontUndisturbed ==
  ASSUME FrontInv, SameZones, picture' = picture, \A p \in Procs : Undrawn(p)
  PROVE  Front'
<1>t. TypeOK
  BY DEF FrontInv
<1>1. \A p \in Drawers' : p \in Drawers /\ loc'[p] = loc[p] /\ p \in readers'
  BY DEF Undrawn, Drawers, FrontInv, Front
<1>2. \A p \in Drawers : p \in Drawers' /\ loc'[p] = loc[p]
  BY DEF Undrawn, Drawers
<1>3. ASSUME NEW b, Fresh(b) PROVE Fresh(b)'
  <2>1. CASE Drawing(b)
    BY <1>2, <2>1 DEF Drawing, Fresh
  <2>2. CASE Current(picture[b])
    <3>1. PICK pic : pic = picture[b]
      OBVIOUS
    <3>2. Current(pic)'
      BY <1>t, <2>2, <3>1, CurrentStays
    <3>3. picture'[b] = pic
      BY <3>1
    <3> QED BY <3>2, <3>3 DEF Fresh, Current
  <2> QED BY <1>3, <2>1, <2>2 DEF Fresh
<1>4. ASSUME NEW p \in Drawers' PROVE p \in readers' /\ Current(loc[p].pic)'
  <2>1. Current(loc[p].pic) /\ p \in readers' /\ loc'[p] = loc[p]
    BY <1>1, <1>4 DEF FrontInv, Front
  <2>2. PICK pic : pic = loc[p].pic
    OBVIOUS
  <2>3. Current(pic)'
    BY <1>t, <2>1, <2>2, CurrentStays
  <2> QED BY <2>1, <2>2, <2>3 DEF Current
<1>5. ASSUME NEW p \in Procs, pc'[p] = "drawn" PROVE p \in readers' /\ Fresh(loc[p].dst)'
  <2>1. pc[p] = "drawn" /\ loc'[p] = loc[p] /\ p \in readers' /\ Fresh(loc[p].dst)
    BY <1>5 DEF Undrawn, FrontInv, Front
  <2>2. PICK b : b = loc[p].dst
    OBVIOUS
  <2>3. Fresh(b)'
    BY <1>3, <2>1, <2>2
  <2> QED BY <2>1, <2>2, <2>3 DEF Fresh, Drawing, Current
<1>6. ASSUME ~frameDirty' PROVE lastFrame' # NoFrame /\ Fresh(lastFrame.buf)'
  <2>1. lastFrame' = lastFrame /\ lastFrame # NoFrame /\ Fresh(lastFrame.buf)
    BY <1>6 DEF SameZones, FrontInv, Front
  <2>2. PICK b : b = lastFrame.buf
    OBVIOUS
  <2>3. Fresh(b)'
    BY <1>3, <2>1, <2>2
  <2> QED BY <2>1, <2>2, <2>3 DEF Fresh, Drawing, Current
<1> QED BY <1>4, <1>5, <1>6 DEF Front

\* A drawing that begins shows the zones of now, and takes no buffer away.
LEMMA FrontBegun ==
  ASSUME FrontInv, SameZones, UNCHANGED <<expired, picture>>, NEW p \in Procs, BeginDraw(p),
         pc[p] \notin {"draw", "painting"},
         pc' = [pc EXCEPT ![p] = "draw"] \/ pc' = [pc EXCEPT ![p] = "painting"]
  PROVE  Front'
<1>t. /\ TypeOK /\ pc \in [Procs -> Steps] /\ loc \in [Procs -> Locals]
  BY DEF FrontInv, TypeOK
<1>1. /\ p \in readers' /\ readers \subseteq readers' /\ loc'[p].pic = PictureOfZones
      /\ \A q \in Procs \ {p} : loc'[q] = loc[q] /\ pc'[q] = pc[q]
      /\ pc'[p] \in {"draw", "painting"}
  BY <1>t DEF BeginDraw, Locals
<1>2. Drawers \subseteq Drawers' /\ \A q \in Drawers : q # p /\ loc'[q] = loc[q]
  BY <1>1 DEF Drawers
<1>3. ASSUME NEW b, Fresh(b) PROVE Fresh(b)'
  <2>1. Drawing(b) => Drawing(b)'
    BY <1>2 DEF Drawing
  <2>2. Current(picture[b]) => Current(picture[b])'
    BY DEF SameZones, Current
  <2> QED BY <1>3, <2>1, <2>2 DEF Fresh
<1>4. ASSUME NEW q \in Drawers' PROVE q \in readers' /\ Current(loc[q].pic)'
  <2>1. CASE q = p
    <3>1. Current(PictureOfZones)
      BY DEF Current, PictureOfZones
    <3> QED BY <1>1, <2>1, <3>1 DEF SameZones, Current
  <2>2. CASE q # p
    <3>1. q \in Drawers /\ loc'[q] = loc[q]
      BY <1>1, <1>4, <2>2 DEF Drawers
    <3> QED BY <1>1, <3>1 DEF FrontInv, Front, SameZones, Current
  <2> QED BY <2>1, <2>2
<1>5. ASSUME NEW q \in Procs, pc'[q] = "drawn" PROVE q \in readers' /\ Fresh(loc[q].dst)'
  <2>1. q # p /\ loc'[q] = loc[q] /\ q \in readers /\ Fresh(loc[q].dst)
    BY <1>1, <1>5 DEF FrontInv, Front
  <2>2. PICK b : b = loc[q].dst
    OBVIOUS
  <2>3. Fresh(b)'
    BY <1>3, <2>1, <2>2
  <2> QED BY <1>1, <2>1, <2>2, <2>3 DEF Fresh, Drawing, Current
<1>6. ASSUME ~frameDirty' PROVE lastFrame' # NoFrame /\ Fresh(lastFrame.buf)'
  <2>1. lastFrame' = lastFrame /\ lastFrame # NoFrame /\ Fresh(lastFrame.buf)
    BY <1>6 DEF SameZones, FrontInv, Front
  <2>2. PICK b : b = lastFrame.buf
    OBVIOUS
  <2>3. Fresh(b)'
    BY <1>3, <2>1, <2>2
  <2> QED BY <2>1, <2>2, <2>3 DEF Fresh, Drawing, Current
<1> QED BY <1>4, <1>5, <1>6 DEF Front

\* A drawing that ends leaves its buffer as the zones are, whoever else draws.
LEMMA FrontDrawn ==
  ASSUME FrontInv, SameZones, UNCHANGED expired, NEW p \in Drawers, FinishDraw(p),
         \A q \in Procs \ {p} : Undrawn(q) /\ pc'[q] = pc[q],
         pc'[p] \notin {"draw", "painting"},
         pc'[p] = "drawn" => loc'[p] = loc[p] /\ p \in readers'
  PROVE  Front'
<1>t. /\ TypeOK /\ p \in Procs /\ loc[p].dst \in Buffers /\ picture \in [Buffers -> Picture]
  BY DEF FrontInv, TypeOK, Locals, Drawers
<1>1. /\ Current(loc[p].pic) /\ picture'[loc[p].dst] = loc[p].pic
      /\ \A b \in Buffers \ {loc[p].dst} : picture'[b] = picture[b]
  BY <1>t DEF FrontInv, Front, FinishDraw
<1>2. \A q \in Drawers : q # p => q \in Drawers' /\ loc'[q] = loc[q]
  BY DEF Undrawn, Drawers
<1>3. ASSUME NEW b \in Buffers, Fresh(b) \/ b = loc[p].dst PROVE Fresh(b)'
  <2>1. CASE b = loc[p].dst
    BY <1>1, <2>1 DEF Fresh, Current, SameZones
  <2>2. CASE b # loc[p].dst /\ Drawing(b)
    BY <1>2, <2>2 DEF Fresh, Drawing
  <2>3. CASE b # loc[p].dst /\ Current(picture[b])
    BY <1>1, <2>3 DEF Fresh, Current, SameZones
  <2> QED BY <1>3, <2>1, <2>2, <2>3 DEF Fresh
<1>4. ASSUME NEW q \in Drawers' PROVE q \in readers' /\ Current(loc[q].pic)'
  <2>1. q \in Drawers /\ q # p /\ loc'[q] = loc[q] /\ (q \in readers => q \in readers')
    BY <1>4 DEF Undrawn, Drawers
  <2> QED BY <2>1 DEF FrontInv, Front, SameZones, Current
<1>5. ASSUME NEW q \in Procs, pc'[q] = "drawn" PROVE q \in readers' /\ Fresh(loc[q].dst)'
  <2>1. loc'[q] = loc[q] /\ q \in readers' /\ (q = p \/ Fresh(loc[q].dst))
    BY <1>5 DEF Undrawn, FrontInv, Front
  <2>2. PICK b \in Buffers : b = loc[q].dst
    BY <1>5 DEF FrontInv, TypeOK, Locals
  <2>3. Fresh(b)'
    BY <1>3, <2>1, <2>2
  <2> QED BY <2>1, <2>2, <2>3 DEF Fresh, Drawing, Current
<1>6. ASSUME ~frameDirty' PROVE lastFrame' # NoFrame /\ Fresh(lastFrame.buf)'
  <2>1. lastFrame' = lastFrame /\ lastFrame # NoFrame /\ Fresh(lastFrame.buf)
    BY <1>6 DEF SameZones, FrontInv, Front
  <2>2. PICK b \in Buffers : b = lastFrame.buf
    BY <2>1 DEF FrontInv, TypeOK, BufFrame
  <2>3. Fresh(b)'
    BY <1>3, <2>1, <2>2
  <2> QED BY <2>1, <2>2, <2>3 DEF Fresh, Drawing, Current
<1> QED BY <1>4, <1>5, <1>6 DEF Front

LEMMA FrontStep == FrontInv /\ [Next]_vars => FrontInv'
<1> SUFFICES ASSUME FrontInv, [Next]_vars PROVE FrontInv'
  OBVIOUS
<1>t. TypeOK /\ TypeOK' /\ pc \in [Procs -> Steps] /\ loc \in [Procs -> Locals]
  BY NextType DEF FrontInv, TypeOK
<1>n. {Loop} \cup Painters \cup Editors \cup Warmers \cup Colds \subseteq Procs
  BY DEF Procs
<1>f. ASSUME SameZones, picture' = picture, \A q \in Procs : Undrawn(q) PROVE FrontInv'
  BY <1>t, <1>f, FrontUndisturbed DEF FrontInv
<1>1. ASSUME NEW p \in Renderers, SwipeNeedsFrame(p) \/ RenderCached(p) PROVE FrontInv'
  <2>1. SameZones /\ picture' = picture /\ \A q \in Procs : Undrawn(q)
    BY <1>1, <1>t, <1>n DEF SwipeNeedsFrame, RenderCached, AtRenderFrame, Return, Goto, input,
                            zones, front, buffer, SameZones, Undrawn
  <2> QED BY <2>1, <1>f
<1>2. ASSUME NEW p \in Renderers \cup Painters, RenderFrame(p) \/ PaintBegin(p) PROVE FrontInv'
  <2>1. /\ SameZones /\ UNCHANGED <<expired, picture>> /\ p \in Procs /\ BeginDraw(p)
        /\ pc[p] \notin {"draw", "painting"}
        /\ pc' = [pc EXCEPT ![p] = "draw"] \/ pc' = [pc EXCEPT ![p] = "painting"]
    BY <1>2, <1>t, <1>n DEF RenderFrame, PaintBegin, AtRenderFrame, Goto, input, zones, front,
                            buffer, SameZones, Renderers, Painters
  <2> QED BY <1>t, <2>1, FrontBegun DEF FrontInv
<1>3. ASSUME NEW p \in Renderers \cup Painters, RenderDrawn(p) \/ Painted(p) PROVE FrontInv'
  <2>1. /\ SameZones /\ UNCHANGED expired /\ p \in Drawers /\ FinishDraw(p)
        /\ \A q \in Procs \ {p} : Undrawn(q) /\ pc'[q] = pc[q]
        /\ pc'[p] \notin {"draw", "painting"}
        /\ pc'[p] = "drawn" => loc'[p] = loc[p] /\ p \in readers
    <3>1. p \in Drawers /\ p \in Procs /\ p \in readers
      BY <1>3, <1>n DEF RenderDrawn, Painted, Drawers, Renderers, Painters, FrontInv, Front
    <3>2. CASE RenderDrawn(p)
      BY <1>t, <3>1, <3>2 DEF RenderDrawn, Goto, input, zones, front, SameZones, Undrawn
    <3>3. CASE Painted(p)
      BY <1>t, <3>1, <3>3 DEF Painted, Return, Goto, input, zones, front, SameZones, Undrawn
    <3> QED BY <1>3, <3>2, <3>3
  <2>2. pc'[p] = "drawn" => p \in readers'
    BY <1>3, <1>t, <1>n, <2>1 DEF RenderDrawn, Painted, Return, Goto, Drawers
  <2> QED BY <1>t, <2>1, <2>2, FrontDrawn DEF FrontInv
<1>4. ASSUME NEW p \in Renderers, NEW ripple \in BOOLEAN, RenderPublish(p, ripple)
      PROVE  FrontInv'
  <2>1. /\ p \in Procs /\ lastFrame' = BufFrame(loc[p].dst) /\ Fresh(loc[p].dst)
        /\ UNCHANGED <<data, expired, zonesPage, zonesLayout, picture>>
        /\ pc'[p] = "idle" /\ \A q \in Procs \ {p} : pc'[q] = pc[q] /\ loc'[q] = loc[q]
        /\ readers' = readers \ {p} /\ pc[p] = "drawn"
    BY <1>4, <1>t, <1>n DEF RenderPublish, Return, Goto, input, zones, buffer, Renderers,
                            Painters, FrontInv, Front
  <2>2. Drawers' = Drawers /\ \A q \in Drawers : q # p /\ loc'[q] = loc[q]
    BY <2>1 DEF Drawers
  <2>3. ASSUME NEW b, Fresh(b) PROVE Fresh(b)'
    BY <2>1, <2>2, <2>3 DEF Fresh, Drawing, Current
  <2>4. \A q \in Drawers' : q \in readers' /\ Current(loc[q].pic)'
    BY <2>1, <2>2 DEF FrontInv, Front, Current
  <2>5. ASSUME NEW q \in Procs, pc'[q] = "drawn" PROVE q \in readers' /\ Fresh(loc[q].dst)'
    <3>1. q # p /\ loc'[q] = loc[q] /\ q \in readers' /\ Fresh(loc[q].dst)
      BY <2>1, <2>5 DEF FrontInv, Front
    <3>2. PICK b : b = loc[q].dst
      OBVIOUS
    <3>3. Fresh(b)'
      BY <2>3, <3>1, <3>2
    <3> QED BY <3>1, <3>2, <3>3 DEF Fresh, Drawing, Current
  <2>6. lastFrame' # NoFrame /\ Fresh(lastFrame.buf)'
    <3>1. PICK b : b = loc[p].dst
      OBVIOUS
    <3>2. Fresh(b)' /\ lastFrame'.buf = b
      BY <2>1, <2>3, <3>1 DEF BufFrame
    <3> QED BY <2>1, <3>2 DEF BufFrame, NoFrame, Fresh, Drawing, Current
  <2> QED BY <1>t, <2>4, <2>5, <2>6 DEF FrontInv, Front
<1>5. ASSUME NEW p \in Painters \cup Editors, InitBuild(p) PROVE FrontInv'
  <2>1. readers = {} /\ frameDirty' /\ \A q \in Procs : pc'[q] \in {"draw", "painting", "drawn"} => pc'[q] = pc[q]
    BY <1>5, <1>t, <1>n DEF InitBuild, Goto
  <2> QED BY <1>t, <2>1 DEF FrontInv, Front, Drawers
<1>6. ASSUME NEW page \in Pages, UpdatePayload(page) PROVE FrontInv'
  <2>1. readers = {} /\ frameDirty' /\ pc' = pc
    BY <1>6 DEF UpdatePayload
  <2> QED BY <1>t, <2>1 DEF FrontInv, Front, Drawers
<1>7. ASSUME NEW p \in Painters, NEW page \in Pages,
             InitRead(p, page) \/ SwitchDrop(p) \/ SwipeLookup(p) \/ SwipeStore(p)
      PROVE  FrontInv'
  <2>1. SameZones /\ picture' = picture /\ \A q \in Procs : Undrawn(q)
    BY <1>7, <1>t, <1>n DEF InitRead, SwitchDrop, SwipeLookup, SwipeStore, Return, Goto, input,
                            zones, front, buffer, SameZones, Undrawn
  <2> QED BY <2>1, <1>f
<1>8. ASSUME NEW p \in Editors, Reload(p) \/ ReloadClear(p) PROVE FrontInv'
  <2>1. SameZones /\ picture' = picture /\ \A q \in Procs : Undrawn(q)
    BY <1>8, <1>t, <1>n DEF Reload, ReloadClear, Return, Goto, input, zones, front, buffer,
                            SameZones, Undrawn
  <2> QED BY <2>1, <1>f
<1>9. ASSUME NEW p \in Warmers \cup Colds, NEW page \in Pages,
             \/ PreRender(p, page) \/ ColdRender(p, page) \/ DrawPage(p)
             \/ PreRenderStore(p) \/ ColdStore(p)
      PROVE  FrontInv'
  <2>1. SameZones /\ picture' = picture /\ \A q \in Procs : Undrawn(q)
    BY <1>9, <1>t, <1>n DEF PreRender, ColdRender, DrawPage, PreRenderStore, ColdStore, Return,
                            Goto, input, zones, front, buffer, SameZones, Undrawn
  <2> QED BY <2>1, <1>f
<1>10. ASSUME NEW page \in Pages, Expire(page) PROVE FrontInv'
  <2>1. SameZones /\ picture' = picture /\ \A q \in Procs : Undrawn(q)
    BY <1>10, <1>t DEF Expire, zones, front, buffer, SameZones, Undrawn, TypeOK
  <2> QED BY <2>1, <1>f
<1>11. CASE UNCHANGED vars
  <2>1. SameZones /\ picture' = picture /\ \A q \in Procs : Undrawn(q)
    BY <1>11 DEF vars, SameZones, Undrawn
  <2> QED BY <2>1, <1>f
<1>12. 0 \in Pages
  BY ConstantsAssumption DEF Pages
<1> QED BY <1>1, <1>2, <1>3, <1>4, <1>5, <1>6, <1>7, <1>8, <1>9, <1>10, <1>11, <1>12
        DEF Next, PaintStep, RenderStep

\* However many goroutines draw at once into the two buffers, and change page, payload
\* and layout, a frame that counts as clean shows the zones and the payloads of now, or
\* is just being drawn anew.
THEOREM FrontFrameFreshAlways == Spec => []FrontFrameFresh
<1>1. Init => FrontInv
  BY InitType DEF Init, FrontInv, Front, Drawers, Procs
<1> QED BY <1>1, FrontIsFresh, FrontStep, PTL DEF Spec

-----------------------------------------------------------------------------
(* The frames preRenderPage caches *)

\* Until its frame is stored a pre-render holds payloadsMu, so that no payload comes
\* in between.
Warm ==
  /\ \A w \in Warmers : pc[w] = "store" =>
       w \in readers /\ loc[w].pic.data = data[loc[w].page]
  /\ CacheShowsPayload

WarmInv == TypeOK /\ Warm

\* No pre-render gets to its store, no payload changes and no pre-rendered frame is
\* cached.
WarmKept ==
  /\ data' = data
  /\ \A w \in Warmers : pc'[w] = "store" =>
       pc[w] = "store" /\ loc'[w] = loc[w] /\ (w \in readers => w \in readers')
  /\ \A q \in Pages : pageCache'[q] = pageCache[q] \/ pageCache'[q].kind # "warm"

LEMMA WarmUndisturbed ==
  ASSUME WarmInv, WarmKept
  PROVE  Warm'
<1>1. \A w \in Warmers : pc'[w] = "store" =>
        w \in readers' /\ loc'[w].pic.data = data'[loc'[w].page]
  BY DEF WarmInv, Warm, WarmKept
<1>2. CacheShowsPayload'
  BY DEF WarmInv, Warm, WarmKept, CacheShowsPayload
<1> QED BY <1>1, <1>2 DEF Warm

LEMMA WarmStep == WarmInv /\ [Next]_vars => WarmInv'
<1> SUFFICES ASSUME WarmInv, [Next]_vars PROVE WarmInv'
  OBVIOUS
<1>t. /\ TypeOK /\ TypeOK' /\ pc \in [Procs -> Steps] /\ loc \in [Procs -> Locals]
      /\ pageCache \in [Pages -> Frames]
  BY NextType DEF WarmInv, TypeOK
<1>n. /\ Loop \notin Warmers /\ Warmers \cap (Painters \cup Editors \cup Colds) = {}
      /\ {Loop} \cup Painters \cup Editors \cup Warmers \cup Colds \subseteq Procs
  BY ConstantsAssumption DEF Procs, Painters
<1>l. \A p \in Procs : loc[p].page \in Pages
  BY <1>t DEF Locals
<1>1. ASSUME NEW p \in Renderers, RenderStep(p) PROVE WarmKept
  <2>1. p \in Procs \ (Warmers)
    BY <1>1, <1>n DEF Renderers, Painters
  <2>2. UNCHANGED <<data, pageCache>> /\ readers \ {p} \subseteq readers'
    BY <1>1 DEF RenderStep, SwipeNeedsFrame, RenderCached, RenderFrame, RenderDrawn, RenderPublish,
                BeginDraw, input
  <2>3. \A w \in Procs \ {p} : pc'[w] = pc[w] /\ loc'[w] = loc[w]
    <3>1. CASE SwipeNeedsFrame(p) \/ RenderCached(p)
      BY <1>t, <3>1 DEF SwipeNeedsFrame, RenderCached, Return, Goto
    <3>2. CASE RenderFrame(p) \/ RenderDrawn(p)
      BY <1>t, <3>2 DEF RenderFrame, RenderDrawn, BeginDraw, Goto
    <3>3. ASSUME NEW ripple \in BOOLEAN, RenderPublish(p, ripple)
          PROVE  \A w \in Procs \ {p} : pc'[w] = pc[w] /\ loc'[w] = loc[w]
      BY <1>t, <3>3 DEF RenderPublish, Return, Goto
    <3> QED BY <1>1, <3>1, <3>2, <3>3 DEF RenderStep
  <2>4. \A w \in Warmers : w \in Procs \ {p}
    BY <1>n, <2>1
  <2> QED BY <2>2, <2>3, <2>4 DEF WarmKept
<1>2. ASSUME NEW p \in Painters \cup Editors, NEW page \in Pages,
             \/ InitRead(p, page) \/ InitBuild(p) \/ SwipeLookup(p) \/ PaintBegin(p) \/ Painted(p)
             \/ p \in Editors /\ Reload(p)
      PROVE  WarmKept
  BY <1>2, <1>t, <1>n DEF InitRead, InitBuild, SwipeLookup, PaintBegin, Painted, BeginDraw, FinishDraw,
                          Reload, Return, Goto, input,
                          WarmKept
<1>3. ASSUME NEW p \in Painters, SwitchDrop(p) \/ SwipeStore(p) PROVE WarmKept
  <2>1. CacheFrame(loc[p].page, NoFrame) \/ CacheFrame(loc[p].page, SwipeFrame(loc[p].dst))
    BY <1>3 DEF SwitchDrop, SwipeStore
  <2>2. \A q \in Pages : pageCache'[q] = pageCache[q] \/ pageCache'[q].kind # "warm"
    BY <1>t, <1>n, <1>l, <2>1 DEF CacheFrame, NoFrame, SwipeFrame
  <2> QED BY <1>3, <1>t, <1>n, <2>2 DEF SwitchDrop, SwipeStore, Return, Goto, input, WarmKept
<1>4. ASSUME NEW p \in Editors, ReloadClear(p) PROVE WarmKept
  BY <1>4, <1>t, <1>n DEF ReloadClear, Return, Goto, input, NoFrame, WarmKept
<1>5. ASSUME NEW p \in Warmers \cup Colds, NEW page \in Pages,
             PreRender(p, page) \/ ColdRender(p, page)
      PROVE  WarmKept
  BY <1>5, <1>t, <1>n DEF PreRender, ColdRender, Goto, input, WarmKept
<1>6. ASSUME NEW p \in Colds, DrawPage(p) PROVE WarmKept
  BY <1>6, <1>t, <1>n DEF DrawPage, Goto, input, WarmKept
<1>7. ASSUME NEW p \in Colds, ColdStore(p) PROVE WarmKept
  <2>1. OwnFrame(p, loc[p].pic).kind # "warm"
    BY <1>7, <1>n DEF OwnFrame
  <2>2. \A q \in Pages : pageCache'[q] = pageCache[q] \/ pageCache'[q].kind # "warm"
    BY <1>7, <1>t, <1>n, <1>l, <2>1 DEF ColdStore, CacheFrame
  <2> QED BY <1>7, <1>t, <1>n, <2>2 DEF ColdStore, Return, Goto, input, WarmKept
<1>8. ASSUME NEW p \in Warmers, DrawPage(p) PROVE Warm'
  <2>1. /\ loc'[p].pic.data = data[loc[p].page] /\ loc'[p].page = loc[p].page
        /\ p \in readers' /\ readers \subseteq readers'
    BY <1>8, <1>t, <1>n DEF DrawPage, PictureOf, Locals
  <2>2. \A w \in Warmers \ {p} : pc'[w] = pc[w] /\ loc'[w] = loc[w]
    BY <1>8, <1>t, <1>n DEF DrawPage, Goto
  <2>3. data' = data /\ pageCache' = pageCache
    BY <1>8 DEF DrawPage, input
  <2>4. \A w \in Warmers : pc'[w] = "store" =>
          w \in readers' /\ loc'[w].pic.data = data'[loc'[w].page]
    BY <2>1, <2>2, <2>3 DEF WarmInv, Warm
  <2>5. CacheShowsPayload'
    BY <2>3 DEF WarmInv, Warm, CacheShowsPayload
  <2> QED BY <2>4, <2>5 DEF Warm
<1>9. ASSUME NEW p \in Warmers, PreRenderStore(p) PROVE Warm'
  <2>1. /\ loc[p].pic.data = data[loc[p].page] /\ data' = data /\ pc'[p] # "store"
        /\ readers' = readers \ {p}
    BY <1>9, <1>t, <1>n DEF PreRenderStore, Return, Goto, input, WarmInv, Warm
  <2>2. \A w \in Warmers \ {p} : pc'[w] = pc[w] /\ loc'[w] = loc[w]
    BY <1>9, <1>t, <1>n DEF PreRenderStore, Return, Goto
  <2>3. \A w \in Warmers : pc'[w] = "store" =>
          w \in readers' /\ loc'[w].pic.data = data'[loc'[w].page]
    BY <2>1, <2>2 DEF WarmInv, Warm
  <2>4. ASSUME NEW q \in Pages, pageCache'[q].kind = "warm"
        PROVE  pageCache'[q].pic.data = data'[q]
    <3>1. CASE q = loc[p].page
      <4>1. pageCache'[q] = OwnFrame(p, loc[p].pic)
        BY <1>9, <1>t, <3>1 DEF PreRenderStore, CacheFrame
      <4>2. OwnFrame(p, loc[p].pic).pic = loc[p].pic
        BY DEF OwnFrame
      <4> QED BY <2>1, <3>1, <4>1, <4>2
    <3>2. CASE q # loc[p].page
      <4>1. pageCache'[q] = pageCache[q]
        BY <1>9, <1>t, <3>2 DEF PreRenderStore, CacheFrame
      <4> QED BY <2>1, <2>4, <4>1 DEF WarmInv, Warm, CacheShowsPayload
    <3> QED BY <3>1, <3>2
  <2> QED BY <2>3, <2>4 DEF Warm, CacheShowsPayload
<1>10. ASSUME NEW page \in Pages, UpdatePayload(page) PROVE Warm'
  <2>1. /\ readers = {} /\ pc' = pc /\ pageCache' = [pageCache EXCEPT ![page] = NoFrame]
        /\ data' = [data EXCEPT ![page] = @ + 1] /\ data \in [Pages -> 0..MaxData]
    BY <1>10, <1>t DEF UpdatePayload, CacheFrame, TypeOK
  <2>2. \A w \in Warmers : pc'[w] # "store"
    BY <2>1 DEF WarmInv, Warm
  <2>3. CacheShowsPayload'
    BY <1>t, <2>1 DEF WarmInv, Warm, CacheShowsPayload, NoFrame
  <2> QED BY <2>2, <2>3 DEF Warm
<1>11. ASSUME (\E page \in Pages : Expire(page)) \/ UNCHANGED vars PROVE WarmKept
  BY <1>11 DEF Expire, vars, WarmKept
<1>12. 0 \in Pages
  BY ConstantsAssumption DEF Pages
<1>13. Warm'
  BY <1>1, <1>2, <1>3, <1>4, <1>5, <1>6, <1>7, <1>8, <1>9, <1>10, <1>11, <1>12,
     WarmUndisturbed DEF Next, PaintStep, PreRenderStore
<1> QED BY <1>t, <1>13 DEF WarmInv

\* However payloads, page changes and layout edits interleave with pre-renders, a
\* frame preRenderPage cached shows the payload of its page.
THEOREM CacheShowsPayloadAlways == Spec => []CacheShowsPayload
<1>1. Init => WarmInv
  BY InitType DEF Init, WarmInv, Warm, CacheShowsPayload, NoFrame, Procs
<1>2. WarmInv => CacheShowsPayload
  BY DEF WarmInv, Warm
<1> QED BY <1>1, <1>2, WarmStep, PTL DEF Spec

-----------------------------------------------------------------------------
(* What the cached frames show *)

\* All but committed swipes cache a frame of its own, for the page it was drawn from.
Own ==
  /\ \A p \in Warmers \cup Colds : pc[p] = "store" => loc[p].pic.page = loc[p].page
  /\ \A q \in Pages : pageCache[q].kind \notin {"none", "swipe"} =>
       pageCache[q].kind # "buf" /\ pageCache[q].pic.page = q

OwnInv == TypeOK /\ Own

\* No such goroutine gets to its store, and no such frame gets into the cache.
OwnKept ==
  /\ \A p \in Warmers \cup Colds : pc'[p] = "store" => pc[p] = "store" /\ loc'[p] = loc[p]
  /\ \A q \in Pages :
       pageCache'[q] = pageCache[q] \/ pageCache'[q].kind \in {"none", "swipe"}

LEMMA OwnUndisturbed ==
  ASSUME OwnInv, OwnKept
  PROVE  Own'
BY DEF OwnInv, Own, OwnKept

LEMMA OwnStep == OwnInv /\ [Next]_vars => OwnInv'
<1> SUFFICES ASSUME OwnInv, [Next]_vars PROVE OwnInv'
  OBVIOUS
<1>t. /\ TypeOK /\ TypeOK' /\ pc \in [Procs -> Steps] /\ loc \in [Procs -> Locals]
      /\ pageCache \in [Pages -> Frames]
  BY NextType DEF OwnInv, TypeOK
<1>n. /\ Loop \notin Warmers \cup Colds /\ (Warmers \cup Colds) \cap (Painters \cup Editors) = {}
      /\ {Loop} \cup Painters \cup Editors \cup Warmers \cup Colds \subseteq Procs
  BY ConstantsAssumption DEF Procs, Painters
<1>1. ASSUME NEW p \in Renderers, RenderStep(p) PROVE OwnKept
  <2>1. p \in Procs \ (Warmers \cup Colds)
    BY <1>1, <1>n DEF Renderers, Painters
  <2>2. UNCHANGED <<data, pageCache>> /\ readers \ {p} \subseteq readers'
    BY <1>1 DEF RenderStep, SwipeNeedsFrame, RenderCached, RenderFrame, RenderDrawn, RenderPublish,
                BeginDraw, input
  <2>3. \A w \in Procs \ {p} : pc'[w] = pc[w] /\ loc'[w] = loc[w]
    <3>1. CASE SwipeNeedsFrame(p) \/ RenderCached(p)
      BY <1>t, <3>1 DEF SwipeNeedsFrame, RenderCached, Return, Goto
    <3>2. CASE RenderFrame(p) \/ RenderDrawn(p)
      BY <1>t, <3>2 DEF RenderFrame, RenderDrawn, BeginDraw, Goto
    <3>3. ASSUME NEW ripple \in BOOLEAN, RenderPublish(p, ripple)
          PROVE  \A w \in Procs \ {p} : pc'[w] = pc[w] /\ loc'[w] = loc[w]
      BY <1>t, <3>3 DEF RenderPublish, Return, Goto
    <3> QED BY <1>1, <3>1, <3>2, <3>3 DEF RenderStep
  <2>4. \A w \in Warmers \cup Colds : w \in Procs \ {p}
    BY <1>n, <2>1
  <2> QED BY <2>2, <2>3, <2>4 DEF OwnKept
<1>2. ASSUME NEW p \in Painters \cup Editors, NEW page \in Pages,
             \/ InitRead(p, page) \/ InitBuild(p) \/ SwipeLookup(p) \/ PaintBegin(p) \/ Painted(p)
             \/ Reload(p)
      PROVE  OwnKept
  BY <1>2, <1>t, <1>n DEF InitRead, InitBuild, SwipeLookup, PaintBegin, Painted, BeginDraw, FinishDraw,
                          Reload, Return, Goto, input,
                          OwnKept
<1>3. ASSUME NEW p \in Painters, SwipeStore(p) PROVE OwnKept
  <2>1. \A q \in Pages : pageCache'[q] = pageCache[q] \/ pageCache'[q].kind = "swipe"
    BY <1>3, <1>t DEF SwipeStore, CacheFrame, SwipeFrame
  <2> QED BY <1>3, <1>t, <1>n, <2>1 DEF SwipeStore, Return, Goto, input, OwnKept
<1>4. ASSUME NEW p \in Painters, SwitchDrop(p) PROVE OwnKept
  BY <1>4, <1>t, <1>n DEF SwitchDrop, CacheFrame, NoFrame, Goto, OwnKept
<1>5. ASSUME NEW p \in Editors, ReloadClear(p) PROVE OwnKept
  BY <1>5, <1>t, <1>n DEF ReloadClear, Return, Goto, input, NoFrame, OwnKept
<1>6. ASSUME NEW p \in Warmers \cup Colds, NEW page \in Pages,
             PreRender(p, page) \/ ColdRender(p, page)
      PROVE  OwnKept
  BY <1>6, <1>t, <1>n DEF PreRender, ColdRender, Goto, OwnKept
<1>7. ASSUME NEW p \in Warmers \cup Colds, DrawPage(p) PROVE Own'
  <2>1. loc'[p].pic.page = loc[p].page /\ loc'[p].page = loc[p].page
    BY <1>7, <1>t, <1>n DEF DrawPage, PictureOf, Locals
  <2>2. \A w \in (Warmers \cup Colds) \ {p} : pc'[w] = pc[w] /\ loc'[w] = loc[w]
    BY <1>7, <1>t, <1>n DEF DrawPage, Goto
  <2>3. pageCache' = pageCache
    BY <1>7 DEF DrawPage
  <2> QED BY <2>1, <2>2, <2>3 DEF OwnInv, Own
<1>8. ASSUME NEW p \in Warmers \cup Colds, PreRenderStore(p) \/ ColdStore(p) PROVE Own'
  <2>1. /\ loc[p].pic.page = loc[p].page /\ pc'[p] # "store"
        /\ pageCache' = [pageCache EXCEPT ![loc[p].page] = OwnFrame(p, loc[p].pic)]
    BY <1>8, <1>t, <1>n DEF PreRenderStore, ColdStore, CacheFrame, Return, Goto, input, OwnInv, Own
  <2>2. \A w \in (Warmers \cup Colds) \ {p} : pc'[w] = pc[w] /\ loc'[w] = loc[w]
    BY <1>8, <1>t, <1>n DEF PreRenderStore, ColdStore, Return, Goto
  <2>3. OwnFrame(p, loc[p].pic).kind # "buf" /\ OwnFrame(p, loc[p].pic).pic = loc[p].pic
    BY DEF OwnFrame
  <2>4. \A q \in Pages : pageCache'[q].kind \notin {"none", "swipe"} =>
          pageCache'[q].kind # "buf" /\ pageCache'[q].pic.page = q
    BY <1>t, <2>1, <2>3 DEF OwnInv, Own
  <2> QED BY <2>1, <2>2, <2>4 DEF OwnInv, Own
<1>9. ASSUME NEW page \in Pages, UpdatePayload(page) PROVE OwnKept
  BY <1>9, <1>t DEF UpdatePayload, CacheFrame, NoFrame, OwnKept
<1>10. ASSUME (\E page \in Pages : Expire(page)) \/ UNCHANGED vars PROVE OwnKept
  BY <1>10 DEF Expire, vars, OwnKept
<1>11. 0 \in Pages
  BY ConstantsAssumption DEF Pages
<1>12. ASSUME NEW p \in Painters, PaintStep(p) \/ \E page \in Pages : InitRead(p, page)
       PROVE  OwnKept
  BY <1>2, <1>3, <1>4, <1>11, <1>12 DEF PaintStep
<1>13. ASSUME NEW p \in Editors, Reload(p) \/ InitBuild(p) \/ ReloadClear(p) PROVE OwnKept
  BY <1>2, <1>5, <1>11, <1>13
<1>14. ASSUME NEW p \in Warmers \cup Colds,
              \/ DrawPage(p) \/ PreRenderStore(p) \/ ColdStore(p)
              \/ \E page \in Pages : PreRender(p, page) \/ ColdRender(p, page)
       PROVE  OwnKept \/ Own'
  BY <1>6, <1>7, <1>8, <1>14
<1>15. OwnKept \/ Own'
  BY <1>1, <1>9, <1>10, <1>12, <1>13, <1>14 DEF Next
<1> QED BY <1>t, <1>15, OwnUndisturbed DEF OwnInv

\* A frame that no committed swipe cached shows the page it is cached for, however
\* swipes, switches, edits, pre-renders and cold renders interleave.
THEOREM CacheShowsItsPageAlways == Spec => []CacheShowsItsPage
<1>1. Init => OwnInv
  BY InitType DEF Init, OwnInv, Own, NoFrame, Procs
<1>2. OwnInv => CacheShowsItsPage
  BY DEF OwnInv, Own, CacheShowsItsPage, Shows
<1>3. OwnInv /\ [Next]_vars => OwnInv'
  BY OwnStep
<1> QED BY <1>1, <1>2, <1>3, PTL DEF Spec
=============================================================================
