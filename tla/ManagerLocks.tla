---------------------------- MODULE ManagerLocks ----------------------------
(***************************************************************************)
(* The mutexes of zone.Manager (internal/zone/manager*.go, tap_ripple.go)  *)
(* and the goroutines that take them.                                      *)
(*                                                                         *)
(* Of what a method does only its locks and unlocks are kept, and which    *)
(* fields it reads or writes between two of them.  A method is the set of  *)
(* the courses it can take, each a sequence of such steps: what the data   *)
(* decide (is the page cached, does the renderer fail) is a choice among   *)
(* the courses.  Goroutines that a method starts are among Helpers.        *)
(*                                                                         *)
(* The names of the specification begin with Locks because GoroutineProofs *)
(* extends this module together with Startup.                              *)
(***************************************************************************)
EXTENDS Naturals, Sequences, FiniteSets

CONSTANTS Samplers,      \* sample loops
          Requests,      \* HTTP requests
          Helpers,       \* goroutines of pre-renders, cold swipes, detail taps, timers
          Render,        \* the render loop
          Touch,         \* the touch loop
          Nobody,
          AtOnce         \* bound: methods under way at once

Threads == Samplers \cup Requests \cup Helpers \cup {Render, Touch}

ASSUME ThreadsAssumption == Nobody \notin Threads /\ AtOnce \in Nat

VARIABLES owner,         \* who has locked a mutex, or waits for its readers to leave
          draining,      \* the mutexes whose owner still waits for readers
          readers,       \* who holds a mutex for reading
          todo,          \* the courses left to a goroutine inside a method, {} outside
          doing          \* the accesses between its last step and the next

locksVars == <<owner, draining, readers, todo, doing>>

\* Manager: the mutexes (configMu, ...).
Locks == {"config", "lastFrame", "detail", "payloads", "transition", "swipe",
          "cache", "ripple", "choice"}

(***************************************************************************)
(* Steps and courses.                                                      *)
(***************************************************************************)
R(f) == <<"read", f>>
W(f) == <<"write", f>>

Do(kind, lock, accesses) == <<kind, lock, accesses>>
Kind(step) == step[1]
Mutex(step) == step[2]
Accesses(step) == step[3]

\* Accesses under no mutex of their own.
Run(accesses) == {<<Do("Run", "none", accesses)>>}

Return == {<< >>}

\* First one of the courses in a, then one of those in b.
a ** b == {s \o t : s \in a, t \in b}

Under(l, accesses, body) ==
  {<<Do("Lock", l, accesses)>>} ** body ** {<<Do("Unlock", l, {})>>}
RUnder(l, accesses, body) ==
  {<<Do("RLock", l, accesses)>>} ** body ** {<<Do("RUnlock", l, {})>>}

Held(l, accesses) == Under(l, accesses, Return)
RHeld(l, accesses) == RUnder(l, accesses, Return)

(***************************************************************************)
(* The methods of Manager.                                                 *)
(***************************************************************************)
MarkDirty == Held("lastFrame", {W("lastFrame")})

\* An unknown zone or a bad payload ends it early.
UpdatePayload ==
  Under("payloads", {},
    RHeld("config", {R("config")})
      ** (Return \cup Run({W("payloads")}) ** MarkDirty ** Held("cache", {W("cache")})))

\* The page is looked up before the mutex is taken: it may not be there.
InitializePage(built, failed) ==
  Run({R("config")})
    ** (  failed
     \cup Under("payloads", {W("zones"), W("payloads"), R("config")}, MarkDirty) ** built)

\* The ripple is over once its time is.
CompositeRipple == Held("ripple", {R("ripple")}) ** (Return \cup Held("ripple", {W("ripple")}))

\* Under payloadsMu, though only for reading, it also writes: the images the zones keep
\* (with the state of their renderers), the back buffer and its index.
RenderZoneImages == {R("zones"), R("payloads"), W("zoneImages"), W("frameBufs")}

LookAtOverlay == RHeld("config", {R("config")}) ** Held("detail", {W("detail")})

\* Transition.Render and IsComplete move its spring on.
LookForChange ==
  LookAtOverlay
    ** RHeld("transition", {W("transition")})
    ** Held("ripple", {R("ripple")})
    ** RHeld("config", {R("zones")})

\* The overlay, its slide or a transition is shown.
OtherFrame ==
  LookAtOverlay ** (Return \cup CompositeRipple \cup RHeld("transition", {W("transition")}))

\* Mutant: the look at the dirty flag keeps lastFrameMu until the frame is drawn.
MutRenderFrame ==
  OtherFrame
    \cup LookForChange
           ** Under("lastFrame", {W("lastFrame")},
                Return \cup RUnder("payloads", RenderZoneImages, CompositeRipple))

\* The last frame, or a new one.
ZoneFrame ==
  LookForChange
    ** Held("lastFrame", {R("lastFrame")})
    ** (Return \cup RUnder("payloads", RenderZoneImages,
                      CompositeRipple ** Held("lastFrame", {W("lastFrame")})))

FrameFails ==
  LookForChange
    ** Held("lastFrame", {R("lastFrame")})
    ** RUnder("payloads", RenderZoneImages, Return)

RenderFrame == OtherFrame \cup ZoneFrame \cup FrameFails

RenderImmediate ==
  RHeld("config", {R("config")}) ** RUnder("payloads", RenderZoneImages, Return)

\* The page may not be there, or be shown already; its frame may fail.
SwitchPage ==
  LET Slide == Held("transition", {W("transition")}) ** Run({R("transition")})
      Show  == Held("cache", {W("cache")})
                 ** RenderImmediate
                 ** (Return \cup (Return \cup Slide) ** RHeld("transition", {R("transition")}))
  IN  Run({R("config")})
        ** (  Return
         \cup Held("swipe", {W("swipe")})
                ** Held("lastFrame", {R("lastFrame")})
                ** InitializePage(Show, Return))

ReloadFromConfig ==
  Held("config", {W("config")}) ** InitializePage(Held("cache", {W("cache")}), Return)

PreRenderPage ==
  Run({R("config")})
    ** RUnder("payloads", {R("payloads"), R("config")},
         RHeld("config", {R("config")}) ** (Return \cup Held("cache", {W("cache")})))

(***************************************************************************)
(* Live swipes.                                                            *)
(***************************************************************************)
\* The cooldown ends it, and so does a frame to slide away that fails; it is
\* drawn if there is none yet.
UpdateLiveSwipe ==
  LET Begin == Run({R("config")}) ** Held("lastFrame", {R("lastFrame")})
      Start == Begin
                 ** (Return \cup OtherFrame \cup ZoneFrame)
                 ** RHeld("cache", {R("cache")})
                 ** Held("transition", {W("transition")})
      Move  == (Return \cup Held("transition", {W("transition")}))
                 ** Held("transition", {W("transition")})
  IN  RHeld("transition", {R("transition")})
        ** Under("swipe", {W("swipe")},
             Return \cup Begin ** FrameFails \cup Start ** Move \cup Move)

\* The goroutine that draws the target page of a swipe the cache has not.
ColdSwipe ==
  RHeld("config", {R("config")})
    ** RUnder("payloads", {R("payloads")}, Return)
    ** Held("cache", {W("cache")})
    ** Held("swipe", {W("swipe")})
    ** Held("transition", {W("transition")})

CancelLiveSwipe ==
  Under("swipe", {W("swipe")},
    Return \cup RHeld("transition", {R("transition")})
                  ** Held("transition", {W("transition")})
                  ** RHeld("transition", {R("transition")}))

\* Without a swipe, at an end of the pages, or to the next page.
FinalizeLiveSwipe ==
  LET Slide == Held("transition", {W("transition")})
      Show  == RHeld("cache", {R("cache")})
                 ** (  Slide
                  \cup RenderImmediate ** (Return \cup Held("cache", {W("cache")}) ** Slide))
                 ** RHeld("transition", {R("transition")})
  IN       Held("swipe", {W("swipe")}) ** (Return \cup CancelLiveSwipe)
      \cup Under("swipe", {W("swipe")},
             RHeld("transition", {R("transition")}) ** Run({R("config")}) ** Slide)
             ** InitializePage(Show, Show)

(***************************************************************************)
(* Taps and the detail overlay.                                            *)
(***************************************************************************)
WaitForRipple == Held("ripple", {R("ripple")})
StartTapRipple == Held("ripple", {W("ripple")}) ** MarkDirty

ShowDetail ==
  RHeld("config", {R("config")})
    ** Held("lastFrame", {R("lastFrame")})
    ** Held("detail", {W("detail")})

ClearDetail ==
  WaitForRipple ** Held("lastFrame", {R("lastFrame")}) ** Held("detail", {W("detail")})

\* A tick of the goroutine StartDetailRefresh made, with updateDetailFrame.
DetailRefresh ==
  Held("detail", {R("detail")})
    ** (Return \cup RHeld("config", {R("config")}) ** Held("detail", {W("detail")}))

\* handleEvent of the touch loop.
LongPress == Held("detail", {R("detail")}) ** (Return \cup ClearDetail)

HandleDetailTap == Held("detail", {R("detail")}) ** (Return \cup ClearDetail)

\* Mutant: the last payload is looked at without payloadsMu.
MutHandleZoneTap ==
  Run({R("payloads")})
    ** (Return \cup WaitForRipple ** (Return \cup ShowDetail ** Held("detail", {W("detail")})))

\* No overlay for a zone that is not expandable, or whose plugin fails.
HandleZoneTap ==
  RHeld("payloads", {R("payloads")})
    ** (Return \cup WaitForRipple ** (Return \cup ShowDetail ** Held("detail", {W("detail")})))

CycleZonePlugin == Run({R("config")}) ** (Return \cup Held("choice", {W("choice")}))

HandleZoneTapAtX ==
  RHeld("config", {R("config")})
    ** (Return \cup StartTapRipple ** (CycleZonePlugin \cup HandleZoneTap))

\* handleTap of the touch loop.
HandleTap ==
  Held("detail", {R("detail")})
    ** (  Return
     \cup StartTapRipple ** HandleDetailTap
     \cup RHeld("config", {R("config")})
            ** (Return \cup StartTapRipple ** (Return \cup CycleZonePlugin)))

(***************************************************************************)
(* Goroutines.                                                             *)
(***************************************************************************)
\* What each goroutine calls, one after the other.
Calls(t) ==
  CASE t \in Samplers -> UpdatePayload
    [] t \in Requests -> SwitchPage \cup ReloadFromConfig \cup HandleZoneTapAtX
    [] t \in Helpers  -> PreRenderPage \cup ColdSwipe \cup HandleZoneTap \cup ClearDetail
                           \cup DetailRefresh
    [] t = Render     -> RenderFrame ** (Return \cup RHeld("transition", {W("transition")}))
    [] t = Touch      -> UpdateLiveSwipe \cup FinalizeLiveSwipe \cup CancelLiveSwipe
                           \cup HandleTap \cup LongPress

LocksInit ==
  /\ owner = [l \in Locks |-> Nobody]
  /\ draining = {}
  /\ readers = [l \in Locks |-> {}]
  /\ todo = [t \in Threads |-> {}]
  /\ doing = [t \in Threads |-> {}]

Active == {t \in Threads : todo[t] # {}}

\* The steps a goroutine may be at.
Heads(t) == {Head(s) : s \in todo[t] \ Return}

\* A goroutine that waits for readers has chosen its step.
Waiting(t) == \E l \in draining : owner[l] = t

\* The courses that begin with the step have it behind them.
Go(t, step) ==
  /\ todo' = [todo EXCEPT ![t] = {Tail(s) : s \in {c \in @ \ Return : Head(c) = step}}]
  /\ doing' = [doing EXCEPT ![t] = Accesses(step)]

Call(t) ==
  /\ todo[t] = {} /\ Cardinality(Active) < AtOnce
  /\ todo' = [todo EXCEPT ![t] = Calls(t)]
  /\ UNCHANGED <<owner, draining, readers, doing>>

Done(t) ==
  /\ << >> \in todo[t]
  /\ todo' = [todo EXCEPT ![t] = {}] /\ doing' = [doing EXCEPT ![t] = {}]
  /\ UNCHANGED <<owner, draining, readers>>

Lock(t, step) ==
  /\ Kind(step) = "Lock" /\ owner[Mutex(step)] = Nobody /\ readers[Mutex(step)] = {}
  /\ owner' = [owner EXCEPT ![Mutex(step)] = t]
  /\ Go(t, step)
  /\ UNCHANGED <<draining, readers>>

\* sync.RWMutex: a writer first keeps new readers out, then waits for the others.
Announce(t, step) ==
  /\ Kind(step) = "Lock" /\ owner[Mutex(step)] = Nobody /\ readers[Mutex(step)] # {}
  /\ owner' = [owner EXCEPT ![Mutex(step)] = t]
  /\ draining' = draining \cup {Mutex(step)}
  /\ UNCHANGED <<readers, todo, doing>>

Enter(t, step) ==
  /\ Kind(step) = "Lock" /\ owner[Mutex(step)] = t
  /\ Mutex(step) \in draining /\ readers[Mutex(step)] = {}
  /\ draining' = draining \ {Mutex(step)}
  /\ Go(t, step)
  /\ UNCHANGED <<owner, readers>>

RLock(t, step) ==
  /\ Kind(step) = "RLock" /\ owner[Mutex(step)] = Nobody
  /\ readers' = [readers EXCEPT ![Mutex(step)] = @ \cup {t}]
  /\ Go(t, step)
  /\ UNCHANGED <<owner, draining>>

Unlock(t, step) ==
  /\ Kind(step) = "Unlock"
  /\ owner' = [owner EXCEPT ![Mutex(step)] = Nobody]
  /\ Go(t, step)
  /\ UNCHANGED <<draining, readers>>

RUnlock(t, step) ==
  /\ Kind(step) = "RUnlock"
  /\ readers' = [readers EXCEPT ![Mutex(step)] = @ \ {t}]
  /\ Go(t, step)
  /\ UNCHANGED <<owner, draining>>

Proceed(t, step) ==
  /\ Kind(step) = "Run"
  /\ Go(t, step)
  /\ UNCHANGED <<owner, draining, readers>>

Step(t, step) ==
  \/ Lock(t, step) \/ Announce(t, step) \/ RLock(t, step)
  \/ Unlock(t, step) \/ RUnlock(t, step) \/ Proceed(t, step)

LocksNext ==
  \E t \in Threads :
    \/ Call(t)
    \/ ~Waiting(t) /\ Done(t)
    \/ \E step \in Heads(t) : Enter(t, step) \/ (~Waiting(t) /\ Step(t, step))

LocksSpec == LocksInit /\ [][LocksNext]_locksVars

(***************************************************************************)
(* Properties.                                                             *)
(***************************************************************************)
Holds(t, l) == t \in readers[l] \/ (owner[l] = t /\ l \notin draining)

\* If t is at the step, it waits for u.
WaitsFor(t, step, u) ==
  \/ /\ Kind(step) = "Lock"
     /\ u \in readers[Mutex(step)] \/ (u = owner[Mutex(step)] /\ (u = t => Mutex(step) \notin draining))
  \/ Kind(step) = "RLock" /\ u = owner[Mutex(step)]

\* t may be at the step.
AtStep(t, step) ==
  Waiting(t) => Kind(step) = "Lock" /\ Mutex(step) \in draining /\ owner[Mutex(step)] = t

\* No goroutines wait in a ring, whatever the rest of the program does: the
\* display, the touch screen and the requests never stop for good. A writer that
\* waits keeps readers out (sync.RWMutex), so a reader may wait for a reader.
NoCircularWait ==
  \A S \in (SUBSET Active) \ {{}} :
    ~ \A t \in S : \E step \in Heads(t), u \in S : AtStep(t, step) /\ WaitsFor(t, step, u)

Race(field) ==
  \E t, u \in Active : t # u /\ W(field) \in doing[t] /\ {R(field), W(field)} \cap doing[u] # {}

\* Nobody reads or writes a payload, a cached page, the last frame, the overlay,
\* the live swipe, the ripple or the choice of a zone while another goroutine writes
\* it: two accesses of a map at once end a Go program.  The images of the zones and the
\* frame buffers are not among them (DrawnAlone).
FieldsGuarded ==
  \A field \in {"payloads", "cache", "lastFrame", "detail", "swipe", "ripple", "choice"} :
    ~Race(field)

\* Not so: two goroutines draw at once, since renderZoneImages asks of payloadsMu only
\* that it is held for reading.  FrameCache says what the frames still show.
DrawnAlone == ~Race("frameBufs") /\ ~Race("zoneImages")

\* manager.go:49: when several of the four mutexes are taken, it is in this order.
DocumentedOrder ==
  LET Order == <<"config", "lastFrame", "detail", "payloads">>
  IN  \A t \in Active : \A step \in Heads(t) : \A i, j \in 1..4 :
        Kind(step) \in {"Lock", "RLock"} /\ Mutex(step) = Order[i] /\ Holds(t, Order[j]) => j < i

\* manager_page.go:14: nobody reads the zones while initializePage rebuilds them.
ZonesWhole == ~Race("zones")

\* manager.go:51: configMu guards reads and writes of the pointer to the layout.
ConfigGuarded == ~Race("config")
=============================================================================
