# nexus-open in TLA+

Specifications of the nexus-open daemon (Go, `src/internal`), which draws pages
of zones on the 640x48 touch display of a Corsair iCUE Nexus. TLC checks the
modules on small instances, TLAPS proves the theorems of the `*Proofs` modules
for every value of the constants. `PROJECT.json` maps every definition to the
lines it stands for.

## The system

One process runs these goroutines on shared state:

| goroutine | code | what it does |
|---|---|---|
| render loop, 30 Hz | `app/app_render.go` | `Manager.RenderFrame`, `SendFrame`, broadcast to WebSocket clients |
| touch loop | `touch/handler.go`, `touch/reader.go` | reads packets; live swipe, taps |
| HTTP requests, one each | `api/*.go` | navigation, drafts, layout edits, plugin configuration, settings, debugging |
| WebSocket clients, one each | `api/ws.go` | receive what the hub broadcasts |
| sample loops, one per zone | `zone/sampler*.go` | ask the plugin for a payload, recover from its crashes |
| timers and helpers | `manager_page.go`, `manager_detail.go`, `draft.go` | pre-renders, overlay timeout and refresh, draft timeout |
| device monitor and watcher | `device/nexus.go`, `app/app.go` | reconnect |
| settings watcher | `app/app.go` | background after a change of the settings |
| plugin processes | `plugins/*` | subprocesses behind go-plugin |

Components, the state each keeps, what is hard about it and what makes it right:

| component | state | operations | hard | right when |
|---|---|---|---|---|
| Page navigation (`zone/manager*.go`, `transition.go`, `touch/handler.go`) | `currentPage`, zones and compositor, `liveSwipe*`, `transition` | live swipe, commit, cancel, HTTP switch, layout reload | `currentPage` has no mutex; three kinds of goroutine change it in several steps | the zones on display are those of `currentPage`, it is a page of the layout, swipes do not wrap, transitions end |
| Touch reader (`touch/reader.go`, `swipe_config.go`) | gesture, filter, velocity window | packets to events, the decision of a release | a filter that lags, thresholds that vary, a lift that reports 0 | swipes have moved, taps hit what was touched, a swipe turns one page |
| Frames (`manager_render.go`, `manager_page.go`) | `lastFrame`, `frameDirty`, two buffers, `pageCache` | render, payload update, pre-render, cold swipe | drawing outside the mutex that guards the dirty flag, by two goroutines at once; reused buffers | a clean frame is current, the cache shows its page and its payload |
| Sampling (`sampler.go`, `sampler_crash.go`, `plugins/host`) | `cancelFuncs`, `modules`, `pluginSpec`, host clients, processes | start, sample, crash recovery, `RestartZone`, `Stop` | old and new loop of a zone run side by side | one live loop, on the plugin asked for; no stray process; crashes are noticed |
| Layout draft (`draft.go`, `draft_handlers.go`, `layout_handlers.go`, `ws.go`) | draft, idle timer, database, layout on display | open, update, commit, discard, timeout, disconnect | copy, change and put back; timers that have gone off; restarts | every draft is timed, the display follows |
| Layout store (`store/layout.go`, `layout_handlers.go`, `zone_handlers.go`, `zone/config.go`) | pages, zones, the manager's copy, what plugins were told | CRUD, widths, taps that cycle, zone configuration | reads and writes of one request with those of another in between | widths add up, the device shows what is stored, plugins have what is stored |
| Detail overlay (`manager_detail.go`) | overlay frame, zone, timer, refresh goroutine | show, clear, refresh, tap | timeout against a new overlay, refresh against dismissal | every overlay is timed and ends, one refresh, its own picture |
| Device (`device/nexus.go`, `app_render.go`, `app.go`) | handle, `connected`, monitor, `lastSentPix` | connect, send, brightness, monitor, disconnect | disconnect and reconnect against writes | one handle, none after `Disconnect`, none closed under a write, skipped frames are shown |
| Settings and start (`settings/`, `store/store.go`, `app.go`) | schema version, settings in memory, in the database and on display | migrations, import of `config.yaml`, update, watchers | the program ends between two transactions; three copies | every migration runs, nothing configured is lost, the copies agree |
| WebSocket hub (`api/ws.go`) | clients and their queues | subscribe, broadcast | full queues, slow clients | not modelled but for the last client that leaves |
| Renderers, plugins, tray, udev, UI, tools | - | - | - | not modelled (below) |

`App` wires them: a tap or a swipe calls the manager; `onZoneCycle` calls
`Sampler.RestartZone`; a sample calls `Manager.UpdatePayload`; layout and draft
requests call `Manager.ReloadFromConfig`; `Shutdown` cancels the context of the
loops, calls `Sampler.Stop`, waits for the render loop, blanks and disconnects
the device.

## Modules

| module | models | state |
|---|---|---|
| `PageNav` | page navigation | `numPages`, `currentPage`, `zonesPage`, the live swipe and its cooldown, the transition, the finger, and for each goroutine its position `pc` and locals `loc` inside the handler it runs |
| `PageBook` | what a swipe promises: a book whose pages are turned one at a time | `pages`, `page` |
| `TouchReader` | the panel, the reader and the handler on top of `PageNav`, which it extends: every event is one of its steps | `plugged`, where the finger is (`at`), the `reader`, and what the touch came to (`gesture`) |
| `FrameCache` | the pictures behind the navigation | payloads and which of them have expired, zones, `lastFrame`, `frameDirty`, the two buffers and who is drawing into them, the cache, readers of `payloadsMu` |
| `PluginSampler` | the sampling of one zone | `tables` of the sampler, the host's record, the processes alive and hung, the loops ever started, restarts under way |
| `DraftSession` | the layout editor | database, draft, display, idle timer (with the timers `dm.timer` has lost and the calls waiting for `dm.mu`), requests and sockets |
| `LayoutStore` | the layout requests, zone requests and taps on the stored layout | the tables `pages` and `zones`, `live` (what the manager shows), `running` (what plugins were configured with) |
| `DetailOverlay` | the overlay, its timers and refresh goroutines | `active`, `zone`, `frame`, `age`, the timer, functions that fired, the refresh goroutines, what clients were told |
| `ManagerLocks` | the nine mutexes of `zone.Manager` under all of its methods | who holds or waits for each mutex (`owner`, `draining`, `readers`), for each goroutine the courses its method can still take (`todo`) and the fields it is at (`doing`) |
| `DeviceLink` | the device and everybody who uses it | cable, handles, `connected`, `writeMu`, monitors, watcher, `Shutdown`, the pictures rendered, sent and shown |
| `Startup` | the starts of the daemon and its settings | the database file, `config.yaml`, how far the start has come, settings in memory, the channel of the watcher, the background, images |
| `MC*` | the instance TLC checks | - |
| `*Proofs` | proofs about the module they are named for; `NavigationProofs` is about `PageNav` and `TouchReader`, `GoroutineProofs` about `Startup` and `ManagerLocks` | - |

An action is one operation, or the part of one that runs under one mutex or
between two accesses to unguarded shared state; `pc` orders the parts. `vars`
keep the names of the fields. `PageNav` and `FrameCache` model the same
functions from two sides: control in one, pictures in the other (`PageNav` has
no frames; `FrameCache` lets any page change happen at any time, a superset of
what `PageNav` allows, so what holds there holds under the navigation's rules).
`DraftSession` and `LayoutStore` share the database in the same way: what a
draft is, and when its layout may be shown, is in the first; rows, widths,
plugins and the restart on what is stored in the second.

Abstractions, by module:

* `PageNav`: drag progress has four levels (0, some, at least 0.40, the whole
  display, which a finger never reaches), which is what the code tells apart: a
  drag of the whole width would end the transition. Velocity is the choice, in
  between, of committing or not. `MayReverse` says whether a finger may turn
  back past its starting point. The 250 ms cooldown ends at any time.
* `TouchReader`: the display has `Width` units. The One-Euro filter gives any
  position between the last it gave and the one reported, the threshold any of
  7, 8 or 9 hundredths, the velocity any tier. `Rested` says that touches lie far
  enough apart for the filter to give the reported position at the next press
  (it is not reset in the code), `Turns` whether a finger turns back. Edges of the
  bands of `shouldCommitSwipe` are the code's. `Unplug` happens at any time between two
  packets: with a finger down its lift is lost with the reader (`nexus.go:104`), and
  the live swipe of the manager stays for the next touch to drive on (`FingerLost`).
* `FrameCache`: a picture is what it was drawn from (page, layout, payload, and
  whether that had expired). One zone per page. Payloads differ in their timestamps,
  so that `cachedImg` is taken for the payload it was drawn from. A drawing has a
  beginning and an end, between which its buffer shows nothing whole; two may overlap,
  in one buffer if they flip `frameBufIdx` at once.
* `PluginSampler`: one zone; zones share only mutexes. A process may exit or
  hang at any time; `Sample` answers, fails or times out accordingly. A launch
  may fail at any time; with its context done it is given up, and the process may be
  started nevertheless, by the goroutine `LaunchPlugin` leaves behind (`LateLaunch`).
  A launch whose context is done is never completed. `startZoneSampling` is one step since it holds `s.mu`.
* `DraftSession`: a layout is a set of pages, each full, empty or broken, which
  is what `Config.Validate` and `renderSafeConfig` look at. The order of pages and
  zones does not matter to either. A store operation is one step; `GetFullLayout`
  reads page by page in the code. Timers may go off at any time.
* `LayoutStore`: names and the order of zones are left out. A row has a page, a
  width, a plugin and a configuration. A call of the store is one step, a handler
  several: `GetFullLayout` is one per page. The table refuses widths outside
  `MinZoneWidthPx..DisplayWidthPx` (`schema.sql:24`); of SQL errors only those of
  the write in `redistributePageWidths` are modelled.
* `DetailOverlay`: a picture is the zone it was drawn for. A plugin answers as
  late as it likes. `age` stands for the slide (`rising`), the debounce (`fresh`)
  and after (`old`); the function of a timer that fired may take `detailMu` late.
* `ManagerLocks`: the other modules take for one step what runs under a mutex; this
  one has nothing but the mutexes. A method is a set of sequences of locks, unlocks
  and accesses to fields, one for each way through it. `Lock`, `RLock` and so on are
  those of `sync.RWMutex`: a writer that waits keeps new readers out (`Announce`, `Enter`). A
  `sync.Mutex` is one without readers. The mutex of a background picture is left out: nothing is
  called under it. The images of the zones and the frame buffers are fields without a
  mutex: `renderZoneImages` writes them under the read lock of `payloadsMu`. Left out
  are `UpdateTheme`, which has no caller, and the debug requests that
  copy a frame.
* `DeviceLink`: a step holds `n.mu`. `writeMu` is held over several: a frame is
  121 packets, between which the cable may be pulled. Two monitors are followed.
* `Startup`: of the settings the background image stands for all, of the layout the
  plugin configuration of one zone. A migration is one transaction; the program
  may end at every step. The files of every earlier schema version are initial
  states, with each way the configuration of a zone may be spread over them: none, in
  one of the two tables, or in both, alike or not. The query for the version may fail.

## Runs

| run | instance | shows |
|---|---|---|
| `nav` | 2 pages, touch, one switch, one editor, fingers that turn back, fair | `ZonesFollowPage` and `PageInLayout` as long as page changes do not overlap; `ReleasedSettles`: every transition ends, but for one whose finger went with the device |
| `touch` | up to 3 pages, 12 units, 2 zones a page, touch alone | `BookSpec`: reader, handler and manager implement `PageBook`, with a device that goes in the middle of a swipe; `SwipesMove`, `TapsHit` |
| `frame` | 2 pages; beside the render loop a swipe with an edit or a switch, a switch with a pre-render or a cold swipe, a pre-render with a cold swipe or an edit, a swipe with payloads that expire | `FrontFrameFresh`, `CacheShowsPayload`, `CacheShowsItsPage` |
| `sampler` | 2 subprocess plugins and 1 builtin, 1 cycler, 2 loops, 3 instances | `OneLiveLoop`, `NoStrayProcess`, `StopKillsAll`, `LiveLoopSpec` |
| `sampler_live` | 1 subprocess plugin, fair | `CrashNoticed`, `LoopShowsOrEnds` |
| `draft` | 4 pages (2 full, 1 empty, 1 broken), 1 request, 1 socket, 1 timer | `DraftIsTimed`, `DisplayFollows` |
| `locks` | one goroutine of each of the five kinds, three inside a method at once | `NoCircularWait`: no goroutines wait for each other in a ring; `FieldsGuarded`: no access to what seven of the mutexes guard while it is written |
| `locks_zones` | the same, two at once | **violation**: `ZonesWhole`. `RenderFrame` ranges over the zones while a page change inserts them |
| `detail` | 2 zones, touch, tapper, 1 debug request, 2 overlays, fair | `OverlayIsTimed`, `OneRefresh`, `FrameFollows`, `ClientsTold`; `OverlayEnds`, `RefreshEnds` |
| `device` | 2 handles, 2 pictures, 1 brightness request, fair | `OneHandle`, `SkippedIsShown`, `StaysClosed`, `CloseDrains`; `Reconnects`, `ShutdownEnds` |
| `startup` | 2 images, 2 plugin configurations, a channel of 2, files of schema versions -1 to 8 | `TypeOK`, `MigrationsRun`, `LegacyImported`, `SettingsAgree`, `ConfigKept`, `ImportKeepsSettings` |
| `layout` | 2 pages, 2 zones, 2 plugins, 2 configurations, 3 pixels; two editors, an editor with a tap, or with a setter and the relaunches of the sample loops, or two taps with a setter and those | `WidthsFill`, `DisplayShowsStore`, `PluginHasConfig` |

Why these bounds are enough. `nav`: with two pages each is the first and the
last, both have neighbours and the layout can shrink below `currentPage`; one
goroutine of each kind gives every pair of concurrent page changes, and a third
kind on top. `touch`: of twelve units one is 8 hundredths (it swipes or not, with
the threshold), two, three and five fall into the other bands of
`shouldCommitSwipe`; three pages have one in the middle. `frame`: the hazards are
between one drawing and one change, and every cast has both at once; all five
goroutines together are out of TLC's reach, so `Casts` says which take part together;
two of them draw at once where the swipe or the switch does so beside the render loop,
and payloads expire in the smallest cast. `sampler*`: two loops are the old and the new one of a restart, and two
subprocess plugins tell the process of the old one from that of the new one; three
instances allow a relaunch before or after the restart. `draft`: two full pages tell
a stale display from a fresh one, one timer may be lost and another armed.
`locks`: a ring of two goroutines is the
usual deadlock, one of three takes a writer that waits between two readers; more
goroutines of a kind do the same over again, and all methods
can run on the five. An access that races takes two.
`detail`: two overlays are one and the next, with the timer and the refresh of the
first still about. `device`: two handles are the one that is closed and the one
that is opened; two pictures tell a skipped frame from another. `startup`: two
images tell a late setting from the last, two plugin configurations the two tables
from each other, a channel of two is full after two updates. `layout`: two zones on a
page of three pixels get different widths, two pages allow moves; requests ask for the
whole width and for the plugin and configuration of the bundled layout, which taps and
configuration requests beside them change, so that a `PUT` writes old ones back; more goroutines at once are out of TLC's
reach, so `Casts` says which take part together (two of a kind may be exchanged,
`Alike`); one of the two zones
is tapped and configured (`Touched`), the other comes and goes beside it. The proofs
cover any number of everything for all but liveness.

Deadlock is checked everywhere but in the `sampler` runs, where the program
stops for good.

### Fairness

`FairSpec` of `PageNav`: the render loop ticks (`WF`, a `time.Ticker`), and a goroutine
inside a handler goes on (`WF`, they hold no lock forever). Nothing is assumed
of fingers, requests or edits. `FairSpec` of `PluginSampler`: a loop goes on inside
its steps (`WF`; `Sample` is bounded by the sample timeout), and its `select`
takes the ticker and the done context if they are offered again and again (`SF`:
Go picks at random among ready cases). Nothing is assumed of restarts, crashes,
triggers or shutdown. `FairSpec` of `DetailOverlay`: clocks run, a tap that is
handled and a refresh that asks its plugin go on (calls of plugins have a deadline),
and the closed channel is taken if it is offered again and again (`SF`). `FairSpec`
of `DeviceLink`: goroutines go on and get the mutexes they wait for (`SF`: Go hands a
mutex to who has waited long), of many attempts to open a device that is there one
succeeds, and the picture changes again and again, because a clock is on it: an
unplugged device is only noticed by a frame that cannot be sent, and a static
picture is never sent.

### What the histories exclude

Each history variable names a case in which the code lets something slip, so that
the property says what holds as long as it has not happened.

* `overlapped` (`PageNav`): two page changes have been under way at once. The code
  does not order them, and after such an overlap `currentPage` and the zones may
  disagree until the next page change (`manager_page.go:16`, `manager_swipe.go:293`).
* `orphan` (`PageNav`; `adrift` in `PageBook`): the finger of the live swipe went with
  the device. The swipe is taken on by the next touch whatever its direction, with the
  boundary flag it began with, and may go round the end (`manager_swipe.go:143`); until
  then the display stays between two pages. `BookSpec` allows it that turn,
  `ReleasedSettles` says nothing of it; the swipe after it is held to both again.
* a buffer that is being drawn (`FrontFrameFresh`, no history): a clean frame whose
  buffer another goroutine draws anew at this instant may be seen half drawn.
* `late` (`PluginSampler`): processes started after their launch was given up. The
  select of `LaunchPlugin` takes the done context (`host.go:146`), `Kill` finds no
  process yet, and the goroutine left behind starts one (`host.go:104`) that no record
  leads to. It takes a loop cancelled between the backoff and the relaunch, or `Stop`
  in the middle of one.
* `aside` (`DraftSession`): requests overlapped, the committed layout was edited
  while a draft was open (its reload shows the committed layout), or a draft timed
  out (`onIdleTimeout` does not reload, so the preview stays).
* `overlapped`, `stale`, and `told` = `"unknown"` (`DetailOverlay`): two taps were handled at
  once, which only debug requests can do (the goroutine started last may be of the
  other zone); the picture was drawn by a goroutine that was told to stop
  while it asked its plugin, or before the overlay's own was started; two calls
  of `onDetailState` were under way, which `go m.onDetailState` does not order.
* `blanked` and `late` (`DeviceLink`): the display was cleared by a connect after the
  last frame (`lastSentPix` survives it, so the display stays black until the
  picture changes); when `Disconnect` closed the channel a monitor had passed it, or
  the watcher was still there, and may open the device afterwards.
* `misread` (`Startup`): the query for the schema version failed, its error was
  discarded (`store.go:81-84`), and a start on an old file took itself for the first:
  it imports `config.yaml` over what has been saved since.
* `missed`, `unsaved`, `dropped`, `turned` (`Startup`): the first start ended between
  its first migration and the import, or could not save, so `config.yaml` is never
  read; the last update could not be saved; the channel of the watcher was full; a
  page change made a new compositor without a background (`manager_page.go:61`).
* `uneven`, `untold`, `behind`, `crossed` (`LayoutStore`): pages a `PUT` left uneven (it writes
  before it validates, and does not look at the page a zone was moved from), zones
  whose plugin nobody told of a change (`PUT` of a zone, `DELETE` of a
  configuration, a relaunch after a crash), a tap that stored its plugin between the
  reads of the last reload, and layout requests that overlapped: each may distribute
  widths over zones that the other has changed since, and show what the other has
  replaced, so that any page may stay uneven, and the display behind, until a reload
  begins with no other request under way.

## Proofs

Every theorem is for all values of the constants that satisfy the assumption of its
module; the assumption is evaluated by the runs.

`NavigationProofs`, of `PageNav`:

* `TypeCorrect`: `Spec => []TypeOK`.
* `ZonesFollowPageAlways`, `PageInLayoutAlways`: both follow from the invariant
  `Alone`: as long as page changes did not overlap at most one goroutine is
  changing the page, and `Settled` or the position of that one says how
  `zonesPage`, `currentPage` and its locals are related at each step. Neither
  property is inductive, since between two steps of a change they are false.
* `ImplementsPageBook`: under `OnlyTouch` (no other goroutine, no turning back)
  `Spec => BookSpec`. The boundary flag is computed when a swipe starts and used
  when it ends, so the invariant `FlagHolds` carries it along: while a swipe is
  active it has the finger's direction and the flag is what `AtEdge` says now;
  once committing, the target is the page next to the current one. All this is said
  of a swipe with its finger; an `orphan` may go round the end (`GoRound`), and
  the invariant starts anew with the next swipe. `NextFlag`
  needs no more of the finger than that it keeps its direction in this step.

`NavigationProofs`, of `TouchReader`, for any width, zones and number of pages:

* `SwipesMoveAlways`, `TapsHitAlways`, assuming `Rested`: the invariant `ReaderOK`
  says that the way of the finger, from `lo` to `hi`, contains where it started,
  where it is and where the filter has it, and that an active swipe went its
  seven hundredths.
* `TouchImplementsPageBook`, assuming `TouchAlone`: `TouchSpec => BookSpec`. `NavSteps`
  shows that every step of the reader is one of `PageNav` or none, and `Course` that
  the filter follows a finger that does not turn back from one side only, so
  that `NextFlag` applies to every step.

`FrameCacheProofs`:

* `TypeCorrect`.
* `FrontFrameFreshAlways`: the property is not inductive, since a frame is published
  steps after its buffer was drawn. `Front` adds that
  between drawing and publishing a goroutine holds `payloadsMu` and its buffer is
  current or being drawn anew (`Fresh`); whoever else draws meanwhile, into the same
  buffer even, draws from the same zones and payloads, and whoever changes those needs
  the mutex alone, with no drawing under way.
* `CacheShowsPayloadAlways`: `Warm` says the same of a pre-render between drawing
  and storing.
* `CacheShowsItsPageAlways`: but for committed swipes no reused buffer gets into the
  cache. `Own` is the invariant.

`PluginSamplerProofs`:

* `TypeCorrect`, `NoStrayProcessAlways`, `StopKillsAllAlways`, for any number of
  cycling goroutines, but for processes in `late`. `HostStep` sums up what any step does
  to the processes:
  nothing but an exit, an `Evict`, a launch while the context is not done, or one that
  was given up and is in `late`; a launch finds `h.clients` empty, so with `NoStrayProcess` nothing runs yet.
* `OneLiveLoopAlways`, `LiveLoopSpecAlways`, assuming `OneCycler`: one goroutine
  at most cycles the zone (taps come from the touch loop alone; with the debug
  endpoint there are two and both properties fail). The invariant is `OneLoop`:
  `Charge` (the loop that is not cancelled is the one in `cancelFuncs`, and a zone
  in the middle of `RestartZone` has none) and `Asked` (that loop, its relaunch and
  the process the host would hand out are all of the plugin in `pluginSpec`, and
  between the `Evict` and the start the host knows none).

`DraftSessionProofs`:

* `TypeCorrect`, `DraftIsTimedAlways` (inductive with the types, which say that no
  layout is nil).
* `DisplayFollowsAlways`: `Follow` says that without an overlap one request is at
  work, and for each of its positions which layout the display shows and what the
  request holds that is still to be written or shown.

`DetailOverlayProofs`:

* `TypeCorrect`; `OverlayIsTimedAlways` (`Timed` adds that the function of a timer
  that fired is only the last one waiting once the debounce is over, so that it does
  dismiss); `OneRefreshAlways`; `ClientsToldAlways`.
* `FrameFollowsAlways`: `FollowInv` adds to the property that one tap is handled at a
  time, that the goroutine about to be started is for the zone on the overlay, and
  that the one not told to stop is for it too.

`DeviceLinkProofs`:

* `TypeCorrect`; `SkipsAreShown`, from the invariant `Shows`, which holds under a write
  as well.
* `OneHandleAlways`, `StaysClosedAlways`, `CloseDrainsAlways`, from `LinkInv`: the handle of
  the device is the open one (`Held`), a write goes on under `writeMu` (`Mutex`), and
  who may be where before the first connection (`NotYet`), before `Disconnect`
  (`Early`) and after it (`Quiet`): one monitor runs, and it has closed the handle
  when it opens the device (`Alone`).

`GoroutineProofs`, of `Startup`:

* `TypeCorrect`; `Migrates` and `KeepsConfig` from `Fits`: the schema of a file is
  `SchemaOf` its version, for old files and new, so that every statement of the
  next migration finds its tables and columns.
* `ImportsLegacy` and `KeepsSettings` from `Imports`: a first run that is one finds no
  settings, and the import is still to come, was missed, or is done; a start that is
  taken for one finds a file in which it was missed or is done.
* `Agrees` from `Agreed`: memory is what the next start loads (`Saved`), the channel ends
  with it (`Sent`), and an empty channel means that the display shows it (`Displayed`).

`GoroutineProofs`, of `ManagerLocks`, for any number of goroutines, all inside a
method at once if need be:

* `LocksInvAlways`: the inductive invariant `LocksInv`. Whatever way a goroutine takes
  through its method, what is left of it is lawful (`OnCourse`): mutexes are taken in
  the order `liveSwipeMu`, `payloadsMu`, any other, the fields that are guarded are
  accessed under their mutex, and every mutex is given back. Not guarded, and so not
  claimed, are `m.config`, `m.zones`, and what drawing writes under a lock for readers:
  the images of the zones and the frame buffers. `Exclusive`, `Drains` and `OneWait`
  say what `sync.RWMutex` keeps: one writer and no reader beside it, and whoever waits
  is where its next lock is.
* `NoCircularWaitAlways`: who waits for a mutex waits for a goroutine that holds it, and
  each holder in a ring would wait for a mutex further on in the order; of three
  levels there is none further on than the last.
* `FieldsGuardedAlways`: who accesses a field holds its mutex (`Justified`, `OnCourse`),
  and a writer holds it alone.

`LayoutStoreProofs`, for any pages, zones and widths, and any number of layout
requests, taps and configuration requests at once:

* `TypeCorrect`, from `Typed`, which adds the locals each step of a handler has, and
  that every zone is on a page that is there.
* `WidthsFillAlways`, from `WidthsInv`: a page that does not fill the display is known to be
  uneven, or some request is at work on it (`Settled`); and a request with no other
  beside it finds, between its reads and its writes, what it relies on (`Expected`):
  of the page it distributes, the zones whose rows it has yet to write are there, and
  the others have their share (`Sharing`). No sum is taken by induction: a page is the
  set of its pixels (`Pixels`), and n shares with one pixel more for as many zones as
  pixels remain are a product and a rest, disjoint from it (`SharedPageFills`). That a page
  of more zones than fit cannot be even (`TooFullOverflows`) covers the page that
  `redistributePageWidths` refuses.
* `DisplayShowsStoreAlways`, from `ShowInv`: a reload is still to come, or what is stored is
  not valid, or what is shown is what is stored up to a tap that has yet to store its
  plugin (`Agrees`); and a reload has so far read what is there (`ReadSoFar`). It uses
  `WidthsInv`: an update is refused only for a page that has zones, so that the layout it
  leaves is not valid.
* `PluginHasConfigAlways`, from `ToldInv`: if the plugin of a zone does not have what is
  stored, a configuration request is still to tell it, or a tap that holds `s.mu` is about
  to; and if what the tap read is no longer stored, such a request comes after it.

Only model-checked: liveness (`ReleasedSettles`, `CrashNoticed`, `LoopShowsOrEnds`,
`OverlayEnds`, `RefreshEnds`, `Reconnects`, `ShutdownEnds`), which is out of the prover's
reach, as is what `ENABLED` says. That `ZonesWhole` fails is TLC's counterexample.

## Findings

One is a run, `locks_zones`: `RenderFrame` ranges over
`m.zones` under `configMu` (`manager_render.go:150`) while `initializePage`, under
`payloadsMu`, inserts into it: Go ends a program that does this.

These definitions are in no run. They state what the code or its comments seem
to promise, and TLC violates each of them on an instance like that of the module's
run:

| definition | behaviour |
|---|---|
| `PageNav.NoWrap` | with `MayReverse`, and `BookSpec` with `Turns`: a drag that starts away from the edge and turns back goes round the end (`manager_swipe.go:44`, against `:243`) |
| `TouchReader.SwipesMove`, `TapsHit` | without `Rested`: the filter is not reset between touches and takes in the 0 of a lift, so that a second tap within a moment starts too far left, and is taken for a swipe (`reader.go:256`) |
| `ManagerLocks.DrawnAlone`, `FrameCache.FrontFrameWhole` | `renderZoneImages` runs under the read lock of `payloadsMu` (`manager_render.go:242`) and writes `frameBufs`, `frameBufIdx`, `cachedImg` and `cachedPayload` (`manager_render.go:290`): the render loop and a touch or a request write them at once, and the frame on display may be half drawn. Both draw the same zones and payloads, and an image whose payload does not match is drawn again, so that what stays is the current picture (`FrontFrameFresh`) |
| `PageNav.ReleasedSettles`, `BookSpec` | without the exception for an `orphan`: the device goes in the middle of a swipe, and the reader with it (`nexus.go:104`); the display stays between two pages until the next touch, which may turn the page round the end (`manager_swipe.go:143`) |
| `PluginSampler.NoStrayProcess`, `StopKillsAll` | without the exception for `late`: a launch that is given up before its goroutine has started the process leaves one that the host does not know (`host.go:146`, reached from `sampler_crash.go:51`), also after `Stop` (against the comment at `sampler.go:309`) |
| `Startup.MisreadKeepsSettings` | a start that cannot read the schema version imports `config.yaml` over saved settings (`store.go:81-84`, against the comment of `IsFirstRun` at `store.go:105`) |
| `FrameCache.SwipedShowsItsPage` | a committed swipe caches a reused buffer (`manager_swipe.go:361`) |
| `FrameCache.CacheShowsLayout` | a pre-render that has read the old layout stores its frame after a reload has emptied the cache (`manager_page.go:336`) |
| `PluginSampler.ModuleIsSampled` | a cancelled loop that was relaunching overwrites its successor's instance (`sampler_crash.go:62`) |
| `DraftSession.ClearsWhatItSaved` | with two requests: an edit during a commit is shown, and dropped (`draft.go:110`) |
| `DraftSession.StartsAgain` | a layout with a page without zones is stored, and refused at the next start (`layout_handlers.go:97`) |
| `ManagerLocks.DocumentedOrder` | `UpdatePayload` and others take `configMu` and `lastFrameMu` under `payloadsMu`, against the order `manager.go:49` gives; the order of the code is `liveSwipeMu`, `payloadsMu`, then one of the others, and `locks` shows that it has no ring. (The reason `manager_detail.go:30` gives for its own order, that `RenderFrame` holds `lastFrameMu` when it takes `detailMu`, is not so either) |
| `ManagerLocks.ConfigGuarded` | `m.config` is read without `configMu` all over, next to `ReloadFromConfig` that replaces it (`manager_page.go:17`, against `manager.go:51`) |
| `LayoutStore.NewZonesSampled` | a zone that `POST /api/layout/zones` added is on display and not sampled until the daemon restarts, because `RestartForPage` has no caller (`manager.go:380`, against the comment above it) |
| `LayoutStore.WritesOnlyWidths` | the widths are written back as whole rows: a plugin or a configuration set meanwhile is lost (`layout_handlers.go:436`) |
| `DeviceLink.ShutdownBlanks` | the blank frame may not be sent, and the display keeps its picture (`app.go:168`) |
| `Startup.LayoutSurvives` | the bundled layout is written to the database without the plugin configurations the daemon runs with (`manager.go:290`, against `docs/INSTALLATION.md:87`) |

Seen while modelling, without a property: a payload that expires makes no frame dirty,
so that a static page goes on showing it instead of "Stale" (`manager_render.go:257`);
a reload of the layout drops the
`on_tap` and the choices of its zones (`layout_handlers.go:377`), so that a zone
no longer cycles until the daemon starts again, and a draft that is committed loses
them for good; a plugin that is relaunched after a crash is not configured again;
`RenderFrame` moves the
spring of a transition while it holds `transitionMu` for reading only, and
`SwitchPageWithTransition` logs a field of it without (`manager_page.go:251`);
migration V5 drops the configuration of zones that are not in the layout; with an
explicit path the legacy settings are looked for in the database file itself
(`app.go:227`).

## Not modelled, and why

Renderers, fonts, assets, design tokens and the composition of transition
frames: functions from payloads to pixels. Plugins: external programs, of which
only answering, failing, hanging and exiting matters. Tray, udev, tools,
packaging: input and output. The Flutter client: a program of its own, whose
requests are the inputs here. Decoding and encoding of requests, the token and
the middleware: no state of the components depends on them. The queues of the hub:
nothing depends on what they drop; that `handleWS` writes under the mutex of the
hub is listed as a hazard. The deadlines of `Shutdown`, after which it goes on without
those it waits for. The payload cache table, which has no reader.

## Plan

Done: all the modules above; every invariant and action property of the runs that hold
is a theorem. What is left, in this order:

1. The steps on which liveness rests, as far as they are safety: what a fair action
   needs stays so until it is taken.
2. The composition of `FrameCache` with the layout edits of `LayoutStore`, for the
   pre-render that stores an old layout (`manager_page.go:336`).
3. The hub with bounded queues and the render loop.
