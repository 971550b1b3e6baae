------------------------------ MODULE LayoutStore ------------------------------
(***************************************************************************)
(* The layout in the database and what follows it: internal/store/layout.go *)
(* under the layout requests (api/layout_handlers.go), the zone            *)
(* configuration requests (api/zone_handlers.go) and the taps that cycle a *)
(* zone (zone/manager_page.go), with the layout the zone manager shows and *)
(* what the sampler has told the plugins.                                 *)
(*                                                                         *)
(* Every call of the store is one step, because it holds the lock of the   *)
(* store from beginning to end; a handler is several steps.  Names and the *)
(* order of pages and zones are left out: a page gives its leading zones   *)
(* the pixels that remain, and here it does not matter which.  Drafts are  *)
(* those of DraftSession, the loops of the sampler those of PluginSampler. *)
(***************************************************************************)
EXTENDS Integers, FiniteSets

CONSTANTS
  PageIds, Home,     (* Ids of pages, and the page of the bundled layout.       *)
  ZoneIds, First,    (* Ids of zones, and the zones of the bundled layout.      *)
  Plugins, Default,  (* Plugin names, and the one of the bundled layout.        *)
  Configs, Empty,    (* Plugin configurations, and the one of a plugin that was *)
                     (* not configured.                                         *)
  None,              (* No row, no plugin, nothing.                             *)
  DisplayWidthPx, MinZoneWidthPx, MaxZonesPerPage,
  Asked,             (* What requests give a zone.  Bounds the model.           *)
  Touched,           (* Zones that are tapped or configured.  Bounds the model. *)
  Editors, Taps, Setters,  (* Goroutines of layout requests, cycles, and zone   *)
                           (* configuration requests.                           *)
  Loop,              (* The goroutines of the sampler's loops.                  *)
  Casts              (* The goroutines that take part together.  Bound.         *)

Procs == Editors \cup Taps \cup Setters
\* The table admits no others (CHECK), and refuses a request that asks for them.
Widths == MinZoneWidthPx..DisplayWidthPx
Rows == [page : PageIds, width : Widths, plugin : Plugins, config : Configs]
Requests == [width : Widths, plugin : Plugins, config : Configs]
Tables == [ZoneIds -> Rows \cup {None}]
Views == [page : PageIds, width : Widths, plugin : Plugins]

ASSUME ConstantsAssumption ==
  /\ Home \in PageIds /\ First \subseteq ZoneIds /\ First # {}
  /\ IsFiniteSet(ZoneIds)
  /\ Default \in Plugins /\ Empty \in Configs
  /\ None \notin Rows \cup Views \cup Plugins \cup Configs \cup PageIds \cup ZoneIds
  /\ DisplayWidthPx \in Nat /\ MinZoneWidthPx \in Nat \ {0}
  /\ Asked \subseteq Requests /\ Touched \subseteq ZoneIds
  /\ MaxZonesPerPage * MinZoneWidthPx <= DisplayWidthPx
  /\ MaxZonesPerPage \in Nat /\ Cardinality(First) \in 1..MaxZonesPerPage
  /\ Casts \subseteq SUBSET (Procs \cup {Loop})
  /\ Editors \cap Taps = {} /\ Editors \cap Setters = {} /\ Taps \cap Setters = {}

VARIABLES
  cast,      \* the goroutines that take part
  up,        \* the daemon runs: zone.NewManager accepted the stored layout
  pages,     \* the table pages: its ids
  used,      \* ids given to pages so far (AUTOINCREMENT)
  zones,     \* the table zones: row or None by id
  live,      \* m.config of the zone manager: what it shows of each zone
  choices,   \* the zones of m.config have their plugin choices
  running,   \* s.modules of the sampler: what the plugin of a zone was configured with
  pc, loc,   \* the position and the locals of each goroutine
  uneven,    \* history: pages that an update or a failure left uneven
  untold,    \* history: zones whose plugin missed a change of its configuration
  behind,    \* history: a tap that the last reload may have missed
  crossed    \* history: layout requests have overlapped since a reload began alone

vars == <<cast, up, pages, used, zones, live, choices, running, pc, loc, uneven, untold, behind,
          crossed>>

daemon == <<up, cast>>
stored == <<pages, used, zones>>
shown == <<live, choices>>
history == <<uneven, untold, behind, crossed>>

NoRows == [z \in ZoneIds |-> None]
Locals == [zone : ZoneIds \cup {None}, page : PageIds \cup {None},
           what : Plugins \cup Configs \cup {None}, row : Rows \cup {None},
           rows : [ZoneIds -> Rows \cup Views \cup {None}], left : SUBSET PageIds]
NoLocals == [zone |-> None, page |-> None, what |-> None, row |-> None,
             rows |-> NoRows, left |-> {}]

EditSteps == {"insert", "remove", "validate", "rows", "widths", "pages", "zones"}
TapSteps == {"persist", "restart", "launch", "configure"}
Steps == {"idle", "tell"} \cup EditSteps \cup TapSteps

TypeOK ==
  /\ cast \in Casts
  /\ up \in BOOLEAN /\ choices \in BOOLEAN /\ behind \in BOOLEAN /\ crossed \in BOOLEAN
  /\ pages \subseteq used /\ used \subseteq PageIds
  /\ zones \in Tables
  /\ live \in [ZoneIds -> Views \cup {None}]
  /\ running \in [ZoneIds -> Configs \cup {None}]
  /\ untold \subseteq ZoneIds
  /\ pc \in [Procs -> Steps]
  /\ loc \in [Procs -> Locals]
  /\ uneven \subseteq PageIds

-----------------------------------------------------------------------------
(* Layouts *)

OnPage(t, g) == {z \in ZoneIds : t[z] # None /\ t[z].page = g}

\* The zones of a page take this many pixels side by side, ...
Pixels(t, g) == UNION {{z} \X (1..t[z].width) : z \in OnPage(t, g)}

\* ... which ValidateZoneWidths compares with the display.
Fills(t, g) == Cardinality(Pixels(t, g)) = DisplayWidthPx

\* ZoneConfig.Validate
ZoneValid(row) == row.width \in MinZoneWidthPx..DisplayWidthPx

\* Page.Validate of a page that has zones.
PageValid(t, g) ==
  /\ Cardinality(OnPage(t, g)) <= MaxZonesPerPage
  /\ \A z \in OnPage(t, g) : ZoneValid(t[z])
  /\ Fills(t, g)

HasZones(t) == {g \in PageIds : OnPage(t, g) # {}}

\* Config.Validate of the layout storeToZoneConfig makes: pages without zones are
\* left out.
Valid(t) == HasZones(t) # {} /\ \A g \in HasZones(t) : PageValid(t, g)

\* The row a request asks for on page g.
Row(g, a) == [page |-> g, width |-> a.width, plugin |-> a.plugin, config |-> a.config]

\* The columns of a row that storeToZoneConfig passes on.
View(row) == [page |-> row.page, width |-> row.width, plugin |-> row.plugin]
storeToZoneConfig(t) == [z \in ZoneIds |-> IF t[z] = None THEN None ELSE View(t[z])]

\* The width of a zone of n on a page, before the pixels that remain.
Share(n) == DisplayWidthPx \div n

\* Mutant: the pixels that remain are lost.
MutRedistributeWidths(S) == [z \in S |-> Share(Cardinality(S))]

\* RedistributeWidths: equal widths, and a pixel more for the leading zones until
\* none remains.
RedistributeWidths(S) ==
  LET n == Cardinality(S)
      rest == DisplayWidthPx % n
      leading == CHOOSE L \in SUBSET S : Cardinality(L) = rest
  IN [z \in S |-> IF z \in leading THEN Share(n) + 1 ELSE Share(n)]

Factory == [z \in ZoneIds |->
  IF z \in First
  THEN [page |-> Home, width |-> RedistributeWidths(First)[z],
        plugin |-> Default, config |-> Empty]
  ELSE None]

Init ==
  /\ cast \in Casts
  /\ up = TRUE
  /\ pages = {Home} /\ used = {Home} /\ zones = Factory
  /\ live = storeToZoneConfig(Factory) /\ choices = TRUE
  /\ running = [z \in ZoneIds |-> IF z \in First THEN Empty ELSE None]
  /\ pc = [p \in Procs |-> "idle"]
  /\ loc = [p \in Procs |-> NoLocals]
  /\ uneven = {} /\ untold = {} /\ behind = FALSE /\ crossed = FALSE

-----------------------------------------------------------------------------
(* The store: each operation holds its lock, and is a step or part of one. *)

\* GetPages gives these to HasLayout.
HasLayout == pages # {}

StoreCreatePage(g) == g \notin used /\ pages' = pages \cup {g} /\ used' = used \cup {g}

\* The zones of a page go with it (ON DELETE CASCADE).
StoreDeletePage(g) ==
  /\ pages' = pages \ {g}
  /\ zones' = [z \in ZoneIds |-> IF z \in OnPage(zones, g) THEN None ELSE zones[z]]

\* The primary key, the foreign key and the check of a new row.
Insertable(z, row) == zones[z] = None /\ row.page \in pages /\ row.width \in Widths
StoreCreateZone(z, row) == zones' = [zones EXCEPT ![z] = row]

\* UpdateZone writes every column of a row that is there, on a page that is there.
Updatable(z, row) == zones[z] # None /\ row.page \in pages
StoreUpdateZone(z, row) == zones' = [zones EXCEPT ![z] = row]

StoreDeleteZone(z) == zones' = [zones EXCEPT ![z] = None]

\* The updates of one column do nothing if the row is not there, and say nothing.
StoreSetZonePlugin(z, plugin) ==
  zones' = IF zones[z] = None THEN zones ELSE [zones EXCEPT ![z].plugin = plugin]
StoreSetZonePluginConfig(z, config) ==
  zones' = IF zones[z] = None THEN zones ELSE [zones EXCEPT ![z].config = config]

\* A row that is not there has no configuration.
GetZonePluginConfig(z) == IF zones[z] = None THEN Empty ELSE zones[z].config
GetZonePage(z) == zones[z].page

\* ImportLayout replaces what is stored, in one transaction.
ImportLayout(t) == pages' = {Home} /\ used' = used \cup {Home} /\ zones' = t

\* What LoadConfigFromDB makes of the tables, if Config.Validate accepts it: here no
\* page may be empty.
Loadable(g, t) == g \subseteq HasZones(t) /\ Valid(t)

-----------------------------------------------------------------------------
Goto(p, step) == pc' = [pc EXCEPT ![p] = step]
Enter(p, step, l) == Goto(p, step) /\ loc' = [loc EXCEPT ![p] = l]
Return(p) == Enter(p, "idle", NoLocals)
Reload(p) == Enter(p, "pages", NoLocals)

Idle(p, S) == up /\ p \in S \cap cast /\ pc[p] = "idle"
At(p, step) == pc[p] = step

\* Another request that edits the layout at the same time may find any page half
\* done, and may have read what this one changes: from then on either may leave any
\* page uneven.
Overlapped(p) == \E q \in Editors \ {p} : pc[q] # "idle"
Wrote(p) == crossed' = (crossed \/ Overlapped(p)) /\ UNCHANGED behind
Uneven(S) == uneven' = {g \in IF crossed' THEN PageIds ELSE S : ~Fills(zones', g)}

\* The stored configuration of the zones S changes, or their plugins do not take it,
\* and nobody tells them; no matter if they have it.
Untold(S) == untold' =
  {z \in untold \cup S :
     /\ zones'[z] # None
     /\ \/ running'[z] \notin {None, zones'[z].config}
        \/ \E q \in Procs : loc'[q].zone = z /\ loc'[q].what \in Configs}

\* A plugin is going to have c, which is stored, unless some setter but those of S
\* still has something else for it.
Knows(z, c, S) ==
  IF \E s \in Setters \ S : loc[s].zone = z /\ loc[s].what # c THEN untold \cup {z} ELSE untold \ {z}

Reconfigured ==
  {z \in ZoneIds : zones'[z] # None /\ (zones[z] = None \/ zones[z].config # zones'[z].config)}

-----------------------------------------------------------------------------
(* Requests on pages *)

\* handleLayoutPages
CreatePage(p) ==
  /\ Idle(p, Editors)
  /\ \E g \in PageIds : StoreCreatePage(g)
  /\ Reload(p) /\ Wrote(p)
  /\ UNCHANGED <<daemon, zones, shown, running, untold>>
  /\ Uneven(uneven)

\* handleLayoutPage deletes a page; its zones go with it.
DeletePage(p) ==
  /\ Idle(p, Editors)
  /\ \E g \in pages : StoreDeletePage(g)
  /\ Reload(p) /\ Wrote(p)
  /\ Uneven(uneven)
  /\ UNCHANGED <<daemon, used, shown, running, untold>>

\* The requests that only rename or order pages and zones, and those for a page or a
\* zone that is not there, end in a reload.
Reorder(p) ==
  /\ Idle(p, Editors)
  /\ Reload(p)
  /\ UNCHANGED <<daemon, stored, shown, running, history>>

-----------------------------------------------------------------------------
(* Requests on zones *)

\* handleCreateZone counts the zones of the page, ...
handleCreateZone(p) ==
  /\ Idle(p, Editors)
  /\ \E z \in ZoneIds, g \in PageIds, a \in Asked :
       /\ Cardinality(OnPage(zones, g)) < MaxZonesPerPage
       /\ Enter(p, "insert", [NoLocals EXCEPT !.zone = z, !.row = Row(g, a)])
  /\ UNCHANGED <<daemon, stored, shown, running, history>>

\* ... inserts the row, which fails if the id is taken or the page is gone, ...
InsertZone(p) ==
  /\ At(p, "insert")
  /\ LET z == loc[p].zone
         row == loc[p].row
     IN IF Insertable(z, row)
        THEN /\ StoreCreateZone(z, row)
             /\ Enter(p, "rows", [NoLocals EXCEPT !.page = row.page])
             /\ Wrote(p) /\ Uneven(uneven)
        ELSE Return(p) /\ UNCHANGED <<zones, uneven, behind, crossed>>
  /\ UNCHANGED <<daemon, pages, used, shown, running>>
  /\ Untold(Reconfigured)

\* Mutant: a page that is empty or too full ends the request.
MutReadRows(p) ==
  /\ At(p, "rows")
  /\ LET S == OnPage(zones, loc[p].page)
     IN IF S = {} \/ Cardinality(S) * MinZoneWidthPx > DisplayWidthPx
        THEN Return(p)
        ELSE Enter(p, "widths", [loc[p] EXCEPT !.rows = [z \in ZoneIds |->
               IF z \in S THEN [zones[z] EXCEPT !.width = RedistributeWidths(S)[z]]
               ELSE None]])
  /\ UNCHANGED <<daemon, stored, shown, running, history>>

\* ... and distributes the widths: it reads the rows of the page, ...
ReadRows(p) ==
  /\ At(p, "rows")
  /\ LET S == OnPage(zones, loc[p].page)
     IN IF S = {} \/ Cardinality(S) * MinZoneWidthPx > DisplayWidthPx
        THEN Reload(p)
        ELSE Enter(p, "widths", [loc[p] EXCEPT !.rows = [z \in ZoneIds |->
               IF z \in S THEN [zones[z] EXCEPT !.width = RedistributeWidths(S)[z]]
               ELSE None]])
  /\ UNCHANGED <<daemon, stored, shown, running, history>>

\* ... and writes them back with the new widths, one after the other and every column
\* of them.  An error ends it.
WriteRow(p) ==
  /\ At(p, "widths")
  /\ Wrote(p)
  /\ \E z \in ZoneIds :
       LET row == loc[p].rows[z]
           last == \A y \in ZoneIds \ {z} : loc[p].rows[y] = None
       IN /\ row # None
          /\ \/ /\ Updatable(z, row)
                /\ StoreUpdateZone(z, row)
                /\ Uneven(uneven)
                /\ IF last THEN Reload(p)
                   ELSE loc' = [loc EXCEPT ![p].rows[z] = None] /\ UNCHANGED pc
             \/ /\ UNCHANGED zones
                /\ Uneven(uneven \cup {loc[p].page})
                /\ Reload(p)
  /\ UNCHANGED <<daemon, pages, used, shown, running>>
  /\ Untold(Reconfigured)

\* handleLayoutZone updates a zone, every column of it and maybe to another page, and
\* tells no plugin, ...
UpdateZone(p) ==
  /\ Idle(p, Editors)
  /\ Wrote(p)
  /\ \E z \in ZoneIds, g \in pages, a \in Asked :
       /\ zones[z] # None
       /\ StoreUpdateZone(z, Row(g, a))
       /\ Enter(p, "validate", [NoLocals EXCEPT !.page = g])
       /\ Uneven(uneven \cup {g, zones[z].page})
  /\ UNCHANGED <<daemon, pages, used, shown, running>>
  /\ Untold(Reconfigured)

\* ... and only then looks at the width of its page: what fails is stored, not shown.
ValidatePageWidth(p) ==
  /\ At(p, "validate")
  /\ IF Fills(zones, loc[p].page) THEN Reload(p) ELSE Return(p)
  /\ UNCHANGED <<daemon, stored, shown, running, history>>

\* Its other half looks up the page of a zone, ...
GetZonePageID(p) ==
  /\ Idle(p, Editors)
  /\ \E z \in {z \in ZoneIds : zones[z] # None} :
       Enter(p, "remove", [NoLocals EXCEPT !.zone = z, !.page = GetZonePage(z)])
  /\ UNCHANGED <<daemon, stored, shown, running, history>>

\* Mutant: the widths are not distributed again.
MutDeleteZone(p) ==
  /\ At(p, "remove")
  /\ StoreDeleteZone(loc[p].zone)
  /\ Reload(p)
  /\ Wrote(p) /\ Uneven(uneven)
  /\ UNCHANGED <<daemon, pages, used, shown, running, untold>>

\* ... deletes it, and distributes the widths of that page.
DeleteZone(p) ==
  /\ At(p, "remove")
  /\ StoreDeleteZone(loc[p].zone)
  /\ Enter(p, "rows", [NoLocals EXCEPT !.page = loc[p].page])
  /\ Wrote(p) /\ Uneven(uneven)
  /\ UNCHANGED <<daemon, pages, used, shown, running, untold>>

-----------------------------------------------------------------------------
(* triggerLayoutReload *)

Cycling == \E t \in Taps : pc[t] = "persist"

\* GetFullLayout reads the pages, ...
GetPages(p) ==
  /\ At(p, "pages")
  /\ Enter(p, "zones", [NoLocals EXCEPT !.left = pages])
  /\ behind' = (Cycling \/ (behind /\ Overlapped(p)))
  /\ crossed' = (crossed /\ Overlapped(p))
  /\ UNCHANGED <<daemon, stored, shown, running, uneven, untold>>

\* ... and then the zones of each page.
GetZonesForPage(p) ==
  /\ At(p, "zones") /\ loc[p].left # {}
  /\ \E g \in loc[p].left :
       loc' = [loc EXCEPT ![p].left = @ \ {g}, ![p].rows = [z \in ZoneIds |->
                 IF z \in OnPage(zones, g) THEN storeToZoneConfig(zones)[z] ELSE @[z]]]
  /\ UNCHANGED <<daemon, stored, shown, running, pc, history>>

\* ReloadFromConfig shows what was read unless it is not valid; with no zone at all
\* the pages on display stay.  The choices of the zones are not passed on.
Show(p) ==
  /\ At(p, "zones") /\ loc[p].left = {}
  /\ LET l == loc[p].rows
     IN /\ live' = IF Valid(l) THEN l ELSE live
        /\ choices' = (choices /\ ~Valid(l))
  /\ Return(p)
  /\ UNCHANGED <<daemon, stored, running, history>>

-----------------------------------------------------------------------------
(* CycleZonePlugin *)

\* The next choice, which may be the plugin it has, goes into the layout on display, ...
Cycle(t) ==
  /\ Idle(t, Taps) /\ choices
  /\ \E z \in {z \in Touched : live[z] # None}, next \in Plugins :
       /\ live' = [live EXCEPT ![z].plugin = next]
       /\ Enter(t, "persist", [NoLocals EXCEPT !.zone = z, !.what = next])
  /\ UNCHANGED <<daemon, stored, choices, running, history>>

\* ... then into the database, which a reload may have read already, ...
SetZonePlugin(t) ==
  /\ At(t, "persist")
  /\ LET z == loc[t].zone
     IN /\ StoreSetZonePlugin(z, loc[t].what)
        /\ behind' = (\/ behind \/ \E p \in Editors : pc[p] = "zones"
                      \/ live[z] # None /\ live[z].plugin # loc[t].what)
  /\ Goto(t, "restart") /\ loc' = [loc EXCEPT ![t].what = None]
  /\ UNCHANGED <<daemon, pages, used, shown, running, uneven, untold, crossed>>

\* ... and RestartZone drops the plugin that runs ...
DropPlugin(t) ==
  /\ At(t, "restart")
  /\ running' = [running EXCEPT ![loc[t].zone] = None]
  /\ Goto(t, "launch")
  /\ UNCHANGED <<daemon, stored, shown, loc, history>>

\* Some goroutine is in startZoneSampling and holds s.mu.
Starting == \E t \in Taps : pc[t] = "configure"

\* ... for the next one, unless it cannot be launched.  startZoneSampling reads the
\* stored configuration ...
Launch(t) ==
  /\ At(t, "launch") /\ ~Starting
  /\ \/ Return(t) /\ UNCHANGED untold
     \/ /\ loc' = [loc EXCEPT ![t].what = GetZonePluginConfig(loc[t].zone)]
        /\ Goto(t, "configure")
        /\ untold' = Knows(loc[t].zone, loc'[t].what, {})
  /\ UNCHANGED <<daemon, stored, shown, running, uneven, behind, crossed>>

\* ... and configures the plugin, which may fail.
Configure(t) ==
  /\ At(t, "configure")
  /\ Return(t)
  /\ UNCHANGED <<daemon, stored, shown, uneven, behind, crossed>>
  /\ LET z == loc[t].zone
     IN \/ running' = [running EXCEPT ![z] = loc[t].what] /\ Untold({})
        \/ running' = [running EXCEPT ![z] = Empty] /\ Untold({z})

\* handlePluginCrash launches the plugin again and does not configure it.  It does not
\* look whether RestartZone has dropped the zone since, or its row is gone; that the
\* zone was sampled at some time is not kept.
CrashStore ==
  /\ up /\ Loop \in cast /\ ~Starting
  /\ UNCHANGED <<daemon, stored, shown, pc, loc, uneven, behind, crossed>>
  /\ \E z \in ZoneIds :
       running' = [running EXCEPT ![z] = Empty] /\ Untold({z})

-----------------------------------------------------------------------------
(* The configuration requests of a zone *)

\* handleSetZoneConfig stores the configuration ...
SetZonePluginConfig(s) ==
  /\ Idle(s, Setters)
  /\ \E z \in Touched, c \in Configs :
       /\ StoreSetZonePluginConfig(z, c)
       /\ Enter(s, "tell", [NoLocals EXCEPT !.zone = z, !.what = c])
       /\ untold' = Knows(z, c, {s})
  /\ UNCHANGED <<daemon, pages, used, shown, running, uneven, behind, crossed>>

\* Mutant: it does not wait for a plugin that is being started.
MutBroadcastZoneConfigChange(s) ==
  /\ At(s, "tell")
  /\ LET z == loc[s].zone
     IN running' = IF running[z] = None THEN running ELSE [running EXCEPT ![z] = loc[s].what]
  /\ Return(s)
  /\ UNCHANGED <<daemon, stored, shown, uneven, behind, crossed>>
  /\ Untold({})

\* ... and then tells the plugin, if one runs and it takes it.
BroadcastZoneConfigChange(s) ==
  /\ At(s, "tell") /\ ~Starting
  /\ Return(s)
  /\ UNCHANGED <<daemon, stored, shown, uneven, behind, crossed>>
  /\ LET z == loc[s].zone
     IN \/ /\ running' = IF running[z] = None THEN running
                         ELSE [running EXCEPT ![z] = loc[s].what]
           /\ Untold({})
        \/ running[z] # None /\ UNCHANGED running /\ Untold({z})

\* handleDeleteZoneConfig tells nobody.
DeleteZoneOverride(s) ==
  /\ Idle(s, Setters)
  /\ \E z \in {z \in Touched : zones[z] # None} : StoreSetZonePluginConfig(z, Empty)
  /\ UNCHANGED <<daemon, pages, used, shown, running, pc, loc, uneven, behind, crossed>>
  /\ Untold(Reconfigured)

-----------------------------------------------------------------------------
\* The daemon stops at any moment and starts again, if NewManager accepts what is
\* stored.  With no page it seeds the bundled layout.
Restart ==
  /\ IF HasLayout THEN UNCHANGED stored ELSE ImportLayout(Factory)
  /\ up' = Loadable(pages', zones')
  /\ live' = IF up' THEN storeToZoneConfig(zones') ELSE live
  /\ choices' = up'
  /\ running' = [z \in ZoneIds |-> IF up' /\ zones'[z] # None THEN zones'[z].config ELSE None]
  /\ pc' = [p \in Procs |-> "idle"]
  /\ loc' = [p \in Procs |-> NoLocals]
  /\ uneven' = {g \in HasZones(zones') : ~Fills(zones', g)}
  /\ untold' = {} /\ behind' = FALSE /\ crossed' = FALSE
  /\ UNCHANGED cast

EditorStep(p) ==
  \/ CreatePage(p) \/ DeletePage(p) \/ Reorder(p)
  \/ handleCreateZone(p) \/ InsertZone(p) \/ ReadRows(p) \/ WriteRow(p)
  \/ UpdateZone(p) \/ ValidatePageWidth(p) \/ GetZonePageID(p) \/ DeleteZone(p)
  \/ GetPages(p) \/ GetZonesForPage(p) \/ Show(p)

TapStep(t) == Cycle(t) \/ SetZonePlugin(t) \/ DropPlugin(t) \/ Launch(t) \/ Configure(t)

SetterStep(s) ==
  SetZonePluginConfig(s) \/ BroadcastZoneConfigChange(s) \/ DeleteZoneOverride(s)

Next ==
  \/ \E p \in Editors : EditorStep(p)
  \/ \E t \in Taps : TapStep(t)
  \/ \E s \in Setters : SetterStep(s)
  \/ CrashStore \/ Restart

Spec == Init /\ [][Next]_vars

-----------------------------------------------------------------------------
(* Properties *)

Quiet(S) == up /\ \A p \in S : pc[p] = "idle"

\* Once a request is done, the zones of each page fill the display, whatever order
\* zones were created, deleted and moved in and whatever taps and configuration
\* requests came between the reads and the writes ("so the 640px invariant is
\* maintained without requiring manual pixel arithmetic"), but for the pages an
\* update or an overlap left uneven.
WidthsFill ==
  Quiet(Editors) => \A g \in HasZones(zones) \ uneven : Fills(zones, g)

\* When nothing is under way the device shows what is stored, if that can be shown
\* at all, even after updates that were refused when they had been written; but for
\* a tap that fell between the reads of a reload, or requests that overlapped.
DisplayShowsStore ==
  Quiet(Editors \cup Taps) /\ ~behind /\ ~crossed /\ Valid(zones) =>
    live = storeToZoneConfig(zones)

\* However the restart of a zone by a tap and a configuration request for it
\* interleave, the plugin that runs in the end was given the configuration that is
\* stored, unless nobody told it of the change.
PluginHasConfig ==
  Quiet(Procs) =>
    \A z \in ZoneIds \ untold :
      zones[z] # None => running[z] \in {None, zones[z].config}

\* A zone on display is sampled ("Restart the sampler for the current page so newly
\* added zones are picked up immediately without requiring a manual page switch").
NewZonesSampled ==
  Quiet(Procs) => \A z \in ZoneIds : live[z] # None => running[z] # None

\* The distribution of the widths changes nothing else ("Write back only the changed
\* widths").
WritesOnlyWidths ==
  [][\A p \in Editors : WriteRow(p) =>
       \A z \in ZoneIds : zones'[z] # zones[z] =>
         zones'[z] = [zones[z] EXCEPT !.width = zones'[z].width]]_vars
=============================================================================
