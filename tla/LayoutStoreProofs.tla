-------------------------- MODULE LayoutStoreProofs --------------------------
(***************************************************************************)
(* Proofs about the stored layout, for any pages, zones and widths, and any *)
(* number of layout requests, taps and configuration requests at once:     *)
(* types and foreign keys; every page that nobody left uneven fills the    *)
(* display; the device shows what is stored; and a plugin has the          *)
(* configuration that is stored, unless nobody told it.                    *)
(***************************************************************************)
EXTENDS LayoutStore, FiniteSetTheorems, FunctionTheorems, TLAPS

-----------------------------------------------------------------------------
(* Sums of widths *)

\* A finite set has a subset of every size up to its own: the leading zones exist.
LEMMA SubsetOfSize ==
  ASSUME NEW S, IsFiniteSet(S), NEW r \in Nat, r <= Cardinality(S)
  PROVE  \E L \in SUBSET S : Cardinality(L) = r
<1> DEFINE n == Cardinality(S)
<1>1. n \in Nat /\ ExistsBijection(1..n, S)
  BY FS_CardinalityType
<1>2. PICK f \in Bijection(1..n, S) : TRUE
  BY <1>1 DEF ExistsBijection
<1>3. f \in [1..n -> S] /\ 1..r \subseteq 1..n
  BY <1>1, <1>2, Fun_BijectionProperties
<1> DEFINE g == Restrict(f, 1..r)
           L == Range(g)
<1>4. g \in Bijection(1..r, L)
  BY <1>2, <1>3, Fun_BijRestrict
<1>5. Cardinality(L) = r
  BY <1>4, FS_CountingElements DEF ExistsBijection
<1>6. L \subseteq S
  BY <1>3 DEF Range, Restrict
<1> QED
  BY <1>5, <1>6

\* The pixels of n equal shares and those that remain are the display; a share keeps
\* the bounds of a width as long as n of the least width fit.
LEMMA Division ==
  ASSUME NEW n \in Nat \ {0}
  PROVE  /\ Share(n) \in Nat /\ DisplayWidthPx % n \in 0..(n - 1)
         /\ (n * Share(n)) + (DisplayWidthPx % n) = DisplayWidthPx
         /\ n * MinZoneWidthPx <= DisplayWidthPx =>
              /\ MinZoneWidthPx <= Share(n)
              /\ DisplayWidthPx % n = 0 => Share(n) <= DisplayWidthPx
              /\ DisplayWidthPx % n # 0 => Share(n) + 1 <= DisplayWidthPx
<1> DEFINE d == DisplayWidthPx
           q == d \div n
           r == d % n
           m == MinZoneWidthPx
<1>1. d \in Nat /\ m \in Nat \ {0}
  BY ConstantsAssumption
<1>2. q \in Nat /\ r \in 0..(n - 1) /\ n * q + r = d
  BY <1>1
<1> HIDE DEF q, r
<1>3. ASSUME n * m <= d PROVE m <= q
  <2> SUFFICES ASSUME q + 1 <= m PROVE FALSE
    BY <1>1, <1>2
  <2>1. n * (q + 1) <= n * m
    BY <1>1, <1>2
  <2>2. n * (q + 1) = n * q + n
    BY <1>1, <1>2
  <2> QED
    BY <2>1, <2>2, <1>1, <1>2, <1>3
<1>4. q <= n * q
  BY <1>2
<1>5. q + r <= d
  BY <1>1, <1>2, <1>4
<1> QED
  BY <1>1, <1>2, <1>3, <1>5 DEF Share, q, r

\* RedistributeWidths gives zones that fit widths the table admits, a pixel more to as
\* many of them as pixels remain.
LEMMA Redistributed ==
  ASSUME NEW S, IsFiniteSet(S), S # {},
         Cardinality(S) * MinZoneWidthPx <= DisplayWidthPx
  PROVE  /\ RedistributeWidths(S) \in [S -> Widths]
         /\ \E L \in SUBSET S : 
              /\ Cardinality(L) = DisplayWidthPx % Cardinality(S)
              /\ RedistributeWidths(S) =
                   [z \in S |-> IF z \in L THEN Share(Cardinality(S)) + 1 ELSE Share(Cardinality(S))]
<1> DEFINE n == Cardinality(S)
           rest == DisplayWidthPx % n
           L == CHOOSE M \in SUBSET S : Cardinality(M) = rest
           w == [z \in S |-> IF z \in L THEN Share(n) + 1 ELSE Share(n)]
<1>1. n \in Nat \ {0}
  BY FS_CardinalityType, FS_EmptySet
<1>2. /\ Share(n) \in Nat /\ rest \in 0..(n - 1)
      /\ MinZoneWidthPx <= Share(n)
      /\ rest = 0 => Share(n) <= DisplayWidthPx
      /\ rest # 0 => Share(n) + 1 <= DisplayWidthPx
  BY <1>1, Division
<1>3. \E M \in SUBSET S : Cardinality(M) = rest
  BY <1>1, <1>2, SubsetOfSize
<1>4. L \in SUBSET S /\ Cardinality(L) = rest
  BY <1>3
<1>5. RedistributeWidths(S) = w
  BY DEF RedistributeWidths
<1> HIDE DEF rest, n
<1>6. ASSUME NEW z \in S PROVE w[z] \in Widths
  <2>1. CASE z \in L
    <3>1. rest # 0
      BY <2>1, <1>4, FS_EmptySet, FS_Subset
    <3> QED
      BY <2>1, <3>1, <1>2, ConstantsAssumption DEF Widths
  <2>2. CASE z \notin L
    BY <2>2, <1>2, ConstantsAssumption DEF Widths
  <2> QED
    BY <2>1, <2>2
<1> QED
  BY <1>4, <1>5, <1>6 DEF rest, n

\* A page has finitely many zones.
LEMMA PageFinite ==
  ASSUME NEW t, NEW g
  PROVE  IsFiniteSet(OnPage(t, g)) /\ Cardinality(OnPage(t, g)) \in Nat
         /\ OnPage(t, g) \subseteq ZoneIds
<1>1. OnPage(t, g) \subseteq ZoneIds
  BY DEF OnPage
<1> QED
  BY <1>1, FS_Subset, FS_CardinalityType, ConstantsAssumption

\* A page whose zones all have their share fills the display: its pixels are the equal
\* shares of all zones and one pixel of each leading zone.
LEMMA SharedPageFills ==
  ASSUME NEW t, NEW g, OnPage(t, g) # {},
         Cardinality(OnPage(t, g)) * MinZoneWidthPx <= DisplayWidthPx,
         \A z \in OnPage(t, g) : t[z].width = RedistributeWidths(OnPage(t, g))[z]
  PROVE  Fills(t, g)
<1> DEFINE S == OnPage(t, g)
           n == Cardinality(S)
           q == Share(n)
<1>1. IsFiniteSet(S) /\ n \in Nat \ {0}
  BY PageFinite, FS_EmptySet
<1>2. PICK L \in SUBSET S :
        /\ Cardinality(L) = DisplayWidthPx % n
        /\ RedistributeWidths(S) = [z \in S |-> IF z \in L THEN q + 1 ELSE q]
  BY <1>1, Redistributed
<1>3. q \in Nat /\ (n * q) + (DisplayWidthPx % n) = DisplayWidthPx /\ DisplayWidthPx % n \in Nat
  BY <1>1, Division
<1>4. \A z \in S : t[z].width = IF z \in L THEN q + 1 ELSE q
  BY <1>2
<1> HIDE DEF S, n, q
<1>5. Pixels(t, g) = (S \X (1..q)) \cup (L \X {q + 1})
  <2>1. Pixels(t, g) = UNION {{z} \X (1..t[z].width) : z \in S}
    BY DEF Pixels, S
  <2>2. \A z \in S : \A i : i \in 1..t[z].width <=> i \in 1..q \/ (z \in L /\ i = q + 1)
    BY <1>3, <1>4
  <2>3. ASSUME NEW x \in Pixels(t, g) PROVE x \in (S \X (1..q)) \cup (L \X {q + 1})
    <3>1. PICK z \in S : x \in {z} \X (1..t[z].width)
      BY <2>1, <2>3
    <3>2. PICK i \in 1..t[z].width : x = <<z, i>>
      BY <3>1
    <3> QED
      BY <2>2, <3>2
  <2>4. ASSUME NEW x \in (S \X (1..q)) \cup (L \X {q + 1}) PROVE x \in Pixels(t, g)
    <3>1. PICK z \in S, i \in Int : x = <<z, i>> /\ i \in 1..t[z].width
      BY <2>2, <2>4, <1>2, <1>3
    <3>2. x \in {z} \X (1..t[z].width)
      BY <3>1
    <3> QED
      BY <2>1, <3>1, <3>2
  <2> QED
    BY <2>3, <2>4
<1>6. /\ IsFiniteSet(S \X (1..q)) /\ Cardinality(S \X (1..q)) = n * q
  <2>1. IsFiniteSet(1..q) /\ Cardinality(1..q) = q
    BY <1>3, FS_Interval
  <2> QED
    BY <2>1, <1>1, FS_Product DEF n
<1>7. /\ IsFiniteSet(L \X {q + 1}) /\ Cardinality(L \X {q + 1}) = DisplayWidthPx % n
  <2>1. IsFiniteSet({q + 1}) /\ Cardinality({q + 1}) = 1 /\ IsFiniteSet(L)
    BY <1>1, FS_Singleton, FS_Subset
  <2> QED
    BY <2>1, <1>2, <1>3, FS_Product
<1>8. (S \X (1..q)) \cap (L \X {q + 1}) = {}
  BY <1>3
<1>9. Cardinality(Pixels(t, g)) = (n * q) + (DisplayWidthPx % n) - 0
  BY <1>5, <1>6, <1>7, <1>8, FS_Union, FS_EmptySet
<1> QED
  BY <1>3, <1>9 DEF Fills, n

-----------------------------------------------------------------------------
(* Types *)

\* The locals l that goroutine p has at step s.
ShapeOf(p, s, l) ==
  /\ s = "idle" => l = NoLocals
  /\ s \in EditSteps => p \in Editors
  /\ s \in TapSteps => p \in Taps /\ l.zone \in ZoneIds
  /\ s = "tell" => p \in Setters /\ l.zone \in ZoneIds
  /\ s = "insert" => l.zone \in ZoneIds /\ l.row \in Rows
  /\ s = "remove" => l.zone \in ZoneIds
  /\ s \in {"remove", "rows", "validate", "widths"} => l.page \in PageIds
  /\ s = "widths" => l.rows \in Tables
  /\ s = "zones" => l.rows \in [ZoneIds -> Views \cup {None}]
  /\ s = "persist" => l.what \in Plugins
  /\ s \in {"configure", "tell"} => l.what \in Configs

\* Every goroutine is at a step of its own, with the locals of that step.
Positions ==
  /\ pc \in [Procs -> Steps]
  /\ loc \in [Procs -> Locals]
  /\ \A p \in Procs : ShapeOf(p, pc[p], loc[p])

\* The tables are well formed, and each zone is on a page that is there.
Stored ==
  /\ pages \subseteq used /\ used \subseteq PageIds
  /\ zones \in Tables
  /\ \A z \in ZoneIds : zones[z] # None => zones[z].page \in pages

\* What is on display and what runs.
Shown ==
  /\ live \in [ZoneIds -> Views \cup {None}]
  /\ running \in [ZoneIds -> Configs \cup {None}]
  /\ cast \in Casts /\ up \in BOOLEAN /\ choices \in BOOLEAN

\* The history variables.
Past ==
  /\ behind \in BOOLEAN /\ crossed \in BOOLEAN
  /\ untold \subseteq ZoneIds /\ uneven \subseteq PageIds

\* The inductive strengthening of the type invariant.
Typed == Positions /\ Stored /\ Shown /\ Past

\* A goroutine that is idle has locals.
LEMMA NoLocalsType == NoLocals \in Locals
BY DEF NoLocals, Locals, NoRows

\* What a request asks for makes a row.
LEMMA RowType ==
  ASSUME NEW g \in PageIds, NEW a \in Asked
  PROVE  Row(g, a) \in Rows /\ Row(g, a).page = g
BY ConstantsAssumption DEF Row, Rows, Requests

\* A goroutine that enters a step with the locals of that step keeps Positions.
LEMMA Enters ==
  ASSUME Positions, NEW p \in Procs, NEW s \in Steps, NEW l \in Locals,
         Enter(p, s, l), ShapeOf(p, s, l)
  PROVE  Positions'
<1>1. pc' = [pc EXCEPT ![p] = s] /\ loc' = [loc EXCEPT ![p] = l]
  BY DEF Enter, Goto
<1>2. pc' \in [Procs -> Steps] /\ loc' \in [Procs -> Locals]
  BY <1>1 DEF Positions
<1>3. ASSUME NEW q \in Procs PROVE ShapeOf(q, pc'[q], loc'[q])
  <2>1. CASE q = p
    <3>1. pc'[q] = s /\ loc'[q] = l
      BY <2>1, <1>1 DEF Positions
    <3> QED
      BY <3>1, <2>1
  <2>2. CASE q # p
    <3>1. pc'[q] = pc[q] /\ loc'[q] = loc[q]
      BY <2>2, <1>1 DEF Positions
    <3> QED
      BY <3>1 DEF Positions
  <2> QED
    BY <2>1, <2>2
<1> QED
  BY <1>2, <1>3 DEF Positions

\* So does one that ends, ...
LEMMA Returns == ASSUME Positions, NEW p \in Procs, Return(p) PROVE Positions'
<1>1. ShapeOf(p, "idle", NoLocals)
  BY DEF ShapeOf, EditSteps, TapSteps
<1> QED
  BY <1>1, NoLocalsType, Enters DEF Return, Steps

\* ... and a layout request that begins its reload.
LEMMA Reloads == ASSUME Positions, NEW p \in Editors, Reload(p) PROVE Positions'
<1>1. ShapeOf(p, "pages", NoLocals)
  BY DEF ShapeOf, EditSteps, TapSteps
<1> QED
  BY <1>1, NoLocalsType, Enters DEF Reload, Steps, EditSteps, Procs

\* The bundled layout: its zones are on its page, with equal widths and no configuration.
LEMMA FactoryType ==
  /\ Factory \in Tables
  /\ \A z \in ZoneIds : Factory[z] # None => Factory[z].page = Home
  /\ OnPage(Factory, Home) = First
  /\ \A z \in First : Factory[z] # None /\ Factory[z].width = RedistributeWidths(First)[z]
  /\ \A z \in ZoneIds : Factory[z] = None <=> z \notin First
  /\ \A z \in First : Factory[z].config = Empty
<1> DEFINE n == Cardinality(First)
<1>1. IsFiniteSet(First) /\ n \in 1..MaxZonesPerPage /\ First # {}
  BY FS_Subset, ConstantsAssumption
<1>2. n * MinZoneWidthPx <= DisplayWidthPx
  BY <1>1, ConstantsAssumption
<1>3. RedistributeWidths(First) \in [First -> Widths]
  BY <1>1, <1>2, Redistributed
<1>4. \A z \in First : [page |-> Home, width |-> RedistributeWidths(First)[z],
                          plugin |-> Default, config |-> Empty] \in Rows
  BY <1>3, ConstantsAssumption DEF Rows
<1>5. \A z \in First : Factory[z] \in Rows
  BY <1>4, ConstantsAssumption DEF Factory
<1>6. Factory \in Tables
  BY <1>4 DEF Factory, Tables
<1>7. \A z \in ZoneIds : Factory[z] = None <=> z \notin First
  BY <1>5, ConstantsAssumption DEF Factory
<1>8. \A z \in First : Factory[z].page = Home /\ Factory[z].config = Empty
                      /\ Factory[z].width = RedistributeWidths(First)[z]
  BY ConstantsAssumption DEF Factory
<1> QED
  BY <1>6, <1>7, <1>8, ConstantsAssumption DEF OnPage

\* storeToZoneConfig makes a view of each row.
LEMMA ViewsType ==
  ASSUME NEW t \in Tables
  PROVE  /\ storeToZoneConfig(t) \in [ZoneIds -> Views \cup {None}]
         /\ \A z \in ZoneIds : t[z] # None =>
              t[z] \in Rows /\ View(t[z]) \in Views /\ View(t[z]) # None
<1>1. \A z \in ZoneIds : t[z] # None => t[z] \in Rows
  BY DEF Tables
<1>2. \A z \in ZoneIds : t[z] # None => View(t[z]) \in Views
  BY <1>1 DEF View, Rows, Views
<1> QED
  BY <1>1, <1>2, ConstantsAssumption DEF storeToZoneConfig

\* SetZonePlugin writes one column of one row that is there.
LEMMA StorePluginType ==
  ASSUME Stored, NEW z \in ZoneIds, NEW x \in Plugins, StoreSetZonePlugin(z, x)
  PROVE  /\ zones' \in Tables
         /\ zones[z] = None => zones' = zones
         /\ zones[z] # None =>
              zones' = [zones EXCEPT ![z] = [zones[z] EXCEPT !.plugin = x]]
         /\ \A y \in ZoneIds : zones'[y] = None <=> zones[y] = None
         /\ \A y \in ZoneIds : zones[y] # None =>
              zones'[y].page = zones[y].page /\ zones'[y].width = zones[y].width
              /\ zones'[y].config = zones[y].config
<1>1. CASE zones[z] = None
  BY <1>1 DEF StoreSetZonePlugin, Stored
<1>2. CASE zones[z] # None
  <2>1. zones[z] \in Rows
    BY <1>2 DEF Stored, Tables
  <2>2. [zones[z] EXCEPT !.plugin = x] \in Rows
    BY <2>1 DEF Rows
  <2>3. zones' = [zones EXCEPT ![z] = [zones[z] EXCEPT !.plugin = x]]
    BY <1>2 DEF StoreSetZonePlugin
  <2>4. zones' \in Tables
    BY <2>2, <2>3 DEF Stored, Tables
  <2>5. \A y \in ZoneIds : zones'[y] = IF y = z THEN [zones[z] EXCEPT !.plugin = x] ELSE zones[y]
    BY <2>3 DEF Stored, Tables
  <2> QED
    BY <1>2, <2>1, <2>2, <2>3, <2>4, <2>5, ConstantsAssumption DEF Rows
<1> QED
  BY <1>1, <1>2

\* SetZonePluginConfig writes another.
LEMMA StoreConfigType ==
  ASSUME Stored, NEW z \in ZoneIds, NEW c \in Configs, StoreSetZonePluginConfig(z, c)
  PROVE  /\ zones' \in Tables
         /\ zones[z] = None => zones' = zones
         /\ zones[z] # None => zones'[z].config = c
         /\ \A y \in ZoneIds \ {z} : zones'[y] = zones[y]
         /\ \A y \in ZoneIds : zones'[y] = None <=> zones[y] = None
         /\ \A y \in ZoneIds : zones[y] # None => View(zones'[y]) = View(zones[y])
         /\ \A y \in ZoneIds : zones[y] # None => zones'[y].page = zones[y].page
         /\ \A y \in ZoneIds : zones[y] # None => zones'[y].width = zones[y].width
<1>1. CASE zones[z] = None
  BY <1>1 DEF StoreSetZonePluginConfig, Stored
<1>2. CASE zones[z] # None
  <2>1. zones[z] \in Rows
    BY <1>2 DEF Stored, Tables
  <2>2. [zones[z] EXCEPT !.config = c] \in Rows
    BY <2>1 DEF Rows
  <2>3. zones' = [zones EXCEPT ![z] = [zones[z] EXCEPT !.config = c]]
    BY <1>2 DEF StoreSetZonePluginConfig
  <2>4. zones' \in Tables
    BY <2>2, <2>3 DEF Stored, Tables
  <2>5. \A y \in ZoneIds : zones'[y] = IF y = z THEN [zones[z] EXCEPT !.config = c] ELSE zones[y]
    BY <2>3 DEF Stored, Tables
  <2> QED
    BY <1>2, <2>1, <2>2, <2>3, <2>4, <2>5, ConstantsAssumption DEF Rows, View
<1> QED
  BY <1>1, <1>2

\* The pages left uneven are pages.
LEMMA UnevenType == ASSUME NEW S, S \subseteq PageIds, Uneven(S) PROVE uneven' \subseteq PageIds
BY DEF Uneven

\* A write keeps the types of the history.
LEMMA WroteType ==
  ASSUME Past, NEW p, Wrote(p) PROVE crossed' \in BOOLEAN /\ behind' \in BOOLEAN
BY DEF Wrote, Overlapped, Past

\* Typed holds at the start, ...
LEMMA InitTyped == Init => Typed
<1> SUFFICES ASSUME Init PROVE Typed
  OBVIOUS
<1>1. Positions
  BY NoLocalsType DEF Init, Positions, ShapeOf, Steps, EditSteps, TapSteps
<1>2. Stored
  BY FactoryType, ConstantsAssumption DEF Init, Stored
<1>3. Shown
  <2>1. running \in [ZoneIds -> Configs \cup {None}]
    BY ConstantsAssumption DEF Init
  <2> QED
    BY <2>1, FactoryType, ViewsType DEF Init, Shown
<1>4. Past
  BY DEF Init, Past
<1> QED
  BY <1>1, <1>2, <1>3, <1>4 DEF Typed

\* ... every step of a layout request keeps it, ...
LEMMA EditorTyped == ASSUME Typed, NEW p \in Editors, EditorStep(p) PROVE Typed'
<1>0. /\ Positions /\ Stored /\ Shown /\ Past /\ p \in Procs
      /\ pc[p] \in Steps /\ loc[p] \in Locals /\ ShapeOf(p, pc[p], loc[p])
  BY DEF Typed, Procs, Positions
<1> USE <1>0
<1> DEFINE l == loc[p]
<1>1. CASE CreatePage(p)
  <2>1. Positions'
    BY <1>1, Reloads DEF CreatePage
  <2>2. Stored'
    BY <1>1 DEF CreatePage, StoreCreatePage, Stored
  <2>3. Shown' /\ Past'
    BY <1>1, UnevenType, WroteType DEF CreatePage, Shown, Past, daemon, shown
  <2> QED
    BY <2>1, <2>2, <2>3 DEF Typed
<1>2. CASE DeletePage(p)
  <2>1. Positions'
    BY <1>2, Reloads DEF DeletePage
  <2>2. Stored'
    <3>1. PICK g \in pages : StoreDeletePage(g)
      BY <1>2 DEF DeletePage
    <3>2. /\ pages' = pages \ {g} /\ used' = used
          /\ zones' = [z \in ZoneIds |-> IF z \in OnPage(zones, g) THEN None ELSE zones[z]]
      BY <1>2, <3>1 DEF DeletePage, StoreDeletePage
    <3>3. zones' \in Tables
      BY <3>2 DEF Stored, Tables
    <3>4. \A z \in ZoneIds : zones'[z] # None => zones'[z] = zones[z] /\ zones[z].page # g
      BY <3>2 DEF OnPage
    <3> QED
      BY <3>2, <3>3, <3>4 DEF Stored
  <2>3. Shown' /\ Past'
    BY <1>2, UnevenType, WroteType DEF DeletePage, Shown, Past, daemon, shown
  <2> QED
    BY <2>1, <2>2, <2>3 DEF Typed
<1>3. CASE Reorder(p)
  <2>1. Positions'
    BY <1>3, Reloads DEF Reorder
  <2> QED
    BY <1>3, <2>1 DEF Reorder, Typed, Stored, Shown, Past, daemon, stored, shown, history
<1>4. CASE handleCreateZone(p)
  <2>1. PICK z \in ZoneIds, g \in PageIds, a \in Asked :
          Enter(p, "insert", [NoLocals EXCEPT !.zone = z, !.row = Row(g, a)])
    BY <1>4 DEF handleCreateZone
  <2> DEFINE row == Row(g, a)
             n == [NoLocals EXCEPT !.zone = z, !.row = row]
  <2>2. row \in Rows
    BY RowType
  <2>3. n \in Locals /\ n.zone = z /\ n.row = row
    BY <2>2 DEF NoLocals, Locals, NoRows
  <2>4. ShapeOf(p, "insert", n)
    BY <2>2, <2>3 DEF ShapeOf, EditSteps, TapSteps
  <2>5. Positions'
    BY <2>1, <2>3, <2>4, Enters DEF Steps, EditSteps
  <2> QED
    BY <1>4, <2>5 DEF handleCreateZone, Typed, Stored, Shown, Past, daemon, stored, shown, history
<1>5. CASE InsertZone(p)
  <2>1. l.zone \in ZoneIds /\ l.row \in Rows /\ l.row.page \in PageIds
    BY <1>5 DEF InsertZone, At, ShapeOf, Rows
  <2>2. Positions'
    <3>1. CASE Insertable(l.zone, l.row)
      <4>1. [NoLocals EXCEPT !.page = l.row.page] \in Locals
        BY <2>1 DEF NoLocals, Locals, NoRows
      <4>2. [NoLocals EXCEPT !.page = l.row.page].page = l.row.page
        BY DEF NoLocals
      <4>3. ShapeOf(p, "rows", [NoLocals EXCEPT !.page = l.row.page])
        BY <2>1, <4>2 DEF ShapeOf, EditSteps, TapSteps
      <4> QED
        BY <1>5, <3>1, <4>1, <4>3, Enters DEF InsertZone, Steps, EditSteps
    <3>2. CASE ~Insertable(l.zone, l.row)
      BY <1>5, <3>2, Returns DEF InsertZone
    <3> QED
      BY <3>1, <3>2
  <2>3. Stored'
    BY <1>5, <2>1 DEF InsertZone, Insertable, StoreCreateZone, Stored, Tables
  <2>4. Shown' /\ Past'
    BY <1>5, UnevenType, WroteType
       DEF InsertZone, Shown, Past, daemon, shown, Untold, Reconfigured
  <2> QED
    BY <2>2, <2>3, <2>4 DEF Typed
<1>6. CASE ReadRows(p)
  <2> DEFINE S == OnPage(zones, l.page)
             w == RedistributeWidths(S)
             rows == [z \in ZoneIds |-> IF z \in S THEN [zones[z] EXCEPT !.width = w[z]] ELSE None]
             n == [l EXCEPT !.rows = rows]
  <2>1. l.page \in PageIds
    BY <1>6 DEF ReadRows, At, ShapeOf
  <2>2. CASE S = {} \/ Cardinality(S) * MinZoneWidthPx > DisplayWidthPx
    BY <1>6, <2>2, Reloads
       DEF ReadRows, Typed, Stored, Shown, Past, daemon, stored, shown, history
  <2>3. CASE ~(S = {} \/ Cardinality(S) * MinZoneWidthPx > DisplayWidthPx)
    <3>1. IsFiniteSet(S) /\ S \subseteq ZoneIds /\ Cardinality(S) \in Nat
      BY PageFinite
    <3>2. Cardinality(S) * MinZoneWidthPx <= DisplayWidthPx
      BY <2>3, <3>1, ConstantsAssumption
    <3>3. w \in [S -> Widths]
      BY <2>3, <3>1, <3>2, Redistributed
    <3>4. \A z \in S : [zones[z] EXCEPT !.width = w[z]] \in Rows
      <4>1. \A z \in S : zones[z] \in Rows
        BY DEF OnPage, Stored, Tables
      <4> HIDE DEF w, S
      <4> QED
        BY <4>1, <3>3 DEF Rows
    <3>5. rows \in Tables
      BY <3>4 DEF Tables
    <3>6. n \in Locals /\ n.rows = rows /\ n.page = l.page
      BY <3>5 DEF Locals, Tables
    <3>7. ShapeOf(p, "widths", n)
      BY <2>1, <3>5, <3>6 DEF ShapeOf, EditSteps, TapSteps
    <3>8. Enter(p, "widths", n)
      BY <1>6, <2>3 DEF ReadRows
    <3>9. Positions'
      BY <3>6, <3>7, <3>8, Enters DEF Steps, EditSteps
    <3> QED
      BY <1>6, <3>9 DEF ReadRows, Typed, Stored, Shown, Past, daemon, stored, shown, history
  <2> QED
    BY <2>2, <2>3
<1>7. CASE WriteRow(p)
  <2>1. l.rows \in Tables /\ l.page \in PageIds /\ pc[p] = "widths"
    BY <1>7 DEF WriteRow, At, ShapeOf
  <2>2. PICK z \in ZoneIds :
          /\ l.rows[z] # None
          /\ \/ /\ Updatable(z, l.rows[z])
                /\ StoreUpdateZone(z, l.rows[z])
                /\ Uneven(uneven)
                /\ Reload(p) \/ (loc' = [loc EXCEPT ![p].rows[z] = None] /\ UNCHANGED pc)
             \/ UNCHANGED zones /\ Uneven(uneven \cup {l.page}) /\ Reload(p)
    BY <1>7 DEF WriteRow
  <2>3. l.rows[z] \in Rows
    BY <2>1, <2>2 DEF Tables
  <2>4. Positions'
    <3>1. CASE Reload(p)
      BY <3>1, Reloads
    <3>2. CASE loc' = [loc EXCEPT ![p].rows[z] = None] /\ UNCHANGED pc
      <4> DEFINE n == [l EXCEPT !.rows = [l.rows EXCEPT ![z] = None]]
      <4>1. n.rows \in Tables /\ n.page = l.page /\ n \in Locals
        BY <2>1 DEF Locals, Tables
      <4>2. ShapeOf(p, "widths", n)
        BY <4>1, <2>1 DEF ShapeOf, EditSteps, TapSteps
      <4>3. Enter(p, "widths", n)
        <5>1. loc' = [loc EXCEPT ![p] = n]
          BY <3>2
        <5>2. pc' = [pc EXCEPT ![p] = "widths"]
          BY <3>2, <2>1 DEF Positions
        <5> QED
          BY <5>1, <5>2 DEF Enter, Goto
      <4> QED
        BY <4>1, <4>2, <4>3, Enters DEF Steps, EditSteps
    <3> QED
      BY <2>2, <3>1, <3>2
  <2>5. Stored'
    <3>1. pages' = pages /\ used' = used
      BY <1>7 DEF WriteRow
    <3> QED
      BY <2>2, <2>3, <3>1 DEF Updatable, StoreUpdateZone, Stored, Tables
  <2>6. uneven' \subseteq PageIds
    BY <2>1, <2>2, UnevenType DEF Past
  <2>7. Shown' /\ Past'
    BY <1>7, <2>6, WroteType DEF WriteRow, Shown, Past, daemon, shown, Untold, Reconfigured
  <2> QED
    BY <2>4, <2>5, <2>7 DEF Typed
<1>8. CASE UpdateZone(p)
  <2>1. PICK z \in ZoneIds, g \in pages, a \in Asked :
          /\ zones[z] # None
          /\ StoreUpdateZone(z, Row(g, a))
          /\ Enter(p, "validate", [NoLocals EXCEPT !.page = g])
          /\ Uneven(uneven \cup {g, zones[z].page})
    BY <1>8 DEF UpdateZone
  <2>2. zones[z] \in Rows /\ g \in PageIds
    BY <2>1 DEF Stored, Tables
  <2>3. Row(g, a) \in Rows /\ Row(g, a).page = g /\ zones[z].page \in PageIds
    BY <2>2, RowType DEF Rows
  <2>4. [NoLocals EXCEPT !.page = g] \in Locals /\ [NoLocals EXCEPT !.page = g].page = g
    BY <2>2 DEF NoLocals, Locals, NoRows
  <2>5. ShapeOf(p, "validate", [NoLocals EXCEPT !.page = g])
    BY <2>2, <2>4 DEF ShapeOf, EditSteps, TapSteps
  <2>6. Positions'
    BY <2>1, <2>4, <2>5, Enters DEF Steps, EditSteps
  <2>7. Stored'
    <3>1. pages' = pages /\ used' = used
      BY <1>8 DEF UpdateZone
    <3> QED
      BY <2>1, <2>3, <3>1 DEF StoreUpdateZone, Stored, Tables
  <2>8. uneven' \subseteq PageIds
    BY <2>1, <2>2, <2>3, UnevenType DEF Past
  <2>9. Shown' /\ Past'
    BY <1>8, <2>8, WroteType DEF UpdateZone, Shown, Past, daemon, shown, Untold, Reconfigured
  <2> QED
    BY <2>6, <2>7, <2>9 DEF Typed
<1>9. CASE ValidatePageWidth(p)
  <2>1. Positions'
    BY <1>9, Reloads, Returns DEF ValidatePageWidth
  <2> QED
    BY <1>9, <2>1 DEF ValidatePageWidth, Typed, Stored, Shown, Past, daemon, stored, shown, history
<1>10. CASE GetZonePageID(p)
  <2>1. PICK z \in ZoneIds : /\ zones[z] # None
                             /\ Enter(p, "remove", [NoLocals EXCEPT !.zone = z, !.page = GetZonePage(z)])
    BY <1>10 DEF GetZonePageID
  <2> DEFINE n == [NoLocals EXCEPT !.zone = z, !.page = GetZonePage(z)]
  <2>2. GetZonePage(z) \in PageIds
    BY <2>1 DEF GetZonePage, Stored, Tables, Rows
  <2>3. n \in Locals /\ n.zone = z /\ n.page = GetZonePage(z)
    BY <2>2 DEF NoLocals, Locals, NoRows
  <2>4. ShapeOf(p, "remove", n)
    BY <2>2, <2>3 DEF ShapeOf, EditSteps, TapSteps
  <2>5. Positions'
    BY <2>1, <2>3, <2>4, Enters DEF Steps, EditSteps
  <2> QED
    BY <1>10, <2>5 DEF GetZonePageID, Typed, Stored, Shown, Past, daemon, stored, shown, history
<1>11. CASE DeleteZone(p)
  <2>1. l.page \in PageIds /\ l.zone \in ZoneIds
    BY <1>11 DEF DeleteZone, At, ShapeOf
  <2>2. [NoLocals EXCEPT !.page = l.page] \in Locals /\ [NoLocals EXCEPT !.page = l.page].page = l.page
    BY <2>1 DEF NoLocals, Locals, NoRows
  <2>3. ShapeOf(p, "rows", [NoLocals EXCEPT !.page = l.page])
    BY <2>1, <2>2 DEF ShapeOf, EditSteps, TapSteps
  <2>4. Positions'
    BY <1>11, <2>2, <2>3, Enters DEF DeleteZone, Steps, EditSteps
  <2>5. Stored'
    BY <1>11, <2>1 DEF DeleteZone, StoreDeleteZone, Stored, Tables
  <2>6. Shown' /\ Past'
    BY <1>11, UnevenType, WroteType DEF DeleteZone, Shown, Past, daemon, shown
  <2> QED
    BY <2>4, <2>5, <2>6 DEF Typed
<1>12. CASE GetPages(p)
  <2>1. [NoLocals EXCEPT !.left = pages] \in Locals /\ [NoLocals EXCEPT !.left = pages].rows = NoRows
    BY DEF NoLocals, Locals, NoRows, Stored
  <2>2. ShapeOf(p, "zones", [NoLocals EXCEPT !.left = pages])
    BY <2>1 DEF ShapeOf, EditSteps, TapSteps, NoRows
  <2>3. Positions'
    BY <1>12, <2>1, <2>2, Enters DEF GetPages, Steps, EditSteps
  <2> QED
    BY <1>12, <2>3
       DEF GetPages, Typed, Stored, Shown, Past, daemon, stored, shown, Cycling, Overlapped
<1>13. CASE GetZonesForPage(p)
  <2>1. PICK g \in l.left :
          loc' = [loc EXCEPT ![p].left = @ \ {g}, ![p].rows = [z \in ZoneIds |->
                    IF z \in OnPage(zones, g) THEN storeToZoneConfig(zones)[z] ELSE @[z]]]
    BY <1>13 DEF GetZonesForPage
  <2>2. l.rows \in [ZoneIds -> Views \cup {None}] /\ pc[p] = "zones"
    BY <1>13 DEF GetZonesForPage, At, ShapeOf
  <2> DEFINE rows == [z \in ZoneIds |-> IF z \in OnPage(zones, g) THEN storeToZoneConfig(zones)[z]
                                        ELSE l.rows[z]]
             n == [l EXCEPT !.left = l.left \ {g}, !.rows = rows]
  <2>3. rows \in [ZoneIds -> Views \cup {None}]
    BY <2>2, ViewsType DEF Stored
  <2>4. n \in Locals /\ n.rows = rows
    BY <2>3 DEF Locals
  <2>5. ShapeOf(p, "zones", n)
    BY <2>3, <2>4 DEF ShapeOf, EditSteps, TapSteps
  <2>6. Enter(p, "zones", n)
    <3>1. loc' = [loc EXCEPT ![p] = n]
      BY <2>1 DEF Positions, Locals
    <3>2. pc' = [pc EXCEPT ![p] = "zones"]
      BY <1>13, <2>2 DEF GetZonesForPage, Positions
    <3> QED
      BY <3>1, <3>2 DEF Enter, Goto
  <2>7. Positions'
    BY <2>4, <2>5, <2>6, Enters DEF Steps, EditSteps
  <2> QED
    BY <1>13, <2>7
       DEF GetZonesForPage, Typed, Stored, Shown, Past, daemon, stored, shown, history
<1>14. CASE Show(p)
  <2>1. Positions'
    BY <1>14, Returns DEF Show
  <2>2. l.rows \in [ZoneIds -> Views \cup {None}]
    BY <1>14 DEF Show, At, ShapeOf
  <2>3. Shown'
    BY <1>14, <2>2 DEF Show, Shown, daemon
  <2> QED
    BY <1>14, <2>1, <2>3 DEF Show, Typed, Stored, Past, stored, history
<1> QED
  BY <1>1, <1>2, <1>3, <1>4, <1>5, <1>6, <1>7, <1>8, <1>9, <1>10, <1>11, <1>12, <1>13, <1>14
     DEF EditorStep

\* ... every step of a tap, ...
LEMMA TapTyped == ASSUME Typed, NEW t \in Taps, TapStep(t) PROVE Typed'
<1>0. /\ Positions /\ Stored /\ Shown /\ Past /\ t \in Procs
      /\ pc[t] \in Steps /\ loc[t] \in Locals /\ ShapeOf(t, pc[t], loc[t])
  BY DEF Typed, Procs, Positions
<1> USE <1>0
<1> DEFINE l == loc[t]
<1>1. CASE Cycle(t)
  <2>1. PICK z \in ZoneIds, next \in Plugins :
          /\ live[z] # None
          /\ live' = [live EXCEPT ![z].plugin = next]
          /\ Enter(t, "persist", [NoLocals EXCEPT !.zone = z, !.what = next])
    BY <1>1, ConstantsAssumption DEF Cycle
  <2> DEFINE n == [NoLocals EXCEPT !.zone = z, !.what = next]
  <2>2. n \in Locals /\ n.zone = z /\ n.what = next
    BY DEF NoLocals, Locals, NoRows
  <2>3. ShapeOf(t, "persist", n)
    BY <2>2 DEF ShapeOf, EditSteps, TapSteps
  <2>4. Positions'
    BY <2>1, <2>2, <2>3, Enters DEF Steps, TapSteps
  <2>5. live' \in [ZoneIds -> Views \cup {None}]
    <3>1. live[z] \in Views
      BY <2>1 DEF Shown
    <3>2. [live[z] EXCEPT !.plugin = next] \in Views
      BY <3>1 DEF Views
    <3> QED
      BY <2>1, <3>2 DEF Shown
  <2> QED
    BY <1>1, <2>4, <2>5 DEF Cycle, Typed, Stored, Shown, Past, daemon, stored, history
<1>2. CASE SetZonePlugin(t)
  <2>1. l.zone \in ZoneIds /\ l.what \in Plugins
    BY <1>2 DEF SetZonePlugin, At, ShapeOf, TapSteps
  <2> DEFINE n == [l EXCEPT !.what = None]
  <2>2. n \in Locals /\ n.zone = l.zone
    BY DEF Locals
  <2>3. ShapeOf(t, "restart", n)
    BY <2>1, <2>2 DEF ShapeOf, EditSteps, TapSteps
  <2>4. Positions'
    BY <1>2, <2>2, <2>3, Enters DEF SetZonePlugin, Enter, Steps, TapSteps
  <2>5. StoreSetZonePlugin(l.zone, l.what) /\ pages' = pages /\ used' = used
    BY <1>2 DEF SetZonePlugin
  <2>6. Stored'
    BY <2>1, <2>5, StorePluginType DEF Stored
  <2>7. behind' \in BOOLEAN
    BY <1>2 DEF SetZonePlugin, Past
  <2> QED
    BY <1>2, <2>4, <2>6, <2>7 DEF SetZonePlugin, Typed, Shown, Past, daemon, shown
<1>3. CASE DropPlugin(t)
  <2>1. l.zone \in ZoneIds
    BY <1>3 DEF DropPlugin, At, ShapeOf, TapSteps
  <2>2. ShapeOf(t, "launch", l)
    BY <2>1 DEF ShapeOf, EditSteps, TapSteps
  <2>3. Enter(t, "launch", l)
    BY <1>3 DEF DropPlugin, Enter, Positions
  <2>4. Positions'
    BY <2>2, <2>3, Enters DEF Steps, TapSteps
  <2> QED
    BY <1>3, <2>1, <2>4 DEF DropPlugin, Typed, Stored, Shown, Past, daemon, stored, shown, history
<1>4. CASE Launch(t)
  <2>1. l.zone \in ZoneIds
    BY <1>4 DEF Launch, At, ShapeOf, TapSteps
  <2>2. CASE Return(t) /\ UNCHANGED untold
    <3>1. Positions'
      BY <2>2, Returns
    <3> QED
      BY <1>4, <2>2, <3>1 DEF Launch, Typed, Stored, Shown, Past, daemon, stored, shown
  <2>3. CASE /\ loc' = [loc EXCEPT ![t].what = GetZonePluginConfig(loc[t].zone)]
             /\ Goto(t, "configure")
             /\ untold' = Knows(loc[t].zone, loc'[t].what, {})
    <3> DEFINE c == GetZonePluginConfig(l.zone)
               n == [l EXCEPT !.what = c]
    <3>1. c \in Configs
      BY <2>1, ConstantsAssumption DEF GetZonePluginConfig, Stored, Tables, Rows
    <3>2. n \in Locals /\ n.zone = l.zone /\ n.what = c
      BY <3>1 DEF Locals
    <3>3. ShapeOf(t, "configure", n)
      BY <2>1, <3>1, <3>2 DEF ShapeOf, EditSteps, TapSteps
    <3>4. Enter(t, "configure", n)
      BY <2>3 DEF Enter
    <3>5. Positions'
      BY <3>2, <3>3, <3>4, Enters DEF Steps, TapSteps
    <3>6. untold' \subseteq ZoneIds
      BY <2>1, <2>3 DEF Knows, Past
    <3> QED
      BY <1>4, <3>5, <3>6 DEF Launch, Typed, Stored, Shown, Past, daemon, stored, shown
  <2> QED
    BY <1>4, <2>2, <2>3 DEF Launch
<1>5. CASE Configure(t)
  <2>1. l.zone \in ZoneIds /\ l.what \in Configs
    BY <1>5 DEF Configure, At, ShapeOf, TapSteps
  <2>2. Positions'
    BY <1>5, Returns DEF Configure
  <2>3. /\ running' \in [ZoneIds -> Configs \cup {None}]
        /\ untold' \subseteq ZoneIds
    BY <1>5, <2>1, ConstantsAssumption DEF Configure, Shown, Past, Untold
  <2> QED
    BY <1>5, <2>2, <2>3 DEF Configure, Typed, Stored, Shown, Past, daemon, stored, shown
<1> QED
  BY <1>1, <1>2, <1>3, <1>4, <1>5 DEF TapStep

\* ... every step of a configuration request, ...
LEMMA SetterTyped == ASSUME Typed, NEW s \in Setters, SetterStep(s) PROVE Typed'
<1>0. /\ Positions /\ Stored /\ Shown /\ Past /\ s \in Procs
      /\ pc[s] \in Steps /\ loc[s] \in Locals /\ ShapeOf(s, pc[s], loc[s])
  BY DEF Typed, Procs, Positions
<1> USE <1>0
<1> DEFINE l == loc[s]
<1>1. CASE SetZonePluginConfig(s)
  <2>1. PICK z \in ZoneIds, c \in Configs :
          /\ StoreSetZonePluginConfig(z, c)
          /\ Enter(s, "tell", [NoLocals EXCEPT !.zone = z, !.what = c])
          /\ untold' = Knows(z, c, {s})
    BY <1>1, ConstantsAssumption DEF SetZonePluginConfig
  <2> DEFINE n == [NoLocals EXCEPT !.zone = z, !.what = c]
  <2>2. n \in Locals /\ n.zone = z /\ n.what = c
    BY DEF NoLocals, Locals, NoRows
  <2>3. ShapeOf(s, "tell", n)
    BY <2>2 DEF ShapeOf, EditSteps, TapSteps
  <2>4. Positions'
    BY <2>1, <2>2, <2>3, Enters DEF Steps
  <2>5. Stored'
    <3>1. pages' = pages /\ used' = used
      BY <1>1 DEF SetZonePluginConfig
    <3> QED
      BY <2>1, <3>1, StoreConfigType DEF Stored
  <2>6. untold' \subseteq ZoneIds
    BY <2>1 DEF Knows, Past
  <2> QED
    BY <1>1, <2>4, <2>5, <2>6 DEF SetZonePluginConfig, Typed, Shown, Past, daemon, shown
<1>2. CASE BroadcastZoneConfigChange(s)
  <2>1. l.zone \in ZoneIds /\ l.what \in Configs
    BY <1>2 DEF BroadcastZoneConfigChange, At, ShapeOf
  <2>2. Positions'
    BY <1>2, Returns DEF BroadcastZoneConfigChange
  <2>3. /\ running' \in [ZoneIds -> Configs \cup {None}]
        /\ untold' \subseteq ZoneIds
    BY <1>2, <2>1 DEF BroadcastZoneConfigChange, Shown, Past, Untold
  <2> QED
    BY <1>2, <2>2, <2>3
       DEF BroadcastZoneConfigChange, Typed, Stored, Shown, Past, daemon, stored, shown
<1>3. CASE DeleteZoneOverride(s)
  <2>1. PICK z \in ZoneIds : StoreSetZonePluginConfig(z, Empty)
    BY <1>3, ConstantsAssumption DEF DeleteZoneOverride
  <2>2. Positions'
    BY <1>3 DEF DeleteZoneOverride, Positions
  <2>3. Stored'
    <3>1. pages' = pages /\ used' = used
      BY <1>3 DEF DeleteZoneOverride
    <3> QED
      BY <2>1, <3>1, StoreConfigType, ConstantsAssumption DEF Stored
  <2> QED
    BY <1>3, <2>2, <2>3
       DEF DeleteZoneOverride, Typed, Shown, Past, daemon, shown, Untold, Reconfigured
<1> QED
  BY <1>1, <1>2, <1>3 DEF SetterStep

\* ... the crash of a plugin, ...
LEMMA CrashTyped == ASSUME Typed, CrashStore PROVE Typed'
<1>1. running' \in [ZoneIds -> Configs \cup {None}]
  BY ConstantsAssumption DEF CrashStore, Typed, Shown
<1>2. untold' \subseteq ZoneIds
  BY DEF CrashStore, Typed, Past, Untold
<1> QED
  BY <1>1, <1>2 DEF CrashStore, Typed, Positions, Stored, Shown, Past, daemon, stored, shown

\* ... and a restart of the daemon.
LEMMA RestartTyped == ASSUME Typed, Restart PROVE Typed'
<1>1. Positions'
  <2>1. pc' = [p \in Procs |-> "idle"] /\ loc' = [p \in Procs |-> NoLocals]
    BY DEF Restart
  <2> QED
    BY <2>1, NoLocalsType DEF Positions, ShapeOf, Steps, EditSteps, TapSteps
<1>2. Stored'
  <2>1. CASE HasLayout
    BY <2>1 DEF Restart, Typed, Stored, stored
  <2>2. CASE ~HasLayout
    BY <2>2, FactoryType, ConstantsAssumption DEF Restart, ImportLayout, Typed, Stored
  <2> QED
    BY <2>1, <2>2
<1>3. \A z \in ZoneIds : zones'[z] # None => zones'[z].config \in Configs
  BY <1>2 DEF Stored, Tables, Rows
<1>4. running' \in [ZoneIds -> Configs \cup {None}]
  BY <1>3 DEF Restart
<1>5. storeToZoneConfig(zones)' \in [ZoneIds -> Views \cup {None}]
  BY <1>2, ViewsType DEF Stored
<1>6. up' \in BOOLEAN
  BY DEF Restart, Loadable, Valid, PageValid
<1>7. Shown'
  BY <1>4, <1>5, <1>6 DEF Restart, Typed, Shown
<1>8. Past'
  BY DEF Restart, Past, HasZones
<1> QED
  BY <1>1, <1>2, <1>7, <1>8 DEF Typed

\* So every step does.
LEMMA NextTyped == Typed /\ [Next]_vars => Typed'
<1> SUFFICES ASSUME Typed, [Next]_vars PROVE Typed'
  OBVIOUS
<1>1. CASE UNCHANGED vars
  BY <1>1 DEF vars, Typed, Positions, Stored, Shown, Past
<1> QED
  BY <1>1, EditorTyped, TapTyped, SetterTyped, CrashTyped, RestartTyped DEF Next

\* Every variable keeps its type, whatever requests, taps, crashes and restarts come.
THEOREM TypeCorrect == Spec => []TypeOK
<1>1. Typed => TypeOK
  BY DEF Typed, TypeOK, Positions, Stored, Shown, Past
<1> QED
  BY <1>1, InitTyped, NextTyped, PTL DEF Spec

-----------------------------------------------------------------------------
(* What a plugin was configured with *)

\* A goroutine that enters a step moves no other goroutine.
LEMMA EnterAlone ==
  ASSUME Positions, NEW p \in Procs, NEW s, NEW l, Enter(p, s, l)
  PROVE  /\ pc'[p] = s /\ loc'[p] = l
         /\ \A q \in Procs \ {p} : pc'[q] = pc[q] /\ loc'[q] = loc[q]
BY DEF Enter, Goto, Positions

\* A step of a layout request moves no other goroutine and no plugin.
LEMMA EditorAlone ==
  ASSUME Typed, NEW p \in Editors, EditorStep(p)
  PROVE  /\ \A q \in Procs \ {p} : pc'[q] = pc[q] /\ loc'[q] = loc[q]
         /\ running' = running /\ cast' = cast /\ up' = up
<1>0. Positions /\ p \in Procs
  BY DEF Typed, Procs
<1> USE <1>0, EnterAlone
<1>1. CASE CreatePage(p)
  BY <1>1 DEF CreatePage, Reload, daemon
<1>2. CASE DeletePage(p)
  BY <1>2 DEF DeletePage, Reload, daemon
<1>3. CASE Reorder(p)
  BY <1>3 DEF Reorder, Reload, daemon
<1>4. CASE handleCreateZone(p)
  BY <1>4 DEF handleCreateZone, daemon
<1>5. CASE InsertZone(p)
  BY <1>5 DEF InsertZone, Return, daemon
<1>6. CASE ReadRows(p)
  BY <1>6 DEF ReadRows, Reload, daemon
<1>7. CASE WriteRow(p)
  <2>1. Reload(p) \/ \E z \in ZoneIds : loc' = [loc EXCEPT ![p].rows[z] = None] /\ UNCHANGED pc
    BY <1>7 DEF WriteRow
  <2>2. \A q \in Procs \ {p} : pc'[q] = pc[q] /\ loc'[q] = loc[q]
    BY <2>1 DEF Reload, Positions
  <2> QED
    BY <1>7, <2>2 DEF WriteRow, daemon
<1>8. CASE UpdateZone(p)
  BY <1>8 DEF UpdateZone, daemon
<1>9. CASE ValidatePageWidth(p)
  BY <1>9 DEF ValidatePageWidth, Reload, Return, daemon
<1>10. CASE GetZonePageID(p)
  BY <1>10 DEF GetZonePageID, daemon
<1>11. CASE DeleteZone(p)
  BY <1>11 DEF DeleteZone, daemon
<1>12. CASE GetPages(p)
  BY <1>12 DEF GetPages, daemon
<1>13. CASE GetZonesForPage(p)
  <2>1. \A q \in Procs \ {p} : loc'[q] = loc[q]
    BY <1>13 DEF GetZonesForPage, Positions
  <2> QED
    BY <1>13, <2>1 DEF GetZonesForPage, daemon
<1>14. CASE Show(p)
  BY <1>14 DEF Show, Return, daemon
<1> QED
  BY <1>1, <1>2, <1>3, <1>4, <1>5, <1>6, <1>7, <1>8, <1>9, <1>10, <1>11, <1>12, <1>13, <1>14
     DEF EditorStep

\* A configuration request for the zone has yet to tell the plugin.
Pending(z) == \E s \in Setters : loc[s].zone = z
\* A tap is starting the plugin of the zone.
Configuring(z) == \E t \in Taps : pc[t] = "configure" /\ loc[t].zone = z

\* If nobody missed a change of the configuration of a zone, every request that has
\* yet to tell it has what is stored; the plugin has that too unless somebody is
\* still going to configure it; and what a tap gives it is that, or will be replaced.
Told(z) ==
  zones[z] # None =>
    /\ \A s \in Setters : loc[s].zone = z => loc[s].what = zones[z].config
    /\ running[z] \in {None, zones[z].config} \/ Pending(z) \/ Configuring(z)
    /\ \A t \in Taps : pc[t] = "configure" /\ loc[t].zone = z =>
         loc[t].what = zones[z].config \/ Pending(z)

\* The invariant behind PluginHasConfig.
ToldInv == \A z \in ZoneIds \ untold : Told(z)

\* A step that leaves the row, the plugin and the requests of a zone keeps Told.
LEMMA ToldKept ==
  ASSUME NEW z \in ZoneIds, Told(z),
         zones'[z] # None => zones[z] # None /\ zones'[z].config = zones[z].config,
         running'[z] \in {None, running[z]},
         \A s \in Setters : loc'[s] = loc[s],
         \A t \in Taps : /\ pc[t] = "configure" => pc'[t] = pc[t] /\ loc'[t] = loc[t]
                         /\ pc'[t] = "configure" => pc[t] = pc'[t]
  PROVE  Told(z)'
BY DEF Told, Pending, Configuring

\* A zone that is no longer untold has its configuration, and nobody is about to change
\* it.
LEMMA LeftUntold ==
  ASSUME Positions', NEW S, S \subseteq ZoneIds, Untold(S),
         NEW z \in untold \cup S, z \in ZoneIds, z \notin untold'
  PROVE  Told(z)'
<1> SUFFICES ASSUME zones'[z] # None PROVE Told(z)'
  BY DEF Told
<1>1. /\ running'[z] \in {None, zones'[z].config}
      /\ \A q \in Procs : ~(loc'[q].zone = z /\ loc'[q].what \in Configs)
  BY DEF Untold
<1>2. ASSUME NEW s \in Setters PROVE loc'[s].zone # z
  <2>1. pc'[s] \in Steps /\ ShapeOf(s, pc'[s], loc'[s]) /\ s \in Procs
    BY DEF Positions, Procs
  <2>2. pc'[s] \in {"idle", "tell"}
    BY <2>1, ConstantsAssumption DEF ShapeOf, Steps
  <2>3. CASE pc'[s] = "idle"
    BY <2>1, <2>3, ConstantsAssumption DEF ShapeOf, NoLocals
  <2>4. CASE pc'[s] = "tell"
    BY <2>1, <2>4, <1>1 DEF ShapeOf
  <2> QED
    BY <2>2, <2>3, <2>4
<1>3. ASSUME NEW t \in Taps PROVE ~(pc'[t] = "configure" /\ loc'[t].zone = z)
  BY <1>1 DEF Positions, Procs, ShapeOf
<1> QED
  BY <1>1, <1>2, <1>3 DEF Told, Pending, Configuring

\* Layout requests keep ToldInv: a row they write with another configuration, or create
\* anew, makes the zone untold.
LEMMA EditorTold == ASSUME Typed, ToldInv, NEW p \in Editors, EditorStep(p) PROVE ToldInv'
<1> SUFFICES ASSUME NEW z \in ZoneIds, z \notin untold' PROVE Told(z)'
  BY DEF ToldInv
<1>0. Positions' /\ Stored
  BY EditorTyped DEF Typed
<1>1. /\ running' = running
      /\ \A q \in Taps \cup Setters : pc'[q] = pc[q] /\ loc'[q] = loc[q]
  BY EditorAlone, ConstantsAssumption DEF Procs
<1>2. ASSUME z \notin untold, zones'[z] # None => zones[z] # None /\ zones'[z].config = zones[z].config
      PROVE  Told(z)'
  BY <1>1, <1>2, ToldKept DEF ToldInv
<1>3. CASE untold' = untold /\ zones' = zones
  BY <1>3, <1>2
<1>4. CASE Untold(Reconfigured)
  <2>1. CASE z \in untold \cup Reconfigured
    BY <2>1, <1>0, <1>4, LeftUntold DEF Reconfigured
  <2>2. CASE z \notin untold \cup Reconfigured
    BY <2>2, <1>2 DEF Reconfigured
  <2> QED
    BY <2>1, <2>2
<1>5. CASE DeletePage(p)
  <2>1. PICK g \in pages : zones' = [y \in ZoneIds |-> IF y \in OnPage(zones, g) THEN None ELSE zones[y]]
    BY <1>5 DEF DeletePage, StoreDeletePage
  <2> QED
    BY <1>5, <2>1, <1>2 DEF DeletePage
<1>6. CASE DeleteZone(p)
  <2>1. zones'[z] \in {None, zones[z]}
    BY <1>6, <1>0 DEF DeleteZone, StoreDeleteZone, Stored, Tables
  <2> QED
    BY <1>6, <2>1, <1>2 DEF DeleteZone
<1>7. \/ untold' = untold /\ zones' = zones
      \/ Untold(Reconfigured)
      \/ DeletePage(p) \/ DeleteZone(p)
  BY DEF EditorStep, CreatePage, Reorder, handleCreateZone, InsertZone, ReadRows, WriteRow,
         UpdateZone, ValidatePageWidth, GetZonePageID, GetPages, GetZonesForPage, Show, stored, history
<1> QED
  BY <1>3, <1>4, <1>5, <1>6, <1>7

\* Taps keep it: one reads the stored configuration while it holds s.mu, so that a
\* request that stores another one tells the plugin later.
LEMMA TapTold == ASSUME Typed, ToldInv, NEW t \in Taps, TapStep(t) PROVE ToldInv'
<1> SUFFICES ASSUME NEW z \in ZoneIds, z \notin untold' PROVE Told(z)'
  BY DEF ToldInv
<1>0. /\ Positions' /\ Positions /\ Stored /\ Shown /\ t \in Procs
      /\ loc[t] \in Locals /\ ShapeOf(t, pc[t], loc[t])
  BY TapTyped DEF Typed, Positions, Procs
<1>1. \A s \in Setters : s \in Procs \ {t}
  BY ConstantsAssumption DEF Procs
<1> DEFINE l == loc[t]
<1>2. CASE Cycle(t)
  <2>1. PICK n : Enter(t, "persist", n)
    BY <1>2 DEF Cycle
  <2>2. /\ pc[t] = "idle" /\ pc'[t] = "persist"
        /\ \A q \in Procs \ {t} : pc'[q] = pc[q] /\ loc'[q] = loc[q]
    BY <1>0, <1>2, <2>1, EnterAlone DEF Cycle, Idle
  <2>3. zones' = zones /\ running' = running /\ untold' = untold
    BY <1>2 DEF Cycle, stored, history
  <2> QED
    BY <1>1, <2>2, <2>3, ToldKept DEF ToldInv, Procs
<1>3. CASE SetZonePlugin(t)
  <2>1. Enter(t, "restart", [l EXCEPT !.what = None])
    BY <1>3 DEF SetZonePlugin, Enter
  <2>2. /\ pc[t] = "persist" /\ pc'[t] = "restart"
        /\ \A q \in Procs \ {t} : pc'[q] = pc[q] /\ loc'[q] = loc[q]
    BY <1>0, <1>3, <2>1, EnterAlone DEF SetZonePlugin, At
  <2>3. /\ running' = running /\ untold' = untold
        /\ StoreSetZonePlugin(l.zone, l.what) /\ l.zone \in ZoneIds /\ l.what \in Plugins
    BY <1>0, <1>3 DEF SetZonePlugin, At, ShapeOf, TapSteps
  <2>4. zones'[z] # None => zones[z] # None /\ zones'[z].config = zones[z].config
    BY <1>0, <2>3, StorePluginType
  <2> QED
    BY <1>1, <2>2, <2>3, <2>4, ToldKept DEF ToldInv, Procs
<1>4. CASE DropPlugin(t)
  <2>1. pc[t] = "restart" /\ pc'[t] = "launch" /\ loc' = loc
        /\ \A q \in Procs \ {t} : pc'[q] = pc[q]
    BY <1>0, <1>4 DEF DropPlugin, At, Goto, Positions
  <2>2. /\ running'[z] \in {None, running[z]}
        /\ zones' = zones /\ untold' = untold
    BY <1>0, <1>4 DEF DropPlugin, stored, history, Shown
  <2> QED
    BY <1>1, <2>1, <2>2, ToldKept DEF ToldInv, Procs
<1>5. CASE Launch(t)
  <2>1. zones' = zones /\ running' = running /\ pc[t] = "launch" /\ ~Starting
    BY <1>5 DEF Launch, stored, At
  <2>2. CASE Return(t) /\ UNCHANGED untold
    <3>1. /\ pc'[t] = "idle"
          /\ \A q \in Procs \ {t} : pc'[q] = pc[q] /\ loc'[q] = loc[q]
      BY <1>0, <2>2, EnterAlone DEF Return
    <3> QED
      BY <1>1, <2>1, <2>2, <3>1, ToldKept DEF ToldInv, Procs
  <2>3. CASE /\ loc' = [loc EXCEPT ![t].what = GetZonePluginConfig(loc[t].zone)]
             /\ Goto(t, "configure")
             /\ untold' = Knows(loc[t].zone, loc'[t].what, {})
    <3> DEFINE c == GetZonePluginConfig(l.zone)
    <3>1. Enter(t, "configure", [l EXCEPT !.what = c])
      BY <2>3 DEF Enter
    <3>2. [l EXCEPT !.what = c].what = c /\ [l EXCEPT !.what = c].zone = l.zone
      BY <1>0 DEF Locals
    <3>3. /\ pc'[t] = "configure" /\ loc'[t].what = c /\ loc'[t].zone = l.zone
          /\ \A q \in Procs \ {t} : pc'[q] = pc[q] /\ loc'[q] = loc[q]
      BY <1>0, <3>1, <3>2, EnterAlone
    <3>4. \A u \in Taps \ {t} : pc'[u] # "configure"
      BY <2>1, <3>3 DEF Starting, Procs
    <3>5. CASE z = l.zone
      <4>1. \A s \in Setters : loc[s].zone = z => loc[s].what = c
        BY <2>3, <3>3, <3>5 DEF Knows
      <4>2. zones[z] # None => c = zones[z].config
        BY <3>5 DEF GetZonePluginConfig
      <4>3. \A s \in Setters : loc'[s] = loc[s]
        BY <1>1, <3>3
      <4> QED
        BY <2>1, <3>3, <3>4, <3>5, <4>1, <4>2, <4>3 DEF Told, Configuring
    <3>6. CASE z # l.zone
      <4>1. z \notin untold
        BY <2>3, <3>6 DEF Knows
      <4>2. Told(z)
        BY <4>1 DEF ToldInv
      <4>3. \A s \in Setters : loc'[s] = loc[s]
        BY <1>1, <3>3
      <4>4. ~Configuring(z)
        BY <2>1 DEF Configuring, Starting
      <4>5. \A u \in Taps : ~(pc'[u] = "configure" /\ loc'[u].zone = z)
        BY <3>3, <3>4, <3>6
      <4> QED
        BY <2>1, <4>2, <4>3, <4>4, <4>5 DEF Told, Pending, Configuring
    <3> QED
      BY <3>5, <3>6
  <2> QED
    BY <1>5, <2>2, <2>3 DEF Launch
<1>6. CASE Configure(t)
  <2>1. /\ pc[t] = "configure" /\ l.zone \in ZoneIds /\ l.what \in Configs /\ zones' = zones
    BY <1>0, <1>6 DEF Configure, At, ShapeOf, TapSteps, stored
  <2>2. /\ pc'[t] = "idle"
        /\ \A q \in Procs \ {t} : pc'[q] = pc[q] /\ loc'[q] = loc[q]
    BY <1>0, <1>6, EnterAlone DEF Configure, Return
  <2>3. \A s \in Setters : loc'[s] = loc[s]
    BY <1>1, <2>2
  <2>4. \A u \in Taps : pc'[u] = "configure" => u # t /\ pc'[u] = pc[u] /\ loc'[u] = loc[u]
    BY <2>2 DEF Procs
  <2>5. PICK S \in {{}, {l.zone}} :
          /\ Untold(S)
          /\ S = {} => running' = [running EXCEPT ![l.zone] = l.what]
          /\ \A y \in ZoneIds \ {l.zone} : running'[y] = running[y]
    BY <1>0, <1>6 DEF Configure, Shown
  <2>6. CASE z \in untold \cup S
    BY <1>0, <2>1, <2>5, <2>6, LeftUntold
  <2>7. CASE z \notin untold \cup S
    <3>1. Told(z)
      BY <2>7 DEF ToldInv
    <3>2. CASE z = l.zone
      <4>1. running'[z] = l.what
        BY <1>0, <2>1, <2>5, <2>7, <3>2 DEF Shown
      <4>2. zones[z] # None => l.what = zones[z].config \/ Pending(z)
        BY <2>1, <3>1, <3>2 DEF Told
      <4>3. Pending(z)' = Pending(z)
        BY <2>3 DEF Pending
      <4> QED
        BY <2>1, <2>3, <2>4, <3>1, <4>1, <4>2, <4>3 DEF Told
    <3>3. CASE z # l.zone
      <4>1. running'[z] = running[z]
        BY <2>5, <3>3
      <4>2. Pending(z)' = Pending(z)
        BY <2>3 DEF Pending
      <4>3. Configuring(z) => Configuring(z)'
        BY <2>2, <3>3 DEF Configuring, Procs
      <4> QED
        BY <2>1, <2>3, <2>4, <3>1, <4>1, <4>2, <4>3 DEF Told
    <3> QED
      BY <3>2, <3>3
  <2> QED
    BY <2>6, <2>7
<1> QED
  BY <1>2, <1>3, <1>4, <1>5, <1>6 DEF TapStep

\* Configuration requests keep it, because they wait for s.mu.
LEMMA SetterTold == ASSUME Typed, ToldInv, NEW s \in Setters, SetterStep(s) PROVE ToldInv'
<1> SUFFICES ASSUME NEW z \in ZoneIds, z \notin untold' PROVE Told(z)'
  BY DEF ToldInv
<1>0. /\ Positions' /\ Positions /\ Stored /\ Shown /\ s \in Procs
      /\ loc[s] \in Locals /\ ShapeOf(s, pc[s], loc[s])
  BY SetterTyped DEF Typed, Positions, Procs
<1>1. \A t \in Taps : t \in Procs \ {s}
  BY ConstantsAssumption DEF Procs
<1> DEFINE l == loc[s]
<1>2. CASE SetZonePluginConfig(s)
  <2>1. PICK y \in ZoneIds, c \in Configs :
          /\ StoreSetZonePluginConfig(y, c)
          /\ Enter(s, "tell", [NoLocals EXCEPT !.zone = y, !.what = c])
          /\ untold' = Knows(y, c, {s})
    BY <1>2, ConstantsAssumption DEF SetZonePluginConfig
  <2> DEFINE n == [NoLocals EXCEPT !.zone = y, !.what = c]
  <2>0. n.zone = y /\ n.what = c /\ Enter(s, "tell", n)
    BY <2>1 DEF NoLocals
  <2> HIDE DEF n
  <2>2. /\ loc'[s].zone = y /\ loc'[s].what = c
        /\ \A q \in Procs \ {s} : pc'[q] = pc[q] /\ loc'[q] = loc[q]
    BY <1>0, <2>0, EnterAlone
  <2>3. running' = running /\ pc[s] = "idle" /\ l = NoLocals
    BY <1>0, <1>2 DEF SetZonePluginConfig, Idle, ShapeOf
  <2>4. CASE z = y
    <3>1. \A r \in Setters \ {s} : loc[r].zone = z => loc[r].what = c
      BY <2>1, <2>4 DEF Knows
    <3>2. zones'[z] # None => zones'[z].config = c
      BY <1>0, <2>1, <2>4, StoreConfigType
    <3>3. Pending(z)'
      BY <2>2, <2>4 DEF Pending
    <3>4. \A r \in Setters : loc'[r].zone = z => loc'[r].what = c
      BY <2>2, <3>1 DEF Procs
    <3> QED
      BY <3>2, <3>3, <3>4 DEF Told
  <2>5. CASE z # y
    <3>1. Told(z) /\ zones'[z] = zones[z]
      BY <1>0, <2>1, <2>5, StoreConfigType DEF Knows, ToldInv
    <3>2. \A t \in Taps : pc'[t] = pc[t] /\ loc'[t] = loc[t]
      BY <1>1, <2>2
    <3>3. \A r \in Setters : loc'[r].zone = z <=> loc[r].zone = z
      BY <2>2, <2>3, <2>5, ConstantsAssumption DEF Procs, NoLocals
    <3>4. \A r \in Setters : loc'[r].zone = z => loc'[r] = loc[r]
      BY <2>2, <2>5 DEF Procs
    <3>5. Pending(z)' <=> Pending(z)
      BY <3>3 DEF Pending
    <3>6. Configuring(z)' <=> Configuring(z)
      BY <3>2 DEF Configuring
    <3> QED
      BY <2>3, <3>1, <3>2, <3>3, <3>4, <3>5, <3>6 DEF Told
  <2> QED
    BY <2>4, <2>5
<1>3. CASE BroadcastZoneConfigChange(s)
  <2>1. /\ l.zone \in ZoneIds /\ l.what \in Configs /\ zones' = zones /\ ~Starting
    BY <1>0, <1>3 DEF BroadcastZoneConfigChange, At, ShapeOf, stored
  <2>2. /\ pc'[s] = "idle" /\ loc'[s] = NoLocals
        /\ \A q \in Procs \ {s} : pc'[q] = pc[q] /\ loc'[q] = loc[q]
    BY <1>0, <1>3, EnterAlone DEF BroadcastZoneConfigChange, Return
  <2>3. \A t \in Taps : pc'[t] # "configure" /\ pc[t] # "configure"
    BY <1>1, <2>1, <2>2 DEF Starting
  <2>4. \A r \in Setters : loc'[r].zone = z => r # s /\ loc'[r] = loc[r]
    BY <2>2, ConstantsAssumption DEF Procs, NoLocals
  <2>5. PICK S \in {{}, {l.zone}} :
          /\ Untold(S)
          /\ S = {} => running' = IF running[l.zone] = None THEN running
                                  ELSE [running EXCEPT ![l.zone] = l.what]
          /\ \A y \in ZoneIds \ {l.zone} : running'[y] = running[y]
    BY <1>0, <1>3 DEF BroadcastZoneConfigChange, Shown
  <2>6. CASE z \in untold \cup S
    BY <1>0, <2>1, <2>5, <2>6, LeftUntold
  <2>7. CASE z \notin untold \cup S
    <3>1. Told(z)
      BY <2>7 DEF ToldInv
    <3>2. CASE z = l.zone
      <4>1. running'[z] \in {None, l.what}
        BY <1>0, <2>1, <2>5, <2>7, <3>2 DEF Shown
      <4>2. zones[z] # None => l.what = zones[z].config
        BY <3>1, <3>2 DEF Told
      <4> QED
        BY <2>1, <2>3, <2>4, <3>1, <4>1, <4>2 DEF Told
    <3>3. CASE z # l.zone
      <4>1. running'[z] = running[z]
        BY <2>5, <3>3
      <4>2. Pending(z) => Pending(z)'
        BY <2>2, <3>3 DEF Pending, Procs
      <4>3. ~Configuring(z)
        BY <2>3 DEF Configuring
      <4> QED
        BY <2>1, <2>3, <2>4, <3>1, <4>1, <4>2, <4>3 DEF Told
    <3> QED
      BY <3>2, <3>3
  <2> QED
    BY <2>6, <2>7
<1>4. CASE DeleteZoneOverride(s)
  <2>1. PICK y \in ZoneIds : StoreSetZonePluginConfig(y, Empty)
    BY <1>4, ConstantsAssumption DEF DeleteZoneOverride
  <2>2. Untold(Reconfigured) /\ running' = running /\ pc' = pc /\ loc' = loc
    BY <1>4 DEF DeleteZoneOverride
  <2>3. CASE z \in untold \cup Reconfigured
    BY <1>0, <2>2, <2>3, LeftUntold DEF Reconfigured
  <2>4. CASE z \notin untold \cup Reconfigured
    BY <2>2, <2>4, ToldKept DEF Reconfigured, ToldInv
  <2> QED
    BY <2>3, <2>4
<1> QED
  BY <1>2, <1>3, <1>4 DEF SetterStep

\* A crash keeps it: the plugin that loses its configuration is untold.
LEMMA CrashTold == ASSUME Typed, ToldInv, CrashStore PROVE ToldInv'
<1> SUFFICES ASSUME NEW z \in ZoneIds, z \notin untold' PROVE Told(z)'
  BY DEF ToldInv
<1>0. Positions' /\ Shown
  BY CrashTyped DEF Typed
<1>1. PICK y \in ZoneIds : running' = [running EXCEPT ![y] = Empty] /\ Untold({y})
  BY DEF CrashStore
<1>2. zones' = zones /\ pc' = pc /\ loc' = loc
  BY DEF CrashStore, stored
<1>3. CASE z \in untold \cup {y}
  BY <1>0, <1>1, <1>3, LeftUntold
<1>4. CASE z \notin untold \cup {y}
  <2>1. running'[z] = running[z]
    BY <1>0, <1>1, <1>4 DEF Shown
  <2> QED
    BY <1>2, <1>4, <2>1, ToldKept DEF ToldInv
<1> QED
  BY <1>3, <1>4

\* A restart configures every plugin with what is stored.
LEMMA RestartTold == ASSUME Restart PROVE ToldInv'
<1>1. \A p \in Procs : loc'[p] = NoLocals /\ pc'[p] = "idle"
  BY DEF Restart
<1>2. \A z \in ZoneIds : zones'[z] # None => running'[z] \in {None, zones'[z].config}
  BY DEF Restart
<1> QED
  BY <1>1, <1>2, ConstantsAssumption DEF ToldInv, Told, Procs, NoLocals

\* However restarts of a zone and configuration requests for it interleave, the plugin
\* has the stored configuration in the end, unless nobody told it of the change.
THEOREM PluginHasConfigAlways == Spec => []PluginHasConfig
<1>1. Init => ToldInv
  <2> SUFFICES ASSUME Init PROVE ToldInv
    OBVIOUS
  <2>1. \A p \in Procs : loc[p] = NoLocals /\ pc[p] = "idle"
    BY DEF Init
  <2>2. \A z \in ZoneIds : zones[z] # None => running[z] \in {None, zones[z].config}
    BY FactoryType DEF Init
  <2> QED
    BY <2>1, <2>2, ConstantsAssumption DEF ToldInv, Told, Procs, NoLocals
<1>2. Typed /\ ToldInv /\ [Next]_vars => ToldInv'
  <2> SUFFICES ASSUME Typed, ToldInv, [Next]_vars PROVE ToldInv'
    OBVIOUS
  <2>1. CASE UNCHANGED vars
    BY <2>1 DEF vars, ToldInv, Told, Pending, Configuring
  <2> QED
    BY <2>1, EditorTold, TapTold, SetterTold, CrashTold, RestartTold DEF Next
<1>3. Typed /\ ToldInv => PluginHasConfig
  <2> SUFFICES ASSUME Typed, ToldInv, Quiet(Procs), NEW z \in ZoneIds \ untold, zones[z] # None
               PROVE  running[z] \in {None, zones[z].config}
    BY DEF PluginHasConfig
  <2>1. \A p \in Procs : pc[p] = "idle" /\ loc[p] = NoLocals
    BY DEF Quiet, Typed, Positions, ShapeOf
  <2>2. ~Pending(z) /\ ~Configuring(z)
    BY <2>1, ConstantsAssumption DEF Pending, Configuring, Procs, NoLocals
  <2> QED
    BY <2>2 DEF ToldInv, Told
<1> QED
  BY <1>1, <1>2, <1>3, InitTyped, NextTyped, PTL DEF Spec

-----------------------------------------------------------------------------
(* The widths of the zones of a page *)

\* The zones S do not fit on a page.
TooFull(S) == Cardinality(S) * MinZoneWidthPx > DisplayWidthPx

\* A request has changed the zones of the page, or is writing their widths.
Halfway(p, g) == pc[p] \in {"rows", "widths"} /\ loc[p].page = g

\* A page is even, known to be uneven, or going to be distributed again.
Settled(g) == Fills(zones, g) \/ g \in uneven \/ \E p \in Editors : Halfway(p, g)

\* What a request that writes widths relies on, S being the zones of its page: what it
\* has yet to write are their shares, and the other zones have theirs.
Sharing(S, l) ==
  /\ S # {} /\ ~TooFull(S)
  /\ \A z \in ZoneIds : l.rows[z] # None =>
       z \in S /\ l.rows[z].page = l.page /\ l.rows[z].width = RedistributeWidths(S)[z]
  /\ \A z \in S : l.rows[z] = None => zones[z].width = RedistributeWidths(S)[z]

\* What a request relies on between what it read and what it writes, if no other has
\* come between.
Expected(p) ==
  /\ pc[p] = "insert" => Cardinality(OnPage(zones, loc[p].row.page)) < MaxZonesPerPage
  /\ pc[p] = "remove" => zones[loc[p].zone] # None /\ zones[loc[p].zone].page = loc[p].page
  /\ pc[p] = "rows" /\ TooFull(OnPage(zones, loc[p].page)) => loc[p].page \in uneven
  /\ pc[p] = "widths" => Sharing(OnPage(zones, loc[p].page), loc[p])
  /\ pc[p] = "validate" => OnPage(zones, loc[p].page) # {}

\* The invariant behind WidthsFill.
WidthsInv ==
  /\ crossed => \A g \in PageIds : Fills(zones, g) \/ g \in uneven
  /\ \A g \in HasZones(zones) : Settled(g)
  /\ ~crossed => \A p \in Editors : Expected(p)

\* Two tables with the same zones on the same pages, of the same widths.
SameZones(t, u) == \A z \in ZoneIds :
  /\ t[z] = None <=> u[z] = None
  /\ t[z] # None => u[z].page = t[z].page /\ u[z].width = t[z].width

\* A page with the same zones of the same widths fills the display, or does not.
LEMMA SamePage ==
  ASSUME NEW t, NEW u, NEW g, OnPage(t, g) = OnPage(u, g),
         \A z \in OnPage(t, g) : t[z].width = u[z].width
  PROVE  Fills(t, g) <=> Fills(u, g)
<1>1. {{z} \X (1..t[z].width) : z \in OnPage(t, g)} = {{z} \X (1..u[z].width) : z \in OnPage(u, g)}
  OBVIOUS
<1> QED
  BY <1>1 DEF Fills, Pixels

\* So do all pages of two such tables.
LEMMA SameLayout ==
  ASSUME NEW t, NEW u, SameZones(t, u)
  PROVE  \A g : OnPage(t, g) = OnPage(u, g) /\ (Fills(t, g) <=> Fills(u, g))
<1> TAKE g
<1>1. OnPage(t, g) = OnPage(u, g)
  BY DEF SameZones, OnPage
<1>2. \A z \in OnPage(t, g) : t[z].width = u[z].width
  BY DEF SameZones, OnPage
<1> QED
  BY <1>1, <1>2, SamePage

\* A page that is too full cannot fill the display evenly.
LEMMA TooFullOverflows ==
  ASSUME NEW t \in Tables, NEW g, TooFull(OnPage(t, g)) PROVE ~Fills(t, g)
<1> DEFINE S == OnPage(t, g)
           m == MinZoneWidthPx
           B == ZoneIds \X (1..DisplayWidthPx)
<1>1. /\ IsFiniteSet(S) /\ S \subseteq ZoneIds /\ Cardinality(S) \in Nat
      /\ m \in Nat /\ DisplayWidthPx \in Nat
  BY PageFinite, ConstantsAssumption
<1>2. IsFiniteSet(1..m) /\ Cardinality(1..m) = m /\ IsFiniteSet(1..DisplayWidthPx)
  BY <1>1, FS_Interval
<1>3. IsFiniteSet(S \X (1..m)) /\ Cardinality(S \X (1..m)) = Cardinality(S) * m
  BY <1>1, <1>2, FS_Product
<1>4. \A z \in S : t[z].width \in m..DisplayWidthPx
  BY DEF OnPage, Tables, Rows, Widths
<1>5. IsFiniteSet(B)
  BY <1>2, FS_Product, ConstantsAssumption
<1> HIDE DEF S
<1>6. Pixels(t, g) = UNION {{z} \X (1..t[z].width) : z \in S}
  BY DEF Pixels, S
<1>7. Pixels(t, g) \subseteq B
  <2> SUFFICES ASSUME NEW z \in S, NEW x \in {z} \X (1..t[z].width) PROVE x \in B
    BY <1>6
  <2> QED
    BY <1>1, <1>4
<1>8. S \X (1..m) \subseteq Pixels(t, g)
  <2> SUFFICES ASSUME NEW z \in S, NEW i \in 1..m PROVE <<z, i>> \in Pixels(t, g)
    OBVIOUS
  <2>1. i \in 1..t[z].width
    BY <1>1, <1>4
  <2>2. <<z, i>> \in {z} \X (1..t[z].width)
    BY <2>1
  <2> QED
    BY <1>6, <2>2
<1>9. IsFiniteSet(Pixels(t, g)) /\ Cardinality(S) * m <= Cardinality(Pixels(t, g))
      /\ Cardinality(Pixels(t, g)) \in Nat
  BY <1>3, <1>5, <1>7, <1>8, FS_Subset, FS_CardinalityType
<1>10. Cardinality(S) * m > DisplayWidthPx
  BY DEF TooFull, S
<1> QED
  BY <1>1, <1>9, <1>10 DEF Fills

\* A step that leaves pages, widths and the layout requests keeps WidthsInv.
LEMMA LayoutStays ==
  ASSUME WidthsInv, SameZones(zones, zones'), uneven' = uneven, crossed' = crossed,
         \A p \in Editors : pc'[p] = pc[p] /\ loc'[p] = loc[p],
         Positions
  PROVE  WidthsInv'
<1>1. \A g : OnPage(zones', g) = OnPage(zones, g) /\ (Fills(zones', g) <=> Fills(zones, g))
  BY SameLayout
<1>2. HasZones(zones') = HasZones(zones)
  BY <1>1 DEF HasZones
<1>3. \A g : Settled(g) => Settled(g)'
  BY <1>1 DEF Settled, Halfway
<1>4. ASSUME NEW p \in Editors, Expected(p) PROVE Expected(p)'
  <2>2. ASSUME pc[p] = "widths" PROVE Sharing(OnPage(zones, loc[p].page), loc[p])'
    <3>1. /\ OnPage(zones, loc[p].page) \subseteq ZoneIds
          /\ \A z \in OnPage(zones, loc[p].page) : zones[z] # None
      BY DEF OnPage
    <3> DEFINE S == OnPage(zones, loc[p].page)
    <3>2. OnPage(zones', loc'[p].page) = S
      BY <1>1
    <3>3. Sharing(S, loc[p])
      BY <1>4, <2>2 DEF Expected
    <3> HIDE DEF S
    <3> QED
      BY <3>1, <3>2, <3>3 DEF Sharing, SameZones, S
  <2>3. pc[p] = "remove" => loc[p].zone \in ZoneIds
    BY DEF Positions, ShapeOf, Procs
  <2> QED
    BY <1>1, <1>4, <2>2, <2>3 DEF Expected, SameZones
<1> QED
  BY <1>1, <1>2, <1>3, <1>4 DEF WidthsInv

\* A step of a layout request that writes nothing keeps it, if the request then relies
\* on what is so, and leaves no page halfway.
LEMMA ReadWidths ==
  ASSUME WidthsInv, NEW p \in Editors, zones' = zones, uneven' = uneven,
         \A q \in Editors \ {p} : pc'[q] = pc[q] /\ loc'[q] = loc[q],
         crossed' => crossed,
         crossed /\ ~crossed' => \A q \in Editors \ {p} : pc[q] = "idle",
         \A g \in HasZones(zones) : Halfway(p, g) /\ ~Halfway(p, g)' => Fills(zones, g) \/ g \in uneven,
         ~crossed' => Expected(p)'
  PROVE  WidthsInv'
<1>1. crossed' => \A g \in PageIds : Fills(zones', g) \/ g \in uneven'
  BY DEF WidthsInv
<1>2. \A g \in HasZones(zones') : Settled(g)'
  BY DEF WidthsInv, Settled, Halfway
<1>3. ASSUME ~crossed', NEW q \in Editors, q # p PROVE Expected(q)'
  <2>1. CASE crossed
    BY <2>1, <1>3 DEF Expected
  <2>2. CASE ~crossed
    BY <2>2, <1>3 DEF WidthsInv, Expected, Sharing
  <2> QED
    BY <2>1, <2>2
<1> QED
  BY <1>1, <1>2, <1>3 DEF WidthsInv

\* A step that writes keeps it, if no other request is under way and its own page is
\* halfway, or if the pages are said to be uneven.
LEMMA WrittenWidths ==
  ASSUME WidthsInv, NEW p \in Editors, Wrote(p), NEW S, uneven \subseteq S, Uneven(S),
         \A q \in Editors \ {p} : pc'[q] = pc[q] /\ loc'[q] = loc[q],
         crossed \in BOOLEAN,
         \A g \in HasZones(zones') \ S : ~crossed' /\ ~Fills(zones', g) => \E q \in Editors : Halfway(q, g)',
         ~crossed' => Expected(p)'
  PROVE  WidthsInv'
<1>1. crossed' => \A g \in PageIds : Fills(zones', g) \/ g \in uneven'
  BY DEF Uneven
<1>2. \A g \in HasZones(zones') : Settled(g)'
  BY DEF Settled, Uneven, HasZones
<1>3. ASSUME ~crossed', NEW q \in Editors, q # p PROVE Expected(q)'
  <2>1. pc[q] = "idle"
    BY <1>3 DEF Wrote, Overlapped
  <2>2. pc'[q] = "idle"
    BY <2>1, <1>3
  <2> QED
    BY <2>2 DEF Expected
<1> QED
  BY <1>1, <1>2, <1>3 DEF WidthsInv

\* Every step of a layout request keeps WidthsInv.
LEMMA EditorWidths ==
  ASSUME Typed, WidthsInv, NEW p \in Editors, EditorStep(p) PROVE WidthsInv'
<1>0. /\ Positions /\ Positions' /\ Stored /\ Stored' /\ Past /\ Past' /\ p \in Procs
      /\ loc[p] \in Locals /\ ShapeOf(p, pc[p], loc[p])
      /\ zones \in Tables /\ zones' \in Tables /\ crossed \in BOOLEAN /\ crossed' \in BOOLEAN
  BY EditorTyped DEF Typed, Positions, Procs, Stored, Past
<1>a. \A q \in Editors \ {p} : pc'[q] = pc[q] /\ loc'[q] = loc[q]
  BY EditorAlone DEF Procs
<1>b. \A g \in HasZones(zones) :
        Fills(zones, g) \/ g \in uneven \/ \E q \in Editors : Halfway(q, g)
  BY DEF WidthsInv, Settled
<1>c. ~crossed => Expected(p)
  BY DEF WidthsInv
<1> DEFINE l == loc[p]
           S == OnPage(zones, l.page)
\* A page that was halfway because of another request still is.
<1>d. ASSUME NEW g, NEW q \in Editors \ {p}, Halfway(q, g) PROVE Halfway(q, g)'
  BY <1>a, <1>d DEF Halfway
<1>e. ASSUME Wrote(p), ~crossed'
      PROVE  ~crossed /\ \A q \in Editors \ {p} : pc[q] = "idle"
  BY <1>e, <1>0 DEF Wrote, Overlapped
<1>1. CASE CreatePage(p)
  <2>1. zones' = zones /\ pc[p] = "idle" /\ pc'[p] = "pages" /\ Wrote(p) /\ Uneven(uneven)
    BY <1>1, <1>0, EnterAlone DEF CreatePage, Idle, Reload
  <2>2. \A g : ~Halfway(p, g)
    BY <2>1 DEF Halfway
  <2>3. Expected(p)'
    BY <2>1 DEF Expected
  <2> QED
    BY <1>0, <1>a, <1>b, <1>d, <2>1, <2>2, <2>3, WrittenWidths
<1>2. CASE DeletePage(p)
  <2>1. pc[p] = "idle" /\ pc'[p] = "pages" /\ Wrote(p) /\ Uneven(uneven)
    BY <1>2, <1>0, EnterAlone DEF DeletePage, Idle, Reload
  <2>2. PICK d \in pages : zones' = [z \in ZoneIds |-> IF z \in OnPage(zones, d) THEN None ELSE zones[z]]
    BY <1>2 DEF DeletePage, StoreDeletePage
  <2>3. \A g : ~Halfway(p, g)
    BY <2>1 DEF Halfway
  <2>4. Expected(p)'
    BY <2>1 DEF Expected
  <2>5. ASSUME NEW g \in HasZones(zones')
        PROVE  g \in HasZones(zones) /\ (Fills(zones', g) <=> Fills(zones, g))
    <3>1. g # d
      BY <2>2, <2>5 DEF HasZones, OnPage
    <3>2. OnPage(zones', g) = OnPage(zones, g)
      BY <2>2, <3>1 DEF OnPage
    <3>3. \A z \in OnPage(zones', g) : zones'[z].width = zones[z].width
      BY <2>2 DEF OnPage
    <3> QED
      BY <2>5, <3>2, <3>3, SamePage DEF HasZones
  <2> QED
    BY <1>0, <1>a, <1>b, <1>d, <2>1, <2>3, <2>4, <2>5, WrittenWidths
<1>3. CASE Reorder(p)
  <2>1. /\ zones' = zones /\ uneven' = uneven /\ crossed' = crossed
        /\ pc[p] = "idle" /\ pc'[p] = "pages"
    BY <1>3, <1>0, EnterAlone DEF Reorder, Idle, Reload, stored, history
  <2> QED
    BY <1>a, <2>1, ReadWidths DEF Expected, Halfway
<1>4. CASE handleCreateZone(p)
  <2>1. PICK z \in ZoneIds, g \in PageIds, a \in Asked :
          /\ Cardinality(OnPage(zones, g)) < MaxZonesPerPage
          /\ Enter(p, "insert", [NoLocals EXCEPT !.zone = z, !.row = Row(g, a)])
    BY <1>4 DEF handleCreateZone
  <2> DEFINE n == [NoLocals EXCEPT !.zone = z, !.row = Row(g, a)]
  <2>2. n.row.page = g /\ Enter(p, "insert", n)
    BY <2>1 DEF NoLocals, Row
  <2> HIDE DEF n
  <2>3. /\ zones' = zones /\ uneven' = uneven /\ crossed' = crossed /\ pc[p] = "idle"
    BY <1>4 DEF handleCreateZone, Idle, stored, history
  <2>4. pc'[p] = "insert" /\ loc'[p] = n
    BY <1>0, <2>2, EnterAlone
  <2>5. Expected(p)'
    BY <2>1, <2>2, <2>3, <2>4 DEF Expected
  <2> QED
    BY <1>a, <2>3, <2>4, <2>5, ReadWidths DEF Halfway
<1>5. CASE InsertZone(p)
  <2> DEFINE z == l.zone
             row == l.row
             g == row.page
  <2>1. pc[p] = "insert" /\ z \in ZoneIds /\ row \in Rows /\ g \in PageIds
    BY <1>5, <1>0 DEF InsertZone, At, ShapeOf, Rows
  <2>2. CASE Insertable(z, row)
    <3>1. /\ zones[z] = None /\ zones' = [zones EXCEPT ![z] = row]
          /\ Enter(p, "rows", [NoLocals EXCEPT !.page = g]) /\ Wrote(p) /\ Uneven(uneven)
      BY <1>5, <2>2 DEF InsertZone, Insertable, StoreCreateZone
    <3>2. pc'[p] = "rows" /\ loc'[p].page = g
      BY <1>0, <3>1, EnterAlone DEF NoLocals
    <3>3. row # None
      BY <2>1, ConstantsAssumption
    <3>4. \A y \in ZoneIds : zones'[y] = IF y = z THEN row ELSE zones[y]
      BY <1>0, <3>1 DEF Tables
    <3>5. OnPage(zones', g) = OnPage(zones, g) \cup {z}
      BY <2>1, <3>3, <3>4 DEF OnPage
    <3>6. ASSUME NEW h \in HasZones(zones') \ uneven, ~crossed', ~Fills(zones', h)
          PROVE  \E q \in Editors : Halfway(q, h)'
      <4>1. CASE h = g
        BY <4>1, <3>2 DEF Halfway
      <4>2. CASE h # g
        <5>1. OnPage(zones', h) = OnPage(zones, h)
          BY <3>1, <3>4, <4>2 DEF OnPage
        <5>2. \A y \in OnPage(zones', h) : zones'[y].width = zones[y].width
          BY <3>1, <3>4, <5>1 DEF OnPage
        <5>3. h \in HasZones(zones) /\ ~Fills(zones, h)
          BY <3>6, <5>1, <5>2, SamePage DEF HasZones
        <5>4. ~Halfway(p, h)
          BY <2>1 DEF Halfway
        <5> QED
          BY <1>b, <1>d, <3>6, <5>3, <5>4
      <4> QED
        BY <4>1, <4>2
    <3>7. ASSUME ~crossed' PROVE Expected(p)'
      <4>1. Cardinality(OnPage(zones, g)) < MaxZonesPerPage
        BY <1>c, <1>e, <2>1, <3>1, <3>7 DEF Expected
      <4>2. /\ Cardinality(OnPage(zones', g)) \in Nat
            /\ Cardinality(OnPage(zones', g)) <= Cardinality(OnPage(zones, g)) + 1
            /\ Cardinality(OnPage(zones, g)) \in Nat
        <5> DEFINE A == OnPage(zones, g)
        <5>1. IsFiniteSet(A) /\ Cardinality(A) \in Nat
          BY PageFinite
        <5> HIDE DEF A
        <5>2. Cardinality(A \cup {z}) \in {Cardinality(A), Cardinality(A) + 1}
          BY <5>1, FS_AddElement
        <5>3. Cardinality(OnPage(zones', g)) \in {Cardinality(A), Cardinality(A) + 1}
          BY <3>5, <5>2 DEF A
        <5> QED
          BY <5>1, <5>3 DEF A
      <4>3. Cardinality(OnPage(zones', g)) <= MaxZonesPerPage
        BY <4>1, <4>2, ConstantsAssumption
      <4>4. Cardinality(OnPage(zones', g)) * MinZoneWidthPx <= MaxZonesPerPage * MinZoneWidthPx
        BY <4>2, <4>3, ConstantsAssumption
      <4>5. ~TooFull(OnPage(zones', g))
        BY <4>2, <4>4, ConstantsAssumption DEF TooFull
      <4> QED
        BY <3>2, <4>5 DEF Expected
    <3> QED
      BY <1>0, <1>a, <3>1, <3>6, <3>7, WrittenWidths
  <2>3. CASE ~Insertable(z, row)
    <3>1. /\ zones' = zones /\ uneven' = uneven /\ crossed' = crossed /\ Return(p)
      BY <1>5, <2>3 DEF InsertZone
    <3>2. pc'[p] = "idle"
      BY <1>0, <3>1, EnterAlone DEF Return
    <3> QED
      BY <1>a, <2>1, <3>1, <3>2, ReadWidths DEF Expected, Halfway
  <2> QED
    BY <2>2, <2>3
<1>6. CASE ReadRows(p)
  <2> DEFINE w == RedistributeWidths(S)
             rows == [z \in ZoneIds |-> IF z \in S THEN [zones[z] EXCEPT !.width = w[z]] ELSE None]
             n == [l EXCEPT !.rows = rows]
  <2>1. /\ pc[p] = "rows" /\ l.page \in PageIds
        /\ zones' = zones /\ uneven' = uneven /\ crossed' = crossed
    BY <1>0, <1>6 DEF ReadRows, At, ShapeOf, stored, history
  <2>2. CASE S = {} \/ TooFull(S)
    <3>1. pc'[p] = "pages"
      BY <1>0, <1>6, <2>2, EnterAlone DEF ReadRows, Reload, TooFull
    <3>2. ASSUME NEW g \in HasZones(zones), Halfway(p, g) PROVE Fills(zones, g) \/ g \in uneven
      <4>1. g = l.page /\ S # {}
        BY <3>2 DEF Halfway, HasZones
      <4>2. CASE crossed
        BY <4>2, <3>2 DEF WidthsInv, HasZones
      <4>3. CASE ~crossed
        BY <1>c, <2>1, <2>2, <4>1, <4>3 DEF Expected
      <4> QED
        BY <4>2, <4>3
    <3>3. Expected(p)'
      BY <3>1 DEF Expected
    <3> QED
      BY <1>a, <2>1, <3>2, <3>3, ReadWidths
  <2>3. CASE ~(S = {} \/ TooFull(S))
    <3>1. Enter(p, "widths", n)
      BY <1>6, <2>3 DEF ReadRows, TooFull
    <3>2. n.page = l.page /\ n.rows = rows
      BY <1>0 DEF Locals
    <3> HIDE DEF n, rows
    <3>3. pc'[p] = "widths" /\ loc'[p].page = l.page /\ loc'[p].rows = rows
      BY <1>0, <3>1, <3>2, EnterAlone
    <3> USE DEF rows
    <3>4. ASSUME NEW z \in ZoneIds
          PROVE  /\ rows[z] # None => z \in S /\ rows[z].page = l.page /\ rows[z].width = w[z]
                 /\ z \in S => rows[z] # None
      <4>1. CASE z \in S
        <5>1. zones[z] \in Rows /\ zones[z].page = l.page
          BY <1>0, <4>1 DEF OnPage, Tables
        <5>2. rows[z] = [zones[z] EXCEPT !.width = w[z]]
          BY <4>1
        <5> HIDE DEF rows, w, S
        <5>3. rows[z].page = l.page /\ rows[z].width = w[z]
          BY <5>1, <5>2 DEF Rows
        <5>4. /\ IsFiniteSet(S) /\ Cardinality(S) \in Nat
              /\ Cardinality(S) * MinZoneWidthPx <= DisplayWidthPx
          BY <2>3, PageFinite, ConstantsAssumption DEF S, TooFull
        <5>5. w \in [S -> Widths]
          BY <2>3, <5>4, Redistributed DEF w
        <5>6. [zones[z] EXCEPT !.width = w[z]] \in Rows
          BY <4>1, <5>1, <5>5 DEF Rows
        <5> QED
          BY <4>1, <5>2, <5>3, <5>6, ConstantsAssumption
      <4>2. CASE z \notin S
        BY <4>2
      <4> QED
        BY <4>1, <4>2
    <3>5. S \subseteq ZoneIds
      BY DEF OnPage
    <3>6. OnPage(zones', loc'[p].page) = S
      BY <2>1, <3>3
    <3> HIDE DEF rows, w, S
    <3>7. Expected(p)'
      BY <2>3, <3>3, <3>4, <3>5, <3>6 DEF Expected, Sharing, TooFull, w
    <3>8. \A g : Halfway(p, g) => Halfway(p, g)'
      BY <3>3 DEF Halfway
    <3> QED
      BY <1>a, <2>1, <3>7, <3>8, ReadWidths
  <2> QED
    BY <2>2, <2>3
<1>7. CASE WriteRow(p)
  <2>1. pc[p] = "widths" /\ l.rows \in Tables /\ l.page \in PageIds /\ Wrote(p)
    BY <1>0, <1>7 DEF WriteRow, At, ShapeOf
  <2>2. PICK z \in ZoneIds :
          /\ l.rows[z] # None
          /\ \/ /\ Updatable(z, l.rows[z])
                /\ StoreUpdateZone(z, l.rows[z])
                /\ Uneven(uneven)
                /\ IF \A y \in ZoneIds \ {z} : l.rows[y] = None THEN Reload(p)
                   ELSE loc' = [loc EXCEPT ![p].rows[z] = None] /\ UNCHANGED pc
             \/ UNCHANGED zones /\ Uneven(uneven \cup {l.page}) /\ Reload(p)
    BY <1>7 DEF WriteRow
  <2>3. CASE UNCHANGED zones /\ Uneven(uneven \cup {l.page}) /\ Reload(p)
    <3>1. pc'[p] = "pages"
      BY <1>0, <2>3, EnterAlone DEF Reload
    <3>2. \A g : Halfway(p, g) => g = l.page
      BY DEF Halfway
    <3>3. Expected(p)'
      BY <3>1 DEF Expected
    <3> DEFINE T == uneven \cup {l.page}
    <3>4. \A g \in HasZones(zones') \ T : ~crossed' /\ ~Fills(zones', g) => \E q \in Editors : Halfway(q, g)'
      BY <1>b, <1>d, <2>3, <3>2
    <3>5. Uneven(T) /\ uneven \subseteq T
      BY <2>3
    <3> HIDE DEF T
    <3> QED
      BY <1>0, <1>a, <2>1, <3>3, <3>4, <3>5, WrittenWidths
  <2>4. CASE /\ StoreUpdateZone(z, l.rows[z])
             /\ Uneven(uneven)
             /\ IF \A y \in ZoneIds \ {z} : l.rows[y] = None THEN Reload(p)
                ELSE loc' = [loc EXCEPT ![p].rows[z] = None] /\ UNCHANGED pc
    <3> SUFFICES ASSUME ~crossed'
                 PROVE  /\ \A g \in HasZones(zones') \ uneven :
                             ~Fills(zones', g) => \E q \in Editors : Halfway(q, g)'
                        /\ Expected(p)'
      BY <1>0, <1>a, <2>1, <2>4, WrittenWidths
    <3>1. Sharing(S, l) /\ \A q \in Editors \ {p} : pc[q] = "idle"
      BY <1>c, <1>e, <2>1 DEF Expected
    <3> DEFINE w == RedistributeWidths(S)
    <3>2. /\ S # {} /\ ~TooFull(S) /\ z \in S
          /\ \A y \in ZoneIds : l.rows[y] # None =>
               y \in S /\ l.rows[y].page = l.page /\ l.rows[y].width = w[y]
          /\ \A y \in S : l.rows[y] = None => zones[y].width = w[y]
      BY <2>2, <3>1 DEF Sharing
    <3>3. \A y \in ZoneIds : zones'[y] = IF y = z THEN l.rows[z] ELSE zones[y]
      BY <1>0, <2>4 DEF StoreUpdateZone, Tables
    <3>4. zones[z] # None /\ zones[z].page = l.page
      BY <3>2 DEF OnPage
    <3>5. \A g : OnPage(zones', g) = OnPage(zones, g)
      BY <2>2, <3>2, <3>3, <3>4 DEF OnPage
    <3>6. S \subseteq ZoneIds /\ Cardinality(S) \in Nat
      BY PageFinite
    <3>7. ASSUME NEW g \in HasZones(zones') \ uneven, g # l.page PROVE Fills(zones', g)
      <4>1. \A y \in OnPage(zones', g) : zones'[y].width = zones[y].width
        BY <3>3, <3>4, <3>5, <3>7 DEF OnPage
      <4>2. \A q \in Editors : ~Halfway(q, g)
        BY <3>1, <3>7 DEF Halfway
      <4>3. Fills(zones, g)
        BY <1>b, <3>5, <3>7, <4>2 DEF HasZones
      <4> QED
        BY <3>5, <4>1, <4>3, SamePage
    <3>8. CASE \A y \in ZoneIds \ {z} : l.rows[y] = None
      <4>1. pc'[p] = "pages"
        BY <1>0, <2>4, <3>8, EnterAlone DEF Reload
      <4>2. \A y \in S : zones'[y].width = w[y]
        BY <2>2, <3>2, <3>3, <3>6, <3>8
      <4>3. Cardinality(S) * MinZoneWidthPx <= DisplayWidthPx
        BY <3>2, <3>6, ConstantsAssumption DEF TooFull
      <4>4. Fills(zones', l.page)
        BY <3>2, <3>5, <4>2, <4>3, SharedPageFills
      <4> QED
        BY <3>7, <4>1, <4>4 DEF Expected
    <3>9. CASE ~\A y \in ZoneIds \ {z} : l.rows[y] = None
      <4>1. loc' = [loc EXCEPT ![p].rows[z] = None] /\ pc' = pc
        BY <2>4, <3>9
      <4>2. loc'[p].rows = [l.rows EXCEPT ![z] = None] /\ loc'[p].page = l.page
        BY <1>0, <4>1 DEF Positions, Locals
      <4>3. ASSUME NEW g, g = l.page PROVE Halfway(p, g)'
        BY <2>1, <4>1, <4>2, <4>3 DEF Halfway
      <4>4. \A y \in ZoneIds : loc'[p].rows[y] = IF y = z THEN None ELSE l.rows[y]
        BY <2>1, <4>2 DEF Tables
      <4>5. zones'[z].width = w[z]
        BY <2>2, <3>2, <3>3
      <4>6. OnPage(zones', loc'[p].page) = S
        BY <3>5, <4>2
      <4> HIDE DEF w, S
      <4>7. Expected(p)'
        BY <2>1, <3>2, <3>3, <3>6, <4>1, <4>2, <4>4, <4>5, <4>6
           DEF Expected, Sharing, TooFull, w
      <4> QED
        BY <3>7, <4>3, <4>7
    <3> QED
      BY <3>8, <3>9
  <2> QED
    BY <2>2, <2>3, <2>4
<1>8. CASE UpdateZone(p)
  <2>1. PICK z \in ZoneIds, g \in pages, a \in Asked :
          /\ zones[z] # None
          /\ StoreUpdateZone(z, Row(g, a))
          /\ Enter(p, "validate", [NoLocals EXCEPT !.page = g])
          /\ Uneven(uneven \cup {g, zones[z].page})
    BY <1>8 DEF UpdateZone
  <2> DEFINE T == uneven \cup {g, zones[z].page}
             row == Row(g, a)
  <2>2. zones[z] \in Rows /\ g \in PageIds
    BY <1>0, <2>1 DEF Stored, Tables
  <2>3. row \in Rows /\ row.page = g /\ row # None
    BY <2>2, RowType, ConstantsAssumption DEF Rows
  <2> HIDE DEF row
  <2>4. \A y \in ZoneIds : zones'[y] = IF y = z THEN row ELSE zones[y]
    BY <1>0, <2>1 DEF StoreUpdateZone, Tables, row
  <2>5. pc[p] = "idle" /\ pc'[p] = "validate" /\ loc'[p].page = g /\ Wrote(p)
    BY <1>0, <1>8, <2>1, EnterAlone DEF UpdateZone, Idle, NoLocals
  <2>6. ASSUME NEW h \in HasZones(zones') \ T, ~Fills(zones', h)
        PROVE  \E q \in Editors : Halfway(q, h)'
    <3>1. OnPage(zones', h) = OnPage(zones, h)
      BY <2>3, <2>4, <2>6 DEF OnPage
    <3>2. \A y \in OnPage(zones', h) : zones'[y].width = zones[y].width
      BY <2>3, <2>4, <2>6 DEF OnPage
    <3>3. h \in HasZones(zones) /\ ~Fills(zones, h)
      BY <2>6, <3>1, <3>2, SamePage DEF HasZones
    <3>4. ~Halfway(p, h)
      BY <2>5 DEF Halfway
    <3> QED
      BY <1>b, <1>d, <2>6, <3>3, <3>4
  <2>7. OnPage(zones', g) # {}
    BY <2>3, <2>4 DEF OnPage
  <2>8. Expected(p)'
    BY <2>5, <2>7 DEF Expected
  <2>9. Uneven(T) /\ uneven \subseteq T
    BY <2>1
  <2> HIDE DEF T
  <2> QED
    BY <1>0, <1>a, <2>5, <2>6, <2>8, <2>9, WrittenWidths
<1>9. CASE ValidatePageWidth(p)
  <2>1. /\ pc[p] = "validate" /\ pc'[p] \in {"pages", "idle"}
        /\ zones' = zones /\ uneven' = uneven /\ crossed' = crossed
    BY <1>0, <1>9, EnterAlone DEF ValidatePageWidth, At, Reload, Return, stored, history
  <2> QED
    BY <1>a, <2>1, ReadWidths DEF Expected, Halfway
<1>10. CASE GetZonePageID(p)
  <2>1. PICK z \in ZoneIds :
          zones[z] # None /\ Enter(p, "remove", [NoLocals EXCEPT !.zone = z, !.page = GetZonePage(z)])
    BY <1>10 DEF GetZonePageID
  <2> DEFINE n == [NoLocals EXCEPT !.zone = z, !.page = GetZonePage(z)]
  <2>2. n.zone = z /\ n.page = zones[z].page /\ Enter(p, "remove", n)
    BY <2>1 DEF NoLocals, GetZonePage
  <2> HIDE DEF n
  <2>3. /\ pc[p] = "idle" /\ zones' = zones /\ uneven' = uneven /\ crossed' = crossed
    BY <1>10 DEF GetZonePageID, Idle, stored, history
  <2>4. pc'[p] = "remove" /\ loc'[p] = n
    BY <1>0, <2>2, EnterAlone
  <2>5. Expected(p)'
    BY <2>1, <2>2, <2>3, <2>4 DEF Expected
  <2> QED
    BY <1>a, <2>3, <2>5, ReadWidths DEF Halfway
<1>11. CASE DeleteZone(p)
  <2>1. /\ pc[p] = "remove" /\ l.zone \in ZoneIds /\ l.page \in PageIds
        /\ Wrote(p) /\ Uneven(uneven) /\ zones' = [zones EXCEPT ![l.zone] = None]
        /\ Enter(p, "rows", [NoLocals EXCEPT !.page = l.page])
    BY <1>0, <1>11 DEF DeleteZone, At, ShapeOf, StoreDeleteZone
  <2>2. pc'[p] = "rows" /\ loc'[p].page = l.page
    BY <1>0, <2>1, EnterAlone DEF NoLocals
  <2> SUFFICES ASSUME ~crossed'
               PROVE  /\ \A g \in HasZones(zones') \ uneven :
                           ~Fills(zones', g) => \E q \in Editors : Halfway(q, g)'
                      /\ Expected(p)'
    BY <1>0, <1>a, <2>1, WrittenWidths
  <2>3. /\ zones[l.zone] # None /\ zones[l.zone].page = l.page
        /\ \A q \in Editors \ {p} : pc[q] = "idle"
    BY <1>c, <1>e, <2>1 DEF Expected
  <2>4. \A y \in ZoneIds : zones'[y] = IF y = l.zone THEN None ELSE zones[y]
    BY <1>0, <2>1 DEF Tables
  <2>5. \A q \in Editors : \A g : ~Halfway(q, g)
    BY <2>1, <2>3 DEF Halfway
  <2>6. ASSUME NEW g \in HasZones(zones') \ uneven, g # l.page PROVE Fills(zones', g)
    <3>1. OnPage(zones', g) = OnPage(zones, g)
      BY <2>3, <2>4, <2>6 DEF OnPage
    <3>2. \A y \in OnPage(zones', g) : zones'[y].width = zones[y].width
      BY <2>3, <2>4, <2>6 DEF OnPage
    <3>3. Fills(zones, g)
      BY <1>b, <2>5, <2>6, <3>1 DEF HasZones
    <3> QED
      BY <3>1, <3>2, <3>3, SamePage
  <2>7. ASSUME TooFull(OnPage(zones', l.page)) PROVE l.page \in uneven'
    <3>1. OnPage(zones', l.page) \subseteq S
      BY <2>4 DEF OnPage
    <3>2. /\ Cardinality(OnPage(zones', l.page)) <= Cardinality(S)
          /\ Cardinality(OnPage(zones', l.page)) \in Nat /\ Cardinality(S) \in Nat
      BY <3>1, PageFinite, FS_Subset
    <3>3. Cardinality(OnPage(zones', l.page)) * MinZoneWidthPx <= Cardinality(S) * MinZoneWidthPx
      BY <3>2, ConstantsAssumption
    <3>4. TooFull(S)
      BY <2>7, <3>2, <3>3, ConstantsAssumption DEF TooFull
    <3>5. ~Fills(zones, l.page) /\ ~Fills(zones', l.page)
      BY <1>0, <2>7, <3>4, TooFullOverflows
    <3>6. l.page \in HasZones(zones)
      BY <2>1, <2>3 DEF HasZones, OnPage
    <3>7. l.page \in uneven
      BY <1>b, <2>5, <3>5, <3>6
    <3> QED
      BY <2>1, <3>5, <3>7 DEF Uneven
  <2> QED
    BY <2>2, <2>6, <2>7 DEF Halfway, Expected
<1>12. CASE GetPages(p)
  <2>1. /\ pc[p] = "pages" /\ pc'[p] = "zones"
        /\ zones' = zones /\ uneven' = uneven /\ crossed' = (crossed /\ Overlapped(p))
    BY <1>0, <1>12, EnterAlone DEF GetPages, At, stored
  <2> QED
    BY <1>0, <1>a, <2>1, ReadWidths DEF Expected, Halfway, Overlapped
<1>13. CASE GetZonesForPage(p)
  <2>1. /\ pc[p] = "zones" /\ pc' = pc
        /\ zones' = zones /\ uneven' = uneven /\ crossed' = crossed
    BY <1>0, <1>13 DEF GetZonesForPage, At, stored, history
  <2> QED
    BY <1>a, <2>1, ReadWidths DEF Expected, Halfway
<1>14. CASE Show(p)
  <2>1. /\ pc[p] = "zones" /\ pc'[p] = "idle"
        /\ zones' = zones /\ uneven' = uneven /\ crossed' = crossed
    BY <1>0, <1>14, EnterAlone DEF Show, At, Return, stored, history
  <2> QED
    BY <1>a, <2>1, ReadWidths DEF Expected, Halfway
<1> QED
  BY <1>1, <1>2, <1>3, <1>4, <1>5, <1>6, <1>7, <1>8, <1>9, <1>10, <1>11, <1>12, <1>13, <1>14
     DEF EditorStep

\* A tap changes no width and no page, and moves no layout request.
LEMMA TapAlone ==
  ASSUME Typed, NEW t \in Taps, TapStep(t)
  PROVE  /\ \A q \in Procs \ {t} : pc'[q] = pc[q] /\ loc'[q] = loc[q]
         /\ SameZones(zones, zones') /\ pages' = pages /\ uneven' = uneven
         /\ crossed' = crossed /\ up' = up
<1>0. /\ Positions /\ Stored /\ t \in Procs /\ loc[t] \in Locals /\ ShapeOf(t, pc[t], loc[t])
  BY DEF Typed, Positions, Procs
<1>a. SameZones(zones, zones)
  BY DEF SameZones
<1>1. CASE Cycle(t)
  BY <1>0, <1>1, <1>a, EnterAlone DEF Cycle, stored, history, daemon
<1>2. CASE SetZonePlugin(t)
  <2>1. \A q \in Procs \ {t} : pc'[q] = pc[q] /\ loc'[q] = loc[q]
    BY <1>0, <1>2 DEF SetZonePlugin, Goto, Positions
  <2>2. loc[t].zone \in ZoneIds /\ loc[t].what \in Plugins
    BY <1>0, <1>2 DEF SetZonePlugin, At, ShapeOf, TapSteps
  <2>3. StoreSetZonePlugin(loc[t].zone, loc[t].what)
    BY <1>2 DEF SetZonePlugin
  <2>4. SameZones(zones, zones')
    BY <1>0, <2>2, <2>3, StorePluginType DEF SameZones
  <2> QED
    BY <1>2, <2>1, <2>4 DEF SetZonePlugin, daemon
<1>3. CASE DropPlugin(t)
  BY <1>0, <1>3, <1>a DEF DropPlugin, Goto, Positions, stored, history, daemon
<1>4. CASE Launch(t)
  <2>1. \A q \in Procs \ {t} : pc'[q] = pc[q] /\ loc'[q] = loc[q]
    BY <1>0, <1>4, EnterAlone DEF Launch, Return, Goto, Positions
  <2> QED
    BY <1>4, <1>a, <2>1 DEF Launch, stored, daemon
<1>5. CASE Configure(t)
  BY <1>0, <1>5, <1>a, EnterAlone DEF Configure, Return, stored, daemon
<1> QED
  BY <1>1, <1>2, <1>3, <1>4, <1>5 DEF TapStep

\* Nor does a configuration request, and it changes nothing that is shown.
LEMMA SetterAlone ==
  ASSUME Typed, NEW s \in Setters, SetterStep(s)
  PROVE  /\ \A q \in Procs \ {s} : pc'[q] = pc[q] /\ loc'[q] = loc[q]
         /\ SameZones(zones, zones') /\ pages' = pages /\ live' = live
         /\ \A z \in ZoneIds : zones[z] # None => View(zones'[z]) = View(zones[z])
         /\ uneven' = uneven /\ crossed' = crossed /\ behind' = behind /\ up' = up
<1>0. Positions /\ Stored /\ s \in Procs
  BY DEF Typed, Procs
<1>a. SameZones(zones, zones)
  BY DEF SameZones
<1>1. CASE SetZonePluginConfig(s)
  <2>1. PICK z \in ZoneIds, c \in Configs :
          /\ StoreSetZonePluginConfig(z, c)
          /\ Enter(s, "tell", [NoLocals EXCEPT !.zone = z, !.what = c])
    BY <1>1, ConstantsAssumption DEF SetZonePluginConfig
  <2>2. \A q \in Procs \ {s} : pc'[q] = pc[q] /\ loc'[q] = loc[q]
    BY <1>0, <2>1, EnterAlone
  <2>3. /\ SameZones(zones, zones')
        /\ \A y \in ZoneIds : zones[y] # None => View(zones'[y]) = View(zones[y])
    BY <1>0, <2>1, StoreConfigType DEF SameZones
  <2> QED
    BY <1>1, <2>2, <2>3 DEF SetZonePluginConfig, daemon, shown
<1>2. CASE BroadcastZoneConfigChange(s)
  BY <1>0, <1>2, <1>a, EnterAlone
     DEF BroadcastZoneConfigChange, Return, stored, daemon, shown
<1>3. CASE DeleteZoneOverride(s)
  <2>1. PICK z \in ZoneIds : StoreSetZonePluginConfig(z, Empty)
    BY <1>3, ConstantsAssumption DEF DeleteZoneOverride
  <2>2. /\ SameZones(zones, zones')
        /\ \A y \in ZoneIds : zones[y] # None => View(zones'[y]) = View(zones[y])
    BY <1>0, <2>1, StoreConfigType, ConstantsAssumption DEF SameZones
  <2> QED
    BY <1>3, <2>2 DEF DeleteZoneOverride, daemon, shown
<1> QED
  BY <1>1, <1>2, <1>3 DEF SetterStep

\* The bundled layout is valid.
LEMMA FactoryFills == \A g \in HasZones(Factory) : g = Home /\ PageValid(Factory, g)
<1>1. \A g \in HasZones(Factory) : g = Home
  BY FactoryType DEF HasZones, OnPage
<1>2. /\ IsFiniteSet(First) /\ Cardinality(First) \in Nat
      /\ Cardinality(First) <= MaxZonesPerPage /\ First # {}
  BY FS_Subset, ConstantsAssumption
<1>3. Cardinality(First) * MinZoneWidthPx <= DisplayWidthPx
  BY <1>2, ConstantsAssumption
<1>4. Fills(Factory, Home)
  BY <1>2, <1>3, FactoryType, SharedPageFills
<1>5. \A z \in First : Factory[z] \in Rows
  BY FactoryType, ConstantsAssumption DEF Tables
<1>6. \A z \in First : ZoneValid(Factory[z])
  BY <1>5 DEF ZoneValid, Rows, Widths
<1> QED
  BY <1>1, <1>2, <1>4, <1>6, FactoryType DEF PageValid

\* WidthsInv holds at the start, ...
LEMMA InitWidths == Init => WidthsInv
<1> SUFFICES ASSUME Init PROVE WidthsInv
  OBVIOUS
<1>1. zones = Factory /\ ~crossed /\ \A p \in Editors : pc[p] = "idle"
  BY DEF Init, Procs
<1> QED
  BY <1>1, FactoryFills DEF WidthsInv, Settled, Expected, PageValid

\* ... and every step keeps it.
LEMMA NextWidths == Typed /\ WidthsInv /\ [Next]_vars => WidthsInv'
<1> SUFFICES ASSUME Typed, WidthsInv, [Next]_vars PROVE WidthsInv'
  OBVIOUS
<1>0. Positions
  BY DEF Typed
<1>a. SameZones(zones, zones)
  BY DEF SameZones
<1>1. CASE UNCHANGED vars
  BY <1>0, <1>1, <1>a, LayoutStays DEF vars
<1>2. ASSUME NEW t \in Taps, TapStep(t) PROVE WidthsInv'
  <2>1. \A q \in Editors : q \in Procs \ {t}
    BY ConstantsAssumption DEF Procs
  <2> QED
    BY <1>0, <1>2, <2>1, TapAlone, LayoutStays
<1>3. ASSUME NEW s \in Setters, SetterStep(s) PROVE WidthsInv'
  <2>1. \A q \in Editors : q \in Procs \ {s}
    BY ConstantsAssumption DEF Procs
  <2> QED
    BY <1>0, <1>3, <2>1, SetterAlone, LayoutStays
<1>4. CASE CrashStore
  BY <1>0, <1>4, <1>a, LayoutStays DEF CrashStore, stored
<1>5. CASE Restart
  <2>1. \A p \in Editors : Expected(p)'
    BY <1>5 DEF Restart, Expected, Procs
  <2>2. \A g \in HasZones(zones') : Settled(g)'
    BY <1>5 DEF Restart, Settled
  <2> QED
    BY <1>5, <2>1, <2>2 DEF Restart, WidthsInv
<1> QED
  BY <1>1, <1>2, <1>3, <1>4, <1>5, EditorWidths DEF Next

\* When no layout request is under way, the zones of each page fill the display, but for
\* the pages that an update or an overlap left uneven: redistributePageWidths keeps
\* the sum whatever taps and configuration requests come between its reads and writes.
THEOREM WidthsFillAlways == Spec => []WidthsFill
<1>1. WidthsInv => WidthsFill
  BY DEF WidthsInv, WidthsFill, Settled, Halfway, Quiet
<1> QED
  BY <1>1, InitTyped, NextTyped, InitWidths, NextWidths, PTL DEF Spec

-----------------------------------------------------------------------------
(* What the device shows *)

\* A request that has written will end in a reload, unless it is refused.
Reading(p) == pc[p] \in {"rows", "widths", "validate", "pages", "zones"}

\* What is shown of a zone is what is stored, up to the plugin that a tap has yet to
\* store.
Agrees(z) ==
  /\ zones[z] = None <=> live[z] = None
  /\ zones[z] # None =>
       /\ live[z].page = zones[z].page /\ live[z].width = zones[z].width
       /\ \/ live[z].plugin = zones[z].plugin
          \/ \E t \in Taps : pc[t] = "persist" /\ loc[t].zone = z

\* A reload has read what is stored of the pages it has read.
ReadSoFar(l) == \A z \in ZoneIds :
  l.rows[z] = IF zones[z] = None \/ zones[z].page \in l.left THEN None ELSE View(zones[z])

\* The invariant behind DisplayShowsStore.
ShowInv ==
  ~behind /\ ~crossed =>
    /\ up => (\E p \in Editors : Reading(p)) \/ (Valid(zones) => \A z \in ZoneIds : Agrees(z))
    /\ \A p \in Editors : pc[p] = "zones" => ReadSoFar(loc[p])

\* Config.Validate looks at pages and widths only, ...
LEMMA SameValid ==
  ASSUME NEW t, NEW u, SameZones(t, u) PROVE Valid(t) <=> Valid(u)
<1>1. \A g : OnPage(t, g) = OnPage(u, g) /\ (Fills(t, g) <=> Fills(u, g))
  BY SameLayout
<1>2. HasZones(t) = HasZones(u)
  BY <1>1 DEF HasZones
<1>3. \A g : \A z \in OnPage(t, g) : ZoneValid(t[z]) <=> ZoneValid(u[z])
  BY DEF OnPage, SameZones, ZoneValid
<1>4. \A g : PageValid(t, g) <=> PageValid(u, g)
  BY <1>1, <1>3 DEF PageValid
<1> QED
  BY <1>2, <1>4 DEF Valid

\* ... which storeToZoneConfig passes on.
LEMMA SameShown == ASSUME NEW t \in Tables PROVE SameZones(t, storeToZoneConfig(t))
BY ViewsType DEF SameZones, storeToZoneConfig, View

\* A step that writes keeps ShowInv, because a reload follows and no other is under way.
LEMMA WrittenShow ==
  ASSUME ShowInv, NEW p \in Editors, Wrote(p), crossed \in BOOLEAN,
         \A q \in Editors \ {p} : pc'[q] = pc[q] /\ loc'[q] = loc[q],
         Reading(p)', pc'[p] # "zones"
  PROVE  ShowInv'
<1> SUFFICES ASSUME ~crossed' PROVE \A q \in Editors : pc'[q] # "zones"
  BY DEF ShowInv
<1>1. \A q \in Editors \ {p} : pc[q] = "idle"
  BY DEF Wrote, Overlapped
<1> QED
  BY <1>1

\* So does one of a request that is going to show what is stored, ...
LEMMA ReadShow ==
  ASSUME ShowInv, NEW p \in Editors, zones' = zones, behind' = behind, crossed' = crossed,
         \A q \in Editors \ {p} : pc'[q] = pc[q] /\ loc'[q] = loc[q],
         Reading(p)',
         ~behind /\ ~crossed /\ pc'[p] = "zones" => ReadSoFar(loc[p])'
  PROVE  ShowInv'
BY DEF ShowInv, ReadSoFar

\* ... and one of a request that has written nothing.
LEMMA AsideShow ==
  ASSUME ShowInv, NEW p \in Editors, zones' = zones, behind' = behind, crossed' = crossed,
         live' = live, up' = up,
         \A q \in (Editors \cup Taps) \ {p} : pc'[q] = pc[q] /\ loc'[q] = loc[q],
         ~Reading(p), pc'[p] # "zones"
  PROVE  ShowInv'
<1> SUFFICES ASSUME ~behind, ~crossed
             PROVE  /\ up => (\E q \in Editors : Reading(q)') \/ (Valid(zones) => \A z \in ZoneIds : Agrees(z)')
                    /\ \A q \in Editors : pc'[q] = "zones" => ReadSoFar(loc[q])'
  BY DEF ShowInv
<1>1. \A q \in Editors : Reading(q) => Reading(q)'
  BY DEF Reading
<1>2. \A t \in Taps : t # p => pc'[t] = pc[t] /\ loc'[t] = loc[t]
  OBVIOUS
<1>3. \A z \in ZoneIds : Agrees(z) => Agrees(z)'
  BY <1>2, ConstantsAssumption DEF Agrees
<1>4. \A q \in Editors : pc'[q] = "zones" => ReadSoFar(loc[q])'
  BY DEF ShowInv, ReadSoFar
<1> QED
  BY <1>1, <1>3, <1>4 DEF ShowInv

\* Every step of a layout request keeps ShowInv.  An update that is refused leaves a
\* layout that is not valid.
LEMMA EditorShow ==
  ASSUME Typed, WidthsInv, ShowInv, NEW p \in Editors, EditorStep(p) PROVE ShowInv'
<1>0. /\ Positions /\ Stored /\ Past /\ p \in Procs
      /\ loc[p] \in Locals /\ ShapeOf(p, pc[p], loc[p])
      /\ zones \in Tables /\ crossed \in BOOLEAN /\ behind \in BOOLEAN
  BY DEF Typed, Positions, Procs, Stored, Past
<1>a. /\ \A q \in Procs \ {p} : pc'[q] = pc[q] /\ loc'[q] = loc[q]
      /\ \A q \in Editors \ {p} : pc'[q] = pc[q] /\ loc'[q] = loc[q]
      /\ \A q \in (Editors \cup Taps) \ {p} : pc'[q] = pc[q] /\ loc'[q] = loc[q]
      /\ up' = up
  BY EditorAlone DEF Procs
<1> DEFINE l == loc[p]
<1>1. CASE CreatePage(p)
  BY <1>0, <1>1, <1>a, EnterAlone, WrittenShow DEF CreatePage, Reload, Reading
<1>2. CASE DeletePage(p)
  BY <1>0, <1>2, <1>a, EnterAlone, WrittenShow DEF DeletePage, Reload, Reading
<1>3. CASE Reorder(p)
  <2>1. /\ zones' = zones /\ behind' = behind /\ crossed' = crossed /\ pc'[p] = "pages"
    BY <1>0, <1>3, EnterAlone DEF Reorder, Reload, stored, history
  <2> QED
    BY <1>a, <2>1, ReadShow DEF Reading
<1>4. CASE handleCreateZone(p)
  <2>1. /\ zones' = zones /\ behind' = behind /\ crossed' = crossed /\ live' = live
        /\ pc[p] = "idle" /\ pc'[p] = "insert"
    BY <1>0, <1>4, EnterAlone DEF handleCreateZone, Idle, stored, history, shown
  <2> QED
    BY <1>a, <2>1, AsideShow DEF Reading
<1>5. CASE InsertZone(p)
  <2>1. CASE Insertable(l.zone, l.row)
    <3>1. pc'[p] = "rows" /\ Wrote(p)
      BY <1>0, <1>5, <2>1, EnterAlone DEF InsertZone
    <3> QED
      BY <1>0, <1>a, <3>1, WrittenShow DEF Reading
  <2>2. CASE ~Insertable(l.zone, l.row)
    <3>1. /\ zones' = zones /\ behind' = behind /\ crossed' = crossed /\ live' = live
          /\ pc[p] = "insert" /\ pc'[p] = "idle"
      BY <1>0, <1>5, <2>2, EnterAlone DEF InsertZone, At, Return, shown
    <3> QED
      BY <1>a, <3>1, AsideShow DEF Reading
  <2> QED
    BY <2>1, <2>2
<1>6. CASE ReadRows(p)
  <2>1. /\ zones' = zones /\ behind' = behind /\ crossed' = crossed /\ pc'[p] \in {"pages", "widths"}
    BY <1>0, <1>6, EnterAlone DEF ReadRows, Reload, stored, history
  <2> QED
    BY <1>a, <2>1, ReadShow DEF Reading
<1>7. CASE WriteRow(p)
  <2>1. pc[p] = "widths" /\ Wrote(p)
    BY <1>7 DEF WriteRow, At
  <2>2. Reload(p) \/ UNCHANGED pc
    BY <1>7 DEF WriteRow
  <2>3. pc'[p] \in {"pages", "widths"}
    BY <1>0, <2>1, <2>2, EnterAlone DEF Reload
  <2> QED
    BY <1>0, <1>a, <2>1, <2>3, WrittenShow DEF Reading
<1>8. CASE UpdateZone(p)
  <2>1. pc'[p] = "validate" /\ Wrote(p)
    BY <1>0, <1>8, EnterAlone DEF UpdateZone
  <2> QED
    BY <1>0, <1>a, <2>1, WrittenShow DEF Reading
<1>9. CASE ValidatePageWidth(p)
  <2>1. /\ zones' = zones /\ behind' = behind /\ crossed' = crossed /\ live' = live
        /\ pc[p] = "validate" /\ l.page \in PageIds
    BY <1>0, <1>9 DEF ValidatePageWidth, At, ShapeOf, stored, history, shown
  <2>2. CASE Fills(zones, l.page)
    <3>1. pc'[p] = "pages"
      BY <1>0, <1>9, <2>2, EnterAlone DEF ValidatePageWidth, Reload
    <3> QED
      BY <1>a, <2>1, <3>1, ReadShow DEF Reading
  <2>3. CASE ~Fills(zones, l.page)
    <3>1. pc'[p] = "idle"
      BY <1>0, <1>9, <2>3, EnterAlone DEF ValidatePageWidth, Return
    <3> SUFFICES ASSUME ~behind, ~crossed
                 PROVE  /\ ~Valid(zones)
                        /\ \A q \in Editors : pc'[q] = "zones" => ReadSoFar(loc[q])'
      BY <2>1 DEF ShowInv
    <3>2. OnPage(zones, l.page) # {}
      BY <2>1 DEF WidthsInv, Expected
    <3>3. ~Valid(zones)
      BY <2>1, <2>3, <3>2 DEF Valid, HasZones, PageValid
    <3>4. \A q \in Editors : pc'[q] = "zones" => ReadSoFar(loc[q])'
      BY <1>a, <2>1, <3>1 DEF ShowInv, ReadSoFar
    <3> QED
      BY <3>3, <3>4
  <2> QED
    BY <2>2, <2>3
<1>10. CASE GetZonePageID(p)
  <2>1. /\ zones' = zones /\ behind' = behind /\ crossed' = crossed /\ live' = live
        /\ pc[p] = "idle" /\ pc'[p] = "remove"
    BY <1>0, <1>10, EnterAlone DEF GetZonePageID, Idle, stored, history, shown
  <2> QED
    BY <1>a, <2>1, AsideShow DEF Reading
<1>11. CASE DeleteZone(p)
  <2>1. pc'[p] = "rows" /\ Wrote(p)
    BY <1>0, <1>11, EnterAlone DEF DeleteZone
  <2> QED
    BY <1>0, <1>a, <2>1, WrittenShow DEF Reading
<1>12. CASE GetPages(p)
  <2> DEFINE n == [NoLocals EXCEPT !.left = pages]
  <2>1. n.left = pages /\ n.rows = NoRows /\ Enter(p, "zones", n)
    BY <1>12 DEF GetPages, NoLocals
  <2> HIDE DEF n
  <2>2. pc'[p] = "zones" /\ loc'[p] = n /\ zones' = zones
    BY <1>0, <1>12, <2>1, EnterAlone DEF GetPages, stored
  <2> SUFFICES ASSUME ~behind', ~crossed', NEW q \in Editors, pc'[q] = "zones"
               PROVE  ReadSoFar(loc[q])'
    BY <2>2 DEF ShowInv, Reading
  <2>3. CASE q = p
    BY <1>0, <2>1, <2>2, <2>3 DEF ReadSoFar, NoRows, Stored
  <2>4. CASE q # p
    <3>1. Overlapped(p)
      BY <1>a, <2>4 DEF Overlapped
    <3>2. ~behind /\ ~crossed
      BY <1>12, <3>1 DEF GetPages
    <3> QED
      BY <1>a, <2>2, <2>4, <3>2 DEF ShowInv, ReadSoFar
  <2> QED
    BY <2>3, <2>4
<1>13. CASE GetZonesForPage(p)
  <2>1. /\ pc[p] = "zones" /\ pc' = pc
        /\ zones' = zones /\ behind' = behind /\ crossed' = crossed
    BY <1>13 DEF GetZonesForPage, At, stored, history
  <2>2. PICK g \in l.left :
          loc' = [loc EXCEPT ![p].left = @ \ {g}, ![p].rows = [z \in ZoneIds |->
                    IF z \in OnPage(zones, g) THEN storeToZoneConfig(zones)[z] ELSE @[z]]]
    BY <1>13 DEF GetZonesForPage
  <2>3. /\ loc'[p].left = l.left \ {g}
        /\ loc'[p].rows = [z \in ZoneIds |-> IF z \in OnPage(zones, g)
                                             THEN storeToZoneConfig(zones)[z] ELSE l.rows[z]]
    BY <1>0, <2>2 DEF Positions, Locals
  <2>4. ASSUME ReadSoFar(l) PROVE ReadSoFar(loc[p])'
    <3> SUFFICES ASSUME NEW z \in ZoneIds
                 PROVE  loc'[p].rows[z] = IF zones[z] = None \/ zones[z].page \in loc'[p].left
                                          THEN None ELSE View(zones[z])
      BY <2>1 DEF ReadSoFar
    <3> QED
      BY <2>3, <2>4 DEF ReadSoFar, OnPage, storeToZoneConfig
  <2>5. ~behind /\ ~crossed => ReadSoFar(l)
    BY <2>1 DEF ShowInv
  <2> QED
    BY <1>a, <2>1, <2>4, <2>5, ReadShow DEF Reading
<1>14. CASE Show(p)
  <2>1. /\ pc[p] = "zones" /\ pc'[p] = "idle" /\ l.left = {}
        /\ zones' = zones /\ behind' = behind /\ crossed' = crossed
        /\ live' = IF Valid(l.rows) THEN l.rows ELSE live
    BY <1>0, <1>14, EnterAlone DEF Show, At, Return, stored, history
  <2> SUFFICES ASSUME ~behind, ~crossed
               PROVE  /\ Valid(zones) => \A z \in ZoneIds : Agrees(z)'
                      /\ \A q \in Editors : pc'[q] = "zones" => ReadSoFar(loc[q])'
    BY <2>1 DEF ShowInv
  <2>2. \A q \in Editors : pc'[q] = "zones" => ReadSoFar(loc[q])'
    BY <1>a, <2>1 DEF ShowInv, ReadSoFar
  <2>3. l.rows = storeToZoneConfig(zones)
    <3>1. l.rows \in [ZoneIds -> Views \cup {None}]
      BY <1>0, <2>1 DEF ShapeOf
    <3>2. \A z \in ZoneIds : l.rows[z] = IF zones[z] = None THEN None ELSE View(zones[z])
      BY <2>1 DEF ShowInv, ReadSoFar
    <3> QED
      BY <3>1, <3>2 DEF storeToZoneConfig
  <2>4. Valid(zones) <=> Valid(l.rows)
    BY <1>0, <2>3, SameShown, SameValid
  <2>5. ASSUME Valid(zones), NEW z \in ZoneIds PROVE Agrees(z)'
    <3>1. live'[z] = IF zones[z] = None THEN None ELSE View(zones[z])
      BY <2>1, <2>3, <2>4, <2>5 DEF storeToZoneConfig
    <3> QED
      BY <1>0, <2>1, <3>1, ViewsType DEF Agrees, View
  <2> QED
    BY <2>2, <2>5
<1> QED
  BY <1>1, <1>2, <1>3, <1>4, <1>5, <1>6, <1>7, <1>8, <1>9, <1>10, <1>11, <1>12, <1>13, <1>14
     DEF EditorStep

\* Taps keep it: the plugin of a zone is shown first, and stored then.
LEMMA TapShow == ASSUME Typed, ShowInv, NEW t \in Taps, TapStep(t) PROVE ShowInv'
<1>0. /\ Positions /\ Stored /\ Shown /\ t \in Procs
      /\ loc[t] \in Locals /\ ShapeOf(t, pc[t], loc[t])
      /\ zones \in Tables /\ live \in [ZoneIds -> Views \cup {None}]
  BY DEF Typed, Positions, Procs, Stored, Shown
<1>1. /\ \A q \in Procs \ {t} : pc'[q] = pc[q] /\ loc'[q] = loc[q]
      /\ \A q \in Editors : pc'[q] = pc[q] /\ loc'[q] = loc[q]
      /\ SameZones(zones, zones') /\ crossed' = crossed /\ up' = up
  BY TapAlone, ConstantsAssumption DEF Procs
<1>2. (Valid(zones) <=> Valid(zones')) /\ \A p \in Editors : Reading(p) <=> Reading(p)'
  BY <1>1, SameValid DEF Reading
<1>3. ASSUME behind' => behind, behind => behind', zones' = zones,
             \A z \in ZoneIds : Agrees(z) => Agrees(z)'
      PROVE  ShowInv'
  BY <1>1, <1>2, <1>3 DEF ShowInv, ReadSoFar
<1> DEFINE l == loc[t]
<1>4. CASE Cycle(t)
  <2>1. PICK z \in ZoneIds, next \in Plugins :
          /\ live[z] # None
          /\ live' = [live EXCEPT ![z].plugin = next]
          /\ Enter(t, "persist", [NoLocals EXCEPT !.zone = z, !.what = next])
    BY <1>4, ConstantsAssumption DEF Cycle
  <2> DEFINE n == [NoLocals EXCEPT !.zone = z, !.what = next]
  <2>2. n.zone = z /\ Enter(t, "persist", n)
    BY <2>1 DEF NoLocals
  <2> HIDE DEF n
  <2>3. pc[t] = "idle" /\ pc'[t] = "persist" /\ loc'[t].zone = z /\ zones' = zones /\ behind' = behind
    BY <1>0, <1>4, <2>2, EnterAlone DEF Cycle, Idle, stored, history
  <2>4. /\ \A y \in ZoneIds : y # z => live'[y] = live[y]
        /\ live[z] \in Views /\ live'[z] = [live[z] EXCEPT !.plugin = next]
    BY <1>0, <2>1
  <2>5. live'[z] \in Views /\ live'[z].page = live[z].page /\ live'[z].width = live[z].width
        /\ live'[z] # None
    BY <2>4, ConstantsAssumption DEF Views
  <2>6. ASSUME NEW y \in ZoneIds, Agrees(y) PROVE Agrees(y)'
    <3>1. CASE y = z
      BY <2>1, <2>3, <2>5, <2>6, <3>1 DEF Agrees
    <3>2. CASE y # z
      BY <1>1, <2>3, <2>4, <2>6, <3>2 DEF Agrees, Procs
    <3> QED
      BY <3>1, <3>2
  <2> QED
    BY <1>3, <2>3, <2>6
<1>5. CASE SetZonePlugin(t)
  <2> DEFINE z == l.zone
  <2>1. /\ pc[t] = "persist" /\ z \in ZoneIds /\ l.what \in Plugins /\ live' = live
        /\ StoreSetZonePlugin(z, l.what)
        /\ behind' = (\/ behind \/ \E p \in Editors : pc[p] = "zones"
                      \/ live[z] # None /\ live[z].plugin # l.what)
    BY <1>0, <1>5 DEF SetZonePlugin, At, ShapeOf, TapSteps, shown
  <2> SUFFICES ASSUME ~behind', ~crossed',
                      up => (\E p \in Editors : Reading(p)) \/ (Valid(zones) => \A y \in ZoneIds : Agrees(y)),
                      NEW y \in ZoneIds, Agrees(y)
               PROVE  Agrees(y)'
    BY <1>1, <1>2, <2>1 DEF ShowInv
  <2>2. /\ zones'[y] = None <=> zones[y] = None
        /\ zones[y] # None => zones'[y].page = zones[y].page /\ zones'[y].width = zones[y].width
    BY <1>1 DEF SameZones
  <2>3. CASE y = z
    <3>1. zones[z] # None => live[z] # None /\ live[z].plugin = l.what
      BY <2>1, <2>3 DEF Agrees
    <3>2. zones[z] # None => zones'[z].plugin = l.what
      <4> SUFFICES ASSUME zones[z] # None PROVE zones'[z].plugin = l.what
        OBVIOUS
      <4>1. zones[z] \in Rows
        BY <1>0, <2>1 DEF Tables
      <4>2. zones'[z] = [zones[z] EXCEPT !.plugin = l.what]
        BY <1>0, <2>1, StorePluginType DEF Tables
      <4> QED
        BY <4>1, <4>2 DEF Rows
    <3> QED
      BY <2>1, <2>2, <2>3, <3>1, <3>2 DEF Agrees
  <2>4. CASE y # z
    <3>1. zones'[y] = zones[y]
      BY <1>0, <2>1, <2>4, StorePluginType DEF Tables
    <3> QED
      BY <1>1, <2>1, <2>4, <3>1 DEF Agrees, Procs
  <2> QED
    BY <2>3, <2>4
<1>6. CASE DropPlugin(t) \/ Launch(t) \/ Configure(t)
  <2>1. pc[t] # "persist" /\ live' = live /\ zones' = zones /\ behind' = behind
    BY <1>6 DEF DropPlugin, Launch, Configure, At, shown, stored, history
  <2>2. \A y \in ZoneIds : Agrees(y) => Agrees(y)'
    BY <1>1, <2>1 DEF Agrees, Procs
  <2> QED
    BY <1>3, <2>1, <2>2
<1> QED
  BY <1>4, <1>5, <1>6 DEF TapStep

\* Configuration requests keep it.
LEMMA SetterShow == ASSUME Typed, ShowInv, NEW s \in Setters, SetterStep(s) PROVE ShowInv'
<1>1. /\ SameZones(zones, zones') /\ live' = live
      /\ \A z \in ZoneIds : zones[z] # None => View(zones'[z]) = View(zones[z])
      /\ crossed' = crossed /\ behind' = behind /\ up' = up
      /\ \A q \in Editors \cup Taps : pc'[q] = pc[q] /\ loc'[q] = loc[q]
  BY SetterAlone, ConstantsAssumption DEF Procs
<1>2. (Valid(zones) <=> Valid(zones')) /\ \A p \in Editors : Reading(p) <=> Reading(p)'
  BY <1>1, SameValid DEF Reading
<1>3. \A z \in ZoneIds : zones[z] # None => zones'[z].plugin = zones[z].plugin
  BY <1>1 DEF View
<1>4. \A z \in ZoneIds : Agrees(z) => Agrees(z)'
  BY <1>1, <1>3 DEF Agrees, SameZones
<1>5. \A p \in Editors : ReadSoFar(loc[p]) => ReadSoFar(loc[p])'
  BY <1>1 DEF ReadSoFar, SameZones
<1> QED
  BY <1>1, <1>2, <1>4, <1>5 DEF ShowInv

\* A restart shows what is stored, if it is up.
LEMMA RestartShow == ASSUME Typed, Restart PROVE ShowInv'
<1>1. /\ up' => live' = storeToZoneConfig(zones)'
      /\ \A p \in Editors : pc'[p] = "idle"
  BY DEF Restart, Procs
<1>2. zones' \in Tables
  BY RestartTyped DEF Typed, Stored
<1>3. ASSUME up', NEW z \in ZoneIds PROVE Agrees(z)'
  <2>1. live'[z] = IF zones'[z] = None THEN None ELSE View(zones'[z])
    BY <1>1, <1>3 DEF storeToZoneConfig
  <2> QED
    BY <1>2, <2>1, ViewsType DEF Agrees, View
<1> QED
  BY <1>1, <1>3 DEF ShowInv

\* ShowInv holds at the start, ...
LEMMA InitShow == Init => ShowInv
<1> SUFFICES ASSUME Init PROVE ShowInv
  OBVIOUS
<1>1. live = storeToZoneConfig(zones) /\ zones \in Tables /\ \A p \in Editors : pc[p] = "idle"
  BY FactoryType DEF Init, Procs
<1>2. ASSUME NEW z \in ZoneIds PROVE Agrees(z)
  <2>1. live[z] = IF zones[z] = None THEN None ELSE View(zones[z])
    BY <1>1 DEF storeToZoneConfig
  <2> QED
    BY <1>1, <2>1, ViewsType DEF Agrees, View
<1> QED
  BY <1>1, <1>2 DEF ShowInv

\* ... and every step keeps it.
LEMMA NextShow == Typed /\ WidthsInv /\ ShowInv /\ [Next]_vars => ShowInv'
<1> SUFFICES ASSUME Typed, WidthsInv, ShowInv, [Next]_vars PROVE ShowInv'
  OBVIOUS
<1>1. CASE UNCHANGED <<up, zones, live, pc, loc, behind, crossed>>
  <2>1. \A p \in Editors : (Reading(p) <=> Reading(p)') /\ (ReadSoFar(loc[p]) <=> ReadSoFar(loc[p])')
    BY <1>1 DEF Reading, ReadSoFar
  <2>2. \A z \in ZoneIds : Agrees(z) <=> Agrees(z)'
    BY <1>1 DEF Agrees
  <2> QED
    BY <1>1, <2>1, <2>2 DEF ShowInv
<1>2. CASE CrashStore
  BY <1>1, <1>2 DEF CrashStore, daemon, stored, shown
<1>3. CASE UNCHANGED vars
  BY <1>1, <1>3 DEF vars
<1> QED
  BY <1>2, <1>3, EditorShow, TapShow, SetterShow, RestartShow DEF Next

\* When no layout request and no tap is under way the device shows what is stored, if
\* that is valid, but for a tap between the reads of a reload and requests that overlapped.
THEOREM DisplayShowsStoreAlways == Spec => []DisplayShowsStore
<1>1. Typed /\ ShowInv => DisplayShowsStore
  <2> SUFFICES ASSUME Typed, ShowInv, Quiet(Editors \cup Taps), ~behind, ~crossed, Valid(zones)
               PROVE  live = storeToZoneConfig(zones)
    BY DEF DisplayShowsStore
  <2>1. \A p \in Editors : ~Reading(p)
    BY DEF Quiet, Reading
  <2>2. \A z \in ZoneIds : Agrees(z)
    BY <2>1 DEF ShowInv, Quiet
  <2>3. live \in [ZoneIds -> Views \cup {None}] /\ zones \in Tables
    BY DEF Typed, Shown, Stored
  <2>4. ASSUME NEW z \in ZoneIds PROVE live[z] = IF zones[z] = None THEN None ELSE View(zones[z])
    <3>1. CASE zones[z] = None
      BY <2>2, <3>1 DEF Agrees
    <3>2. CASE zones[z] # None
      <4>1. live[z] # None /\ live[z].page = zones[z].page /\ live[z].width = zones[z].width
        BY <2>2, <3>2 DEF Agrees
      <4>2. live[z].plugin = zones[z].plugin
        BY <2>2, <3>2 DEF Agrees, Quiet
      <4>3. live[z] \in Views
        BY <2>3, <4>1
      <4> QED
        BY <3>2, <4>1, <4>2, <4>3 DEF Views, View
    <3> QED
      BY <3>1, <3>2
  <2> QED
    BY <2>3, <2>4 DEF storeToZoneConfig
<1> QED
  BY <1>1, InitTyped, NextTyped, InitWidths, NextWidths, InitShow, NextShow, PTL DEF Spec
=============================================================================
