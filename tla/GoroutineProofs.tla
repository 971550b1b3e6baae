---------------------------- MODULE GoroutineProofs ----------------------------
(***************************************************************************)
(* Proofs about the daemon as a whole: its starts (Startup), and the       *)
(* mutexes its goroutines take once it runs (ManagerLocks).                *)
(*                                                                         *)
(* Startup, for any images and any capacity of the settings channel:       *)
(* types; the migrations of the database; what a start does to the         *)
(* settings; and that memory, database and display agree on them.          *)
(*                                                                         *)
(* ManagerLocks, for any number of goroutines: they take the mutexes in an *)
(* order, so that they never wait in a ring, and they access what the      *)
(* mutexes guard one at a time.                                            *)
(***************************************************************************)
EXTENDS Startup, ManagerLocks, SequenceTheorems, TLAPS

\* The steps that leave the file, the settings and the display alone.
Quiet == Start \/ Migrated \/ InitDevice \/ Serve

LEMMA FirstRunType == TypeOK => FirstRun \in BOOLEAN
BY DEF FirstRun, TypeOK, Database, currentSchemaVersion

LEMMA SettingsTypes ==
  /\ Default \in Settings
  /\ \A s \in LegacyFiles : s # Nothing /\ Validate(s) => s \in Settings
  /\ \A s \in Settings \cup {Malformed} : Validate(s) => s \in Settings
  /\ \A s \in Settings \cup {Nothing} : Loaded(s) \in Settings
  /\ \A s \in Settings : Shown(s) \in Images \cup {NoImage}
BY ConstantsAssumption DEF Settings, LegacyFiles, Validate, Loaded, getOrDefault, Shown

LEMMA ChannelTypes ==
  /\ Capacity \in Nat
  /\ <<>> \in Seq(Settings) /\ Len(<<>>) <= Capacity
  /\ settingsCh \in Seq(Settings) => Len(settingsCh) \in Nat
<1>1. Capacity \in Nat
  BY ConstantsAssumption
<1> QED BY <1>1

LEMMA SchemaTypes ==
  /\ \A v \in -1..currentSchemaVersion, old \in BOOLEAN : SchemaOf(v, old) \subseteq Parts
  /\ \A s \in SUBSET Parts : /\ V1(s) \subseteq Parts /\ V2(s) \subseteq Parts
                             /\ V3(s) \subseteq Parts /\ V5(s) \subseteq Parts
BY DEF SchemaOf, Parts, V1, V2, V3, V5

\* A migration makes a file of a file.
LEMMA MigrationType ==
  ASSUME NEW d \in Database, NEW n \in 1..currentSchemaVersion
  PROVE  [Migration(n, d) EXCEPT !.version = n] \in Database
<1>1. /\ n = 1 => Migration(n, d) = [d EXCEPT !.schema = V1(@)]
      /\ n = 2 => Migration(n, d) = [d EXCEPT !.schema = V2(@)]
      /\ n = 3 => Migration(n, d) = [d EXCEPT !.schema = V3(@)]
      /\ n = 4 => Migration(n, d) = [d EXCEPT !.marks = @ \ {"path"}]
      /\ n = 5 => Migration(n, d) = [d EXCEPT !.schema = V5(@), !.side = "none",
                                               !.zone = Merged(d)]
      /\ n = 6 => Migration(n, d) = [d EXCEPT !.schema = @ \cup {"zones.on_tap"}]
      /\ n = 7 => Migration(n, d) = [d EXCEPT !.schema = @ \cup {"payload_cache"}]
      /\ n = 8 => Migration(n, d) = [d EXCEPT !.marks = @ \ {"tap"}]
  BY DEF Migration
<1>2. d.schema \in SUBSET Parts
  BY DEF Database
<1>3. Merged(d) \in Configs
  BY DEF Database, Merged, Configs
<1>4. n \in {1, 2, 3, 4, 5, 6, 7, 8} /\ n \in -1..currentSchemaVersion
  BY DEF currentSchemaVersion
<1>5. "zones.on_tap" \in Parts /\ "payload_cache" \in Parts
  BY DEF Parts
<1>6. CASE n \in {1, 2, 3}
  BY <1>1, <1>2, <1>4, <1>6, SchemaTypes DEF Database, currentSchemaVersion
<1>7. CASE n \in {4, 8}
  BY <1>1, <1>2, <1>4, <1>7 DEF Database, currentSchemaVersion
<1>8. CASE n = 5
  <2>1. V5(d.schema) \in SUBSET Parts
    BY <1>2, SchemaTypes
  <2>3. [Migration(n, d) EXCEPT !.version = n]
          = [d EXCEPT !.schema = V5(d.schema), !.side = "none", !.version = n,
                      !.zone = Merged(d)]
    BY <1>1, <1>8
  <2> QED BY <1>3, <1>4, <2>1, <2>3 DEF Database, Configs
<1>9. CASE n \in {6, 7}
  BY <1>1, <1>2, <1>4, <1>5, <1>9 DEF Database, currentSchemaVersion
<1> QED BY <1>4, <1>6, <1>7, <1>8, <1>9

\* Open has made the table of versions before a migration looks at it.
Opened == pc = "migrate" => db.version >= 0
Typed == TypeOK /\ Opened

LEMMA InitType == Init => Typed
<1> SUFFICES ASSUME Init PROVE Typed
  OBVIOUS
<1>1. PICK v \in -1..currentSchemaVersion, old \in BOOLEAN, z \in Configs,
           s \in Configs, image \in Settings \cup {Nothing} :
       db = FileOf(v, old, z, s, image)
  BY DEF Init
<1>2. (v >= 2) \in BOOLEAN /\ SchemaOf(v, old) \subseteq Parts
  BY SchemaTypes DEF currentSchemaVersion
<1>3. db \in Database
  BY <1>1, <1>2 DEF FileOf, Database
<1>4. settingsCh \in Seq(Settings) /\ Len(settingsCh) <= Capacity
  BY ChannelTypes DEF Init
<1> QED BY <1>3, <1>4, SettingsTypes, ConstantsAssumption DEF Init, Configs, TypeOK, Typed, Opened

\* What the steps of a start do to the types.
LEMMA StartType ==
  ASSUME Typed,
         \/ Quiet \/ Open \/ Migrate \/ NewSettings \/ ImportFromYAML \/ NewManager
         \/ WireCallbacks \/ Exit
  PROVE  TypeOK'
<1>i. TypeOK /\ (pc = "migrate" => db.version >= 0)
  BY DEF Typed, Opened
<1>t. /\ db \in Database /\ yaml \in LegacyFiles /\ cfg \in Settings
      /\ db.version \in -1..currentSchemaVersion /\ db.settings \in Settings \cup {Nothing}
      /\ db.zone \in Configs
  BY <1>i DEF TypeOK, Database
<1>1. CASE Quiet
  BY <1>1, <1>i DEF Quiet, Start, Migrated, InitDevice, Serve, running, ghosts, TypeOK
<1>2. CASE Open
  <2>1. db' \in Database
    BY <1>2, <1>t DEF Open, Database, currentSchemaVersion
  <2> QED BY <1>2, <1>i, <2>1, FirstRunType DEF Open, running, ghosts, TypeOK
<1>3. CASE Migrate
  <2>1. db' \in Database
    <3>1. db.version + 1 \in 1..currentSchemaVersion
      BY <1>3, <1>i, <1>t DEF Migrate, currentSchemaVersion
    <3> QED BY <1>3, <1>i, <1>t, <3>1, MigrationType DEF Migrate
  <2>2. pc' \in {pc, "failed"}
    BY <1>3 DEF Migrate
  <2> QED BY <1>3, <1>i, <2>1, <2>2 DEF Migrate, running, ghosts, TypeOK
<1>4. CASE NewSettings
  BY <1>4, <1>i, <1>t, SettingsTypes DEF NewSettings, running, ghosts, TypeOK
<1>5. CASE ImportFromYAML
  <2>1. db' \in Database /\ cfg' \in Settings /\ missed' \in BOOLEAN /\ unsaved' \in BOOLEAN
    <3>1. CASE yaml = Nothing \/ ~Validate(yaml)
      BY <1>5, <1>i, <3>1 DEF ImportFromYAML, TypeOK
    <3>2. CASE ~(yaml = Nothing \/ ~Validate(yaml))
      <4>1. yaml \in Settings
        BY <1>t, <3>2, SettingsTypes
      <4>2. [db EXCEPT !.settings = yaml] \in Database
        BY <1>t, <4>1 DEF Database
      <4> QED BY <1>5, <1>i, <3>2, <4>1, <4>2 DEF ImportFromYAML, SetSettings, TypeOK
    <3> QED BY <3>1, <3>2
  <2> QED BY <1>5, <1>i, <2>1 DEF ImportFromYAML, running, TypeOK
<1>6. CASE NewManager
  <2>1. [db EXCEPT !.pages = TRUE, !.zone = "none"] \in Database
    BY <1>t DEF Database, Configs
  <2> QED BY <1>6, <1>i, <1>t, <2>1 DEF NewManager, running, ghosts, TypeOK
<1>7. CASE WireCallbacks
  BY <1>7, <1>i, <1>t, SettingsTypes DEF WireCallbacks, Apply, TypeOK
<1>8. CASE Exit
  <2>1. missed' \in BOOLEAN
    BY <1>8, <1>i DEF Exit, TypeOK
  <2>2. settingsCh' \in Seq(Settings) /\ Len(settingsCh') <= Capacity
    BY <1>8, ChannelTypes DEF Exit
  <2> QED BY <1>8, <1>i, <2>1, <2>2, SettingsTypes, ConstantsAssumption DEF Exit, Configs, TypeOK
<1> QED BY <1>1, <1>2, <1>3, <1>4, <1>5, <1>6, <1>7, <1>8

\* What happens while it runs.
LEMMA RunType ==
  ASSUME TypeOK,
         \/ \E s \in Settings \cup {Malformed} : Update(s)
         \/ Watch \/ TurnPage
         \/ \E i \in Images : SaveImage(i) \/ DeleteImage(i)
  PROVE  TypeOK'
<1>t. /\ db \in Database /\ settingsCh \in Seq(Settings) /\ Len(settingsCh) <= Capacity
      /\ Len(settingsCh) \in Nat /\ Capacity \in Nat
  BY ChannelTypes DEF TypeOK
<1>1. CASE \E s \in Settings \cup {Malformed} : Update(s)
  <2>1. PICK s \in Settings \cup {Malformed} : Update(s)
    BY <1>1
  <2>2. s \in Settings
    BY <2>1, SettingsTypes DEF Update
  <2>3. db' \in Database
    BY <1>t, <2>1, <2>2 DEF Update, SetSettings, Database
  <2>4. /\ settingsCh' \in Seq(Settings) /\ Len(settingsCh') <= Capacity
        /\ dropped' \in BOOLEAN /\ unsaved' \in BOOLEAN
    <3>1. CASE notifyWatchers(s) /\ unsaved' = FALSE
      <4>1. CASE Len(settingsCh) < Capacity
        <5>1. settingsCh' = Append(settingsCh, s) /\ dropped' = FALSE
          BY <3>1, <4>1 DEF notifyWatchers
        <5>2. settingsCh' \in Seq(Settings) /\ Len(settingsCh') = Len(settingsCh) + 1
          BY <1>t, <2>2, <5>1
        <5>3. Len(settingsCh') <= Capacity
          BY <1>t, <4>1, <5>2
        <5> QED BY <3>1, <5>1, <5>2, <5>3
      <4>2. CASE ~(Len(settingsCh) < Capacity)
        BY <1>t, <3>1, <4>2 DEF notifyWatchers
      <4> QED BY <4>1, <4>2
    <3>2. CASE unsaved' = TRUE /\ UNCHANGED <<db, settingsCh, dropped>>
      BY <1>t, <3>2 DEF TypeOK
    <3> QED BY <2>1, <3>1, <3>2 DEF Update
  <2> QED BY <2>1, <2>2, <2>3, <2>4 DEF Update, TypeOK
<1>2. CASE Watch
  <2>1. Head(settingsCh) \in Settings /\ Tail(settingsCh) \in Seq(Settings)
    BY <1>2, <1>t DEF Watch
  <2>2. Len(Tail(settingsCh)) <= Capacity
    BY <1>2, <1>t, ConstantsAssumption DEF Watch
  <2> QED BY <1>2, <2>1, <2>2, SettingsTypes DEF Watch, Apply, TypeOK
<1>3. CASE TurnPage
  BY <1>3 DEF TurnPage, TypeOK
<1>4. CASE \E i \in Images : SaveImage(i) \/ DeleteImage(i)
  BY <1>4 DEF SaveImage, DeleteImage, ghosts, TypeOK
<1> QED BY <1>1, <1>2, <1>3, <1>4

LEMMA NextType == Typed /\ [Next]_vars => Typed'
<1> SUFFICES ASSUME Typed, [Next]_vars PROVE Typed'
  OBVIOUS
<1>t. TypeOK /\ Opened /\ db.version \in -1..currentSchemaVersion
  BY DEF Typed, TypeOK, Database
<1>1. TypeOK'
  <2>1. CASE UNCHANGED vars
    BY <1>t, <2>1 DEF vars, running, ghosts, TypeOK
  <2> QED BY <1>t, <2>1, StartType, RunType DEF Next, Quiet
<1>2. Opened'
  <2>1. CASE Open
    BY <1>t, <2>1 DEF Open, Opened, TypeOK, Database, currentSchemaVersion
  <2>2. CASE Migrate
    BY <1>t, <2>2, <1>1 DEF Migrate, Opened, TypeOK, Database, currentSchemaVersion
  <2>3. CASE pc' # "migrate" \/ (UNCHANGED <<db, pc>>)
    BY <1>t, <2>3 DEF Opened
  <2> QED BY <2>1, <2>2, <2>3
        DEF Next, Start, Migrated, NewSettings, ImportFromYAML, InitDevice, NewManager,
            WireCallbacks, Serve, Exit, Watch, TurnPage, Update, SaveImage, DeleteImage,
            vars, ghosts
<1> QED BY <1>1, <1>2 DEF Typed

\* The file, the settings and the display keep their types, whatever the images.
THEOREM TypeCorrect == Spec => []TypeOK
<1>1. Typed => TypeOK
  BY DEF Typed
<1> QED BY <1>1, InitType, NextType, PTL DEF Spec

-----------------------------------------------------------------------------
(* The migrations *)

\* What a file of schema d.version looks like.
FileFits(d) ==
  /\ \E old \in BOOLEAN : d.schema = SchemaOf(d.version, old)
  /\ "path" \in d.marks => d.version \in 2..3
  /\ "tap" \in d.marks => d.version \in 6..7
  /\ d.side # "none" => d.version \in 1..4

LEMMA SchemaSteps ==
  ASSUME NEW old \in BOOLEAN
  PROVE  /\ V1(SchemaOf(0, old)) = SchemaOf(1, FALSE)
         /\ V2(SchemaOf(1, old)) = SchemaOf(2, old)
         /\ V3(SchemaOf(2, old)) = SchemaOf(3, old)
         /\ SchemaOf(3, old) = SchemaOf(4, old)
         /\ V5(SchemaOf(4, old)) = SchemaOf(5, old)
         /\ SchemaOf(5, old) \cup {"zones.on_tap"} = SchemaOf(6, old)
         /\ SchemaOf(6, old) \cup {"payload_cache"} = SchemaOf(7, old)
         /\ SchemaOf(7, old) = SchemaOf(8, old)
<1>1. V1(SchemaOf(0, old)) = SchemaOf(1, FALSE)
  BY DEF SchemaOf, V1
<1>2. V2(SchemaOf(1, old)) = SchemaOf(2, old)
  BY DEF SchemaOf, V2
<1>3. V3(SchemaOf(2, old)) = SchemaOf(3, old)
  BY DEF SchemaOf, V3
<1>4. V5(SchemaOf(4, old)) = SchemaOf(5, old)
  BY DEF SchemaOf, V5
<1>5. /\ SchemaOf(3, old) = SchemaOf(4, old) /\ SchemaOf(7, old) = SchemaOf(8, old)
      /\ SchemaOf(5, old) \cup {"zones.on_tap"} = SchemaOf(6, old)
      /\ SchemaOf(6, old) \cup {"payload_cache"} = SchemaOf(7, old)
  BY DEF SchemaOf
<1> QED BY <1>1, <1>2, <1>3, <1>4, <1>5

LEMMA SchemaNeeds ==
  ASSUME NEW old \in BOOLEAN
  PROVE  /\ ~({"zone_module_config", "zone_plugin_config"} \subseteq SchemaOf(2, old))
         /\ "zones.module" \in SchemaOf(3, old)
         /\ {"zone_plugin_config", "zones.module"} \subseteq SchemaOf(4, old)
         /\ "zones.plugin" \in SchemaOf(5, old) /\ "zones.on_tap" \notin SchemaOf(5, old)
         /\ "zones.on_tap" \in SchemaOf(7, old)
BY DEF SchemaOf

\* The next migration of a file that fits its version is accepted, and the file fits the
\* version after it.
LEMMA MigrationFits ==
  ASSUME NEW d \in Database, FileFits(d), NEW n \in 1..currentSchemaVersion, n = d.version + 1
  PROVE  Accepted(n, d) /\ FileFits([Migration(n, d) EXCEPT !.version = n])
<1> DEFINE e == [Migration(n, d) EXCEPT !.version = n]
<1>1. PICK old \in BOOLEAN : d.schema = SchemaOf(d.version, old)
  BY DEF FileFits
<1>2. n \in {1, 2, 3, 4, 5, 6, 7, 8} /\ n = d.version + 1 /\ d.version \in Int
  BY DEF currentSchemaVersion, Database
<1>3. /\ "path" \in d.marks => d.version \in 2..3
      /\ "tap" \in d.marks => d.version \in 6..7
      /\ d.side # "none" => d.version \in 1..4
  BY DEF FileFits
<1>4. SUFFICES /\ Accepted(n, d)
               /\ \E o \in BOOLEAN : e.schema = SchemaOf(n, o)
               /\ e.version = n
               /\ "path" \in e.marks => n \in 2..3
               /\ "tap" \in e.marks => n \in 6..7
               /\ e.side # "none" => n \in 1..4
  BY DEF FileFits
<1>5. CASE n = 1
  <2>v. d.version = 0
    BY <1>2, <1>5
  <2>1. d.schema = SchemaOf(0, old)
    BY <1>1, <2>v
  <2>2. e.schema = V1(d.schema) /\ e.marks = d.marks /\ e.side = d.side /\ e.version = 1
    BY <1>5 DEF Migration, Database
  <2>3. e.schema = SchemaOf(1, FALSE)
    BY <2>1, <2>2, SchemaSteps
  <2>4. \E o \in BOOLEAN : e.schema = SchemaOf(n, o)
    BY <1>5, <2>3
  <2> QED BY <1>3, <1>5, <2>v, <2>2, <2>4 DEF Accepted
<1>6. CASE n = 2
  <2>v. d.version = 1
    BY <1>2, <1>6
  <2>1. d.schema = SchemaOf(1, old)
    BY <1>1, <2>v
  <2>2. e.schema = V2(d.schema) /\ e.marks = d.marks /\ e.side = d.side /\ e.version = 2
    BY <1>6 DEF Migration, Database
  <2>3. e.schema = SchemaOf(2, old)
    BY <2>1, <2>2, SchemaSteps
  <2> QED BY <1>3, <1>6, <2>v, <2>1, <2>2, <2>3 DEF Accepted
<1>7. CASE n = 3
  <2>v. d.version = 2
    BY <1>2, <1>7
  <2>1. d.schema = SchemaOf(2, old)
    BY <1>1, <2>v
  <2>2. e.schema = V3(d.schema) /\ e.marks = d.marks /\ e.side = d.side /\ e.version = 3
    BY <1>7 DEF Migration, Database
  <2>3. e.schema = SchemaOf(3, old)
    BY <2>1, <2>2, SchemaSteps
  <2>4. ~({"zone_module_config", "zone_plugin_config"} \subseteq d.schema)
    BY <2>1, SchemaNeeds
  <2> QED BY <1>3, <1>7, <2>v, <2>1, <2>2, <2>3, <2>4 DEF Accepted
<1>8. CASE n = 4
  <2>v. d.version = 3
    BY <1>2, <1>8
  <2>1. d.schema = SchemaOf(3, old)
    BY <1>1, <2>v
  <2>2. e.schema = d.schema /\ e.marks = d.marks \ {"path"} /\ e.side = d.side /\ e.version = 4
    BY <1>8 DEF Migration, Database
  <2>3. e.schema = SchemaOf(4, old)
    BY <2>1, <2>2, SchemaSteps
  <2>4. "zones.module" \in d.schema
    BY <2>1, SchemaNeeds
  <2> QED BY <1>3, <1>8, <2>v, <2>1, <2>2, <2>3, <2>4 DEF Accepted
<1>9. CASE n = 5
  <2>v. d.version = 4
    BY <1>2, <1>9
  <2>1. d.schema = SchemaOf(4, old)
    BY <1>1, <2>v
  <2>2. e.schema = V5(d.schema) /\ e.marks = d.marks /\ e.side = "none" /\ e.version = 5
    BY <1>9 DEF Migration, Database
  <2>3. e.schema = SchemaOf(5, old)
    BY <2>1, <2>2, SchemaSteps
  <2>4. {"zone_plugin_config", "zones.module"} \subseteq d.schema
    BY <2>1, SchemaNeeds
  <2> QED BY <1>3, <1>9, <2>v, <2>1, <2>2, <2>3, <2>4 DEF Accepted
<1>10. CASE n = 6
  <2>v. d.version = 5
    BY <1>2, <1>10
  <2>1. d.schema = SchemaOf(5, old)
    BY <1>1, <2>v
  <2>2. e.schema = d.schema \cup {"zones.on_tap"} /\ e.marks = d.marks /\ e.side = d.side /\ e.version = 6
    BY <1>10 DEF Migration, Database
  <2>3. e.schema = SchemaOf(6, old)
    BY <2>1, <2>2, SchemaSteps
  <2>4. "zones.plugin" \in d.schema /\ "zones.on_tap" \notin d.schema
    BY <2>1, SchemaNeeds
  <2> QED BY <1>3, <1>10, <2>v, <2>1, <2>2, <2>3, <2>4 DEF Accepted
<1>11. CASE n = 7
  <2>v. d.version = 6
    BY <1>2, <1>11
  <2>1. d.schema = SchemaOf(6, old)
    BY <1>1, <2>v
  <2>2. e.schema = d.schema \cup {"payload_cache"} /\ e.marks = d.marks /\ e.side = d.side /\ e.version = 7
    BY <1>11 DEF Migration, Database
  <2>3. e.schema = SchemaOf(7, old)
    BY <2>1, <2>2, SchemaSteps
  <2> QED BY <1>3, <1>11, <2>v, <2>1, <2>2, <2>3 DEF Accepted
<1>12. CASE n = 8
  <2>v. d.version = 7
    BY <1>2, <1>12
  <2>1. d.schema = SchemaOf(7, old)
    BY <1>1, <2>v
  <2>2. e.schema = d.schema /\ e.marks = d.marks \ {"tap"} /\ e.side = d.side /\ e.version = 8
    BY <1>12 DEF Migration, Database
  <2>3. e.schema = SchemaOf(8, old)
    BY <2>1, <2>2, SchemaSteps
  <2>4. "zones.on_tap" \in d.schema
    BY <2>1, SchemaNeeds
  <2> QED BY <1>3, <1>12, <2>v, <2>1, <2>2, <2>3, <2>4 DEF Accepted
<1> QED BY <1>2, <1>5, <1>6, <1>7, <1>8, <1>9, <1>10, <1>11, <1>12

After == {"load", "import", "device", "layout", "wire", "start", "run"}

Fits ==
  /\ Typed /\ FileFits(db)
  /\ pc # "failed"
  /\ pc \in After => db.version = currentSchemaVersion

\* FileFits looks at four fields.
LEMMA FitsAlike ==
  ASSUME NEW d, NEW e, FileFits(d),
         e.version = d.version, e.schema = d.schema, e.marks = d.marks, e.side = d.side
  PROVE  FileFits(e)
BY DEF FileFits

LEMMA FitsInit == Init => Fits
<1> SUFFICES ASSUME Init PROVE Fits
  OBVIOUS
<1>1. PICK v \in -1..currentSchemaVersion, old \in BOOLEAN, z \in Configs,
           s \in Configs, image \in Settings \cup {Nothing} :
       (v \notin 1..4 => s = "none") /\ db = FileOf(v, old, z, s, image)
  BY DEF Init
<1>2. FileFits(db)
  BY <1>1 DEF FileFits, FileOf
<1> QED BY <1>2, InitType DEF Init, Fits, After

LEMMA FitsStep == Fits /\ [Next]_vars => Fits'
<1> SUFFICES ASSUME Fits, [Next]_vars PROVE Fits'
  OBVIOUS
<1>t. /\ Typed' /\ Typed /\ FileFits(db) /\ pc # "failed"
      /\ db \in Database /\ db.version \in -1..8
      /\ pc \in After => db.version = 8
  BY NextType DEF Fits, Typed, TypeOK, Database, currentSchemaVersion
<1>1. CASE Open
  <2>1. FileFits(db')
    <3>1. db' = [db EXCEPT !.version = IF @ < 0 THEN 0 ELSE @]
      BY <1>1 DEF Open
    <3>2. CASE db.version >= 0
      BY <1>t, <3>1, <3>2, FitsAlike DEF Database
    <3>3. CASE db.version = -1
      <4>1. PICK old \in BOOLEAN : db.schema = SchemaOf(-1, old)
        BY <1>t, <3>3 DEF FileFits
      <4>2. SchemaOf(-1, old) = SchemaOf(0, old)
        BY DEF SchemaOf
      <4> QED BY <1>t, <3>1, <3>3, <4>1, <4>2 DEF FileFits, Database
    <3> QED BY <1>t, <3>2, <3>3
  <2> QED BY <1>1, <1>t, <2>1 DEF Open, Fits, After
<1>2. CASE Migrate
  <2>1. db.version + 1 \in 1..currentSchemaVersion
    BY <1>2, <1>t DEF Migrate, Typed, Opened, currentSchemaVersion
  <2>2. /\ Accepted(db.version + 1, db)
        /\ FileFits([Migration(db.version + 1, db) EXCEPT !.version = db.version + 1])
    BY <1>t, <2>1, MigrationFits
  <2> QED BY <1>2, <1>t, <2>2 DEF Migrate, Fits, After
<1>3. CASE Migrated
  BY <1>3, <1>t DEF Migrated, Fits, After, currentSchemaVersion
<1>4. ASSUME db'.version = db.version, db'.schema = db.schema, db'.marks = db.marks,
             db'.side = db.side, pc' # "failed", pc' \in After => pc \in After
      PROVE  Fits'
  <2>1. FileFits(db')
    BY <1>4, <1>t, FitsAlike
  <2> QED BY <1>4, <1>t, <2>1 DEF Fits, currentSchemaVersion
<1>5. CASE Start \/ NewSettings \/ InitDevice \/ WireCallbacks \/ Serve \/ Exit \/ Watch
           \/ TurnPage \/ (\E i \in Images : SaveImage(i) \/ DeleteImage(i)) \/ UNCHANGED vars
  <2>1. db' = db /\ pc' # "failed" /\ (pc' \in After => pc \in After)
    BY <1>5, <1>t DEF Start, NewSettings, InitDevice, WireCallbacks, Serve, Exit, Watch,
                      TurnPage, SaveImage, DeleteImage, vars, After
  <2> QED BY <1>4, <2>1
<1>6. CASE ImportFromYAML
  <2>1. db' \in {db, [db EXCEPT !.settings = yaml]} /\ pc = "import" /\ pc' = "device"
    BY <1>6 DEF ImportFromYAML, SetSettings
  <2> QED BY <1>4, <1>t, <2>1 DEF Database, After
<1>7. CASE NewManager
  <2>1. db' \in {db, [db EXCEPT !.pages = TRUE, !.zone = "none"]}
    BY <1>7 DEF NewManager
  <2> QED BY <1>4, <1>7, <1>t, <2>1 DEF NewManager, Database, After
<1>8. CASE \E s \in Settings \cup {Malformed} : Update(s)
  <2>1. PICK s : Update(s)
    BY <1>8
  <2>2. db' \in {db, [db EXCEPT !.settings = s]} /\ pc' = pc
    BY <2>1 DEF Update, SetSettings
  <2> QED BY <1>4, <1>t, <2>2 DEF Database
<1> QED BY <1>1, <1>2, <1>3, <1>5, <1>6, <1>7, <1>8 DEF Next

\* Every migration of every file is accepted, and the daemon works on the newest schema.
THEOREM Migrates == Spec => []MigrationsRun
<1>1. Fits => MigrationsRun
  <2> SUFFICES ASSUME Fits, pc \in After
               PROVE  /\ db.schema = SchemaOf(currentSchemaVersion, FALSE)
                      /\ db.marks = {} /\ db.side = "none"
    BY DEF Fits, MigrationsRun, After
  <2>1. db.version = 8 /\ FileFits(db) /\ db \in Database
    BY DEF Fits, Typed, TypeOK, currentSchemaVersion
  <2>2. PICK old \in BOOLEAN : db.schema = SchemaOf(8, old)
    BY <2>1 DEF FileFits
  <2>3. SchemaOf(8, old) = SchemaOf(8, FALSE)
    BY DEF SchemaOf
  <2>4. "path" \notin db.marks /\ "tap" \notin db.marks /\ db.side = "none"
    BY <2>1 DEF FileFits
  <2> QED BY <2>1, <2>2, <2>3, <2>4 DEF Database, currentSchemaVersion
<1> QED BY <1>1, FitsInit, FitsStep, PTL DEF Spec

\* No migration changes the plugin configuration of a zone that is in the layout.
THEOREM KeepsConfig == Spec => ConfigKept
<1>1. Fits /\ [Next]_vars => [(pc = "migrate" /\ db.pages) => Effective(db') = Effective(db)]_vars
  <2> SUFFICES ASSUME Fits, [Next]_vars, pc = "migrate", db.pages
               PROVE  Effective(db') = Effective(db)
    OBVIOUS
  <2>t. db \in Database /\ db.version \in 0..8 /\ db.pages
    BY DEF Fits, Typed, TypeOK, Opened, Database, currentSchemaVersion
  <2>1. CASE Migrate
    <3>1. db.version + 1 \in {1, 2, 3, 4, 5, 6, 7, 8}
      BY <2>t, <2>1 DEF Migrate, currentSchemaVersion
    <3>2. db' = db \/ db' = [Migration(db.version + 1, db) EXCEPT !.version = db.version + 1]
      BY <2>1 DEF Migrate
    <3>3. CASE db.version + 1 # 5
      <4>1. db'.zone = db.zone /\ db'.side = db.side
        BY <2>t, <3>1, <3>2, <3>3 DEF Migration, Database
      <4> QED BY <4>1 DEF Effective
    <3>4. CASE db.version + 1 = 5
      <4>1. db' = db \/ (db'.zone = Effective(db) /\ db'.side = "none")
        <5>1. Migration(5, db) = [db EXCEPT !.schema = V5(@), !.side = "none", !.zone = Merged(db)]
          BY DEF Migration
        <5>2. db' = db \/ db' = [Migration(5, db) EXCEPT !.version = 5]
          BY <3>2, <3>4
        <5>3. Merged(db) = Effective(db)
          BY <2>t DEF Merged, Effective
        <5> QED BY <2>t, <5>1, <5>2, <5>3 DEF Database
      <4> QED BY <2>t, <4>1 DEF Effective, Database
    <3> QED BY <3>3, <3>4
  <2>2. CASE ~Migrate
    BY <2>2 DEF Next, Start, Open, Migrated, NewSettings, ImportFromYAML, InitDevice, NewManager,
       WireCallbacks, Serve, Exit, Watch, TurnPage, Update, SaveImage, DeleteImage, vars
  <2> QED BY <2>1, <2>2
<1> QED BY <1>1, FitsInit, FitsStep, PTL DEF Spec, ConfigKept

-----------------------------------------------------------------------------
(* config.yaml *)

\* A file no migration has run on has no settings, and firstRun says that this start found
\* it so, unless it could not read the version, which it can of a migrated file only;
\* config.yaml is imported by such a start only.
FirstRuns ==
  /\ db.version < 1 => db.settings = Nothing
  /\ (firstRun /\ ~misread /\ pc \in {"migrate", "load", "import"}) => db.settings = Nothing
  /\ (misread /\ pc = "migrate") => db.version >= 1
  /\ pc = "import" => firstRun
  /\ pc \in {"down", "open"} => ~misread

\* Where the import is still to come, or has been missed, or is done.
Imported ==
  (isNew /\ yaml # Nothing /\ Validate(yaml) /\ ~missed) =>
    \/ db.version < 1 /\ pc \in {"down", "open"}
    \/ firstRun /\ ~misread /\ pc \in {"migrate", "load", "import"}
    \/ db.settings # Nothing

Imports == Fits /\ FirstRuns /\ Imported

LEMMA ImportsInit == Init => Imports
<1> SUFFICES ASSUME Init PROVE FirstRuns /\ Imported
  BY FitsInit DEF Imports
<1>1. PICK v \in -1..currentSchemaVersion, old \in BOOLEAN, z \in Configs,
           s \in Configs, image \in Settings \cup {Nothing} :
       /\ isNew <=> v < 1
       /\ v < 1 => image = Nothing
       /\ db = FileOf(v, old, z, s, image)
  BY DEF Init
<1>2. db.version = v /\ db.settings = image
  BY <1>1 DEF FileOf
<1> QED BY <1>1, <1>2 DEF Init, FirstRuns, Imported

\* The steps that leave settings, version and position in the start alone.
LEMMA ImportsAlike ==
  ASSUME Imports, pc' = pc, db' = db, UNCHANGED <<yaml, firstRun, isNew, misread, missed>>
  PROVE  FirstRuns' /\ Imported'
BY DEF Imports, FirstRuns, Imported

LEMMA ImportsStep == Imports /\ [Next]_vars => Imports'
<1> SUFFICES ASSUME Imports, [Next]_vars PROVE FirstRuns' /\ Imported'
  BY FitsStep DEF Imports
<1>t. /\ Fits /\ FirstRuns /\ Imported /\ db \in Database /\ db.version \in -1..8
      /\ firstRun \in BOOLEAN
      /\ pc \in After => db.version = 8
      /\ pc = "migrate" => db.version >= 0
  BY DEF Imports, Fits, Typed, Opened, TypeOK, Database, currentSchemaVersion
<1>1. CASE Start \/ Migrated \/ NewSettings \/ InitDevice \/ WireCallbacks \/ Serve
  BY <1>1, <1>t DEF Start, Migrated, NewSettings, InitDevice, WireCallbacks, Serve, ghosts,
                    FirstRuns, Imported, After
<1>2. CASE Open
  <2>1. /\ db'.settings = db.settings
        /\ db'.version < 1 <=> db.version < 1
        /\ pc = "open" /\ pc' = "migrate" /\ ~misread
        /\ UNCHANGED <<yaml, isNew, missed>>
    BY <1>2, <1>t DEF Open, Database, FirstRuns
  <2>2. \/ firstRun' = (db.version < 1) /\ misread' = FALSE
        \/ db.version >= 1 /\ firstRun' = TRUE /\ misread' = TRUE
    BY <1>2, <1>t, <2>1 DEF Open, FirstRun
  <2>3. db'.version >= 1 <=> db.version >= 1
    BY <1>2, <1>t DEF Open, Database
  <2>4. CASE firstRun' = (db.version < 1) /\ misread' = FALSE
    BY <1>t, <2>1, <2>3, <2>4 DEF FirstRuns, Imported
  <2>5. CASE db.version >= 1 /\ firstRun' = TRUE /\ misread' = TRUE
    <3>1. FirstRuns'
      BY <1>t, <2>1, <2>3, <2>5 DEF FirstRuns
    <3>2. Imported'
      BY <1>t, <2>1, <2>5 DEF Imported
    <3> QED BY <3>1, <3>2
  <2> QED BY <2>2, <2>4, <2>5
<1>3. CASE Migrate
  <2>1. db'.settings = db.settings /\ db'.version >= db.version
    <3> DEFINE n == db.version + 1
    <3>1. n \in 1..8
      BY <1>3, <1>t DEF Migrate, currentSchemaVersion
    <3>2. Migration(n, db).settings = db.settings
      BY <1>t, <3>1 DEF Migration, Database
    <3>3. db' = db \/ db' = [Migration(n, db) EXCEPT !.version = n]
      BY <1>3 DEF Migrate
    <3>4. [Migration(n, db) EXCEPT !.version = n] \in Database
      BY <1>t, <3>1, MigrationType DEF currentSchemaVersion
    <3>5. /\ [Migration(n, db) EXCEPT !.version = n].settings = db.settings
          /\ [Migration(n, db) EXCEPT !.version = n].version = n
      BY <1>t, <3>1 DEF Migration, Database
    <3>6. CASE db' = [Migration(n, db) EXCEPT !.version = n]
      <4>1. db'.settings = db.settings /\ db'.version = db.version + 1
        BY <3>5, <3>6
      <4> QED BY <1>t, <4>1
    <3> QED BY <1>t, <3>3, <3>6
  <2>2. pc = "migrate" /\ pc' \in {"migrate", "failed"} /\ UNCHANGED <<yaml, firstRun, isNew, misread, missed>>
    BY <1>3 DEF Migrate, ghosts
  <2>3. pc' # "failed"
    BY FitsStep DEF Imports, Fits
  <2>4. db'.version < 1 => db.version < 1
    BY <1>3, <1>t, <2>1, FitsStep DEF Imports, Fits, Typed, TypeOK, Database, currentSchemaVersion
  <2>5. db'.version \in -1..8 /\ (db.version >= 1 => db'.version >= 1)
    BY <1>t, <2>1, FitsStep DEF Imports, Fits, Typed, TypeOK, Database, currentSchemaVersion
  <2>6. FirstRuns'
    BY <1>t, <2>1, <2>2, <2>3, <2>4, <2>5 DEF FirstRuns
  <2>7. Imported'
    BY <1>t, <2>1, <2>2, <2>3 DEF Imported
  <2> QED BY <2>6, <2>7
<1>4. CASE ImportFromYAML
  <2>1. /\ pc = "import" /\ pc' = "device" /\ db.version = 8
        /\ UNCHANGED <<yaml, firstRun, isNew, misread>>
    BY <1>4, <1>t DEF ImportFromYAML, After
  <2>2. CASE yaml = Nothing \/ ~Validate(yaml)
    BY <1>4, <1>t, <2>1, <2>2 DEF ImportFromYAML, FirstRuns, Imported
  <2>3. CASE ~(yaml = Nothing \/ ~Validate(yaml))
    <3>1. \/ missed' = missed /\ db' = [db EXCEPT !.settings = yaml]
          \/ missed' = (missed \/ ~misread) /\ db' = db
      BY <1>4, <2>3 DEF ImportFromYAML, SetSettings
    <3>2. db'.version = 8
      BY <1>4, <1>t, <2>1, <2>3 DEF ImportFromYAML, SetSettings, Database
    <3>3. isNew => (missed' \/ db'.settings # Nothing)
      BY <1>t, <2>1, <2>3, <3>1 DEF Database, Imported
    <3> QED BY <2>1, <3>2, <3>3 DEF FirstRuns, Imported
  <2> QED BY <2>2, <2>3
<1>5. CASE NewManager
  <2>1. /\ pc = "layout" /\ pc' = "wire" /\ db.version = 8
        /\ UNCHANGED <<yaml, firstRun, isNew, misread, missed>>
        /\ db'.settings = db.settings /\ db'.version = db.version
    BY <1>5, <1>t DEF NewManager, ghosts, After, Database
  <2> QED BY <1>t, <2>1 DEF FirstRuns, Imported
<1>6. CASE Exit
  <2>1. /\ pc' = "down" /\ firstRun' = FALSE /\ UNCHANGED <<db, yaml, isNew>>
        /\ misread' = FALSE
        /\ missed' = (missed \/ (firstRun /\ ~misread /\ db.version > 0
                                 /\ pc \in {"migrate", "load", "import"}))
    BY <1>6 DEF Exit
  <2>2. FirstRuns'
    BY <1>t, <2>1 DEF FirstRuns
  <2>3. db.version > 0 \/ db.version < 1
    BY <1>t
  <2>4. (firstRun /\ ~misread /\ pc \in {"migrate", "load", "import"})
          => (missed' \/ db.version < 1)
    BY <2>1, <2>3
  <2> QED BY <1>t, <2>1, <2>2, <2>4 DEF Imported
<1>7. CASE \E s \in Settings \cup {Malformed} : Update(s)
  <2>1. PICK s \in Settings \cup {Malformed} : Update(s)
    BY <1>7
  <2>2. s \in Settings /\ s # Nothing
    BY <2>1, SettingsTypes, ConstantsAssumption DEF Update, Settings
  <2>3. /\ pc = "run" /\ pc' = "run" /\ db.version = 8 /\ db'.version = 8
        /\ db' = db \/ db'.settings = s
        /\ UNCHANGED <<yaml, firstRun, isNew, misread, missed>>
    BY <1>t, <2>1 DEF Update, SetSettings, After, Database
  <2> QED BY <1>t, <2>2, <2>3 DEF FirstRuns, Imported
<1>8. CASE Watch \/ TurnPage \/ (\E i \in Images : SaveImage(i) \/ DeleteImage(i)) \/ UNCHANGED vars
  <2>1. pc' = pc /\ db' = db /\ UNCHANGED <<yaml, firstRun, isNew, misread, missed>>
    BY <1>8 DEF Watch, TurnPage, SaveImage, DeleteImage, vars, ghosts
  <2> QED BY <2>1, ImportsAlike
<1> QED BY <1>1, <1>2, <1>3, <1>4, <1>5, <1>6, <1>7, <1>8 DEF Next

\* A new installation that runs has the settings of config.yaml, whichever start imported
\* them.
THEOREM ImportsLegacy == Spec => []LegacyImported
<1>1. Imports => LegacyImported
  <2> SUFFICES ASSUME Imports, pc \in {"layout", "wire", "start", "run"}, isNew, ~missed,
                      yaml # Nothing, Validate(yaml)
               PROVE  db.settings # Nothing
    BY DEF LegacyImported
  <2> QED BY DEF Imports, Imported
<1> QED BY <1>1, ImportsInit, ImportsStep, PTL DEF Spec

\* No start that could read the version writes over settings that a user has saved.
THEOREM KeepsSettings == Spec => ImportKeepsSettings
<1>1. Imports /\ [Next]_vars
        => [pc # "run" /\ db.settings # Nothing /\ ~misread => db'.settings = db.settings]_vars
  <2> SUFFICES ASSUME Imports, [Next]_vars, pc # "run", db.settings # Nothing, ~misread
               PROVE  db'.settings = db.settings
    OBVIOUS
  <2>t. db \in Database /\ FirstRuns /\ db.version \in -1..8
    BY DEF Imports, Fits, Typed, TypeOK, Database, currentSchemaVersion
  <2>1. CASE Migrate
    <3> DEFINE n == db.version + 1
    <3>1. n \in 0..8
      BY <2>1, <2>t DEF Migrate, currentSchemaVersion
    <3>2. pc = "migrate" => db.version >= 0
      BY DEF Imports, Fits, Typed, Opened
    <3>3. n \in 1..8
      BY <2>t, <2>1, <3>1, <3>2 DEF Migrate
    <3>4. db' = db \/ db' = [Migration(n, db) EXCEPT !.version = n]
      BY <2>1 DEF Migrate
    <3>5. [Migration(n, db) EXCEPT !.version = n].settings = db.settings
      BY <2>t, <3>3 DEF Migration, Database
    <3> QED BY <3>4, <3>5
  <2>2. CASE ImportFromYAML
    BY <2>2, <2>t DEF ImportFromYAML, FirstRuns
  <2>3. CASE Open \/ NewManager
    BY <2>3, <2>t DEF Open, NewManager, Database
  <2>4. CASE ~Migrate /\ ~ImportFromYAML /\ ~Open /\ ~NewManager
    BY <2>4 DEF Next, Start, Migrated, NewSettings, InitDevice, WireCallbacks, Serve, Exit,
                Watch, TurnPage, Update, SaveImage, DeleteImage, vars
  <2> QED BY <2>1, <2>2, <2>3, <2>4
<1> QED BY <1>1, ImportsInit, ImportsStep, PTL DEF Spec, ImportKeepsSettings

-----------------------------------------------------------------------------
(* Memory, database and display *)

\* Memory is what the next start would load, ...
Saved ==
  pc \in {"import", "device", "layout", "wire", "start", "run"} /\ ~unsaved
    => Shown(cfg) = Shown(Loaded(db.settings))

\* ... the channel is empty until requests are served, and ends with what memory holds ...
Sent ==
  /\ pc # "run" => settingsCh = <<>>
  /\ (~unsaved /\ ~dropped /\ settingsCh # <<>>) => settingsCh[Len(settingsCh)] = cfg

\* ... and when it is empty, the display shows that.
Displayed ==
  (pc \in {"start", "run"} /\ ~unsaved /\ ~dropped /\ ~turned /\ settingsCh = <<>>)
    => bg = Shown(cfg)

Agreed == Typed /\ Saved /\ Sent /\ Displayed

LEMMA ShownLoaded ==
  /\ \A s \in Settings : Shown(Loaded(s)) = Shown(s)
BY ConstantsAssumption DEF Settings, Loaded, getOrDefault, Shown

LEMMA LastOfTail ==
  ASSUME NEW s \in Seq(Settings), Tail(s) # <<>>, s # <<>>
  PROVE  Tail(s)[Len(Tail(s))] = s[Len(s)]
<1>1. Len(Tail(s)) = Len(s) - 1 /\ Len(s) \in Nat /\ Len(s) # 0
  OBVIOUS
<1>2. Len(Tail(s)) # 0
  <2>1. Tail(s) \in Seq(Settings)
    OBVIOUS
  <2> QED BY <2>1, EmptySeq
<1> QED BY <1>1, <1>2

LEMMA AgreedInit == Init => Agreed
BY InitType DEF Init, Agreed, Saved, Sent, Displayed

\* A step that touches nothing these speak of but the position in the start.
LEMMA AgreedAlike ==
  ASSUME Agreed, Typed', UNCHANGED <<cfg, settingsCh, bg, unsaved, dropped, turned>>,
         db'.settings = db.settings, pc' = "run" <=> pc = "run",
         pc' \in {"start", "run"} => pc \in {"start", "run"},
         pc' \in {"import", "device", "layout", "wire", "start", "run"} =>
           pc \in {"import", "device", "layout", "wire", "start", "run"}
  PROVE  Agreed'
BY DEF Agreed, Saved, Sent, Displayed, Loaded, getOrDefault, Shown

LEMMA AgreedStep == Agreed /\ [Next]_vars => Agreed'
<1> SUFFICES ASSUME Agreed, [Next]_vars PROVE Agreed'
  OBVIOUS
<1>t. /\ Typed /\ Typed' /\ Saved /\ Sent /\ Displayed /\ TypeOK
      /\ db \in Database /\ cfg \in Settings /\ settingsCh \in Seq(Settings)
  BY NextType DEF Agreed, Typed, TypeOK
<1>1. CASE Start \/ Migrated \/ InitDevice
  BY <1>1, <1>t, AgreedAlike DEF Start, Migrated, InitDevice, running, ghosts
<1>2. CASE Open
  <2>1. db'.settings = db.settings /\ pc = "open" /\ pc' = "migrate"
    BY <1>2, <1>t DEF Open, Database
  <2> QED BY <1>2, <1>t, <2>1, AgreedAlike DEF Open, running, ghosts
<1>3. CASE Migrate
  <2>1. pc = "migrate" /\ pc' \in {"migrate", "failed"} /\ UNCHANGED <<settingsCh, bg>>
    BY <1>3 DEF Migrate, running
  <2> QED BY <1>t, <2>1 DEF Agreed, Saved, Sent, Displayed
<1>4. CASE NewSettings
  <2>1. cfg' = Loaded(db.settings) /\ Loaded(db.settings) \in Settings
    BY <1>4, <1>t, SettingsTypes DEF NewSettings, Database
  <2>2. Shown(cfg') = Shown(Loaded(db'.settings))
    BY <1>4, <2>1 DEF NewSettings
  <2>3. settingsCh' = <<>> /\ pc' \in {"import", "device"}
    BY <1>4, <1>t DEF NewSettings, running, Sent
  <2>4. Saved' /\ Sent' /\ Displayed'
    BY <2>2, <2>3 DEF Saved, Sent, Displayed
  <2> QED BY <1>t, <2>4 DEF Agreed
<1>5. CASE ImportFromYAML
  <2>1. /\ pc = "import" /\ pc' = "device" /\ UNCHANGED <<settingsCh, bg, dropped, turned>>
    BY <1>5 DEF ImportFromYAML, running
  <2>2. CASE yaml = Nothing \/ ~Validate(yaml)
    BY <1>5, <1>t, <2>1, <2>2, AgreedAlike DEF ImportFromYAML
  <2>3. CASE ~(yaml = Nothing \/ ~Validate(yaml))
    <3>1. cfg' = yaml /\ yaml \in Settings
      BY <1>5, <1>t, <2>3, SettingsTypes DEF ImportFromYAML, TypeOK
    <3>2. unsaved' \/ db' = [db EXCEPT !.settings = yaml]
      BY <1>5, <2>3 DEF ImportFromYAML, SetSettings
    <3>3. unsaved' \/ Shown(cfg') = Shown(Loaded(db'.settings))
      BY <1>t, <3>1, <3>2, ShownLoaded DEF Database
    <3>4. Saved' /\ Sent' /\ Displayed'
      BY <1>t, <2>1, <3>3 DEF Saved, Sent, Displayed
    <3> QED BY <1>t, <3>4 DEF Agreed
  <2> QED BY <2>2, <2>3
<1>6. CASE NewManager
  <2>1. db'.settings = db.settings /\ pc = "layout" /\ pc' = "wire"
    BY <1>6, <1>t DEF NewManager, Database
  <2> QED BY <1>6, <1>t, <2>1, AgreedAlike DEF NewManager, running, ghosts
<1>7. CASE WireCallbacks
  <2>1. /\ pc = "wire" /\ pc' = "start"
        /\ UNCHANGED <<db, cfg, settingsCh, unsaved, dropped>>
        /\ bg' = Shown(cfg) \/ turned'
    BY <1>7 DEF WireCallbacks, Apply
  <2>2. Saved' /\ Sent' /\ Displayed'
    BY <1>t, <2>1 DEF Saved, Sent, Displayed
  <2> QED BY <1>t, <2>2 DEF Agreed
<1>8. CASE Serve
  <2>1. pc = "start" /\ pc' = "run" /\ UNCHANGED <<db, cfg, settingsCh, bg, unsaved, dropped, turned>>
    BY <1>8 DEF Serve, running, ghosts
  <2>2. Saved' /\ Sent' /\ Displayed'
    BY <1>t, <2>1 DEF Saved, Sent, Displayed
  <2> QED BY <1>t, <2>2 DEF Agreed
<1>9. CASE Exit
  <2>1. Saved' /\ Sent' /\ Displayed'
    BY <1>9 DEF Exit, Saved, Sent, Displayed
  <2> QED BY <1>t, <2>1 DEF Agreed
<1>10. CASE \E s \in Settings \cup {Malformed} : Update(s)
  <2>1. PICK s \in Settings \cup {Malformed} : Update(s)
    BY <1>10
  <2>2. /\ s \in Settings /\ cfg' = s /\ pc = "run" /\ pc' = "run"
        /\ UNCHANGED <<bg, turned>>
    BY <2>1, SettingsTypes DEF Update
  <2>3. CASE SetSettings(s) /\ notifyWatchers(s) /\ unsaved' = FALSE
    <3>1. Shown(cfg') = Shown(Loaded(db'.settings))
      BY <1>t, <2>2, <2>3, ShownLoaded DEF SetSettings, Database
    <3>2. dropped' \/ settingsCh' = Append(settingsCh, s)
      BY <2>3 DEF notifyWatchers
    <3>3. /\ Append(settingsCh, s)[Len(Append(settingsCh, s))] = s
          /\ Append(settingsCh, s) # <<>>
      BY <1>t, <2>2
    <3>4. Saved' /\ Sent' /\ Displayed'
      BY <2>2, <3>1, <3>2, <3>3 DEF Saved, Sent, Displayed
    <3> QED BY <1>t, <3>4 DEF Agreed
  <2>4. CASE unsaved' = TRUE /\ UNCHANGED <<db, settingsCh, dropped>>
    BY <1>t, <2>2, <2>4 DEF Agreed, Saved, Sent, Displayed
  <2> QED BY <2>1, <2>3, <2>4 DEF Update
<1>11. CASE Watch
  <2>1. /\ pc = "run" /\ pc' = "run" /\ settingsCh # <<>> /\ settingsCh' = Tail(settingsCh)
        /\ UNCHANGED <<db, cfg, unsaved, dropped>>
        /\ bg' = Shown(Head(settingsCh)) \/ turned'
    BY <1>11 DEF Watch, Apply
  <2>2. settingsCh' = <<>> => Head(settingsCh) = settingsCh[Len(settingsCh)]
    <3>1. Len(settingsCh) \in Nat \ {0} /\ Len(Tail(settingsCh)) = Len(settingsCh) - 1
      BY <1>t, <2>1, EmptySeq
    <3>2. Tail(settingsCh) = <<>> => Len(settingsCh) = 1
      BY <3>1
    <3>3. Head(settingsCh) = settingsCh[1]
      BY <1>t, <2>1
    <3> QED BY <2>1, <3>2, <3>3
  <2>3. settingsCh' # <<>> => settingsCh'[Len(settingsCh')] = settingsCh[Len(settingsCh)]
    BY <1>t, <2>1, LastOfTail
  <2>4. Saved' /\ Sent' /\ Displayed'
    BY <1>t, <2>1, <2>2, <2>3 DEF Saved, Sent, Displayed
  <2> QED BY <1>t, <2>4 DEF Agreed
<1>12. CASE TurnPage
  <2>1. /\ pc = "run" /\ pc' = "run" /\ UNCHANGED <<db, cfg, settingsCh, unsaved, dropped>>
        /\ turned' \/ (UNCHANGED <<bg, turned>>)
    BY <1>12, <1>t DEF TurnPage, TypeOK
  <2>2. Saved' /\ Sent' /\ Displayed'
    BY <1>t, <2>1 DEF Saved, Sent, Displayed
  <2> QED BY <1>t, <2>2 DEF Agreed
<1>13. CASE (\E i \in Images : SaveImage(i) \/ DeleteImage(i)) \/ UNCHANGED vars
  BY <1>13, <1>t, AgreedAlike DEF SaveImage, DeleteImage, vars, running, ghosts
<1> QED BY <1>1, <1>2, <1>3, <1>4, <1>5, <1>6, <1>7, <1>8, <1>9, <1>10, <1>11, <1>12, <1>13
        DEF Next

\* What Get answers is what is saved and, when the watcher has caught up, what is shown,
\* for any number of images and any capacity of the channel.
THEOREM Agrees == Spec => []SettingsAgree
<1>1. Agreed => SettingsAgree
  BY DEF Agreed, Saved, Displayed, SettingsAgree
<1> QED BY <1>1, AgreedInit, AgreedStep, PTL DEF Spec

-----------------------------------------------------------------------------
(* ManagerLocks: what a course may do *)

\* The manager takes its mutexes in an order of three levels: one it already holds
\* lies below the one it takes.
Level(l) == IF l = "swipe" THEN 1 ELSE IF l = "payloads" THEN 2 ELSE 3

\* The fields that only their own mutex, of the same name, gives access to.
Guarded == {"payloads", "cache", "lastFrame", "detail", "swipe", "ripple", "choice"}

\* What can be accessed, and the steps of a course.
Fields == Locks \cup {"zones", "zoneImages", "frameBufs"}
Touches == {"read", "write"} \X Fields
Moves == {"Lock", "RLock", "Unlock", "RUnlock", "Run"} \X (Locks \cup {"none"}) \X SUBSET Touches

\* How a goroutine holds each of the mutexes.
Holdings == [Locks -> {"none", "read", "write"}]
NoHold == [l \in Locks |-> "none"]

\* A goroutine that holds h may take a mutex of level k.
Below(h, k) == \A l \in Locks : h[l] # "none" => Level(l) < k

\* The mutexes held guard the accesses.
Allowed(h, accesses) ==
  \A f \in Guarded : /\ W(f) \in accesses => h[f] = "write"
                     /\ R(f) \in accesses => h[f] # "none"

\* The step takes a mutex, or gives one back that is held that way.
Takes(h, step, h2) ==
  /\ Below(h, Level(Mutex(step)))
  /\ \/ Kind(step) = "Lock" /\ h2 = [h EXCEPT ![Mutex(step)] = "write"]
     \/ Kind(step) = "RLock" /\ h2 = [h EXCEPT ![Mutex(step)] = "read"]

Drops(h, step, h2) ==
  /\ \/ Kind(step) = "Unlock" /\ h[Mutex(step)] = "write"
     \/ Kind(step) = "RUnlock" /\ h[Mutex(step)] = "read"
  /\ h2 = [h EXCEPT ![Mutex(step)] = "none"]

\* A step that keeps the order and accesses what is held leads from h to h2.
Lawful(h, step, h2) ==
  /\ Allowed(h2, Accesses(step))
  /\ \/ Kind(step) = "Run" /\ h2 = h
     \/ Mutex(step) \in Locks /\ (Takes(h, step, h2) \/ Drops(h, step, h2))

\* The course is lawful from its first step to its last: g is what is held after
\* each of them.
Leads(h, course, h2) ==
  /\ course \in Seq(Moves)
  /\ \E g \in [0..Len(course) -> Holdings] :
       /\ g[0] = h /\ g[Len(course)] = h2
       /\ \A i \in 1..Len(course) : Lawful(g[i - 1], course[i], g[i])

\* Courses that begin with h and end with h2, and those that give back what they
\* take.
Courses(h, h2) == {c \in Seq(Moves) : Leads(h, c, h2)}
Balanced(h) == Courses(h, h)

\* A course without steps keeps what is held, ...
LEMMA LeadsNowhere ==
  ASSUME NEW h \in Holdings PROVE Leads(h, << >>, h)
<1> DEFINE g == [i \in 0..0 |-> h]
<1>1. /\ << >> \in Seq(Moves) /\ Len(<< >>) = 0
  OBVIOUS
<1>2. /\ g \in [0..Len(<< >>) -> Holdings] /\ g[0] = h /\ g[Len(<< >>)] = h
      /\ \A i \in 1..Len(<< >>) : Lawful(g[i - 1], << >>[i], g[i])
  BY <1>1
<1> QED
  BY <1>1, <1>2 DEF Leads

\* ... one with a step does what the step does, ...
LEMMA LeadsStep ==
  ASSUME NEW h \in Holdings, NEW h2 \in Holdings, NEW step \in Moves, Lawful(h, step, h2)
  PROVE  Leads(h, <<step>>, h2)
<1> DEFINE g == [i \in 0..1 |-> IF i = 0 THEN h ELSE h2]
<1>1. <<step>> \in Seq(Moves) /\ Len(<<step>>) = 1 /\ <<step>>[1] = step
  OBVIOUS
<1>2. g \in [0..1 -> Holdings] /\ g[0] = h /\ g[1] = h2
  OBVIOUS
<1>3. \A i \in 1..1 : Lawful(g[i - 1], <<step>>[i], g[i])
  <2> SUFFICES ASSUME NEW i \in 1..1 PROVE Lawful(g[i - 1], <<step>>[i], g[i])
    OBVIOUS
  <2>1. i = 1 /\ i - 1 = 0
    OBVIOUS
  <2> HIDE DEF g
  <2> QED
    BY <2>1, <1>1, <1>2
<1> HIDE DEF g
<1> QED
  BY <1>1, <1>2, <1>3 DEF Leads

\* ... and one that follows another begins with what that one leaves.
LEMMA LeadsOn ==
  ASSUME NEW h1, NEW h2, NEW h3, NEW c, NEW d, Leads(h1, c, h2), Leads(h2, d, h3)
  PROVE  Leads(h1, c \o d, h3)
<1>1. c \in Seq(Moves) /\ d \in Seq(Moves)
  BY DEF Leads
<1>2. PICK g \in [0..Len(c) -> Holdings] :
        /\ g[0] = h1 /\ g[Len(c)] = h2
        /\ \A i \in 1..Len(c) : Lawful(g[i - 1], c[i], g[i])
  BY DEF Leads
<1>3. PICK k \in [0..Len(d) -> Holdings] :
        /\ k[0] = h2 /\ k[Len(d)] = h3
        /\ \A i \in 1..Len(d) : Lawful(k[i - 1], d[i], k[i])
  BY DEF Leads
<1> DEFINE e == c \o d
           n == Len(c)
           m == Len(d)
           j == [i \in 0..(n + m) |-> IF i <= n THEN g[i] ELSE k[i - n]]
<1>4. /\ e \in Seq(Moves) /\ n \in Nat /\ m \in Nat /\ Len(e) = n + m
      /\ \A i \in 1..n : e[i] = c[i]
      /\ \A i \in (n + 1)..(n + m) : e[i] = d[i - n]
  BY <1>1
<1>5. j \in [0..(n + m) -> Holdings] /\ j[0] = h1 /\ j[n + m] = h3
  <2>1. \A i \in 0..(n + m) : (IF i <= n THEN g[i] ELSE k[i - n]) \in Holdings
    <3> SUFFICES ASSUME NEW i \in 0..(n + m)
                 PROVE  (IF i <= n THEN g[i] ELSE k[i - n]) \in Holdings
      OBVIOUS
    <3>1. CASE i <= n
      <4>1. i \in 0..Len(c)
        BY <3>1, <1>4
      <4> QED
        BY <4>1, <3>1, <1>2
    <3>2. CASE i > n
      <4>1. i - n \in 0..m
        BY <3>2, <1>4
      <4> QED
        BY <4>1, <3>2, <1>3, <1>4
    <3> QED
      BY <3>1, <3>2, <1>4
  <2>2. j[0] = h1
    BY <1>2, <1>4
  <2>3. j[n + m] = h3
    <3>1. CASE m = 0
      BY <3>1, <1>2, <1>3, <1>4
    <3>2. CASE m > 0
      <4>1. n + m > n /\ (n + m) - n = m /\ n + m \in 0..(n + m)
        BY <3>2, <1>4
      <4> QED
        BY <4>1, <1>3
    <3> QED
      BY <3>1, <3>2, <1>4
  <2> QED
    BY <2>1, <2>2, <2>3
<1>6. ASSUME NEW i \in 1..(n + m) PROVE Lawful(j[i - 1], e[i], j[i])
  <2>1. CASE i <= n
    <3>1. j[i - 1] = g[i - 1] /\ j[i] = g[i] /\ e[i] = c[i]
      BY <2>1, <1>4
    <3> QED
      BY <3>1, <2>1, <1>2, <1>4
  <2>2. CASE i > n
    <3>1. i - n \in 1..m /\ e[i] = d[i - n] /\ j[i] = k[i - n]
      BY <2>2, <1>4
    <3>2. j[i - 1] = k[(i - n) - 1]
      BY <2>2, <1>2, <1>3, <1>4
    <3> HIDE DEF j, e, m, n
    <3>3. Lawful(k[(i - n) - 1], d[i - n], k[i - n])
      BY <3>1, <1>3 DEF m
    <3> QED
      BY <3>1, <3>2, <3>3
  <2> QED
    BY <2>1, <2>2, <1>4
<1> HIDE DEF j, e, n, m
<1>7. Leads(h1, e, h3)
  BY <1>4, <1>5, <1>6 DEF Leads
<1> QED
  BY <1>7 DEF e

\* A course that is over has left what it promised.
LEMMA LeadsDone ==
  ASSUME NEW h, NEW h2, Leads(h, << >>, h2) PROVE h = h2 /\ h \in Holdings
<1>1. Len(<< >>) = 0
  OBVIOUS
<1> QED
  BY <1>1 DEF Leads

\* The first step of a lawful course is lawful, and so is the rest after it.
LEMMA LeadsFirst ==
  ASSUME NEW h, NEW h2, NEW c, Leads(h, c, h2), c # << >>
  PROVE  \E h1 \in Holdings : Lawful(h, Head(c), h1) /\ Leads(h1, Tail(c), h2)
<1>1. PICK g \in [0..Len(c) -> Holdings] :
        /\ g[0] = h /\ g[Len(c)] = h2
        /\ \A i \in 1..Len(c) : Lawful(g[i - 1], c[i], g[i])
  BY DEF Leads
<1> DEFINE n == Len(c)
           t == Tail(c)
           k == [i \in 0..(n - 1) |-> g[i + 1]]
<1>2. c \in Seq(Moves) /\ n \in Nat /\ n >= 1 /\ Head(c) = c[1]
  BY DEF Leads
<1>3. t \in Seq(Moves) /\ Len(t) = n - 1 /\ \A i \in 1..(n - 1) : t[i] = c[i + 1]
  BY <1>2
<1>4. k \in [0..(n - 1) -> Holdings] /\ k[0] = g[1] /\ k[n - 1] = h2
  BY <1>1, <1>2
<1>5. ASSUME NEW i \in 1..(n - 1) PROVE Lawful(k[i - 1], t[i], k[i])
  <2>1. k[i - 1] = g[i] /\ k[i] = g[i + 1] /\ t[i] = c[i + 1]
    BY <1>2, <1>3
  <2>2. i + 1 \in 1..Len(c) /\ (i + 1) - 1 = i
    BY <1>2
  <2> HIDE DEF k, t, n
  <2>3. Lawful(g[(i + 1) - 1], c[i + 1], g[i + 1])
    BY <2>2, <1>1
  <2> QED
    BY <2>1, <2>2, <2>3
<1>6. Lawful(h, Head(c), g[1]) /\ g[1] \in Holdings
  <2>1. 1 \in 1..Len(c) /\ 1 - 1 = 0
    BY <1>2
  <2>2. Lawful(g[1 - 1], c[1], g[1])
    BY <2>1, <1>1
  <2> QED
    BY <2>1, <2>2, <1>1, <1>2
<1> HIDE DEF k, t, n
<1>7. Leads(g[1], t, h2)
  BY <1>3, <1>4, <1>5 DEF Leads
<1> QED
  BY <1>6, <1>7 DEF t

\* The ways methods are put together: return, one after the other, accesses, and a
\* mutex around a body.
LEMMA BalancedReturn ==
  ASSUME NEW h \in Holdings PROVE Return \subseteq Balanced(h)
BY LeadsNowhere DEF Return, Balanced, Courses, Leads

LEMMA CoursesOn ==
  ASSUME NEW h1, NEW h2, NEW h3, NEW a, NEW b,
         a \subseteq Courses(h1, h2), b \subseteq Courses(h2, h3)
  PROVE  a ** b \subseteq Courses(h1, h3)
<1>1. ASSUME NEW c \in a, NEW d \in b PROVE c \o d \in Courses(h1, h3)
  <2>1. Leads(h1, c, h2) /\ Leads(h2, d, h3)
    BY DEF Courses
  <2>2. Leads(h1, c \o d, h3)
    BY <2>1, LeadsOn
  <2> QED
    BY <2>2 DEF Courses, Leads
<1>2. a ** b = {c \o d : c \in a, d \in b}
  BY DEF **
<1>3. ASSUME NEW x \in a ** b PROVE x \in Courses(h1, h3)
  <2>1. PICK c \in a, d \in b : x = c \o d
    BY <1>2
  <2> QED
    BY <2>1, <1>1
<1> QED
  BY <1>3

LEMMA BalancedOn ==
  ASSUME NEW h, NEW a, NEW b, a \subseteq Balanced(h), b \subseteq Balanced(h)
  PROVE  a ** b \subseteq Balanced(h)
BY CoursesOn DEF Balanced

LEMMA SingleStep ==
  ASSUME NEW h \in Holdings, NEW h2 \in Holdings, NEW kind, NEW l, NEW accesses,
         Do(kind, l, accesses) \in Moves, Lawful(h, Do(kind, l, accesses), h2)
  PROVE  {<<Do(kind, l, accesses)>>} \subseteq Courses(h, h2)
<1>1. Leads(h, <<Do(kind, l, accesses)>>, h2)
  BY LeadsStep
<1> QED
  BY <1>1 DEF Courses, Leads

LEMMA BalancedRun ==
  ASSUME NEW h \in Holdings, NEW accesses \in SUBSET Touches, Allowed(h, accesses)
  PROVE  Run(accesses) \subseteq Balanced(h)
<1>1. Do("Run", "none", accesses) \in Moves
  BY DEF Do, Moves
<1>2. Lawful(h, Do("Run", "none", accesses), h)
  BY DEF Do, Lawful, Kind, Accesses
<1> QED
  BY <1>1, <1>2, SingleStep DEF Run, Balanced

\* The accesses that no mutex of their own guards.
Unguarded ==
  {"read", "write"} \X {"config", "transition", "zones", "zoneImages", "frameBufs"}
Leaves == Locks \ {"swipe", "payloads"}

-----------------------------------------------------------------------------
(* What the methods of the manager do *)

\* Whoever holds a mutex may access its own field.
LEMMA OwnField ==
  ASSUME NEW h \in Holdings, NEW l \in Locks,
         NEW accesses, accesses \subseteq Unguarded \cup {R(l), W(l)}
  PROVE  /\ accesses \in SUBSET Touches
         /\ Allowed([h EXCEPT ![l] = "write"], accesses)
         /\ accesses \subseteq Unguarded \cup {R(l)} => Allowed([h EXCEPT ![l] = "read"], accesses)
<1> DEFINE k(kind) == [h EXCEPT ![l] = kind]
<1>1. \A kind : k(kind)[l] = kind
  BY DEF Holdings
<1>2. \A f \in Guarded : /\ W(f) \in accesses => f = l
                         /\ R(f) \in accesses => f = l
  <2>1. \A f \in Guarded : W(f) \notin Unguarded /\ R(f) \notin Unguarded
    BY DEF Guarded, Unguarded, W, R
  <2>2. \A f : W(f) \in {R(l), W(l)} \/ R(f) \in {R(l), W(l)} => f = l
    BY DEF W, R
  <2> QED
    BY <2>1, <2>2
<1>3. accesses \in SUBSET Touches
  BY DEF Unguarded, R, W, Touches, Fields, Locks
<1>4. Allowed(k("write"), accesses)
  BY <1>1, <1>2 DEF Allowed
<1>5. ASSUME accesses \subseteq Unguarded \cup {R(l)} PROVE Allowed(k("read"), accesses)
  <2>1. \A f \in Guarded : W(f) \notin accesses
    BY <1>5 DEF Guarded, Unguarded, R, W
  <2> QED
    BY <2>1, <1>1, <1>2 DEF Allowed
<1> QED
  BY <1>3, <1>4, <1>5

LEMMA BalancedUnder ==
  ASSUME NEW h \in Holdings, NEW l \in Locks, Below(h, Level(l)),
         NEW accesses, accesses \subseteq Unguarded \cup {R(l), W(l)},
         NEW body, body \subseteq Balanced([h EXCEPT ![l] = "write"])
  PROVE  Under(l, accesses, body) \subseteq Balanced(h)
<1> DEFINE k == [h EXCEPT ![l] = "write"]
<1>1. k \in Holdings /\ k[l] = "write"
  BY DEF Holdings
<1>2. h[l] = "none"
  BY DEF Below, Level, Holdings
<1>3. h = [k EXCEPT ![l] = "none"]
  BY <1>2 DEF Holdings
<1>4. accesses \in SUBSET Touches /\ Allowed(k, accesses)
  BY OwnField
<1>5. Do("Lock", l, accesses) \in Moves /\ Do("Unlock", l, {}) \in Moves
  BY <1>4 DEF Do, Moves
<1>6. Lawful(h, Do("Lock", l, accesses), k)
  BY <1>4 DEF Lawful, Takes, Do, Kind, Mutex, Accesses
<1>7. Lawful(k, Do("Unlock", l, {}), h)
  BY <1>1, <1>3 DEF Lawful, Drops, Do, Kind, Mutex, Accesses, Allowed
<1> HIDE DEF k
<1>8. /\ {<<Do("Lock", l, accesses)>>} \subseteq Courses(h, k)
      /\ {<<Do("Unlock", l, {})>>} \subseteq Courses(k, h)
  BY <1>1, <1>5, <1>6, <1>7, SingleStep
<1>9. body \subseteq Courses(k, k)
  BY DEF Balanced, k
<1>10. {<<Do("Lock", l, accesses)>>} ** body \subseteq Courses(h, k)
  BY <1>8, <1>9, CoursesOn
<1> QED
  BY <1>8, <1>10, CoursesOn DEF Under, Balanced

LEMMA BalancedRUnder ==
  ASSUME NEW h \in Holdings, NEW l \in Locks, Below(h, Level(l)),
         NEW accesses, accesses \subseteq Unguarded \cup {R(l)},
         NEW body, body \subseteq Balanced([h EXCEPT ![l] = "read"])
  PROVE  RUnder(l, accesses, body) \subseteq Balanced(h)
<1> DEFINE k == [h EXCEPT ![l] = "read"]
<1>1. k \in Holdings /\ k[l] = "read"
  BY DEF Holdings
<1>2. h[l] = "none"
  BY DEF Below, Level, Holdings
<1>3. h = [k EXCEPT ![l] = "none"]
  BY <1>2 DEF Holdings
<1>4. accesses \in SUBSET Touches /\ Allowed(k, accesses)
  BY OwnField
<1>5. Do("RLock", l, accesses) \in Moves /\ Do("RUnlock", l, {}) \in Moves
  BY <1>4 DEF Do, Moves
<1>6. Lawful(h, Do("RLock", l, accesses), k)
  BY <1>4 DEF Lawful, Takes, Do, Kind, Mutex, Accesses
<1>7. Lawful(k, Do("RUnlock", l, {}), h)
  BY <1>1, <1>3 DEF Lawful, Drops, Do, Kind, Mutex, Accesses, Allowed
<1> HIDE DEF k
<1>8. /\ {<<Do("RLock", l, accesses)>>} \subseteq Courses(h, k)
      /\ {<<Do("RUnlock", l, {})>>} \subseteq Courses(k, h)
  BY <1>1, <1>5, <1>6, <1>7, SingleStep
<1>9. body \subseteq Courses(k, k)
  BY DEF Balanced, k
<1>10. {<<Do("RLock", l, accesses)>>} ** body \subseteq Courses(h, k)
  BY <1>8, <1>9, CoursesOn
<1> QED
  BY <1>8, <1>10, CoursesOn DEF RUnder, Balanced

LEMMA OpenRun ==
  ASSUME NEW h \in Holdings, NEW accesses, accesses \subseteq Unguarded
  PROVE  Run(accesses) \subseteq Balanced(h)
<1>1. accesses \in SUBSET Touches
  BY DEF Unguarded, Touches, Fields, Locks
<1>2. Allowed(h, accesses)
  BY DEF Allowed, Guarded, Unguarded, W, R
<1> QED
  BY <1>1, <1>2, BalancedRun

\* The mutexes of the highest level, around a single access.
LEMMA LeafAccess ==
  ASSUME NEW h \in Holdings, Below(h, 3), NEW l \in Leaves
  PROVE  /\ Held(l, {R(l)}) \subseteq Balanced(h)
         /\ Held(l, {W(l)}) \subseteq Balanced(h)
         /\ RHeld(l, {R(l)}) \subseteq Balanced(h)
         /\ \A accesses \in SUBSET Unguarded : RHeld(l, accesses) \subseteq Balanced(h)
<1>1. l \in Locks /\ Level(l) = 3
  BY DEF Leaves, Level
<1>2. \A kind \in {"read", "write"} : Return \subseteq Balanced([h EXCEPT ![l] = kind])
  BY BalancedReturn DEF Holdings
<1> QED
  BY <1>1, <1>2, BalancedUnder, BalancedRUnder DEF Held, RHeld

\* What the accesses that nobody has to guard look like in the methods.
LEMMA OpenAccess ==
  ASSUME NEW h \in Holdings, Below(h, 3)
  PROVE  /\ RHeld("transition", {W("transition")}) \subseteq Balanced(h)
         /\ RHeld("config", {R("zones")}) \subseteq Balanced(h)
         /\ Run({R("config")}) \subseteq Balanced(h)
         /\ Run({R("transition")}) \subseteq Balanced(h)
<1>1. /\ "transition" \in Leaves /\ "config" \in Leaves
      /\ {W("transition")} \subseteq Unguarded /\ {R("zones")} \subseteq Unguarded
      /\ {R("config")} \subseteq Unguarded /\ {R("transition")} \subseteq Unguarded
  BY DEF Leaves, Locks, Unguarded, R, W
<1> QED
  BY <1>1, LeafAccess, OpenRun

LEMMA LeafNames ==
  /\ "config" \in Leaves /\ "lastFrame" \in Leaves /\ "detail" \in Leaves
  /\ "transition" \in Leaves /\ "cache" \in Leaves /\ "ripple" \in Leaves /\ "choice" \in Leaves
BY DEF Leaves, Locks

\* The methods that take a mutex of the highest level, and only one at a time.
LEMMA RippleMethods ==
  ASSUME NEW h \in Holdings, Below(h, 3)
  PROVE  /\ MarkDirty \subseteq Balanced(h)
         /\ CompositeRipple \subseteq Balanced(h)
         /\ WaitForRipple \subseteq Balanced(h)
         /\ StartTapRipple \subseteq Balanced(h)
<1>1. MarkDirty \subseteq Balanced(h)
  BY LeafAccess, LeafNames DEF MarkDirty
<1>2. CompositeRipple \subseteq Balanced(h)
  BY LeafAccess, LeafNames, BalancedReturn, BalancedOn DEF CompositeRipple
<1>3. WaitForRipple \subseteq Balanced(h)
  BY LeafAccess, LeafNames DEF WaitForRipple
<1>4. StartTapRipple \subseteq Balanced(h)
  BY <1>1, LeafAccess, LeafNames, BalancedOn DEF StartTapRipple
<1> QED
  BY <1>1, <1>2, <1>3, <1>4

LEMMA LookMethods ==
  ASSUME NEW h \in Holdings, Below(h, 3)
  PROVE  /\ LookAtOverlay \subseteq Balanced(h)
         /\ LookForChange \subseteq Balanced(h)
         /\ OtherFrame \subseteq Balanced(h)
<1>1. LookAtOverlay \subseteq Balanced(h)
  BY LeafAccess, LeafNames, BalancedOn DEF LookAtOverlay
<1>2. LookForChange \subseteq Balanced(h)
  BY <1>1, LeafAccess, OpenAccess, LeafNames, BalancedOn DEF LookForChange
<1>3. OtherFrame \subseteq Balanced(h)
  BY <1>1, RippleMethods, OpenAccess, BalancedReturn, BalancedOn DEF OtherFrame
<1> QED
  BY <1>1, <1>2, <1>3

LEMMA OverlayMethods ==
  ASSUME NEW h \in Holdings, Below(h, 3)
  PROVE  /\ ShowDetail \subseteq Balanced(h)
         /\ ClearDetail \subseteq Balanced(h)
         /\ DetailRefresh \subseteq Balanced(h)
         /\ LongPress \subseteq Balanced(h)
         /\ HandleDetailTap \subseteq Balanced(h)
         /\ CycleZonePlugin \subseteq Balanced(h)
         /\ HandleTap \subseteq Balanced(h)
<1>1. ShowDetail \subseteq Balanced(h)
  BY LeafAccess, LeafNames, BalancedOn DEF ShowDetail
<1>2. ClearDetail \subseteq Balanced(h)
  BY RippleMethods, LeafAccess, LeafNames, BalancedOn DEF ClearDetail
<1>3. DetailRefresh \subseteq Balanced(h)
  BY LeafAccess, LeafNames, BalancedReturn, BalancedOn DEF DetailRefresh
<1>4. LongPress \subseteq Balanced(h) /\ HandleDetailTap \subseteq Balanced(h)
  BY <1>2, LeafAccess, LeafNames, BalancedReturn, BalancedOn DEF LongPress, HandleDetailTap
<1>5. CycleZonePlugin \subseteq Balanced(h)
  BY LeafAccess, OpenAccess, LeafNames, BalancedReturn, BalancedOn DEF CycleZonePlugin
<1>6. HandleTap \subseteq Balanced(h)
  BY <1>4, <1>5, RippleMethods, LeafAccess, LeafNames, BalancedReturn, BalancedOn DEF HandleTap
<1> QED
  BY <1>1, <1>2, <1>3, <1>4, <1>5, <1>6

\* Each mutex a method keeps while it calls others leaves the levels above it.
LEMMA BelowSteps ==
  ASSUME NEW h \in Holdings
  PROVE  /\ Below(NoHold, 1)
         /\ Below(h, 1) => Below(h, 2) /\ \A kind \in {"read", "write"} :
              LET k == [h EXCEPT !["swipe"] = kind] IN k \in Holdings /\ Below(k, 2)
         /\ Below(h, 2) => Below(h, 3) /\ \A kind \in {"read", "write"} :
              LET k == [h EXCEPT !["payloads"] = kind] IN k \in Holdings /\ Below(k, 3)
BY DEF Below, Level, NoHold, Holdings, Locks

\* The methods that take payloadsMu and others while they hold it.
LEMMA PayloadMethods ==
  ASSUME NEW h \in Holdings, Below(h, 2)
  PROVE  /\ UpdatePayload \subseteq Balanced(h)
         /\ \A built, failed : built \subseteq Balanced(h) /\ failed \subseteq Balanced(h)
              => InitializePage(built, failed) \subseteq Balanced(h)
         /\ ZoneFrame \subseteq Balanced(h)
         /\ FrameFails \subseteq Balanced(h)
         /\ RenderFrame \subseteq Balanced(h)
         /\ RenderImmediate \subseteq Balanced(h)
         /\ PreRenderPage \subseteq Balanced(h)
         /\ HandleZoneTap \subseteq Balanced(h)
         /\ RHeld("payloads", {R("payloads")}) \subseteq Balanced(h)
<1> DEFINE r == [h EXCEPT !["payloads"] = "read"]
           w == [h EXCEPT !["payloads"] = "write"]
<1>1. /\ r \in Holdings /\ w \in Holdings /\ Below(r, 3) /\ Below(w, 3) /\ Below(h, 3)
      /\ "payloads" \in Locks /\ Level("payloads") = 2
  BY BelowSteps DEF Locks, Level
<1>2. \A accesses, body :
        /\ accesses \subseteq Unguarded \cup {R("payloads"), W("payloads")}
        /\ body \subseteq Balanced(w)
        => Under("payloads", accesses, body) \subseteq Balanced(h)
  BY <1>1, BalancedUnder
<1>3. \A accesses, body :
        /\ accesses \subseteq Unguarded \cup {R("payloads")} /\ body \subseteq Balanced(r)
        => RUnder("payloads", accesses, body) \subseteq Balanced(h)
  BY <1>1, BalancedRUnder
<1>4. Return \subseteq Balanced(r) /\ Return \subseteq Balanced(w) /\ Return \subseteq Balanced(h)
  BY <1>1, BalancedReturn
<1>5. Run({W("payloads")}) \subseteq Balanced(w)
  <2>1. {W("payloads")} \in SUBSET Touches /\ Allowed(w, {W("payloads")})
    BY <1>1, OwnField
  <2> QED
    BY <2>1, <1>1, BalancedRun
<1>6. RenderZoneImages \subseteq Unguarded \cup {R("payloads")}
  BY DEF RenderZoneImages, Unguarded, R, W
<1> HIDE DEF r, w
<1>7. UpdatePayload \subseteq Balanced(h)
  <2>1. /\ RHeld("config", {R("config")}) \subseteq Balanced(w)
        /\ MarkDirty \subseteq Balanced(w)
        /\ Held("cache", {W("cache")}) \subseteq Balanced(w)
    BY <1>1, LeafAccess, LeafNames, RippleMethods
  <2>2. RHeld("config", {R("config")})
          ** (Return \cup Run({W("payloads")}) ** MarkDirty ** Held("cache", {W("cache")}))
          \subseteq Balanced(w)
    BY <2>1, <1>4, <1>5, BalancedOn
  <2> QED
    BY <2>2, <1>2 DEF UpdatePayload
<1>8. ASSUME NEW built, NEW failed, built \subseteq Balanced(h), failed \subseteq Balanced(h)
      PROVE  InitializePage(built, failed) \subseteq Balanced(h)
  <2>1. {W("zones"), W("payloads"), R("config")}
          \subseteq Unguarded \cup {R("payloads"), W("payloads")}
    BY DEF Unguarded, R, W
  <2>2. Under("payloads", {W("zones"), W("payloads"), R("config")}, MarkDirty) \subseteq Balanced(h)
    BY <2>1, <1>1, <1>2, RippleMethods
  <2> QED
    BY <2>2, <1>1, <1>8, OpenAccess, BalancedOn DEF InitializePage
<1>9. ZoneFrame \subseteq Balanced(h)
  <2>1. CompositeRipple ** Held("lastFrame", {W("lastFrame")}) \subseteq Balanced(r)
    BY <1>1, LeafAccess, LeafNames, RippleMethods, BalancedOn
  <2>2. RUnder("payloads", RenderZoneImages, CompositeRipple ** Held("lastFrame", {W("lastFrame")}))
          \subseteq Balanced(h)
    BY <2>1, <1>3, <1>6
  <2> QED
    BY <2>2, <1>1, <1>4, LeafAccess, LeafNames, LookMethods, BalancedOn DEF ZoneFrame
<1>10. RUnder("payloads", RenderZoneImages, Return) \subseteq Balanced(h)
  BY <1>3, <1>4, <1>6
<1>11. FrameFails \subseteq Balanced(h)
  BY <1>1, <1>10, LeafAccess, LeafNames, LookMethods, BalancedOn DEF FrameFails
<1>12. RenderFrame \subseteq Balanced(h)
  BY <1>1, <1>9, <1>11, LookMethods DEF RenderFrame
<1>13. RenderImmediate \subseteq Balanced(h)
  BY <1>1, <1>10, LeafAccess, LeafNames, BalancedOn DEF RenderImmediate
<1>14. PreRenderPage \subseteq Balanced(h)
  <2>1. {R("payloads"), R("config")} \subseteq Unguarded \cup {R("payloads")}
    BY DEF Unguarded, R
  <2>2. RHeld("config", {R("config")}) ** (Return \cup Held("cache", {W("cache")})) \subseteq Balanced(r)
    BY <1>1, <1>4, LeafAccess, LeafNames, BalancedOn
  <2>3. RUnder("payloads", {R("payloads"), R("config")},
          RHeld("config", {R("config")}) ** (Return \cup Held("cache", {W("cache")}))) \subseteq Balanced(h)
    BY <2>1, <2>2, <1>3
  <2> QED
    BY <2>3, <1>1, OpenAccess, BalancedOn DEF PreRenderPage
<1>15. RHeld("payloads", {R("payloads")}) \subseteq Balanced(h)
  BY <1>3, <1>4 DEF RHeld
<1>16. HandleZoneTap \subseteq Balanced(h)
  BY <1>1, <1>4, <1>15, LeafAccess, LeafNames, RippleMethods, OverlayMethods, BalancedOn
  DEF HandleZoneTap
<1> QED
  BY <1>7, <1>8, <1>9, <1>11, <1>12, <1>13, <1>14, <1>15, <1>16

\* The methods that take liveSwipeMu and others while they hold it.
LEMMA SwipeMethods ==
  ASSUME NEW h \in Holdings, Below(h, 1)
  PROVE  /\ UpdateLiveSwipe \subseteq Balanced(h)
         /\ CancelLiveSwipe \subseteq Balanced(h)
         /\ FinalizeLiveSwipe \subseteq Balanced(h)
         /\ ColdSwipe \subseteq Balanced(h)
         /\ SwitchPage \subseteq Balanced(h)
<1> DEFINE w == [h EXCEPT !["swipe"] = "write"]
<1>1. /\ w \in Holdings /\ Below(w, 2) /\ Below(w, 3) /\ Below(h, 2) /\ Below(h, 3)
      /\ "swipe" \in Locks /\ Level("swipe") = 1
  BY BelowSteps DEF Locks, Level
<1>2. \A body : body \subseteq Balanced(w) => Under("swipe", {W("swipe")}, body) \subseteq Balanced(h)
  BY <1>1, BalancedUnder
<1>3. Return \subseteq Balanced(w) /\ Return \subseteq Balanced(h)
  BY <1>1, BalancedReturn
<1>4. /\ Held("transition", {W("transition")}) \subseteq Balanced(w)
      /\ RHeld("transition", {R("transition")}) \subseteq Balanced(w)
      /\ Held("lastFrame", {R("lastFrame")}) \subseteq Balanced(w)
      /\ RHeld("cache", {R("cache")}) \subseteq Balanced(w)
      /\ Run({R("config")}) \subseteq Balanced(w)
  BY <1>1, LeafAccess, LeafNames, OpenAccess
<1>5. /\ Held("transition", {W("transition")}) \subseteq Balanced(h)
      /\ RHeld("transition", {R("transition")}) \subseteq Balanced(h)
      /\ Held("lastFrame", {R("lastFrame")}) \subseteq Balanced(h)
      /\ RHeld("cache", {R("cache")}) \subseteq Balanced(h)
      /\ Held("cache", {W("cache")}) \subseteq Balanced(h)
      /\ RHeld("config", {R("config")}) \subseteq Balanced(h)
      /\ Run({R("config")}) \subseteq Balanced(h)
      /\ Run({R("transition")}) \subseteq Balanced(h)
  BY <1>1, LeafAccess, LeafNames, OpenAccess
<1>6. Held("swipe", {W("swipe")}) \subseteq Balanced(h)
  BY <1>2, <1>3 DEF Held
<1>7. /\ ZoneFrame \subseteq Balanced(w) /\ FrameFails \subseteq Balanced(w)
      /\ OtherFrame \subseteq Balanced(w)
  BY <1>1, PayloadMethods, LookMethods
<1> HIDE DEF w
<1>8. UpdateLiveSwipe \subseteq Balanced(h)
  <2> DEFINE Begin == Run({R("config")}) ** Held("lastFrame", {R("lastFrame")})
             Started == Begin
                        ** (Return \cup OtherFrame \cup ZoneFrame)
                        ** RHeld("cache", {R("cache")})
                        ** Held("transition", {W("transition")})
             Move == (Return \cup Held("transition", {W("transition")}))
                       ** Held("transition", {W("transition")})
             Body == Return \cup Begin ** FrameFails \cup Started ** Move \cup Move
  <2>1. Begin \subseteq Balanced(w) /\ Move \subseteq Balanced(w)
    BY <1>3, <1>4, BalancedOn
  <2> HIDE DEF Begin, Move
  <2>2. Started \subseteq Balanced(w)
    BY <2>1, <1>3, <1>4, <1>7, BalancedOn
  <2> HIDE DEF Started
  <2>3. Body \subseteq Balanced(w)
    BY <2>1, <2>2, <1>3, <1>7, BalancedOn
  <2>4. Under("swipe", {W("swipe")}, Body) \subseteq Balanced(h)
    BY <2>3, <1>2
  <2>5. UpdateLiveSwipe = RHeld("transition", {R("transition")}) ** Under("swipe", {W("swipe")}, Body)
    BY DEF UpdateLiveSwipe, Begin, Started, Move
  <2> QED
    BY <2>4, <2>5, <1>5, BalancedOn
<1>9. CancelLiveSwipe \subseteq Balanced(h)
  <2>1. Return \cup RHeld("transition", {R("transition")})
                      ** Held("transition", {W("transition")})
                      ** RHeld("transition", {R("transition")}) \subseteq Balanced(w)
    BY <1>3, <1>4, BalancedOn
  <2> QED
    BY <2>1, <1>2 DEF CancelLiveSwipe
<1>10. FinalizeLiveSwipe \subseteq Balanced(h)
  <2> DEFINE Slide == Held("transition", {W("transition")})
             Show == RHeld("cache", {R("cache")})
                       ** (  Slide
                        \cup RenderImmediate ** (Return \cup Held("cache", {W("cache")}) ** Slide))
                       ** RHeld("transition", {R("transition")})
             Body == RHeld("transition", {R("transition")}) ** Run({R("config")}) ** Slide
  <2>1. Body \subseteq Balanced(w)
    BY <1>4, BalancedOn
  <2>2. RenderImmediate \subseteq Balanced(h)
    BY <1>1, PayloadMethods
  <2>3. Show \subseteq Balanced(h)
    BY <2>2, <1>3, <1>5, BalancedOn
  <2> HIDE DEF Show
  <2>4. InitializePage(Show, Show) \subseteq Balanced(h)
    BY <2>3, <1>1, PayloadMethods
  <2> HIDE DEF Body
  <2>5. Under("swipe", {W("swipe")}, Body) ** InitializePage(Show, Show) \subseteq Balanced(h)
    BY <2>1, <2>4, <1>2, BalancedOn
  <2>6. Held("swipe", {W("swipe")}) ** (Return \cup CancelLiveSwipe) \subseteq Balanced(h)
    BY <1>3, <1>6, <1>9, BalancedOn
  <2>7. FinalizeLiveSwipe =
               Held("swipe", {W("swipe")}) ** (Return \cup CancelLiveSwipe)
          \cup Under("swipe", {W("swipe")}, Body) ** InitializePage(Show, Show)
    BY DEF FinalizeLiveSwipe, Show, Body
  <2> QED
    BY <2>5, <2>6, <2>7
<1>11. ColdSwipe \subseteq Balanced(h)
  <2>1. RUnder("payloads", {R("payloads")}, Return) \subseteq Balanced(h)
    BY <1>1, PayloadMethods DEF RHeld
  <2> QED
    BY <2>1, <1>5, <1>6, BalancedOn DEF ColdSwipe
<1>12. SwitchPage \subseteq Balanced(h)
  <2> DEFINE Slide == Held("transition", {W("transition")}) ** Run({R("transition")})
             Show == Held("cache", {W("cache")})
                       ** RenderImmediate
                       ** (Return \cup (Return \cup Slide) ** RHeld("transition", {R("transition")}))
  <2>1. RenderImmediate \subseteq Balanced(h)
    BY <1>1, PayloadMethods
  <2>2. Slide \subseteq Balanced(h)
    BY <1>5, BalancedOn
  <2> HIDE DEF Slide
  <2>3. Show \subseteq Balanced(h)
    BY <2>1, <2>2, <1>3, <1>5, BalancedOn
  <2> HIDE DEF Show
  <2>4. InitializePage(Show, Return) \subseteq Balanced(h)
    BY <2>3, <1>1, <1>3, PayloadMethods
  <2>5. SwitchPage =
          Run({R("config")})
            ** (  Return
             \cup Held("swipe", {W("swipe")})
                    ** Held("lastFrame", {R("lastFrame")})
                    ** InitializePage(Show, Return))
    BY DEF SwitchPage, Show, Slide
  <2> QED
    BY <2>4, <2>5, <1>3, <1>5, <1>6, BalancedOn
<1> QED
  BY <1>8, <1>9, <1>10, <1>11, <1>12

\* Whatever a goroutine calls keeps the order, accesses nothing it may not, and gives
\* back every mutex on every path (manager*.go).
LEMMA CallsBalanced ==
  ASSUME NEW t \in Threads PROVE Calls(t) \subseteq Balanced(NoHold)
<1> DEFINE h == NoHold
<1>1. h \in Holdings /\ Below(h, 1) /\ Below(h, 2) /\ Below(h, 3)
  <2>1. h \in Holdings
    BY DEF NoHold, Holdings
  <2> QED
    BY <2>1, BelowSteps
<1>2. Return \subseteq Balanced(h)
  BY <1>1, BalancedReturn
<1> HIDE DEF h
<1>3. ReloadFromConfig \subseteq Balanced(h)
  <2>1. /\ Held("cache", {W("cache")}) \subseteq Balanced(h)
        /\ Held("config", {W("config")}) \subseteq Balanced(h)
    BY <1>1, LeafAccess, LeafNames
  <2>2. InitializePage(Held("cache", {W("cache")}), Return) \subseteq Balanced(h)
    BY <2>1, <1>1, <1>2, PayloadMethods
  <2> QED
    BY <2>1, <2>2, BalancedOn DEF ReloadFromConfig
<1>4. HandleZoneTapAtX \subseteq Balanced(h)
  BY <1>1, <1>2, LeafAccess, LeafNames, RippleMethods, OverlayMethods, PayloadMethods, BalancedOn
  DEF HandleZoneTapAtX
<1>5. RenderFrame ** (Return \cup RHeld("transition", {W("transition")})) \subseteq Balanced(h)
  BY <1>1, <1>2, OpenAccess, PayloadMethods, BalancedOn
<1>6. /\ UpdatePayload \subseteq Balanced(h)
      /\ SwitchPage \cup ReloadFromConfig \cup HandleZoneTapAtX \subseteq Balanced(h)
      /\ PreRenderPage \cup ColdSwipe \cup HandleZoneTap \cup ClearDetail \cup DetailRefresh
           \subseteq Balanced(h)
      /\ UpdateLiveSwipe \cup FinalizeLiveSwipe \cup CancelLiveSwipe \cup HandleTap \cup LongPress
           \subseteq Balanced(h)
  BY <1>1, <1>3, <1>4, SwipeMethods, PayloadMethods, OverlayMethods
<1> QED
  BY <1>5, <1>6 DEF Calls, Threads, h

-----------------------------------------------------------------------------
(* The inductive invariant of ManagerLocks *)

\* What the goroutine t holds.  A writer that waits for readers does not hold yet.
Hold(t) ==
  [l \in Locks |-> IF owner[l] = t /\ l \notin draining THEN "write"
                   ELSE IF t \in readers[l] THEN "read" ELSE "none"]

\* The inductive invariant: types; every course left to a goroutine is lawful from what
\* it holds and gives all of it back; between methods it holds nothing; what it accesses
\* is guarded; a writer is alone; and a goroutine that waits for readers waits for those
\* of one mutex, which it is about to lock.
LocksTyped ==
  /\ owner \in [Locks -> Threads \cup {Nobody}]
  /\ draining \subseteq Locks
  /\ readers \in [Locks -> SUBSET Threads]
  /\ todo \in [Threads -> SUBSET Seq(Moves)]
  /\ doing \in [Threads -> SUBSET Touches]

OnCourse == \A t \in Threads : todo[t] \subseteq Courses(Hold(t), NoHold)

AtRest == \A t \in Threads : todo[t] = {} => Hold(t) = NoHold /\ doing[t] = {}

Justified == \A t \in Threads : Allowed(Hold(t), doing[t])

Exclusive == \A l \in Locks \ draining : owner[l] # Nobody => readers[l] = {}

Drains ==
  \A l \in draining :
    /\ owner[l] \in Threads
    /\ \E step \in Heads(owner[l]) : Kind(step) = "Lock" /\ Mutex(step) = l

OneWait == \A l, m \in draining : owner[l] = owner[m] => l = m

LocksInv == LocksTyped /\ OnCourse /\ AtRest /\ Justified /\ Exclusive /\ Drains /\ OneWait

LEMMA HoldTyped ==
  \A t : Hold(t) \in Holdings
BY DEF Hold, Holdings

\* The step a goroutine is at is lawful, ...
LEMMA HeadLawful ==
  ASSUME LocksInv, NEW t \in Threads, NEW step \in Heads(t)
  PROVE  \E h \in Holdings : Lawful(Hold(t), step, h)
<1>1. PICK c \in todo[t] \ Return : step = Head(c)
  BY DEF Heads
<1>2. Leads(Hold(t), c, NoHold) /\ c # << >>
  BY <1>1 DEF LocksInv, OnCourse, Courses, Return
<1> QED
  BY <1>1, <1>2, LeadsFirst

\* ... so that it does not hold what it takes, and holds what it gives back.
LEMMA HeadLock ==
  ASSUME LocksInv, NEW t \in Threads, NEW step \in Heads(t)
  PROVE  /\ Kind(step) \in {"Lock", "RLock"} =>
              /\ Mutex(step) \in Locks /\ Below(Hold(t), Level(Mutex(step)))
              /\ Hold(t)[Mutex(step)] = "none"
         /\ Kind(step) = "Unlock" => Mutex(step) \in Locks /\ Hold(t)[Mutex(step)] = "write"
         /\ Kind(step) = "RUnlock" => Mutex(step) \in Locks /\ Hold(t)[Mutex(step)] = "read"
<1>1. PICK h \in Holdings : Lawful(Hold(t), step, h)
  BY HeadLawful
<1>2. Below(Hold(t), Level(Mutex(step))) /\ Mutex(step) \in Locks => Hold(t)[Mutex(step)] = "none"
  BY DEF Below, Level
<1> QED
  BY <1>1, <1>2 DEF Lawful, Takes, Drops

\* A goroutine that goes on as its step says stays on course.
LEMMA GoOn ==
  ASSUME LocksInv, NEW t \in Threads, NEW step \in Heads(t), Go(t, step), NEW h,
         \A k \in Holdings : Lawful(Hold(t), step, k) => k = h,
         Hold(t)' = h, \A u \in Threads \ {t} : Hold(u)' = Hold(u)
  PROVE  /\ todo' \in [Threads -> SUBSET Seq(Moves)] /\ doing' \in [Threads -> SUBSET Touches]
         /\ OnCourse' /\ AtRest' /\ Justified'
         /\ todo'[t] # {} /\ \A u \in Threads \ {t} : todo'[u] = todo[u] /\ Heads(u)' = Heads(u)
<1> DEFINE begun == {c \in todo[t] \ Return : Head(c) = step}
           left == {Tail(c) : c \in begun}
<1>1. /\ todo \in [Threads -> SUBSET Seq(Moves)] /\ doing \in [Threads -> SUBSET Touches]
  BY DEF LocksInv, LocksTyped
<1>2. /\ todo' = [todo EXCEPT ![t] = left] /\ doing' = [doing EXCEPT ![t] = Accesses(step)]
  BY <1>1 DEF Go
<1>3. ASSUME NEW c \in begun PROVE Tail(c) \in Courses(h, NoHold) /\ Lawful(Hold(t), step, h)
  <2>1. Leads(Hold(t), c, NoHold) /\ c # << >> /\ Head(c) = step
    BY DEF LocksInv, OnCourse, Courses, Return
  <2>2. PICK k \in Holdings : Lawful(Hold(t), step, k) /\ Leads(k, Tail(c), NoHold)
    BY <2>1, LeadsFirst
  <2>3. Leads(h, Tail(c), NoHold)
    BY <2>2
  <2> QED
    BY <2>2, <2>3 DEF Courses, Leads
<1>4. PICK c \in begun : TRUE
  BY DEF Heads
<1>5. step \in Moves
  BY <1>1, <1>4 DEF Return
<1>6. left \subseteq Courses(h, NoHold) /\ left # {} /\ left \subseteq Seq(Moves)
  BY <1>3, <1>4 DEF Courses
<1>7. Accesses(step) \in SUBSET Touches /\ Allowed(h, Accesses(step))
  BY <1>3, <1>4, <1>5 DEF Lawful, Moves, Accesses
<1> HIDE DEF left, begun
<1>8. /\ todo'[t] = left /\ doing'[t] = Accesses(step)
      /\ \A u \in Threads \ {t} : todo'[u] = todo[u] /\ doing'[u] = doing[u]
  BY <1>1, <1>2
<1>9. OnCourse'
  BY <1>6, <1>8 DEF OnCourse, LocksInv
<1>10. AtRest'
  BY <1>6, <1>8 DEF AtRest, LocksInv
<1>11. Justified'
  BY <1>7, <1>8 DEF Justified, LocksInv
<1>12. \A u \in Threads \ {t} : Heads(u)' = Heads(u)
  BY <1>8 DEF Heads
<1> QED
  BY <1>1, <1>2, <1>6, <1>7, <1>8, <1>9, <1>10, <1>11, <1>12

\* The manager starts with no mutex taken.
LEMMA LocksInvInit == LocksInit => LocksInv
<1> SUFFICES ASSUME LocksInit PROVE LocksInv
  OBVIOUS
<1> USE DEF LocksInit
<1>1. LocksTyped
  BY DEF LocksTyped
<1>2. \A t \in Threads : Hold(t) = NoHold
  BY ThreadsAssumption DEF Hold, NoHold
<1>3. OnCourse /\ AtRest /\ Exclusive /\ Drains /\ OneWait
  BY <1>2 DEF OnCourse, AtRest, Exclusive, Drains, OneWait
<1>4. Justified
  BY DEF Justified, Allowed
<1> QED
  BY <1>1, <1>3, <1>4 DEF LocksInv

\* Each action keeps the invariant.
LEMMA LockKeeps ==
  ASSUME LocksInv, NEW t \in Threads, NEW step \in Heads(t), ~Waiting(t), Lock(t, step)
  PROVE  LocksInv'
<1> DEFINE l == Mutex(step)
<1>1. /\ l \in Locks /\ Hold(t)[l] = "none" /\ l \notin draining
  BY HeadLock, ThreadsAssumption DEF Lock, LocksInv, Drains
<1>2. /\ owner \in [Locks -> Threads \cup {Nobody}] /\ owner' = [owner EXCEPT ![l] = t]
      /\ owner[l] = Nobody /\ readers[l] = {} /\ UNCHANGED <<draining, readers>>
  BY DEF Lock, LocksInv, LocksTyped
<1>3. Hold(t)' = [Hold(t) EXCEPT ![l] = "write"]
  BY <1>1, <1>2 DEF Hold
<1>4. \A u \in Threads \ {t} : Hold(u)' = Hold(u)
  BY <1>1, <1>2, ThreadsAssumption DEF Hold
<1>5. \A k \in Holdings : Lawful(Hold(t), step, k) => k = [Hold(t) EXCEPT ![l] = "write"]
  BY DEF Lawful, Takes, Drops, Lock
<1>6. /\ todo' \in [Threads -> SUBSET Seq(Moves)] /\ doing' \in [Threads -> SUBSET Touches]
      /\ OnCourse' /\ AtRest' /\ Justified'
      /\ todo'[t] # {} /\ \A u \in Threads \ {t} : todo'[u] = todo[u] /\ Heads(u)' = Heads(u)
  BY <1>3, <1>4, <1>5, GoOn DEF Lock
<1>7. LocksTyped'
  BY <1>1, <1>2, <1>6 DEF LocksInv, LocksTyped
<1>8. Exclusive' /\ OneWait'
  BY <1>1, <1>2 DEF LocksInv, Exclusive, OneWait
<1>9. Drains'
  BY <1>1, <1>2, <1>6 DEF LocksInv, Drains, Waiting
<1> QED
  BY <1>6, <1>7, <1>8, <1>9 DEF LocksInv

LEMMA AnnounceKeeps ==
  ASSUME LocksInv, NEW t \in Threads, NEW step \in Heads(t), ~Waiting(t), Announce(t, step)
  PROVE  LocksInv'
<1> DEFINE l == Mutex(step)
<1>1. /\ l \in Locks /\ Hold(t)[l] = "none" /\ l \notin draining
  BY HeadLock, ThreadsAssumption DEF Announce, LocksInv, Drains
<1>2. /\ owner \in [Locks -> Threads \cup {Nobody}] /\ owner' = [owner EXCEPT ![l] = t]
      /\ owner[l] = Nobody /\ draining' = draining \cup {l} /\ UNCHANGED <<readers, todo, doing>>
  BY DEF Announce, LocksInv, LocksTyped
<1>3. \A u \in Threads : Hold(u)' = Hold(u)
  BY <1>1, <1>2, ThreadsAssumption DEF Hold
<1>4. OnCourse' /\ AtRest' /\ Justified'
  BY <1>2, <1>3 DEF LocksInv, OnCourse, AtRest, Justified
<1>5. LocksTyped'
  BY <1>1, <1>2 DEF LocksInv, LocksTyped
<1>6. Exclusive' /\ OneWait'
  BY <1>1, <1>2 DEF LocksInv, Exclusive, OneWait, Waiting
<1>7. Drains'
  <2>1. \A u : Heads(u)' = Heads(u)
    BY <1>2 DEF Heads
  <2> QED
    BY <2>1, <1>1, <1>2 DEF LocksInv, Drains, Announce
<1> QED
  BY <1>4, <1>5, <1>6, <1>7 DEF LocksInv

LEMMA EnterKeeps ==
  ASSUME LocksInv, NEW t \in Threads, NEW step \in Heads(t), Enter(t, step)
  PROVE  LocksInv'
<1> DEFINE l == Mutex(step)
<1>1. /\ l \in Locks /\ Hold(t)[l] = "none"
  BY HeadLock DEF Enter
<1>2. /\ owner[l] = t /\ l \in draining /\ readers[l] = {}
      /\ draining' = draining \ {l} /\ UNCHANGED <<owner, readers>>
  BY DEF Enter
<1>3. Hold(t)' = [Hold(t) EXCEPT ![l] = "write"]
  BY <1>1, <1>2 DEF Hold
<1>4. \A u \in Threads \ {t} : Hold(u)' = Hold(u)
  BY <1>1, <1>2 DEF Hold
<1>5. \A k \in Holdings : Lawful(Hold(t), step, k) => k = [Hold(t) EXCEPT ![l] = "write"]
  BY DEF Lawful, Takes, Drops, Enter
<1>6. /\ todo' \in [Threads -> SUBSET Seq(Moves)] /\ doing' \in [Threads -> SUBSET Touches]
      /\ OnCourse' /\ AtRest' /\ Justified'
      /\ todo'[t] # {} /\ \A u \in Threads \ {t} : todo'[u] = todo[u] /\ Heads(u)' = Heads(u)
  BY <1>3, <1>4, <1>5, GoOn DEF Enter
<1>7. LocksTyped'
  BY <1>2, <1>6 DEF LocksInv, LocksTyped
<1>8. Exclusive' /\ OneWait'
  BY <1>2 DEF LocksInv, Exclusive, OneWait
<1>9. Drains'
  BY <1>2, <1>6 DEF LocksInv, Drains, OneWait
<1> QED
  BY <1>6, <1>7, <1>8, <1>9 DEF LocksInv

LEMMA RLockKeeps ==
  ASSUME LocksInv, NEW t \in Threads, NEW step \in Heads(t), ~Waiting(t), RLock(t, step)
  PROVE  LocksInv'
<1> DEFINE l == Mutex(step)
<1>1. /\ l \in Locks /\ Hold(t)[l] = "none"
  BY HeadLock DEF RLock
<1>2. /\ readers \in [Locks -> SUBSET Threads] /\ readers' = [readers EXCEPT ![l] = @ \cup {t}]
      /\ owner[l] = Nobody /\ UNCHANGED <<owner, draining>>
  BY DEF RLock, LocksInv, LocksTyped
<1>3. Hold(t)' = [Hold(t) EXCEPT ![l] = "read"]
  BY <1>1, <1>2, ThreadsAssumption DEF Hold
<1>4. \A u \in Threads \ {t} : Hold(u)' = Hold(u)
  BY <1>1, <1>2 DEF Hold
<1>5. \A k \in Holdings : Lawful(Hold(t), step, k) => k = [Hold(t) EXCEPT ![l] = "read"]
  BY DEF Lawful, Takes, Drops, RLock
<1>6. /\ todo' \in [Threads -> SUBSET Seq(Moves)] /\ doing' \in [Threads -> SUBSET Touches]
      /\ OnCourse' /\ AtRest' /\ Justified'
      /\ todo'[t] # {} /\ \A u \in Threads \ {t} : todo'[u] = todo[u] /\ Heads(u)' = Heads(u)
  BY <1>3, <1>4, <1>5, GoOn DEF RLock
<1>7. LocksTyped'
  BY <1>1, <1>2, <1>6 DEF LocksInv, LocksTyped
<1>8. Exclusive' /\ OneWait'
  BY <1>1, <1>2 DEF LocksInv, Exclusive, OneWait
<1>9. Drains'
  BY <1>2, <1>6 DEF LocksInv, Drains, Waiting
<1> QED
  BY <1>6, <1>7, <1>8, <1>9 DEF LocksInv

LEMMA UnlockKeeps ==
  ASSUME LocksInv, NEW t \in Threads, NEW step \in Heads(t), ~Waiting(t), Unlock(t, step)
  PROVE  LocksInv'
<1> DEFINE l == Mutex(step)
<1>1. l \in Locks /\ owner[l] = t /\ l \notin draining
  <2>1. l \in Locks /\ Hold(t)[l] = "write"
    BY HeadLock DEF Unlock
  <2> QED
    BY <2>1 DEF Hold
<1>2. /\ owner \in [Locks -> Threads \cup {Nobody}] /\ owner' = [owner EXCEPT ![l] = Nobody]
      /\ readers[l] = {} /\ UNCHANGED <<draining, readers>>
  BY <1>1, ThreadsAssumption DEF Unlock, LocksInv, LocksTyped, Exclusive
<1>3. Hold(t)' = [Hold(t) EXCEPT ![l] = "none"]
  BY <1>1, <1>2, ThreadsAssumption DEF Hold
<1>4. \A u \in Threads \ {t} : Hold(u)' = Hold(u)
  BY <1>1, <1>2, ThreadsAssumption DEF Hold
<1>5. \A k \in Holdings : Lawful(Hold(t), step, k) => k = [Hold(t) EXCEPT ![l] = "none"]
  BY DEF Lawful, Takes, Drops, Unlock
<1>6. /\ todo' \in [Threads -> SUBSET Seq(Moves)] /\ doing' \in [Threads -> SUBSET Touches]
      /\ OnCourse' /\ AtRest' /\ Justified'
      /\ todo'[t] # {} /\ \A u \in Threads \ {t} : todo'[u] = todo[u] /\ Heads(u)' = Heads(u)
  BY <1>3, <1>4, <1>5, GoOn DEF Unlock
<1>7. LocksTyped'
  BY <1>1, <1>2, <1>6 DEF LocksInv, LocksTyped
<1>8. Exclusive' /\ OneWait'
  BY <1>1, <1>2 DEF LocksInv, Exclusive, OneWait
<1>9. Drains'
  BY <1>1, <1>2, <1>6 DEF LocksInv, Drains, Waiting
<1> QED
  BY <1>6, <1>7, <1>8, <1>9 DEF LocksInv

LEMMA RUnlockKeeps ==
  ASSUME LocksInv, NEW t \in Threads, NEW step \in Heads(t), ~Waiting(t), RUnlock(t, step)
  PROVE  LocksInv'
<1> DEFINE l == Mutex(step)
<1>1. /\ l \in Locks /\ Hold(t)[l] = "read" /\ ~(owner[l] = t /\ l \notin draining)
  <2>1. l \in Locks /\ Hold(t)[l] = "read"
    BY HeadLock DEF RUnlock
  <2> QED
    BY <2>1 DEF Hold
<1>2. /\ readers \in [Locks -> SUBSET Threads] /\ readers' = [readers EXCEPT ![l] = @ \ {t}]
      /\ UNCHANGED <<owner, draining>>
  BY DEF RUnlock, LocksInv, LocksTyped
<1>3. Hold(t)' = [Hold(t) EXCEPT ![l] = "none"]
  BY <1>1, <1>2 DEF Hold
<1>4. \A u \in Threads \ {t} : Hold(u)' = Hold(u)
  BY <1>1, <1>2 DEF Hold
<1>5. \A k \in Holdings : Lawful(Hold(t), step, k) => k = [Hold(t) EXCEPT ![l] = "none"]
  BY DEF Lawful, Takes, Drops, RUnlock
<1>6. /\ todo' \in [Threads -> SUBSET Seq(Moves)] /\ doing' \in [Threads -> SUBSET Touches]
      /\ OnCourse' /\ AtRest' /\ Justified'
      /\ todo'[t] # {} /\ \A u \in Threads \ {t} : todo'[u] = todo[u] /\ Heads(u)' = Heads(u)
  BY <1>3, <1>4, <1>5, GoOn DEF RUnlock
<1>7. LocksTyped'
  BY <1>1, <1>2, <1>6 DEF LocksInv, LocksTyped
<1>8. Exclusive' /\ OneWait'
  BY <1>1, <1>2 DEF LocksInv, Exclusive, OneWait
<1>9. Drains'
  BY <1>2, <1>6 DEF LocksInv, Drains, Waiting
<1> QED
  BY <1>6, <1>7, <1>8, <1>9 DEF LocksInv

LEMMA ProceedKeeps ==
  ASSUME LocksInv, NEW t \in Threads, NEW step \in Heads(t), ~Waiting(t), Proceed(t, step)
  PROVE  LocksInv'
<1>1. \A u \in Threads : Hold(u)' = Hold(u)
  BY DEF Hold, Proceed
<1>2. \A k \in Holdings : Lawful(Hold(t), step, k) => k = Hold(t)
  BY DEF Lawful, Takes, Drops, Proceed
<1>3. /\ todo' \in [Threads -> SUBSET Seq(Moves)] /\ doing' \in [Threads -> SUBSET Touches]
      /\ OnCourse' /\ AtRest' /\ Justified'
      /\ todo'[t] # {} /\ \A u \in Threads \ {t} : todo'[u] = todo[u] /\ Heads(u)' = Heads(u)
  BY <1>1, <1>2, GoOn DEF Proceed
<1>4. UNCHANGED <<owner, draining, readers>>
  BY DEF Proceed
<1>5. LocksTyped' /\ Exclusive' /\ OneWait'
  BY <1>3, <1>4 DEF LocksInv, LocksTyped, Exclusive, OneWait
<1>6. Drains'
  BY <1>3, <1>4 DEF LocksInv, Drains, Waiting
<1> QED
  BY <1>3, <1>5, <1>6 DEF LocksInv

LEMMA CallKeeps ==
  ASSUME LocksInv, NEW t \in Threads, Call(t) PROVE LocksInv'
<1>1. /\ todo[t] = {} /\ todo \in [Threads -> SUBSET Seq(Moves)]
      /\ todo' = [todo EXCEPT ![t] = Calls(t)] /\ UNCHANGED <<owner, draining, readers, doing>>
  BY DEF Call, LocksInv, LocksTyped
<1>2. Hold(t) = NoHold /\ doing[t] = {}
  BY <1>1 DEF LocksInv, AtRest
<1>3. Calls(t) \subseteq Courses(NoHold, NoHold) /\ Calls(t) \subseteq Seq(Moves)
  BY CallsBalanced DEF Balanced, Courses
<1>4. \A u \in Threads : Hold(u)' = Hold(u)
  BY <1>1 DEF Hold
<1>5. LocksTyped' /\ Exclusive' /\ OneWait'
  BY <1>1, <1>3 DEF LocksInv, LocksTyped, Exclusive, OneWait
<1>6. OnCourse'
  BY <1>1, <1>2, <1>3, <1>4 DEF LocksInv, OnCourse
<1>7. AtRest' /\ Justified'
  BY <1>1, <1>2, <1>4 DEF LocksInv, AtRest, Justified
<1>8. Drains'
  <2>1. \A u \in Threads \ {t} : Heads(u)' = Heads(u)
    BY <1>1 DEF Heads
  <2>2. Heads(t) = {}
    BY <1>1 DEF Heads
  <2> QED
    BY <2>1, <2>2, <1>1 DEF LocksInv, Drains
<1> QED
  BY <1>5, <1>6, <1>7, <1>8 DEF LocksInv

LEMMA DoneKeeps ==
  ASSUME LocksInv, NEW t \in Threads, ~Waiting(t), Done(t) PROVE LocksInv'
<1>1. /\ << >> \in todo[t] /\ todo \in [Threads -> SUBSET Seq(Moves)]
      /\ doing \in [Threads -> SUBSET Touches]
      /\ todo' = [todo EXCEPT ![t] = {}] /\ doing' = [doing EXCEPT ![t] = {}]
      /\ UNCHANGED <<owner, draining, readers>>
  BY DEF Done, LocksInv, LocksTyped
<1>2. Hold(t) = NoHold
  BY <1>1, LeadsDone DEF LocksInv, OnCourse, Courses
<1>3. \A u \in Threads : Hold(u)' = Hold(u)
  BY <1>1 DEF Hold
<1>4. LocksTyped' /\ Exclusive' /\ OneWait'
  BY <1>1 DEF LocksInv, LocksTyped, Exclusive, OneWait
<1>5. OnCourse'
  BY <1>1, <1>3 DEF LocksInv, OnCourse
<1>6. AtRest' /\ Justified'
  BY <1>1, <1>2, <1>3 DEF LocksInv, AtRest, Justified, Allowed
<1>7. Drains'
  <2>1. \A u \in Threads \ {t} : Heads(u)' = Heads(u)
    BY <1>1 DEF Heads
  <2> QED
    BY <2>1, <1>1 DEF LocksInv, Drains, Waiting
<1> QED
  BY <1>4, <1>5, <1>6, <1>7 DEF LocksInv

\* The variables keep their types, and no goroutine ever strays from the order of the
\* mutexes, accesses a Guarded field without its mutex, or ends a method with one taken:
\* for any number of goroutines and of methods under way.  Of the fields that are not
\* Guarded (the zones, their images and the frame buffers among them) it says nothing.
THEOREM LocksInvAlways == LocksSpec => []LocksInv
<1>1. LocksInv /\ [LocksNext]_locksVars => LocksInv'
  <2> SUFFICES ASSUME LocksInv, [LocksNext]_locksVars PROVE LocksInv'
    OBVIOUS
  <2>1. CASE LocksNext
    <3>1. PICK t \in Threads :
            \/ Call(t)
            \/ ~Waiting(t) /\ Done(t)
            \/ \E step \in Heads(t) : Enter(t, step) \/ (~Waiting(t) /\ Step(t, step))
      BY <2>1 DEF LocksNext
    <3>2. CASE Call(t)
      BY <3>2, CallKeeps
    <3>3. CASE ~Waiting(t) /\ Done(t)
      BY <3>3, DoneKeeps
    <3>4. ASSUME NEW step \in Heads(t), Enter(t, step) PROVE LocksInv'
      BY <3>4, EnterKeeps
    <3>5. ASSUME NEW step \in Heads(t), ~Waiting(t), Step(t, step) PROVE LocksInv'
      BY <3>5, LockKeeps, AnnounceKeeps, RLockKeeps, UnlockKeeps, RUnlockKeeps, ProceedKeeps
      DEF Step
    <3> QED
      BY <3>1, <3>2, <3>3, <3>4, <3>5
  <2>2. CASE UNCHANGED locksVars
    <3>1. \A u : Hold(u)' = Hold(u) /\ Heads(u)' = Heads(u)
      BY <2>2 DEF locksVars, Hold, Heads
    <3> QED
      BY <2>2, <3>1
      DEF locksVars, LocksInv, LocksTyped, OnCourse, AtRest, Justified, Exclusive, Drains, OneWait
  <2> QED
    BY <2>1, <2>2
<1> QED
  BY LocksInvInit, <1>1, PTL DEF LocksSpec

\* Who is waited for holds the mutex, or will.
LEMMA WaitedFor ==
  ASSUME LocksInv, NEW t \in Threads, NEW u \in Threads, NEW step \in Heads(t),
         WaitsFor(t, step, u)
  PROVE  /\ Mutex(step) \in Locks /\ Below(Hold(t), Level(Mutex(step)))
         /\ Hold(u)[Mutex(step)] # "none" \/ (Mutex(step) \in draining /\ owner[Mutex(step)] = u)
<1>1. Mutex(step) \in Locks /\ Below(Hold(t), Level(Mutex(step)))
  BY HeadLock DEF WaitsFor
<1> QED
  BY <1>1 DEF WaitsFor, Hold

\* No goroutines of the manager wait in a ring (sync.RWMutex of manager.go:49-126): one
\* that waits for a mutex waits for a holder that itself waits for one of a higher level.
THEOREM NoCircularWaitAlways == LocksSpec => []NoCircularWait
<1>1. LocksInv => NoCircularWait
  <2> SUFFICES ASSUME LocksInv, NEW S \in (SUBSET Active) \ {{}},
                      \A t \in S : \E step \in Heads(t), u \in S : AtStep(t, step) /\ WaitsFor(t, step, u)
               PROVE  FALSE
    BY DEF NoCircularWait
  <2>1. S \subseteq Threads /\ S # {}
    BY DEF Active
  <2>2. ASSUME NEW t \in S
        PROVE  \E l \in Locks, u \in S : Below(Hold(t), Level(l)) /\ Hold(u)[l] # "none"
    <3>1. PICK step \in Heads(t), u \in S : AtStep(t, step) /\ WaitsFor(t, step, u)
      OBVIOUS
    <3> DEFINE l == Mutex(step)
    <3>2. /\ l \in Locks /\ Below(Hold(t), Level(l))
          /\ Hold(u)[l] # "none" \/ (l \in draining /\ owner[l] = u)
      BY <3>1, <2>1, WaitedFor
    <3>3. ASSUME l \in draining, owner[l] = u PROVE \E v \in S : Hold(v)[l] # "none"
      <4>1. PICK next \in Heads(u), v \in S : AtStep(u, next) /\ WaitsFor(u, next, v)
        OBVIOUS
      <4>2. Mutex(next) = l
        BY <4>1, <3>3 DEF AtStep, Waiting, LocksInv, OneWait
      <4>3. v \in readers[l]
        BY <4>1, <4>2, <3>3 DEF AtStep, Waiting, WaitsFor
      <4> QED
        BY <4>3, <3>2 DEF Hold
    <3> QED
      BY <3>2, <3>3
  <2>3. ASSUME NEW l \in Locks, NEW t \in S, Hold(t)[l] # "none"
        PROVE  \E m \in Locks, u \in S : Level(l) < Level(m) /\ Hold(u)[m] # "none"
    BY <2>2, <2>3 DEF Below
  <2>4. PICK l1 \in Locks, t1 \in S : Hold(t1)[l1] # "none"
    BY <2>1, <2>2
  <2>5. PICK l2 \in Locks, t2 \in S : Level(l1) < Level(l2) /\ Hold(t2)[l2] # "none"
    BY <2>3, <2>4
  <2>6. PICK l3 \in Locks, t3 \in S : Level(l2) < Level(l3) /\ Hold(t3)[l3] # "none"
    BY <2>3, <2>5
  <2>7. PICK l4 \in Locks, t4 \in S : Level(l3) < Level(l4) /\ Hold(t4)[l4] # "none"
    BY <2>3, <2>6
  <2> QED
    BY <2>5, <2>6, <2>7 DEF Level
<1> QED
  BY LocksInvAlways, <1>1, PTL

\* Nobody accesses what payloadsMu, pageCacheMu, lastFrameMu, detailMu, liveSwipeMu,
\* rippleMu or choiceIndexMu guards while another goroutine writes it.  What is written
\* under payloadsMu held for reading, the images of zones and the frame buffers, is not
\* guarded by it, and not among these.
THEOREM FieldsGuardedAlways == LocksSpec => []FieldsGuarded
<1>1. LocksInv => FieldsGuarded
  <2> SUFFICES ASSUME LocksInv, NEW f \in Guarded, NEW t \in Active, NEW u \in Active, t # u,
                      W(f) \in doing[t], {R(f), W(f)} \cap doing[u] # {}
               PROVE  FALSE
    BY DEF FieldsGuarded, Race, Guarded
  <2>1. f \in Locks /\ t \in Threads /\ u \in Threads
    BY DEF Guarded, Locks, Active
  <2>2. Hold(t)[f] = "write" /\ Hold(u)[f] # "none"
    BY <2>1 DEF LocksInv, Justified, Allowed
  <2>3. owner[f] = t /\ f \notin draining
    BY <2>1, <2>2 DEF Hold
  <2>4. readers[f] = {}
    BY <2>1, <2>3, ThreadsAssumption DEF LocksInv, Exclusive
  <2> QED
    BY <2>1, <2>2, <2>3, <2>4 DEF Hold
<1> QED
  BY LocksInvAlways, <1>1, PTL
=============================================================================
