------------------------------- MODULE Startup -------------------------------
(***************************************************************************)
(* What the daemon keeps from one start to the next: the SQLite file with  *)
(* its schema migrations (internal/store/store.go), the settings           *)
(* (internal/settings), the layout (zone.NewManager) and the background    *)
(* that follows from the settings (App.wireCallbacks).  The program may    *)
(* end at any step and is started again; what a transaction has committed  *)
(* stays.                                                                  *)
(*                                                                         *)
(* Of the settings only the background image is kept, of the layout only   *)
(* the plugin configuration of one zone.  Updates hold m.mu of the         *)
(* settings from the validation to the last watcher, and are one step.     *)
(***************************************************************************)
EXTENDS Integers, Sequences

CONSTANTS
  Images,     (* Images a user may choose.                                     *)
  NoImage,    (* background_image "".                                          *)
  Default,    (* DefaultBackgroundImage, which nothing is shown for.           *)
  Malformed,  (* A config.yaml that Validate refuses.                          *)
  Nothing,    (* No row, no file.                                              *)
  Capacity    (* Of settingsCh; 4 in the code.                                 *)

ASSUME ConstantsAssumption ==
  /\ NoImage \notin Images /\ Default \notin Images /\ Nothing \notin Images
  /\ NoImage # Default /\ NoImage # Nothing /\ Default # Nothing
  /\ Malformed \notin Images \cup {NoImage, Default, Nothing}
  /\ Capacity \in Nat \ {0}

currentSchemaVersion == 8
Settings == Images \cup {NoImage, Default}
LegacyFiles == Images \cup {Malformed, Nothing}

VARIABLES
  db,         \* the file: see Database
  yaml,       \* the image of a config.yaml from before the database, if any: see LegacyFiles
  pc,         \* how far the start has come
  firstRun,   \* DB.firstRun
  cfg,        \* settings.Manager.cfg
  layout,     \* plugin configuration in Manager.config
  settingsCh, bg,   \* settings on their way to the watcher; the background on display
  files,      \* images on disk
  isNew,      \* there was no database to begin with
  misread,    \* this start could not read the version and takes an old file for a new one
  missed,     \* the first start ended before config.yaml was in the database
  unsaved,    \* the last Update could not save
  dropped,    \* the last setting was not sent: settingsCh was full
  turned      \* a page change took the background, or its file was gone

ghosts == <<isNew, misread, missed, unsaved, dropped, turned>>
running == <<settingsCh, bg, files>>
vars == <<db, yaml, pc, firstRun, cfg, layout, running, ghosts>>

-----------------------------------------------------------------------------
(* The schema *)

\* The tables, and the columns of zones, that a migration makes or needs.
Parts == {"settings", "zone_module_config", "zone_plugin_config", "zones.module",
          "zones.plugin", "zones.on_tap", "payload_cache"}

\* version -1: there is no table schema_version.  zone is zones.config_json, side the row
\* of zone_plugin_config (or of zone_module_config, as it was called): two configurations
\* that may differ, "none" where a column has its default '{}' or there is no row; marks
\* is what V4 and V8 rewrite: paths of modules, on_tap 'detail'.
Configs == {"none", "api", "sampler"}
Database == [version : -1..currentSchemaVersion, schema : SUBSET Parts,
             zone : Configs, side : Configs, marks : SUBSET {"path", "tap"},
             settings : Settings \cup {Nothing}, pages : BOOLEAN]

\* The schemas releases have left behind: zone_module_config in old ones up to version 2.
SchemaOf(v, old) ==
  (IF v < 1 THEN {} ELSE {"settings"})
    \cup (IF v < 1 \/ v > 4 THEN {}
          ELSE IF old /\ v < 3 THEN {"zone_module_config"} ELSE {"zone_plugin_config"})
    \cup (IF v < 2 THEN {} ELSE IF v < 5 THEN {"zones.module"} ELSE {"zones.plugin"})
    \cup (IF v < 6 THEN {} ELSE {"zones.on_tap"})
    \cup (IF v < 7 THEN {} ELSE {"payload_cache"})

\* A file that a release with schema v has left behind.
FileOf(v, old, z, s, image) ==
  [version |-> v, schema |-> SchemaOf(v, old), zone |-> z, side |-> s,
   marks |-> (IF v \in 2..3 THEN {"path"} ELSE {}) \cup (IF v \in 6..7 THEN {"tap"} ELSE {}),
   settings |-> image, pages |-> v >= 2]

\* What the zone is configured with, wherever it is kept.
Effective(d) == IF d.zone # "none" THEN d.zone ELSE d.side

V1(s) == s \cup {"settings"}
           \cup (IF "zone_module_config" \in s THEN {} ELSE {"zone_plugin_config"})
V2(s) == s \cup (IF "zones.plugin" \in s THEN {} ELSE {"zones.module"})
V3(s) == IF "zone_module_config" \in s
         THEN (s \ {"zone_module_config"}) \cup {"zone_plugin_config"} ELSE s
V5(s) == (s \ {"zone_plugin_config", "zones.module"}) \cup {"zones.plugin"}

\* Mutant: the side table wins on conflict.
MutMerged(d) == IF d.pages /\ d.side # "none" THEN d.side ELSE d.zone

\* V5 fills the column of a zone that has none from the row of the side table.
Merged(d) == IF d.pages /\ d.side # "none" /\ d.zone = "none" THEN d.side ELSE d.zone

\* What the statements of migration n make of the file.
Migration(n, d) ==
  CASE n = 1 -> [d EXCEPT !.schema = V1(@)]
    [] n = 2 -> [d EXCEPT !.schema = V2(@)]
    [] n = 3 -> [d EXCEPT !.schema = V3(@)]
    [] n = 4 -> [d EXCEPT !.marks = @ \ {"path"}]
    [] n = 5 -> [d EXCEPT !.schema = V5(@), !.side = "none", !.zone = Merged(d)]
    [] n = 6 -> [d EXCEPT !.schema = @ \cup {"zones.on_tap"}]
    [] n = 7 -> [d EXCEPT !.schema = @ \cup {"payload_cache"}]
    [] n = 8 -> [d EXCEPT !.marks = @ \ {"tap"}]

\* ... if SQLite does not refuse one of them.
Accepted(n, d) ==
  /\ n = 3 => ~({"zone_module_config", "zone_plugin_config"} \subseteq d.schema)
  /\ n = 4 => "zones.module" \in d.schema
  /\ n = 5 => {"zone_plugin_config", "zones.module"} \subseteq d.schema
  /\ n = 6 => "zones.plugin" \in d.schema /\ "zones.on_tap" \notin d.schema
  /\ n = 8 => "zones.on_tap" \in d.schema

-----------------------------------------------------------------------------
(* The settings *)

\* An empty value is taken for a missing one.
getOrDefault(value, default) == IF value \in {Nothing, NoImage} THEN default ELSE value

\* loadFromStore of the settings a file holds.
Loaded(s) == getOrDefault(s, Default)

Validate(s) == s # Malformed

\* SetSettings writes every setting, in one transaction.
SetSettings(s) == db' = [db EXCEPT !.settings = s]

\* notifyWatchers drops what the channel has no room for.
notifyWatchers(s) ==
  IF Len(settingsCh) < Capacity
  THEN settingsCh' = Append(settingsCh, s) /\ dropped' = FALSE
  ELSE dropped' = TRUE /\ UNCHANGED settingsCh

\* Open looks at the version before the migrations.
FirstRun == db.version < 1

\* applySettingsTheme clears the background for the default as for "".
Shown(s) == IF s \in Images THEN s ELSE NoImage

-----------------------------------------------------------------------------
TypeOK ==
  /\ db \in Database /\ yaml \in LegacyFiles
  /\ pc \in {"down", "open", "migrate", "failed", "load", "import", "device", "layout", "wire",
              "start", "run"}
  /\ firstRun \in BOOLEAN /\ cfg \in Settings
  /\ layout \in Configs \cup {"factory"}
  /\ settingsCh \in Seq(Settings) /\ Len(settingsCh) <= Capacity
  /\ bg \in Images \cup {NoImage} /\ files \subseteq Images
  /\ isNew \in BOOLEAN /\ misread \in BOOLEAN /\ missed \in BOOLEAN /\ unsaved \in BOOLEAN
  /\ dropped \in BOOLEAN /\ turned \in BOOLEAN

\* A new installation, or the file of an earlier release.
Init ==
  /\ isNew \in BOOLEAN
  /\ \E v \in -1..currentSchemaVersion, old \in BOOLEAN, z, s \in Configs,
        image \in Settings \cup {Nothing} :
       /\ isNew <=> v < 1
       /\ v < 1 => image = Nothing
       /\ v \notin 1..4 => s = "none"
       /\ v < 2 => z = "none"
       /\ db = FileOf(v, old, z, s, image)
  /\ yaml \in LegacyFiles
  /\ pc = "down" /\ firstRun = FALSE /\ cfg = Default /\ layout = "none"
  /\ settingsCh = <<>> /\ bg = NoImage /\ files = Images
  /\ misread = FALSE /\ missed = FALSE /\ unsaved = FALSE /\ dropped = FALSE /\ turned = FALSE

-----------------------------------------------------------------------------
(* A start *)

Start ==
  /\ pc = "down" /\ pc' = "open"
  /\ UNCHANGED <<db, yaml, firstRun, cfg, layout, running, ghosts>>

\* Mutant: only a file that did not exist counts as a first run.
MutOpen ==
  /\ pc = "open" /\ pc' = "migrate"
  /\ firstRun' = (db.version = -1)
  /\ db' = [db EXCEPT !.version = IF @ < 0 THEN 0 ELSE @]
  /\ UNCHANGED <<yaml, cfg, layout, running, ghosts>>

\* Mutant: every start is a first run.
MutOpenAgain ==
  /\ pc = "open" /\ pc' = "migrate"
  /\ firstRun' = TRUE
  /\ db' = [db EXCEPT !.version = IF @ < 0 THEN 0 ELSE @]
  /\ UNCHANGED <<yaml, cfg, layout, running, ghosts>>

\* The version before the migrations tells a first run, and an error of the query, which is
\* discarded, tells one too; a new file gets version 0.
Open ==
  /\ pc = "open" /\ pc' = "migrate"
  /\ \/ firstRun' = FirstRun /\ UNCHANGED misread
     \/ ~FirstRun /\ firstRun' = TRUE /\ misread' = TRUE
  /\ db' = [db EXCEPT !.version = IF @ < 0 THEN 0 ELSE @]
  /\ UNCHANGED <<yaml, cfg, layout, running, isNew, missed, unsaved, dropped, turned>>

\* Mutant: the version is not updated in the transaction of the migration.
MutMigrate ==
  /\ pc = "migrate" /\ db.version < currentSchemaVersion
  /\ LET n == db.version + 1 IN
       IF Accepted(n, db)
       THEN /\ db' \in {Migration(n, db), [Migration(n, db) EXCEPT !.version = n]}
            /\ UNCHANGED pc
       ELSE pc' = "failed" /\ UNCHANGED db
  /\ UNCHANGED <<yaml, firstRun, cfg, layout, running, ghosts>>

\* Each migration and its version number are one transaction.
Migrate ==
  /\ pc = "migrate" /\ db.version < currentSchemaVersion
  /\ LET n == db.version + 1 IN
       IF Accepted(n, db)
       THEN db' = [Migration(n, db) EXCEPT !.version = n] /\ UNCHANGED pc
       ELSE pc' = "failed" /\ UNCHANGED db
  /\ UNCHANGED <<yaml, firstRun, cfg, layout, running, ghosts>>

Migrated ==
  /\ pc = "migrate" /\ db.version = currentSchemaVersion /\ pc' = "load"
  /\ UNCHANGED <<db, yaml, firstRun, cfg, layout, running, ghosts>>

NewSettings ==
  /\ pc = "load" /\ pc' = IF firstRun THEN "import" ELSE "device"
  /\ cfg' = Loaded(db.settings)
  /\ UNCHANGED <<db, yaml, firstRun, layout, running, ghosts>>

\* Update with the settings of config.yaml; one that cannot be read counts as none, one
\* that is not valid changes nothing.  Both, and a failure to save, let the start go on.
ImportFromYAML ==
  /\ pc = "import" /\ pc' = "device"
  /\ IF yaml = Nothing \/ ~Validate(yaml) THEN UNCHANGED <<db, cfg, missed, unsaved>>
     ELSE /\ cfg' = yaml
          /\ \/ SetSettings(yaml) /\ UNCHANGED <<missed, unsaved>>
             \/ missed' = (missed \/ ~misread) /\ unsaved' = TRUE /\ UNCHANGED db
  /\ UNCHANGED <<yaml, firstRun, layout, running, isNew, misread, dropped, turned>>

\* initDevice and initAPI make what runs later; their errors end the start (Exit).
InitDevice ==
  /\ pc = "device" /\ pc' = "layout"
  /\ UNCHANGED <<db, yaml, firstRun, cfg, layout, running, ghosts>>

\* zone.NewManager: without pages the factory layout is taken and written to the file,
\* without its plugin configurations; a failure to write is logged.
NewManager ==
  /\ pc = "layout" /\ pc' = "wire"
  /\ IF db.pages THEN layout' = db.zone /\ UNCHANGED db
     ELSE /\ layout' = "factory"
          /\ \/ db' = [db EXCEPT !.pages = TRUE, !.zone = "none"]
             \/ UNCHANGED db
  /\ UNCHANGED <<yaml, firstRun, cfg, running, ghosts>>

\* The image may be gone from the disk; the background stays what it is then.
Apply(s) ==
  IF Shown(s) \in files \cup {NoImage} THEN bg' = Shown(s) /\ turned' = FALSE
  ELSE turned' = TRUE /\ UNCHANGED bg

WireCallbacks ==
  /\ pc = "wire" /\ pc' = "start"
  /\ Apply(cfg)
  /\ UNCHANGED <<db, yaml, firstRun, cfg, layout, settingsCh, files, isNew, misread, missed,
                 unsaved, dropped>>

\* App.start: from here on there are requests.
Serve ==
  /\ pc = "start" /\ pc' = "run"
  /\ UNCHANGED <<db, yaml, firstRun, cfg, layout, running, ghosts>>

\* The process ends, at whatever step.
Exit ==
  /\ pc # "down" /\ pc' = "down"
  /\ missed' = (missed \/ (firstRun /\ ~misread /\ db.version > 0
                          /\ pc \in {"migrate", "load", "import"}))
  /\ firstRun' = FALSE /\ cfg' = Default /\ layout' = "none" /\ settingsCh' = <<>> /\ bg' = NoImage
  /\ misread' = FALSE /\ unsaved' = FALSE /\ dropped' = FALSE /\ turned' = FALSE
  /\ UNCHANGED <<db, yaml, files, isNew>>

-----------------------------------------------------------------------------
(* What happens while it runs *)

\* Mutant: the setting is sent to a channel that may be full.
MutUpdateOver(s) ==
  /\ pc = "run" /\ Validate(s)
  /\ cfg' = s /\ unsaved' = FALSE /\ dropped' = FALSE
  /\ db' = [db EXCEPT !.settings = s] /\ settingsCh' = Append(settingsCh, s)
  /\ UNCHANGED <<yaml, firstRun, layout, pc, bg, files, isNew, misread, missed, turned>>

\* Mutant: a full channel is taken for one that got the settings.
MutUpdateFull(s) ==
  /\ pc = "run" /\ Validate(s)
  /\ cfg' = s /\ unsaved' = FALSE
  /\ db' = [db EXCEPT !.settings = s]
  /\ settingsCh' = IF Len(settingsCh) < Capacity THEN Append(settingsCh, s) ELSE settingsCh
  /\ dropped' = FALSE
  /\ UNCHANGED <<yaml, firstRun, layout, pc, bg, files, isNew, misread, missed, turned>>

\* The settings are in memory before they are saved, and nobody is told if that fails.
Update(s) ==
  /\ pc = "run" /\ Validate(s)
  /\ cfg' = s
  /\ \/ SetSettings(s) /\ notifyWatchers(s) /\ unsaved' = FALSE
     \/ unsaved' = TRUE /\ UNCHANGED <<db, settingsCh, dropped>>
  /\ UNCHANGED <<yaml, firstRun, layout, pc, bg, files, isNew, misread, missed, turned>>

Watch ==
  /\ pc = "run" /\ settingsCh # <<>>
  /\ settingsCh' = Tail(settingsCh)
  /\ Apply(Head(settingsCh))
  /\ UNCHANGED <<db, yaml, firstRun, pc, cfg, layout, files, isNew, misread, missed,
                 unsaved, dropped>>

\* initializePage makes a compositor, which has no background.
TurnPage ==
  /\ pc = "run"
  /\ bg' = NoImage /\ turned' = (turned \/ bg # NoImage)
  /\ UNCHANGED <<db, yaml, firstRun, pc, cfg, layout, settingsCh, files, isNew, misread, missed,
                 unsaved, dropped>>

SaveImage(i) ==
  /\ pc = "run" /\ i \notin files /\ files' = files \cup {i}
  /\ UNCHANGED <<db, yaml, firstRun, pc, cfg, layout, settingsCh, bg, ghosts>>

DeleteImage(i) ==
  /\ pc = "run" /\ i \in files /\ files' = files \ {i}
  /\ UNCHANGED <<db, yaml, firstRun, pc, cfg, layout, settingsCh, bg, ghosts>>

-----------------------------------------------------------------------------
Next ==
  \/ Start \/ Open \/ Migrate \/ Migrated \/ NewSettings \/ ImportFromYAML
  \/ InitDevice \/ NewManager \/ WireCallbacks \/ Serve \/ Exit \/ Watch \/ TurnPage
  \/ \E s \in Settings \cup {Malformed} : Update(s)
  \/ \E i \in Images : SaveImage(i) \/ DeleteImage(i)

Spec == Init /\ [][Next]_vars

-----------------------------------------------------------------------------
(* Properties *)

\* Whatever file an earlier release has left and wherever earlier starts have ended, no
\* statement of a migration is refused, and the daemon works on the newest schema.
MigrationsRun ==
  /\ pc # "failed"
  /\ pc \in {"load", "import", "device", "layout", "wire", "start", "run"} =>
       /\ db.schema = SchemaOf(currentSchemaVersion, FALSE)
       /\ db.marks = {} /\ db.side = "none"

\* "zones wins on conflict": a migration moves the plugin configuration of a zone that is
\* in the layout and never changes it.  (V5 drops the configuration of a zone that is not:
\* in a file from before V2 that is every one.)
ConfigKept == [][(pc = "migrate" /\ db.pages) => Effective(db') = Effective(db)]_vars

\* "On first run import any existing config.yaml": a new installation that runs has had
\* the valid settings of config.yaml written to its database, by whichever start came that
\* far, unless one was cut short between its first migration and the import, or could not save.
LegacyImported ==
  /\ pc \in {"layout", "wire", "start", "run"} /\ isNew /\ ~missed
  /\ yaml # Nothing /\ Validate(yaml)
  => db.settings # Nothing

\* A start that could read the version never replaces what a user has saved by the settings
\* of config.yaml, wherever the starts before it have ended.
ImportKeepsSettings ==
  [][pc # "run" /\ db.settings # Nothing /\ ~misread => db'.settings = db.settings]_vars

\* Not so: one that could not imports config.yaml once more, over what has been saved since.
MisreadKeepsSettings == [][pc # "run" /\ db.settings # Nothing => db'.settings = db.settings]_vars

\* What Get answers is what the next start will load, unless the last save failed; and when
\* the watcher has caught up, it is what the display shows, unless the last change was
\* dropped or a page change took the background.
SettingsAgree ==
  (pc = "run" /\ ~unsaved) =>
    /\ Shown(cfg) = Shown(Loaded(db.settings))
    /\ (settingsCh = <<>> /\ ~dropped /\ ~turned) => bg = Shown(cfg)

\* "On first run, the built-in default layout is written there automatically": the plugin
\* configurations the manager runs with are those the next start will find.
LayoutSurvives == (pc = "run" /\ db.pages) => layout = db.zone
=============================================================================
