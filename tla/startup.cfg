SPECIFICATION Spec
CONSTANTS
  Images = {a, b}
  NoImage = noimage
  Default = default
  Malformed = malformed
  Nothing = nothing
  Capacity = 2
INVARIANTS
  TypeOK
  MigrationsRun
  LegacyImported
  SettingsAgree
PROPERTIES
  ConfigKept
  ImportKeepsSettings
