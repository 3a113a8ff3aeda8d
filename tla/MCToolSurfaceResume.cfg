SPECIFICATION Spec
CONSTANTS
  dashboard = dashboard
  folder = folder
  migration = migration
  Tool = {1, 2, 3, 4, 5}
  Module = {dashboard, folder, migration}
  ModuleOf <- MCModuleOf
  ExcludedModules = {migration}
  ReadOnlyTools = {}
  StartsWith <- MCStartsWith
  Similar <- MCSimilar
  Release <- MCRelease
  FirstRelease <- MCFirstRelease
  FirstAllowlist <- MCAllowlist
  AllowMutations = FALSE
  SaveEvery = 2
  MaxUpgrades = 2
  MaxEdits = 0
  MaxTears = 1
  MaxInterventions = 3
PROPERTY ResumeLosesNothing
