SPECIFICATION Spec
CONSTANTS
  Libs <- MCLibs
  Exec = "exec"
  BaseName <- MCBaseName
  Kind <- MCKind
  PathContains <- MCPathContains
  ULongMax = 1048575
  MaxStackDepth = 32
  MaxModulesToRecord = 3
  InitialCores <- MCInitialCores
  Closable <- MCClosable
  ConfigFiles <- MCConfigFiles
  InfoFails = TRUE
  MaxEvents = 5
CHECK_DEADLOCK FALSE
INVARIANTS
  ReleasesCovered
  AllocationsTracked
  RecordsNameModules
  ModeInstalled
  SettingsSane
