SPECIFICATION FairSpec
CONSTANTS
  Row <- Rows
  Own <- Environments
  PageSize = 2
  MaxRows = 3
  MaxEdits = 1
INVARIANTS
  SettingsComeFromStore
  QuietLaunchResolves
  LogsOnlyWhenUsable
PROPERTY WorkerComesBack
