SPECIFICATION Spec
CONSTANTS
  None = None
  Down = Down
  NoSchema = NoSchema
  Files <- MCInitialFiles
  Folders = {}
  Others <- MCOthers
  In <- MCIn
  InitialFiles <- MCInitialFiles
  InitialFolders = {}
  OptionsInUse <- MCOptions
  MaxChanges = 3
  MaxGenerations = 2
INVARIANT OtherFilesAreIgnored
CHECK_DEADLOCK FALSE
