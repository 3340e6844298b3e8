SPECIFICATION Spec
CONSTANTS
  None = None
  Down = Down
  NoSchema = NoSchema
  Files <- MCFiles
  Folders <- MCFolders
  Others <- MCOthers
  In <- MCIn
  InitialFiles <- MCInitialFiles
  InitialFolders <- MCFolders
  OptionsInUse <- MCOptions
  MaxChanges = 3
  MaxGenerations = 2
INVARIANTS ReadsAreFresh ChangesAreReflected FallbackIsLastAnswer
CHECK_DEADLOCK FALSE
