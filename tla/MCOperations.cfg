SPECIFICATION Spec
CONSTANTS
  SchemasInUse <- MCSchemasInUse
  DocumentsInUse <- MCDocuments
  Depths = {1, 2}
  ScalarTypes <- MCScalarTypes
INVARIANTS GeneratedNamesDeclared SentDocumentsStandAlone DepthIsLimited TypesFitAnswers
CHECK_DEADLOCK FALSE
