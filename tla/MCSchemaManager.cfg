SPECIFICATION Spec
CONSTANTS
  Schema <- MCSchema
  ResolversInputs <- MCResolversInputs
  Undefined = Undefined
INVARIANTS Precedence EveryResolverIsHandled UnknownTypesFailEarly TypedResolversAccepted
CHECK_DEADLOCK FALSE
