SPECIFICATION Spec
CONSTANTS
  c1 = c1
  c2 = c2
  hello = hello
  both = both
  invalid = invalid
  deep = deep
  garbage = garbage
  A = A
  B = B
  Clients <- MCClients
  Queries <- MCQueries
  Document <- MCDocument
  Requests <- MCRequests
  SyntaxError = SyntaxError
  NotAString = NotAString
  NoName = NoName
  NoRequest = NoRequest
  MaxDepth = 2
  MaxSize = 2
  MaxUses = 4
INVARIANTS
  CachesHonest
  NoMutationByGet
PROPERTIES
  ImplementsUncached
CHECK_DEADLOCK FALSE
