SPECIFICATION Spec
CHECK_DEADLOCK FALSE
CONSTANTS
  SchemaRetries = 1
  MaxTokens = 2
  MaxTurns = 2
  MaxChildTurns = 2
  MaxChatter = 5
  MaxEvents = 3
  MaxBuffered = 1
  Items = {"collab"}
  Pending = Pending
  NoUsage = NoUsage
  NoAnswer = NoAnswer
INVARIANTS
  CallInv
PROPERTIES
  ImplementsContract
  CompletionIsOwn
  CallSettles
