SPECIFICATION Spec
CHECK_DEADLOCK FALSE
CONSTANTS
  Seats <- MCSeats
  Root = "."
  Parent <- MCParent
  Infra = {"ops", "audit", "user"}
  DeadlineDays = 0
  Rank <- MCRank
  Outboxes <- MCOutboxes
  Concurrency = 2
  MaxRounds = 2
  WakeCap = 1
  NoSeat = NoSeat
  NoCopy = NoCopy
  Torn = Torn
  FirstReviews <- MCReviews
  FirstTickets <- MCTickets
  FirstDocs = {"a/x"}
  Material = {"a/x"}
  MaxDay = 2
  MaxTicks = 2
  MaxOutside = 1
INVARIANTS
  TickInv
PROPERTIES
  StampMeansDelivered
  ExpiryReported
  ClosedUnlessRaced
