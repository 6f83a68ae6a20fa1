SPECIFICATION PollSpec
CONSTANTS
  MaxEvaluations = 2
  Handlers = {h1}
  MaxReports = 1
  MaxAttempts = 1
  MaxUpdates = 1
  MaxPageSize = 2
  DefaultPageSize = 1
  EvaluationLimit = 1
  StatsPageSize = 3
  RecentPageSize = 1
  MaxUpsets = 1
  Tours <- MCTours
  Undefined = Undefined
INVARIANTS TypeOK ListedOnce OfferIsGood
PROPERTIES PageCatchesUp
