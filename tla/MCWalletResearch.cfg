CONSTANTS
  Pages <- MCPages
  Settlements <- MCSettlements
  Quotes <- MCQuotes
  SportsEvents = {}
  OtherEvents = {"election", "strike"}
  ClassifyLimit = 2
  AsOfs = {2}
  Horizon = 2
  FoldStep = 1
  Start = 0
  FeederLimits = {2}
  LastInstant = 2
  MaxRuns <- MCMaxRuns
  MaxTouches = 1
  MaxLate = 1
  InactivityGap = 0
  FeeRate = 200
  EventOf <- MCEventOf
  NoEvent = "none"
  MarketOf <- MCMarketOf
  MinClusters = 2
  FdrQ = 100
  TierPolicy <- MCTierPolicy
  AlphaPolicy <- MCAlphaPolicy
  TopN = 1
  CopyDelay = 1
  Window = 0
  Lookback = 3
  Threshold = 50
  MinOverlap = 1
  CohortPolicy <- MCCohortPolicy
  Day = 1
SPECIFICATION Spec
PROPERTY EpisodesPartitionFills
 
PROPERTY NoLookAhead
PROPERTY FeedersAreIndependent
CHECK_DEADLOCK FALSE
