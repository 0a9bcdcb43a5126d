\* Three clients, four levels.
CONSTANTS
  NumClients = 3
  High = {3}
  ThrottleList <- MCThrottleList
  MMRM_VDD_LEVEL_MAX = 4
  Current <- MCCurrent
  MaxBlocks <- MCMaxBlocks
  Threshold = 33
  Rates <- MCRates
  Blocks <- MCBlocks
  Reservers = {2}
  ThrottleFeature = {TRUE, FALSE}
  OneDrift = TRUE
  QuietThrottle = TRUE
SPECIFICATION Spec
INVARIANTS TypeOK AggregExact SumIsSafe ConfiguredRate
PROPERTIES LowStaysBelow
