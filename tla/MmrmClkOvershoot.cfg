\* A request of the client with high priority is granted although nobody can be throttled.
CONSTANTS
  NumClients = 3
  High = {3}
  ThrottleList <- MCThrottleList
  MMRM_VDD_LEVEL_MAX = 4
  Current <- MCCurrent
  MaxBlocks <- MCMaxBlocks
  Threshold = 30
  Rates <- MCRates
  Blocks <- MCBlocks
  Reservers = {2}
  ThrottleFeature = {TRUE, FALSE}
  OneDrift = TRUE
  QuietThrottle = TRUE
SPECIFICATION Spec
INVARIANT PeakKept
