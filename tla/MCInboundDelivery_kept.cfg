SPECIFICATION FairSpec
CONSTANTS
  v1 = v1
  v2 = v2
  d1 = d1
  d2 = d2
  d3 = d3
  d4 = d4
  Envelopes = {v1, v2}
  Deliveries = {d1, d2, d3, d4}
  NoOne = NoOne
  FaultKinds <- Retried
  MaxFaults = 1
PROPERTIES EventuallyKept
CHECK_DEADLOCK FALSE
