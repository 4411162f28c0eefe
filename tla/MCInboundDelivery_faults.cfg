SPECIFICATION Spec
CONSTANTS
  v1 = v1
  v2 = v2
  d1 = d1
  d2 = d2
  d3 = d3
  Envelopes = {v1, v2}
  Deliveries = {d1, d2, d3}
  NoOne = NoOne
  FaultKinds <- EveryFault
  MaxFaults = 2
SYMMETRY Interchangeable
INVARIANTS TypeOK RowsKeepBlobs NoOrphanBlobs
PROPERTIES KeepsMail
CHECK_DEADLOCK FALSE
