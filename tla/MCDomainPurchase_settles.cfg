CONSTANTS
  s1 = s1
  s2 = s2
  a1 = a1
  a2 = a2
  b1 = b1
  NoOne = NoOne
  Sessions = {s1, s2}
  Attempts = {a1, b1}
  Serves <- OneEach
  FaultKinds = {"crash", "call", "registrar", "refused"}
  MaxFaults = 1
SPECIFICATION FairSpec
CHECK_DEADLOCK FALSE
INVARIANTS
  OursIsUsed
PROPERTIES
  PaidIsSettled
