SPECIFICATION Spec
CONSTANTS
  r1 = r1
  r2 = r2
  r3 = r3
  d1 = d1
  d2 = d2
  k1 = k1
  s1 = s1
  NoKey = NoKey
  NoSender = NoSender
  Requests = {r1, r2, r3}
  Directs = {d1, d2}
  Senders = {s1}
  KeyOf <- RetriedKey
  SenderOf <- SameSender
  Units <- LargerWithKey
  Quota = 3
  FaultKinds <- EveryFault
  MaxFaults = 2
SYMMETRY Alike
INVARIANTS TypeOK QuotaHolds RepliesAccounted NothingLeftBehind
PROPERTIES KeepsKeys
CHECK_DEADLOCK FALSE
