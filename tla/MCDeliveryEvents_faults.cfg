SPECIFICATION FairSpec
CONSTANTS
  m1 = m1
  a1 = a1
  h1 = h1
  r1 = r1
  Mails = {m1}
  Addresses = {a1}
  Types = {"delivered", "hard", "complained"}
  Consumers = {h1}
  Operator = Operator
  Reports = {r1}
  RecipientTries = 1
  MaxRetries = 1
  MaxDlqRetries = 0
  FaultKinds <- EveryFault
  MaxFaults = 1
INVARIANTS TypeOK RecipientsTellTheWorst SuppressionHolds FailureStaysVisible
PROPERTIES FailuresReachSomebody
CHECK_DEADLOCK FALSE
