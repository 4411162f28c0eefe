SPECIFICATION FairSpec
CONSTANTS
  e1 = e1
  w1 = w1
  Mails = {e1}
  Workers = {w1}
  Sweeper = Sweeper
  NoOne = NoOne
  MaxRetries = 1
  MaxDlqRetries = 1
  MaxReenqueues = 1
  FaultKinds <- LostMessages
  MaxFaults = 3
PROPERTIES EventuallySettled
