SPECIFICATION Spec
CONSTANTS
  e1 = e1
  w1 = w1
  w2 = w2
  Mails = {e1}
  Workers = {w1, w2}
  Sweeper = Sweeper
  NoOne = NoOne
  MaxRetries = 1
  MaxDlqRetries = 1
  MaxReenqueues = 1
  FaultKinds <- EveryFault
  MaxFaults = 2
SYMMETRY Interchangeable
INVARIANTS TypeOK CopiesAccounted NoOrphanPayload
PROPERTIES KeepsPromise
