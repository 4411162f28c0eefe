SPECIFICATION Spec
CONSTANTS
  Last = 3
  Ends = {1, 3}
  Gaps = {1, 2}
  Moving = {3}
  PageSize = 2
  PartSize = 2
  MaxAttempts = 2
  MaxTimeouts = 2
  MaxFaults = 1
INVARIANTS TypeOK NothingLeft
PROPERTIES KeepsExport EventuallyEnds
CHECK_DEADLOCK FALSE
