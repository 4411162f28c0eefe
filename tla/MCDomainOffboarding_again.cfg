SPECIFICATION SpecReturns
CONSTANTS
  m1 = m1
  m2 = m2
  h1 = h1
  q1 = q1
  cron = cron
  Mailboxes = {m1}
  Requests = {q1}
  Cron = cron
  Hooks = {}
  Grace = 2
  Warning = 1
  MaxFaults = 0
PROPERTIES Offboards
CHECK_DEADLOCK FALSE
