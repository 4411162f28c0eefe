SPECIFICATION Spec
CONSTANTS
  m1 = m1
  m2 = m2
  q1 = q1
  h1 = h1
  cron = cron
  Mailboxes = {m1, m2}
  Requests = {q1}
  Cron = cron
  Hooks = {h1}
  Grace = 2
  Warning = 1
  MaxFaults = 1
VIEW View
INVARIANTS TypeOK NothingUnannounced BillingFirst FinishedMeansGone
PROPERTIES Offboards
CHECK_DEADLOCK FALSE
