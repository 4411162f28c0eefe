SPECIFICATION FairSpec
CONSTANTS
  m1 = m1
  m2 = m2
  c1 = c1
  c2 = c2
  Mails <- TwoMails
  Calls <- TwoCalls
  Alarm = Alarm
  NoMail = NoMail
  FaultKinds <- AllFaults
  MaxFaults = 2
INVARIANTS
  TypeOK
  RowsReadable
  NothingLeaks
PROPERTIES
  NothingLandsAfter
  EventuallySwept
