SPECIFICATION Spec
CONSTANTS
  a = a
  b = b
  c = c
  x = x
  NoId = NoId
  Mails = {a, b}
  MsgId <- MCMsgId
  Size <- MCSize
  Date <- MCDate
  Certain = {a, b}
  RecentDays = 1
  InitialDays = 2
  MailKeep = 2
  ServerKeeps = {0, 1, 3}
  BatchSize = 1
  UidPlus = {TRUE, FALSE}
  MaxEpoch = 2
  MaxDay = 3
  MaxFaults = 1
  MaxOthers = 1
INVARIANTS
  IndexIsTrue
  DecisionKept
PROPERTIES
  DeletesOnlyDue
