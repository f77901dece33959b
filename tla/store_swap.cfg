SPECIFICATION Spec
CONSTANTS
  a = a
  b = b
  c = c
  x = x
  NoId = NoId
  Mails = {a}
  MsgId <- MCMsgId
  Size <- MCSize
  Date <- MCDate
  Certain = {a}
  RecentDays = 1
  InitialDays = 2
  MailKeep = 2
  ServerKeeps = {0, 1, 3}
  BatchSize = 1
  UidPlus = {TRUE, FALSE}
  MaxEpoch = 1
  MaxDay = 3
  MaxFaults = 1
  MaxOthers = 1
PROPERTIES
  FailureKeepsIndex
