SPECIFICATION Spec
CONSTANTS
  m1 = m1
  m2 = m2
  b1 = b1
  Mails <- MCMails
  Boxes <- MCBoxes
  BoxOf <- MCBoxOf
  Delay = 1
  Failure = 2
  Coalesce = 0
  Retry = 1
  LeftoverAge = 1
  Keep = 2
  MaxTime = 4
  MaxServers = 2
  MaxTroubles = 1
INVARIANTS
  AlertedOnce
  VerdictsAreTrue
  OnTime
  RunOfSettings
SYMMETRY MCPerms
CHECK_DEADLOCK FALSE
