SPECIFICATION MCSpec
CONSTANTS
  w1 = w1
  w2 = w2
  c1 = c1
  e1 = e1
  k1 = k1
  k2 = k2
  Ids <- MCIds
  Emails = {e1}
  NoEmail = NoEmail
  Web = {w1, w2}
  Cli = {c1}
  NoOne = NoOne
  MaxPasswords = 4
  MaxBusy = 2
  Keys = {k1, k2}
  BeforeLock = 2
  Initial = 1
  LockMax = 3
  TTL = 4
  PruneEvery = 3
  MaxTime = 8
  MaxParallel = 2
SYMMETRY MCSymmetry
INVARIANTS
  UsersDistinct
  SessionsEnd
PROPERTIES
  LastAdminOnlyByRace
  WaitKept
CHECK_DEADLOCK FALSE
