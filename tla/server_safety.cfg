SPECIFICATION MCSpec
CONSTANTS
  Servers = {s1, s2}
  Commands = {c1}
  Files = {1, 2, 3}
  NoFile = NoFile
  Nobody = Nobody
  Versions = 2
  Ids = {standard, other}
  Default = standard
  NoKey = NoKey
  MaxStarts = 3
  MaxCrashes = 1
  Web = {w1, w2}
  Cmd = {c1}
  Asked <- MCAsked
  Known <- MCKnown
  BuiltIn <- MCBuiltIn
  Together = FALSE
  Unset = ""
  NoOne = nobody
  DayLen = 2
  CheckTimes = {1}
  SendTimes = {0}
  NotifyTimes = {0, 1}
  CleanupTime = 1
  Interval = 2
  Margin = 1
  Jumps <- MCJumps
  MaxTime = 6
  MaxTroubles = 1
INVARIANTS
  AppliedOnce
  SameKey
  LocksExclude
  TimesFire
  CleanupDaily
  NotifyOnSchedule
  WaitersResume
  CombinationsValid
  PasswordServesItsServer
PROPERTIES
  TokensKept
  OneAtATime
CHECK_DEADLOCK FALSE
