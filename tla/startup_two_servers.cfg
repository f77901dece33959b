SPECIFICATION Spec
CONSTANTS
  Servers = {s1, s2}
  Commands = {c1}
  Files = {1, 2, 3}
  NoFile = NoFile
  Nobody = Nobody
  Versions = 2
  Ids = {standard, other}
  Default = standard
  NoKey = NoKey
  MaxStarts = 3
  MaxCrashes = 1
CHECK_DEADLOCK FALSE
INVARIANTS
  OneServer
