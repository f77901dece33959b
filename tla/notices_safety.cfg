SPECIFICATION MCSpec
CONSTANTS
  p1 = p1
  p2 = p2
  n1 = n1
  n2 = n2
  r1 = r1
  r2 = r2
  s1 = s1
  s2 = s2
  Runs = {p1, p2}
  Notices = {n1, n2}
  Rel <- MCRel
  Direct <- MCDirect
  Resolvers = {r1, r2}
  Wild = {r2}
  Servers = {s1, s2}
  Lame = {s2}
  Zones <- MCZones
  Fresh = 0
  ReuseWindow = 1
  MailKeep = 0
  Caches = {p1, p2}
  Names = {"host", "domain"}
  KindsOf <- MCKindsOf
  FirstKind = "global_host"
  Settled = {"spf", "smtp_host"}
  MaxPeriods = 1
  Boxes <- MCBoxes
  Settings <- MCSettings
  AddrsOf <- MCAddrsOf
  SPF = {"a2", "spfhost"}
  Internal = {"i1"}
  Families <- MCFamilies
  MaxChecks = 2
  MaxTime = 2
INVARIANTS
  OneOutcome
  VerdictIsTrue
  SourcesStay
  JudgedByTruth
  FiledIsCounted
PROPERTIES
  PruneKeepsOutcomes
  UnverifiedIsRetried
SYMMETRY MCPerms
CHECK_DEADLOCK FALSE
