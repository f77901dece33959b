SPECIFICATION Spec
CONSTANTS
  gs = gs
  gr = gr
  pa = pa
  pb = pb
  Groups = {gs}
  Actionable = {gs}
  ByPattern = {gs}
  Patterns = {pa, pb}
  Keys = {"ka", "kb"}
  KeyOf <- MCKeyOf
  Mails = {n1, n2}
  Unverified = {n1, n2}
  Plans <- MCOneGroup
  NoGroup = NoGroup
  Workers = 2
  MaxReports = 1
  MaxEvents = 2
INVARIANTS
  FlaggedOnlyOnRequest
  MissedOnlyInRaces
SYMMETRY MCSymmetry
