CONSTANTS
  Threads = {t1, t2}
  SpecKeys = {"k1", "k2"}
  Specs = {s1, s2}
  Absent = Absent
  Sites <- AllSites
  Requests <- SomeRequests
  MaxRules = 2
  MaxRequests = 3
SPECIFICATION Spec
SYMMETRY Interchangeable
INVARIANTS TypeOK LoneVerdictIsRight
CHECK_DEADLOCK FALSE
