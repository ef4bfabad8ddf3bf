\* Two sites, one bus, two days; every request may meet the nightly run.
CONSTANTS
  s1 = s1  s2 = s2  word = word
  Bus = {b1}
  CaseId = {c1, c2}
  Request = {r1}
  MaxDay = 2
  MaxDays = 1
  HeldDays = 1
  Forms <- MCForms
  Site = {s1, s2}
  SiteOf <- MCSiteOf
  Worker = {w1}
  Saver = {v1}
  Figures = {g1}
  MaxPerDay = 1
  MaxWork = 3
  Investigated = {d1}
  Complaints = {m1}
  Lookback = 1
  MaxListed = 1
  Investigator = {i1, i2}
  SentForms <- MCSent
  MaxLooks = 5
  Breakdowns = {e1, e2}
  Checks = {k1}
  Sessions = {x1}
  Photo = {p1, p2}
  Imported = {}
  MonthStart = 1
  PageSize = 1
  MaxPhotos = 1
  Queries <- MCQueries
  Reader = {r1}
  MaxChanges = 4
SPECIFICATION ReportsSpec
CHECK_DEADLOCK FALSE
INVARIANTS
  WalkMissesNothing
  
  NightSealsOrLogs
PROPERTIES
  WordStands
  SnapshotKeepsEntered
