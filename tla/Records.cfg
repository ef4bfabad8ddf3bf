\* Units: one bus, one type, two months of one day each.  Checklists: two
\* requests at a time on the sheets of one bus.  Registers: five
\* requests.  Inbox: six.
SPECIFICATION MCSpec
CONSTANTS
  s1 = s1  wash = wash  tyre = tyre  v1 = v1  k1 = k1  p1 = p1  p2 = p2  n1 = n1  n2 = n2
  Variant = {v1}
  Rung = {k1}
  Label = {wash, tyre}
  InspectionDay = {1}
  Migrations = 1
  Catalogue <- MCCatalogue
  ItemId = {1, 2}
  InspectionId = {1}
  Request = {r1, r2}
  SentForms <- MCForms
  MaxChanges = 3
  DepotBus = {b1, b2}
  Staff = {p1}
  ListRow = {x1, x2}
  Code = {c1, c2}
  Breakdowns = {e1}
  Sessions = {e2}
  Client = {p1}
  Photo = {f1}
  MaxSaves = 5
  Person = {p1, p2}
  Phone = {d1}
  News = {n1, n2}
  Audience <- MCAudience
  MaxPushes = 6
  Bus = {b1}
  Site = {s1}
  SiteOf <- MCSiteOf
  Txn = {t1, t2}
  MaxKm = 2
  MaxWork = 4
  Unit = {u1}
  StayId = {i1, i2}
  MaxDay = 2
  MonthDays = 1
  Typed <- MCTyped
CHECK_DEADLOCK FALSE
INVARIANTS
  RowAgreesWithHistory
  
  ReadsBack
  
  EveryPhotoHasItsFile
PROPERTIES
  OdometerNeverRunsBack
  AnswersKeepTheirLine
  
  
