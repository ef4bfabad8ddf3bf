\* Two sites the scan has to look at, either of which may fail.
CONSTANTS
  s1 = s1
  Bus = {b1}
  Site = {s1, s2}
  SiteOf <- MCSiteOf
  Txn = {t1}
  MaxKm = 1
  MaxWork = 2
  Unit = {u1}
  StayId = {i1}
  MaxDay = 1
  MonthDays = 1
  Typed <- MCTyped
SPECIFICATION Spec
PROPERTY BadSiteStopsNobody
