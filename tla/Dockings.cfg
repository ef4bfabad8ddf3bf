\* One bus, two rungs, three nights; one site and four requests on its settings.
CONSTANTS
  low = low
  high = high
  di = di
  Bus = {b1}
  MaxKm = 3
  MaxDay = 3
  MaxWork = 4
  Forms <- MCForms
  Rung = {low, high}
  Milestone <- MCMilestone
  LeadKm = 1
  Site = {s1}
  Link = {link}
  DefaultShifts = {"A"}
  WorkType = {di}
  DefaultCycles <- MCDefaultCycles
  Saves <- MCSaves
  CycleForms <- MCCycles
  NewCategories = {{"bus"}, {"truck"}}
  Worker = {r1, r2}
  LastDay = 2
  MaxAsked = 4
SPECIFICATION PlansSpec
CHECK_DEADLOCK FALSE
INVARIANTS
  NotOverruled
  OperatedIsSeeded
PROPERTIES
  SlippedRungIsRebooked
