SPECIFICATION Spec
CONSTANTS
    Buses = {1, 2, 3}
    CycleDays = 2
    SlotsPerDay = 2
    HorizonCycles = 1
    MinHorizonDays = 2
    MaxHorizonDays = 60
    Planners = {"nightly"}
    LastNight = 1
    MaxInspections = 1
    MaxEdits = 1
    Overlap = FALSE
    MayFail = TRUE
    Nil = Nil
INVARIANTS
  LiveAlertsAreOwed
PROPERTIES
  ClosedSlotsHold
  SlippedBusesLead
  RoundsAreACycleApart
