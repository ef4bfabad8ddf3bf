SPECIFICATION FairSpec
CONSTANTS
    Buses = {1, 2}
    CycleDays = 2
    SlotsPerDay = 1
    HorizonCycles = 1
    MinHorizonDays = 1
    MaxHorizonDays = 60
    Planners = {"nightly", "manager"}
    LastNight = 1
    MaxInspections = 1
    MaxEdits = 0
    Overlap = TRUE
    MayFail = FALSE
    Nil = Nil
PROPERTIES EveryNightIsClosed
