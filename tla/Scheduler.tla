------------------------------ MODULE Scheduler ------------------------------
(***************************************************************************)
(* The reactive inspection scheduler of one site, for one rotation plan:   *)
(* the bookings (inspection_slots), the inspections that discharge them,   *)
(* the alert a missed booking raises, hand edits, and the generator that   *)
(* reads all of it back and lays the rotation out again.                   *)
(*                                                                         *)
(* A generator run is one transaction of several statements.  It works on  *)
(* its session's copy (`run`) and the rows change when it commits; the     *)
(* session does not autoflush, so nothing it decided is visible to its own *)
(* queries before the flush that OpenRotation stands for.                  *)
(***************************************************************************)
EXTENDS Integers, FiniteSets

CONSTANTS
    Buses,            \* numbered in registration order
    CycleDays,        \* InspectionPlan.cycle_days
    SlotsPerDay,      \* InspectionPlan.slots_per_day, 0 = uncapped
    HorizonCycles,    \* HORIZON_CYCLES
    MinHorizonDays,   \* MIN_HORIZON_DAYS
    MaxHorizonDays,   \* MAX_HORIZON_DAYS
    Planners,         \* who runs the generator: the nightly job, a manager
    LastNight,        \* bound: the clock stops here
    MaxInspections,   \* bound: inspections recorded or imported
    MaxEdits,         \* bound: hand edits of the calendar
    Overlap,          \* whether other transactions commit while a run is open
    MayFail,          \* whether a run may be rolled back by an error
    Nil

SmallestOf(S) == CHOOSE n \in S : \A m \in S : n <= m
LargestOf(S)  == CHOOSE n \in S : \A m \in S : n >= m

\* horizon_for: a multiple of the cycle, clamped.
Horizon ==
    SmallestOf({LargestOf({CycleDays * HorizonCycles, MinHorizonDays}), MaxHorizonDays})

Nights == 0 .. (LastNight + Horizon)

ASSUME BusesAssumption == Buses \subseteq Nat /\ IsFiniteSet(Buses)
ASSUME PlanAssumption ==
    /\ CycleDays \in Nat \ {0} /\ SlotsPerDay \in Nat
    /\ HorizonCycles \in Nat /\ MinHorizonDays \in Nat /\ MaxHorizonDays \in Nat
    /\ LastNight \in Nat /\ MaxInspections \in Nat /\ MaxEdits \in Nat
    /\ Overlap \in BOOLEAN /\ MayFail \in BOOLEAN
    /\ Nil \notin Nat

SlotStatus  == {"scheduled", "done", "missed", "cancelled"}
AlertStatus == {"none", "open", "acknowledged", "resolved"}

\* An inspection_slots row with the one alert its id can ever carry
\* ("missed:<slot id>" is the dedupe key; deleting the row cascades to it).
SlotRows ==
    [status : SlotStatus, completedOn : Nights \cup {Nil},
     alert : AlertStatus, raisedOn : Nights \cup {Nil}]

ASSUME NilAssumption == Nil \notin SlotRows

Cells == Buses \X Nights

VARIABLES
    today,
    active,      \* buses in service (vehicles.is_active)
    inspected,   \* the nights each bus has an inspection_entries row for
    slot,        \* the booking of a bus on a night, or Nil: the unique key
    run,         \* the session of each generator run
    settled,     \* nothing has changed since a run committed
    edits,
    notified     \* nights whose alerts were pushed to the supervisors

vars == <<today, active, inspected, slot, run, settled, edits, notified>>

Runs ==
    [stage  : {"idle", "discharged", "selected", "planning", "notifying"},
     again  : BOOLEAN,                     \* it began with nothing to do
     fleet  : SUBSET Buses,                \* the vehicles it read
     done   : SUBSET (Cells \X Nights),    \* discharged, with completed_on
     missed : SUBSET Cells,
     booked : SUBSET Cells,
     urgent : SUBSET Buses, never : SUBSET Buses,
     due    : [Buses -> Nat],
     night  : Nat]                         \* the next night to fill

Idle ==
    [stage |-> "idle", again |-> FALSE, fleet |-> {}, done |-> {}, missed |-> {},
     booked |-> {}, urgent |-> {}, never |-> {}, due |-> [b \in Buses |-> 0],
     night |-> 0]

\* ------------------------------------------------------------- reading

Booked(b, n)   == slot[b][n] # Nil
Has(b, n, S)   == Booked(b, n) /\ slot[b][n].status \in S
Slipped(r)     == {c[1] : c \in r.missed}
LastDone(b)    == LargestOf(inspected[b])
InspectionCount == Cardinality({c \in Cells : c[2] \in inspected[c[1]]})
HorizonEnd     == today + Horizon

\* The day before, the night itself, or any later night up to today.
Discharging(b, n) == {d \in inspected[b] : n - 1 <= d /\ d <= today}

\* A slot's status as the run's session sees it once it has flushed.
StatusIn(r, b, n) ==
    IF <<b, n>> \in r.missed THEN "missed"
    ELSE IF \E d \in Nights : <<<<b, n>>, d>> \in r.done THEN "done"
    ELSE slot[b][n].status

Holds(r, b, n, S) == Booked(b, n) /\ StatusIn(r, b, n) \in S

\* Capacity counts work that still stands; a night already on the calendar is
\* spoken for whatever its slot's status.
Taken(r, n) ==
    Cardinality({b \in Buses :
        Holds(r, b, n, {"scheduled", "done"}) \/ <<b, n>> \in r.booked})
Spoken(r, b, n) == Booked(b, n) \/ <<b, n>> \in r.booked

PerDay(fleet) ==
    IF SlotsPerDay > 0 THEN SlotsPerDay ELSE LargestOf({Cardinality(fleet), 1})

\* The nights from today on a bus holds a live booking for.
HeldNights(r, b) == {n \in Nights : n >= today /\ Holds(r, b, n, {"scheduled"})}

\* Broken: a booking already held does not push the bus's turn back.
FirstDueUnheld(r, b) ==
    IF b \in Slipped(r) \/ inspected[b] = {} THEN today
    ELSE LargestOf({LastDone(b) + CycleDays, today})

\* A bus's place in the rotation when planning begins.
FirstDue(r, b) ==
    IF b \in Slipped(r) THEN today
    ELSE IF HeldNights(r, b) # {} THEN LargestOf(HeldNights(r, b)) + CycleDays
    ELSE IF inspected[b] = {} THEN today
    ELSE LargestOf({LastDone(b) + CycleDays, today})

NeverDone(r, b) ==
    inspected[b] = {} /\ (b \in Slipped(r) \/ HeldNights(r, b) = {})

\* Broken: the sort key without its first component.
BeforeWithoutUrgency(r, a, b) ==
    \/ r.due[a] < r.due[b]
    \/ r.due[a] = r.due[b] /\ a < b

\* Worst first: slipped, never inspected, longest overdue, registration.  Only
\* buses already due are compared, so the earliest due is the most overdue.
Class(r, b) ==
    (IF b \in r.urgent THEN 0 ELSE 2) + (IF b \in r.never THEN 0 ELSE 1)
Before(r, a, b) ==
    \/ Class(r, a) < Class(r, b)
    \/ Class(r, a) = Class(r, b) /\ r.due[a] < r.due[b]
    \/ Class(r, a) = Class(r, b) /\ r.due[a] = r.due[b] /\ a < b

\* ready[:room], and the ones of it whose night is not spoken for.
Ready(r, n) == {b \in r.fleet : r.due[b] <= n}
Chosen(r, n) ==
    {b \in Ready(r, n) :
        Cardinality({a \in Ready(r, n) : Before(r, a, b)}) < PerDay(r.fleet) - Taken(r, n)}
NewlyBooked(r, n) == {b \in Chosen(r, n) : ~Spoken(r, b, n)}

\* -------------------------------------------------------- the generator

NoRunOpen == \A p \in Planners : run[p].stage = "idle"
\* Another transaction commits: between runs, or during one if they overlap.
Free == Overlap \/ NoRunOpen
\* The rows a flushed run has written and not yet committed stay locked.
Locked(b, n) ==
    \E p \in Planners :
        /\ run[p].stage = "planning"
        /\ <<b, n>> \in run[p].missed \/ \E d \in Nights : <<<<b, n>>, d>> \in run[p].done

Discharged ==
    {c \in Cells : Has(c[1], c[2], {"scheduled"}) /\ Discharging(c[1], c[2]) # {}}

\* Fleet, then every scheduled slot with its earliest discharging inspection.
BeginRun(p) ==
    /\ run[p].stage = "idle" /\ Free
    /\ run' = [run EXCEPT ![p] =
         [Idle EXCEPT
            !.stage = "discharged", !.again = settled, !.fleet = active,
            !.done = {<<c, SmallestOf(Discharging(c[1], c[2]))>> : c \in Discharged}]]
    /\ UNCHANGED <<today, active, inspected, slot, settled, edits, notified>>

\* Broken: whatever the slot's status; a night too late.
PastDueAny == {c \in Cells : c[2] < today /\ Booked(c[1], c[2])}
PastDueLate == {c \in Cells : c[2] < today - 1 /\ Has(c[1], c[2], {"scheduled"})}

\* A night that has passed is missed if its row, unflushed, is still scheduled.
PastDue == {c \in Cells : c[2] < today /\ Has(c[1], c[2], {"scheduled"})}

SelectMissed(p) ==
    /\ run[p].stage = "discharged"
    /\ run' = [run EXCEPT ![p].stage = "selected", ![p].missed = PastDue]
    /\ UNCHANGED <<today, active, inspected, slot, settled, edits, notified>>

\* The flush locks the rows; then the plan reads the calendar and the queue.
OpenRotation(p) ==
    /\ run[p].stage = "selected"
    /\ \A c \in run[p].missed \cup {d[1] : d \in run[p].done} : ~Locked(c[1], c[2])
    /\ run' = [run EXCEPT ![p] =
         [run[p] EXCEPT
            !.stage = "planning", !.urgent = Slipped(run[p]), !.night = today,
            !.never = {b \in active : NeverDone(run[p], b)},
            !.due = [b \in Buses |-> FirstDue(run[p], b)]]]
    /\ UNCHANGED <<today, active, inspected, slot, settled, edits, notified>>

PlanNight(p) ==
    LET r == run[p]
        n == r.night
        new == NewlyBooked(r, n)
    IN
    /\ r.stage = "planning" /\ n <= HorizonEnd
    /\ run' = [run EXCEPT ![p] =
         [r EXCEPT
            !.booked = @ \cup (new \X {n}),
            !.due = [b \in Buses |-> IF b \in new THEN n + CycleDays ELSE @[b]],
            !.never = @ \ new, !.urgent = @ \ new, !.night = n + 1]]
    /\ UNCHANGED <<today, active, inspected, slot, settled, edits, notified>>

\* Broken: an acknowledged alert is left alone.
AlertAfterOpenOnly(r, b, n) ==
    IF slot[b][n].alert = "open" /\ StatusIn(r, b, n) = "done" THEN "resolved"
    ELSE IF slot[b][n].alert = "none" /\ <<b, n>> \in r.missed THEN "open"
    ELSE slot[b][n].alert

\* A done slot's alert closes; the missed ones raise theirs unless the key is
\* already taken, in whatever status.
AlertAfter(r, b, n) ==
    IF slot[b][n].alert \in {"open", "acknowledged"} /\ StatusIn(r, b, n) = "done"
      THEN "resolved"
    ELSE IF slot[b][n].alert = "none" /\ <<b, n>> \in r.missed THEN "open"
    ELSE slot[b][n].alert

Fresh(status) ==
    [status |-> status, completedOn |-> Nil, alert |-> "none", raisedOn |-> Nil]

RowAfter(r, b, n) ==
    IF <<b, n>> \in r.booked THEN Fresh("scheduled")
    ELSE IF ~Booked(b, n) THEN Nil
    ELSE [status |-> StatusIn(r, b, n),
          completedOn |->
            IF \E d \in Nights : <<<<b, n>>, d>> \in r.done
              THEN CHOOSE d \in Nights : <<<<b, n>>, d>> \in r.done
              ELSE slot[b][n].completedOn,
          alert |-> AlertAfter(r, b, n),
          raisedOn |-> IF slot[b][n].alert = "none" /\ AlertAfter(r, b, n) = "open"
                         THEN today ELSE slot[b][n].raisedOn]

CommitRun(p) ==
    /\ run[p].stage = "planning" /\ run[p].night > HorizonEnd
    /\ \A c \in run[p].booked : ~Booked(c[1], c[2])
    /\ slot' = [b \in Buses |-> [n \in Nights |-> RowAfter(run[p], b, n)]]
    /\ settled' = ~Overlap
    /\ run' = [run EXCEPT ![p] =
         IF p = "nightly" THEN [Idle EXCEPT !.stage = "notifying"] ELSE Idle]
    /\ UNCHANGED <<today, active, inspected, edits, notified>>

\* The unique key refuses a booking somebody else committed first, or the run
\* fails for a reason of its own: it is rolled back.
FailRun(p) ==
    /\ run[p].stage \notin {"idle", "notifying"}
    /\ MayFail \/ \E c \in run[p].booked : Booked(c[1], c[2])
    /\ run' = [run EXCEPT ![p] = Idle]
    /\ UNCHANGED <<today, active, inspected, slot, settled, edits, notified>>

\* fan_out's keywords have no defaults; a call that leaves one out raises, and
\* run_nightly logs it and goes on.
FanOutKeywords == {"users", "type_", "title", "body", "entry_id", "site_code"}
ScheduleAlertKeywords == {"users", "type_", "title", "body", "site_code"}
RaisedTonight == {c \in Cells : /\ Booked(c[1], c[2])
                                /\ slot[c[1]][c[2]].alert = "open"
                                /\ slot[c[1]][c[2]].raisedOn = today}
Notify(p) ==
    /\ run[p].stage = "notifying"
    /\ notified' = IF RaisedTonight # {} /\ FanOutKeywords \subseteq ScheduleAlertKeywords
                     THEN notified \cup {today} ELSE notified
    /\ run' = [run EXCEPT ![p] = Idle]
    /\ UNCHANGED <<today, active, inspected, slot, settled, edits>>

\* ---------------------------------------------------- everybody else

\* The booking an inspection discharges: the bus's latest open or missed one.
Answerable(b) == {n \in Nights : Has(b, n, {"scheduled", "missed"})}
Answered(b) == LargestOf(Answerable(b))

RecordInspection(b, d) ==
    /\ Free /\ InspectionCount < MaxInspections
    /\ b \in active /\ d <= today /\ d \notin inspected[b]
    /\ inspected' = [inspected EXCEPT ![b] = @ \cup {d}]
    /\ IF Answerable(b) = {} THEN UNCHANGED slot
       ELSE /\ ~Locked(b, Answered(b))
            /\ slot' = [slot EXCEPT ![b][Answered(b)] =
                          [@ EXCEPT !.status = "done", !.completedOn = d]]
    /\ settled' = FALSE
    /\ UNCHANGED <<today, active, run, edits, notified>>

\* A historical row of the snag report: no booking is touched.
ImportInspection(b, d) ==
    /\ Free /\ InspectionCount < MaxInspections
    /\ d <= today /\ d \notin inspected[b]
    /\ inspected' = [inspected EXCEPT ![b] = @ \cup {d}]
    /\ settled' = FALSE
    /\ UNCHANGED <<today, active, slot, run, edits, notified>>

CreateSlot(b, n) ==
    /\ Free /\ edits < MaxEdits
    /\ ~Booked(b, n)
    /\ slot' = [slot EXCEPT ![b][n] = Fresh("scheduled")]
    /\ edits' = edits + 1 /\ settled' = FALSE
    /\ UNCHANGED <<today, active, inspected, run, notified>>

\* A move keeps the row, its status and its alert; the status may be set too.
UpdateSlot(b, n, to, status) ==
    /\ NoRunOpen /\ edits < MaxEdits
    /\ Booked(b, n)
    /\ to # n => ~Booked(b, to)
    /\ slot' = [slot EXCEPT ![b] = [@ EXCEPT ![n] = Nil,
                                             ![to] = [slot[b][n] EXCEPT !.status = status]]]
    /\ edits' = edits + 1 /\ settled' = FALSE
    /\ UNCHANGED <<today, active, inspected, run, notified>>

DeleteSlot(b, n) ==
    /\ NoRunOpen /\ edits < MaxEdits
    /\ Booked(b, n)
    /\ slot' = [slot EXCEPT ![b][n] = Nil]
    /\ edits' = edits + 1 /\ settled' = FALSE
    /\ UNCHANGED <<today, active, inspected, run, notified>>

\* The alert of a slot is acknowledged; the problem itself remains.
Acknowledge(b, n) ==
    /\ NoRunOpen
    /\ Booked(b, n) /\ slot[b][n].alert = "open"
    /\ slot' = [slot EXCEPT ![b][n].alert = "acknowledged"]
    /\ UNCHANGED <<today, active, inspected, run, settled, edits, notified>>

\* The fleet sync drops a bus that left the fleet master and takes it back
\* when it returns; an edit of the master does the same.
Retire(b) ==
    /\ Free /\ edits < MaxEdits
    /\ b \in active
    /\ active' = active \ {b}
    /\ edits' = edits + 1 /\ settled' = FALSE
    /\ UNCHANGED <<today, inspected, slot, run, notified>>

Reactivate(b) ==
    /\ Free /\ edits < MaxEdits
    /\ b \in Buses \ active
    /\ active' = active \cup {b}
    /\ edits' = edits + 1 /\ settled' = FALSE
    /\ UNCHANGED <<today, inspected, slot, run, notified>>

Midnight ==
    /\ NoRunOpen /\ today < LastNight
    /\ today' = today + 1 /\ settled' = FALSE
    /\ UNCHANGED <<active, inspected, slot, run, edits, notified>>

Init ==
    /\ today = 0 /\ active \in SUBSET Buses
    /\ inspected = [b \in Buses |-> {}]
    /\ slot = [b \in Buses |-> [n \in Nights |-> Nil]]
    /\ run = [p \in Planners |-> Idle]
    /\ settled = FALSE /\ edits = 0 /\ notified = {}

\* A run that has begun goes on, to its commit or to the error that ends it.
Continue(p) ==
    \/ SelectMissed(p) \/ OpenRotation(p) \/ PlanNight(p)
    \/ CommitRun(p) \/ Notify(p) \/ FailRun(p)

Next ==
    \/ \E p \in Planners : BeginRun(p) \/ Continue(p)
    \/ \E b \in Buses, d \in Nights : RecordInspection(b, d) \/ ImportInspection(b, d)
    \/ \E b \in Buses, n \in Nights : CreateSlot(b, n) \/ DeleteSlot(b, n) \/ Acknowledge(b, n)
    \/ \E b \in Buses, n, to \in Nights, s \in SlotStatus : UpdateSlot(b, n, to, s)
    \/ \E b \in Buses : Retire(b) \/ Reactivate(b)
    \/ Midnight

Spec == Init /\ [][Next]_vars

\* ----------------------------------------------------------- properties

TypeOK ==
    /\ today \in 0 .. LastNight
    /\ active \subseteq Buses
    /\ inspected \in [Buses -> SUBSET Nights]
    /\ slot \in [Buses -> [Nights -> SlotRows \cup {Nil}]]
    /\ run \in [Planners -> Runs]
    /\ settled \in BOOLEAN
    /\ edits \in 0 .. MaxEdits
    /\ notified \subseteq Nights

Commits(p) == run[p].stage = "planning" /\ run'[p].stage \in {"idle", "notifying"} /\ slot' # slot
Standing(b, n) == Has(b, n, {"scheduled", "done"})
Load(n) == Cardinality({b \in Buses : Standing(b, n)})

\* "It books to that cap": a night a run adds a bus to never ends up holding
\* more work that stands than the plan allows, whatever was there before.
NightsBookedToTheCap ==
    [][\A p \in Planners : Commits(p) =>
        \A n \in Nights :
            (\E b \in Buses : <<b, n>> \in run[p].booked) =>
                Load(n)' <= PerDay(run[p].fleet)]_vars

\* "Others hold their dates": a run takes no booking off the calendar, and a
\* slot a person cancelled, a missed night and a discharged one keep their
\* status; only scheduled slots are closed.
ClosedSlotsHold ==
    [][\A p \in Planners : Commits(p) =>
        \A b \in Buses, n \in Nights :
            Booked(b, n) /\ slot[b][n].status # "scheduled" =>
                slot'[b][n] # Nil /\ slot'[b][n].status = slot[b][n].status]_vars

\* "Missed work jumps the queue": when a bus that slipped is left off tonight's
\* list, no bus that did not slip was put on it by the same run.
SlippedBusesLead ==
    [][\A p \in Planners : Commits(p) =>
        \A u \in Slipped(run[p]) \cap run[p].fleet :
            slot'[u][today] = Nil =>
                \A b \in Buses : <<b, today>> \in run[p].booked => b \in Slipped(run[p])]_vars

\* "A bus comes round again a full cycle later": a run books a bus that did not
\* slip at least a cycle after its last inspection and its other bookings.
RoundsAreACycleApart ==
    [][\A p \in Planners : Commits(p) =>
        \A b \in Buses, n \in Nights :
            <<b, n>> \in run[p].booked /\ b \notin Slipped(run[p]) =>
                \A m \in (n - CycleDays + 1) .. n :
                    /\ m \notin inspected[b]
                    /\ m >= today /\ m # n => ~(slot'[b][m] # Nil /\ slot'[b][m].status = "scheduled")]_vars

\* After a run no night behind us still counts as booked.
PastNightsAreClosed ==
    settled => \A b \in Buses, n \in Nights : Has(b, n, {"scheduled"}) => n >= today

\* After a run an alert that somebody still has to look at is about a slot the
\* register does not show as done.
LiveAlertsAreOwed ==
    settled => \A b \in Buses, n \in Nights :
        Booked(b, n) /\ slot[b][n].alert \in {"open", "acknowledged"} =>
            slot[b][n].status # "done"

\* "Every due bus is booked, which is what a daily inspection of the whole
\* fleet means": uncapped, a run leaves no due bus off tonight's calendar.
UncappedBooksEveryDueBus ==
    [][\A p \in Planners : Commits(p) /\ SlotsPerDay = 0 =>
        \A b \in run[p].fleet :
            slot'[b][today] = Nil => FirstDue(run[p], b) > today]_vars

\* "The daily inspection covers the whole fleet every night": after a run every
\* bus in service is to be inspected tomorrow.
DailyCoversTheFleet ==
    settled /\ SlotsPerDay = 0 /\ CycleDays = 1 =>
        \A b \in active : Has(b, today + 1, {"scheduled"})

\* "Running it twice in one night changes nothing the second time."
RerunChangesNothing ==
    [][\A p \in Planners : Commits(p) => ~run[p].again]_vars

\* "The slot is marked done rather than missed because the work exists": no
\* run calls a night missed that an inspection discharges.
DoneLateIsNotMissed ==
    [][\A p \in Planners : Commits(p) =>
        \A b \in Buses, n \in Nights :
            slot'[b][n] # Nil /\ slot'[b][n].status = "missed" /\ Has(b, n, {"scheduled"}) =>
                Discharging(b, n) = {}]_vars

\* "Write one inspection and discharge the booking it answers": recorded for a
\* night the bus is booked, it discharges that booking.
InspectionAnswersItsNight ==
    [][\A b \in Buses, n \in Nights :
        n \in inspected'[b] \ inspected[b] /\ Has(b, n, {"scheduled"}) /\ slot' # slot =>
            slot'[b][n].status = "done"]_vars

\* One inspection is one job: it does not discharge two nights' bookings.
OneInspectionOneBooking ==
    \A b \in Buses, n, m \in Nights :
        n # m /\ Has(b, n, {"done"}) /\ Has(b, m, {"done"}) /\ slot[b][n].completedOn # Nil =>
            slot[b][n].completedOn # slot[b][m].completedOn

\* A problem that recurs after its alert was resolved is raised again.
RecurringMissIsRaised ==
    [][\A p \in Planners : Commits(p) =>
        \A c \in run[p].missed :
            slot'[c[1]][c[2]].alert \in {"open", "acknowledged"}]_vars

\* The night's run pushes the alerts it raised to the people who can act.
RaisedAlertsArePushed ==
    [][run["nightly"].stage = "notifying" /\ run'["nightly"].stage = "idle"
         /\ RaisedTonight # {} => today \in notified']_vars

\* A retired bus leaves the rotation: no night is reported missed for it.
RetiredBusesAreLeftAlone ==
    [][\A p \in Planners : Commits(p) => Slipped(run[p]) \subseteq active]_vars

\* The nightly job fires every evening and no transaction is left hanging;
\* nobody owes the scheduler a hand edit, an inspection or a manual run.
FairSpec ==
    /\ Spec
    /\ WF_vars(BeginRun("nightly"))
    /\ \A p \in Planners : WF_vars(Continue(p))

\* A night on the calendar does not stay booked for ever once it has passed.
EveryNightIsClosed ==
    \A b \in Buses, n \in Nights :
        Has(b, n, {"scheduled"}) /\ n < today ~> ~Has(b, n, {"scheduled"})

=============================================================================
