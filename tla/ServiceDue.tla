----------------------------- MODULE ServiceDue -----------------------------
(***************************************************************************)
(* What service a bus is due: the site's configuration, the readings of    *)
(* the bus, the service it last had, and the calendar.  "A service falls   *)
(* due on whichever comes first, distance or elapsed time."                *)
(*                                                                         *)
(* The configuration is one recurring plan with the lead it is warned by;  *)
(* a site with more plans evaluates each of them this way.  Requests are   *)
(* one at a time: Odometer has the ones that overlap.                      *)
(***************************************************************************)
EXTENDS Integers, FiniteSets

CONSTANTS
  Bus,
  MaxKm,      \* bound: the highest reading
  MaxDay,     \* bound: the last day of the calendar
  MaxWork,    \* bound: requests ever made
  Forms       \* configurations a manager may send

Km     == 0..MaxKm
Day    == 1..MaxDay
NoKm   == -1
NoDate == 0

\* Intervals of 0 switch an axis off; an inactive plan has both at 0.
Config == [km : Nat, days : Nat, leadKm : Nat, leadDays : Nat]
Defaults == [km |-> 0, days |-> 0, leadKm |-> 1, leadDays |-> 1]

ASSUME PlanAssumption ==
  MaxKm \in Nat /\ MaxDay \in Nat \ {0} /\ MaxWork \in Nat /\ Forms \subseteq Config

VARIABLES
  config,    \* site_configs and its plan
  bus,       \* vehicles: odometer_km, odometer_updated_at, last_service_*
  today,
  work       \* requests made so far

planVars == <<config, bus>>

Vehicle == [km : Km, readOn : Day \cup {NoDate},
            serviceKm : Km \cup {NoKm}, serviceOn : Day \cup {NoDate}]
NewVehicle == [km |-> 0, readOn |-> NoDate, serviceKm |-> NoKm, serviceOn |-> NoDate]

PlanTypeOK ==
  /\ config \in Config
  /\ bus \in [Bus -> Vehicle]
  /\ today \in Day
  /\ work \in 0..MaxWork

-----------------------------------------------------------------------------
(* evaluate.                                                               *)
Rank(s) == CASE s = "ok" -> 0 [] s = "unknown" -> 1 [] s = "due_soon" -> 2
             [] s = "overdue" -> 3
Worse(s, t) == IF Rank(s) >= Rank(t) THEN s ELSE t

Runway(left, lead) ==
  IF left <= 0 THEN "overdue" ELSE IF left <= lead THEN "due_soon" ELSE "ok"

Read(v) == v.readOn # NoDate
ServiceAnchorKm(v) == IF v.serviceKm = NoKm THEN 0 ELSE v.serviceKm
\* Without a service, the day of the last reading; without one, today.
ServiceAnchorOn(v, t) ==
  IF v.serviceOn # NoDate THEN v.serviceOn ELSE IF Read(v) THEN v.readOn ELSE t

ByDistance(v, c) ==
  IF c.km = 0 THEN "ok"
  ELSE IF ~Read(v) THEN "unknown"
  ELSE Runway(ServiceAnchorKm(v) + c.km - v.km, c.leadKm)
ByTime(v, c, t) ==
  IF c.days = 0 THEN "ok" ELSE Runway(ServiceAnchorOn(v, t) + c.days - t, c.leadDays)

Status(v, c, t) == Worse(ByDistance(v, c), ByTime(v, c, t))
IsPlan(c) == c.km > 0 \/ c.days > 0

\* validation_issues: a plan that "would always read as due" is refused.
Valid(c) ==
  /\ IsPlan(c)
  /\ c.km > 0 => c.leadKm < c.km
  /\ c.days > 0 => c.leadDays < c.days

-----------------------------------------------------------------------------
Request == work < MaxWork /\ work' = work + 1

\* PUT .../config: get_or_create, then replace, refused when incoherent.
PutConfig(c) ==
  /\ Valid(c)
  /\ config' = c
  /\ UNCHANGED bus

\* Broken: the reading is not compared.
AcceptsAny(b, k) == TRUE
\* "Odometers do not run backwards."
Accepts(b, k) == Read(bus[b]) => k >= bus[b].km

\* record_reading.
Reading(b, k, d) == [bus[b] EXCEPT !.km = k, !.readOn = d]
SetOdometer(b, k) ==
  /\ Accepts(b, k)
  /\ bus' = [bus EXCEPT ![b] = Reading(b, k, today)]
  /\ UNCHANGED config

Serviced(b, k, d) == [Reading(b, k, today) EXCEPT !.serviceKm = k, !.serviceOn = d]
RecordService(b, k, d) ==
  /\ Accepts(b, k)
  /\ bus' = [bus EXCEPT ![b] = Serviced(b, k, d)]
  /\ UNCHANGED config

PlanInit ==
  /\ config = Defaults
  /\ bus = [b \in Bus |-> NewVehicle]
  /\ today = 1
  /\ work = 0

-----------------------------------------------------------------------------
StatusOf(b) == Status(bus[b], config, today)

\* No coherent configuration flags a bus that has just been serviced: the rule
\* the configuration is checked by and the rule the due list is computed by,
\* written apart, fit.
FreshlyServicedIsOk ==
  \A b \in Bus :
    /\ IsPlan(config) /\ bus[b].serviceOn = today /\ bus[b].serviceKm = bus[b].km
    => StatusOf(b) = "ok"

\* "Unknown, never 0 km": a bus that was never read does not pass for one that
\* is not due by distance.
UnreadIsVisible ==
  \A b \in Bus : config.km > 0 /\ ~Read(bus[b]) => StatusOf(b) # "ok"

\* Once a bus has a service on record nothing but the next one, or another
\* configuration, takes it off the due list: no reading does, and no day.
OnlyServiceClears(b) ==
  /\ bus[b].serviceOn # NoDate
  /\ Rank(StatusOf(b)') < Rank(StatusOf(b))
  => \/ config' # config
     \/ bus'[b].serviceOn # bus[b].serviceOn \/ bus'[b].serviceKm # bus[b].serviceKm

\* "Whichever comes first, distance or elapsed time": the same of every bus
\* that has been read.
DueStaysDue(b) ==
  /\ Read(bus[b]) /\ Rank(StatusOf(b)') < Rank(StatusOf(b))
  => \/ config' # config
     \/ bus'[b].serviceOn # bus[b].serviceOn \/ bus'[b].serviceKm # bus[b].serviceKm
=============================================================================
