------------------------------ MODULE OffRoad ------------------------------
(***************************************************************************)
(* The off-road list: a bus goes down, the depot promises when it will be  *)
(* ready, and one day it runs again.  A case is one row from the day it    *)
(* goes down to the day it returns.                                        *)
(*                                                                         *)
(* A request loads the case it works on, decides, and commits later; it    *)
(* writes only the columns it changed.  `request` holds what it loaded and *)
(* what it made of it.                                                     *)
(***************************************************************************)
EXTENDS Integers, FiniteSets

CONSTANTS
  Bus,
  CaseId,     \* bound: rows off_road_cases may hold
  Request,    \* requests on the list in flight at once; one makes it serial
  MaxDay,     \* bound: the last day of the calendar
  MaxDays,    \* bound: the longest promise, in days
  HeldDays,   \* HELD_DAYS
  Forms       \* what the form over a case may hold

Day == 1..MaxDay
NoDate == 0       \* a NULL date column
NoDays == -1      \* a NULL expected_days
NewCase == "new"  \* a row that is still to be inserted

ASSUME CalendarAssumption ==
  /\ MaxDay \in Nat \ {0} /\ MaxDays \in Nat /\ HeldDays \in Nat
  /\ Forms \subseteq [since : Day \cup {NoDate}, days : NoDays..MaxDays,
                      ready : Day \cup {NoDate}]
  /\ IsFiniteSet(CaseId) /\ {NewCase, "idle"} \cap CaseId = {}

Case ==
  [bus : Bus, since : Day, days : Int, ready : Nat, returned : Day \cup {NoDate}]
NoCase == [since |-> NoDate]
Idle == [id |-> "idle"]

VARIABLES
  cases,      \* off_road_cases
  request,    \* the case each request loaded, and what it is about to write
  today

TypeOK ==
  /\ cases \in [CaseId -> Case \cup {NoCase}]
  /\ request \in [Request -> {Idle} \cup
       [id : CaseId \cup {NewCase}, was : Case \cup {NoCase}, now : Case]]
  /\ today \in Day

Held(i) == cases[i] # NoCase
IsOpen(i) == Held(i) /\ cases[i].returned = NoDate
OpenCases(b) == {i \in CaseId : IsOpen(i) /\ cases[i].bus = b}

\* Was the case's bus off the road on day d?
OpenOn(i, d) ==
  /\ Held(i) /\ cases[i].since <= d
  /\ cases[i].returned = NoDate \/ cases[i].returned > d
OffRoadOn(d) == {i \in CaseId : OpenOn(i, d)}
DaysDownOn(i, d) ==
  LET c == cases[i]
  IN  (IF c.returned # NoDate /\ c.returned <= d THEN c.returned ELSE d) - c.since

\* "A commitment in days and a date are the same promise."
Later(m, n) == IF m > n THEN m ELSE n
Promised(c) ==
  IF c.days > 0 /\ c.ready = NoDate THEN [c EXCEPT !.ready = c.since + c.days]
  ELSE IF c.ready # NoDate /\ c.days \in {NoDays, 0}
       THEN [c EXCEPT !.days = Later(c.ready - c.since, 0)]
       ELSE c

\* The form over a case: an absent field keeps the value that is there.
Given(c, since, days, ready) ==
  Promised([c EXCEPT !.since = IF since = NoDate THEN @ ELSE since,
                     !.days  = IF days = NoDays THEN @ ELSE days,
                     !.ready = IF ready = NoDate THEN @ ELSE ready])

FreshCase(b) ==
  [bus |-> b, since |-> today, days |-> NoDays, ready |-> NoDate, returned |-> NoDate]

\* POST .../off-road: the open case of the bus, or a new one.
PutOffRoad(r, b, f) ==
  /\ request[r] = Idle
  /\ \/ /\ OpenCases(b) = {}
        /\ request' = [request EXCEPT ![r] =
             [id |-> NewCase, was |-> NoCase,
              now |-> Given(FreshCase(b), f.since, f.days, f.ready)]]
     \/ \E i \in OpenCases(b) :
          request' = [request EXCEPT ![r] =
             [id |-> i, was |-> cases[i],
              now |-> Given(cases[i], f.since, f.days, f.ready)]]
  /\ UNCHANGED <<cases, today>>

\* POST /off-road/{id}/close: whether the case is closed already is not asked.
CloseOffRoad(r, i, d) ==
  /\ request[r] = Idle
  /\ Held(i) /\ d >= cases[i].since
  /\ request' = [request EXCEPT ![r] =
       [id |-> i, was |-> cases[i], now |-> [cases[i] EXCEPT !.returned = d]]]
  /\ UNCHANGED <<cases, today>>

\* UPDATE writes the columns that differ from what was loaded, and no other.
Column(was, now, cur) == IF now = was THEN cur ELSE now
Merged(was, now, cur) ==
  [bus |-> cur.bus,
   since |-> Column(was.since, now.since, cur.since),
   days |-> Column(was.days, now.days, cur.days),
   ready |-> Column(was.ready, now.ready, cur.ready),
   returned |-> Column(was.returned, now.returned, cur.returned)]

CommitInsert(r) ==
  /\ request[r].id = NewCase
  /\ \E i \in CaseId :
       /\ ~Held(i)
       /\ cases' = [cases EXCEPT ![i] = request[r].now]
CommitUpdate(r) ==
  /\ request[r].id \in CaseId
  /\ LET q == request[r]
     IN  cases' = [cases EXCEPT ![q.id] = Merged(q.was, q.now, cases[q.id])]

Commit(r) ==
  /\ request[r] # Idle
  /\ CommitInsert(r) \/ CommitUpdate(r)
  /\ request' = [request EXCEPT ![r] = Idle]
  /\ UNCHANGED today

\* The request dies before its commit; get_session rolls it back.
Abandon(r) ==
  /\ request[r] # Idle
  /\ request' = [request EXCEPT ![r] = Idle]
  /\ UNCHANGED <<cases, today>>

ListInit ==
  /\ cases = [i \in CaseId |-> NoCase]
  /\ request = [r \in Request |-> Idle]

-----------------------------------------------------------------------------
Serial == \A q, r \in Request : q = r

\* A bus has one open case, however often it is put off the road: the look-up
\* of open_case stands in for a unique key, and does while requests on the
\* list do not overlap.
OneOpenCase ==
  \A i, j \in CaseId : IsOpen(i) /\ IsOpen(j) /\ cases[i].bus = cases[j].bus => i = j

\* A bus never returns before it went down, though the two dates are written
\* by different requests and close_case may run again on a closed case.
ReturnsAfterItLeft ==
  \A i \in CaseId : Held(i) /\ ~IsOpen(i) => cases[i].since <= cases[i].returned

\* The two halves of a promise stand together: a case with a number of days
\* has a date and a case with a date has a number of days, whichever of them
\* the successive forms gave.
PromiseIsWhole ==
  \A i \in CaseId : Held(i) =>
    /\ cases[i].days > 0 => cases[i].ready # NoDate
    /\ cases[i].ready # NoDate => cases[i].days # NoDays
=============================================================================
