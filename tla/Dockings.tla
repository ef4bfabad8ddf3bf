------------------------------ MODULE Dockings ------------------------------
(***************************************************************************)
(* Dockings: jobs that are due when a bus has run to a mark, each rung of  *)
(* the site's ladder once.  The generator books the rung a bus owes on the *)
(* night it runs; an inspection that answers the booking climbs it.  Hand  *)
(* bookings of the same work type share the calendar, one cell for a bus   *)
(* and a night.  A rung is a row of the configuration ServiceDue replaces. *)
(***************************************************************************)
EXTENDS ServiceDue

CONSTANTS
  Rung,
  Milestone,   \* service_plans.milestone_km
  LeadKm       \* DOCKING_LEAD_KM

NoPlan == "no plan"

ASSUME LadderAssumption ==
  /\ Milestone \in [Rung -> Nat] /\ LeadKm \in Nat
  /\ \A p, q \in Rung : Milestone[p] = Milestone[q] => p = q
  /\ NoPlan \notin Rung

VARIABLES
  ladder,       \* the rungs the configuration holds
  slot,         \* inspection_slots of the docking work type
  inspected     \* inspection_entries of it

vars == <<config, bus, today, work, ladder, slot, inspected>>

Empty  == [status |-> "empty"]
Slot   == [rung : Rung \cup {NoPlan}, status : {"scheduled", "done", "missed", "cancelled"}]
None   == [rung |-> "none"]
Entry  == [rung : Rung \cup {NoPlan}]

TypeOK ==
  /\ PlanTypeOK
  /\ ladder \subseteq Rung
  /\ slot \in [Bus -> [Day -> Slot \cup {Empty}]]
  /\ inspected \in [Bus -> [Day -> Entry \cup {None}]]

-----------------------------------------------------------------------------
(* next_rung, over the rungs the bus has on record.                        *)
Lowest(R) == {p \in R : \A q \in R : Milestone[p] <= Milestone[q]}
Highest(R) == {p \in R : \A q \in R : Milestone[q] <= Milestone[p]}

\* With nothing recorded, the rungs not yet passed; else those above the last.
Ahead(R, done, km) ==
  IF done = {} THEN {p \in R : Milestone[p] + LeadKm > km}
  ELSE {p \in R \ done : \A q \in Highest(done) : Milestone[p] > Milestone[q]}

\* At most one rung.
NextRung(R, done, km) == {p \in Lowest(Ahead(R, done, km)) : km + LeadKm >= Milestone[p]}

Climbed(b) == {p \in ladder : \E d \in Day : inspected[b][d] = [rung |-> p]}
Owes(b) == IF Read(bus[b]) THEN NextRung(ladder, Climbed(b), bus[b].km) ELSE {}

-----------------------------------------------------------------------------
(* The generator.                                                          *)
\* _discharge_slots: an inspection from the day before the booking on.
DoneBy(b, n) ==
  \E d \in Day : d >= n - 1 /\ d <= today /\ inspected[b][d] # None
\* _mark_missed does not see what the discharge has not flushed: a night behind
\* is missed, its inspection on record or not.
Settled(b, n) ==
  IF slot[b][n].status # "scheduled" THEN slot[b][n]
  ELSE IF n < today THEN [slot[b][n] EXCEPT !.status = "missed"]
  ELSE IF DoneBy(b, n) THEN [slot[b][n] EXCEPT !.status = "done"]
  ELSE slot[b][n]

\* Broken: a booking that was missed stands.
StandingEvenMissed(s, p) == s.status \in {"scheduled", "done", "missed"} /\ s.rung = p
Standing(s, p) == s.status \in {"scheduled", "done"} /\ s.rung = p
\* _plan_dockings: the rung owed, unless a slot for it stands.
ToBook(b) == {p \in Owes(b) : \A n \in Day : ~Standing(Settled(b, n), p)}
Booked(b, n) ==
  IF n = today /\ ToBook(b) # {}
    THEN [rung |-> CHOOSE p \in ToBook(b) : TRUE, status |-> "scheduled"]
    ELSE Settled(b, n)

\* A booking of the bus for tonight, whatever became of it, holds the cell.
Clashes == \E b \in Bus : ToBook(b) # {} /\ slot[b][today] # Empty

Generate ==
  /\ ~Clashes
  /\ slot' = [b \in Bus |-> [n \in Day |-> Booked(b, n)]]
  /\ UNCHANGED <<planVars, today, work, ladder, inspected>>
\* The unique key refuses one cell; the whole site's run is rolled back.
GenerateFails ==
  /\ Clashes
  /\ UNCHANGED vars

-----------------------------------------------------------------------------
Open(b) == {n \in Day : slot[b][n].status \in {"scheduled", "missed"}}
Latest(N) == CHOOSE n \in N : \A m \in N : m <= n

\* The rung of the open booking latest on the calendar.
RungAnswered(b) == IF Open(b) = {} THEN NoPlan ELSE slot[b][Latest(Open(b))].rung

\* record_inspection of the docking work type, with a reading or without.
RecordDocking(b, d, k) ==
  /\ Request
  /\ inspected[b][d] = None
  /\ inspected' = [inspected EXCEPT ![b][d] = [rung |-> RungAnswered(b)]]
  /\ slot' = IF Open(b) = {} THEN slot
             ELSE [slot EXCEPT ![b][Latest(Open(b))].status = "done"]
  /\ bus' = IF k # NoKm /\ Accepts(b, k)
              THEN [bus EXCEPT ![b] = Reading(b, k, d)] ELSE bus
  /\ UNCHANGED <<config, today, ladder>>

BookByHand(b, n) ==
  /\ Request
  /\ slot[b][n] = Empty
  /\ slot' = [slot EXCEPT ![b][n] = [rung |-> NoPlan, status |-> "scheduled"]]
  /\ UNCHANGED <<planVars, today, ladder, inspected>>
EditSlot(b, n, status) ==
  /\ Request
  /\ slot[b][n] # Empty
  /\ slot' = [slot EXCEPT ![b][n].status = status]
  /\ UNCHANGED <<planVars, today, ladder, inspected>>
MoveSlot(b, n, m) ==
  /\ Request
  /\ slot[b][n] # Empty /\ slot[b][m] = Empty
  /\ slot' = [slot EXCEPT ![b][m] = slot[b][n], ![b][n] = Empty]
  /\ UNCHANGED <<planVars, today, ladder, inspected>>
DeleteSlot(b, n) ==
  /\ Request
  /\ slot[b][n] # Empty
  /\ slot' = [slot EXCEPT ![b][n] = Empty]
  /\ UNCHANGED <<planVars, today, ladder, inspected>>

\* Replacing the configuration deletes every plan, the rungs with them, and
\* the foreign keys forget which rung a row was about.
Forget(r) == IF r.rung \in Rung THEN [r EXCEPT !.rung = NoPlan] ELSE r
ReplaceConfig(c) ==
  /\ Request
  /\ PutConfig(c)
  /\ ladder' = {}
  /\ slot' = [b \in Bus |-> [n \in Day |->
       IF slot[b][n] = Empty THEN Empty ELSE Forget(slot[b][n])]]
  /\ inspected' = [b \in Bus |-> [d \in Day |->
       IF inspected[b][d] = None THEN None ELSE Forget(inspected[b][d])]]
  /\ UNCHANGED today
\* The ladder is written by a script.
SeedLadder ==
  /\ Request
  /\ ladder' = Rung
  /\ UNCHANGED <<planVars, today, slot, inspected>>

ReadOdometer(b, k) ==
  /\ Request /\ SetOdometer(b, k)
  /\ UNCHANGED <<today, ladder, slot, inspected>>
Service(b, k, d) ==
  /\ Request /\ RecordService(b, k, d)
  /\ UNCHANGED <<today, ladder, slot, inspected>>

NextDay ==
  /\ today < MaxDay
  /\ today' = today + 1
  /\ UNCHANGED <<planVars, work, ladder, slot, inspected>>

Init ==
  /\ PlanInit
  /\ ladder = Rung
  /\ slot = [b \in Bus |-> [n \in Day |-> Empty]]
  /\ inspected = [b \in Bus |-> [d \in Day |-> None]]

Next ==
  \/ Generate
  \/ GenerateFails
  \/ \E b \in Bus :
       \/ \E d \in Day, k \in Km \cup {NoKm} : d <= today /\ RecordDocking(b, d, k)
       \/ \E k \in Km : ReadOdometer(b, k)
       \/ \E k \in Km, d \in Day : d <= today /\ Service(b, k, d)
       \/ \E n \in Day :
            \/ BookByHand(b, n)
            \/ \E s \in {"scheduled", "done", "missed", "cancelled"} : EditSlot(b, n, s)
            \/ \E m \in Day : MoveSlot(b, n, m)
            \/ DeleteSlot(b, n)
  \/ \E c \in Forms : ReplaceConfig(c)
  \/ SeedLadder
  \/ NextDay

Spec == Init /\ [][Next]_vars

-----------------------------------------------------------------------------
DueIsCleared == [][\A b \in Bus : OnlyServiceClears(b)]_vars
DueIsKept    == [][\A b \in Bus : DueStaysDue(b)]_vars

\* A bus is on the floor for a rung only within reach of its mark, however the
\* booking was moved or edited since: the odometer the booking was made from
\* never ran back.
BookedInReach ==
  \A b \in Bus, n \in Day : slot[b][n] # Empty /\ slot[b][n].rung \in Rung =>
    Milestone[slot[b][n].rung] <= bus[b].km + LeadKm

\* "A rung is not owed retrospectively": a run books a bus with no docking on
\* record for no rung it had left behind, and a bus with one for none below it.
NothingOwedFromBefore ==
  [][\A b \in Bus : slot'[b][today] # slot[b][today] /\ today' = today
       /\ slot[b][today] = Empty /\ slot'[b][today].rung \in Rung /\ work' = work =>
         LET p == slot'[b][today].rung
         IN  IF Climbed(b) = {} THEN bus[b].km < Milestone[p] + LeadKm
             ELSE \A q \in Climbed(b) : Milestone[q] < Milestone[p]]_vars

\* A docking that slipped or was called off is booked again by the next run,
\* as long as the bus owes it.
SlippedRungIsRebooked ==
  [][slot' # slot /\ work' = work =>
       \A b \in Bus, p \in Rung : p \in Owes(b) =>
         \E n \in Day : slot'[b][n] \in [rung : {p}, status : {"scheduled", "done"}]]_vars

\* "The next rung above it is owed even if the odometer has run past": after a
\* run the rung a bus owes is on the calendar, still to be done.
OwedRungIsBooked ==
  [][slot' # slot /\ work' = work =>
       \A b \in Bus, p \in Rung : p \in Owes(b) =>
         \E n \in Day : slot'[b][n] = [rung |-> p, status |-> "scheduled"]]_vars

\* "Safe to run repeatedly": the generator always gets through.
GeneratorGetsThrough == ~Clashes
=============================================================================
