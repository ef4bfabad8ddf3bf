---------------------------- MODULE SchedulerProofs ----------------------------
(***************************************************************************)
(* Theorems about Scheduler, for every fleet, cycle, cap and horizon.      *)
(* Types hold whatever overlaps; the guarantees of a run hold when nothing *)
(* else commits while it is open.  Sound(r) is what makes them inductive:  *)
(* what a run read is still true when it writes, and every night filled so *)
(* far already has the property the commit must have.                      *)
(***************************************************************************)
EXTENDS Scheduler, FiniteSetTheorems, WellFoundedInduction, TLAPS

\* A nonempty set of naturals has a smallest element, and SmallestOf is it.
LEMMA SmallestIsMember ==
  ASSUME NEW S \in SUBSET Nat, S # {}
  PROVE  SmallestOf(S) \in S /\ \A m \in S : SmallestOf(S) <= m
<1> DEFINE Below == {0 .. n : n \in S}
<1>1. Below \subseteq FiniteSubsetsOf(Nat) /\ Below # {}
  <2>1. ASSUME NEW n \in S PROVE 0 .. n \subseteq Nat /\ IsFiniteSet(0 .. n)
    BY FS_Interval
  <2> QED BY <2>1 DEF FiniteSubsetsOf
<1>2. PICK I \in Below : \A J \in Below : <<J, I>> \notin StrictSubsetOrdering(Nat)
  BY <1>1, FS_StrictSubsetOrderingWellFounded, WFMin
<1>3. PICK x \in S : I = 0 .. x
  OBVIOUS
<1>4. ASSUME NEW y \in S PROVE x <= y
  <2> SUFFICES ASSUME y < x PROVE FALSE
    OBVIOUS
  <2>1. 0 .. y \subseteq 0 .. x /\ x \in 0 .. x /\ x \notin 0 .. y
    OBVIOUS
  <2>2. 0 .. y \in Below /\ 0 .. y \subseteq Nat /\ 0 .. x \subseteq Nat
    OBVIOUS
  <2>3. <<0 .. y, I>> \in StrictSubsetOrdering(Nat)
    BY <1>3, <2>1, <2>2 DEF StrictSubsetOrdering
  <2> QED BY <1>2, <2>2, <2>3
<1> QED BY <1>4 DEF SmallestOf

\* So does a bounded one have a largest.
LEMMA LargestIsMember ==
  ASSUME NEW S \in SUBSET Nat, S # {}, NEW k \in Nat, \A m \in S : m <= k
  PROVE  LargestOf(S) \in S /\ \A m \in S : LargestOf(S) >= m
<1> DEFINE T == {m \in Nat : \A s \in S : s <= m}
<1>1. T \in SUBSET Nat /\ k \in T
  OBVIOUS
<1>2. PICK x \in T : \A y \in T : x <= y
  BY <1>1, SmallestIsMember
<1>3. x \in S
  <2> SUFFICES ASSUME x \notin S PROVE FALSE
    OBVIOUS
  <2>1. PICK s \in S : TRUE
    OBVIOUS
  <2>2. \A t \in S : t < x
    BY <1>2
  <2>3. x > 0 /\ x - 1 \in T
    BY <1>2, <2>1, <2>2
  <2> QED BY <1>2, <2>3
<1>4. \A m \in S : m <= x
  BY <1>2
<1> QED BY <1>3, <1>4 DEF LargestOf

LEMMA LargerOfTwo ==
  ASSUME NEW a \in Nat, NEW b \in Nat
  PROVE  LargestOf({a, b}) \in {a, b} /\ LargestOf({a, b}) >= a /\ LargestOf({a, b}) >= b
<1>1. {a, b} \in SUBSET Nat /\ {a, b} # {} /\ \A m \in {a, b} : m <= a + b
  OBVIOUS
<1>2. LargestOf({a, b}) \in {a, b} /\ \A m \in {a, b} : LargestOf({a, b}) >= m
  BY <1>1, LargestIsMember, a + b \in Nat
<1> QED BY <1>2

LEMMA CalendarIsNatural ==
  Horizon \in Nat /\ Nights = 0 .. (LastNight + Horizon) /\ LastNight \in Nat
<1> DEFINE span == LargestOf({CycleDays * HorizonCycles, MinHorizonDays})
<1>1. CycleDays * HorizonCycles \in Nat /\ MinHorizonDays \in Nat /\ MaxHorizonDays \in Nat
  BY PlanAssumption
<1>2. span \in Nat
  BY <1>1, LargerOfTwo
<1> HIDE DEF span
<1>3. SmallestOf({span, MaxHorizonDays}) \in {span, MaxHorizonDays}
  BY <1>1, <1>2, SmallestIsMember
<1> QED BY <1>1, <1>2, <1>3, PlanAssumption DEF Horizon, Nights, span

-----------------------------------------------------------------------------
\* A bus's inspections, nights held and nights an inspection may answer are
\* nights of the calendar, and so is the last of each.
LEMMA LastNightOf ==
  ASSUME NEW S \in SUBSET Nights, S # {}
  PROVE  LargestOf(S) \in S /\ LargestOf(S) \in Nat /\ \A m \in S : LargestOf(S) >= m
<1>1. S \in SUBSET Nat /\ LastNight + Horizon \in Nat /\ \A m \in S : m <= LastNight + Horizon
  BY CalendarIsNatural
<1> QED BY <1>1, LargestIsMember

LEMMA FirstDueType ==
  ASSUME TypeOK, NEW r \in Runs, NEW b \in Buses
  PROVE  FirstDue(r, b) \in Nat
<1>1. today \in Nat /\ CycleDays \in Nat
  BY PlanAssumption, CalendarIsNatural DEF TypeOK
<1>2. HeldNights(r, b) # {} => LargestOf(HeldNights(r, b)) + CycleDays \in Nat
  <2>1. HeldNights(r, b) \in SUBSET Nights
    BY DEF HeldNights
  <2> QED BY <1>1, <2>1, LastNightOf
<1>3. inspected[b] # {} => LargestOf({LastDone(b) + CycleDays, today}) \in Nat
  <2>1. inspected[b] \in SUBSET Nights
    BY DEF TypeOK
  <2>2. inspected[b] # {} => LastDone(b) + CycleDays \in Nat
    BY <1>1, <2>1, LastNightOf DEF LastDone
  <2> QED BY <1>1, <2>2, LargerOfTwo
<1> QED BY <1>1, <1>2, <1>3 DEF FirstDue

LEMMA DischargedTypes ==
  ASSUME TypeOK
  PROVE  {<<c, SmallestOf(Discharging(c[1], c[2]))>> : c \in Discharged} \in SUBSET (Cells \X Nights)
<1> SUFFICES ASSUME NEW c \in Discharged
             PROVE  <<c, SmallestOf(Discharging(c[1], c[2]))>> \in Cells \X Nights
  OBVIOUS
<1>1. c \in Cells /\ Discharging(c[1], c[2]) # {}
  BY DEF Discharged
<1>2. Discharging(c[1], c[2]) \in SUBSET Nights /\ Nights \subseteq Nat
  BY <1>1, CalendarIsNatural DEF Discharging, TypeOK, Cells
<1>3. SmallestOf(Discharging(c[1], c[2])) \in Nights
  BY <1>1, <1>2, SmallestIsMember
<1> QED BY <1>1, <1>3

\* What a commit writes in a cell is a row or nothing.
LEMMA RowAfterType ==
  ASSUME TypeOK, NEW r \in Runs, NEW b \in Buses, NEW n \in Nights
  PROVE  RowAfter(r, b, n) \in SlotRows \cup {Nil}
<1>1. today \in Nights
  BY CalendarIsNatural DEF TypeOK
<1>2. CASE <<b, n>> \in r.booked
  BY <1>2 DEF RowAfter, Fresh, SlotRows, SlotStatus, AlertStatus
<1>3. CASE <<b, n>> \notin r.booked /\ ~Booked(b, n)
  BY <1>3 DEF RowAfter
<1>4. CASE <<b, n>> \notin r.booked /\ Booked(b, n)
  <2>1. slot[b][n] \in SlotRows
    BY <1>4 DEF TypeOK, Booked
  <2>2. StatusIn(r, b, n) \in SlotStatus /\ AlertAfter(r, b, n) \in AlertStatus
    BY <2>1 DEF SlotRows, StatusIn, AlertAfter, SlotStatus, AlertStatus
  <2>3. ASSUME \E d \in Nights : <<<<b, n>>, d>> \in r.done
        PROVE  (CHOOSE d \in Nights : <<<<b, n>>, d>> \in r.done) \in Nights
    BY <2>3
  <2> QED BY <1>1, <1>4, <2>1, <2>2, <2>3 DEF RowAfter, SlotRows
<1> QED BY <1>2, <1>3, <1>4

-----------------------------------------------------------------------------
LEMMA BlankRecords ==
  /\ Idle \in Runs
  /\ Fresh("scheduled") \in SlotRows
BY DEF Idle, Runs, Fresh, SlotRows, SlotStatus, AlertStatus

LEMMA TypeInit == Init => TypeOK
<1> SUFFICES ASSUME Init PROVE TypeOK
  OBVIOUS
<1>1. today \in 0 .. LastNight /\ edits \in 0 .. MaxEdits
  BY CalendarIsNatural, PlanAssumption DEF Init
<1>2. inspected \in [Buses -> SUBSET Nights] /\ notified \subseteq Nights /\ active \subseteq Buses
  BY DEF Init
<1>3. slot \in [Buses -> [Nights -> SlotRows \cup {Nil}]]
  BY DEF Init
<1>4. run \in [Planners -> Runs] /\ settled \in BOOLEAN
  BY BlankRecords DEF Init
<1> QED BY <1>1, <1>2, <1>3, <1>4 DEF TypeOK

\* A night's bookings leave a run's record well typed.
LEMMA PlannedType ==
  ASSUME NEW r \in Runs, NEW new \in SUBSET Buses, NEW n \in Nights
  PROVE  [r EXCEPT !.booked = @ \cup (new \X {n}),
                   !.due = [b \in Buses |-> IF b \in new THEN n + CycleDays ELSE @[b]],
                   !.never = @ \ new, !.urgent = @ \ new, !.night = n + 1] \in Runs
<1> DEFINE due == [b \in Buses |-> IF b \in new THEN n + CycleDays ELSE r.due[b]]
<1>1. n \in Nat /\ n + 1 \in Nat /\ n + CycleDays \in Nat
  BY CalendarIsNatural, PlanAssumption
<1>2. r.due \in [Buses -> Nat] /\ r.booked \in SUBSET Cells
      /\ r.never \in SUBSET Buses /\ r.urgent \in SUBSET Buses
  BY DEF Runs
<1>3. due \in [Buses -> Nat]
  BY <1>1, <1>2
<1>4. r.booked \cup (new \X {n}) \in SUBSET Cells
  BY <1>2 DEF Cells
<1> HIDE DEF due
<1>5. [r EXCEPT !.booked = r.booked \cup (new \X {n}), !.due = due,
                !.never = r.never \ new, !.urgent = r.urgent \ new, !.night = n + 1] \in Runs
  BY <1>1, <1>2, <1>3, <1>4 DEF Runs
<1> QED BY <1>5 DEF due

\* One step per action; a step of a run replaces that run's record.
LEMMA TypeStep == TypeOK /\ [Next]_vars => TypeOK'
<1> SUFFICES ASSUME TypeOK, [Next]_vars PROVE TypeOK'
  OBVIOUS
<1> USE BlankRecords, CalendarIsNatural
<1> DEFINE others == <<today, active, inspected, slot, settled, edits, notified>>
<1>0. ASSUME NEW p \in Planners, NEW r \in Runs, run' = [run EXCEPT ![p] = r], UNCHANGED others
      PROVE  TypeOK'
  BY <1>0 DEF TypeOK
<1>00. edits < MaxEdits => edits + 1 \in 0 .. MaxEdits
  BY PlanAssumption DEF TypeOK
<1>1. ASSUME NEW p \in Planners, BeginRun(p) PROVE TypeOK'
  <2> DEFINE done == {<<c, SmallestOf(Discharging(c[1], c[2]))>> : c \in Discharged}
  <2>1. done \in SUBSET (Cells \X Nights)
    BY DischargedTypes
  <2> HIDE DEF done
  <2>2. [Idle EXCEPT !.stage = "discharged", !.again = settled, !.fleet = active,
                     !.done = done] \in Runs
    BY <2>1 DEF Runs, TypeOK
  <2> QED BY <1>0, <1>1, <2>2 DEF BeginRun, done
<1>2. ASSUME NEW p \in Planners, SelectMissed(p) PROVE TypeOK'
  <2>1. run[p] \in Runs
    BY DEF TypeOK
  <2>2. [run[p] EXCEPT !.stage = "selected", !.missed = PastDue] \in Runs
    BY <2>1 DEF Runs, PastDue
  <2>3. run' = [run EXCEPT ![p] = [run[p] EXCEPT !.stage = "selected", !.missed = PastDue]]
    BY <1>2 DEF SelectMissed, TypeOK
  <2> QED BY <1>0, <1>2, <2>2, <2>3 DEF SelectMissed
<1>3. ASSUME NEW p \in Planners, OpenRotation(p) PROVE TypeOK'
  <2>1. run[p] \in Runs /\ today \in Nat
    BY DEF TypeOK
  <2> DEFINE due == [b \in Buses |-> FirstDue(run[p], b)]
             never == {b \in active : NeverDone(run[p], b)}
  <2>2. due \in [Buses -> Nat]
    BY <2>1, FirstDueType
  <2>3. never \in SUBSET Buses /\ Slipped(run[p]) \in SUBSET Buses
    BY <2>1 DEF TypeOK, Slipped, Runs, Cells
  <2> HIDE DEF due, never
  <2>4. [run[p] EXCEPT !.stage = "planning", !.urgent = Slipped(run[p]), !.night = today,
                       !.never = never, !.due = due] \in Runs
    BY <2>1, <2>2, <2>3 DEF Runs
  <2> QED BY <1>0, <1>3, <2>4 DEF OpenRotation, due, never
<1>4. ASSUME NEW p \in Planners, PlanNight(p) PROVE TypeOK'
  <2> DEFINE r == run[p]
             n == r.night
             new == NewlyBooked(r, n)
  <2>1. r \in Runs /\ n <= HorizonEnd
    BY <1>4 DEF TypeOK, PlanNight
  <2>2. n \in Nights /\ r.fleet \subseteq Buses
    BY <2>1 DEF Runs, HorizonEnd, TypeOK
  <2>3. new \in SUBSET Buses
    BY <2>2 DEF NewlyBooked, Chosen, Ready
  <2>4. [r EXCEPT !.booked = @ \cup (new \X {n}),
                  !.due = [b \in Buses |-> IF b \in new THEN n + CycleDays ELSE @[b]],
                  !.never = @ \ new, !.urgent = @ \ new, !.night = n + 1] \in Runs
    <3> HIDE DEF r, n, new
    <3> QED BY <2>1, <2>2, <2>3, PlannedType
  <2> QED BY <1>0, <1>4, <2>4 DEF PlanNight
<1>5. ASSUME NEW p \in Planners, CommitRun(p) PROVE TypeOK'
  <2>1. run[p] \in Runs
    BY DEF TypeOK
  <2>2. slot' \in [Buses -> [Nights -> SlotRows \cup {Nil}]]
    BY <1>5, <2>1, RowAfterType DEF CommitRun
  <2>3. run' \in [Planners -> Runs]
    BY <1>5 DEF CommitRun, TypeOK, Runs
  <2> QED BY <1>5, <2>2, <2>3, PlanAssumption DEF CommitRun, TypeOK
<1>6. ASSUME NEW p \in Planners, FailRun(p) PROVE TypeOK'
  BY <1>0, <1>6 DEF FailRun
<1>7. ASSUME NEW p \in Planners, Notify(p) PROVE TypeOK'
  BY <1>7 DEF Notify, TypeOK
<1>8. ASSUME NEW b \in Buses, NEW d \in Nights, RecordInspection(b, d) PROVE TypeOK'
  <2>1. inspected' \in [Buses -> SUBSET Nights]
    BY <1>8 DEF RecordInspection, TypeOK
  <2>2. slot' \in [Buses -> [Nights -> SlotRows \cup {Nil}]]
    <3>1. CASE Answerable(b) = {}
      BY <1>8, <3>1 DEF RecordInspection, TypeOK
    <3>2. CASE Answerable(b) # {}
      <4> DEFINE n == Answered(b)
      <4>1. n \in Answerable(b)
        BY <3>2, LastNightOf DEF Answered, Answerable
      <4> HIDE DEF n
      <4>2. n \in Nights /\ slot[b][n] \in SlotRows
        BY <4>1 DEF Answerable, Has, Booked, TypeOK
      <4>3. [slot[b][n] EXCEPT !.status = "done", !.completedOn = d] \in SlotRows
        BY <4>2 DEF SlotRows, SlotStatus
      <4>4. slot' = [slot EXCEPT ![b][n] = [slot[b][n] EXCEPT !.status = "done", !.completedOn = d]]
        BY <1>8, <3>2, <4>2 DEF RecordInspection, TypeOK, n
      <4> QED BY <4>2, <4>3, <4>4 DEF TypeOK
    <3> QED BY <3>1, <3>2
  <2> QED BY <1>8, <2>1, <2>2 DEF RecordInspection, TypeOK
<1>9. ASSUME NEW b \in Buses, NEW d \in Nights, ImportInspection(b, d) PROVE TypeOK'
  BY <1>9 DEF ImportInspection, TypeOK
<1>10. ASSUME NEW b \in Buses, NEW n \in Nights, CreateSlot(b, n) PROVE TypeOK'
  <2>1. slot' \in [Buses -> [Nights -> SlotRows \cup {Nil}]]
    BY <1>10 DEF CreateSlot, TypeOK
  <2> QED BY <1>00, <1>10, <2>1 DEF CreateSlot, TypeOK
<1>11. ASSUME NEW b \in Buses, NEW n \in Nights, DeleteSlot(b, n) PROVE TypeOK'
  <2>1. slot' \in [Buses -> [Nights -> SlotRows \cup {Nil}]]
    BY <1>11 DEF DeleteSlot, TypeOK
  <2> QED BY <1>00, <1>11, <2>1 DEF DeleteSlot, TypeOK
<1>12. ASSUME NEW b \in Buses, NEW n \in Nights, Acknowledge(b, n) PROVE TypeOK'
  <2>1. slot[b][n] \in SlotRows
    BY <1>12 DEF Acknowledge, Booked, TypeOK
  <2>2. [slot[b][n] EXCEPT !.alert = "acknowledged"] \in SlotRows
    BY <2>1 DEF SlotRows, AlertStatus
  <2> QED BY <1>12, <2>2 DEF Acknowledge, TypeOK
<1>13. ASSUME NEW b \in Buses, NEW n \in Nights, NEW to \in Nights, NEW s \in SlotStatus,
              UpdateSlot(b, n, to, s)
       PROVE  TypeOK'
  <2>1. slot[b][n] \in SlotRows
    BY <1>13 DEF UpdateSlot, Booked, TypeOK
  <2>2. [slot[b][n] EXCEPT !.status = s] \in SlotRows
    BY <2>1 DEF SlotRows
  <2>3. slot' \in [Buses -> [Nights -> SlotRows \cup {Nil}]]
    BY <1>13, <2>2 DEF UpdateSlot, TypeOK
  <2> QED BY <1>00, <1>13, <2>3 DEF UpdateSlot, TypeOK
<1>14. ASSUME NEW b \in Buses, Retire(b) \/ Reactivate(b) PROVE TypeOK'
  BY <1>00, <1>14 DEF Retire, Reactivate, TypeOK
<1>15. CASE Midnight
  <2>1. today' \in 0 .. LastNight
    BY <1>15, CalendarIsNatural DEF Midnight, TypeOK
  <2> QED BY <1>15, <2>1 DEF Midnight, TypeOK
<1>16. CASE UNCHANGED vars
  BY <1>16 DEF vars, TypeOK
<1> QED BY <1>1, <1>2, <1>3, <1>4, <1>5, <1>6, <1>7, <1>8, <1>9, <1>10, <1>11, <1>12,
           <1>13, <1>14, <1>15, <1>16 DEF Next, Continue

\* Every reachable state is well typed, whatever overlaps.
THEOREM SchedulerTypeCorrect == Spec => []TypeOK
BY TypeInit, TypeStep, PTL DEF Spec

-----------------------------------------------------------------------------
\* What a run in flight may rely on when nothing else commits meanwhile: what
\* it discharged and missed is still as it read it,
ReadsCalendar(r) ==
  /\ r.stage \in {"discharged", "selected", "planning"} =>
       \A c \in Cells, d \in Nights : <<c, d>> \in r.done => Has(c[1], c[2], {"scheduled"})
  /\ r.stage \in {"selected", "planning"} => r.missed = PastDue

\* its bookings lie between tonight and the night it fills next,
BooksAhead(r) ==
  /\ r.stage \in {"discharged", "selected"} => r.booked = {}
  /\ r.stage = "planning" =>
       /\ today <= r.night
       /\ \A b \in Buses, n \in Nights : <<b, n>> \in r.booked => today <= n /\ n < r.night

\* no night it booked a bus for is over the cap,
CapKept(r) ==
  r.stage = "planning" =>
    \A n \in Nights : (\E b \in Buses : <<b, n>> \in r.booked) => Taken(r, n) <= PerDay(r.fleet)

\* tonight's list is filled with the buses that slipped first,
SlippedLead(r) ==
  r.stage = "planning" =>
    /\ r.night = today => r.urgent = Slipped(r) /\ \A u \in Slipped(r) : r.due[u] = today
    /\ \A u \in Slipped(r) \cap r.fleet :
         ~Spoken(r, u, today) => \A b \in Buses : <<b, today>> \in r.booked => b \in Slipped(r)

\* and the nights a bus has, done, held or newly booked, precede its next turn
\* by a cycle.
NewNights(r, b) == {n \in Nights : <<b, n>> \in r.booked}
Spaced(r) ==
  r.stage = "planning" =>
    \A b \in Buses \ Slipped(r) :
      /\ \A d \in inspected[b] \cup HeldNights(r, b) \cup NewNights(r, b) : r.due[b] >= d + CycleDays
      /\ \A n \in NewNights(r, b) : \A d \in inspected[b] \cup HeldNights(r, b) : n >= d + CycleDays
      /\ \A n, m \in NewNights(r, b) : m < n => n >= m + CycleDays

Sound(r) == ReadsCalendar(r) /\ BooksAhead(r) /\ CapKept(r) /\ SlippedLead(r) /\ Spaced(r)

InspectedInThePast == \A b \in Buses : \A d \in inspected[b] : d <= today

LEMMA ClosedRunIsSound ==
  ASSUME NEW r, r.stage \in {"idle", "notifying"}
  PROVE  Sound(r)
BY DEF Sound, ReadsCalendar, BooksAhead, CapKept, SlippedLead, Spaced

LEMMA BeginIsSound ==
  ASSUME TypeOK
  PROVE  Sound([Idle EXCEPT
            !.stage = "discharged", !.again = settled, !.fleet = active,
            !.done = {<<c, SmallestOf(Discharging(c[1], c[2]))>> : c \in Discharged}])
<1> DEFINE done == {<<c, SmallestOf(Discharging(c[1], c[2]))>> : c \in Discharged}
           r == [Idle EXCEPT !.stage = "discharged", !.again = settled, !.fleet = active,
                             !.done = done]
<1>1. \A c \in Cells, d \in Nights : <<c, d>> \in done => Has(c[1], c[2], {"scheduled"})
  BY DEF Discharged
<1> HIDE DEF done
<1>2. r.stage = "discharged" /\ r.booked = {} /\ r.done = done
  BY DEF Idle
<1> HIDE DEF r
<1>3. Sound(r)
  BY <1>1, <1>2 DEF Sound, ReadsCalendar, BooksAhead, CapKept, SlippedLead, Spaced
<1> QED BY <1>3 DEF r, done

LEMMA SelectIsSound ==
  ASSUME NEW r \in Runs, Sound(r), r.stage = "discharged"
  PROVE  Sound([r EXCEPT !.stage = "selected", !.missed = PastDue])
<1> DEFINE s == [r EXCEPT !.stage = "selected", !.missed = PastDue]
<1>1. s.stage = "selected" /\ s.missed = PastDue /\ s.done = r.done /\ s.booked = r.booked
  BY DEF Runs
<1> HIDE DEF s
<1>2. Sound(s)
  BY <1>1 DEF Sound, ReadsCalendar, BooksAhead, CapKept, SlippedLead, Spaced
<1> QED BY <1>2 DEF s

\* A bus that did not slip comes up a cycle after its inspections and bookings.
LEMMA FirstDueIsACycleOn ==
  ASSUME TypeOK, InspectedInThePast, NEW r \in Runs, NEW b \in Buses, b \notin Slipped(r),
         NEW d \in inspected[b] \cup HeldNights(r, b)
  PROVE  FirstDue(r, b) >= d + CycleDays
<1>1. today \in Nat /\ CycleDays \in Nat /\ Nights \subseteq Nat
  BY CalendarIsNatural, PlanAssumption DEF TypeOK
<1>2. inspected[b] \in SUBSET Nights /\ HeldNights(r, b) \in SUBSET Nights
  BY DEF TypeOK, HeldNights
<1>3. CASE HeldNights(r, b) # {}
  <2> DEFINE last == LargestOf(HeldNights(r, b))
  <2>1. last \in HeldNights(r, b) /\ \A m \in HeldNights(r, b) : last >= m
    BY <1>2, <1>3, LastNightOf
  <2>2. FirstDue(r, b) = last + CycleDays
    BY <1>3 DEF FirstDue
  <2> HIDE DEF last
  <2>3. last \in Nat /\ last >= today /\ d \in Nat
    BY <1>1, <1>2, <2>1 DEF HeldNights
  <2>4. d \in inspected[b] => d <= today
    BY DEF InspectedInThePast
  <2>5. last >= d
    BY <1>1, <2>1, <2>3, <2>4
  <2> QED BY <1>1, <2>2, <2>3, <2>5
<1>4. CASE HeldNights(r, b) = {}
  <2>1. inspected[b] # {} /\ d \in inspected[b]
    BY <1>4
  <2>2. LastDone(b) \in Nat /\ LastDone(b) >= d
    BY <1>2, <2>1, LastNightOf DEF LastDone
  <2>3. FirstDue(r, b) = LargestOf({LastDone(b) + CycleDays, today})
    BY <1>4, <2>1 DEF FirstDue
  <2>4. LastDone(b) + CycleDays \in Nat
    BY <1>1, <2>2
  <2>5. FirstDue(r, b) >= LastDone(b) + CycleDays
    BY <1>1, <2>3, <2>4, LargerOfTwo
  <2>6. FirstDue(r, b) \in Nat /\ d \in Nat
    BY <1>1, <1>2, <2>1, FirstDueType
  <2> HIDE DEF LastDone
  <2> QED BY <1>1, <2>2, <2>5, <2>6
<1> QED BY <1>3, <1>4

LEMMA OpenIsSound ==
  ASSUME TypeOK, InspectedInThePast, NEW r \in Runs, Sound(r), r.stage = "selected"
  PROVE  Sound([r EXCEPT
            !.stage = "planning", !.urgent = Slipped(r), !.night = today,
            !.never = {b \in active : NeverDone(r, b)},
            !.due = [b \in Buses |-> FirstDue(r, b)]])
<1> DEFINE s == [r EXCEPT
            !.stage = "planning", !.urgent = Slipped(r), !.night = today,
            !.never = {b \in active : NeverDone(r, b)},
            !.due = [b \in Buses |-> FirstDue(r, b)]]
<1>1. /\ s.stage = "planning" /\ s.urgent = Slipped(r) /\ s.night = today
      /\ s.due = [b \in Buses |-> FirstDue(r, b)]
      /\ s.missed = r.missed /\ s.done = r.done /\ s.booked = r.booked
  BY DEF Runs
<1>2. today \in Nat /\ Slipped(r) \subseteq Buses
  BY CalendarIsNatural DEF TypeOK, Slipped, Runs, Cells
<1> HIDE DEF s
<1>3. s.booked = {} /\ Slipped(s) = Slipped(r)
  BY <1>1 DEF Sound, BooksAhead, Slipped
<1>4. \A b \in Buses : HeldNights(s, b) = HeldNights(r, b) /\ NewNights(s, b) = {}
  BY <1>1, <1>3 DEF HeldNights, Holds, StatusIn, NewNights
<1>5. ReadsCalendar(s)
  BY <1>1 DEF Sound, ReadsCalendar
<1>6. BooksAhead(s) /\ CapKept(s)
  BY <1>1, <1>2, <1>3 DEF BooksAhead, CapKept
<1>7. SlippedLead(s)
  <2>1. \A u \in Slipped(r) : FirstDue(r, u) = today
    BY DEF FirstDue
  <2> QED BY <1>1, <1>2, <1>3, <2>1 DEF SlippedLead
<1>8. Spaced(s)
  BY <1>1, <1>3, <1>4, FirstDueIsACycleOn DEF Spaced
<1> QED BY <1>5, <1>6, <1>7, <1>8 DEF Sound, s

-----------------------------------------------------------------------------
\* The queue is a strict total order of the buses.
LEMMA QueueIsOrdered ==
  ASSUME NEW r \in Runs, NEW a \in Buses, NEW b \in Buses
  PROVE  /\ ~Before(r, a, a)
         /\ a # b => Before(r, a, b) \/ Before(r, b, a)
         /\ \A c \in Buses : Before(r, c, a) /\ Before(r, a, b) => Before(r, c, b)
<1>1. \A x \in Buses : Class(r, x) \in Nat /\ r.due[x] \in Nat /\ x \in Nat
  BY BusesAssumption DEF Class, Runs
<1> QED BY <1>1 DEF Before

LEMMA CountsAreNatural ==
  ASSUME NEW r \in Runs, NEW n \in Nights
  PROVE  Taken(r, n) \in Nat /\ PerDay(r.fleet) \in Nat
<1>1. \A S \in SUBSET Buses : IsFiniteSet(S) /\ Cardinality(S) \in Nat
  BY BusesAssumption, FS_Subset, FS_CardinalityType
<1>2. Cardinality(r.fleet) \in Nat
  BY <1>1 DEF Runs
<1>3. LargestOf({Cardinality(r.fleet), 1}) \in Nat
  BY <1>2, LargerOfTwo
<1> QED BY <1>1, <1>3, PlanAssumption DEF Taken, PerDay

\* No more buses are taken from the queue than there is room for: a bus's
\* place in the queue numbers the ones taken.
LEMMA ChosenFitTheRoom ==
  ASSUME NEW r \in Runs, NEW n \in Nights, Chosen(r, n) # {}
  PROVE  Cardinality(Chosen(r, n)) <= PerDay(r.fleet) - Taken(r, n)
<1> DEFINE ready == Ready(r, n)
           ahead(b) == {a \in ready : Before(r, a, b)}
           place == [b \in Chosen(r, n) |-> Cardinality(ahead(b))]
           room == PerDay(r.fleet) - Taken(r, n)
<1>1. ready \subseteq Buses /\ Chosen(r, n) \subseteq ready
  BY DEF Ready, Runs, Chosen
<1>2. \A S \in SUBSET ready : IsFiniteSet(S) /\ Cardinality(S) \in Nat
  BY <1>1, BusesAssumption, FS_Subset, FS_CardinalityType
<1>3. room \in Int /\ \A b \in Chosen(r, n) : Cardinality(ahead(b)) \in 0 .. (room - 1)
  <2>1. room \in Int
    BY CountsAreNatural
  <2>2. ASSUME NEW b \in Chosen(r, n) PROVE Cardinality(ahead(b)) \in Nat /\ Cardinality(ahead(b)) < room
    BY <1>2 DEF Chosen
  <2> HIDE DEF room, ahead
  <2> QED BY <2>1, <2>2
<1>4. ASSUME NEW b \in Chosen(r, n), NEW c \in Chosen(r, n), Before(r, b, c)
      PROVE  Cardinality(ahead(b)) # Cardinality(ahead(c))
  <2>1. b \in Buses /\ c \in Buses /\ b \in ready
    BY <1>1
  <2>2. ahead(b) \in SUBSET ahead(c)
    BY <1>1, <1>4, <2>1, QueueIsOrdered
  <2>3. b \in ahead(c) /\ b \notin ahead(b)
    BY <1>4, <2>1, QueueIsOrdered
  <2>4. IsFiniteSet(ahead(c))
    BY <1>2
  <2> HIDE DEF ahead
  <2> QED BY <2>2, <2>3, <2>4, FS_Subset
<1>5. ASSUME NEW b \in Chosen(r, n), NEW c \in Chosen(r, n), b # c
      PROVE  place[b] # place[c]
  <2>1. Before(r, b, c) \/ Before(r, c, b)
    BY <1>1, <1>5, QueueIsOrdered
  <2> QED BY <1>4, <2>1
<1>6. place \in Injection(Chosen(r, n), 0 .. (room - 1))
  <2>1. place \in [Chosen(r, n) -> 0 .. (room - 1)]
    BY <1>3
  <2> HIDE DEF place, room
  <2> QED BY <1>5, <2>1 DEF Injection, IsInjective
<1>7. IsFiniteSet(0 .. (room - 1)) /\ Cardinality(0 .. (room - 1)) = (IF 0 > room - 1 THEN 0 ELSE room)
  <2> HIDE DEF room
  <2>1. room - 1 \in Int /\ 0 \in Int /\ room - 1 - 0 + 1 = room
    BY <1>3
  <2> QED BY <2>1, FS_Interval
<1>8. 0 <= room - 1
  <2>1. PICK b \in Chosen(r, n) : TRUE
    OBVIOUS
  <2>2. Cardinality(ahead(b)) \in 0 .. (room - 1)
    BY <1>3
  <2> HIDE DEF room, ahead
  <2> QED BY <1>3, <2>2
<1>9. Cardinality(Chosen(r, n)) <= Cardinality(0 .. (room - 1))
  <2> HIDE DEF room, place
  <2> QED BY <1>6, <1>7, FS_Injection
<1> HIDE DEF room
<1>10. Cardinality(Chosen(r, n)) <= room
  BY <1>3, <1>7, <1>8, <1>9
<1> QED BY <1>10 DEF room

-----------------------------------------------------------------------------
\* A slipped bus that is ready and left out tonight was behind only slipped ones.
LEMMA SlippedGoFirst ==
  ASSUME NEW r \in Runs, NEW n \in Nights, r.urgent = Slipped(r),
         NEW u \in Slipped(r) \cap r.fleet, r.due[u] <= n,
         u \notin Chosen(r, n), NEW b \in Chosen(r, n)
  PROVE  b \in Slipped(r)
<1> SUFFICES ASSUME b \notin Slipped(r) PROVE FALSE
  OBVIOUS
<1> DEFINE ready == Ready(r, n)
           ahead(x) == {a \in ready : Before(r, a, x)}
           room == PerDay(r.fleet) - Taken(r, n)
<1>1. u \in ready /\ b \in ready /\ ready \in SUBSET Buses
  BY DEF Ready, Chosen, Runs
<1>2. \A S \in SUBSET ready : IsFiniteSet(S) /\ Cardinality(S) \in Nat
  BY <1>1, BusesAssumption, FS_Subset, FS_CardinalityType
<1>3. Before(r, u, b)
  BY DEF Before, Class
<1>4. ahead(u) \in SUBSET ahead(b)
  BY <1>1, <1>3, QueueIsOrdered
<1>5. Cardinality(ahead(u)) <= Cardinality(ahead(b))
  BY <1>2, <1>4, FS_Subset
<1>6. Cardinality(ahead(b)) < room /\ ~(Cardinality(ahead(u)) < room)
  BY <1>1 DEF Chosen
<1>7. Cardinality(ahead(u)) \in Nat /\ Cardinality(ahead(b)) \in Nat /\ room \in Int
  BY <1>2, CountsAreNatural
<1> HIDE DEF ahead, room
<1> QED BY <1>5, <1>6, <1>7

LEMMA PlanIsSound ==
  ASSUME TypeOK, InspectedInThePast, NEW r \in Runs, Sound(r),
         r.stage = "planning", r.night <= HorizonEnd,
         NEW new, new = NewlyBooked(r, r.night)
  PROVE  Sound([r EXCEPT
            !.booked = @ \cup (new \X {r.night}),
            !.due = [b \in Buses |-> IF b \in new THEN r.night + CycleDays ELSE @[b]],
            !.never = @ \ new, !.urgent = @ \ new, !.night = r.night + 1])
<1> DEFINE n == r.night
           s == [r EXCEPT
            !.booked = @ \cup (new \X {r.night}),
            !.due = [b \in Buses |-> IF b \in new THEN r.night + CycleDays ELSE @[b]],
            !.never = @ \ new, !.urgent = @ \ new, !.night = r.night + 1]
<1>1. /\ s.stage = "planning" /\ s.missed = r.missed /\ s.done = r.done /\ s.fleet = r.fleet
      /\ s.booked = r.booked \cup (new \X {n}) /\ s.night = n + 1
      /\ s.due = [b \in Buses |-> IF b \in new THEN n + CycleDays ELSE r.due[b]]
  BY DEF Runs
<1>2. n \in Nights /\ n \in Nat /\ today \in Nat /\ Nights \subseteq Nat /\ CycleDays \in Nat /\ today <= n
  BY CalendarIsNatural, PlanAssumption DEF Runs, HorizonEnd, TypeOK, Sound, BooksAhead
<1>3. new \subseteq Chosen(r, n) /\ Chosen(r, n) \subseteq Buses
      /\ \A b \in new : r.due[b] <= n /\ ~Spoken(r, b, n)
  BY DEF NewlyBooked, Chosen, Ready, Runs
<1>4. r.due \in [Buses -> Nat] /\ r.booked \subseteq Cells /\ r.fleet \subseteq Buses
  BY DEF Runs
<1> HIDE DEF s, n
<1>5. Slipped(s) = Slipped(r) /\ \A b \in Buses : HeldNights(s, b) = HeldNights(r, b)
  BY <1>1 DEF Slipped, HeldNights, Holds, StatusIn
<1>6. \A b \in Buses, m \in Nights :
        <<b, m>> \in s.booked <=> <<b, m>> \in r.booked \/ (b \in new /\ m = n)
  BY <1>1
<1>7. ReadsCalendar(s)
  BY <1>1 DEF Sound, ReadsCalendar
<1>8. BooksAhead(s)
  BY <1>1, <1>2, <1>6 DEF Sound, BooksAhead, n
<1>9. CapKept(s)
  <2> SUFFICES ASSUME NEW m \in Nights, NEW x \in Buses, <<x, m>> \in s.booked
               PROVE  Taken(s, m) <= PerDay(s.fleet)
    BY DEF CapKept
  <2> DEFINE standing(q) == {b \in Buses :
                 Holds(q, b, m, {"scheduled", "done"}) \/ <<b, m>> \in q.booked}
  <2>1. PerDay(s.fleet) = PerDay(r.fleet)
    BY <1>1
  <2>2. \A b \in Buses : Holds(s, b, m, {"scheduled", "done"}) <=> Holds(r, b, m, {"scheduled", "done"})
    BY <1>1 DEF Holds, StatusIn
  <2>3. CASE m # n \/ new = {}
    <3>1. standing(s) = standing(r) /\ <<x, m>> \in r.booked
      BY <1>6, <2>2, <2>3
    <3>2. Taken(r, m) <= PerDay(r.fleet)
      BY <3>1 DEF Sound, CapKept
    <3> QED BY <2>1, <3>1, <3>2 DEF Taken
  <2>4. CASE m = n /\ new # {}
    <3>1. standing(s) = standing(r) \cup new
      BY <1>3, <1>6, <2>2, <2>4
    <3>2. \A S \in SUBSET Buses : IsFiniteSet(S) /\ Cardinality(S) \in Nat
      BY BusesAssumption, FS_Subset, FS_CardinalityType
    <3>3. Cardinality(new) <= Cardinality(Chosen(r, n))
      BY <1>3, <3>2, FS_Subset
    <3>4. Cardinality(Chosen(r, n)) <= PerDay(r.fleet) - Taken(r, n)
      BY <1>2, <1>3, <2>4, ChosenFitTheRoom
    <3>5. standing(r) \in SUBSET Buses /\ new \in SUBSET Buses /\ Chosen(r, n) \in SUBSET Buses
      BY <1>3
    <3>6. Taken(r, n) = Cardinality(standing(r)) /\ Taken(s, m) = Cardinality(standing(r) \cup new)
      BY <2>4, <3>1 DEF Taken
    <3>7. Taken(r, n) \in Nat /\ PerDay(r.fleet) \in Nat
      BY <1>2, CountsAreNatural
    <3> HIDE DEF standing
    <3>8. /\ Cardinality(standing(r) \cup new) =
                Cardinality(standing(r)) + Cardinality(new) - Cardinality(standing(r) \cap new)
          /\ Cardinality(standing(r) \cap new) \in Nat
      BY <3>2, <3>5, FS_Union
    <3> QED BY <2>1, <3>2, <3>3, <3>4, <3>5, <3>6, <3>7, <3>8
  <2> QED BY <2>3, <2>4
<1>10. SlippedLead(s)
  <2>1. s.night # today
    BY <1>1, <1>2
  <2>2. ASSUME NEW u \in Slipped(s) \cap s.fleet, ~Spoken(s, u, today),
               NEW b \in Buses, <<b, today>> \in s.booked
        PROVE  b \in Slipped(s)
    <3>1. today \in Nights /\ u \in Slipped(r) \cap r.fleet /\ u \in Buses
      BY <1>1, <1>4, <1>5, CalendarIsNatural DEF TypeOK
    <3>2. ~Spoken(r, u, today) /\ (today = n => u \notin new)
      BY <1>6, <2>2, <3>1 DEF Spoken
    <3>3. CASE <<b, today>> \in r.booked
      BY <1>5, <3>1, <3>2, <3>3 DEF Sound, SlippedLead
    <3>4. CASE b \in new /\ today = n
      <4>1. r.urgent = Slipped(r) /\ r.due[u] = today
        BY <3>1, <3>4 DEF Sound, SlippedLead, n
      <4>2. u \notin Chosen(r, n)
        BY <3>2, <3>4 DEF NewlyBooked, n
      <4> QED BY <1>2, <1>3, <1>5, <3>1, <3>4, <4>1, <4>2, SlippedGoFirst
    <3> QED BY <1>6, <2>2, <3>1, <3>3, <3>4
  <2> QED BY <2>1, <2>2 DEF SlippedLead
<1>11. Spaced(s)
  <2> SUFFICES ASSUME NEW b \in Buses \ Slipped(r)
               PROVE  /\ \A d \in inspected[b] \cup HeldNights(r, b) \cup NewNights(s, b) :
                            s.due[b] >= d + CycleDays
                      /\ \A k \in NewNights(s, b) : \A d \in inspected[b] \cup HeldNights(r, b) :
                            k >= d + CycleDays
                      /\ \A k, m \in NewNights(s, b) : m < k => k >= m + CycleDays
    BY <1>5 DEF Spaced
  <2> DEFINE old == inspected[b] \cup HeldNights(r, b)
  <2>1. /\ \A d \in old \cup NewNights(r, b) : r.due[b] >= d + CycleDays
        /\ \A k \in NewNights(r, b) : \A d \in old : k >= d + CycleDays
        /\ \A k, m \in NewNights(r, b) : m < k => k >= m + CycleDays
    BY DEF Sound, Spaced
  <2>2. old \subseteq Nat /\ NewNights(r, b) \subseteq Nat /\ r.due[b] \in Nat
    BY <1>2, <1>4 DEF TypeOK, HeldNights, NewNights
  <2> HIDE DEF old
  <2>3. CASE b \notin new
    <3>1. NewNights(s, b) = NewNights(r, b) /\ s.due[b] = r.due[b]
      BY <1>1, <1>6, <2>3 DEF NewNights
    <3> QED BY <2>1, <3>1 DEF old
  <2>4. CASE b \in new
    <3>1. NewNights(s, b) = NewNights(r, b) \cup {n} /\ s.due[b] = n + CycleDays
      BY <1>1, <1>2, <1>6, <2>4 DEF NewNights
    <3>2. r.due[b] <= n
      BY <1>3, <2>4
    <3>3. \A d \in old \cup NewNights(r, b) : n >= d + CycleDays /\ d \in Nat
      <4> SUFFICES ASSUME NEW d \in old \cup NewNights(r, b) PROVE n >= d + CycleDays /\ d \in Nat
        OBVIOUS
      <4>1. r.due[b] >= d + CycleDays /\ d \in Nat
        BY <2>1, <2>2
      <4> QED BY <1>2, <2>2, <3>2, <4>1
    <3>4. \A d \in old \cup NewNights(r, b) \cup {n} : n + CycleDays >= d + CycleDays
      BY <1>2, <3>3
    <3>5. \A k \in NewNights(r, b) \cup {n} : \A d \in old : k >= d + CycleDays
      BY <2>1, <3>3
    <3>6. ASSUME NEW k \in NewNights(r, b) \cup {n}, NEW m \in NewNights(r, b) \cup {n}, m < k
          PROVE  k >= m + CycleDays
      <4>1. CASE m \in NewNights(r, b) /\ k = n
        BY <3>3, <4>1
      <4>2. CASE m \in NewNights(r, b) /\ k \in NewNights(r, b)
        BY <2>1, <3>6, <4>2
      <4>3. m # n
        BY <1>2, <2>2, <3>3, <3>6
      <4> QED BY <4>1, <4>2, <4>3
    <3> QED BY <3>1, <3>4, <3>5, <3>6 DEF old
  <2> QED BY <2>3, <2>4
<1> QED BY <1>7, <1>8, <1>9, <1>10, <1>11 DEF Sound, s

-----------------------------------------------------------------------------
OneRun == \A p, q \in Planners : run[p].stage # "idle" /\ run[q].stage # "idle" => p = q

RunsAlone == ~Overlap => OneRun /\ \A p \in Planners : Sound(run[p])

Inv ==
  /\ TypeOK
  /\ InspectedInThePast
  /\ Overlap => ~settled
  /\ RunsAlone
  /\ PastNightsAreClosed
  /\ LiveAlertsAreOwed

\* A step that leaves the calendar alone leaves a sound run sound.
LEMMA SameCalendar ==
  ASSUME NEW p \in Planners, UNCHANGED <<today, inspected, slot>>, Sound(run'[p])
  PROVE  Sound(run[p])'
<1>1. ReadsCalendar(run[p])'
  BY DEF Sound, ReadsCalendar, Has, Booked, PastDue
<1>2. BooksAhead(run[p])'
  BY DEF Sound, BooksAhead
<1>3. CapKept(run[p])'
  BY DEF Sound, CapKept, Taken, Holds, Booked, StatusIn, PerDay
<1>4. SlippedLead(run[p])'
  BY DEF Sound, SlippedLead, Slipped, Spoken, Booked
<1>5. Spaced(run[p])'
  BY DEF Sound, Spaced, Slipped, HeldNights, NewNights, Holds, Booked, StatusIn
<1> QED BY <1>1, <1>2, <1>3, <1>4, <1>5 DEF Sound

LEMMA OthersAreIdle ==
  ASSUME Inv, NEW p \in Planners, ~Overlap, run[p].stage # "idle" \/ NoRunOpen,
         NEW q \in Planners, q # p
  PROVE  run[q].stage = "idle"
BY DEF Inv, RunsAlone, OneRun, NoRunOpen

\* A step of a run that does not write,
LEMMA ReadingKeepsRunsAlone ==
  ASSUME Inv, NEW p \in Planners, NEW r \in Runs, run' = [run EXCEPT ![p] = r],
         UNCHANGED <<today, inspected, slot>>,
         ~Overlap => Sound(r) /\ (run[p].stage # "idle" \/ NoRunOpen)
  PROVE  RunsAlone'
<1> SUFFICES ASSUME ~Overlap PROVE OneRun' /\ \A q \in Planners : Sound(run[q])'
  BY DEF RunsAlone
<1>1. run'[p] = r /\ \A q \in Planners : q # p => run'[q] = run[q] /\ run'[q].stage = "idle"
  BY OthersAreIdle DEF Inv, TypeOK
<1>2. OneRun'
  BY <1>1 DEF OneRun
<1>3. ASSUME NEW q \in Planners PROVE Sound(run[q])'
  BY <1>1, SameCalendar, ClosedRunIsSound
<1> QED BY <1>2, <1>3

\* the step that ends a run,
LEMMA EndingKeepsRunsAlone ==
  ASSUME Inv, NEW p \in Planners, run[p].stage # "idle",
         \A q \in Planners : q # p => run'[q] = run[q],
         run'[p].stage \in {"idle", "notifying"}
  PROVE  RunsAlone'
<1> SUFFICES ASSUME ~Overlap PROVE OneRun' /\ \A q \in Planners : Sound(run[q])'
  BY DEF RunsAlone
<1>1. \A q \in Planners : q # p => run'[q].stage = "idle"
  BY OthersAreIdle
<1>2. OneRun'
  BY <1>1 DEF OneRun
<1>3. ASSUME NEW q \in Planners PROVE Sound(run[q])'
  BY <1>1 DEF Sound, ReadsCalendar, BooksAhead, CapKept, SlippedLead, Spaced
<1> QED BY <1>2, <1>3

\* and a step of anybody else, which waits for the run.
LEMMA WaitingKeepsRunsAlone ==
  ASSUME Inv, ~Overlap => NoRunOpen, run' = run
  PROVE  RunsAlone'
<1> SUFFICES ASSUME ~Overlap PROVE OneRun' /\ \A q \in Planners : Sound(run[q])'
  BY DEF RunsAlone
<1>1. \A q \in Planners : run'[q].stage = "idle"
  BY DEF NoRunOpen
<1>2. ASSUME NEW q \in Planners PROVE Sound(run[q])'
  BY <1>1 DEF Sound, ReadsCalendar, BooksAhead, CapKept, SlippedLead, Spaced
<1> QED BY <1>1, <1>2 DEF OneRun

\* What a commit leaves in a cell.
LEMMA CommittedCell ==
  ASSUME Inv, ~Overlap, NEW p \in Planners, CommitRun(p), NEW b \in Buses, NEW n \in Nights
  PROVE  /\ slot'[b][n] = RowAfter(run[p], b, n)
         /\ <<b, n>> \in run[p].booked => slot[b][n] = Nil /\ slot'[b][n] = Fresh("scheduled")
         /\ <<b, n>> \notin run[p].booked /\ Booked(b, n) =>
              /\ slot'[b][n] # Nil
              /\ slot'[b][n].status = StatusIn(run[p], b, n)
              /\ slot'[b][n].alert = AlertAfter(run[p], b, n)
         /\ <<b, n>> \notin run[p].booked /\ ~Booked(b, n) => slot'[b][n] = Nil
<1>1. slot'[b][n] = RowAfter(run[p], b, n)
  BY DEF CommitRun
<1>2. run[p] \in Runs
  BY DEF Inv, TypeOK
<1>3. <<b, n>> \in run[p].booked => slot[b][n] = Nil /\ slot'[b][n] = Fresh("scheduled")
  BY <1>1, <1>2 DEF CommitRun, RowAfter, Booked, Runs
<1>4. ASSUME <<b, n>> \notin run[p].booked, Booked(b, n)
      PROVE  /\ slot'[b][n] # Nil
             /\ slot'[b][n].status = StatusIn(run[p], b, n)
             /\ slot'[b][n].alert = AlertAfter(run[p], b, n)
  <2>1. slot[b][n] \in SlotRows
    BY <1>4 DEF Inv, TypeOK, Booked
  <2>2. slot'[b][n] \in SlotRows \cup {Nil}
    BY <1>1, <1>2, RowAfterType DEF Inv
  <2> DEFINE on == IF \E d \in Nights : <<<<b, n>>, d>> \in run[p].done
                    THEN CHOOSE d \in Nights : <<<<b, n>>, d>> \in run[p].done
                    ELSE slot[b][n].completedOn
             raised == IF slot[b][n].alert = "none" /\ AlertAfter(run[p], b, n) = "open"
                    THEN today ELSE slot[b][n].raisedOn
  <2>3. slot'[b][n] = [status |-> StatusIn(run[p], b, n), completedOn |-> on,
                       alert |-> AlertAfter(run[p], b, n), raisedOn |-> raised]
    BY <1>1, <1>4 DEF RowAfter
  <2> HIDE DEF on, raised
  <2>4. slot'[b][n] \in SlotRows
    <3>1. on \in Nights \cup {Nil}
      BY <2>1 DEF SlotRows, on
    <3>2. raised \in Nights \cup {Nil}
      BY <2>1, CalendarIsNatural DEF SlotRows, raised, Inv, TypeOK
    <3>3. StatusIn(run[p], b, n) \in SlotStatus /\ AlertAfter(run[p], b, n) \in AlertStatus
      BY <2>1 DEF SlotRows, StatusIn, AlertAfter, SlotStatus, AlertStatus
    <3> QED BY <2>3, <3>1, <3>2, <3>3 DEF SlotRows
  <2> QED BY <2>3, <2>4, NilAssumption
<1>5. <<b, n>> \notin run[p].booked /\ ~Booked(b, n) => slot'[b][n] = Nil
  BY <1>1 DEF RowAfter
<1> QED BY <1>1, <1>3, <1>4, <1>5

-----------------------------------------------------------------------------
LEMMA InvInit == Init => Inv
<1> SUFFICES ASSUME Init PROVE Inv
  OBVIOUS
<1>1. InspectedInThePast /\ ~settled /\ PastNightsAreClosed /\ LiveAlertsAreOwed
  BY DEF Init, InspectedInThePast, PastNightsAreClosed, LiveAlertsAreOwed
<1>2. OneRun /\ \A p \in Planners : Sound(run[p])
  BY ClosedRunIsSound DEF Init, OneRun, Idle
<1> QED BY <1>1, <1>2, TypeInit DEF Inv, RunsAlone

\* What a run leaves: past nights closed, live alerts about work still owed.
LEMMA CommitSettles ==
  ASSUME Inv, ~Overlap, NEW p \in Planners, CommitRun(p)
  PROVE  /\ \A b \in Buses, n \in Nights : Has(b, n, {"scheduled"})' => n >= today
         /\ \A b \in Buses, n \in Nights :
              Booked(b, n)' /\ slot'[b][n].alert \in {"open", "acknowledged"} =>
                slot'[b][n].status # "done"
<1>1. Sound(run[p]) /\ run[p].stage = "planning" /\ today \in Nat /\ Nights \subseteq Nat
  BY CalendarIsNatural DEF Inv, RunsAlone, CommitRun, TypeOK
<1> SUFFICES ASSUME NEW b \in Buses, NEW n \in Nights
             PROVE  /\ Has(b, n, {"scheduled"})' => n >= today
                    /\ Booked(b, n)' /\ slot'[b][n].alert \in {"open", "acknowledged"} =>
                         slot'[b][n].status # "done"
  OBVIOUS
<1>2. CASE <<b, n>> \in run[p].booked
  <2>1. n >= today
    BY <1>1, <1>2 DEF Sound, BooksAhead
  <2>2. slot'[b][n].status = "scheduled"
    BY <1>2, CommittedCell DEF Fresh
  <2> QED BY <2>1, <2>2
<1>3. CASE <<b, n>> \notin run[p].booked /\ Booked(b, n)
  <2>1. /\ slot'[b][n].status = StatusIn(run[p], b, n)
        /\ slot'[b][n].alert = AlertAfter(run[p], b, n)
    BY <1>3, CommittedCell
  <2>2. n < today /\ slot[b][n].status = "scheduled" => StatusIn(run[p], b, n) = "missed"
    BY <1>1, <1>3 DEF Sound, ReadsCalendar, PastDue, Cells, Has, StatusIn
  <2>3. StatusIn(run[p], b, n) = "scheduled" => slot[b][n].status = "scheduled"
    BY DEF StatusIn
  <2>4. StatusIn(run[p], b, n) = "scheduled" => n >= today
    BY <1>1, <2>2, <2>3
  <2>5. AlertAfter(run[p], b, n) \in {"open", "acknowledged"} => StatusIn(run[p], b, n) # "done"
    BY DEF AlertAfter, StatusIn
  <2> QED BY <2>1, <2>4, <2>5 DEF Has
<1>4. CASE <<b, n>> \notin run[p].booked /\ ~Booked(b, n)
  BY <1>4, CommittedCell DEF Has, Booked
<1> QED BY <1>2, <1>3, <1>4

\* A step that keeps the clock, the inspections and the calendar keeps what
\* is said of them.
LEMMA SameCalendarKeeps ==
  ASSUME Inv, UNCHANGED <<today, inspected, slot, settled>>
  PROVE  /\ InspectedInThePast' /\ (Overlap => ~settled')
         /\ PastNightsAreClosed' /\ LiveAlertsAreOwed'
BY DEF Inv, InspectedInThePast, PastNightsAreClosed, LiveAlertsAreOwed, Has, Booked

LEMMA UnsettledKeeps ==
  ASSUME ~settled'
  PROVE  PastNightsAreClosed' /\ LiveAlertsAreOwed' /\ (Overlap => ~settled')
BY DEF PastNightsAreClosed, LiveAlertsAreOwed

LEMMA InvStep == Inv /\ [Next]_vars => Inv'
<1> SUFFICES ASSUME Inv, [Next]_vars PROVE Inv'
  OBVIOUS
<1>1. TypeOK /\ TypeOK' /\ today \in Nat /\ Nights \subseteq Nat
  BY TypeStep, CalendarIsNatural DEF Inv, TypeOK
<1>2. \A p \in Planners : run[p] \in Runs /\ run'[p] \in Runs
  BY <1>1 DEF TypeOK
<1>3. \A p \in Planners : ~Overlap => Sound(run[p])
  BY DEF Inv, RunsAlone
<1>4. ASSUME NEW p \in Planners, BeginRun(p) PROVE Inv'
  <2>1. run' = [run EXCEPT ![p] = run'[p]] /\ run'[p] \in Runs
    BY <1>1, <1>2, <1>4 DEF BeginRun, TypeOK
  <2>2. Sound(run'[p])
    BY <1>1, <1>4, BeginIsSound DEF BeginRun, TypeOK
  <2>3. RunsAlone'
    BY <1>4, <2>1, <2>2, ReadingKeepsRunsAlone DEF BeginRun, Free
  <2> QED BY <1>1, <1>4, <2>3, SameCalendarKeeps DEF BeginRun, Inv
<1>5. ASSUME NEW p \in Planners, SelectMissed(p) PROVE Inv'
  <2>1. run' = [run EXCEPT ![p] = run'[p]] /\ run'[p] \in Runs
    BY <1>1, <1>2, <1>5 DEF SelectMissed, TypeOK
  <2>2. run'[p] = [run[p] EXCEPT !.stage = "selected", !.missed = PastDue]
    BY <1>1, <1>5 DEF SelectMissed, TypeOK
  <2>3. ~Overlap => Sound(run'[p])
    BY <1>2, <1>3, <1>5, <2>2, SelectIsSound DEF SelectMissed
  <2>4. RunsAlone'
    BY <1>5, <2>1, <2>3, ReadingKeepsRunsAlone DEF SelectMissed
  <2> QED BY <1>1, <1>5, <2>4, SameCalendarKeeps DEF SelectMissed, Inv
<1>6. ASSUME NEW p \in Planners, OpenRotation(p) PROVE Inv'
  <2>1. run' = [run EXCEPT ![p] = run'[p]] /\ run'[p] \in Runs
    BY <1>1, <1>2, <1>6 DEF OpenRotation, TypeOK
  <2>2. run'[p] = [run[p] EXCEPT
            !.stage = "planning", !.urgent = Slipped(run[p]), !.night = today,
            !.never = {b \in active : NeverDone(run[p], b)},
            !.due = [b \in Buses |-> FirstDue(run[p], b)]]
    BY <1>1, <1>6 DEF OpenRotation, TypeOK
  <2>3. ~Overlap => Sound(run'[p])
    BY <1>1, <1>2, <1>3, <1>6, <2>2, OpenIsSound DEF OpenRotation, Inv
  <2>4. RunsAlone'
    BY <1>6, <2>1, <2>3, ReadingKeepsRunsAlone DEF OpenRotation
  <2> QED BY <1>1, <1>6, <2>4, SameCalendarKeeps DEF OpenRotation, Inv
<1>7. ASSUME NEW p \in Planners, PlanNight(p) PROVE Inv'
  <2>1. run' = [run EXCEPT ![p] = run'[p]] /\ run'[p] \in Runs
    BY <1>1, <1>2, <1>7 DEF PlanNight, TypeOK
  <2> DEFINE new == NewlyBooked(run[p], run[p].night)
  <2>2. run'[p] = [run[p] EXCEPT
            !.booked = @ \cup (new \X {run[p].night}),
            !.due = [b \in Buses |-> IF b \in new THEN run[p].night + CycleDays ELSE @[b]],
            !.never = @ \ new, !.urgent = @ \ new, !.night = run[p].night + 1]
    BY <1>1, <1>7 DEF PlanNight, TypeOK
  <2>3. run[p].stage = "planning" /\ run[p].night <= HorizonEnd
    BY <1>7 DEF PlanNight
  <2>4. ~Overlap => Sound(run'[p])
    <3>1. new = NewlyBooked(run[p], run[p].night)
      OBVIOUS
    <3> HIDE DEF new
    <3>2. ~Overlap => Sound([run[p] EXCEPT
            !.booked = @ \cup (new \X {run[p].night}),
            !.due = [b \in Buses |-> IF b \in new THEN run[p].night + CycleDays ELSE @[b]],
            !.never = @ \ new, !.urgent = @ \ new, !.night = run[p].night + 1])
      BY <1>1, <1>2, <1>3, <2>3, <3>1, PlanIsSound DEF Inv
    <3> QED BY <2>2, <3>2
  <2>5. RunsAlone'
    BY <1>7, <2>1, <2>3, <2>4, ReadingKeepsRunsAlone DEF PlanNight
  <2> QED BY <1>1, <1>7, <2>5, SameCalendarKeeps DEF PlanNight, Inv
<1>8. ASSUME NEW p \in Planners, CommitRun(p) PROVE Inv'
  <2>1. RunsAlone'
    <3>1. run[p].stage # "idle" /\ run'[p].stage \in {"idle", "notifying"}
          /\ \A q \in Planners : q # p => run'[q] = run[q]
      BY <1>1, <1>8 DEF CommitRun, TypeOK, Idle
    <3> QED BY <3>1, EndingKeepsRunsAlone
  <2>2. PastNightsAreClosed' /\ LiveAlertsAreOwed' /\ (Overlap => ~settled')
    <3>1. CASE Overlap
      BY <1>8, <3>1, UnsettledKeeps DEF CommitRun
    <3>2. CASE ~Overlap
      BY <1>8, <3>2, CommitSettles DEF PastNightsAreClosed, LiveAlertsAreOwed, CommitRun
    <3> QED BY <3>1, <3>2
  <2>3. InspectedInThePast'
    BY <1>8 DEF CommitRun, Inv, InspectedInThePast
  <2> QED BY <1>1, <2>1, <2>2, <2>3 DEF Inv
<1>9. ASSUME NEW p \in Planners, FailRun(p) \/ Notify(p) PROVE Inv'
  <2>1. run[p].stage # "idle" /\ run'[p].stage \in {"idle", "notifying"}
        /\ \A q \in Planners : q # p => run'[q] = run[q]
    BY <1>1, <1>9 DEF FailRun, Notify, TypeOK, Idle
  <2>2. UNCHANGED <<today, inspected, slot, settled>>
    BY <1>9 DEF FailRun, Notify
  <2> QED BY <1>1, <2>1, <2>2, EndingKeepsRunsAlone, SameCalendarKeeps DEF Inv
<1>10. ASSUME NEW b \in Buses, NEW d \in Nights, RecordInspection(b, d) \/ ImportInspection(b, d)
       PROVE  Inv'
  <2>1. InspectedInThePast'
    BY <1>1, <1>10 DEF RecordInspection, ImportInspection, Inv, InspectedInThePast, TypeOK
  <2> QED BY <1>1, <1>10, <2>1, UnsettledKeeps, WaitingKeepsRunsAlone
          DEF RecordInspection, ImportInspection, Free, Inv
<1>11. ASSUME \/ \E b \in Buses, n \in Nights : CreateSlot(b, n) \/ DeleteSlot(b, n)
              \/ \E b \in Buses, n, to \in Nights, s \in SlotStatus : UpdateSlot(b, n, to, s)
              \/ \E b \in Buses : Retire(b) \/ Reactivate(b)
              \/ Midnight
       PROVE  Inv'
  <2>1. (~Overlap => NoRunOpen) /\ run' = run /\ ~settled' /\ inspected' = inspected
    BY <1>11 DEF CreateSlot, DeleteSlot, UpdateSlot, Retire, Reactivate, Midnight, Free
  <2>2. today' \in Nat /\ today' >= today
    BY <1>1, <1>11 DEF CreateSlot, DeleteSlot, UpdateSlot, Retire, Reactivate, Midnight
  <2>3. InspectedInThePast'
    BY <1>1, <2>1, <2>2 DEF Inv, InspectedInThePast, TypeOK
  <2> QED BY <1>1, <2>1, <2>3, UnsettledKeeps, WaitingKeepsRunsAlone DEF Inv
<1>12. ASSUME NEW b \in Buses, NEW n \in Nights, Acknowledge(b, n) PROVE Inv'
  <2>1. RunsAlone' /\ InspectedInThePast' /\ (Overlap => ~settled')
    BY <1>12, WaitingKeepsRunsAlone DEF Acknowledge, Inv, InspectedInThePast
  <2>2. slot[b][n] \in SlotRows /\ slot[b][n].alert = "open"
    BY <1>1, <1>12 DEF Acknowledge, Booked, TypeOK
  <2>3. \A x \in Buses, m \in Nights :
          /\ Booked(x, m)' => Booked(x, m) /\ slot'[x][m].status = slot[x][m].status
          /\ slot'[x][m].alert \in {"open", "acknowledged"} =>
               slot'[x][m].alert = slot[x][m].alert \/ slot[x][m].alert = "open"
    BY <1>1, <1>12, <2>2 DEF Acknowledge, TypeOK, SlotRows, Booked
  <2>4. PastNightsAreClosed'
    BY <1>12, <2>3 DEF PastNightsAreClosed, Has, Acknowledge, Inv
  <2>5. LiveAlertsAreOwed'
    BY <1>12, <2>3 DEF LiveAlertsAreOwed, Acknowledge, Inv
  <2> QED BY <1>1, <2>1, <2>4, <2>5 DEF Inv
<1>13. CASE UNCHANGED vars
  BY <1>1, <1>13, SameCalendarKeeps, SameCalendar DEF vars, Inv, RunsAlone, OneRun
<1> QED BY <1>4, <1>5, <1>6, <1>7, <1>8, <1>9, <1>10, <1>11, <1>12, <1>13 DEF Next, Continue

LEMMA InvHolds == Spec => []Inv
BY InvInit, InvStep, PTL DEF Spec

\* After a run no night behind today still counts as booked.
THEOREM PastNightsClosed == Spec => []PastNightsAreClosed
<1>1. Inv => PastNightsAreClosed
  BY DEF Inv
<1> QED BY <1>1, InvHolds, PTL

\* After a run no live alert is about work the register shows as done.
THEOREM LiveAlertsOwed == Spec => []LiveAlertsAreOwed
<1>1. Inv => LiveAlertsAreOwed
  BY DEF Inv
<1> QED BY <1>1, InvHolds, PTL

-----------------------------------------------------------------------------
\* Only CommitRun ends a run by writing the calendar.
LEMMA CommitsAreCommitRuns ==
  ASSUME Inv, [Next]_vars, NEW p \in Planners, Commits(p)
  PROVE  CommitRun(p)
<1>1. run[p].stage = "planning" /\ run'[p].stage # "planning" /\ slot' # slot /\ run \in [Planners -> Runs]
  BY DEF Commits, Inv, TypeOK
<1>2. ASSUME NEW q \in Planners, BeginRun(q) \/ Continue(q) PROVE CommitRun(p)
  <2>1. q = p
    <3> SUFFICES ASSUME q # p PROVE run'[p] = run[p]
      BY <1>1
    <3> QED BY <1>1, <1>2 DEF BeginRun, Continue, SelectMissed, OpenRotation, PlanNight,
                              CommitRun, FailRun, Notify
  <2> QED BY <1>1, <1>2, <2>1 DEF BeginRun, Continue, SelectMissed, OpenRotation, PlanNight,
                                  FailRun, Notify
<1>3. CASE run' = run
  BY <1>1, <1>3
<1> QED BY <1>2, <1>3 DEF Next, vars, RecordInspection, ImportInspection, CreateSlot, DeleteSlot,
           Acknowledge, UpdateSlot, Retire, Reactivate, Midnight

\* A run keeps the status of whatever is not scheduled and deletes nothing.
LEMMA CommitHoldsClosedSlots ==
  ASSUME Inv, ~Overlap, NEW p \in Planners, CommitRun(p), NEW b \in Buses, NEW n \in Nights,
         Booked(b, n), slot[b][n].status # "scheduled"
  PROVE  slot'[b][n] # Nil /\ slot'[b][n].status = slot[b][n].status
<1>1. Sound(run[p]) /\ run[p].stage = "planning" /\ run[p] \in Runs
  BY DEF Inv, RunsAlone, CommitRun, TypeOK
<1>2. <<b, n>> \notin run[p].booked
  BY CommittedCell DEF Booked
<1>3. <<b, n>> \notin run[p].missed /\ \A d \in Nights : <<<<b, n>>, d>> \notin run[p].done
  BY <1>1 DEF Sound, ReadsCalendar, PastDue, Has, Cells
<1> QED BY <1>2, <1>3, CommittedCell DEF StatusIn

\* The work that stands on a night after a run is what its plan counted.
LEMMA CommitLoad ==
  ASSUME Inv, ~Overlap, NEW p \in Planners, CommitRun(p), NEW n \in Nights
  PROVE  Load(n)' = Taken(run[p], n)
<1>1. ASSUME NEW b \in Buses
      PROVE  Standing(b, n)' <=> Holds(run[p], b, n, {"scheduled", "done"}) \/ <<b, n>> \in run[p].booked
  <2>1. CASE <<b, n>> \in run[p].booked
    <3>1. slot'[b][n] = Fresh("scheduled")
      BY <2>1, CommittedCell
    <3>2. Fresh("scheduled") # Nil
      BY BlankRecords, NilAssumption
    <3> QED BY <2>1, <3>1, <3>2 DEF Standing, Has, Booked, Fresh
  <2>2. CASE <<b, n>> \notin run[p].booked
    BY <2>2, CommittedCell DEF Standing, Has, Booked, Holds
  <2> QED BY <2>1, <2>2
<1> QED BY <1>1 DEF Load, Taken

LEMMA CommitKeepsCap ==
  ASSUME Inv, ~Overlap, NEW p \in Planners, CommitRun(p), NEW n \in Nights,
         \E b \in Buses : <<b, n>> \in run[p].booked
  PROVE  Load(n)' <= PerDay(run[p].fleet)
BY CommitLoad DEF Inv, RunsAlone, CommitRun, Sound, CapKept

\* Tonight's places go to slipped buses first.
LEMMA CommitPutsSlippedFirst ==
  ASSUME Inv, ~Overlap, NEW p \in Planners, CommitRun(p),
         NEW u \in Slipped(run[p]) \cap run[p].fleet, slot'[u][today] = Nil,
         NEW b \in Buses, <<b, today>> \in run[p].booked
  PROVE  b \in Slipped(run[p])
<1>1. u \in Buses /\ today \in Nights
  BY CalendarIsNatural DEF Inv, TypeOK, Runs
<1>2. ~Spoken(run[p], u, today)
  BY <1>1, CommittedCell, BlankRecords, NilAssumption DEF Spoken
<1> QED BY <1>2 DEF Inv, RunsAlone, CommitRun, Sound, SlippedLead

\* A bus that did not slip is booked a cycle after everything else it has.
LEMMA CommitSpacesRounds ==
  ASSUME Inv, ~Overlap, NEW p \in Planners, CommitRun(p), NEW b \in Buses, NEW n \in Nights,
         <<b, n>> \in run[p].booked, b \notin Slipped(run[p]), NEW m \in (n - CycleDays + 1) .. n
  PROVE  /\ m \notin inspected[b]
         /\ m >= today /\ m # n => ~(slot'[b][m] # Nil /\ slot'[b][m].status = "scheduled")
<1> DEFINE r == run[p]
<1>1. Sound(r) /\ r.stage = "planning" /\ n \in NewNights(r, b)
  BY DEF Inv, RunsAlone, CommitRun, NewNights
<1>2. today \in Nat /\ Nights \subseteq Nat /\ CycleDays \in Nat /\ n \in Nat /\ m \in Int
      /\ inspected[b] \subseteq Nights
  BY CalendarIsNatural, PlanAssumption DEF Inv, TypeOK
<1>3. \A d \in inspected[b] \cup HeldNights(r, b) : n >= d + CycleDays
  BY <1>1 DEF Sound, Spaced
<1>4. \A k, l \in NewNights(r, b) : l < k => k >= l + CycleDays
  BY <1>1 DEF Sound, Spaced
<1>5. m + CycleDays > n /\ m <= n
  BY <1>2
<1>6. m \notin inspected[b]
  BY <1>2, <1>3, <1>5
<1>7. ASSUME m >= today, m # n, slot'[b][m] # Nil, slot'[b][m].status = "scheduled"
      PROVE  FALSE
  <2>1. m \in Nights
    BY <1>2, <1>5, <1>7, CalendarIsNatural
  <2>2. CASE <<b, m>> \in r.booked
    BY <1>1, <1>2, <1>4, <1>5, <1>7, <2>1, <2>2 DEF NewNights
  <2>3. CASE <<b, m>> \notin r.booked
    <3>1. Booked(b, m) /\ StatusIn(r, b, m) = "scheduled"
      BY <1>7, <2>1, <2>3, CommittedCell
    <3>2. m \in HeldNights(r, b)
      BY <1>7, <2>1, <3>1 DEF HeldNights, Holds
    <3> QED BY <1>2, <1>3, <1>5, <3>2
  <2> QED BY <2>2, <2>3
<1> QED BY <1>6, <1>7

-----------------------------------------------------------------------------
\* A night a run adds a bus to is never over the cap, when nothing commits
\* while the run is open (PlanNight, CommitRun).
THEOREM BookedToTheCap == ASSUME ~Overlap PROVE Spec => NightsBookedToTheCap
<1>1. Inv /\ [Next]_vars =>
        [\A p \in Planners : Commits(p) =>
          \A n \in Nights :
            (\E b \in Buses : <<b, n>> \in run[p].booked) => Load(n)' <= PerDay(run[p].fleet)]_vars
  BY CommitsAreCommitRuns, CommitKeepsCap
<1> QED BY <1>1, InvHolds, PTL DEF Spec, NightsBookedToTheCap

\* A run takes nothing off the calendar and closes scheduled slots only.
THEOREM ClosedSlotsAreHeld == ASSUME ~Overlap PROVE Spec => ClosedSlotsHold
<1>1. Inv /\ [Next]_vars =>
        [\A p \in Planners : Commits(p) =>
          \A b \in Buses, n \in Nights :
            Booked(b, n) /\ slot[b][n].status # "scheduled" =>
                slot'[b][n] # Nil /\ slot'[b][n].status = slot[b][n].status]_vars
  BY CommitsAreCommitRuns, CommitHoldsClosedSlots
<1> QED BY <1>1, InvHolds, PTL DEF Spec, ClosedSlotsHold

\* Missed work jumps the queue of the night the run begins on.
THEOREM MissedWorkFirst == ASSUME ~Overlap PROVE Spec => SlippedBusesLead
<1>1. Inv /\ [Next]_vars =>
        [\A p \in Planners : Commits(p) =>
          \A u \in Slipped(run[p]) \cap run[p].fleet :
            slot'[u][today] = Nil =>
                \A b \in Buses : <<b, today>> \in run[p].booked => b \in Slipped(run[p])]_vars
  BY CommitsAreCommitRuns, CommitPutsSlippedFirst
<1> QED BY <1>1, InvHolds, PTL DEF Spec, SlippedBusesLead

\* Rounds of a bus that did not slip are a cycle apart.
THEOREM RoundsAreSpaced == ASSUME ~Overlap PROVE Spec => RoundsAreACycleApart
<1>1. Inv /\ [Next]_vars =>
        [\A p \in Planners : Commits(p) =>
          \A b \in Buses, n \in Nights :
            <<b, n>> \in run[p].booked /\ b \notin Slipped(run[p]) =>
              \A m \in (n - CycleDays + 1) .. n :
                /\ m \notin inspected[b]
                /\ m >= today /\ m # n => ~(slot'[b][m] # Nil /\ slot'[b][m].status = "scheduled")]_vars
  BY CommitsAreCommitRuns, CommitSpacesRounds
<1> QED BY <1>1, InvHolds, PTL DEF Spec, RoundsAreACycleApart

=============================================================================
