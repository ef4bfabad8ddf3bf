---------------------------- MODULE DockingsProofs ----------------------------
(***************************************************************************)
(* Theorems about the dockings, for any buses, ladder, lead and calendar,  *)
(* and about the settings of sites under any requests.  Each is about a    *)
(* component's own specification; PlansAreApart says that both hold of the *)
(* two side by side.                                                       *)
(*                                                                         *)
(* What a booking rests on is kept by DockingsInv: an odometer never runs  *)
(* back, and one that was never read shows nothing.                        *)
(***************************************************************************)
EXTENDS SitePlans, FiniteSetTheorems, WellFoundedInduction, TLAPS

UnreadIsZero == \A b \in Bus : ~Read(bus[b]) => bus[b].km = 0

DockingsInv == TypeOK /\ UnreadIsZero /\ BookedInReach

\* A nonempty set of nights has a latest one, and Latest is it.
LEMMA HasSmallest ==
  ASSUME NEW S \in SUBSET Nat, S # {}
  PROVE  \E x \in S : \A y \in S : x <= y
<1> DEFINE Below == {0 .. n : n \in S}
<1>1. Below \subseteq FiniteSubsetsOf(Nat) /\ Below # {}
  <2>1. ASSUME NEW n \in S PROVE 0 .. n \subseteq Nat /\ IsFiniteSet(0 .. n)
    BY FS_Interval
  <2> QED BY <2>1 DEF FiniteSubsetsOf
<1>2. PICK I \in Below : \A J \in Below : <<J, I>> \notin StrictSubsetOrdering(Nat)
  BY <1>1, FS_StrictSubsetOrderingWellFounded, WFMin
<1>3. PICK x \in S : I = 0 .. x
  OBVIOUS
<1>4. ASSUME NEW y \in S, y < x PROVE FALSE
  <2>1. 0 .. y \subseteq 0 .. x /\ x \in 0 .. x /\ x \notin 0 .. y
    BY <1>4
  <2>2. 0 .. y \in Below /\ 0 .. y \subseteq Nat /\ 0 .. x \subseteq Nat
    OBVIOUS
  <2>3. <<0 .. y, I>> \in StrictSubsetOrdering(Nat)
    BY <1>3, <2>1, <2>2 DEF StrictSubsetOrdering
  <2> QED BY <1>2, <2>2, <2>3
<1> QED BY <1>4

LEMMA LatestIsMember ==
  ASSUME NEW N \in SUBSET Day, N # {}
  PROVE  Latest(N) \in N
<1> DEFINE Left == {MaxDay - n : n \in N}
<1>1. MaxDay \in Nat /\ Left \in SUBSET Nat /\ Left # {}
  BY PlanAssumption DEF Day
<1>2. PICK x \in Left : \A y \in Left : x <= y
  BY <1>1, HasSmallest
<1>3. PICK n \in N : x = MaxDay - n
  OBVIOUS
<1>4. ASSUME NEW m \in N PROVE m <= n
  <2>1. MaxDay - m \in Left /\ m \in Nat /\ n \in Nat
    BY <1>1 DEF Day
  <2>2. MaxDay - n <= MaxDay - m
    BY <1>2, <1>3, <2>1
  <2> QED BY <1>1, <2>1, <2>2
<1> QED BY <1>4 DEF Latest

LEMMA OpenIsBooked ==
  ASSUME TypeOK, NEW b \in Bus, Open(b) # {}
  PROVE  Latest(Open(b)) \in Day /\ slot[b][Latest(Open(b))] \in Slot
<1>1. Open(b) \in SUBSET Day /\ Latest(Open(b)) \in Open(b)
  BY LatestIsMember DEF Open
<1>2. slot[b][Latest(Open(b))] \in Slot \cup {Empty}
  BY <1>1 DEF TypeOK
<1>3. slot[b][Latest(Open(b))].status # "empty"
  BY <1>1 DEF Open
<1> QED BY <1>1, <1>2, <1>3 DEF Empty

-----------------------------------------------------------------------------
\* Lowest picks one mark, so a bus owes one rung at a time.
LEMMA OneRungOwed ==
  ASSUME NEW b \in Bus, NEW p \in Owes(b), NEW q \in Owes(b), ladder \subseteq Rung
  PROVE  p = q
<1>1. p \in Lowest(Ahead(ladder, Climbed(b), bus[b].km)) /\ q \in Lowest(Ahead(ladder, Climbed(b), bus[b].km))
  BY DEF Owes, NextRung
<1>2. p \in Rung /\ q \in Rung /\ Milestone[p] <= Milestone[q] /\ Milestone[q] <= Milestone[p]
  BY <1>1 DEF Lowest, Ahead
<1> QED BY <1>2, LadderAssumption

\* The rung a bus owes is one of its ladder, within reach of its mark.
LEMMA OwedInReach ==
  ASSUME NEW b \in Bus, NEW p \in Owes(b)
  PROVE  p \in ladder /\ Milestone[p] <= bus[b].km + LeadKm
<1>1. p \in NextRung(ladder, Climbed(b), bus[b].km)
  BY DEF Owes
<1>2. p \in Ahead(ladder, Climbed(b), bus[b].km) /\ bus[b].km + LeadKm >= Milestone[p]
  BY <1>1 DEF NextRung, Lowest
<1> QED BY <1>2 DEF Ahead

\* What a run leaves on a night: what was there with another status, or a rung
\* the bus owes.
LEMMA BookedTypes ==
  ASSUME TypeOK, NEW b \in Bus, NEW n \in Day
  PROVE  /\ Settled(b, n) \in Slot \cup {Empty}
         /\ Settled(b, n) # Empty => slot[b][n] # Empty /\ Settled(b, n).rung = slot[b][n].rung
         /\ Booked(b, n) = Settled(b, n)
              \/ \E p \in Owes(b) : Booked(b, n) = [rung |-> p, status |-> "scheduled"]
<1>1. slot[b][n] \in Slot \cup {Empty}
  BY DEF TypeOK
<1>2. slot[b][n] = Empty => Settled(b, n) = Empty
  BY DEF Settled, Empty
<1>3. slot[b][n] \in Slot => Settled(b, n) \in Slot /\ Settled(b, n).rung = slot[b][n].rung
  BY DEF Settled, Slot
<1>4. slot[b][n] \in Slot => slot[b][n] # Empty
  BY DEF Slot, Empty
<1>5. ToBook(b) # {} => (CHOOSE p \in ToBook(b) : TRUE) \in Owes(b)
  BY DEF ToBook
<1> QED BY <1>1, <1>2, <1>3, <1>4, <1>5 DEF Booked

-----------------------------------------------------------------------------
(* One lemma for each kind of step.                                        *)

\* A step that leaves the calendar alone, or only empties cells and forgets rungs.
LEMMA CalendarEased ==
  ASSUME DockingsInv, PlanTypeOK', UnreadIsZero', ladder' \subseteq Rung,
         \A b \in Bus : bus[b].km <= bus'[b].km,
         slot' \in [Bus -> [Day -> Slot \cup {Empty}]],
         inspected' \in [Bus -> [Day -> Entry \cup {None}]],
         \A b \in Bus, n \in Day : slot'[b][n] # Empty /\ slot'[b][n].rung \in Rung =>
           \E m \in Day : slot[b][m] # Empty /\ slot[b][m].rung = slot'[b][n].rung
  PROVE  DockingsInv'
<1>1. ASSUME NEW b \in Bus, NEW n \in Day, slot'[b][n] # Empty, slot'[b][n].rung \in Rung
      PROVE  Milestone[slot'[b][n].rung] <= bus'[b].km + LeadKm
  <2>1. PICK m \in Day : slot[b][m] # Empty /\ slot[b][m].rung = slot'[b][n].rung
    BY <1>1
  <2>2. Milestone[slot[b][m].rung] <= bus[b].km + LeadKm
    BY <1>1, <2>1 DEF DockingsInv, BookedInReach
  <2>3. Milestone[slot[b][m].rung] \in Nat /\ LeadKm \in Nat
    BY <1>1, <2>1, LadderAssumption
  <2>4. bus[b].km \in Nat /\ bus'[b].km \in Nat /\ bus[b].km <= bus'[b].km
    BY PlanAssumption DEF DockingsInv, TypeOK, PlanTypeOK, Vehicle, Km
  <2> QED BY <2>1, <2>2, <2>3, <2>4
<1>2. BookedInReach'
  BY <1>1 DEF BookedInReach
<1>3. TypeOK'
  BY DEF TypeOK
<1> QED BY <1>2, <1>3 DEF DockingsInv

\* One cell of the calendar is given what stands in it, with or without its
\* status, what stands in another, or nothing of the ladder.
LEMMA CellWritten ==
  ASSUME DockingsInv, PlanTypeOK', UNCHANGED <<ladder, inspected, bus>>,
         NEW b \in Bus, NEW n \in Day, NEW c \in Slot \cup {Empty},
         slot' = [slot EXCEPT ![b][n] = c],
         c # Empty /\ c.rung \in Rung => \E m \in Day : slot[b][m] # Empty /\ slot[b][m].rung = c.rung
  PROVE  DockingsInv'
<1>1. slot \in [Bus -> [Day -> Slot \cup {Empty}]]
  BY DEF DockingsInv, TypeOK
<1>2. /\ slot' \in [Bus -> [Day -> Slot \cup {Empty}]]
      /\ \A x \in Bus, y \in Day : slot'[x][y] = IF x = b /\ y = n THEN c ELSE slot[x][y]
  BY <1>1
<1>3. UnreadIsZero' /\ \A x \in Bus : bus[x].km <= bus'[x].km
  BY PlanAssumption DEF DockingsInv, UnreadIsZero, TypeOK, PlanTypeOK, Vehicle, Km
<1>4. ladder' \subseteq Rung /\ inspected' \in [Bus -> [Day -> Entry \cup {None}]]
  BY DEF DockingsInv, TypeOK
<1>5. \A x \in Bus, y \in Day : slot'[x][y] # Empty /\ slot'[x][y].rung \in Rung =>
        \E m \in Day : slot[x][m] # Empty /\ slot[x][m].rung = slot'[x][y].rung
  BY <1>2
<1> QED BY <1>2, <1>3, <1>4, <1>5, CalendarEased

LEMMA ReadingTypes ==
  ASSUME PlanTypeOK, NEW b \in Bus, NEW k \in Km, NEW d \in Day
  PROVE  Reading(b, k, d) \in Vehicle /\ Reading(b, k, d).km = k /\ Read(Reading(b, k, d))
<1>1. bus[b] \in Vehicle /\ d # NoDate
  BY DEF PlanTypeOK, Day, NoDate
<1> QED BY <1>1 DEF Reading, Vehicle, Read

\* A reading that is let through.
LEMMA ReadingRaises ==
  ASSUME PlanTypeOK, UnreadIsZero, NEW b \in Bus, NEW k \in Km, Accepts(b, k), NEW v \in Vehicle,
         v.km = k, Read(v), bus' = [bus EXCEPT ![b] = v]
  PROVE  /\ bus' \in [Bus -> Vehicle] /\ UnreadIsZero'
         /\ \A x \in Bus : bus[x].km <= bus'[x].km
<1>1. bus \in [Bus -> Vehicle] /\ bus[b].km \in Km /\ \A x \in Bus : bus[x].km \in Nat
  BY PlanAssumption DEF PlanTypeOK, Vehicle, Km
<1>2. /\ bus' \in [Bus -> Vehicle] /\ bus'[b] = v
      /\ \A x \in Bus \ {b} : bus'[x] = bus[x]
  BY <1>1
<1>3. bus[b].km <= k
  BY <1>1, PlanAssumption DEF Accepts, UnreadIsZero, Km
<1> QED BY <1>1, <1>2, <1>3 DEF UnreadIsZero

-----------------------------------------------------------------------------
LEMMA CountedUp == ASSUME work \in 0 .. MaxWork, Request PROVE work' \in 0 .. MaxWork
BY PlanAssumption DEF Request

LEMMA InitHolds == Init => DockingsInv
<1> SUFFICES ASSUME Init PROVE DockingsInv
  OBVIOUS
<1>1. PlanTypeOK
  BY PlanAssumption DEF Init, PlanInit, PlanTypeOK, Defaults, Config, NewVehicle, Vehicle, Km, Day
<1>2. TypeOK
  BY <1>1 DEF Init, TypeOK
<1> QED BY <1>2 DEF Init, PlanInit, NewVehicle, UnreadIsZero, BookedInReach, DockingsInv, Empty

LEMMA GenerateKeeps == ASSUME DockingsInv, Generate PROVE DockingsInv'
<1>1. TypeOK /\ PlanTypeOK' /\ UnreadIsZero'
  BY DEF DockingsInv, TypeOK, PlanTypeOK, UnreadIsZero, Generate, planVars
<1>2. ASSUME NEW b \in Bus, NEW n \in Day
      PROVE  /\ slot'[b][n] \in Slot \cup {Empty}
             /\ slot'[b][n] # Empty /\ slot'[b][n].rung \in Rung =>
                  Milestone[slot'[b][n].rung] <= bus'[b].km + LeadKm
  <2>1. slot'[b][n] = Booked(b, n) /\ bus' = bus
    BY DEF Generate, planVars
  <2>2. CASE Booked(b, n) = Settled(b, n)
    BY <1>1, <2>1, <2>2, BookedTypes DEF DockingsInv, BookedInReach
  <2>3. ASSUME NEW p \in Owes(b), Booked(b, n) = [rung |-> p, status |-> "scheduled"]
        PROVE  /\ slot'[b][n] \in Slot
               /\ Milestone[slot'[b][n].rung] <= bus'[b].km + LeadKm
    <3>1. p \in Rung /\ Milestone[p] <= bus[b].km + LeadKm
      BY <1>1, OwedInReach DEF TypeOK
    <3>2. slot'[b][n] = [rung |-> p, status |-> "scheduled"]
      BY <2>1, <2>3
    <3> QED BY <2>1, <3>1, <3>2 DEF Slot
  <2> QED BY <1>1, <2>2, <2>3, BookedTypes
<1>3. slot' \in [Bus -> [Day -> Slot \cup {Empty}]]
  <2>1. slot' = [b \in Bus |-> [n \in Day |-> Booked(b, n)]]
    BY DEF Generate
  <2>2. \A b \in Bus, n \in Day : Booked(b, n) \in Slot \cup {Empty}
    BY <1>2, <2>1
  <2> QED BY <2>1, <2>2
<1>4. TypeOK'
  BY <1>1, <1>3 DEF TypeOK, Generate
<1> QED BY <1>1, <1>2, <1>4 DEF DockingsInv, BookedInReach

LEMMA RecordDockingKeeps ==
  ASSUME DockingsInv, NEW b \in Bus, NEW d \in Day, NEW k \in Km \cup {NoKm}, RecordDocking(b, d, k)
  PROVE  DockingsInv'
<1> DEFINE n == Latest(Open(b))
<1>1. TypeOK
  BY DEF DockingsInv
<1>2. /\ slot' \in [Bus -> [Day -> Slot \cup {Empty}]]
      /\ \A x \in Bus, y \in Day : slot'[x][y] # Empty =>
           slot[x][y] # Empty /\ slot'[x][y].rung = slot[x][y].rung
  <2>1. slot \in [Bus -> [Day -> Slot \cup {Empty}]]
    BY <1>1 DEF TypeOK
  <2>2. CASE Open(b) = {}
    BY <2>1, <2>2 DEF RecordDocking
  <2>3. CASE Open(b) # {}
    <3>1. n \in Day /\ slot[b][n] \in Slot
      BY <1>1, <2>3, OpenIsBooked
    <3>2. slot' = [slot EXCEPT ![b][n].status = "done"]
      BY <2>3 DEF RecordDocking
    <3> HIDE DEF n
    <3>3. [slot[b][n] EXCEPT !.status = "done"] \in Slot /\ slot[b][n] # Empty
      BY <3>1 DEF Slot, Empty
    <3>4. \A x \in Bus, y \in Day :
            slot'[x][y] = IF x = b /\ y = n THEN [slot[b][n] EXCEPT !.status = "done"] ELSE slot[x][y]
      BY <2>1, <3>1, <3>2
    <3>5. slot' \in [Bus -> [Day -> Slot \cup {Empty}]]
      BY <2>1, <3>1, <3>2, <3>3
    <3>6. [slot[b][n] EXCEPT !.status = "done"].rung = slot[b][n].rung
      BY <3>1 DEF Slot
    <3> QED BY <3>3, <3>4, <3>5, <3>6
  <2> QED BY <2>2, <2>3
<1>3. RungAnswered(b) \in Rung \cup {NoPlan}
  BY <1>1, OpenIsBooked DEF RungAnswered, Slot
<1>4. inspected' \in [Bus -> [Day -> Entry \cup {None}]]
  <2>1. [rung |-> RungAnswered(b)] \in Entry
    BY <1>3 DEF Entry
  <2> QED BY <1>1, <2>1 DEF RecordDocking, TypeOK
<1>5. bus' \in [Bus -> Vehicle] /\ UnreadIsZero' /\ \A x \in Bus : bus[x].km <= bus'[x].km
  <2>1. CASE k # NoKm /\ Accepts(b, k)
    <3>1. k \in Km /\ Reading(b, k, d) \in Vehicle /\ Reading(b, k, d).km = k /\ Read(Reading(b, k, d))
      BY <1>1, <2>1, ReadingTypes DEF TypeOK
    <3>2. bus' = [bus EXCEPT ![b] = Reading(b, k, d)]
      BY <2>1 DEF RecordDocking
    <3> QED BY <1>1, <2>1, <3>1, <3>2, ReadingRaises DEF DockingsInv, TypeOK
  <2>2. CASE ~(k # NoKm /\ Accepts(b, k))
    <3>1. bus' = bus
      BY <2>2 DEF RecordDocking
    <3>2. bus \in [Bus -> Vehicle] /\ \A x \in Bus : bus[x].km \in Nat
      BY <1>1, PlanAssumption DEF TypeOK, PlanTypeOK, Vehicle, Km
    <3>3. UnreadIsZero' <=> UnreadIsZero
      BY <3>1 DEF UnreadIsZero
    <3> QED BY <3>1, <3>2, <3>3 DEF DockingsInv
  <2> QED BY <2>1, <2>2
<1>6. PlanTypeOK' /\ ladder' \subseteq Rung
  BY <1>1, <1>5, CountedUp DEF RecordDocking, TypeOK, PlanTypeOK
<1> QED BY <1>2, <1>4, <1>5, <1>6, CalendarEased

LEMMA EditSlotKeeps ==
  ASSUME DockingsInv, NEW b \in Bus, NEW n \in Day,
         NEW s \in {"scheduled", "done", "missed", "cancelled"}, EditSlot(b, n, s)
  PROVE  DockingsInv'
<1> DEFINE c == [slot[b][n] EXCEPT !.status = s]
<1>1. slot[b][n] \in Slot /\ PlanTypeOK'
  BY CountedUp DEF EditSlot, DockingsInv, TypeOK, PlanTypeOK, planVars
<1>2. c \in Slot /\ c.rung = slot[b][n].rung
  BY <1>1 DEF Slot
<1>3. slot' = [slot EXCEPT ![b][n] = c]
  BY DEF EditSlot
<1>4. UNCHANGED <<ladder, inspected, bus>> /\ slot[b][n] # Empty
  BY DEF EditSlot, planVars
<1> HIDE DEF c
<1> QED BY <1>1, <1>2, <1>3, <1>4, CellWritten

LEMMA BookByHandKeeps ==
  ASSUME DockingsInv, NEW b \in Bus, NEW n \in Day, BookByHand(b, n)
  PROVE  DockingsInv'
<1> DEFINE c == [rung |-> NoPlan, status |-> "scheduled"]
<1>1. PlanTypeOK' /\ UNCHANGED <<ladder, inspected, bus>> /\ slot' = [slot EXCEPT ![b][n] = c]
  BY CountedUp DEF BookByHand, DockingsInv, TypeOK, PlanTypeOK, planVars
<1>2. c \in Slot /\ c.rung = NoPlan
  BY DEF Slot
<1>3. NoPlan \in Rung => FALSE
  BY LadderAssumption
<1> HIDE DEF c
<1> QED BY <1>1, <1>2, <1>3, CellWritten

LEMMA MoveSlotKeeps ==
  ASSUME DockingsInv, NEW b \in Bus, NEW n \in Day, NEW m \in Day, MoveSlot(b, n, m)
  PROVE  DockingsInv'
<1>1. slot \in [Bus -> [Day -> Slot \cup {Empty}]] /\ slot[b][n] # Empty /\ m # n
  BY DEF MoveSlot, DockingsInv, TypeOK
<1>2. slot' = [slot EXCEPT ![b][m] = slot[b][n], ![b][n] = Empty]
  BY DEF MoveSlot
<1>3. /\ slot' \in [Bus -> [Day -> Slot \cup {Empty}]]
      /\ \A x \in Bus, y \in Day :
           slot'[x][y] = IF x = b /\ y = n THEN Empty
                         ELSE IF x = b /\ y = m THEN slot[b][n] ELSE slot[x][y]
  BY <1>1, <1>2
<1>4. \A x \in Bus, y \in Day : slot'[x][y] # Empty /\ slot'[x][y].rung \in Rung =>
        \E z \in Day : slot[x][z] # Empty /\ slot[x][z].rung = slot'[x][y].rung
  BY <1>1, <1>3
<1>5. /\ PlanTypeOK' /\ UnreadIsZero' /\ ladder' \subseteq Rung
      /\ inspected' \in [Bus -> [Day -> Entry \cup {None}]]
  BY CountedUp DEF MoveSlot, DockingsInv, TypeOK, PlanTypeOK, UnreadIsZero, planVars
<1>6. \A x \in Bus : bus[x].km <= bus'[x].km
  BY PlanAssumption DEF MoveSlot, DockingsInv, TypeOK, PlanTypeOK, planVars, Vehicle, Km
<1> QED BY <1>3, <1>4, <1>5, <1>6, CalendarEased

LEMMA DeleteSlotKeeps ==
  ASSUME DockingsInv, NEW b \in Bus, NEW n \in Day, DeleteSlot(b, n)
  PROVE  DockingsInv'
<1>1. PlanTypeOK' /\ UNCHANGED <<ladder, inspected, bus>> /\ slot' = [slot EXCEPT ![b][n] = Empty]
  BY CountedUp DEF DeleteSlot, DockingsInv, TypeOK, PlanTypeOK, planVars
<1> QED BY <1>1, CellWritten

LEMMA ForgetTypes ==
  /\ \A r \in Slot : Forget(r) \in Slot /\ Forget(r).rung = NoPlan
  /\ \A r \in Entry : Forget(r) \in Entry
BY DEF Forget, Slot, Entry

LEMMA ReplaceConfigKeeps ==
  ASSUME DockingsInv, NEW c \in Forms, ReplaceConfig(c)
  PROVE  DockingsInv'
<1>1. TypeOK
  BY DEF DockingsInv
<1>2. PlanTypeOK' /\ UNCHANGED bus /\ ladder' = {}
  BY <1>1, CountedUp, PlanAssumption DEF ReplaceConfig, PutConfig, TypeOK, PlanTypeOK
<1>3. UnreadIsZero' /\ \A x \in Bus : bus[x].km <= bus'[x].km
  BY <1>1, <1>2, PlanAssumption DEF DockingsInv, UnreadIsZero, TypeOK, PlanTypeOK, Vehicle, Km
<1>4. /\ slot' \in [Bus -> [Day -> Slot \cup {Empty}]]
      /\ \A x \in Bus, y \in Day : slot'[x][y] # Empty => slot'[x][y].rung = NoPlan
  <2>1. slot' = [b \in Bus |-> [n \in Day |->
                   IF slot[b][n] = Empty THEN Empty ELSE Forget(slot[b][n])]]
    BY DEF ReplaceConfig
  <2>2. \A x \in Bus, y \in Day : slot[x][y] = Empty \/ slot[x][y] \in Slot
    BY <1>1 DEF TypeOK
  <2>3. ASSUME NEW x \in Bus, NEW y \in Day
        PROVE  /\ slot'[x][y] \in Slot \cup {Empty}
               /\ slot'[x][y] # Empty => slot'[x][y].rung = NoPlan
    <3>1. slot'[x][y] = IF slot[x][y] = Empty THEN Empty ELSE Forget(slot[x][y])
      BY <2>1
    <3> QED BY <2>2, <3>1, ForgetTypes
  <2> DEFINE f(x, y) == IF slot[x][y] = Empty THEN Empty ELSE Forget(slot[x][y])
  <2>4. slot' = [x \in Bus |-> [y \in Day |-> f(x, y)]]
    BY <2>1
  <2>5. \A x \in Bus, y \in Day : slot'[x][y] = f(x, y)
    BY <2>4
  <2> HIDE DEF f
  <2>6. \A x \in Bus, y \in Day : f(x, y) \in Slot \cup {Empty}
    BY <2>3, <2>5
  <2>7. slot' \in [Bus -> [Day -> Slot \cup {Empty}]]
    BY <2>4, <2>6
  <2> QED BY <2>3, <2>7
<1>5. inspected' \in [Bus -> [Day -> Entry \cup {None}]]
  <2>1. inspected' = [b \in Bus |-> [d \in Day |->
                        IF inspected[b][d] = None THEN None ELSE Forget(inspected[b][d])]]
    BY DEF ReplaceConfig
  <2>2. \A x \in Bus, y \in Day : inspected[x][y] = None \/ inspected[x][y] \in Entry
    BY <1>1 DEF TypeOK
  <2> QED BY <2>1, <2>2, ForgetTypes
<1>6. \A x \in Bus, y \in Day : slot'[x][y] # Empty /\ slot'[x][y].rung \in Rung => FALSE
  BY <1>4, LadderAssumption
<1> QED BY <1>2, <1>3, <1>4, <1>5, <1>6, CalendarEased

LEMMA ReadingKeeps ==
  ASSUME DockingsInv, NEW b \in Bus, NEW k \in Km,
         ReadOdometer(b, k) \/ \E d \in Day : Service(b, k, d)
  PROVE  DockingsInv'
<1>1. TypeOK /\ PlanTypeOK /\ UnreadIsZero /\ today \in Day
  BY DEF DockingsInv, TypeOK, PlanTypeOK
<1>2. \E v \in Vehicle : v.km = k /\ Read(v) /\ Accepts(b, k) /\ bus' = [bus EXCEPT ![b] = v]
  <2>1. Reading(b, k, today) \in Vehicle /\ Reading(b, k, today).km = k /\ Read(Reading(b, k, today))
    BY <1>1, ReadingTypes
  <2>2. CASE ReadOdometer(b, k)
    BY <2>1, <2>2 DEF ReadOdometer, SetOdometer
  <2>3. ASSUME NEW d \in Day, Service(b, k, d)
        PROVE  \E v \in Vehicle : v.km = k /\ Read(v) /\ Accepts(b, k) /\ bus' = [bus EXCEPT ![b] = v]
    <3>1. Serviced(b, k, d) \in Vehicle /\ Serviced(b, k, d).km = k /\ Read(Serviced(b, k, d))
      BY <2>1 DEF Serviced, Vehicle, Read
    <3> QED BY <2>3, <3>1 DEF Service, RecordService
  <2> QED BY <2>2, <2>3
<1>3. bus' \in [Bus -> Vehicle] /\ UnreadIsZero' /\ \A x \in Bus : bus[x].km <= bus'[x].km
  BY <1>1, <1>2, ReadingRaises
<1>4. UNCHANGED <<ladder, slot, inspected, today, config>> /\ Request
  BY DEF ReadOdometer, SetOdometer, Service, RecordService
<1>5. PlanTypeOK' /\ ladder' \subseteq Rung
  BY <1>1, <1>3, <1>4, CountedUp DEF TypeOK, PlanTypeOK
<1>6. /\ slot' \in [Bus -> [Day -> Slot \cup {Empty}]]
      /\ inspected' \in [Bus -> [Day -> Entry \cup {None}]]
  BY <1>1, <1>4 DEF TypeOK
<1> QED BY <1>3, <1>4, <1>5, <1>6, CalendarEased

\* Steps that leave the calendar, the odometers and what was inspected alone.
LEMMA RestKeeps ==
  ASSUME DockingsInv, UNCHANGED <<config, bus, slot, inspected>>, ladder' \subseteq Rung,
         today' \in Day, work' \in 0 .. MaxWork
  PROVE  DockingsInv'
BY DEF DockingsInv, TypeOK, PlanTypeOK, UnreadIsZero, BookedInReach

LEMMA NextKeeps == ASSUME DockingsInv, [Next]_vars PROVE DockingsInv'
<1>1. ladder \subseteq Rung /\ today \in Day /\ work \in 0 .. MaxWork
  BY DEF DockingsInv, TypeOK, PlanTypeOK
<1>2. CASE Generate
  BY <1>2, GenerateKeeps
<1>3. CASE GenerateFails \/ UNCHANGED vars
  BY <1>1, <1>3, RestKeeps DEF GenerateFails, vars
<1>4. ASSUME NEW b \in Bus, NEW d \in Day, NEW k \in Km \cup {NoKm}, RecordDocking(b, d, k)
      PROVE  DockingsInv'
  BY <1>4, RecordDockingKeeps
<1>5. ASSUME NEW b \in Bus, NEW k \in Km, ReadOdometer(b, k) \/ \E d \in Day : Service(b, k, d)
      PROVE  DockingsInv'
  BY <1>5, ReadingKeeps
<1>6. ASSUME NEW b \in Bus, NEW n \in Day, BookByHand(b, n) \/ DeleteSlot(b, n) PROVE DockingsInv'
  BY <1>6, BookByHandKeeps, DeleteSlotKeeps
<1>7. ASSUME NEW b \in Bus, NEW n \in Day, NEW s \in {"scheduled", "done", "missed", "cancelled"},
             EditSlot(b, n, s)
      PROVE  DockingsInv'
  BY <1>7, EditSlotKeeps
<1>8. ASSUME NEW b \in Bus, NEW n \in Day, NEW m \in Day, MoveSlot(b, n, m) PROVE DockingsInv'
  BY <1>8, MoveSlotKeeps
<1>9. ASSUME NEW c \in Forms, ReplaceConfig(c) PROVE DockingsInv'
  BY <1>9, ReplaceConfigKeeps
<1>10. CASE SeedLadder
  BY <1>1, <1>10, CountedUp, RestKeeps DEF SeedLadder, planVars
<1>11. CASE NextDay
  <2>1. today' \in Day
    BY <1>1, <1>11, PlanAssumption DEF NextDay, Day
  <2> QED BY <1>1, <1>11, <2>1, RestKeeps DEF NextDay, planVars
<1> QED BY <1>2, <1>3, <1>4, <1>5, <1>6, <1>7, <1>8, <1>9, <1>10, <1>11 DEF Next

\* The invariant the theorems below rest on.
THEOREM DockingsInvariant == Spec => []DockingsInv
BY InitHolds, NextKeeps, PTL DEF Spec

\* However a booking was moved or edited, the bus is within reach of its mark.
THEOREM BookingsInReach == Spec => []BookedInReach
BY DockingsInvariant, PTL DEF DockingsInv

-----------------------------------------------------------------------------
\* Only a run writes the calendar without a request.
LEMMA OnlyARunWrites ==
  ASSUME DockingsInv, [Next]_vars, slot' # slot, work' = work
  PROVE  Generate
<1>1. Request => FALSE
  BY PlanAssumption DEF DockingsInv, TypeOK, PlanTypeOK, Request
<1>2. ~GenerateFails /\ ~SeedLadder /\ ~NextDay /\ ~UNCHANGED vars
  BY <1>1 DEF GenerateFails, SeedLadder, NextDay, vars
<1>3. \A b \in Bus, d \in Day :
        /\ \A k \in Km \cup {NoKm} : ~RecordDocking(b, d, k)
        /\ \A k \in Km : ~ReadOdometer(b, k) /\ ~Service(b, k, d)
        /\ ~BookByHand(b, d) /\ ~DeleteSlot(b, d)
        /\ \A s \in {"scheduled", "done", "missed", "cancelled"} : ~EditSlot(b, d, s)
        /\ \A m \in Day : ~MoveSlot(b, d, m)
  BY <1>1 DEF RecordDocking, ReadOdometer, Service, BookByHand, DeleteSlot, EditSlot, MoveSlot
<1>4. \A b \in Bus, k \in Km : ~ReadOdometer(b, k)
  BY <1>1 DEF ReadOdometer
<1>5. \A c \in Forms : ~ReplaceConfig(c)
  BY <1>1 DEF ReplaceConfig
<1> QED BY <1>2, <1>3, <1>4, <1>5 DEF Next

\* After a run the rung a bus owes stands on the calendar: it stood already, or
\* tonight's booking is for it.
LEMMA OwedStands ==
  ASSUME DockingsInv, Generate, NEW b \in Bus, NEW p \in Rung, p \in Owes(b)
  PROVE  \E n \in Day : slot'[b][n] \in [rung : {p}, status : {"scheduled", "done"}]
<1>1. TypeOK /\ today \in Day /\ ladder \subseteq Rung
  BY DEF DockingsInv, TypeOK, PlanTypeOK
<1>2. \A n \in Day : slot'[b][n] = Booked(b, n)
  BY DEF Generate
<1>3. \A q \in ToBook(b) : q = p
  BY <1>1, OneRungOwed DEF ToBook
<1>4. CASE p \in ToBook(b)
  <2>1. (CHOOSE q \in ToBook(b) : TRUE) = p
    BY <1>3, <1>4
  <2>2. slot'[b][today] = [rung |-> p, status |-> "scheduled"]
    BY <1>1, <1>2, <1>4, <2>1 DEF Booked
  <2> QED BY <1>1, <2>2
<1>5. CASE p \notin ToBook(b)
  <2>1. PICK n \in Day : Standing(Settled(b, n), p)
    BY <1>5 DEF ToBook
  <2>2. slot'[b][n] = Settled(b, n)
    BY <1>2, <1>3, <1>5 DEF Booked
  <2>3. Settled(b, n) \in Slot
    BY <1>1, <2>1, BookedTypes DEF Standing, Empty
  <2>4. Settled(b, n) \in [rung : {p}, status : {"scheduled", "done"}]
    BY <2>1, <2>3 DEF Standing, Slot
  <2> QED BY <2>2, <2>4
<1> QED BY <1>4, <1>5

\* A docking that slipped or was called off is booked again by the next run, as
\* long as the bus owes it.
THEOREM SlippedIsBookedAgain == Spec => SlippedRungIsRebooked
<1>1. DockingsInv /\ [Next]_vars =>
        [slot' # slot /\ work' = work =>
           \A b \in Bus, p \in Rung : p \in Owes(b) =>
             \E n \in Day : slot'[b][n] \in [rung : {p}, status : {"scheduled", "done"}]]_vars
  BY OnlyARunWrites, OwedStands
<1> QED BY <1>1, DockingsInvariant, PTL DEF Spec, SlippedRungIsRebooked

-----------------------------------------------------------------------------
(* SiteSettings.  A site is given its shifts with its row, so whoever holds *)
(* a form past its first statement holds the row too, or inserted it.       *)

Present(s) == site[s] # T!NoSite
HasRow(s) == settings[s] # T!NoRow

\* What a request relies on when it writes.
PutRests(t) ==
  /\ t.by # T!Seeding
  /\ t.row # T!NoRow => HasRow(t.site)
  /\ t.inserted => ~HasRow(t.site)
  /\ t.stage # "plans" /\ ~t.inserted => t.row # T!NoRow
  /\ t.stage = "write" => \A r \in T!Of(t.site, shift) : r.by = T!Seeding => r \in t.hit
Asks(w) ==
  /\ txn[w].kind \in {"get", "form", "put"} => txn[w].site \in Site /\ Present(txn[w].site)
  /\ txn[w].kind = "put" => PutRests(txn[w])

Inserts(w, s) == txn[w].kind = "put" /\ txn[w].inserted /\ txn[w].site = s
InsertedOnce ==
  \A s \in Site : \A v, w \in Worker : Inserts(v, s) /\ Inserts(w, s) => v = w

SitesOK ==
  /\ site \in [Site -> {T!NoSite} \cup
                       [active : BOOLEAN, floor : Int, link : Link \cup {T!NoLink}]]
  /\ settings = [s \in Site |-> settings[s]]
  /\ seeded = [s \in Site |-> seeded[s]]
  /\ txn = [w \in Worker |-> txn[w]]
  /\ asked \in Nat
RowsOK ==
  /\ \A s \in Site : HasRow(s) => Present(s)
  /\ \A s \in Site : ~HasRow(s) => T!Of(s, plans) = {}
  /\ \A s \in Site : Present(s) /\ ~HasRow(s) => "bus" \in seeded[s]

SettingsInv ==
  /\ SitesOK /\ RowsOK
  /\ T!NotOverruled /\ T!OperatedIsSeeded
  /\ \A w \in Worker : Asks(w)
  /\ InsertedOnce

\* A default shift joins only a site that has no row and nobody is inserting one.
NewDefaults ==
  \A s \in Site : \A r \in T!Of(s, shift') : r.by = T!Seeding =>
    \/ r \in T!Of(s, shift) \/ ~Present(s)
    \/ ~HasRow(s) /\ \A w \in Worker : ~Inserts(w, s)

LEMMA AsksKept ==
  ASSUME SettingsInv, NewDefaults,
         \A s \in Site : Present(s) => Present(s)',
         \A s \in Site : HasRow(s) => HasRow(s)',
         NEW w \in Worker, NEW t, txn[w] = t, txn'[w] = t,
         \A s \in Site : Inserts(w, s) => settings'[s] = settings[s]
  PROVE  Asks(w)'
<1>1. t.kind \in {"get", "form", "put"} => t.site \in Site /\ Present(t.site)'
  BY DEF SettingsInv, Asks
<1>2. ASSUME t.kind = "put" PROVE PutRests(t)'
  <2>1. t.site \in Site /\ Present(t.site) /\ PutRests(t)
    BY <1>2 DEF SettingsInv, Asks
  <2>2. t.row # T!NoRow => HasRow(t.site)'
    BY <2>1 DEF PutRests
  <2>3. t.inserted => ~HasRow(t.site)'
    BY <1>2, <2>1 DEF PutRests, Inserts, HasRow
  <2>4. ASSUME t.stage = "write", NEW r \in T!Of(t.site, shift'), r.by = T!Seeding
        PROVE  r \in t.hit
    <3>1. ~HasRow(t.site) => Inserts(w, t.site)
      BY <1>2, <2>1, <2>4 DEF PutRests, Inserts
    <3>2. r \in T!Of(t.site, shift)
      BY <2>1, <2>4, <3>1 DEF NewDefaults
    <3> QED BY <2>1, <2>4, <3>2 DEF PutRests
  <2> QED BY <2>1, <2>2, <2>3, <2>4 DEF PutRests, T!Of
<1> QED BY <1>1, <1>2 DEF Asks

\* A step of one request that writes no row.
LEMMA OneAsks ==
  ASSUME SettingsInv, UNCHANGED <<site, settings, plans, shift, seeded>>, asked' \in Nat,
         NEW w \in Worker, NEW t, txn' = [txn EXCEPT ![w] = t],
         t.kind \in {"get", "form", "put"} => t.site \in Site /\ Present(t.site),
         t.kind = "put" => PutRests(t),
         t.kind = "put" /\ t.inserted => Inserts(w, t.site) \/ \A v \in Worker \ {w} : ~Inserts(v, t.site)
  PROVE  SettingsInv'
<1>1. /\ txn' = [v \in Worker |-> txn'[v]] /\ txn'[w] = t
      /\ \A v \in Worker \ {w} : txn'[v] = txn[v]
  BY DEF SettingsInv, SitesOK
<1>2. SitesOK' /\ RowsOK' /\ T!NotOverruled' /\ T!OperatedIsSeeded'
  BY <1>1 DEF SettingsInv, SitesOK, RowsOK, Present, HasRow, T!NotOverruled, T!OperatedIsSeeded
<1>3. \A v \in Worker \ {w} : Asks(v)'
  BY <1>1, AsksKept DEF NewDefaults, Present, HasRow
<1>4. Asks(w)'
  BY <1>1 DEF Asks, PutRests, Present, HasRow
<1>5. InsertedOnce'
  BY <1>1 DEF SettingsInv, InsertedOnce, Inserts
<1> QED BY <1>2, <1>3, <1>4, <1>5 DEF SettingsInv

\* One request is over, having written rows.
LEMMA OneIsDone ==
  ASSUME SettingsInv, SitesOK', RowsOK', T!NotOverruled', T!OperatedIsSeeded', NewDefaults,
         \A s \in Site : Present(s) => Present(s)',
         \A s \in Site : HasRow(s) => HasRow(s)',
         NEW w \in Worker, NEW t, txn' = [txn EXCEPT ![w] = t], t.kind \notin {"get", "put"},
         t.kind = "form" => t.site \in Site /\ Present(t.site),
         \A v \in Worker \ {w}, s \in Site : Inserts(v, s) => settings'[s] = settings[s]
  PROVE  SettingsInv'
<1>1. txn'[w] = t /\ \A v \in Worker \ {w} : txn'[v] = txn[v]
  BY DEF SettingsInv, SitesOK
<1>2. \A v \in Worker \ {w} : Asks(v)'
  BY <1>1, AsksKept
<1>3. Asks(w)'
  BY <1>1 DEF Asks
<1>4. InsertedOnce'
  BY <1>1 DEF SettingsInv, InsertedOnce, Inserts
<1> QED BY <1>2, <1>3, <1>4 DEF SettingsInv

\* So it is when nobody's request is touched.
LEMMA NoneAsks ==
  ASSUME SettingsInv, SitesOK', RowsOK', T!NotOverruled', T!OperatedIsSeeded', NewDefaults,
         \A s \in Site : Present(s) => Present(s)',
         \A s \in Site : HasRow(s) => HasRow(s)',
         UNCHANGED txn,
         \A v \in Worker, s \in Site : Inserts(v, s) => settings'[s] = settings[s]
  PROVE  SettingsInv'
<1>1. \A v \in Worker : Asks(v)'
  BY AsksKept
<1>2. InsertedOnce'
  BY DEF SettingsInv, InsertedOnce, Inserts
<1> QED BY <1>1, <1>2 DEF SettingsInv

LEMMA IdleKinds == T!Idle.kind = "idle"
BY DEF T!Idle

LEMMA SettingsInit == T!Init => SettingsInv
<1> SUFFICES ASSUME T!Init PROVE SettingsInv
  OBVIOUS
<1>1. \A s \in Site : ~HasRow(s)
  BY DEF T!Init, HasRow
<1>2. SitesOK
  <2>1. site \in [Site -> {T!NoSite, [active |-> TRUE, floor |-> T!Early, link |-> T!NoLink]}]
    BY DEF T!Init
  <2>2. [active |-> TRUE, floor |-> T!Early, link |-> T!NoLink]
          \in [active : BOOLEAN, floor : Int, link : Link \cup {T!NoLink}]
    BY DEF T!Early
  <2>3. settings = [s \in Site |-> T!NoRow] /\ txn = [w \in Worker |-> T!Idle] /\ asked = 0
    BY DEF T!Init
  <2>4. seeded = [s \in Site |-> IF site[s] = T!NoSite THEN {} ELSE {"bus"}]
    BY DEF T!Init
  <2> QED BY <2>1, <2>2, <2>3, <2>4 DEF SitesOK
<1>3. RowsOK /\ T!NotOverruled /\ T!OperatedIsSeeded
  BY <1>1 DEF RowsOK, T!NotOverruled, T!OperatedIsSeeded, T!Init, T!Of, Present, HasRow
<1>4. \A w \in Worker : txn[w] = T!Idle
  BY DEF T!Init
<1>5. InsertedOnce /\ \A w \in Worker : Asks(w)
  BY <1>4, IdleKinds DEF InsertedOnce, Inserts, Asks
<1> QED BY <1>2, <1>3, <1>5 DEF SettingsInv

-----------------------------------------------------------------------------
LEMMA AskedUp == ASSUME SettingsInv, T!Request PROVE asked' \in Nat /\ asked + 1 \in Nat /\ asked + 1 # 0
BY DEF SettingsInv, SitesOK, T!Request

LEMMA ReadKeeps == ASSUME SettingsInv, NEW w \in Worker, NEW s \in Site, T!Read(w, s) PROVE SettingsInv'
<1> DEFINE t == [kind |-> "get", site |-> s, first |-> T!Untouched(s), row |-> settings[s],
                 stage |-> "plans", codes |-> {}]
<1>1. T!Request /\ txn' = [txn EXCEPT ![w] = t]
  BY DEF T!Read, T!Begin
<1>2. UNCHANGED <<site, settings, plans, shift, seeded>> /\ Present(s)
  BY DEF T!Read, T!rows, Present
<1>3. t.kind = "get" /\ t.site = s
  OBVIOUS
<1> HIDE DEF t
<1> QED BY <1>1, <1>2, <1>3, AskedUp, OneAsks

LEMMA FirstReadKeeps == ASSUME SettingsInv, NEW w \in Worker, T!FirstRead(w) PROVE SettingsInv'
<1> DEFINE s == txn[w].site
           d == T!NewConfig({"bus"})
           t == T!Shown(s, T!Form(d, {}, DefaultShifts))
<1>1. s \in Site /\ Present(s)
  BY DEF T!FirstRead, SettingsInv, Asks
<1>2. CASE ~T!Untouched(s)
  <2>1. txn' = [txn EXCEPT ![w] = T!Idle] /\ UNCHANGED <<site, settings, plans, shift, seeded, asked>>
    BY <1>2 DEF T!FirstRead, T!Fail, T!Becomes, T!rows
  <2> QED BY <2>1, IdleKinds, OneAsks DEF SettingsInv, SitesOK
<1>3. CASE T!Untouched(s)
  <2>1. /\ settings' = [settings EXCEPT ![s] = d]
        /\ shift' = shift \cup T!Windows(s, DefaultShifts, T!Seeding)
        /\ txn' = [txn EXCEPT ![w] = t]
        /\ UNCHANGED <<site, plans, seeded, asked>>
    BY <1>3 DEF T!FirstRead, T!Becomes
  <2>2. ~HasRow(s) /\ \A v \in Worker : ~Inserts(v, s)
    BY <1>3 DEF T!FirstRead, T!Untouched, HasRow, T!InsertedByOther, Inserts
  <2>3. t.kind = "form" /\ t.site = s
    BY DEF T!Shown
  <2>4. d # T!NoRow /\ d.categories = {"bus"}
    BY DEF T!NewConfig, T!NoRow
  <2> HIDE DEF d, t
  <2>5. settings'[s] = d /\ \A x \in Site \ {s} : settings'[x] = settings[x]
    BY <1>1, <2>1 DEF SettingsInv, SitesOK
  <2>6. NewDefaults /\ \A x \in Site \ {s} : T!Of(x, shift') = T!Of(x, shift)
    BY <2>1, <2>2 DEF NewDefaults, T!Of, T!Windows
  <2>7. SitesOK'
    BY <2>1 DEF SettingsInv, SitesOK
  <2>8. /\ \A x \in Site : Present(x)' <=> Present(x)
        /\ \A x \in Site : HasRow(x)' <=> HasRow(x) \/ x = s
    BY <2>1, <2>4, <2>5 DEF Present, HasRow
  <2>9. RowsOK'
    BY <1>1, <2>1, <2>8 DEF SettingsInv, RowsOK
  <2>10. T!NotOverruled'
    BY <2>1, <2>2, <2>6 DEF SettingsInv, RowsOK, T!NotOverruled
  <2>11. T!OperatedIsSeeded'
    BY <1>1, <2>1, <2>2, <2>4, <2>5 DEF SettingsInv, RowsOK, T!OperatedIsSeeded, HasRow
  <2>12. \A v \in Worker \ {w}, x \in Site : Inserts(v, x) => settings'[x] = settings[x]
    BY <2>2, <2>5
  <2> QED BY <1>1, <2>1, <2>3, <2>6, <2>7, <2>8, <2>9, <2>10, <2>11, <2>12, OneIsDone
<1> QED BY <1>2, <1>3

\* The other requests that only read, or that hold nothing when they are over.
LEMMA QuietKeeps ==
  ASSUME SettingsInv, NEW w \in Worker, NEW t, txn' = [txn EXCEPT ![w] = t],
         UNCHANGED <<site, settings, plans, shift, seeded>>, asked' \in Nat,
         t.kind \notin {"get", "form", "put"}
  PROVE  SettingsInv'
BY OneAsks

LEMMA LoadPlansKeeps == ASSUME SettingsInv, NEW w \in Worker, T!LoadPlans(w) PROVE SettingsInv'
<1> DEFINE t == [txn[w] EXCEPT !.stage = "shifts", !.codes = T!Codes(T!Of(txn[w].site, plans))]
<1>1. txn' = [txn EXCEPT ![w] = t] /\ UNCHANGED <<site, settings, plans, shift, seeded, asked>>
  BY DEF T!LoadPlans, T!Becomes, T!rows
<1>2. t.kind = "get" /\ t.site = txn[w].site
  BY DEF T!LoadPlans
<1>3. t.site \in Site /\ Present(t.site) /\ asked' \in Nat
  BY <1>1, <1>2 DEF SettingsInv, SitesOK, Asks, T!LoadPlans
<1> HIDE DEF t
<1> QED BY <1>1, <1>2, <1>3, OneAsks

LEMMA LoadShiftsKeeps == ASSUME SettingsInv, NEW w \in Worker, T!LoadShifts(w) PROVE SettingsInv'
<1> DEFINE t == T!Shown(txn[w].site,
                  T!Form(txn[w].row, txn[w].codes, T!WindowsOf(T!Of(txn[w].site, shift))))
<1>1. txn' = [txn EXCEPT ![w] = t] /\ UNCHANGED <<site, settings, plans, shift, seeded, asked>>
  BY DEF T!LoadShifts, T!Becomes, T!rows
<1>2. t.kind = "form" /\ t.site = txn[w].site
  BY DEF T!Shown
<1>3. t.site \in Site /\ Present(t.site) /\ asked' \in Nat
  BY <1>1, <1>2 DEF SettingsInv, SitesOK, Asks, T!LoadShifts
<1> HIDE DEF t
<1> QED BY <1>1, <1>2, <1>3, OneAsks

LEMMA LoadRests ==
  ASSUME SettingsInv, NEW s, NEW form
  PROVE  LET t == T!Load(s, form)
         IN  t.kind = "put" /\ t.site = s /\ ~t.inserted /\ PutRests(t)
BY DEF T!Load, PutRests, HasRow, T!Seeding, SettingsInv, SitesOK

LEMMA SaveKeeps ==
  ASSUME SettingsInv, NEW w \in Worker, NEW s, NEW form, s \in Site /\ Present(s),
         T!Request, txn' = [txn EXCEPT ![w] = T!Load(s, form)], UNCHANGED T!rows
  PROVE  SettingsInv'
<1> DEFINE t == T!Load(s, form)
<1>1. t.kind = "put" /\ t.site = s /\ ~t.inserted /\ PutRests(t)
  BY LoadRests
<1>2. txn' = [txn EXCEPT ![w] = t] /\ UNCHANGED <<site, settings, plans, shift, seeded>>
  BY DEF T!rows
<1> HIDE DEF t
<1> QED BY <1>1, <1>2, AskedUp, OneAsks

LEMMA DeletePlansKeeps == ASSUME SettingsInv, NEW w \in Worker, T!DeletePlans(w) PROVE SettingsInv'
<1> DEFINE first == txn[w].row = T!NoRow
           t == [txn[w] EXCEPT !.stage = "shifts", !.inserted = first, !.hit = T!Of(txn[w].site, plans)]
<1>1. /\ txn[w].kind = "put" /\ txn[w].site \in Site /\ Present(txn[w].site) /\ PutRests(txn[w])
      /\ asked \in Nat
  BY DEF T!DeletePlans, SettingsInv, SitesOK, Asks
<1>2. CASE first /\ ~T!Untouched(txn[w].site)
  <2>1. txn' = [txn EXCEPT ![w] = T!Idle] /\ UNCHANGED <<site, settings, plans, shift, seeded, asked>>
    BY <1>2 DEF T!DeletePlans, T!Fail, T!Becomes, T!rows
  <2> QED BY <1>1, <2>1, IdleKinds, QuietKeeps
<1>3. CASE ~(first /\ ~T!Untouched(txn[w].site))
  <2>1. txn' = [txn EXCEPT ![w] = t] /\ UNCHANGED <<site, settings, plans, shift, seeded, asked>>
    BY <1>3 DEF T!DeletePlans, T!Becomes, T!rows
  <2>2. /\ t.kind = "put" /\ t.site = txn[w].site /\ t.row = txn[w].row /\ t.by = txn[w].by
        /\ t.stage = "shifts" /\ t.inserted = first
    BY <1>1 DEF T!DeletePlans
  <2>3. PutRests(t)
    BY <1>1, <1>3, <2>2 DEF PutRests, HasRow, T!Untouched
  <2>4. t.inserted => \A v \in Worker \ {w} : ~Inserts(v, t.site)
    BY <2>2 DEF T!DeletePlans, T!InsertedByOther, Inserts
  <2> HIDE DEF t
  <2> QED BY <1>1, <2>1, <2>2, <2>3, <2>4, OneAsks
<1> QED BY <1>2, <1>3

LEMMA DeleteShiftsKeeps == ASSUME SettingsInv, NEW w \in Worker, T!DeleteShifts(w) PROVE SettingsInv'
<1> DEFINE q == txn[w]
           t == [q EXCEPT !.stage = "write", !.gone = q.hit \cap plans, !.hit = T!Of(q.site, shift)]
<1>1. q.kind = "put" /\ q.site \in Site /\ Present(q.site) /\ PutRests(q) /\ asked \in Nat
  BY DEF T!DeleteShifts, SettingsInv, SitesOK, Asks
<1>2. txn' = [txn EXCEPT ![w] = t] /\ UNCHANGED <<site, settings, plans, shift, seeded, asked>>
  BY DEF T!DeleteShifts, T!Becomes, T!rows
<1>3. /\ t.kind = "put" /\ t.site = q.site /\ t.row = q.row /\ t.by = q.by
      /\ t.stage = "write" /\ t.inserted = q.inserted /\ q.stage = "shifts"
  BY <1>1 DEF T!DeleteShifts
<1>4. t.hit = T!Of(q.site, shift)
  BY <1>1 DEF T!DeleteShifts
<1>5. PutRests(t)
  BY <1>1, <1>3, <1>4 DEF PutRests
<1>6. t.inserted => Inserts(w, t.site)
  BY <1>1, <1>3 DEF Inserts
<1> HIDE DEF t
<1> QED BY <1>1, <1>2, <1>3, <1>5, <1>6, OneAsks

LEMMA WriteKeeps == ASSUME SettingsInv, NEW w \in Worker, T!Write(w) PROVE SettingsInv'
<1> DEFINE t == txn[w]
           s == t.site
           old == IF t.inserted THEN T!NewConfig({"bus"}) ELSE t.row
           base == IF t.inserted THEN old ELSE settings[s]
           new == T!Written(base, old, t.form)
           more == IF T!Seeds(old, t.form) THEN t.form.categories ELSE {}
<1>1. t.kind = "put" /\ s \in Site /\ Present(s) /\ PutRests(t) /\ asked \in Nat /\ t.stage = "write"
  BY DEF T!Write, SettingsInv, SitesOK, Asks
<1>2. CASE T!Clashes(w) # {}
  <2>1. txn' = [txn EXCEPT ![w] = T!Idle] /\ UNCHANGED <<site, settings, plans, shift, seeded, asked>>
    BY <1>2 DEF T!Write, T!Fail, T!Becomes, T!rows
  <2> QED BY <1>1, <2>1, IdleKinds, QuietKeeps
<1>3. CASE T!Clashes(w) = {}
  <2>1. /\ settings' = [settings EXCEPT ![s] = new]
        /\ plans' = (plans \ t.gone) \cup T!Plans(s, t.form.codes, t.by)
        /\ shift' = (shift \ t.hit) \cup T!Windows(s, t.form.windows, t.by)
        /\ seeded' = [seeded EXCEPT ![s] = @ \cup more]
        /\ txn' = [txn EXCEPT ![w] = T!Idle]
        /\ UNCHANGED <<site, asked>>
    BY <1>3 DEF T!Write, T!Becomes
  <2>2. HasRow(s) \/ t.inserted
    BY <1>1 DEF PutRests
  <2>3. base.categories \subseteq seeded[s]
    BY <1>1, <2>2 DEF SettingsInv, RowsOK, T!OperatedIsSeeded, PutRests, HasRow, T!NewConfig
  <2>4. new # T!NoRow /\ new.categories \subseteq seeded[s] \cup more
    <3>1. new.categories = IF T!Seeds(old, t.form) THEN t.form.categories ELSE base.categories
      BY DEF T!Written, T!Seeds, T!Dirty
    <3>2. new # T!NoRow
      BY DEF T!Written, T!NoRow
    <3> QED BY <2>3, <3>1, <3>2
  <2> HIDE DEF new, more, base, old
  <2>5. /\ settings'[s] = new /\ \A x \in Site \ {s} : settings'[x] = settings[x]
        /\ seeded'[s] = seeded[s] \cup more /\ \A x \in Site \ {s} : seeded'[x] = seeded[x]
    BY <1>1, <2>1 DEF SettingsInv, SitesOK
  <2>6. /\ \A x \in Site \ {s} : T!Of(x, shift') \subseteq T!Of(x, shift) /\ T!Of(x, plans') \subseteq T!Of(x, plans)
        /\ \A r \in T!Of(s, shift') : r.by # T!Seeding
    BY <1>1, <2>1 DEF PutRests, T!Of, T!Windows, T!Plans
  <2>7. NewDefaults
    BY <2>6 DEF NewDefaults
  <2>8. SitesOK'
    BY <1>1, <2>1 DEF SettingsInv, SitesOK
  <2>9. /\ \A x \in Site : Present(x)' <=> Present(x)
        /\ \A x \in Site : HasRow(x)' <=> HasRow(x) \/ x = s
    BY <2>1, <2>4, <2>5 DEF Present, HasRow
  <2>10. RowsOK'
    BY <1>1, <2>5, <2>6, <2>9 DEF SettingsInv, RowsOK
  <2>11. T!NotOverruled'
    BY <2>6 DEF SettingsInv, T!NotOverruled
  <2>12. T!OperatedIsSeeded'
    BY <2>4, <2>5 DEF SettingsInv, T!OperatedIsSeeded
  <2>13. \A v \in Worker \ {w}, x \in Site : Inserts(v, x) => settings'[x] = settings[x]
    <3>1. SUFFICES ASSUME NEW v \in Worker \ {w}, Inserts(v, s) PROVE FALSE
      BY <2>5
    <3>2. ~HasRow(s)
      BY <3>1 DEF SettingsInv, Asks, PutRests, Inserts
    <3>3. Inserts(w, s)
      BY <1>1, <2>2, <3>2 DEF Inserts
    <3> QED BY <1>1, <3>1, <3>3 DEF SettingsInv, InsertedOnce
  <2> QED BY <1>1, <2>1, <2>7, <2>8, <2>9, <2>10, <2>11, <2>12, <2>13, IdleKinds, OneIsDone
<1> QED BY <1>2, <1>3

LEMMA CreateSiteKeeps ==
  ASSUME SettingsInv, NEW s \in Site, NEW l \in Link \cup {T!NoLink}, NEW categories,
         NEW floor \in Int, T!CreateSite(s, l, categories, floor)
  PROVE  SettingsInv'
<1> DEFINE row == [active |-> TRUE, floor |-> floor, link |-> l]
           new == T!NewConfig(categories)
<1>1. /\ site' = [site EXCEPT ![s] = row]
      /\ settings' = [settings EXCEPT ![s] = new]
      /\ shift' = shift \cup T!Windows(s, DefaultShifts, T!Seeding)
      /\ seeded' = [seeded EXCEPT ![s] = categories]
      /\ UNCHANGED <<plans, txn>> /\ ~Present(s) /\ asked' \in Nat
  BY AskedUp DEF T!CreateSite, T!Catalogued, Present
<1>2. /\ row \in [active : BOOLEAN, floor : Int, link : Link \cup {T!NoLink}] /\ row # T!NoSite
      /\ new # T!NoRow /\ new.categories = categories
  BY DEF T!NoSite, T!NewConfig, T!NoRow
<1> HIDE DEF row, new
<1>3. /\ site'[s] = row /\ settings'[s] = new /\ seeded'[s] = categories
      /\ \A x \in Site \ {s} : /\ site'[x] = site[x] /\ settings'[x] = settings[x]
                               /\ seeded'[x] = seeded[x]
  BY <1>1 DEF SettingsInv, SitesOK
<1>4. NewDefaults /\ \A x \in Site \ {s} : T!Of(x, shift') = T!Of(x, shift)
  BY <1>1 DEF NewDefaults, T!Of, T!Windows
<1>5. T!Of(s, plans) = {} /\ ~HasRow(s)
  BY <1>1 DEF SettingsInv, RowsOK
<1>6. SitesOK'
  BY <1>1, <1>2 DEF SettingsInv, SitesOK
<1>7. /\ \A x \in Site : Present(x)' <=> Present(x) \/ x = s
      /\ \A x \in Site : HasRow(x)' <=> HasRow(x) \/ x = s
  BY <1>2, <1>3 DEF Present, HasRow
<1>8. RowsOK'
  BY <1>1, <1>3, <1>7 DEF SettingsInv, RowsOK
<1>9. T!NotOverruled'
  BY <1>1, <1>4, <1>5 DEF SettingsInv, T!NotOverruled
<1>10. T!OperatedIsSeeded'
  BY <1>2, <1>3 DEF SettingsInv, T!OperatedIsSeeded
<1>11. \A v \in Worker, x \in Site : Inserts(v, x) => settings'[x] = settings[x]
  BY <1>1, <1>3 DEF SettingsInv, Asks, Inserts
<1> QED BY <1>1, <1>4, <1>6, <1>7, <1>8, <1>9, <1>10, <1>11, NoneAsks

\* Steps that leave the configurations and who is asking alone.
LEMMA SiteEdited ==
  ASSUME SettingsInv, SitesOK', UNCHANGED <<settings, plans, shift, seeded, txn>>,
         \A s \in Site : Present(s)' <=> Present(s)
  PROVE  SettingsInv'
<1>1. \A s \in Site : HasRow(s)' <=> HasRow(s)
  BY DEF HasRow
<1>2. RowsOK' /\ T!NotOverruled' /\ T!OperatedIsSeeded' /\ NewDefaults
  BY <1>1 DEF SettingsInv, RowsOK, T!NotOverruled, T!OperatedIsSeeded, NewDefaults
<1> QED BY <1>1, <1>2, NoneAsks

LEMMA SiteRow ==
  ASSUME SettingsInv, NEW s \in Site, Present(s), asked' \in Nat, UNCHANGED <<settings, plans, shift, seeded, txn>>,
         NEW row \in [active : BOOLEAN, floor : Int, link : Link \cup {T!NoLink}],
         site' = [site EXCEPT ![s] = row]
  PROVE  SettingsInv'
<1>1. row # T!NoSite
  <2>1. DOMAIN row = {"active", "floor", "link"}
    OBVIOUS
  <2>2. DOMAIN T!NoSite = {"active"}
    BY DEF T!NoSite
  <2> QED BY <2>1, <2>2
<1>2. site'[s] = row /\ \A x \in Site \ {s} : site'[x] = site[x]
  BY DEF SettingsInv, SitesOK
<1>3. SitesOK'
  BY DEF SettingsInv, SitesOK
<1>4. \A x \in Site : Present(x)' <=> Present(x)
  BY <1>1, <1>2 DEF Present
<1> QED BY <1>3, <1>4, SiteEdited

LEMMA PresentRow ==
  ASSUME SettingsInv, NEW s \in Site, Present(s)
  PROVE  site[s] \in [active : BOOLEAN, floor : Int, link : Link \cup {T!NoLink}]
BY DEF SettingsInv, SitesOK, Present

LEMMA UpdateSiteKeeps ==
  ASSUME SettingsInv, NEW s \in Site, NEW l \in Link \cup {T!NoLink}, NEW floor \in Int,
         T!UpdateSite(s, l, floor)
  PROVE  SettingsInv'
<1> DEFINE row == [site[s] EXCEPT !.link = T!Relinked(site[s], l), !.floor = floor]
<1>1. Present(s) /\ asked' \in Nat /\ UNCHANGED <<settings, plans, shift, seeded, txn>>
  BY AskedUp DEF T!UpdateSite, Present
<1>2. row \in [active : BOOLEAN, floor : Int, link : Link \cup {T!NoLink}]
  BY <1>1, PresentRow DEF T!Relinked
<1>3. site' = [site EXCEPT ![s] = row]
  BY DEF T!UpdateSite
<1> HIDE DEF row
<1> QED BY <1>1, <1>2, <1>3, SiteRow

LEMMA SetSiteActiveKeeps ==
  ASSUME SettingsInv, NEW s \in Site, NEW on \in BOOLEAN, T!SetSiteActive(s, on)
  PROVE  SettingsInv'
<1> DEFINE row == [site[s] EXCEPT !.active = on]
<1>1. Present(s) /\ asked' \in Nat /\ UNCHANGED <<settings, plans, shift, seeded, txn>>
  BY AskedUp DEF T!SetSiteActive, Present
<1>2. row \in [active : BOOLEAN, floor : Int, link : Link \cup {T!NoLink}]
  BY <1>1, PresentRow
<1>3. site' = [site EXCEPT ![s] = row]
  BY DEF T!SetSiteActive
<1> HIDE DEF row
<1> QED BY <1>1, <1>2, <1>3, SiteRow

LEMMA SameSites ==
  ASSUME SettingsInv, UNCHANGED <<site, settings, plans, shift, seeded, txn>>, asked' \in Nat
  PROVE  SettingsInv'
<1>1. SitesOK' /\ \A s \in Site : Present(s)' <=> Present(s)
  BY DEF SettingsInv, SitesOK, Present
<1> QED BY <1>1, SiteEdited

LEMMA StepKeeps == ASSUME SettingsInv, NEW w \in Worker, T!Step(w) PROVE SettingsInv'
<1>1. asked \in Nat
  BY DEF SettingsInv, SitesOK
<1>2. CASE T!CloseForm(w)
  <2>1. txn' = [txn EXCEPT ![w] = T!Idle] /\ UNCHANGED <<site, settings, plans, shift, seeded, asked>>
    BY <1>2 DEF T!CloseForm, T!Fail, T!Becomes, T!rows
  <2> QED BY <1>1, <2>1, IdleKinds, QuietKeeps
<1>3. CASE T!SaveShown(w)
  <2>1. /\ T!Request /\ txn' = [txn EXCEPT ![w] = T!Load(txn[w].site, txn[w].form)]
        /\ UNCHANGED T!rows /\ txn[w].kind = "form"
    BY <1>3 DEF T!SaveShown
  <2>2. txn[w].site \in Site /\ Present(txn[w].site)
    BY <2>1 DEF SettingsInv, Asks
  <2> QED BY <2>1, <2>2, SaveKeeps
<1>4. CASE T!ReplacePlans(w)
  <2>1. txn' = [txn EXCEPT ![w] = T!Idle] /\ UNCHANGED <<site, settings, plans, shift, seeded, asked>>
    BY <1>4 DEF T!ReplacePlans, T!Fail, T!Becomes, T!rows
  <2> QED BY <1>1, <2>1, IdleKinds, QuietKeeps
<1>5. CASE T!FileEntry(w)
  <2>1. txn' = [txn EXCEPT ![w] = T!Idle] /\ UNCHANGED <<site, settings, plans, shift, seeded, asked>>
    BY <1>5 DEF T!FileEntry, T!Becomes
  <2> QED BY <1>1, <2>1, IdleKinds, QuietKeeps
<1> QED BY <1>2, <1>3, <1>4, <1>5, FirstReadKeeps, LoadPlansKeeps, LoadShiftsKeeps,
           DeletePlansKeeps, DeleteShiftsKeeps, WriteKeeps DEF T!Step

LEMMA BegunKeeps ==
  ASSUME SettingsInv, NEW w \in Worker, NEW t, T!Begin(w, t), UNCHANGED T!rows,
         t.kind \notin {"get", "form", "put"}
  PROVE  SettingsInv'
<1>1. T!Request /\ txn' = [txn EXCEPT ![w] = t] /\ UNCHANGED <<site, settings, plans, shift, seeded>>
  BY DEF T!Begin, T!rows
<1> QED BY <1>1, AskedUp, QuietKeeps

LEMMA SettingsNext == ASSUME SettingsInv, [T!Next]_T!vars PROVE SettingsInv'
<1>1. asked \in Nat
  BY DEF SettingsInv, SitesOK
<1>2. ASSUME NEW w \in Worker, T!Step(w) PROVE SettingsInv'
  BY <1>2, StepKeeps
<1>3. ASSUME NEW w \in Worker, NEW s \in Site, T!Read(w, s) PROVE SettingsInv'
  BY <1>3, ReadKeeps
<1>4. ASSUME NEW w \in Worker, NEW s \in Site, NEW f \in Saves, T!Save(w, s, f) PROVE SettingsInv'
  BY <1>4, SaveKeeps DEF T!Save, T!Begin, Present
<1>5. ASSUME NEW w \in Worker, NEW s \in Site, NEW f \in CycleForms, T!SaveCycles(w, s, f)
      PROVE  SettingsInv'
  <2> DEFINE t == [kind |-> "cycles", site |-> s, form |-> f, loaded |-> cycle[s]]
  <2>1. T!Begin(w, t) /\ UNCHANGED T!rows /\ t.kind = "cycles"
    BY <1>5 DEF T!SaveCycles
  <2> HIDE DEF t
  <2> QED BY <2>1, BegunKeeps
<1>6. ASSUME NEW w \in Worker, NEW s \in Site, NEW d \in 1 .. LastDay, T!CheckEntry(w, s, d)
      PROVE  SettingsInv'
  <2> DEFINE t == [kind |-> "entry", site |-> s, day |-> d]
  <2>1. T!Begin(w, t) /\ UNCHANGED T!rows /\ t.kind = "entry"
    BY <1>6 DEF T!CheckEntry
  <2> HIDE DEF t
  <2> QED BY <2>1, BegunKeeps
<1>7. ASSUME NEW s \in Site, NEW l \in Link \cup {T!NoLink}, NEW d \in {T!Early, 1},
             (\E c \in NewCategories : T!CreateSite(s, l, c, d)) \/ T!UpdateSite(s, l, d)
      PROVE  SettingsInv'
  <2>1. d \in Int
    BY DEF T!Early
  <2> QED BY <1>7, <2>1, CreateSiteKeeps, UpdateSiteKeeps
<1>8. ASSUME NEW s \in Site, NEW on \in BOOLEAN, T!SetSiteActive(s, on) PROVE SettingsInv'
  BY <1>8, SetSiteActiveKeeps
<1>9. ASSUME NEW e \in filed, NEW d \in 1 .. LastDay, T!CorrectEntry(e, d) PROVE SettingsInv'
  <2>1. T!Request /\ UNCHANGED <<site, settings, plans, shift, seeded, txn>>
    BY <1>9 DEF T!CorrectEntry
  <2> QED BY <2>1, AskedUp, SameSites
<1>10. CASE T!NextDay
  BY <1>1, <1>10, SameSites DEF T!NextDay
<1>11. CASE UNCHANGED T!vars
  BY <1>1, <1>11, SameSites DEF T!vars, T!rows
<1> QED BY <1>2, <1>3, <1>4, <1>5, <1>6, <1>7, <1>8, <1>9, <1>10, <1>11 DEF T!Next

\* A default shift is never found beside a plan a manager sent, whoever touches
\* the site for the first time meanwhile.
THEOREM DefaultsGiveWay == T!Spec => []NotOverruled
<1>1. SettingsInv => NotOverruled
  BY DEF SettingsInv, NotOverruled
<1> QED BY <1>1, SettingsInit, SettingsNext, PTL DEF T!Spec

\* Whatever saves overlap, the checklists of a category a site operates in have
\* been given to it.
THEOREM OperatedHasLists == T!Spec => []OperatedIsSeeded
<1>1. SettingsInv => OperatedIsSeeded
  BY DEF SettingsInv, OperatedIsSeeded
<1> QED BY <1>1, SettingsInit, SettingsNext, PTL DEF T!Spec

-----------------------------------------------------------------------------
(* The two side by side.                                                   *)

\* What a component keeps by itself it keeps while the other moves.
THEOREM PlansAreApart == PlansSpec => Spec /\ T!Spec
<1>1. PlansInit => Init /\ T!Init
  BY DEF PlansInit
<1>2. [PlansNext]_allVars => [Next]_vars /\ [T!Next]_(T!vars)
  <2> USE DEF settingVars, vars, T!vars, T!rows
  <2>1. CASE UNCHANGED allVars
    BY <2>1 DEF allVars
  <2>2. CASE PlansNext
    BY <2>2, Zenon DEF PlansNext
  <2> QED BY <2>1, <2>2
<1> QED BY <1>1, <1>2, PTL DEF PlansSpec, Spec, T!Spec
=============================================================================
