------------------------- MODULE DailyReportProofs -------------------------
(***************************************************************************)
(* Theorems about the reports of a depot, for any sites, buses, calendar,  *)
(* readers and requests, one part for each module.                         *)
(*                                                                         *)
(* DailyReport and OffRoad: requests on the off-road list are assumed not  *)
(* to overlap where the theorem says Serial: what a request loaded is then *)
(* what it commits over, and that is what stands in for the unique key the *)
(* table has not.                                                          *)
(*                                                                         *)
(* Investigations: the columns a request was not sent stay as they are.    *)
(* Listing: ListingInv says what a reader has been told so far, and        *)
(* WalkInv what a walk over pages still owes and where it stands.          *)
(*                                                                         *)
(* Each theorem is about a component's own specification; ReportsAreApart  *)
(* says that all of them hold of the components side by side.              *)
(***************************************************************************)
EXTENDS Reports, FiniteSetTheorems, TLAPS

\* A row a form was folded into: its promise is whole, its dates in order.
Sound(c) ==
  /\ c.days > 0 => c.ready # NoDate
  /\ c.ready # NoDate => c.days # NoDays
  /\ c.returned # NoDate => c.since <= c.returned

\* What a request is about to write still fits what it loaded.
RequestFits(q) ==
  /\ Sound(q.now)
  /\ q.id = NewCase => OpenCases(q.now.bus) = {}
  /\ q.id # NewCase =>
       /\ q.was = cases[q.id] /\ q.now.bus = q.was.bus
       /\ q.was.returned # NoDate => q.now.returned # NoDate

\* No row is ever deleted: what was loaded is still there.
Loaded(q) == q.id # NewCase => Held(q.id) /\ q.was # NoCase

ListInv ==
  /\ TypeOK
  /\ \A r \in Request : request[r] # Idle => Loaded(request[r])
  /\ Serial =>
       /\ \A i \in CaseId : Held(i) => Sound(cases[i])
       /\ OneOpenCase
       /\ \A r \in Request : request[r] # Idle => RequestFits(request[r])

\* Each site of a night is still to come, under way, sealed or logged.
NightCovers ==
  /\ night.stage # "running" => job[Nightly] = Free
  /\ night.stage = "running" => night.day # NoDate
  /\ night.stage = "finished" /\ night.day # NoDate => night.left = {}
  /\ job[Nightly] # Free => job[Nightly].day = night.day
  /\ night.stage # "waiting" /\ night.day # NoDate =>
       \A s \in night.listed :
         \/ Frozen(s, night.day) \/ s \in night.failed \/ s \in night.left
         \/ job[Nightly] # Free /\ job[Nightly].site = s

-----------------------------------------------------------------------------
(* The list.                                                               *)
LEMMA CaseShape ==
  /\ NoCase \notin Case
  /\ \A c \in Case : /\ c.bus \in Bus /\ c.since \in Day /\ c.days \in Int /\ c.ready \in Nat
                     /\ c.returned \in Day \cup {NoDate} /\ c.since \in Nat
                     /\ c.returned \in Nat
                     /\ c = [bus |-> c.bus, since |-> c.since, days |-> c.days,
                             ready |-> c.ready, returned |-> c.returned]
<1>1. Day \subseteq Nat /\ NoDate \in Nat
  BY CalendarAssumption DEF Day, NoDate
<1>2. NoDate \notin Day
  BY CalendarAssumption DEF Day, NoDate
<1>3. NoCase \notin Case
  BY <1>2 DEF Case, NoCase
<1>4. ASSUME NEW c \in Case
      PROVE  /\ c.bus \in Bus /\ c.since \in Day /\ c.days \in Int /\ c.ready \in Nat
             /\ c.returned \in Day \cup {NoDate}
             /\ c = [bus |-> c.bus, since |-> c.since, days |-> c.days,
                     ready |-> c.ready, returned |-> c.returned]
  BY DEF Case
<1>5. QED
  BY <1>1, <1>3, <1>4

\* A form folded into a row keeps the bus and the return, and the promise whole.
LEMMA GivenSound ==
  ASSUME NEW c \in Case, NEW f \in Forms, c.returned = NoDate
  PROVE  LET n == Given(c, f.since, f.days, f.ready)
         IN  n \in Case /\ n.bus = c.bus /\ n.returned = NoDate /\ Sound(n)
<1>1. /\ f.since \in Day \cup {NoDate} /\ f.days \in NoDays..MaxDays /\ f.ready \in Day \cup {NoDate}
  BY CalendarAssumption
<1>2. Day \subseteq Nat /\ NoDate = 0 /\ NoDays = -1 /\ 0 \notin Day
  BY CalendarAssumption DEF Day, NoDate, NoDays
<1> DEFINE g == [c EXCEPT !.since = IF f.since = NoDate THEN @ ELSE f.since,
                          !.days  = IF f.days = NoDays THEN @ ELSE f.days,
                          !.ready = IF f.ready = NoDate THEN @ ELSE f.ready]
<1>3. /\ g \in Case /\ g.bus = c.bus /\ g.returned = NoDate
      /\ g.since \in Day /\ g.days \in Int /\ g.ready \in Nat
  <2>1. PICK x \in Day : x = IF f.since = NoDate THEN c.since ELSE f.since
    BY <1>1 DEF Case
  <2>2. PICK y \in Int : y = IF f.days = NoDays THEN c.days ELSE f.days
    BY <1>1, CalendarAssumption DEF Case, NoDays
  <2>3. PICK z \in Nat : z = IF f.ready = NoDate THEN c.ready ELSE f.ready
    BY <1>1, <1>2 DEF Case
  <2>4. g = [c EXCEPT !.since = x, !.days = y, !.ready = z]
    BY <2>1, <2>2, <2>3
  <2> HIDE DEF g
  <2>5. g = [bus |-> c.bus, since |-> x, days |-> y, ready |-> z, returned |-> c.returned]
    BY <2>4 DEF Case
  <2>6. QED
    BY <2>5, CaseShape DEF Case
<1> HIDE DEF g
<1>4. Promised(g) \in Case /\ Promised(g).bus = c.bus /\ Promised(g).returned = NoDate
  BY <1>2, <1>3 DEF Promised, Later, Case
<1>5. Sound(Promised(g))
  BY <1>2, <1>3 DEF Promised, Later, Sound, Case
<1>6. QED
  BY <1>4, <1>5 DEF Given, g

\* What is loaded is what is written over: a commit puts down its row.
LEMMA MergedIsNow ==
  ASSUME NEW now \in Case, NEW cur \in Case, now.bus = cur.bus
  PROVE  Merged(cur, now, cur) = now
BY DEF Merged, Column, Case

LEMMA MergedType ==
  ASSUME NEW was \in Case, NEW now \in Case, NEW cur \in Case
  PROVE  Merged(was, now, cur) \in Case
BY DEF Merged, Column, Case

LEMMA ListTypes ==
  ASSUME TypeOK
  PROVE  /\ \A i \in CaseId : Held(i) => cases[i] \in Case
         /\ \A r \in Request : request[r] # Idle =>
              /\ request[r].id \in CaseId \cup {NewCase} /\ request[r].now \in Case
              /\ request[r].was \in Case \cup {NoCase}
BY DEF TypeOK, Held

LEMMA QueueShape ==
  /\ NewCase \notin CaseId /\ Idle.id \notin CaseId /\ Idle.id # NewCase
  /\ Idle \notin [id : CaseId \cup {NewCase}, was : Case \cup {NoCase}, now : Case]
<1>1. NewCase \notin CaseId /\ Idle.id \notin CaseId /\ Idle.id # NewCase
  BY CalendarAssumption DEF NewCase, Idle
<1>2. QED
  BY <1>1 DEF Idle

\* A request takes up a row: nothing is written yet.
LEMMA TakeUp ==
  ASSUME ListInv, NEW r \in Request, request[r] = Idle, NEW q,
         q \in [id : CaseId \cup {NewCase}, was : Case \cup {NoCase}, now : Case],
         Loaded(q), Serial => RequestFits(q),
         request' = [request EXCEPT ![r] = q], UNCHANGED <<cases, today>>
  PROVE  ListInv'
<1>1. TypeOK'
  BY DEF ListInv, TypeOK
<1>2. ASSUME Serial
      PROVE  \A s \in Request : request'[s] # Idle => RequestFits(request'[s])
  BY <1>2 DEF ListInv, TypeOK, Serial
<1>3. ASSUME Serial
      PROVE  /\ (\A i \in CaseId : Held(i) => Sound(cases[i]))'
             /\ OneOpenCase'
             /\ (\A s \in Request : request[s] # Idle => RequestFits(request[s]))'
  BY <1>2, <1>3 DEF ListInv, Held, OneOpenCase, IsOpen, RequestFits, OpenCases
<1>4. (\A s \in Request : request[s] # Idle => Loaded(request[s]))'
  <2> SUFFICES ASSUME NEW s \in Request, request'[s] # Idle
               PROVE  request'[s].id # NewCase =>
                        cases[request'[s].id] # NoCase /\ request'[s].was # NoCase
    BY DEF Loaded, Held
  <2>1. CASE s = r
    BY <2>1 DEF ListInv, TypeOK, Loaded, Held
  <2>2. CASE s # r
    BY <2>2 DEF ListInv, TypeOK, Loaded, Held
  <2>3. QED
    BY <2>1, <2>2
<1>5. QED
  BY <1>1, <1>3, <1>4 DEF ListInv

\* Rows stay, and requests end or go on: what they loaded is still there.
LEMMA LoadedStays ==
  ASSUME ListInv, TypeOK',
         \A k \in CaseId : cases[k] # NoCase => cases'[k] # NoCase,
         \A s \in Request : request'[s] # Idle => request'[s] = request[s]
  PROVE  (\A s \in Request : request[s] # Idle => Loaded(request[s]))'
<1> SUFFICES ASSUME NEW s \in Request, request'[s] # Idle
             PROVE  request'[s].id # NewCase =>
                      cases'[request'[s].id] # NoCase /\ request'[s].was # NoCase
  BY DEF Loaded, Held
<1>1. request'[s] = request[s] /\ request[s] # Idle /\ Loaded(request[s])
  BY DEF ListInv
<1>2. request[s].id \in CaseId \cup {NewCase}
  BY <1>1, ListTypes DEF ListInv
<1>3. QED
  BY <1>1, <1>2 DEF Loaded, Held

LEMMA PutOffRoadStep ==
  ASSUME ListInv, NEW r \in Request, NEW b \in Bus, NEW f \in Forms, PutOffRoad(r, b, f)
  PROVE  ListInv'
<1>1. /\ request[r] = Idle /\ UNCHANGED <<cases, today>> /\ TypeOK
  BY DEF PutOffRoad, ListInv
<1>2. CASE /\ OpenCases(b) = {}
           /\ request' = [request EXCEPT ![r] =
                [id |-> NewCase, was |-> NoCase,
                 now |-> Given(FreshCase(b), f.since, f.days, f.ready)]]
  <2>1. FreshCase(b) \in Case /\ FreshCase(b).bus = b /\ FreshCase(b).returned = NoDate
    BY <1>1 DEF FreshCase, Case, TypeOK, NoDays, NoDate
  <2>2. PICK n \in Case : /\ n = Given(FreshCase(b), f.since, f.days, f.ready)
                          /\ n.bus = b /\ Sound(n)
    BY <2>1, GivenSound
  <2> DEFINE q == [id |-> NewCase, was |-> NoCase, now |-> n]
  <2>3. q \in [id : CaseId \cup {NewCase}, was : Case \cup {NoCase}, now : Case]
    OBVIOUS
  <2>4. Loaded(q) /\ RequestFits(q)
    BY <1>2, <2>2 DEF RequestFits, Loaded
  <2>5. request' = [request EXCEPT ![r] = q]
    BY <1>2, <2>2
  <2> HIDE DEF q
  <2>6. QED
    BY <1>1, <2>3, <2>4, <2>5, TakeUp
<1>3. ASSUME NEW i \in OpenCases(b),
             request' = [request EXCEPT ![r] =
               [id |-> i, was |-> cases[i],
                now |-> Given(cases[i], f.since, f.days, f.ready)]]
      PROVE  ListInv'
  <2>1. /\ i \in CaseId /\ cases[i] \in Case /\ Held(i)
        /\ cases[i].bus = b /\ cases[i].returned = NoDate
    BY <1>1, ListTypes DEF OpenCases, IsOpen
  <2>2. PICK n \in Case : /\ n = Given(cases[i], f.since, f.days, f.ready)
                          /\ n.bus = b /\ Sound(n)
    BY <2>1, GivenSound
  <2> DEFINE q == [id |-> i, was |-> cases[i], now |-> n]
  <2>3. q \in [id : CaseId \cup {NewCase}, was : Case \cup {NoCase}, now : Case]
    BY <2>1
  <2>4. Loaded(q) /\ RequestFits(q)
    BY <2>1, <2>2, QueueShape, CaseShape DEF RequestFits, Loaded
  <2>5. request' = [request EXCEPT ![r] = q]
    BY <1>3, <2>2
  <2> HIDE DEF q
  <2>6. QED
    BY <1>1, <2>3, <2>4, <2>5, TakeUp
<1>4. QED
  BY <1>2, <1>3 DEF PutOffRoad

LEMMA CloseOffRoadStep ==
  ASSUME ListInv, NEW r \in Request, NEW i \in CaseId, NEW d \in Day, CloseOffRoad(r, i, d)
  PROVE  ListInv'
<1>1. /\ request[r] = Idle /\ UNCHANGED <<cases, today>> /\ Held(i) /\ d >= cases[i].since
      /\ TypeOK
  BY DEF CloseOffRoad, ListInv
<1>2. cases[i] \in Case
  BY <1>1, ListTypes
<1> DEFINE n == [cases[i] EXCEPT !.returned = d]
           q == [id |-> i, was |-> cases[i], now |-> n]
<1>3. /\ n = [bus |-> cases[i].bus, since |-> cases[i].since, days |-> cases[i].days,
              ready |-> cases[i].ready, returned |-> d]
  BY <1>2 DEF Case
<1> HIDE DEF n
<1>4. n \in Case
  BY <1>2, <1>3, CaseShape DEF Case
<1>5. d # NoDate
  BY CalendarAssumption DEF Day, NoDate
<1>6. ASSUME Serial
      PROVE  Sound(n)
  BY <1>1, <1>2, <1>3, <1>6 DEF Sound, ListInv
<1>7. q \in [id : CaseId \cup {NewCase}, was : Case \cup {NoCase}, now : Case]
  BY <1>2, <1>4
<1>8. Loaded(q) /\ (Serial => RequestFits(q))
  BY <1>1, <1>2, <1>3, <1>5, <1>6, QueueShape, CaseShape DEF RequestFits, Loaded
<1>9. request' = [request EXCEPT ![r] = q]
  BY DEF CloseOffRoad, n
<1> HIDE DEF q
<1>10. QED
  BY <1>1, <1>7, <1>8, <1>9, TakeUp

\* A row is put down: of a bus without an open case, or over the row that was
\* loaded.
LEMMA PutDown ==
  ASSUME ListInv, Serial, NEW i \in CaseId, NEW c \in Case, Sound(c),
         cases' = [cases EXCEPT ![i] = c],
         c.returned = NoDate =>
           \A k \in OpenCases(c.bus) : k = i
  PROVE  (\A k \in CaseId : Held(k) => Sound(cases[k]))' /\ OneOpenCase'
<1>1. \A k \in CaseId : cases'[k] = IF k = i THEN c ELSE cases[k]
  BY DEF ListInv, TypeOK
<1>2. OneOpenCase'
  <2> SUFFICES ASSUME NEW k \in CaseId, NEW m \in CaseId, k # m,
                      cases'[k] # NoCase, cases'[k].returned = NoDate,
                      cases'[m] # NoCase, cases'[m].returned = NoDate
               PROVE  cases'[k].bus # cases'[m].bus
    BY DEF OneOpenCase, IsOpen, Held
  <2>1. CASE k = i
    BY <1>1, <2>1 DEF OpenCases, IsOpen, Held
  <2>2. CASE m = i
    BY <1>1, <2>2 DEF OpenCases, IsOpen, Held
  <2>3. CASE k # i /\ m # i
    BY <1>1, <2>3 DEF ListInv, OneOpenCase, IsOpen, Held
  <2>4. QED
    BY <2>1, <2>2, <2>3
<1>3. QED
  BY <1>1, <1>2 DEF ListInv, Held

LEMMA CommitStep ==
  ASSUME ListInv, NEW r \in Request, Commit(r)
  PROVE  ListInv'
<1> DEFINE q == request[r]
<1>1. /\ q # Idle /\ request' = [request EXCEPT ![r] = Idle] /\ UNCHANGED today
      /\ TypeOK /\ q.id \in CaseId \cup {NewCase} /\ q.now \in Case
      /\ q.was \in Case \cup {NoCase}
  BY ListTypes DEF Commit, ListInv
<1>2. Serial => RequestFits(q)
  BY <1>1 DEF ListInv
<1>3. request' \in [Request -> {Idle} \cup
         [id : CaseId \cup {NewCase}, was : Case \cup {NoCase}, now : Case]]
  BY <1>1 DEF TypeOK
<1>4. /\ Serial => \A s \in Request : request'[s] = Idle
      /\ \A s \in Request : request'[s] # Idle => request'[s] = request[s]
  BY <1>1 DEF Serial, TypeOK
<1>5. CASE CommitInsert(r)
  <2>1. PICK i \in CaseId : ~Held(i) /\ cases' = [cases EXCEPT ![i] = q.now]
    BY <1>5 DEF CommitInsert
  <2>2. TypeOK'
    BY <1>1, <1>3, <2>1 DEF TypeOK
  <2>3. q.id = NewCase
    BY <1>5 DEF CommitInsert
  <2>4. ASSUME Serial
        PROVE  (\A k \in CaseId : Held(k) => Sound(cases[k]))' /\ OneOpenCase'
    BY <1>1, <1>2, <2>1, <2>3, <2>4, PutDown DEF RequestFits
  <2>5. \A k \in CaseId : Held(k) => cases'[k] # NoCase
    BY <1>1, <2>1, CaseShape DEF TypeOK, Held
  <2>6. (\A s \in Request : request[s] # Idle => Loaded(request[s]))'
    BY <1>4, <2>2, <2>5, LoadedStays DEF Held
  <2>7. QED
    BY <1>4, <2>2, <2>4, <2>6 DEF ListInv
<1>6. CASE CommitUpdate(r)
  <2>1. /\ q.id \in CaseId
        /\ cases' = [cases EXCEPT ![q.id] = Merged(q.was, q.now, cases[q.id])]
    BY <1>6 DEF CommitUpdate
  <2>2. ASSUME Serial
        PROVE  (\A k \in CaseId : Held(k) => Sound(cases[k]))' /\ OneOpenCase'
    <3>1. /\ Sound(q.now) /\ q.was = cases[q.id] /\ q.now.bus = q.was.bus
          /\ q.was.returned # NoDate => q.now.returned # NoDate
      BY <1>2, <2>1, <2>2, QueueShape DEF RequestFits
    <3>2. cases[q.id] \in Case
      BY <1>1, <2>1, QueueShape, ListTypes DEF ListInv, Loaded
    <3>3. Merged(q.was, q.now, cases[q.id]) = q.now
      BY <1>1, <3>1, <3>2, MergedIsNow
    <3>4. q.now.returned = NoDate => \A k \in OpenCases(q.now.bus) : k = q.id
      <4>1. Held(q.id)
        BY <3>2, CaseShape DEF Held
      <4>2. q.now.returned = NoDate => IsOpen(q.id) /\ cases[q.id].bus = q.now.bus
        BY <3>1, <4>1 DEF IsOpen
      <4> HIDE DEF q
      <4>3. QED
        BY <2>1, <2>2, <4>2 DEF ListInv, OneOpenCase, OpenCases
    <3> HIDE DEF q
    <3>5. QED
      BY <1>1, <2>1, <2>2, <3>1, <3>3, <3>4, PutDown
  <2>3. TypeOK'
    <3>1. q.was \in Case /\ cases[q.id] \in Case
      BY <1>1, <2>1, QueueShape, ListTypes DEF ListInv, Loaded
    <3>2. QED
      BY <1>1, <1>3, <2>1, <3>1, MergedType DEF TypeOK
  <2>4. \A k \in CaseId : Held(k) => cases'[k] # NoCase
    <3>1. /\ cases[q.id] \in Case /\ q.was \in Case
      BY <1>1, <2>1, QueueShape, ListTypes DEF ListInv, Loaded
    <3>2. Merged(q.was, q.now, cases[q.id]) # NoCase
      BY <1>1, <3>1, MergedType, CaseShape
    <3>3. QED
      BY <1>1, <2>1, <3>2 DEF TypeOK, Held
  <2>5. (\A s \in Request : request[s] # Idle => Loaded(request[s]))'
    BY <1>4, <2>3, <2>4, LoadedStays DEF Held
  <2>6. QED
    BY <1>4, <2>2, <2>3, <2>5 DEF ListInv
<1>7. QED
  BY <1>5, <1>6 DEF Commit

LEMMA AbandonStep ==
  ASSUME ListInv, NEW r \in Request, Abandon(r)
  PROVE  ListInv'
<1>1. /\ request[r] # Idle /\ request' = [request EXCEPT ![r] = Idle]
      /\ UNCHANGED <<cases, today>>
  BY DEF Abandon
<1>2. TypeOK'
  BY <1>1 DEF ListInv, TypeOK
<1>3. /\ Serial => \A s \in Request : request'[s] = Idle
      /\ \A s \in Request : request'[s] # Idle => request'[s] = request[s]
  BY <1>1 DEF Serial, ListInv, TypeOK
<1>4. (\A s \in Request : request[s] # Idle => Loaded(request[s]))'
  BY <1>1, <1>2, <1>3, LoadedStays
<1>5. QED
  BY <1>1, <1>2, <1>3, <1>4 DEF ListInv, Held, OneOpenCase, IsOpen

LEMMA ListKept ==
  ASSUME ListInv, UNCHANGED <<cases, request>>, today' \in Day
  PROVE  ListInv'
BY DEF ListInv, TypeOK, Loaded, Held, OneOpenCase, IsOpen, RequestFits, OpenCases

LEMMA ListCrash ==
  ASSUME ListInv, request' = [r \in Request |-> Idle], UNCHANGED <<cases, today>>
  PROVE  ListInv'
<1>1. TypeOK'
  BY DEF ListInv, TypeOK
<1>2. QED
  BY <1>1 DEF ListInv, Held, OneOpenCase, IsOpen

-----------------------------------------------------------------------------
(* The report: types, and what a step does to a row.                       *)
LEMMA Bounds == MaxPerDay \in Nat /\ MaxWork \in Nat
  BY ReportAssumption

LEMMA SheetTypes ==
  ASSUME ReportTypeOK, NEW s \in Site, NEW d \in Day
  PROVE  /\ Counted(s, d) \in Sheet
         /\ \A sheet \in Sheet : WithList(sheet, s, d) \in Sheet
<1>1. filed[s][d] \in Nat
  <2>1. filed[s] \in [Day -> 0..MaxPerDay]
    BY DEF ReportTypeOK
  <2>2. filed[s][d] \in 0..MaxPerDay
    BY <2>1
  <2>3. QED
    BY <2>2, Bounds
<1>2. Counted(s, d) \in Sheet
  BY <1>1 DEF Counted, Sheet
<1>3. SiteCases(s, d) \subseteq CaseId /\ HeldCases(s, d) \subseteq CaseId
  BY DEF SiteCases, HeldCases, OffRoadOn
<1>4. Cardinality(SiteCases(s, d)) \in Nat /\ Cardinality(HeldCases(s, d)) \in Nat
  BY <1>3, CalendarAssumption, FS_Subset, FS_CardinalityType
<1>5. ASSUME NEW sheet \in Sheet
      PROVE  WithList(sheet, s, d) \in Sheet
  BY <1>4 DEF WithList, Sheet
<1>6. QED
  BY <1>2, <1>5

LEMMA RowShape ==
  /\ NoRow \notin Row /\ EmptyRow \in Row /\ Live \notin Sheet
  /\ \A r \in Row : r.entered \in Figures \cup {NoFigure} /\ r.sheet \in Sheet \cup {Live}
  /\ \A j \in Reading :
       /\ j # Free /\ j.stage \in {"counted", "read"} /\ j.site \in Site /\ j.day \in Day
       /\ j.row \in Row \cup {NoRow} /\ j.sheet \in Sheet
<1>1. NoRow \notin Row
  BY ReportAssumption DEF NoRow, Row, NoFigure
<1>2. EmptyRow \in Row
  BY DEF EmptyRow, Row
<1>3. Live \notin Sheet
  BY DEF Live, Sheet
<1>4. QED
  BY <1>1, <1>2, <1>3 DEF Row, Reading, Free

LEMMA MergedSheetType ==
  ASSUME NEW was \in Row \cup {NoRow}, NEW now \in Sheet, NEW cur \in Sheet \cup {Live}
  PROVE  MergedSheet(was, now, cur) \in Sheet
<1>1. CASE was = NoRow \/ was.sheet = Live \/ cur = Live
  BY <1>1 DEF MergedSheet
<1>2. CASE ~(was = NoRow \/ was.sheet = Live \/ cur = Live)
  <2>1. was \in Row /\ was.sheet \in Sheet /\ cur \in Sheet
    BY <1>2, RowShape
  <2>2. QED
    BY <1>2, <2>1 DEF MergedSheet, Column, Sheet
<1>3. QED
  BY <1>1, <1>2

\* Only row (s, d) is written, and it is r.
Puts(s, d, r) ==
  /\ r \in Row
  /\ rows' = [rows EXCEPT ![s][d] = r]

LEMMA PutsOne ==
  ASSUME ReportTypeOK, NEW s \in Site, NEW d \in Day, NEW r, Puts(s, d, r)
  PROVE  /\ rows' \in [Site -> [Day -> Row \cup {NoRow}]]
         /\ rows'[s][d] = r
         /\ \A t \in Site, e \in Day : t # s \/ e # d => rows'[t][e] = rows[t][e]
BY DEF Puts, ReportTypeOK

\* The entered figure a reader is shown.
Entered(s, d) == IF HasRow(s, d) THEN rows[s][d].entered ELSE NoFigure

LEMMA SealsPuts ==
  ASSUME ReportTypeOK, NEW w \in Worker \cup {Nightly}, Seals(w)
  PROVE  /\ job[w] \in Reading
         /\ job' = [job EXCEPT ![w] = Free]
         /\ \E r \in Row : /\ Puts(job[w].site, job[w].day, r)
                          /\ r.sheet \in Sheet
                          /\ r.entered = Entered(job[w].site, job[w].day)
<1> DEFINE j == job[w]
<1>1. j \in Reading /\ job' = [job EXCEPT ![w] = Free] /\ WriteSheet(w)
  BY DEF Seals, ReportTypeOK
<1>2. /\ j.site \in Site /\ j.day \in Day /\ j.row \in Row \cup {NoRow} /\ j.sheet \in Sheet
  BY <1>1, RowShape
<1>3. rows[j.site][j.day] \in Row \cup {NoRow}
  BY <1>2 DEF ReportTypeOK
<1>4. PICK c \in Row : /\ c = IF HasRow(j.site, j.day) THEN rows[j.site][j.day] ELSE EmptyRow
                       /\ c.entered = Entered(j.site, j.day)
  BY <1>3, RowShape DEF HasRow, Entered, EmptyRow
<1>5. PICK h \in Sheet : h = MergedSheet(j.row, j.sheet, c.sheet)
  BY <1>2, RowShape, MergedSheetType
<1> DEFINE r == [c EXCEPT !.sheet = h]
<1>6. r \in Row /\ r.sheet = h /\ r.entered = c.entered
  BY DEF Row
<1>7. rows' = [rows EXCEPT ![j.site][j.day] = r]
  BY <1>1, <1>4, <1>5 DEF WriteSheet
<1> HIDE DEF r, j
<1>8. QED
  BY <1>1, <1>4, <1>6, <1>7 DEF Puts, j

LEMMA SavePuts ==
  ASSUME ReportTypeOK, NEW v \in Saver, EndSave(v)
  PROVE  /\ save[v] # Free /\ save[v].site \in Site /\ save[v].day \in Day
         /\ \/ UNCHANGED rows
            \/ \E r \in Row : /\ Puts(save[v].site, save[v].day, r)
                            /\ r.entered = save[v].figure
                            /\ r.sheet = IF HasRow(save[v].site, save[v].day)
                                           THEN rows[save[v].site][save[v].day].sheet
                                           ELSE Live
<1> DEFINE q == save[v]
<1>1. q # Free /\ q.site \in Site /\ q.day \in Day /\ q.figure \in Figures
  BY DEF EndSave, ReportTypeOK
<1>2. rows[q.site][q.day] \in Row \cup {NoRow}
  BY <1>1 DEF ReportTypeOK
<1>3. CASE UNCHANGED rows
  BY <1>1, <1>3
<1>4. CASE ~Conflicts(q.row, q.site, q.day)
  <2>1. PICK c \in Row : /\ c = IF HasRow(q.site, q.day) THEN rows[q.site][q.day] ELSE EmptyRow
                         /\ c.sheet = IF HasRow(q.site, q.day)
                                         THEN rows[q.site][q.day].sheet ELSE Live
    BY <1>2, RowShape DEF HasRow, EmptyRow
  <2> DEFINE r == [c EXCEPT !.entered = q.figure]
  <2>2. r \in Row /\ r.sheet = c.sheet /\ r.entered = q.figure
    BY <1>1 DEF Row
  <2>3. rows' = [rows EXCEPT ![q.site][q.day] = r]
    BY <1>4, <2>1 DEF EndSave
  <2> HIDE DEF r, q
  <2>4. QED
    BY <1>1, <2>1, <2>2, <2>3 DEF Puts, q
<1>5. QED
  BY <1>3, <1>4 DEF EndSave

-----------------------------------------------------------------------------
(* Types of the report, one lemma per action.                              *)
LEMMA WorkTypes ==
  ASSUME ReportTypeOK, Start
  PROVE  work' \in 0..MaxWork
BY Bounds DEF ReportTypeOK, Start

LEMMA CorrectRegisterTypes ==
  ASSUME ReportTypeOK, NEW s \in Site, NEW d \in Day, CorrectRegister(s, d)
  PROVE  ReportTypeOK'
<1>1. PICK n \in 0..MaxPerDay : filed' = [filed EXCEPT ![s][d] = n]
  BY DEF CorrectRegister
<1>2. filed' \in [Site -> [Day -> 0..MaxPerDay]]
  BY <1>1 DEF ReportTypeOK
<1>3. QED
  BY <1>2, WorkTypes DEF CorrectRegister, listVars, ReportTypeOK, TypeOK

LEMMA BeginSnapshotTypes ==
  ASSUME ReportTypeOK, NEW w \in Worker \cup {Nightly}, NEW s \in Site, NEW d \in Day,
         BeginSnapshot(w, s, d)
  PROVE  /\ job' \in [Worker \cup {Nightly} -> Reading \cup {Free}]
         /\ job'[w] # Free /\ job'[w].site = s /\ job'[w].day = d
<1> DEFINE j == [stage |-> "counted", site |-> s, day |-> d, row |-> rows[s][d],
                 sheet |-> Counted(s, d)]
<1>1. rows[s][d] \in Row \cup {NoRow} /\ Counted(s, d) \in Sheet
  BY SheetTypes DEF ReportTypeOK
<1>2. j \in Reading /\ j.site = s /\ j.day = d
  BY <1>1 DEF Reading
<1>3. job' = [job EXCEPT ![w] = j]
  BY DEF BeginSnapshot
<1> HIDE DEF j
<1>4. QED
  BY <1>2, <1>3, RowShape DEF ReportTypeOK

LEMMA ReadListTypes ==
  ASSUME ReportTypeOK, NEW w \in Worker \cup {Nightly}, ReadList(w)
  PROVE  /\ ReportTypeOK'
         /\ job[w] \in Reading /\ job'[w] \in Reading
         /\ job'[w].site = job[w].site /\ job'[w].day = job[w].day
         /\ \A v \in Worker \cup {Nightly} : v # w => job'[v] = job[v]
<1> DEFINE j == job[w]
<1>1. j \in Reading
  BY DEF ReadList, ReportTypeOK
<1>2. j.site \in Site /\ j.day \in Day /\ j.sheet \in Sheet
  BY <1>1, RowShape
<1>3. PICK h \in Sheet : h = WithList(j.sheet, j.site, j.day)
  BY <1>2, SheetTypes
<1> DEFINE k == [j EXCEPT !.stage = "read", !.sheet = h]
<1>4. k \in Reading /\ k.site = j.site /\ k.day = j.day
  BY <1>1 DEF Reading
<1>5. job' = [job EXCEPT ![w] = k]
  BY <1>3 DEF ReadList
<1> HIDE DEF k, j
<1>6. job' \in [Worker \cup {Nightly} -> Reading \cup {Free}] /\ job'[w] = k
      /\ \A v \in Worker \cup {Nightly} : v # w => job'[v] = job[v]
  BY <1>4, <1>5 DEF ReportTypeOK
<1>7. ReportTypeOK'
  BY <1>6 DEF ReadList, listVars, ReportTypeOK, TypeOK
<1>8. QED
  BY <1>1, <1>4, <1>6, <1>7 DEF j

\* The rows and the job of a worker whose snapshot ends.
LEMMA EndTypes ==
  ASSUME ReportTypeOK, NEW w \in Worker \cup {Nightly}, Seals(w) \/ Fails(w)
  PROVE  /\ rows' \in [Site -> [Day -> Row \cup {NoRow}]]
         /\ job' \in [Worker \cup {Nightly} -> Reading \cup {Free}]
         /\ job[w] \in Reading /\ job'[w] = Free
         /\ \A v \in Worker \cup {Nightly} : v # w => job'[v] = job[v]
<1>1. job[w] \in Reading /\ job' = [job EXCEPT ![w] = Free]
  BY DEF Seals, Fails, ReportTypeOK
<1>2. rows' \in [Site -> [Day -> Row \cup {NoRow}]]
  <2>1. CASE Seals(w)
    BY <2>1, SealsPuts, PutsOne, RowShape
  <2>2. CASE Fails(w)
    BY <2>2 DEF Fails, ReportTypeOK
  <2>3. QED
    BY <2>1, <2>2
<1>3. QED
  BY <1>1, <1>2 DEF ReportTypeOK

LEMMA BeginSaveTypes ==
  ASSUME ReportTypeOK, NEW v \in Saver, NEW s \in Site, NEW d \in Day, BeginSave(v, s, d)
  PROVE  ReportTypeOK'
<1>1. PICK g \in Figures : save' = [save EXCEPT ![v] =
        [stage |-> "loaded", site |-> s, day |-> d, row |-> rows[s][d], figure |-> g]]
  BY DEF BeginSave
<1>2. rows[s][d] \in Row \cup {NoRow}
  BY DEF ReportTypeOK
<1>3. save' \in [Saver -> {Free} \cup
        [stage : {"loaded"}, site : Site, day : Day, row : Row \cup {NoRow},
         figure : Figures]]
  BY <1>1, <1>2 DEF ReportTypeOK
<1>4. QED
  BY <1>3, WorkTypes DEF BeginSave, listVars, ReportTypeOK, TypeOK

LEMMA EndSaveTypes ==
  ASSUME ReportTypeOK, NEW v \in Saver, EndSave(v)
  PROVE  ReportTypeOK'
<1>1. rows' \in [Site -> [Day -> Row \cup {NoRow}]]
  BY SavePuts, PutsOne DEF ReportTypeOK
<1>2. save' \in [Saver -> {Free} \cup
        [stage : {"loaded"}, site : Site, day : Day, row : Row \cup {NoRow},
         figure : Figures]]
  BY DEF EndSave, ReportTypeOK
<1>3. QED
  BY <1>1, <1>2 DEF EndSave, listVars, ReportTypeOK, TypeOK

-----------------------------------------------------------------------------
(* A frozen day stays frozen.                                              *)
Sealed(r) == r # NoRow /\ r.sheet # Live

LEMMA SealFreezes ==
  ASSUME ReportTypeOK, NEW w \in Worker \cup {Nightly}, Seals(w) \/ Fails(w)
  PROVE  /\ \A s \in Site, d \in Day : Frozen(s, d) => Frozen(s, d)'
         /\ Seals(w) => Sealed(rows'[job[w].site][job[w].day])
<1>1. CASE ~Seals(w)
  BY <1>1 DEF Fails, Frozen, HasRow
<1>2. CASE Seals(w)
  <2> DEFINE a == job[w].site
             b == job[w].day
  <2>1. a \in Site /\ b \in Day
    BY <1>2, SealsPuts, RowShape
  <2>2. PICK r \in Row : Puts(a, b, r) /\ r.sheet \in Sheet
    BY <1>2, SealsPuts
  <2> HIDE DEF a, b
  <2>3. /\ rows'[a][b] = r
        /\ \A s \in Site, d \in Day : s # a \/ d # b => rows'[s][d] = rows[s][d]
    BY <2>1, <2>2, PutsOne
  <2>4. rows'[a][b] # NoRow /\ rows'[a][b].sheet # Live
    BY <2>2, <2>3, RowShape
  <2>5. \A s \in Site, d \in Day : Frozen(s, d) => Frozen(s, d)'
    BY <2>3, <2>4 DEF Frozen, HasRow
  <2>6. Sealed(rows'[a][b])
    BY <2>4 DEF Sealed
  <2>7. QED
    BY <2>5, <2>6 DEF a, b
<1>3. QED
  BY <1>1, <1>2

LEMMA SaveKeepsFrozen ==
  ASSUME ReportTypeOK, NEW v \in Saver, EndSave(v)
  PROVE  \A s \in Site, d \in Day : Frozen(s, d) => Frozen(s, d)'
<1> DEFINE a == save[v].site
           b == save[v].day
<1>1. CASE UNCHANGED rows
  BY <1>1 DEF Frozen, HasRow
<1>2. CASE \E r \in Row : /\ Puts(a, b, r) /\ r.entered = save[v].figure
                        /\ r.sheet = IF HasRow(a, b) THEN rows[a][b].sheet ELSE Live
  <2>1. PICK r \in Row : Puts(a, b, r) /\ (HasRow(a, b) => r.sheet = rows[a][b].sheet)
    BY <1>2
  <2>2. a \in Site /\ b \in Day
    BY SavePuts
  <2> HIDE DEF a, b
  <2>3. /\ rows'[a][b] = r /\ r # NoRow
        /\ \A s \in Site, d \in Day : s # a \/ d # b => rows'[s][d] = rows[s][d]
    BY <2>1, <2>2, PutsOne, RowShape
  <2>4. QED
    BY <2>1, <2>3 DEF Frozen, HasRow
<1>3. QED
  BY <1>1, <1>2, SavePuts

-----------------------------------------------------------------------------
(* The night.                                                              *)
LEMMA NightTypes ==
  ASSUME ReportTypeOK
  PROVE  /\ night.stage \in {"waiting", "running", "finished"}
         /\ night.day \in Day \cup {NoDate}
         /\ night.left \subseteq Site /\ night.failed \subseteq Site
         /\ night.listed \subseteq Site
         /\ night = [stage |-> night.stage, day |-> night.day, left |-> night.left,
                     failed |-> night.failed, listed |-> night.listed]
BY DEF ReportTypeOK

LEMMA CoversKept ==
  ASSUME ReportTypeOK, NightCovers, UNCHANGED night, job'[Nightly] = job[Nightly],
         \A s \in Site, d \in Day : Frozen(s, d) => Frozen(s, d)'
  PROVE  NightCovers'
<1>1. night.day # NoDate => night.day \in Day
  BY NightTypes
<1>2. night.listed \subseteq Site
  BY NightTypes
<1>3. ASSUME night.stage # "waiting", night.day # NoDate, NEW s \in night.listed
      PROVE  \/ Frozen(s, night.day)' \/ s \in night.failed \/ s \in night.left
             \/ job[Nightly] # Free /\ job[Nightly].site = s
  BY <1>1, <1>2, <1>3 DEF NightCovers
<1>4. ASSUME night'.stage # "waiting", night'.day # NoDate, NEW s \in night'.listed
      PROVE  (\/ Frozen(s, night.day) \/ s \in night.failed \/ s \in night.left
              \/ job[Nightly] # Free /\ job[Nightly].site = s)'
  BY <1>3, <1>4 DEF Frozen, HasRow
<1>5. QED
  BY <1>4 DEF NightCovers

LEMMA BeginNightStep ==
  ASSUME ReportTypeOK, NightCovers, BeginNight
  PROVE  ReportTypeOK' /\ NightCovers'
<1>1. /\ night.stage = "waiting"
      /\ night' = [stage |-> "running", day |-> today - 1,
                   left |-> Site, failed |-> {}, listed |-> Site]
      /\ UNCHANGED <<cases, request, today, filed, rows, job, save, work>>
      /\ today - 1 \in Day /\ today - 1 # NoDate
  BY CalendarAssumption DEF BeginNight, listVars, ReportTypeOK, TypeOK, Day, NoDate
<1>2. ReportTypeOK'
  BY <1>1 DEF ReportTypeOK, TypeOK
<1>3. job[Nightly] = Free
  BY <1>1 DEF NightCovers
<1>4. QED
  BY <1>1, <1>2, <1>3 DEF NightCovers

LEMMA NightlySiteStep ==
  ASSUME ReportTypeOK, NightCovers, NightlySite
  PROVE  ReportTypeOK' /\ NightCovers'
<1>1. PICK s \in night.left :
        BeginSnapshot(Nightly, s, night.day) /\ night' = [night EXCEPT !.left = @ \ {s}]
  BY DEF NightlySite
<1>2. /\ night.stage = "running" /\ UNCHANGED <<cases, request, today, filed, rows, save, work>>
      /\ job[Nightly] = Free
  BY <1>1 DEF NightlySite, listVars, BeginSnapshot
<1>3. s \in Site
  BY NightTypes
<1>4. /\ night'.stage = "running" /\ night'.day = night.day
      /\ night'.left = night.left \ {s} /\ night'.failed = night.failed
      /\ night'.listed = night.listed
      /\ night' \in [stage : {"waiting", "running", "finished"}, day : Day \cup {NoDate},
                      left : SUBSET Site, failed : SUBSET Site, listed : SUBSET Site]
  BY <1>1, <1>2 DEF ReportTypeOK
<1>5. night.day # NoDate /\ night.day \in Day
  BY <1>2, NightTypes DEF NightCovers
<1>6. /\ job' \in [Worker \cup {Nightly} -> Reading \cup {Free}]
      /\ job'[Nightly] # Free /\ job'[Nightly].site = s /\ job'[Nightly].day = night.day
  BY <1>1, <1>3, <1>5, BeginSnapshotTypes
<1>7. ReportTypeOK'
  BY <1>2, <1>4, <1>6 DEF ReportTypeOK, TypeOK
<1>8. ASSUME NEW t \in night'.listed
      PROVE  (\/ Frozen(t, night.day) \/ t \in night.failed \/ t \in night.left
              \/ job[Nightly] # Free /\ job[Nightly].site = t)'
  <2>1. Frozen(t, night.day) \/ t \in night.failed \/ t \in night.left
    BY <1>2, <1>4, <1>5 DEF NightCovers
  <2>2. QED
    BY <1>2, <1>4, <1>6, <2>1 DEF Frozen, HasRow
<1>9. QED
  BY <1>4, <1>5, <1>6, <1>7, <1>8 DEF NightCovers

LEMMA NightlyEndStep ==
  ASSUME ReportTypeOK, NightCovers, NightlyEnd
  PROVE  ReportTypeOK' /\ NightCovers'
<1> DEFINE a == job[Nightly].site
<1>1. /\ UNCHANGED <<cases, request, today, filed, save, work>>
      /\ Seals(Nightly) \/ Fails(Nightly)
      /\ night' = night \/ night' = [night EXCEPT !.failed = @ \cup {a}]
      /\ Seals(Nightly) \/ night' = [night EXCEPT !.failed = @ \cup {a}]
  BY DEF NightlyEnd, listVars
<1>2. /\ rows' \in [Site -> [Day -> Row \cup {NoRow}]]
      /\ job' \in [Worker \cup {Nightly} -> Reading \cup {Free}]
      /\ job[Nightly] \in Reading /\ job'[Nightly] = Free
  BY <1>1, EndTypes
<1>3. job[Nightly] # Free /\ a \in Site /\ job[Nightly].day \in Day
  BY <1>2, RowShape
<1>4. /\ night.stage = "running" /\ night.day # NoDate /\ night.day \in Day
      /\ job[Nightly].day = night.day
  BY <1>3, NightTypes DEF NightCovers
<1>5. PICK f \in SUBSET Site : /\ night.failed \subseteq f
                               /\ Seals(Nightly) \/ a \in f
                               /\ night' = [night EXCEPT !.failed = f]
  <2>1. CASE Seals(Nightly) /\ night' = night
    BY <2>1, NightTypes
  <2>2. CASE night' = [night EXCEPT !.failed = @ \cup {a}]
    BY <1>3, <2>2, NightTypes
  <2>3. QED
    BY <1>1, <2>1, <2>2
<1>6. /\ night'.stage = "running" /\ night'.day = night.day /\ night'.left = night.left
      /\ night'.failed = f /\ night'.listed = night.listed
      /\ night' \in [stage : {"waiting", "running", "finished"}, day : Day \cup {NoDate},
                      left : SUBSET Site, failed : SUBSET Site, listed : SUBSET Site]
  BY <1>4, <1>5 DEF ReportTypeOK
<1>7. ReportTypeOK'
  BY <1>1, <1>2, <1>6 DEF ReportTypeOK, TypeOK
<1>8. /\ \A t \in Site : Frozen(t, night.day) => Sealed(rows'[t][night.day])
      /\ a \notin f => Sealed(rows'[a][night.day])
  <2>1. /\ \A t \in Site, e \in Day : Frozen(t, e) => Frozen(t, e)'
        /\ Seals(Nightly) => Sealed(rows'[a][job[Nightly].day])
    BY <1>1, SealFreezes
  <2>2. \A t \in Site, e \in Day : Frozen(t, e) => Sealed(rows'[t][e])
    BY <2>1 DEF Frozen, HasRow, Sealed
  <2>3. QED
    BY <1>4, <1>5, <2>1, <2>2
<1>9. ASSUME NEW t \in night'.listed
      PROVE  Frozen(t, night.day)' \/ t \in night'.failed \/ t \in night'.left
  <2>1. \/ Frozen(t, night.day) \/ t \in night.failed \/ t \in night.left
        \/ a = t
    BY <1>4, <1>6 DEF NightCovers
  <2>2. t \in Site
    BY <1>6, NightTypes
  <2> HIDE DEF a
  <2>3. Sealed(rows'[t][night.day]) \/ t \in f \/ t \in night.left
    BY <1>5, <1>8, <2>1, <2>2
  <2>4. QED
    BY <1>6, <2>3 DEF Frozen, HasRow, Sealed
<1>10. QED
  BY <1>2, <1>4, <1>6, <1>7, <1>9 DEF NightCovers

LEMMA FinishNightStep ==
  ASSUME ReportTypeOK, NightCovers, FinishNight
  PROVE  ReportTypeOK' /\ NightCovers'
<1>1. /\ night.stage = "running" /\ night.left = {} /\ job[Nightly] = Free
      /\ night' = [night EXCEPT !.stage = "finished"]
      /\ UNCHANGED <<cases, request, today, filed, rows, job, save, work>>
  BY DEF FinishNight, listVars
<1>2. /\ night'.stage = "finished" /\ night'.day = night.day /\ night'.left = {}
      /\ night'.failed = night.failed /\ night'.listed = night.listed
      /\ night' \in [stage : {"waiting", "running", "finished"}, day : Day \cup {NoDate},
                      left : SUBSET Site, failed : SUBSET Site, listed : SUBSET Site]
  BY <1>1 DEF ReportTypeOK
<1>3. ReportTypeOK'
  BY <1>1, <1>2 DEF ReportTypeOK, TypeOK
<1>4. ASSUME NEW t \in night'.listed
      PROVE  Frozen(t, night.day)' \/ t \in night'.failed
  <2>1. Frozen(t, night.day) \/ t \in night.failed
    BY <1>1, <1>2 DEF NightCovers
  <2>2. QED
    BY <1>1, <1>2, <2>1 DEF Frozen, HasRow
<1>5. QED
  BY <1>1, <1>2, <1>3, <1>4 DEF NightCovers

LEMMA CrashStep ==
  ASSUME ReportTypeOK, NightCovers, Crash
  PROVE  ReportTypeOK' /\ NightCovers'
<1>1. /\ request' = [r \in Request |-> Idle]
      /\ job' = [w \in Worker \cup {Nightly} |-> Free]
      /\ save' = [v \in Saver |-> Free]
      /\ UNCHANGED <<cases, today, filed, rows>> /\ work' \in 0..MaxWork
  BY WorkTypes DEF Crash
<1>2. /\ night' \in [stage : {"waiting", "running", "finished"}, day : Day \cup {NoDate},
                      left : SUBSET Site, failed : SUBSET Site, listed : SUBSET Site]
      /\ \/ night' = night /\ night.stage # "running"
         \/ night'.stage = "finished" /\ night'.day = NoDate
  <2>1. CASE night.stage = "running"
    <3>1. night' = [stage |-> "finished", day |-> NoDate, left |-> {}, failed |-> {},
                    listed |-> {}]
      BY <2>1 DEF Crash, NoNight
    <3>2. QED
      BY <3>1
  <2>2. CASE night.stage # "running"
    BY <2>2 DEF Crash, ReportTypeOK
  <2>3. QED
    BY <2>1, <2>2
<1>3. ReportTypeOK'
  BY <1>1, <1>2 DEF ReportTypeOK, TypeOK
<1>4. job'[Nightly] = Free
  BY <1>1
<1>5. ASSUME night.stage # "running", night' = night, night.stage # "waiting",
             night.day # NoDate, NEW t \in night.listed
      PROVE  Frozen(t, night.day)' \/ t \in night.failed \/ t \in night.left
  BY <1>1, <1>5 DEF NightCovers, Frozen, HasRow
<1>6. QED
  BY <1>2, <1>3, <1>4, <1>5 DEF NightCovers, NoDate

LEMMA NextDayStep ==
  ASSUME ReportTypeOK, NightCovers, NextDay
  PROVE  ReportTypeOK' /\ NightCovers' /\ today' \in Day
<1>1. /\ today' = today + 1 /\ today < MaxDay /\ night' = NoNight /\ night.stage # "running"
      /\ UNCHANGED <<cases, request, filed, rows, job, save, work>>
  BY DEF NextDay, listVars
<1>2. today' \in Day
  BY <1>1, CalendarAssumption DEF ReportTypeOK, TypeOK, Day
<1>3. NoNight \in [stage : {"waiting", "running", "finished"}, day : Day \cup {NoDate},
                   left : SUBSET Site, failed : SUBSET Site, listed : SUBSET Site]
  BY DEF NoNight
<1>4. ReportTypeOK'
  BY <1>1, <1>2, <1>3 DEF ReportTypeOK, TypeOK
<1>5. night'.stage = "waiting" /\ job'[Nightly] = Free
  BY <1>1 DEF NoNight, NightCovers
<1>6. QED
  BY <1>2, <1>4, <1>5 DEF NightCovers

-----------------------------------------------------------------------------
Inv == ListInv /\ ReportTypeOK /\ NightCovers

LEMMA InitInv == Init => Inv
<1> SUFFICES ASSUME Init PROVE Inv
  OBVIOUS
<1>1. /\ cases = [i \in CaseId |-> NoCase] /\ request = [r \in Request |-> Idle] /\ today = 1
      /\ filed = [s \in Site |-> [d \in Day |-> 0]]
      /\ rows = [s \in Site |-> [d \in Day |-> NoRow]]
      /\ job = [w \in Worker \cup {Nightly} |-> Free] /\ save = [v \in Saver |-> Free]
      /\ night = NoNight /\ work = 0
  BY DEF Init, ListInit
<1>2. 1 \in Day /\ 0 \in 0..MaxPerDay /\ 0 \in 0..MaxWork
  BY CalendarAssumption, Bounds DEF Day
<1>3. TypeOK
  BY <1>1, <1>2 DEF TypeOK
<1>4. night \in [stage : {"waiting", "running", "finished"}, day : Day \cup {NoDate},
                left : SUBSET Site, failed : SUBSET Site, listed : SUBSET Site]
  BY <1>1 DEF NoNight
<1>5. ReportTypeOK
  BY <1>1, <1>2, <1>3, <1>4 DEF ReportTypeOK
<1>6. ListInv
  BY <1>1, <1>3 DEF ListInv, Held, OneOpenCase, IsOpen
<1>7. NightCovers
  BY <1>1 DEF NightCovers, NoNight
<1>8. QED
  BY <1>5, <1>6, <1>7 DEF Inv

LEMMA OffRoadStep ==
  ASSUME Inv, OffRoadRequest
  PROVE  Inv'
<1>1. /\ UNCHANGED <<filed, rows, job, save, night>> /\ work' \in 0..MaxWork
  BY WorkTypes DEF OffRoadRequest, reportVars, Inv, ReportTypeOK
<1>2. ListInv'
  <2>1. ASSUME NEW r \in Request, NEW b \in Bus, NEW f \in Forms, PutOffRoad(r, b, f)
        PROVE  ListInv'
    BY <2>1, PutOffRoadStep DEF Inv
  <2>2. ASSUME NEW r \in Request, NEW i \in CaseId, NEW d \in Day, CloseOffRoad(r, i, d)
        PROVE  ListInv'
    BY <2>2, CloseOffRoadStep DEF Inv
  <2>3. ASSUME NEW r \in Request, Commit(r) \/ Abandon(r)
        PROVE  ListInv'
    BY <2>3, CommitStep, AbandonStep DEF Inv
  <2>4. QED
    BY <2>1, <2>2, <2>3 DEF OffRoadRequest
<1>3. ReportTypeOK'
  BY <1>1, <1>2 DEF ListInv, ReportTypeOK, Inv
<1>4. NightCovers'
  BY <1>1, CoversKept DEF Inv, Frozen, HasRow
<1>5. QED
  BY <1>2, <1>3, <1>4 DEF Inv

LEMMA NightInvStep ==
  ASSUME Inv, NightStep
  PROVE  Inv'
<1>1. UNCHANGED <<cases, request, today>>
  BY DEF NightStep, BeginNight, NightlySite, ReadList, NightlyEnd, FinishNight, listVars
<1>2. ListInv'
  BY <1>1, ListKept DEF Inv, ReportTypeOK, TypeOK
<1>3. CASE BeginNight \/ NightlySite \/ NightlyEnd \/ FinishNight
  BY <1>2, <1>3, BeginNightStep, NightlySiteStep, NightlyEndStep, FinishNightStep DEF Inv
<1>4. CASE ReadList(Nightly)
  <2>1. /\ ReportTypeOK' /\ job[Nightly] \in Reading /\ job'[Nightly] \in Reading
        /\ job'[Nightly].site = job[Nightly].site /\ job'[Nightly].day = job[Nightly].day
    BY <1>4, ReadListTypes DEF Inv
  <2>2. job[Nightly] # Free /\ job'[Nightly] # Free
    BY <2>1, RowShape
  <2>3. UNCHANGED <<rows, night>>
    BY <1>4 DEF ReadList
  <2>4. NightCovers'
    BY <2>1, <2>2, <2>3 DEF Inv, NightCovers, Frozen, HasRow
  <2>5. QED
    BY <1>2, <2>1, <2>4 DEF Inv
<1>5. QED
  BY <1>3, <1>4 DEF NightStep

\* A worker's snapshot and a save leave the night alone.
LEMMA RequestStep ==
  ASSUME Inv, NEW w \in Worker,
         \/ \E s \in Site, d \in Day : RequestSnapshot(w, s, d)
         \/ ReadList(w) \/ EndSnapshot(w)
  PROVE  Inv'
<1>1. UNCHANGED <<cases, request, today, filed, save, night>>
  BY DEF RequestSnapshot, ReadList, EndSnapshot, listVars
<1>2. ListInv'
  BY <1>1, ListKept DEF Inv, ReportTypeOK, TypeOK
<1>3. w # Nightly
  BY ReportAssumption
<1>4. CASE \E s \in Site, d \in Day : RequestSnapshot(w, s, d)
  <2>1. PICK s \in Site, d \in Day : RequestSnapshot(w, s, d)
    BY <1>4
  <2>2. BeginSnapshot(w, s, d) /\ UNCHANGED rows /\ Start
    BY <2>1 DEF RequestSnapshot
  <2>3. job' \in [Worker \cup {Nightly} -> Reading \cup {Free}]
    BY <2>2, BeginSnapshotTypes DEF Inv
  <2>4. job'[Nightly] = job[Nightly]
    BY <1>3, <2>2 DEF BeginSnapshot, Inv, ReportTypeOK
  <2>5. work' \in 0..MaxWork
    BY <2>2, WorkTypes DEF Inv
  <2>6. ReportTypeOK'
    BY <1>1, <2>2, <2>3, <2>5 DEF Inv, ReportTypeOK, TypeOK
  <2>7. NightCovers'
    BY <1>1, <2>2, <2>4, CoversKept DEF Inv, Frozen, HasRow
  <2>8. QED
    BY <1>2, <2>6, <2>7 DEF Inv
<1>5. CASE ReadList(w)
  <2>1. ReportTypeOK' /\ job'[Nightly] = job[Nightly] /\ UNCHANGED rows
    <3>1. ReportTypeOK' /\ \A v \in Worker \cup {Nightly} : v # w => job'[v] = job[v]
      BY <1>5, ReadListTypes DEF Inv
    <3>2. UNCHANGED rows
      BY <1>5 DEF ReadList
    <3>3. QED
      BY <1>3, <3>1, <3>2
  <2>2. NightCovers'
    BY <1>1, <2>1, CoversKept DEF Inv, Frozen, HasRow
  <2>3. QED
    BY <1>2, <2>1, <2>2 DEF Inv
<1>6. CASE EndSnapshot(w)
  <2>1. Seals(w) \/ Fails(w)
    BY <1>6 DEF EndSnapshot
  <2>2. /\ rows' \in [Site -> [Day -> Row \cup {NoRow}]]
        /\ job' \in [Worker \cup {Nightly} -> Reading \cup {Free}]
        /\ job'[Nightly] = job[Nightly]
    BY <1>3, <2>1, EndTypes DEF Inv
  <2>3. \A s \in Site, d \in Day : Frozen(s, d) => Frozen(s, d)'
    BY <2>1, SealFreezes DEF Inv
  <2>4. ReportTypeOK'
    BY <1>1, <1>6, <2>2 DEF Inv, ReportTypeOK, TypeOK, EndSnapshot
  <2>5. NightCovers'
    BY <1>1, <2>2, <2>3, CoversKept DEF Inv
  <2>6. QED
    BY <1>2, <2>4, <2>5 DEF Inv
<1>7. QED
  BY <1>4, <1>5, <1>6

LEMMA RegisterStep ==
  ASSUME Inv,
         \/ \E s \in Site, d \in Day : CorrectRegister(s, d)
         \/ \E v \in Saver, s \in Site, d \in Day : BeginSave(v, s, d)
         \/ \E v \in Saver : EndSave(v)
  PROVE  Inv'
<1>1. UNCHANGED <<cases, request, today, job, night>>
  BY DEF CorrectRegister, BeginSave, EndSave, listVars
<1>2. ListInv'
  BY <1>1, ListKept DEF Inv, ReportTypeOK, TypeOK
<1>3. ReportTypeOK'
  BY CorrectRegisterTypes, BeginSaveTypes, EndSaveTypes DEF Inv
<1>4. \A s \in Site, d \in Day : Frozen(s, d) => Frozen(s, d)'
  <2>1. CASE UNCHANGED rows
    BY <2>1 DEF Frozen, HasRow
  <2>2. CASE \E v \in Saver : EndSave(v)
    BY <2>2, SaveKeepsFrozen DEF Inv
  <2>3. QED
    BY <2>1, <2>2 DEF CorrectRegister, BeginSave
<1>5. NightCovers'
  BY <1>1, <1>4, CoversKept DEF Inv
<1>6. QED
  BY <1>2, <1>3, <1>5 DEF Inv

LEMMA NextInv == Inv /\ [Next]_vars => Inv'
<1> SUFFICES ASSUME Inv, [Next]_vars PROVE Inv'
  OBVIOUS
<1>1. CASE OffRoadRequest
  BY <1>1, OffRoadStep
<1>2. ASSUME NEW s \in Site, NEW d \in Day,
             \/ CorrectRegister(s, d) \/ \E v \in Saver : BeginSave(v, s, d)
      PROVE  Inv'
  BY <1>2, RegisterStep
<1>3. ASSUME NEW v \in Saver, EndSave(v)
      PROVE  Inv'
  BY <1>3, RegisterStep
<1>4. ASSUME NEW s \in Site, NEW d \in Day, NEW w \in Worker, RequestSnapshot(w, s, d)
      PROVE  Inv'
  BY <1>4, RequestStep
<1>5. ASSUME NEW w \in Worker, ReadList(w) \/ EndSnapshot(w)
      PROVE  Inv'
  BY <1>5, RequestStep
<1>6. CASE NightStep
  BY <1>6, NightInvStep
<1>7. CASE Crash
  BY <1>7, CrashStep, ListCrash DEF Crash, Inv
<1>8. CASE NextDay
  BY <1>8, NextDayStep, ListKept DEF NextDay, listVars, Inv
<1>9. CASE UNCHANGED vars
  <2>1. ListInv'
    BY <1>9, ListKept DEF vars, Inv, ReportTypeOK, TypeOK
  <2>2. ReportTypeOK'
    BY <1>9 DEF vars, Inv, ReportTypeOK, TypeOK
  <2>3. NightCovers'
    BY <1>9, CoversKept DEF vars, Inv, Frozen, HasRow
  <2>4. QED
    BY <2>1, <2>2, <2>3 DEF Inv
<1>10. QED
  BY <1>1, <1>2, <1>3, <1>4, <1>5, <1>6, <1>7, <1>8, <1>9 DEF Next

\* Every reachable state has the invariant.
THEOREM Invariance == Spec => []Inv
<1>1. QED
  BY InitInv, NextInv, PTL DEF Spec

-----------------------------------------------------------------------------
\* The variables of the list and of the report keep their types.
THEOREM TypeCorrect == Spec => []ReportTypeOK
<1>1. Inv => ReportTypeOK
  BY DEF Inv
<1>2. QED
  BY <1>1, Invariance, PTL

\* open_case: while requests on the list do not overlap, a bus has one open
\* case at most, without a unique key to say so.
THEOREM OneCaseABus == Spec => [](Serial => OneOpenCase)
<1>1. Inv => (Serial => OneOpenCase)
  BY DEF Inv, ListInv
<1>2. QED
  BY <1>1, Invariance, PTL

\* close_case and put_off_road: while requests do not overlap, no bus returns
\* before it went down and the halves of a promise stand together.
THEOREM CasesAreSound == Spec => [](Serial => ReturnsAfterItLeft /\ PromiseIsWhole)
<1>1. Inv => (Serial => ReturnsAfterItLeft /\ PromiseIsWhole)
  <2> SUFFICES ASSUME Inv, Serial
               PROVE  ReturnsAfterItLeft /\ PromiseIsWhole
    OBVIOUS
  <2>1. \A i \in CaseId : Held(i) => Sound(cases[i])
    BY DEF Inv, ListInv
  <2>2. ReturnsAfterItLeft
    BY <2>1 DEF ReturnsAfterItLeft, Sound, IsOpen
  <2>3. PromiseIsWhole
    BY <2>1 DEF PromiseIsWhole, Sound
  <2>4. QED
    BY <2>2, <2>3
<1>2. QED
  BY <1>1, Invariance, PTL

\* snapshot_all_sites: a night that ran to its end left yesterday frozen at
\* every site it did not log, however requests wrote to the same rows.
THEOREM NoSiteIsSkipped == Spec => []NightSealsOrLogs
<1>1. Inv => NightSealsOrLogs
  <2> SUFFICES ASSUME Inv, night.stage = "finished", night.day # NoDate,
                      NEW s \in night.listed
               PROVE  Frozen(s, night.day) \/ s \in night.failed
    BY DEF NightSealsOrLogs
  <2>1. QED
    BY DEF Inv, NightCovers
<1>2. QED
  BY <1>1, Invariance, PTL

-----------------------------------------------------------------------------
(* What a step does to one row of the report.                              *)
SealedBy(w, s, d) ==
  /\ job[w] # Free /\ job[w].site = s /\ job[w].day = d /\ job'[w] = Free
  /\ rows'[s][d] # NoRow /\ rows'[s][d].entered = Entered(s, d)

SavedBy(v, s, d) ==
  /\ save[v] # Free /\ save[v].site = s /\ save[v].day = d
  /\ rows'[s][d] # NoRow /\ rows'[s][d].entered = save[v].figure
  /\ HasRow(s, d) => rows'[s][d].sheet = rows[s][d].sheet

LEMMA SealRow ==
  ASSUME ReportTypeOK, NEW w \in Worker \cup {Nightly}, Seals(w) \/ Fails(w),
         NEW s \in Site, NEW d \in Day
  PROVE  rows'[s][d] = rows[s][d] \/ SealedBy(w, s, d)
<1>1. CASE ~Seals(w)
  BY <1>1 DEF Fails
<1>2. CASE Seals(w)
  <2>1. PICK a \in Site, b \in Day : a = job[w].site /\ b = job[w].day
    BY <1>2, SealsPuts, RowShape
  <2>2. PICK r \in Row : Puts(a, b, r) /\ r.entered = Entered(a, b)
    BY <1>2, <2>1, SealsPuts
  <2>3. /\ rows'[a][b] = r
        /\ \A t \in Site, e \in Day : t # a \/ e # b => rows'[t][e] = rows[t][e]
    BY <2>2, PutsOne
  <2>4. job[w] # Free /\ job'[w] = Free
    BY <1>2, EndTypes, RowShape
  <2>5. QED
    BY <2>1, <2>2, <2>3, <2>4, RowShape DEF SealedBy
<1>3. QED
  BY <1>1, <1>2

LEMMA SaveRow ==
  ASSUME ReportTypeOK, NEW v \in Saver, EndSave(v), NEW s \in Site, NEW d \in Day
  PROVE  rows'[s][d] = rows[s][d] \/ SavedBy(v, s, d)
<1>1. CASE UNCHANGED rows
  BY <1>1
<1>2. CASE ~UNCHANGED rows
  <2>1. PICK a \in Site, b \in Day : a = save[v].site /\ b = save[v].day /\ save[v] # Free
    BY SavePuts
  <2>2. PICK r \in Row : /\ Puts(a, b, r) /\ r.entered = save[v].figure
                         /\ HasRow(a, b) => r.sheet = rows[a][b].sheet
    BY <1>2, <2>1, SavePuts
  <2>3. /\ rows'[a][b] = r
        /\ \A t \in Site, e \in Day : t # a \/ e # b => rows'[t][e] = rows[t][e]
    BY <2>2, PutsOne
  <2>4. QED
    BY <2>1, <2>2, <2>3, RowShape DEF SavedBy
<1>3. QED
  BY <1>1, <1>2

LEMMA RowStep ==
  ASSUME Inv, Next, NEW s \in Site, NEW d \in Day
  PROVE  \/ rows'[s][d] = rows[s][d]
         \/ \E w \in Worker \cup {Nightly} : SealedBy(w, s, d)
         \/ \E v \in Saver : SavedBy(v, s, d)
<1>1. CASE UNCHANGED rows
  BY <1>1
<1>2. ASSUME NEW w \in Worker, EndSnapshot(w)
      PROVE  rows'[s][d] = rows[s][d] \/ SealedBy(w, s, d)
  BY <1>2, SealRow DEF EndSnapshot, Inv
<1>3. ASSUME NightlyEnd
      PROVE  rows'[s][d] = rows[s][d] \/ SealedBy(Nightly, s, d)
  BY <1>3, SealRow DEF NightlyEnd, Inv
<1>4. ASSUME NEW v \in Saver, EndSave(v)
      PROVE  rows'[s][d] = rows[s][d] \/ SavedBy(v, s, d)
  BY <1>4, SaveRow DEF Inv
<1>5. \/ UNCHANGED rows \/ NightlyEnd
      \/ \E w \in Worker : EndSnapshot(w)
      \/ \E v \in Saver : EndSave(v)
  BY DEF Next, OffRoadRequest, reportVars, CorrectRegister, RequestSnapshot, BeginSave, ReadList,
         NightStep, BeginNight, NightlySite, FinishNight, Crash, NextDay
<1>6. QED
  BY <1>1, <1>2, <1>3, <1>4, <1>5

\* compose and snapshot: what a reader is shown of a frozen day changes only as
\* a snapshot of that very day commits, whatever is filed or corrected for it.
THEOREM FrozenUntilSealedAgain == Spec => ReportedStaysReported
<1>1. Inv /\ [Next]_vars =>
        [\A s \in Site, d \in Day :
           Frozen(s, d) /\ Composed(s, d).sheet # Composed(s, d)'.sheet
             => \E w \in Worker \cup {Nightly} :
                  job[w] # Free /\ job[w].site = s /\ job[w].day = d /\ job'[w] = Free]_vars
  <2> SUFFICES ASSUME Inv, Next, NEW s \in Site, NEW d \in Day, Frozen(s, d),
                      Composed(s, d).sheet # Composed(s, d)'.sheet
               PROVE  \E w \in Worker \cup {Nightly} :
                  job[w] # Free /\ job[w].site = s /\ job[w].day = d /\ job'[w] = Free
    BY DEF vars
  <2>1. Composed(s, d).sheet = rows[s][d].sheet
    BY DEF Composed
  <2>2. ASSUME rows'[s][d] # NoRow, rows'[s][d].sheet = rows[s][d].sheet
        PROVE  FALSE
    <3>1. Frozen(s, d)'
      BY <2>2 DEF Frozen, HasRow
    <3>2. Composed(s, d)'.sheet = rows'[s][d].sheet
      BY <3>1 DEF Composed
    <3>3. QED
      BY <2>1, <2>2, <3>2
  <2>3. rows'[s][d] # rows[s][d] /\ ~\E v \in Saver : SavedBy(v, s, d)
    BY <2>2 DEF SavedBy, Frozen, HasRow
  <2>4. QED
    BY <2>3, RowStep DEF SealedBy
<1>2. QED
  BY <1>1, Invariance, PTL DEF Spec, ReportedStaysReported

\* snapshot and save share a row: a snapshot leaves the entered figure as it
\* is, and a save puts down its own.
THEOREM EnteredOutlivesSnapshots == Spec => SnapshotKeepsEntered
<1>1. Inv /\ [Next]_vars =>
        [\A s \in Site, d \in Day :
           Composed(s, d).entered # Composed(s, d)'.entered
             => \E v \in Saver : save[v] # Free /\ save[v].site = s /\ save[v].day = d
                                 /\ save[v].figure = rows'[s][d].entered]_vars
  <2> SUFFICES ASSUME Inv, Next, NEW s \in Site, NEW d \in Day,
                      Composed(s, d).entered # Composed(s, d)'.entered
               PROVE  \E v \in Saver : save[v] # Free /\ save[v].site = s /\ save[v].day = d
                                 /\ save[v].figure = rows'[s][d].entered
    BY DEF vars
  <2>1. Composed(s, d).entered = Entered(s, d)
    BY DEF Composed, Entered
  <2>2. Composed(s, d)'.entered = IF rows'[s][d] # NoRow THEN rows'[s][d].entered ELSE NoFigure
    BY DEF Composed, HasRow
  <2>3. rows'[s][d] # rows[s][d] /\ ~\E w \in Worker \cup {Nightly} : SealedBy(w, s, d)
    BY <2>1, <2>2 DEF SealedBy, Entered, HasRow
  <2>4. QED
    BY <2>3, RowStep DEF SavedBy
<1>2. QED
  BY <1>1, Invariance, PTL DEF Spec, SnapshotKeepsEntered

-----------------------------------------------------------------------------
(* Investigations.  A save writes the columns it was sent over the row as  *)
(* it is by then, so nothing is needed of what it loaded.                  *)

InquiryShape ==
  report = [b \in Investigated |-> report[b]] /\ inquiry = [r \in Investigator |-> inquiry[r]]

LEMMA InquiryStep ==
  ASSUME InquiryShape, [V!Next]_V!vars
  PROVE  /\ InquiryShape'
         /\ report' = report \/ \E r \in Investigator : V!Commit(r)
<1>1. CASE UNCHANGED V!vars
  BY <1>1 DEF V!vars, InquiryShape
<1>2. ASSUME NEW b \in Investigated, NEW bus \in Bus, NEW day \in V!Day, V!FileOrCorrect(b, bus, day)
      PROVE  UNCHANGED <<report, inquiry>>
  BY <1>2 DEF V!FileOrCorrect
<1>3. ASSUME NEW c \in Complaints, NEW bus \in Bus, NEW day \in V!Day, V!Complain(c, bus, day)
      PROVE  UNCHANGED <<report, inquiry>>
  BY <1>3 DEF V!Complain
<1>4. ASSUME NEW bus \in Bus, NEW day \in V!Day, NEW i \in V!Inspection, V!Inspect(bus, day, i)
      PROVE  UNCHANGED <<report, inquiry>>
  BY <1>4 DEF V!Inspect
<1>5. ASSUME NEW r \in Investigator, NEW b \in Investigated,
             V!OpenInvestigation(r, b) \/ V!SaveInvestigation(r, b)
      PROVE  report' = report /\ \E t : inquiry' = [inquiry EXCEPT ![r] = t]
  BY <1>5 DEF V!OpenInvestigation, V!SaveInvestigation, V!Load
<1>6. ASSUME NEW r \in Investigator, V!Commit(r)
      PROVE  /\ report' = report \/ \E b, row : report' = [report EXCEPT ![b] = row]
             /\ \E t : inquiry' = [inquiry EXCEPT ![r] = t]
  BY <1>6 DEF V!Commit
<1> QED BY <1>1, <1>2, <1>3, <1>4, <1>5, <1>6 DEF V!Next, InquiryShape

\* What stands in a column of an investigation changes only to what a request
\* sends for that very column, however opening and saving overlap.
THEOREM WordsStand == V!Spec => WordStands
<1>1. V!Init => InquiryShape
  BY DEF V!Init, InquiryShape
<1>2. InquiryShape /\ [V!Next]_V!vars =>
        [\A b \in Investigated : report[b] # V!NoRow =>
           \A c \in V!Column : report'[b][c] = report[b][c]
             \/ \E r \in Investigator :
                  /\ inquiry[r] # V!Idle /\ inquiry'[r] = V!Idle /\ inquiry[r].on = b
                  /\ c \in DOMAIN inquiry[r].sent /\ report'[b][c] = inquiry[r].sent[c]]_V!vars
  <2> SUFFICES ASSUME InquiryShape, [V!Next]_V!vars, report' # report,
                      NEW b \in Investigated, report[b] # V!NoRow, NEW c \in V!Column,
                      report'[b][c] # report[b][c]
               PROVE  \E r \in Investigator :
                  /\ inquiry[r] # V!Idle /\ inquiry'[r] = V!Idle /\ inquiry[r].on = b
                  /\ c \in DOMAIN inquiry[r].sent /\ report'[b][c] = inquiry[r].sent[c]
    BY InquiryStep
  <2>1. PICK r \in Investigator : V!Commit(r)
    BY InquiryStep
  <2> DEFINE t == inquiry[r]
             kept == V!Written(t, report[t.on])
             made == V!Written(t, t.loaded)
  <2>2. t # V!Idle /\ inquiry'[r] = V!Idle
    BY <2>1 DEF V!Commit, InquiryShape
  <2>3. \/ report' = [report EXCEPT ![t.on] = kept]
        \/ report[t.on] = V!NoRow /\ report' = [report EXCEPT ![t.on] = made]
    BY <2>1 DEF V!Commit
  <2> HIDE DEF kept, made, t
  <2>4. t.on = b /\ report'[b] = kept
    BY <2>3 DEF InquiryShape
  <2>5. kept[c] = IF c \in DOMAIN t.sent /\ t.sent[c] # t.loaded[c] THEN t.sent[c] ELSE report[b][c]
    BY <2>4 DEF kept, V!Written
  <2> QED BY <2>2, <2>4, <2>5 DEF t
<1>3. InquiryShape /\ [V!Next]_V!vars => InquiryShape'
  BY InquiryStep
<1> QED BY <1>1, <1>2, <1>3, PTL DEF V!Spec, WordStands, V!WordStands

-----------------------------------------------------------------------------
(* Listing.  A ticket once completed stays so, and what a reader was told   *)
(* of an entry was read before what it is told of the ticket.              *)

Told(row) == row.status = "resolved" => row.id \in Breakdowns /\ L!Completed(row.id)
WalkFields == {"stage", "filter", "page", "owed", "rows", "items"}
Stages == {"none", "walk", "rows", "walked", "entry", "linked", "detail", "found", "ticket", "card"}

Answered(w) == \A i \in w.items : i.status = "resolved" => i.completed
HonestReading(w) ==
  /\ w.stage \in Stages
  /\ w.stage \in {"walk", "rows", "walked"} => DOMAIN w = WalkFields
  /\ w.stage \in {"walk", "rows", "walked", "detail"} <=> "items" \in DOMAIN w
  /\ w.stage = "rows" => \A row \in w.rows : Told(row)
  /\ w.stage \in {"entry", "linked"} => Told(w.row)
  /\ "items" \in DOMAIN w => Answered(w)

\* What a card says of the session that completed its ticket.
CardHolds(w) ==
  /\ w.stage = "ticket" =>
       w.id \in L!Ticket /\ (w.completed => w.by = closer[w.id] /\ L!Completed(w.id))
  /\ w.stage = "card" /\ w.completed => w.by \in w.sessions

ListingInv ==
  /\ closer = [t \in L!Ticket |-> closer[t]] /\ source = [s \in Sessions |-> source[s]]
  /\ entry = [e \in L!Entries |-> entry[e]] /\ \A e \in L!Entries : "day" \in DOMAIN entry[e]
  /\ reading = [r \in Reader |-> reading[r]]
  /\ \A t \in L!Ticket : L!Completed(t) => closer[t] \in L!SessionsOf(t)
  /\ \A r \in Reader : HonestReading(reading[r]) /\ CardHolds(reading[r])

LEMMA ListingInit == L!Init => ListingInv
<1> SUFFICES ASSUME L!Init PROVE ListingInv
  OBVIOUS
<1>1. \A r \in Reader : reading[r] = L!NoReading
  BY DEF L!Init
<1>2. L!NoReading.stage = "none" /\ DOMAIN L!NoReading = {"stage"}
  BY DEF L!NoReading
<1>3. \A r \in Reader : HonestReading(reading[r]) /\ CardHolds(reading[r])
  BY <1>1, <1>2 DEF HonestReading, CardHolds, Stages
<1>4. \A t \in L!Ticket : ~L!Completed(t)
  BY DEF L!Init, L!Completed
<1>5. \A e \in L!Entries : "day" \in DOMAIN entry[e]
  BY DEF L!Init, L!NoEntry
<1> QED BY <1>3, <1>4, <1>5 DEF ListingInv, L!Init

\* What the book may do under a reading: a completion stays, with its session.
BookKept ==
  /\ \A t \in L!Ticket : L!Completed(t) => closer'[t] = closer[t]
  /\ \A t \in L!Ticket : L!SessionsOf(t) \subseteq L!SessionsOf(t)'

LEMMA ReadingKept ==
  ASSUME BookKept, NEW w, HonestReading(w), CardHolds(w)
  PROVE  HonestReading(w)' /\ CardHolds(w)'
<1>1. ASSUME NEW row, Told(row) PROVE Told(row)'
  <2>1. SUFFICES ASSUME row.status = "resolved" PROVE row.id \in Breakdowns /\ L!Completed(row.id)'
    BY DEF Told
  <2>2. row.id \in Breakdowns /\ row.id \in L!Ticket /\ L!Completed(row.id)
    BY <1>1, <2>1 DEF Told, L!Ticket
  <2>3. closer'[row.id] = closer[row.id]
    BY <2>2 DEF BookKept
  <2> QED BY <2>2, <2>3 DEF L!Completed
<1>2. HonestReading(w)'
  BY <1>1 DEF HonestReading, Answered
<1>3. CardHolds(w)'
  BY DEF CardHolds, BookKept, L!Completed
<1> QED BY <1>2, <1>3

\* Who is undisturbed keeps the reading; a walk that is disturbed is owed nothing.
LEMMA WatchedKeep ==
  ASSUME ListingInv, BookKept, L!Watched
  PROVE  /\ reading' = [r \in Reader |-> reading'[r]]
         /\ \A r \in Reader : HonestReading(reading[r])' /\ CardHolds(reading[r])'
<1> DEFINE cleared(r) == [reading[r] EXCEPT !.owed = {}]
<1>1. ASSUME NEW r \in Reader
      PROVE  \/ reading'[r] = reading[r]
             \/ reading[r].stage \in {"walk", "rows"} /\ reading'[r] = cleared(r)
  <2>1. reading'[r] = L!Kept(r)
    BY DEF L!Watched
  <2>2. \/ L!Kept(r) = reading[r]
        \/ reading[r].stage \in {"walk", "rows"} /\ L!Kept(r) = cleared(r)
    BY DEF L!Kept
  <2> QED BY <2>1, <2>2
<1>2. ASSUME NEW r \in Reader, reading[r].stage \in {"walk", "rows"}
      PROVE  HonestReading(cleared(r)) /\ CardHolds(cleared(r))
  <2>1. HonestReading(reading[r])
    BY DEF ListingInv
  <2>2. /\ DOMAIN cleared(r) = DOMAIN reading[r] /\ cleared(r).stage = reading[r].stage
        /\ cleared(r).rows = reading[r].rows /\ cleared(r).items = reading[r].items
    BY <1>2, <2>1 DEF HonestReading, WalkFields
  <2> HIDE DEF cleared
  <2> QED BY <1>2, <2>1, <2>2 DEF HonestReading, CardHolds, Answered, Told
<1>3. ASSUME NEW r \in Reader PROVE HonestReading(reading[r])' /\ CardHolds(reading[r])'
  <2>1. PICK w : w = reading'[r]
    OBVIOUS
  <2>2. HonestReading(w) /\ CardHolds(w)
    BY <1>1, <1>2, <2>1 DEF ListingInv
  <2>3. HonestReading(w)' /\ CardHolds(w)'
    BY <2>2, ReadingKept
  <2> QED BY <2>1, <2>3
<1>4. reading' = [r \in Reader |-> reading'[r]]
  BY DEF L!Watched
<1> QED BY <1>3, <1>4

\* A request that changes the book.
LEMMA BookSteps ==
  ASSUME ListingInv,
         \/ \E e \in L!Entries, day \in L!Day : L!File(e, day) \/ L!Correct(e, day)
         \/ \E s \in Sessions : L!Complete(s)
  PROVE  ListingInv'
<1>1. /\ closer = [t \in L!Ticket |-> closer[t]] /\ source = [x \in Sessions |-> source[x]]
      /\ entry = [x \in L!Entries |-> entry[x]] /\ \A x \in L!Entries : "day" \in DOMAIN entry[x]
      /\ \A t \in L!Ticket : L!Completed(t) => closer[t] \in L!SessionsOf(t)
  BY DEF ListingInv
<1>2. L!Watched
  BY DEF L!File, L!Correct, L!Complete
<1>3. \A t \in L!Ticket : \A x \in L!SessionsOf(t) : x \in Sessions /\ entry[x] # L!NoEntry /\ x \in L!Entries
  BY DEF L!SessionsOf, L!Filed, L!Entries
<1>4. ASSUME NEW e \in L!Entries, NEW day \in L!Day, L!File(e, day) PROVE ListingInv'
  <2>1. closer' = closer /\ entry[e] = L!NoEntry /\ \A x \in L!Entries \ {e} : entry'[x] = entry[x]
    BY <1>1, <1>4 DEF L!File
  <2>2. entry' = [x \in L!Entries |-> entry'[x]] /\ "day" \in DOMAIN entry'[e]
    <3>1. PICK made : entry' = [entry EXCEPT ![e] = [day |-> day, made |-> made]]
      BY <1>4 DEF L!File
    <3>2. "day" \in DOMAIN [day |-> day, made |-> made]
      OBVIOUS
    <3> QED BY <1>1, <3>1, <3>2
  <2>3. /\ source' = [x \in Sessions |-> source'[x]]
        /\ \A x \in Sessions \ {e} : source'[x] = source[x]
    <3>1. source' = source \/ \E t : source' = [source EXCEPT ![e] = t]
      BY <1>4 DEF L!File
    <3> QED BY <1>1, <3>1
  <2>4. \A t \in L!Ticket : L!SessionsOf(t) \subseteq L!SessionsOf(t)'
    BY <1>3, <2>1, <2>3 DEF L!SessionsOf, L!Filed
  <2>5. BookKept
    BY <2>1, <2>4 DEF BookKept
  <2>6. \A t \in L!Ticket : L!Completed(t)' => closer'[t] \in L!SessionsOf(t)'
    BY <1>1, <2>1, <2>4 DEF L!Completed
  <2> QED BY <1>1, <1>2, <2>1, <2>2, <2>3, <2>5, <2>6, WatchedKeep DEF ListingInv
<1>5. ASSUME NEW e \in L!Entries, NEW day \in L!Day, L!Correct(e, day) PROVE ListingInv'
  <2>1. /\ closer' = closer /\ source' = source /\ e \in L!Filed
        /\ entry' = [entry EXCEPT ![e].day = day]
    BY <1>5 DEF L!Correct
  <2> DEFINE c == [entry[e] EXCEPT !.day = day]
  <2>2. /\ entry' = [x \in L!Entries |-> entry'[x]] /\ entry'[e].day = day
        /\ "day" \in DOMAIN entry'[e]
        /\ \A x \in L!Entries \ {e} : entry'[x] = entry[x]
    <3>1. entry' = [entry EXCEPT ![e] = c]
      BY <2>1
    <3>2. c.day = day /\ "day" \in DOMAIN c
      BY <1>1
    <3> HIDE DEF c
    <3> QED BY <1>1, <3>1, <3>2
  <2>3. entry'[e] # L!NoEntry
    BY <2>2 DEF L!Day, L!NoEntry, L!NoDate
  <2>4. \A t \in L!Ticket : L!SessionsOf(t) \subseteq L!SessionsOf(t)'
    BY <1>3, <2>1, <2>2, <2>3 DEF L!SessionsOf, L!Filed
  <2>5. BookKept
    BY <2>1, <2>4 DEF BookKept
  <2>6. \A t \in L!Ticket : L!Completed(t)' => closer'[t] \in L!SessionsOf(t)'
    BY <1>1, <2>1, <2>4 DEF L!Completed
  <2> QED BY <1>1, <1>2, <2>1, <2>2, <2>5, <2>6, WatchedKeep DEF ListingInv
<1>6. ASSUME NEW s \in Sessions, L!Complete(s) PROVE ListingInv'
  <2>1. /\ source' = source /\ entry' = entry /\ s \in L!Filed /\ ~L!Completed(source[s])
        /\ closer' = [closer EXCEPT ![source[s]] = s]
    BY <1>6 DEF L!Complete
  <2>2. /\ closer' = [t \in L!Ticket |-> closer'[t]]
        /\ \A t \in L!Ticket : closer'[t] = IF t = source[s] THEN s ELSE closer[t]
    BY <1>1, <2>1
  <2>3. \A t \in L!Ticket : L!SessionsOf(t)' = L!SessionsOf(t)
    BY <2>1 DEF L!SessionsOf, L!Filed
  <2>4. BookKept
    BY <2>1, <2>2, <2>3 DEF BookKept
  <2>5. \A t \in L!Ticket : L!Completed(t)' => closer'[t] \in L!SessionsOf(t)'
    <3>1. source[s] \in L!Ticket => s \in L!SessionsOf(source[s])
      BY <2>1 DEF L!SessionsOf
    <3> QED BY <1>1, <2>2, <2>3, <3>1 DEF L!Completed
  <2> QED BY <1>1, <1>2, <2>1, <2>2, <2>4, <2>5, WatchedKeep DEF ListingInv
<1> QED BY <1>4, <1>5, <1>6

\* One reading moves on; the book stands.
LEMMA ReadingMoves ==
  ASSUME ListingInv, NEW r \in Reader, NEW w, L!Becomes(r, w), HonestReading(w), CardHolds(w)
  PROVE  ListingInv'
<1>1. /\ reading' = [x \in Reader |-> reading'[x]] /\ reading'[r] = w
      /\ \A x \in Reader \ {r} : reading'[x] = reading[x]
      /\ UNCHANGED <<entry, source, closer>>
  BY DEF ListingInv, L!Becomes, L!book
<1>2. BookKept
  BY <1>1 DEF BookKept, L!SessionsOf, L!Filed
<1>3. ASSUME NEW x \in Reader PROVE HonestReading(reading[x])' /\ CardHolds(reading[x])'
  <2>1. PICK v : v = reading'[x]
    OBVIOUS
  <2>2. HonestReading(v) /\ CardHolds(v)
    BY <1>1, <2>1 DEF ListingInv
  <2>3. HonestReading(v)' /\ CardHolds(v)'
    BY <1>2, <2>2, ReadingKept
  <2> QED BY <2>1, <2>3
<1>4. \A t \in L!Ticket : L!Completed(t)' => closer'[t] \in L!SessionsOf(t)'
  BY <1>1 DEF ListingInv, L!Completed, L!SessionsOf, L!Filed
<1> QED BY <1>1, <1>3, <1>4 DEF ListingInv

\* An entry is shown as it is, and so is its ticket.
LEMMA ShownIsTold == \A e : Told(L!Shown(e))
BY DEF Told, L!Shown, L!Status

LEMMA TicketsAnswer ==
  ASSUME NEW rows0, \A row \in rows0 : Told(row)
  PROVE  \A i \in L!TicketStatus(rows0) : i.status = "resolved" => i.completed
<1> SUFFICES ASSUME NEW i \in L!TicketStatus(rows0), i.status = "resolved" PROVE i.completed
  OBVIOUS
<1>1. PICK row \in rows0 :
        i = [id |-> row.id, status |-> row.status,
             completed |-> row.id \in Breakdowns /\ L!Completed(row.id)]
  BY DEF L!TicketStatus
<1>2. row.status = "resolved" /\ i.completed = (row.id \in Breakdowns /\ L!Completed(row.id))
  BY <1>1
<1> QED BY <1>2 DEF Told

LEMMA WalkMoves ==
  ASSUME ListingInv, NEW r \in Reader, L!ReadPage(r)
  PROVE  ListingInv'
<1> DEFINE w == reading[r]
           asked == [w EXCEPT !.stage = "rows", !.items = {}, !.rows = L!ShownOn(w)]
           items == L!TicketStatus(w.rows)
           turned == L!Turned(w, items)
<1>1. HonestReading(w) /\ w.stage \in {"walk", "rows"} /\ L!Becomes(r, L!RowsFirst(w))
  BY DEF L!ReadPage, ListingInv
<1>2. DOMAIN w = WalkFields
  BY <1>1 DEF HonestReading
<1>3. CASE w.stage = "walk"
  <2>1. L!Becomes(r, asked)
    BY <1>1, <1>3 DEF L!RowsFirst
  <2>2. /\ asked.stage = "rows" /\ asked.items = {} /\ asked.rows = L!ShownOn(w)
        /\ DOMAIN asked = WalkFields
    BY <1>2 DEF WalkFields
  <2>3. \A row \in L!ShownOn(w) : Told(row)
    BY ShownIsTold DEF L!ShownOn
  <2> HIDE DEF asked
  <2>4. HonestReading(asked) /\ CardHolds(asked)
    BY <2>2, <2>3 DEF HonestReading, CardHolds, Answered, Stages, WalkFields
  <2> QED BY <2>1, <2>4, ReadingMoves
<1>4. CASE w.stage = "rows"
  <2>1. L!Becomes(r, turned)
    BY <1>1, <1>4 DEF L!RowsFirst
  <2>2. /\ turned.stage \in {"walk", "walked"} /\ turned.items = items
        /\ DOMAIN turned = WalkFields
    BY <1>2 DEF WalkFields, L!Turned
  <2>3. \A i \in items : i.status = "resolved" => i.completed
    BY <1>1, <1>4, TicketsAnswer DEF HonestReading
  <2> HIDE DEF turned, items
  <2>4. HonestReading(turned) /\ CardHolds(turned)
    BY <2>2, <2>3 DEF HonestReading, CardHolds, Answered, Stages, WalkFields
  <2> QED BY <2>1, <2>4, ReadingMoves
<1> QED BY <1>1, <1>3, <1>4

\* Readings that are not walks, and what ends one.
LEMMA OtherReadings ==
  ASSUME ListingInv, NEW r \in Reader,
         \/ \E f : L!BeginWalk(r, f)
         \/ \E e : L!ReadEntry(r, e)
         \/ L!ReadLinked(r) \/ L!ReadTicketStatus(r) \/ L!Leave(r)
         \/ \E kind, status : L!SearchTickets(r, kind, status)
  PROVE  ListingInv'
<1> DEFINE w == reading[r]
<1>1. HonestReading(w)
  BY DEF ListingInv
<1>2. ASSUME NEW f, L!BeginWalk(r, f) PROVE ListingInv'
  <2> DEFINE t == [stage |-> "walk", filter |-> f, page |-> 1, owed |-> L!Matching(f),
                   rows |-> {}, items |-> {}]
  <2>1. L!Becomes(r, t)
    BY <1>2 DEF L!BeginWalk
  <2>2. t.stage = "walk" /\ t.items = {} /\ DOMAIN t = WalkFields
    BY DEF WalkFields
  <2> HIDE DEF t
  <2>3. HonestReading(t) /\ CardHolds(t)
    BY <2>2 DEF HonestReading, CardHolds, Answered, Stages, WalkFields
  <2> QED BY <2>1, <2>3, ReadingMoves
<1>3. ASSUME NEW e, L!ReadEntry(r, e) PROVE ListingInv'
  <2> DEFINE t == [stage |-> "entry", row |-> L!Shown(e)]
  <2>1. L!Becomes(r, t)
    BY <1>3 DEF L!ReadEntry
  <2>2. t.stage = "entry" /\ t.row = L!Shown(e) /\ "items" \notin DOMAIN t
    OBVIOUS
  <2> HIDE DEF t
  <2>3. HonestReading(t) /\ CardHolds(t)
    BY <2>2, ShownIsTold DEF HonestReading, CardHolds, Stages
  <2> QED BY <2>1, <2>3, ReadingMoves
<1>4. CASE L!ReadLinked(r)
  <2> DEFINE t == [stage |-> "linked", row |-> w.row, sessions |-> L!LinkedSessions(w.row.id)]
  <2>1. L!Becomes(r, t) /\ w.stage = "entry"
    BY <1>4 DEF L!ReadLinked
  <2>2. t.stage = "linked" /\ t.row = w.row /\ "items" \notin DOMAIN t
    OBVIOUS
  <2> HIDE DEF t
  <2>3. HonestReading(t) /\ CardHolds(t)
    BY <1>1, <2>1, <2>2 DEF HonestReading, CardHolds, Stages
  <2> QED BY <2>1, <2>3, ReadingMoves
<1>5. CASE L!ReadTicketStatus(r)
  <2> DEFINE t == [stage |-> "detail", items |-> L!TicketStatus({w.row}), sessions |-> w.sessions]
  <2>1. L!Becomes(r, t) /\ w.stage = "linked"
    BY <1>5 DEF L!ReadTicketStatus
  <2>2. \A row \in {w.row} : Told(row)
    BY <1>1, <2>1 DEF HonestReading
  <2>3. t.stage = "detail" /\ t.items = L!TicketStatus({w.row}) /\ "items" \in DOMAIN t
    OBVIOUS
  <2> HIDE DEF t
  <2>4. HonestReading(t) /\ CardHolds(t)
    BY <2>2, <2>3, TicketsAnswer DEF HonestReading, CardHolds, Answered, Stages
  <2> QED BY <2>1, <2>4, ReadingMoves
<1>6. CASE L!Leave(r)
  <2>1. L!Becomes(r, L!NoReading)
    BY <1>6 DEF L!Leave
  <2>2. L!NoReading.stage = "none" /\ "items" \notin DOMAIN L!NoReading
    BY DEF L!NoReading
  <2>3. HonestReading(L!NoReading) /\ CardHolds(L!NoReading)
    BY <2>2 DEF HonestReading, CardHolds, Stages
  <2> QED BY <2>1, <2>3, ReadingMoves
<1>7. ASSUME NEW kind, NEW status, L!SearchTickets(r, kind, status) PROVE ListingInv'
  <2> DEFINE t == [stage |-> "found", tickets |-> L!Search(kind, status)]
  <2>1. L!Becomes(r, t)
    BY <1>7 DEF L!SearchTickets
  <2>2. t.stage = "found" /\ "items" \notin DOMAIN t
    OBVIOUS
  <2> HIDE DEF t
  <2>3. HonestReading(t) /\ CardHolds(t)
    BY <2>2 DEF HonestReading, CardHolds, Stages
  <2> QED BY <2>1, <2>3, ReadingMoves
<1> QED BY <1>2, <1>3, <1>4, <1>5, <1>6, <1>7

\* The card is made of the ticket first and its sessions second.
LEMMA CardMoves ==
  ASSUME ListingInv, NEW r \in Reader, NEW t \in L!Ticket, L!ReadTicket(r, t)
  PROVE  ListingInv'
<1> DEFINE w == reading[r]
           ticket == [stage |-> "ticket", id |-> t, completed |-> L!Completed(t), by |-> closer[t]]
           card == [stage |-> "card", id |-> w.id, completed |-> w.completed, by |-> w.by,
                    sessions |-> L!SessionsOf(t)]
<1>1. CardHolds(w) /\ \A x \in L!Ticket : L!Completed(x) => closer[x] \in L!SessionsOf(x)
  BY DEF ListingInv
<1>2. CASE w.stage = "found"
  <2>1. L!Becomes(r, ticket)
    BY <1>2 DEF L!ReadTicket, L!TicketFirst
  <2>2. /\ ticket.stage = "ticket" /\ ticket.id = t /\ ticket.by = closer[t]
        /\ ticket.completed = L!Completed(t) /\ "items" \notin DOMAIN ticket
    OBVIOUS
  <2> HIDE DEF ticket
  <2>3. HonestReading(ticket) /\ CardHolds(ticket)
    BY <2>2 DEF HonestReading, CardHolds, Stages
  <2> QED BY <2>1, <2>3, ReadingMoves
<1>3. CASE w.stage = "ticket" /\ t = w.id
  <2>1. L!Becomes(r, card)
    BY <1>3 DEF L!ReadTicket, L!TicketFirst
  <2>2. /\ card.stage = "card" /\ card.completed = w.completed /\ card.by = w.by
        /\ card.sessions = L!SessionsOf(t) /\ "items" \notin DOMAIN card
    OBVIOUS
  <2> HIDE DEF card
  <2>3. HonestReading(card) /\ CardHolds(card)
    BY <1>1, <1>3, <2>2 DEF HonestReading, CardHolds, Stages
  <2> QED BY <2>1, <2>3, ReadingMoves
<1> QED BY <1>2, <1>3 DEF L!ReadTicket

LEMMA ListingNext == ASSUME ListingInv, [L!Next]_L!vars PROVE ListingInv'
<1>1. ASSUME UNCHANGED <<entry, source, closer, reading>> PROVE ListingInv'
  <2>1. BookKept
    BY <1>1 DEF BookKept, L!SessionsOf, L!Filed
  <2>2. \A r \in Reader : HonestReading(reading[r])' /\ CardHolds(reading[r])'
    BY <1>1, <2>1 DEF ListingInv, HonestReading, CardHolds, Told, Answered, L!Completed
  <2>3. \A t \in L!Ticket : L!Completed(t)' => closer'[t] \in L!SessionsOf(t)'
    BY <1>1 DEF ListingInv, L!Completed, L!SessionsOf, L!Filed
  <2> QED BY <1>1, <2>2, <2>3 DEF ListingInv
<1>2. CASE UNCHANGED L!vars
  BY <1>1, <1>2 DEF L!vars, L!book
<1>3. ASSUME NEW p \in Photo, NEW e \in L!Entries, L!AddPhoto(p, e) PROVE ListingInv'
  BY <1>1, <1>3 DEF L!AddPhoto
<1>4. ASSUME NEW e \in L!Entries, NEW day \in L!Day, L!File(e, day) \/ L!Correct(e, day)
      PROVE  ListingInv'
  BY <1>4, BookSteps
<1>5. ASSUME NEW s \in Sessions, L!Complete(s) PROVE ListingInv'
  BY <1>5, BookSteps
<1>6. ASSUME NEW r \in Reader, NEW q \in Queries, L!BeginWalk(r, L!Asked(q)) PROVE ListingInv'
  BY <1>6, OtherReadings
<1>7. ASSUME NEW r \in Reader,
             L!ReadPage(r) \/ L!ReadLinked(r) \/ L!ReadTicketStatus(r) \/ L!Leave(r)
      PROVE  ListingInv'
  BY <1>7, WalkMoves, OtherReadings
<1>8. ASSUME NEW r \in Reader, NEW e \in L!Entries, L!ReadEntry(r, e) PROVE ListingInv'
  BY <1>8, OtherReadings
<1>9. ASSUME NEW r \in Reader, NEW kind \in {"any", "breakdown", "check"}, NEW status \in {"open", "all"},
             L!SearchTickets(r, kind, status)
      PROVE  ListingInv'
  BY <1>9, OtherReadings
<1>10. ASSUME NEW r \in Reader, NEW t \in L!Ticket, L!ReadTicket(r, t) PROVE ListingInv'
  BY <1>10, CardMoves
<1> QED BY <1>2, <1>3, <1>4, <1>5, <1>6, <1>7, <1>8, <1>9, <1>10 DEF L!Next

\* list_entries and get_entry: whoever is told a breakdown is resolved is told,
\* in the same answer, that its ticket is completed.
THEOREM ResolvedIsCompleted == L!Spec => []ResolvedShowsCompleted
<1>1. ListingInv => ResolvedShowsCompleted
  BY DEF ListingInv, HonestReading, Answered, ResolvedShowsCompleted, L!ResolvedShowsCompleted
<1> QED BY <1>1, ListingInit, ListingNext, PTL DEF L!Spec

\* get_ticket: a ticket shown as completed is shown with the session that
\* completed it, though sessions are read after the ticket.
THEOREM CardsShowTheSession == L!Spec => []CompletedShowsItsSession
<1>1. ListingInv => CompletedShowsItsSession
  BY DEF ListingInv, CardHolds, CompletedShowsItsSession, L!CompletedShowsItsSession
<1> QED BY <1>1, ListingInit, ListingNext, PTL DEF L!Spec

-----------------------------------------------------------------------------
(* A walk over the pages of a list.  The places of a list are filled from   *)
(* the first without a gap, so a page that comes short is the last; and     *)
(* what joins the list moves others only to later places.                   *)
LEMMA ListingCounts ==
  ASSUME NEW A
  PROVE  (L!IsFiniteSet(A) <=> IsFiniteSet(A)) /\ L!Cardinality(A) = Cardinality(A)
<1>1. L!IsFiniteSet(A) <=> IsFiniteSet(A)
  BY DEF L!IsFiniteSet, IsFiniteSet
<1>2. L!Cardinality(A) = Cardinality(A)
  BY DEF L!Cardinality, Cardinality
<1> QED BY <1>1, <1>2

\* The entries before x of a set A, in an order given as a set of pairs.
Ahead(A, order, x) == {y \in A : <<y, x>> \in order}
StrictOrder(A, order) ==
  \A x, y, z \in A :
    /\ <<x, x>> \notin order
    /\ <<x, y>> \in order /\ <<y, z>> \in order => <<x, z>> \in order
    /\ x # y => <<x, y>> \in order \/ <<y, x>> \in order

LEMMA PlacesFill ==
  ASSUME NEW A, IsFiniteSet(A), NEW order, StrictOrder(A, order)
  PROVE  /\ \A x \in A : Cardinality(Ahead(A, order, x)) \in 0 .. Cardinality(A) - 1
         /\ \A x, y \in A : Cardinality(Ahead(A, order, x)) = Cardinality(Ahead(A, order, y)) => x = y
         /\ \A k \in 0 .. Cardinality(A) - 1 : \E x \in A : Cardinality(Ahead(A, order, x)) = k
<1> DEFINE n == Cardinality(A)
           B(x) == Ahead(A, order, x)
           g == [x \in A |-> Cardinality(B(x))]
<1>1. n \in Nat
  BY FS_CardinalityType
<1>2. ASSUME NEW x \in A PROVE IsFiniteSet(B(x)) /\ g[x] \in 0 .. n - 1
  <2>1. B(x) \subseteq A \ {x}
    BY DEF Ahead, StrictOrder
  <2>2. IsFiniteSet(A \ {x}) /\ Cardinality(A \ {x}) = n - 1
    BY FS_RemoveElement
  <2> HIDE DEF B, n
  <2>3. IsFiniteSet(B(x)) /\ Cardinality(B(x)) <= n - 1
    BY <2>1, <2>2, FS_Subset
  <2>4. Cardinality(B(x)) \in Nat
    BY <2>3, FS_CardinalityType
  <2> QED BY <1>1, <2>3, <2>4
<1>3. ASSUME NEW x \in A, NEW y \in A, <<x, y>> \in order PROVE g[x] < g[y]
  <2>1. B(x) \cup {x} \subseteq B(y) /\ x \notin B(x)
    BY <1>3 DEF Ahead, StrictOrder
  <2> HIDE DEF B
  <2>2. IsFiniteSet(B(x) \cup {x}) /\ Cardinality(B(x) \cup {x}) = Cardinality(B(x)) + 1
    BY <1>2, <2>1, FS_AddElement
  <2>3. Cardinality(B(x) \cup {x}) <= Cardinality(B(y))
    BY <1>2, <2>1, FS_Subset
  <2>4. Cardinality(B(x)) \in Nat /\ Cardinality(B(y)) \in Nat
    BY <1>2, FS_CardinalityType
  <2> QED BY <2>2, <2>3, <2>4
<1>4. ASSUME NEW x \in A, NEW y \in A, g[x] = g[y] PROVE x = y
  <2>1. g[x] \in Nat /\ g[y] \in Nat
    BY <1>1, <1>2
  <2> HIDE DEF g
  <2>2. <<x, y>> \notin order /\ <<y, x>> \notin order
    BY <1>3, <1>4, <2>1
  <2> QED BY <2>2 DEF StrictOrder
<1>5. \A k \in 0 .. n - 1 : \E x \in A : g[x] = k
  <2>1. g \in Injection(A, 0 .. n - 1)
    <3>1. g \in [A -> 0 .. n - 1]
      BY <1>2
    <3> QED BY <1>4, <3>1 DEF Injection, IsInjective
  <2>2. IsFiniteSet(0 .. n - 1) /\ Cardinality(0 .. n - 1) = n
    BY <1>1, FS_Interval
  <2> HIDE DEF g
  <2>3. g \in Surjection(A, 0 .. n - 1)
    BY <2>1, <2>2, FS_Injection DEF n
  <2> QED BY <2>3 DEF Surjection
<1> QED BY <1>2, <1>4, <1>5

\* The page from place o of length P, and the entries beyond it.
LEMMA ShortPageIsLast ==
  ASSUME NEW A, IsFiniteSet(A), NEW order, StrictOrder(A, order), NEW o \in Nat, NEW P \in Nat,
         NEW e \in A, Cardinality(Ahead(A, order, e)) >= o + P,
         NEW page, page = {x \in A : Cardinality(Ahead(A, order, x)) \in o .. o + P - 1}
  PROVE  IsFiniteSet(page) /\ Cardinality(page) = P
<1> DEFINE n == Cardinality(A)
           g == [x \in page |-> Cardinality(Ahead(A, order, x))]
<1>1. IsFiniteSet(page)
  BY FS_Subset
<1>2. o + P <= n /\ n \in Nat
  <2>1. Cardinality(Ahead(A, order, e)) \in 0 .. n - 1 /\ n \in Nat
    BY PlacesFill, FS_CardinalityType
  <2> QED BY <2>1
<1>3. g \in Bijection(page, o .. o + P - 1)
  <2>1. g \in [page -> o .. o + P - 1]
    OBVIOUS
  <2>2. \A x, y \in page : g[x] = g[y] => x = y
    BY PlacesFill
  <2>3. \A k \in o .. o + P - 1 : \E x \in page : g[x] = k
    <3>1. \A k \in o .. o + P - 1 : k \in 0 .. n - 1
      BY <1>2
    <3>2. \A k \in o .. o + P - 1 : \E x \in A : Cardinality(Ahead(A, order, x)) = k
      BY <3>1, PlacesFill
    <3> QED BY <3>2
  <2> HIDE DEF g
  <2> QED BY <2>1, <2>2, <2>3 DEF Bijection, Injection, Surjection, IsInjective
<1>4. Cardinality(o .. o + P - 1) = P
  BY FS_Interval
<1> HIDE DEF g
<1>5. Cardinality(o .. o + P - 1) = Cardinality(page)
  BY <1>1, <1>3, FS_Bijection DEF ExistsBijection
<1> QED BY <1>1, <1>4, <1>5

\* Entries differ in the rank of created_at, so a list is in a strict order.
EntriesRanked ==
  /\ \A e \in L!Filed : entry[e].day \in Int /\ entry[e].made \in Int
  /\ \A a, b \in L!Filed : entry[a].made = entry[b].made => a = b

OrderOf(A) == {ab \in A \X A : L!Before(ab[1], ab[2])}

\* What is still owed to a walk is listed, and not before the page it has come to.
WalkFits(w) ==
  /\ w.stage \in {"walk", "rows"} =>
       w.page \in Nat \ {0} /\ w.owed \subseteq L!Matching(w.filter)
  /\ w.stage = "walk" => \A e \in w.owed : L!Place(e, w.filter) >= L!Offset(w.page)
  /\ w.stage = "rows" =>
       /\ IsFiniteSet(w.rows) /\ \A x, y \in w.rows : x.id = y.id => x = y
       /\ \A e \in w.owed :
            \/ \E row \in w.rows : row.id = e
            \/ /\ L!Place(e, w.filter) >= L!Offset(w.page) + PageSize
               /\ Cardinality(w.rows) = PageSize
  /\ w.stage = "walked" => w.owed = {}

WalkInv == EntriesRanked /\ \A r \in Reader : WalkFits(reading[r])

LEMMA MatchingIsFinite ==
  ASSUME L!ListingAssumption, NEW f
  PROVE  /\ L!Matching(f) \subseteq L!Filed /\ IsFiniteSet(L!Matching(f))
         /\ IsFiniteSet(L!Matching(f)')
<1>1. IsFiniteSet(L!Entries)
  BY ListingCounts DEF L!ListingAssumption, L!Entries
<1>2. L!Matching(f) \subseteq L!Filed /\ L!Filed \subseteq L!Entries
  BY DEF L!Matching, L!Filed
<1>3. L!Matching(f)' \subseteq L!Entries
  BY DEF L!Matching, L!Filed
<1> QED BY <1>1, <1>2, <1>3, FS_Subset

LEMMA ListIsOrdered ==
  ASSUME L!ListingAssumption, EntriesRanked, NEW f
  PROVE  LET A == L!Matching(f)
         IN  /\ StrictOrder(A, OrderOf(A))
             /\ \A e \in A : L!Place(e, f) = Cardinality(Ahead(A, OrderOf(A), e))
<1> DEFINE A == L!Matching(f)
<1>1. A \subseteq L!Filed
  BY MatchingIsFinite
<1> HIDE DEF A
<1>2. \A x, y \in A : <<x, y>> \in OrderOf(A) <=> L!Before(x, y)
  BY DEF OrderOf
<1>3. StrictOrder(A, OrderOf(A))
  <2>1. ASSUME NEW x \in A, NEW y \in A, NEW z \in A
        PROVE  /\ ~L!Before(x, x)
               /\ L!Before(x, y) /\ L!Before(y, z) => L!Before(x, z)
               /\ x # y => L!Before(x, y) \/ L!Before(y, x)
    <3>1. /\ entry[x].day \in Int /\ entry[y].day \in Int /\ entry[z].day \in Int
          /\ entry[x].made \in Int /\ entry[y].made \in Int /\ entry[z].made \in Int
          /\ entry[x].made = entry[y].made => x = y
      BY <1>1 DEF EntriesRanked
    <3> QED BY <3>1 DEF L!Before
  <2> QED BY <1>2, <2>1 DEF StrictOrder
<1>4. ASSUME NEW e \in A PROVE L!Place(e, f) = Cardinality(Ahead(A, OrderOf(A), e))
  <2>1. {x \in A : L!Before(x, e)} = Ahead(A, OrderOf(A), e)
    BY <1>2 DEF Ahead
  <2> QED BY <2>1, ListingCounts DEF L!Place, A
<1> QED BY <1>3, <1>4 DEF A

\* What joins a list moves others to later places only.
LEMMA PlacesGrow ==
  ASSUME L!ListingAssumption, NEW f, L!InOrder(f), NEW e \in L!Matching(f)
  PROVE  /\ e \in L!Matching(f)' /\ L!Place(e, f) \in Nat /\ L!Place(e, f)' \in Nat
         /\ L!Place(e, f) <= L!Place(e, f)'
<1> DEFINE T == {x \in L!Matching(f) : L!Before(x, e)}
           U == {x \in L!Matching(f)' : L!Before(x, e)'}
<1>1. T \subseteq U /\ e \in L!Matching(f)'
  BY DEF L!InOrder
<1>2. IsFiniteSet(T) /\ IsFiniteSet(U)
  BY MatchingIsFinite, FS_Subset
<1>3. L!Place(e, f) = Cardinality(T) /\ L!Place(e, f)' = Cardinality(U)
  BY ListingCounts DEF L!Place
<1> HIDE DEF T, U
<1>4. Cardinality(T) <= Cardinality(U) /\ Cardinality(T) \in Nat /\ Cardinality(U) \in Nat
  BY <1>1, <1>2, FS_Subset, FS_CardinalityType
<1> QED BY <1>1, <1>3, <1>4

LEMMA OffsetType ==
  ASSUME L!ListingAssumption, NEW page \in Nat \ {0}
  PROVE  /\ L!Offset(page) \in Nat /\ PageSize \in Nat
         /\ L!Offset(page + 1) = L!Offset(page) + PageSize
<1>1. PageSize \in Nat /\ page - 1 \in Nat
  BY DEF L!ListingAssumption
<1>2. (page - 1) * PageSize \in Nat
  BY <1>1
<1>3. (page + 1 - 1) * PageSize = (page - 1) * PageSize + PageSize
  BY <1>1
<1> QED BY <1>1, <1>2, <1>3 DEF L!Offset

LEMMA WalkKept ==
  ASSUME L!ListingAssumption, NEW w, WalkFits(w),
         w.stage \in {"walk", "rows"} => L!InOrder(w.filter)
  PROVE  WalkFits(w)'
<1>1. w.stage \in {"walk", "rows"} => w.owed \subseteq L!Matching(w.filter)'
  BY DEF WalkFits, L!InOrder
<1>2. ASSUME w.stage \in {"walk", "rows"}, NEW e \in w.owed, NEW n \in Int,
             L!Place(e, w.filter) >= n
      PROVE  L!Place(e, w.filter)' >= n
  <2>1. L!InOrder(w.filter) /\ e \in L!Matching(w.filter)
    BY <1>2 DEF WalkFits
  <2> QED BY <1>2, <2>1, PlacesGrow
<1>3. w.stage \in {"walk", "rows"} =>
        L!Offset(w.page) \in Int /\ L!Offset(w.page) + PageSize \in Int
  BY OffsetType DEF WalkFits
<1> QED BY <1>1, <1>2, <1>3 DEF WalkFits

\* A request that files, corrects or completes: a walk it disturbs is owed nothing.
LEMMA WatchedWalks ==
  ASSUME L!ListingAssumption, ListingInv, WalkInv, L!Watched
  PROVE  \A r \in Reader : WalkFits(reading[r])'
<1> SUFFICES ASSUME NEW r \in Reader PROVE WalkFits(reading[r])'
  OBVIOUS
<1> DEFINE w == reading[r]
           cleared == [w EXCEPT !.owed = {}]
<1>1. WalkFits(w) /\ HonestReading(w)
  BY DEF WalkInv, ListingInv
<1>2. reading'[r] = L!Kept(r)
  BY DEF L!Watched
<1>3. CASE w.stage \in {"walk", "rows"} /\ ~L!InOrder(w.filter)
  <2>1. reading'[r] = cleared
    BY <1>2, <1>3 DEF L!Kept
  <2>2. /\ cleared.stage = w.stage /\ cleared.owed = {} /\ cleared.page = w.page
        /\ cleared.rows = w.rows
    BY <1>1, <1>3 DEF HonestReading, WalkFields
  <2>3. PICK v : v = reading'[r]
    OBVIOUS
  <2>4. v.stage \in {"walk", "rows"} /\ v.owed = {} /\ v.page = w.page /\ v.rows = w.rows
        /\ v.stage = w.stage
    BY <1>3, <2>1, <2>2, <2>3
  <2> HIDE DEF cleared
  <2>5. WalkFits(v)'
    BY <1>1, <2>4 DEF WalkFits
  <2> QED BY <2>3, <2>5
<1>4. CASE ~(w.stage \in {"walk", "rows"} /\ ~L!InOrder(w.filter))
  <2>1. reading'[r] = w
    BY <1>2, <1>4 DEF L!Kept
  <2>2. PICK v : v = w
    OBVIOUS
  <2>3. WalkFits(v)'
    BY <1>1, <1>4, <2>2, WalkKept
  <2> QED BY <2>1, <2>2, <2>3
<1> QED BY <1>3, <1>4

LEMMA RankKept ==
  ASSUME ListingInv, EntriesRanked,
         \/ \E e \in L!Entries, day \in L!Day : L!File(e, day) \/ L!Correct(e, day)
         \/ \E s \in Sessions : L!Complete(s)
         \/ entry' = entry
  PROVE  EntriesRanked'
<1>1. entry = [x \in L!Entries |-> entry[x]] /\ L!Filed \subseteq L!Entries
  BY DEF ListingInv, L!Filed
<1>2. ASSUME NEW e \in L!Entries, NEW day \in L!Day, L!File(e, day) PROVE EntriesRanked'
  <2>1. PICK made \in L!Rank \ {entry[x].made : x \in L!Filed} :
          entry' = [entry EXCEPT ![e] = [day |-> day, made |-> made]]
    BY <1>2 DEF L!File
  <2>2. /\ entry'[e] = [day |-> day, made |-> made] /\ made \in Int /\ day \in Int
        /\ \A x \in L!Entries \ {e} : entry'[x] = entry[x]
    BY <1>1, <2>1 DEF L!Rank, L!Day
  <2>3. L!Filed' \subseteq L!Filed \cup {e} /\ L!Filed' \subseteq L!Entries
    BY <2>2 DEF L!Filed
  <2>4. entry[e] = L!NoEntry
    BY <1>2 DEF L!File
  <2>5. \A x \in L!Filed : x # e /\ entry'[x] = entry[x] /\ entry[x].made # made
    BY <1>1, <2>1, <2>2, <2>4 DEF L!Filed
  <2>6. entry'[e].day = day /\ entry'[e].made = made
    BY <2>2
  <2>7. \A x \in L!Filed' : entry'[x].day \in Int /\ entry'[x].made \in Int
    BY <2>2, <2>3, <2>5, <2>6 DEF EntriesRanked
  <2>8. \A a, b \in L!Filed' : entry'[a].made = entry'[b].made => a = b
    BY <2>3, <2>5, <2>6 DEF EntriesRanked
  <2> QED BY <2>7, <2>8 DEF EntriesRanked
<1>3. ASSUME NEW e \in L!Entries, NEW day \in L!Day, L!Correct(e, day) PROVE EntriesRanked'
  <2> DEFINE c == [entry[e] EXCEPT !.day = day]
  <2>1. e \in L!Filed /\ entry' = [entry EXCEPT ![e] = c]
    BY <1>3 DEF L!Correct
  <2>2. c.day = day /\ c.made = entry[e].made /\ day \in Int
    BY DEF ListingInv, L!Day
  <2> HIDE DEF c
  <2>3. /\ entry'[e] = c /\ \A x \in L!Entries \ {e} : entry'[x] = entry[x]
    BY <1>1, <2>1
  <2>4. L!Filed' \subseteq L!Filed
    BY <2>1, <2>3 DEF L!Filed
  <2>5. \A x \in L!Filed : entry'[x].made = entry[x].made /\ entry'[x].day \in Int
    BY <1>1, <2>2, <2>3 DEF EntriesRanked
  <2> QED BY <2>4, <2>5 DEF EntriesRanked
<1>4. ASSUME entry' = entry PROVE EntriesRanked'
  BY <1>4 DEF EntriesRanked, L!Filed
<1>5. ASSUME NEW s \in Sessions, L!Complete(s) PROVE entry' = entry
  BY <1>5 DEF L!Complete
<1> QED BY <1>2, <1>3, <1>4, <1>5

\* One reading moves on, to what fits.
LEMMA WalkMovesOn ==
  ASSUME L!ListingAssumption, ListingInv, WalkInv, NEW r \in Reader, NEW w, L!Becomes(r, w),
         WalkFits(w)
  PROVE  WalkInv'
<1>1. /\ reading'[r] = w /\ \A x \in Reader \ {r} : reading'[x] = reading[x]
      /\ UNCHANGED <<entry, source, closer>>
  BY DEF ListingInv, L!Becomes, L!book
<1>2. \A f : L!InOrder(f)
  BY <1>1 DEF L!InOrder, L!Matching, L!Matches, L!Filed, L!Before, L!Origin, L!Linked, L!Status,
              L!Raised, L!Completed
<1>3. ASSUME NEW x \in Reader PROVE WalkFits(reading[x])'
  <2>1. PICK v : v = reading'[x]
    OBVIOUS
  <2>2. WalkFits(v)
    BY <1>1, <2>1 DEF WalkInv
  <2>3. WalkFits(v)'
    BY <1>2, <2>2, WalkKept
  <2> QED BY <2>1, <2>3
<1> QED BY <1>1, <1>3, RankKept DEF WalkInv

\* The rows of a page: each once, and all that is owed unless the page is full.
LEMMA PageIsRead ==
  ASSUME L!ListingAssumption, ListingInv, WalkInv, NEW w, WalkFits(w), w.stage = "walk",
         DOMAIN w = WalkFields
  PROVE  WalkFits([w EXCEPT !.stage = "rows", !.items = {}, !.rows = L!ShownOn(w)])
<1> DEFINE q == [w EXCEPT !.stage = "rows", !.items = {}, !.rows = L!ShownOn(w)]
           A == L!Matching(w.filter)
           order == OrderOf(A)
           o == L!Offset(w.page)
           page == {x \in A : Cardinality(Ahead(A, order, x)) \in o .. o + PageSize - 1}
<1>1. /\ q.stage = "rows" /\ q.owed = w.owed /\ q.page = w.page /\ q.filter = w.filter
      /\ q.rows = L!ShownOn(w)
  BY DEF WalkFields
<1>2. w.page \in Nat \ {0} /\ w.owed \subseteq A /\ o \in Nat /\ PageSize \in Nat
  BY OffsetType DEF WalkFits
<1>3. IsFiniteSet(A) /\ StrictOrder(A, order)
      /\ \A e \in A : L!Place(e, w.filter) = Cardinality(Ahead(A, order, e))
  BY MatchingIsFinite, ListIsOrdered DEF WalkInv
<1>4. L!PageOf(w.filter, w.page) = page
  BY <1>3 DEF L!PageOf
<1>5. L!ShownOn(w) = {L!Shown(e) : e \in page}
  BY <1>4 DEF L!ShownOn
<1>6. \A e : L!Shown(e).id = e
  BY DEF L!Shown
<1>7. IsFiniteSet(page)
  BY <1>3, FS_Subset
<1> HIDE DEF q, o, order, A
<1>8. IsFiniteSet(q.rows) /\ Cardinality(q.rows) = Cardinality(page)
  <2> DEFINE f == [e \in page |-> L!Shown(e)]
  <2>1. f \in Bijection(page, L!ShownOn(w))
    BY <1>5, <1>6 DEF Bijection, Injection, Surjection, IsInjective
  <2> HIDE DEF f, page
  <2> QED BY <1>1, <1>7, <2>1, FS_Bijection DEF ExistsBijection
<1>9. \A x, y \in q.rows : x.id = y.id => x = y
  BY <1>1, <1>5, <1>6
<1>10. ASSUME NEW e \in w.owed
       PROVE  \/ \E row \in q.rows : row.id = e
              \/ /\ L!Place(e, w.filter) >= o + PageSize
                 /\ Cardinality(q.rows) = PageSize
  <2>1. e \in A /\ Cardinality(Ahead(A, order, e)) >= o
    BY <1>2, <1>3 DEF WalkFits, o, A
  <2>2. Cardinality(Ahead(A, order, e)) \in Int
    BY <1>3, <2>1, PlacesFill
  <2>3. CASE Cardinality(Ahead(A, order, e)) <= o + PageSize - 1
    <3>1. e \in page
      BY <1>2, <2>1, <2>2, <2>3
    <3> QED BY <1>1, <1>5, <1>6, <3>1
  <2>4. CASE Cardinality(Ahead(A, order, e)) >= o + PageSize
    <3>1. Cardinality(page) = PageSize
      BY <1>2, <1>3, <2>1, <2>4, ShortPageIsLast
    <3> QED BY <1>3, <1>8, <2>1, <2>4, <3>1
  <2> QED BY <1>2, <2>2, <2>3, <2>4
<1>11. WalkFits(q)
  BY <1>1, <1>2, <1>8, <1>9, <1>10 DEF WalkFits, o, A
<1> QED BY <1>11 DEF q

LEMMA PageIsTurned ==
  ASSUME L!ListingAssumption, NEW w, WalkFits(w), w.stage = "rows", DOMAIN w = WalkFields
  PROVE  WalkFits(L!Turned(w, L!TicketStatus(w.rows)))
<1> DEFINE items == L!TicketStatus(w.rows)
           q == L!Turned(w, items)
           ids == {i.id : i \in items}
           of(row) == [id |-> row.id, status |-> row.status,
                       completed |-> row.id \in Breakdowns /\ L!Completed(row.id)]
<1>1. /\ q.stage = IF L!Cardinality(items) = PageSize THEN "walk" ELSE "walked"
      /\ q.page = w.page + 1 /\ q.owed = w.owed \ ids /\ q.filter = w.filter
  BY DEF WalkFields, L!Turned
<1>2. items = {of(row) : row \in w.rows}
  BY DEF L!TicketStatus
<1>3. \A row \in w.rows : of(row).id = row.id
  OBVIOUS
<1> HIDE DEF q, of
<1>4. \A row \in w.rows : row.id \in ids
  BY <1>2, <1>3
<1>5. Cardinality(items) = Cardinality(w.rows)
  <2> DEFINE f == [row \in w.rows |-> of(row)]
  <2>1. f \in Bijection(w.rows, items)
    BY <1>2, <1>3 DEF Bijection, Injection, Surjection, IsInjective, WalkFits
  <2>2. IsFiniteSet(w.rows)
    BY DEF WalkFits
  <2> HIDE DEF f, items
  <2> QED BY <2>1, <2>2, FS_Bijection DEF ExistsBijection
<1> HIDE DEF items, ids
<1>6. L!Cardinality(items) = Cardinality(w.rows)
  BY <1>5, ListingCounts
<1>7. /\ w.page \in Nat \ {0} /\ w.owed \subseteq L!Matching(w.filter)
      /\ L!Offset(w.page + 1) = L!Offset(w.page) + PageSize
  BY OffsetType DEF WalkFits
<1>8. \A e \in q.owed : /\ L!Place(e, w.filter) >= L!Offset(w.page) + PageSize
                        /\ Cardinality(w.rows) = PageSize
  BY <1>1, <1>4 DEF WalkFits
<1>9. ASSUME Cardinality(w.rows) = PageSize PROVE WalkFits(q)
  <2>1. q.stage = "walk" /\ q.page \in Nat \ {0} /\ q.owed \subseteq L!Matching(q.filter)
    BY <1>1, <1>6, <1>7, <1>9
  <2>2. \A e \in q.owed : L!Place(e, q.filter) >= L!Offset(q.page)
    BY <1>1, <1>7, <1>8
  <2> QED BY <2>1, <2>2 DEF WalkFits
<1>10. ASSUME Cardinality(w.rows) # PageSize PROVE WalkFits(q)
  <2>1. q.stage = "walked" /\ q.owed = {}
    BY <1>1, <1>6, <1>8, <1>10
  <2> QED BY <2>1 DEF WalkFits
<1>11. WalkFits(q)
  BY <1>9, <1>10
<1> QED BY <1>11 DEF q, items

LEMMA WalkNext ==
  ASSUME L!ListingAssumption, ListingInv, WalkInv, [L!Next]_L!vars
  PROVE  WalkInv'
<1>1. ASSUME UNCHANGED <<entry, source, closer, reading>> PROVE WalkInv'
  <2>1. \A f : L!InOrder(f)
    BY <1>1 DEF L!InOrder, L!Matching, L!Matches, L!Filed, L!Before, L!Origin, L!Linked, L!Status,
                L!Raised, L!Completed
  <2>2. ASSUME NEW x \in Reader PROVE WalkFits(reading[x])'
    <3>1. PICK v : v = reading[x]
      OBVIOUS
    <3>2. WalkFits(v)'
      BY <2>1, <3>1, WalkKept DEF WalkInv
    <3> QED BY <1>1, <3>1, <3>2
  <2> QED BY <1>1, <2>2, RankKept DEF WalkInv
<1>2. ASSUME \/ \E e \in L!Entries, day \in L!Day : L!File(e, day) \/ L!Correct(e, day)
             \/ \E s \in Sessions : L!Complete(s)
      PROVE  WalkInv'
  <2>1. L!Watched
    BY <1>2 DEF L!File, L!Correct, L!Complete
  <2>2. EntriesRanked'
    BY <1>2, RankKept DEF WalkInv
  <2> QED BY <2>1, <2>2, WatchedWalks DEF WalkInv
<1>3. ASSUME NEW r \in Reader, NEW f, L!BeginWalk(r, f) PROVE WalkInv'
  <2> DEFINE t == [stage |-> "walk", filter |-> f, page |-> 1, owed |-> L!Matching(f),
                   rows |-> {}, items |-> {}]
  <2>1. L!Becomes(r, t)
    BY <1>3 DEF L!BeginWalk
  <2>2. t.stage = "walk" /\ t.page = 1 /\ t.owed = L!Matching(f) /\ t.filter = f
    OBVIOUS
  <2>3. L!Offset(1) = 0
    BY DEF L!Offset, L!ListingAssumption
  <2>4. ASSUME NEW e \in L!Matching(f) PROVE L!Place(e, f) >= 0
    <3>1. {x \in L!Matching(f) : L!Before(x, e)} \subseteq L!Matching(f)
      OBVIOUS
    <3>2. L!Place(e, f) \in Nat
      BY <3>1, MatchingIsFinite, FS_Subset, FS_CardinalityType, ListingCounts DEF L!Place
    <3> QED BY <3>2
  <2> HIDE DEF t
  <2>5. WalkFits(t)
    BY <2>2, <2>3, <2>4 DEF WalkFits
  <2> QED BY <2>1, <2>5, WalkMovesOn
<1>4. ASSUME NEW r \in Reader, L!ReadPage(r) PROVE WalkInv'
  <2> DEFINE w == reading[r]
  <2>1. /\ HonestReading(w) /\ WalkFits(w) /\ w.stage \in {"walk", "rows"}
        /\ L!Becomes(r, L!RowsFirst(w))
    BY <1>4 DEF L!ReadPage, ListingInv, WalkInv
  <2>2. DOMAIN w = WalkFields
    BY <2>1 DEF HonestReading
  <2> HIDE DEF w
  <2>3. CASE w.stage = "walk"
    <3>1. WalkFits(L!RowsFirst(w))
      BY <2>1, <2>2, <2>3, PageIsRead DEF L!RowsFirst
    <3> QED BY <2>1, <3>1, WalkMovesOn
  <2>4. CASE w.stage = "rows"
    <3>1. WalkFits(L!RowsFirst(w))
      BY <2>1, <2>2, <2>4, PageIsTurned DEF L!RowsFirst
    <3> QED BY <2>1, <3>1, WalkMovesOn
  <2> QED BY <2>1, <2>3, <2>4
<1>5. ASSUME NEW r \in Reader, NEW w, L!Becomes(r, w),
             w.stage \in {"none", "entry", "linked", "detail", "found", "ticket", "card"}
      PROVE  WalkInv'
  <2>1. WalkFits(w)
    BY <1>5 DEF WalkFits
  <2> QED BY <1>5, <2>1, WalkMovesOn
<1>6. ASSUME NEW r \in Reader,
             \/ L!ReadLinked(r) \/ L!ReadTicketStatus(r) \/ L!Leave(r)
             \/ \E e : L!ReadEntry(r, e)
             \/ \E kind, status : L!SearchTickets(r, kind, status)
             \/ \E t : L!ReadTicket(r, t)
      PROVE  WalkInv'
  <2>1. CASE L!ReadLinked(r)
    BY <1>5, <2>1 DEF L!ReadLinked
  <2>2. CASE L!ReadTicketStatus(r)
    BY <1>5, <2>2 DEF L!ReadTicketStatus
  <2>3. CASE L!Leave(r)
    BY <1>5, <2>3 DEF L!Leave, L!NoReading
  <2>4. CASE \E e : L!ReadEntry(r, e)
    BY <1>5, <2>4 DEF L!ReadEntry
  <2>5. CASE \E kind, status : L!SearchTickets(r, kind, status)
    BY <1>5, <2>5 DEF L!SearchTickets
  <2>6. CASE \E t : L!ReadTicket(r, t)
    BY <1>5, <2>6 DEF L!ReadTicket, L!TicketFirst
  <2> QED BY <1>6, <2>1, <2>2, <2>3, <2>4, <2>5, <2>6
<1>7. CASE UNCHANGED L!vars
  BY <1>1, <1>7 DEF L!vars, L!book
<1>8. ASSUME NEW p \in Photo, NEW e \in L!Entries, L!AddPhoto(p, e) PROVE WalkInv'
  BY <1>1, <1>8 DEF L!AddPhoto
<1> QED BY <1>2, <1>3, <1>4, <1>6, <1>7, <1>8 DEF L!Next

LEMMA WalkInit == L!Init => WalkInv
<1> SUFFICES ASSUME L!Init PROVE WalkInv
  OBVIOUS
<1>1. L!Filed = {}
  BY DEF L!Init, L!Filed
<1>2. \A r \in Reader : reading[r].stage = "none"
  BY DEF L!Init, L!NoReading
<1> QED BY <1>1, <1>2 DEF WalkInv, EntriesRanked, WalkFits

\* list_entries, page by page: a walk misses no entry that was listed when it
\* began and that nothing moved, for lists and pages of any length.
THEOREM WalksMissNothing == L!Spec => []WalkMissesNothing
<1>1. ListingInv /\ WalkInv /\ [L!Next]_L!vars => ListingInv' /\ WalkInv'
  BY ReportsAssumption, ListingNext, WalkNext
<1>2. L!Init => ListingInv /\ WalkInv
  BY ListingInit, WalkInit
<1>3. WalkInv => WalkMissesNothing
  BY DEF WalkInv, WalkFits, WalkMissesNothing, L!WalkMissesNothing
<1> QED BY <1>1, <1>2, <1>3, PTL DEF L!Spec

-----------------------------------------------------------------------------
(* The components side by side.                                            *)

\* What a component keeps by itself it keeps while the others move.
THEOREM ReportsAreApart == ReportsSpec => Spec /\ V!Spec /\ L!Spec
<1>1. ReportsInit => Init /\ V!Init /\ L!Init
  BY DEF ReportsInit
<1>2. [ReportsNext]_allVars =>
        [Next]_vars /\ [V!Next]_(V!vars) /\ [L!Next]_(L!vars)
  <2> USE DEF investigationVars, listingVars, V!vars, L!vars
  <2>1. CASE UNCHANGED allVars
    BY <2>1 DEF allVars
  <2>2. CASE ReportsNext
    BY <2>2, Zenon DEF ReportsNext
  <2> QED BY <2>1, <2>2
<1> QED BY <1>1, <1>2, PTL DEF ReportsSpec, Spec, V!Spec, L!Spec
=============================================================================
