---------------------------- MODULE RecordsProofs ----------------------------
(***************************************************************************)
(* Theorems about the components of Records, one part for each: FittedUnits *)
(* with the odometer it extends, Inbox, Registers and Checklists.  Each is  *)
(* about a component's own specification; RecordsAreApart says that all of  *)
(* them hold of the components side by side.                                *)
(***************************************************************************)
EXTENDS Records, FiniteSetTheorems, TLAPS

-----------------------------------------------------------------------------
(* FittedUnits, and the odometer underneath.  Every transaction keeps what  *)
(* it loaded; what it may rely on later is that a row once read stays read, *)
(* and that what it brings is not below what it loaded.                     *)

Parties == Txn \cup {Scan}

UnreadIsBlank ==
  \A b \in Bus : ~row[b].read =>
    row[b].km = 0 /\ row[b].service = NoKm /\ history[b] = {}

\* What the transaction q is about to write on bus b.
Ahead(q, b) ==
  IF q.was[b].read THEN row[b].read /\ q.now[b] >= q.was[b].km ELSE q.was[b].km = 0

\* What transaction t relies on when it commits.
Rests(t) ==
  /\ txn[t].kind = "reading" => \A b \in DOMAIN txn[t].now : Ahead(txn[t], b)
  /\ txn[t].kind = "fit" => txn[t].seen = {} /\ txn[t].now.off = NoDate
  /\ txn[t].kind = "remove" =>
       /\ Held(txn[t].id) /\ stays[txn[t].id].bus = txn[t].now.bus
       /\ txn[t].old.off = NoDate /\ txn[t].now.off # NoDate
AllRest == \A t \in Parties : Rests(t)

OdometerInv ==
  /\ UnitsTypeOK /\ txn = [t \in Parties |-> txn[t]]
  /\ UnreadIsBlank
  /\ RowAgreesWithHistory
  /\ AllRest

LEMMA ReadingShape ==
  ASSUME UnitsTypeOK, NEW t \in Parties, txn[t].kind = "reading"
  PROVE  /\ DOMAIN txn[t].now \in SUBSET Bus
         /\ txn[t].was \in [DOMAIN txn[t].now -> Row]
         /\ txn[t].now \in [DOMAIN txn[t].now -> Km]
         /\ txn[t].service \in BOOLEAN /\ txn[t].synced \in SUBSET Site
<1>1. txn[t] \in ReadingTxn
  BY DEF UnitsTypeOK, Parties, Free, FitTxn, RemoveTxn
<1>2. PICK B \in SUBSET Bus : txn[t] \in Writes(B)
  BY <1>1 DEF ReadingTxn
<1>3. DOMAIN txn[t].now = B
  BY <1>2 DEF Writes
<1> QED BY <1>2, <1>3 DEF Writes

LEMMA FitShape ==
  ASSUME UnitsTypeOK, NEW t \in Parties, txn[t].kind = "fit"
  PROVE  txn[t] \in FitTxn
BY DEF UnitsTypeOK, Parties, Free, ReadingTxn, Writes, RemoveTxn

LEMMA RemoveShape ==
  ASSUME UnitsTypeOK, NEW t \in Parties, txn[t].kind = "remove"
  PROVE  txn[t] \in RemoveTxn
BY DEF UnitsTypeOK, Parties, Free, ReadingTxn, Writes, FitTxn

\* A transaction begins with rows as they are.
LEMMA BeginShape ==
  ASSUME OdometerInv, NEW t \in Parties, NEW B \in SUBSET Bus, NEW now \in [B -> Km],
         NEW service \in BOOLEAN, NEW synced \in SUBSET Site, Begin(t, B, now, service, synced),
         \A b \in B : row[b].read => now[b] >= row[b].km
  PROVE  /\ txn'[t] \in ReadingTxn /\ txn'[t].now = now
         /\ \A b \in B : txn'[t].was[b] = row[b]
         /\ txn' = [u \in Parties |-> txn'[u]]
         /\ \A u \in Parties \ {t} : txn'[u] = txn[u]
<1> DEFINE q == [kind |-> "reading", was |-> [b \in B |-> row[b]], now |-> now,
                 service |-> service, synced |-> synced]
<1>1. q \in Writes(B)
  BY DEF Writes, OdometerInv, UnitsTypeOK, OdometerTypeOK
<1>2. q \in ReadingTxn
  BY <1>1 DEF ReadingTxn
<1>3. txn' = [txn EXCEPT ![t] = q]
  BY DEF Begin
<1>4. txn'[t] = q /\ \A u \in Parties \ {t} : txn'[u] = txn[u]
  BY <1>3 DEF OdometerInv
<1> HIDE DEF q
<1>5. txn' = [u \in Parties |-> txn'[u]]
  BY <1>3 DEF OdometerInv
<1> QED BY <1>2, <1>4, <1>5 DEF q

\* What a commit of readings leaves on each bus.
LEMMA CommitRows ==
  ASSUME OdometerInv, NEW t \in Parties, CommitReadings(t)
  PROVE  /\ row' \in [Bus -> Row] /\ history' \in [Bus -> SUBSET Km]
         /\ raced \subseteq raced' /\ raced' \in SUBSET Bus
         /\ \A b \in Bus \ DOMAIN txn[t].now : row'[b] = row[b] /\ history'[b] = history[b]
         /\ \A b \in DOMAIN txn[t].now :
              /\ b \in Bus /\ txn[t].was[b] \in Row /\ txn[t].now[b] \in Km
              /\ row'[b].read
              /\ row'[b].km = Column(txn[t].was[b].km, txn[t].now[b], row[b].km)
              /\ row'[b].service = IF txn[t].service
                   THEN Column(txn[t].was[b].service, txn[t].now[b], row[b].service)
                   ELSE row[b].service
              /\ history'[b] = history[b] \cup {txn[t].now[b]}
              /\ b \notin raced' => row[b] = txn[t].was[b]
<1> DEFINE q == txn[t]
<1>1. /\ DOMAIN q.now \in SUBSET Bus /\ q.was \in [DOMAIN q.now -> Row]
      /\ q.now \in [DOMAIN q.now -> Km] /\ q.service \in BOOLEAN
  BY ReadingShape DEF CommitReadings, OdometerInv
<1>2. row \in [Bus -> Row] /\ history \in [Bus -> SUBSET Km] /\ raced \in SUBSET Bus
  BY DEF OdometerInv, UnitsTypeOK, OdometerTypeOK
<1>3. ASSUME NEW b \in DOMAIN q.now PROVE Written(b, q) \in Row /\ Keeps(b, q) \in SUBSET Km
  BY <1>1, <1>2 DEF Written, Keeps, Column, Row
<1>4. /\ row' = [b \in Bus |-> IF b \in DOMAIN q.now THEN Written(b, q) ELSE row[b]]
      /\ history' = [b \in Bus |-> IF b \in DOMAIN q.now THEN Keeps(b, q) ELSE history[b]]
      /\ raced' = raced \cup {b \in DOMAIN q.now : row[b] # q.was[b]}
  BY DEF CommitReadings
<1> QED BY <1>1, <1>2, <1>3, <1>4 DEF Written, Keeps

LEMMA CommitKeepsRows ==
  ASSUME OdometerInv, NEW t \in Parties, CommitReadings(t)
  PROVE  /\ UnreadIsBlank' /\ RowAgreesWithHistory'
         /\ \A b \in Bus : row[b].read => row'[b].read
         /\ \A b \in Bus : NeverBackUnlessRaced(b)
<1> DEFINE q == txn[t]
<1>1. ASSUME NEW b \in DOMAIN q.now
      PROVE  /\ b \in Bus /\ row[b] \in Row /\ history[b] \in SUBSET Km
             /\ q.was[b] \in Row /\ q.now[b] \in Km /\ Ahead(q, b)
             /\ ~row[b].read => row[b].km = 0 /\ row[b].service = NoKm /\ history[b] = {}
             /\ row[b].read => row[b].km \in history[b]
             /\ row[b].service # NoKm => row[b].service \in history[b]
             /\ b \notin raced => /\ row[b].read => \A k \in history[b] : k <= row[b].km
                                  /\ row[b].service # NoKm => row[b].service <= row[b].km
  BY <1>1, CommitRows
  DEF OdometerInv, UnitsTypeOK, OdometerTypeOK, UnreadIsBlank, RowAgreesWithHistory,
      CacheIsHighest, AnchorIsBehind, AllRest, Rests, CommitReadings
<1>2. ASSUME NEW b \in DOMAIN q.now
      PROVE  /\ row'[b].km \in history'[b]
             /\ row'[b].service # NoKm => row'[b].service \in history'[b]
  BY <1>1, <1>2, CommitRows DEF Column, Ahead, Row, Km, NoKm
<1>3. ASSUME NEW b \in DOMAIN q.now, b \notin raced'
      PROVE  /\ b \notin raced /\ row'[b].km = q.now[b]
             /\ \A k \in history'[b] : k <= row'[b].km
             /\ row'[b].service # NoKm => row'[b].service <= row'[b].km
             /\ row[b].km <= row'[b].km
  <2>1. row[b] = q.was[b] /\ b \notin raced
    BY <1>3, CommitRows
  <2>2. row'[b].km = q.now[b] /\ row[b].km <= q.now[b]
    BY <1>1, <1>3, <2>1, CommitRows DEF Column, Ahead, Row, Km
  <2>3. \A k \in history[b] : k <= q.now[b]
    BY <1>1, <1>3, <2>1, <2>2 DEF Row, Km
  <2>4. row'[b].service # NoKm => row'[b].service <= q.now[b]
    BY <1>1, <1>3, <2>1, <2>2, CommitRows DEF Column, Row, Km, NoKm
  <2> QED BY <1>1, <1>3, <2>1, <2>2, <2>3, <2>4, CommitRows DEF Km
<1>4. \A b \in Bus \ DOMAIN q.now : row'[b] = row[b] /\ history'[b] = history[b]
  BY CommitRows
<1>5. \A b \in DOMAIN q.now : row'[b].read
  BY CommitRows
<1>6. UnreadIsBlank'
  BY <1>4, <1>5 DEF UnreadIsBlank, OdometerInv
<1>7. CacheIsHighest' /\ AnchorIsBehind'
  <2> SUFFICES ASSUME NEW b \in Bus
               PROVE  /\ row'[b].read => /\ row'[b].km \in history'[b]
                                         /\ b \notin raced' =>
                                              \A k \in history'[b] : k <= row'[b].km
                      /\ row'[b].service # NoKm => /\ row'[b].service \in history'[b]
                                                   /\ b \notin raced' =>
                                                        row'[b].service <= row'[b].km
    BY DEF CacheIsHighest, AnchorIsBehind
  <2>1. CASE b \in DOMAIN q.now
    BY <1>2, <1>3, <2>1
  <2>2. CASE b \notin DOMAIN q.now
    <3>1. row'[b] = row[b] /\ history'[b] = history[b] /\ (b \notin raced' => b \notin raced)
      BY <1>4, <2>2, CommitRows
    <3> QED BY <3>1 DEF OdometerInv, RowAgreesWithHistory, CacheIsHighest, AnchorIsBehind
  <2> QED BY <2>1, <2>2
<1>8. \A b \in Bus : NeverBackUnlessRaced(b)
  <2> SUFFICES ASSUME NEW b \in Bus, row'[b].km < row[b].km, b \notin raced' PROVE FALSE
    BY DEF NeverBackUnlessRaced
  <2>1. row[b].km \in Int
    BY DEF OdometerInv, UnitsTypeOK, OdometerTypeOK, Row, Km
  <2>2. b \in DOMAIN q.now
    BY <1>4, <2>1
  <2>3. row[b].km <= row'[b].km /\ row'[b].km \in Int
    BY <1>1, <1>3, <2>2 DEF Km
  <2> QED BY <2>1, <2>3
<1> QED BY <1>4, <1>5, <1>6, <1>7, <1>8 DEF RowAgreesWithHistory

\* A stay is never deleted and never moves to another bus.
StaysStay == \A i \in StayId : Held(i) => Held(i)' /\ stays'[i].bus = stays[i].bus

\* Rows only move from unread to read, and stays stay, so a transaction that is
\* left alone can still rely on what it relied on.
LEMMA KeptRests ==
  ASSUME OdometerInv, \A b \in Bus : row[b].read => row'[b].read, StaysStay,
         NEW t \in Parties, txn'[t] = txn[t]
  PROVE  Rests(t)'
<1> USE DEF OdometerInv, AllRest
<1>1. ASSUME txn[t].kind = "reading", NEW b \in DOMAIN txn[t].now PROVE (Ahead(txn[t], b))'
  <2>1. b \in Bus
    BY <1>1, ReadingShape
  <2>2. Ahead(txn[t], b)
    BY <1>1 DEF Rests
  <2> QED BY <2>1, <2>2 DEF Ahead
<1>2. ASSUME txn[t].kind = "remove"
      PROVE  /\ Held(txn[t].id)' /\ stays'[txn[t].id].bus = txn[t].now.bus
             /\ txn[t].old.off = NoDate /\ txn[t].now.off # NoDate
  <2>1. txn[t].id \in StayId
    BY <1>2, RemoveShape DEF RemoveTxn
  <2> QED BY <1>2, <2>1 DEF Rests, StaysStay
<1>3. txn[t].kind = "fit" => txn[t].seen = {} /\ txn[t].now.off = NoDate
  BY DEF Rests
<1> QED BY <1>1, <1>2, <1>3 DEF Rests, Held

\* What is left to show of a step that leaves the rows or has been shown to keep them.
LEMMA StepTo ==
  ASSUME OdometerInv, UnitsTypeOK', UnreadIsBlank', RowAgreesWithHistory',
         \A b \in Bus : row[b].read => row'[b].read, StaysStay,
         NEW t \in Parties, \A u \in Parties \ {t} : txn'[u] = txn[u],
         txn' = [u \in Parties |-> txn'[u]], Rests(t)'
  PROVE  OdometerInv'
<1>1. AllRest'
  BY KeptRests DEF AllRest
<1> QED BY <1>1 DEF OdometerInv

\* A step that leaves the rows and touches at most one transaction.
LEMMA RowsKept ==
  ASSUME OdometerInv, UNCHANGED <<row, history>>, raced \subseteq raced', raced' \in SUBSET Bus,
         due' \in SUBSET Site, scan' \in [stage : {"asleep", "running"}, left : SUBSET Site],
         work' \in 0..MaxWork, stays' \in [StayId -> Stay \cup {NoStay}], StaysStay,
         NEW t \in Parties, \A u \in Parties \ {t} : txn'[u] = txn[u],
         txn' = [u \in Parties |-> txn'[u]],
         txn'[t] \in {Free} \cup ReadingTxn \cup FitTxn \cup RemoveTxn, Rests(t)'
  PROVE  OdometerInv'
<1>1. UnitsTypeOK'
  <2>1. OdometerTypeOK'
    BY DEF OdometerInv, UnitsTypeOK, OdometerTypeOK
  <2>2. \A u \in Txn \cup {Scan} :
          txn'[u] \in {Free} \cup ReadingTxn \cup FitTxn \cup RemoveTxn
    BY DEF OdometerInv, UnitsTypeOK, Parties
  <2> QED BY <2>1, <2>2 DEF UnitsTypeOK
<1>2. UnreadIsBlank'
  BY DEF OdometerInv, UnreadIsBlank
<1>3. RowAgreesWithHistory'
  BY DEF OdometerInv, RowAgreesWithHistory, CacheIsHighest, AnchorIsBehind
<1> QED BY <1>1, <1>2, <1>3, StepTo

LEMMA StaysKept == UNCHANGED stays => StaysStay
BY DEF StaysStay, Held

LEMMA Assigned ==
  ASSUME OdometerInv, NEW t \in Parties, NEW q, txn' = [txn EXCEPT ![t] = q]
  PROVE  /\ txn'[t] = q /\ \A u \in Parties \ {t} : txn'[u] = txn[u]
         /\ txn' = [u \in Parties |-> txn'[u]]
BY DEF OdometerInv

LEMMA Ended ==
  ASSUME OdometerInv, NEW t \in Parties, txn' = [txn EXCEPT ![t] = Free]
  PROVE  /\ txn'[t] = Free /\ \A u \in Parties \ {t} : txn'[u] = txn[u]
         /\ txn' = [u \in Parties |-> txn'[u]] /\ Rests(t)'
         /\ txn'[t] \in {Free} \cup ReadingTxn \cup FitTxn \cup RemoveTxn
<1>1. txn'[t] = Free
  BY Assigned
<1> QED BY <1>1, Assigned DEF Rests, Free

\* Readings begin at or above what they were compared with.
LEMMA BegunAhead ==
  ASSUME OdometerInv, NEW t \in Parties, NEW B \in SUBSET Bus, NEW now \in [B -> Km],
         NEW service \in BOOLEAN, NEW synced \in SUBSET Site, Begin(t, B, now, service, synced),
         UNCHANGED row, \A b \in B : row[b].read => now[b] >= row[b].km
  PROVE  Rests(t)'
<1>s. txn'[t] \in ReadingTxn /\ txn'[t].now = now /\ DOMAIN now = B
  BY BeginShape
<1>k. txn'[t].kind = "reading"
  BY <1>s DEF ReadingTxn, Writes
<1> SUFFICES ASSUME NEW b \in B PROVE (Ahead(txn[t], b))'
  BY <1>s, <1>k DEF Rests
<1>1. txn'[t].was[b] = row[b] /\ txn'[t].now[b] = now[b]
  BY BeginShape
<1>2. ~row[b].read => row[b].km = 0
  BY DEF OdometerInv, UnreadIsBlank
<1> QED BY <1>1, <1>2 DEF Ahead

LEMMA UnitsInit == Init => OdometerInv
<1> SUFFICES ASSUME Init PROVE OdometerInv
  OBVIOUS
<1> USE FleetAssumption DEF Init, OdometerInit
<1>1. UnitsTypeOK
  BY DEF UnitsTypeOK, OdometerTypeOK, Row, Km, NoKm, Asleep
<1>2. UnreadIsBlank /\ RowAgreesWithHistory
  BY DEF UnreadIsBlank, RowAgreesWithHistory, CacheIsHighest, AnchorIsBehind
<1>3. AllRest /\ txn = [t \in Parties |-> txn[t]]
  BY DEF AllRest, Rests, Free, Parties
<1> QED BY <1>1, <1>2, <1>3 DEF OdometerInv

LEMMA PullKeeps ==
  ASSUME OdometerInv, NEW t \in Parties, NEW s \in Site, PullFeed(t, s), UNCHANGED row
  PROVE  /\ txn'[t] \in ReadingTxn /\ Rests(t)'
         /\ txn' = [u \in Parties |-> txn'[u]]
         /\ \A u \in Parties \ {t} : txn'[u] = txn[u]
<1> DEFINE fleet == {b \in Bus : SiteOf[b] = s}
<1>1. PICK fetched \in [fleet -> Km] :
        Begin(t, {b \in fleet : Newer(b, fetched[b])},
              [b \in {b \in fleet : Newer(b, fetched[b])} |-> fetched[b]], FALSE, {s})
  BY DEF PullFeed
<1> DEFINE B == {b \in fleet : Newer(b, fetched[b])}
           now == [b \in B |-> fetched[b]]
<1>2. B \in SUBSET Bus /\ now \in [B -> Km] /\ {s} \in SUBSET Site
  OBVIOUS
<1>3. \A b \in B : row[b].read => now[b] >= row[b].km
  BY DEF Newer, OdometerInv, UnitsTypeOK, OdometerTypeOK, Row, Km
<1>4. Begin(t, B, now, FALSE, {s})
  BY <1>1
<1> HIDE DEF B, now
<1> QED BY <1>2, <1>3, <1>4, BeginShape, BegunAhead

LEMMA UnitsStep == OdometerInv /\ [Next]_vars => OdometerInv'
<1> SUFFICES ASSUME OdometerInv, [Next]_vars PROVE OdometerInv'
  OBVIOUS
<1>p. Scan \in Parties /\ \A t \in Txn : t \in Parties
  BY DEF Parties
<1>t. /\ row \in [Bus -> Row] /\ history \in [Bus -> SUBSET Km]
      /\ due \in SUBSET Site /\ raced \in SUBSET Bus /\ work \in 0..MaxWork
      /\ scan \in [stage : {"asleep", "running"}, left : SUBSET Site]
      /\ stays \in [StayId -> Stay \cup {NoStay}]
  BY DEF OdometerInv, UnitsTypeOK, OdometerTypeOK
<1>w. ASSUME Start PROVE work' \in 0..MaxWork
  BY <1>w, <1>p, <1>t, FleetAssumption DEF Start
<1>1. ASSUME NEW t \in Txn, NEW b \in Bus, NEW k \in Km, NEW service \in BOOLEAN,
             EnterReading(t, b, k, service), UNCHANGED stays
      PROVE  OdometerInv'
  <2> DEFINE now == [c \in {b} |-> k]
  <2>1. Begin(t, {b}, now, service, {}) /\ UNCHANGED <<odometerVars, raced>> /\ Accepts(b, k)
    BY <1>1 DEF EnterReading
  <2>2. now \in [{b} -> Km] /\ \A c \in {b} : row[c].read => now[c] >= row[c].km
    BY <2>1 DEF Accepts
  <2>3. /\ txn'[t] \in ReadingTxn /\ Rests(t)'
        /\ txn' = [u \in Parties |-> txn'[u]]
        /\ \A u \in Parties \ {t} : txn'[u] = txn[u]
    <3>1. {b} \in SUBSET Bus /\ {} \in SUBSET Site
      OBVIOUS
    <3>2. UNCHANGED row
      BY <2>1 DEF odometerVars
    <3> DEFINE B == {b}
    <3> HIDE DEF now, B
    <3>3. now \in [B -> Km] /\ \A c \in B : row[c].read => now[c] >= row[c].km
      BY <2>2 DEF B
    <3>4. B \in SUBSET Bus /\ Begin(t, B, now, service, {})
      BY <2>1, <3>1 DEF B
    <3>5. Rests(t)'
      BY <1>p, <3>1, <3>2, <3>3, <3>4, BegunAhead
    <3> QED BY <1>p, <3>1, <3>3, <3>4, <3>5, BeginShape
  <2> QED BY <1>1, <1>p, <1>t, <1>w, <2>1, <2>3, StaysKept, RowsKept DEF EnterReading, odometerVars
<1>2. ASSUME NEW t \in Txn, NEW s \in Site, RequestSync(t, s), UNCHANGED stays
      PROVE  OdometerInv'
  BY <1>2, <1>p, <1>t, <1>w, PullKeeps, StaysKept, RowsKept DEF RequestSync, odometerVars
<1>3. ASSUME NEW t \in Parties, Commit(t), UNCHANGED stays PROVE OdometerInv'
  <2>1. CommitReadings(t) /\ UNCHANGED <<scan, work>>
    BY <1>3 DEF Commit
  <2>2. txn' = [txn EXCEPT ![t] = Free] /\ due' = due \ txn[t].synced
    BY <2>1 DEF CommitReadings
  <2>3. UnitsTypeOK'
    <3>1. OdometerTypeOK'
      BY <1>p, <1>t, <2>1, <2>2, CommitRows DEF OdometerTypeOK
    <3> QED BY <3>1, <1>3, <1>p, <1>t, <2>2, Ended DEF OdometerInv, UnitsTypeOK, Parties
  <2> QED BY <1>3, <1>p, <2>1, <2>2, <2>3, CommitKeepsRows, Ended, StaysKept, StepTo
<1>4. ASSUME NEW t \in Parties, txn' = [txn EXCEPT ![t] = Free],
             UNCHANGED <<row, history, due, raced, work, stays>>,
             scan' = scan \/ scan' = Asleep
      PROVE  OdometerInv'
  <2>1. scan' \in [stage : {"asleep", "running"}, left : SUBSET Site]
    BY <1>4, <1>t DEF Asleep
  <2> QED BY <1>4, <1>p, <1>t, <2>1, Ended, StaysKept, RowsKept
<1>5. ASSUME UNCHANGED <<row, history, txn, raced, stays>>, work' \in 0..MaxWork,
             due' \in SUBSET Site, scan' \in [stage : {"asleep", "running"}, left : SUBSET Site]
      PROVE  OdometerInv'
  BY <1>5, <1>t
  DEF OdometerInv, UnitsTypeOK, OdometerTypeOK, UnreadIsBlank, RowAgreesWithHistory,
      CacheIsHighest, AnchorIsBehind, AllRest, Rests, Ahead, Held
<1>6. ASSUME NEW s \in Site, ScanSite(s), UNCHANGED stays PROVE OdometerInv'
  BY <1>6, <1>p, <1>t, PullKeeps, StaysKept, RowsKept DEF ScanSite
<1>7. ASSUME NEW t \in Txn, NEW b \in Bus, NEW u \in Unit, NEW d \in Day, NEW k \in Typed,
             BeginFit(t, b, u, d, k)
      PROVE  OdometerInv'
  <2> DEFINE now == [bus |-> b, unit |-> u, on |-> d,
                     onKm |-> IF k # NoKm THEN k ELSE ReadingOf(b),
                     off |-> NoDate, offKm |-> NoKm, typed |-> k # NoKm]
             q == [kind |-> "fit", was |-> row, seen |-> FittedTo(b, u), now |-> now]
  <2>1. k \in Reading /\ ReadingOf(b) \in Reading
    BY <1>p, <1>t, UnitAssumption DEF Reading, ReadingOf, Row
  <2>2. now \in Stay
    BY <2>1 DEF Stay, Reading
  <2>3. q \in FitTxn /\ q.kind = "fit" /\ q.seen = {} /\ q.now.off = NoDate
    BY <1>7, <1>p, <1>t, <2>2 DEF FitTxn, FittedTo, BeginFit, FreeFor
  <2>4. txn' = [txn EXCEPT ![t] = q] /\ Start /\ UNCHANGED <<odometerVars, raced, stays>>
    BY <1>7 DEF BeginFit
  <2> HIDE DEF q
  <2>5. Rests(t)'
    BY <1>p, <2>3, <2>4, Assigned DEF Rests
  <2>6. /\ txn'[t] \in FitTxn /\ \A v \in Parties \ {t} : txn'[v] = txn[v]
        /\ txn' = [v \in Parties |-> txn'[v]]
    BY <1>p, <2>3, <2>4, Assigned
  <2>7. UNCHANGED <<row, history, due, scan, raced, stays>> /\ work' \in 0..MaxWork
    BY <1>w, <2>4 DEF odometerVars
  <2> QED BY <1>p, <1>t, <2>5, <2>6, <2>7, StaysKept, RowsKept
<1>8. ASSUME NEW t \in Txn, NEW i \in StayId, NEW d \in Day, NEW k \in Typed,
             BeginRemove(t, i, d, k)
      PROVE  OdometerInv'
  <2> DEFINE now == [stays[i] EXCEPT !.off = d,
                       !.offKm = IF k # NoKm THEN k ELSE ReadingOf(stays[i].bus),
                       !.typed = @ \/ k # NoKm]
             q == [kind |-> "remove", was |-> row, id |-> i, old |-> stays[i], now |-> now]
  <2>1. stays[i] \in Stay
    BY <1>8, <1>t DEF BeginRemove, Removable, IsFitted, Held
  <2>2. k \in Reading /\ ReadingOf(stays[i].bus) \in Reading
    BY <1>p, <1>t, <2>1, UnitAssumption DEF Reading, ReadingOf, Row, Stay
  <2>3. now \in Stay
    BY <2>1, <2>2 DEF Stay
  <2>4. /\ q \in RemoveTxn /\ q.kind = "remove" /\ q.id = i
        /\ Held(i) /\ stays[i].bus = q.now.bus /\ q.old.off = NoDate /\ q.now.off # NoDate
    <3>1. Held(i) /\ stays[i].off = NoDate /\ d # NoDate
      BY <1>8, UnitAssumption DEF BeginRemove, Removable, IsFitted, Day, NoDate
    <3>2. now.off = d /\ now.bus = stays[i].bus
      BY <2>1 DEF Stay
    <3> HIDE DEF now
    <3> QED BY <1>p, <1>t, <2>1, <2>3, <3>1, <3>2 DEF RemoveTxn
  <2>5. txn' = [txn EXCEPT ![t] = q] /\ Start /\ UNCHANGED <<odometerVars, raced, stays>>
    BY <1>8 DEF BeginRemove
  <2> HIDE DEF q
  <2>6. Rests(t)'
    BY <1>p, <2>4, <2>5, Assigned DEF Rests, Held
  <2>7. /\ txn'[t] \in RemoveTxn /\ \A v \in Parties \ {t} : txn'[v] = txn[v]
        /\ txn' = [v \in Parties |-> txn'[v]]
    <3>1. txn'[t] = q /\ txn' = [v \in Parties |-> txn'[v]]
          /\ \A v \in Parties \ {t} : txn'[v] = txn[v]
      BY <1>p, <2>5, Assigned
    <3>2. q \in RemoveTxn
      BY <2>4
    <3> QED BY <3>1, <3>2
  <2>8. UNCHANGED <<row, history, due, scan, raced, stays>> /\ work' \in 0..MaxWork
    BY <1>w, <2>5 DEF odometerVars
  <2> QED BY <1>p, <1>t, <2>6, <2>7, <2>8, StaysKept, RowsKept
<1>9. ASSUME NEW t \in Txn, CommitFit(t) PROVE OdometerInv'
  <2>1. txn[t] \in FitTxn
    BY <1>9, <1>p, FitShape DEF CommitFit, OdometerInv
  <2>2. txn[t].now \in Stay /\ txn[t].now.bus \in Bus
    BY <2>1 DEF FitTxn, Stay
  <2>3. stays' \in [StayId -> Stay \cup {NoStay}] /\ raced \subseteq raced' /\ raced' \in SUBSET Bus
    BY <1>9, <1>p, <1>t, <2>2 DEF CommitFit
  <2>4. txn' = [txn EXCEPT ![t] = Free] /\ UNCHANGED <<odometerVars, work>>
    BY <1>9 DEF CommitFit
  <2>5. StaysStay
    BY <1>9, <1>t DEF CommitFit, StaysStay, Held
  <2> QED BY <1>p, <1>t, <2>3, <2>4, <2>5, Ended, RowsKept DEF odometerVars
<1>10. ASSUME NEW t \in Txn, CommitRemove(t) PROVE OdometerInv'
  <2>1. txn[t] \in RemoveTxn
    BY <1>10, <1>p, RemoveShape DEF CommitRemove, OdometerInv
  <2>2. txn[t].now \in Stay /\ txn[t].now.bus \in Bus /\ txn[t].old \in Stay /\ txn[t].id \in StayId
    BY <2>1 DEF RemoveTxn, Stay
  <2>3. raced \subseteq raced' /\ raced' \in SUBSET Bus
    BY <1>10, <1>p, <1>t, <2>2 DEF CommitRemove
  <2> DEFINE i == txn[t].id
             next == [stays[i] EXCEPT !.off = txn[t].now.off, !.typed = @ \/ txn[t].now.typed,
                        !.offKm = Column(txn[t].old.offKm, txn[t].now.offKm, @)]
  <2>4. stays' = [stays EXCEPT ![i] = next] /\ stays[i] \in Stay
    <3>1. Held(i)
      BY <1>10, <1>p DEF CommitRemove, OdometerInv, AllRest, Rests
    <3>2. stays' = [stays EXCEPT ![i] = next]
      BY <1>10 DEF CommitRemove
    <3>3. stays[i] \in Stay
      BY <1>p, <1>t, <2>2, <3>1 DEF Held
    <3> QED BY <3>2, <3>3
  <2>5. next \in Stay /\ next.bus = stays[i].bus
    BY <2>2, <2>4 DEF Stay, Column
  <2>6. stays' \in [StayId -> Stay \cup {NoStay}]
    BY <1>p, <1>t, <2>2, <2>4, <2>5
  <2>7. next # NoStay
    BY <2>4, <2>5 DEF Stay, NoStay
  <2> HIDE DEF next
  <2>8. StaysStay
    BY <1>p, <1>t, <2>2, <2>4, <2>5, <2>7 DEF StaysStay, Held
  <2>9. txn' = [txn EXCEPT ![t] = Free] /\ UNCHANGED <<odometerVars, work>>
    BY <1>10 DEF CommitRemove
  <2> QED BY <1>p, <1>t, <2>3, <2>6, <2>8, <2>9, Ended, RowsKept DEF odometerVars
<1>11. CASE OdometerNext /\ UNCHANGED stays
  <2>1. CASE \E t \in Txn : Abandon(t)
    BY <1>4, <1>p, <1>11, <2>1 DEF Abandon, odometerVars
  <2>2. CASE BeginScan
    BY <1>5, <1>11, <1>p, <1>t, <1>w, <2>2 DEF BeginScan
  <2>3. CASE ScanFails
    BY <1>4, <1>p, <1>11, <2>3 DEF ScanFails
  <2>4. CASE EndScan
    BY <1>5, <1>11, <1>p, <1>t, <2>4 DEF EndScan, Asleep
  <2>5. CASE \E s \in Site : IntervalElapses(s)
    BY <1>5, <1>11, <1>p, <1>t, <2>5 DEF IntervalElapses
  <2> QED
    BY <1>p, <1>1, <1>2, <1>3, <1>6, <1>11, <2>1, <2>2, <2>3, <2>4, <2>5 DEF OdometerNext, ScanStep
<1>12. CASE UNCHANGED vars
  BY <1>5, <1>12, <1>t DEF vars
<1> QED BY <1>7, <1>8, <1>9, <1>10, <1>11, <1>12 DEF Next

\* Reading, highest entry of the history and service anchor are written by different
\* requests and agree all the same, on every bus whose writers did not race.
THEOREM RowsAgree == Spec => []RowAgreesWithHistory
<1>1. OdometerInv => RowAgreesWithHistory
  BY DEF OdometerInv
<1> QED BY <1>1, UnitsInit, UnitsStep, PTL DEF Spec

\* In whatever order people, services, imports and the feed report, the reading of a
\* bus falls only when a row was overwritten that its writer had not seen.
THEOREM NeverRunsBack == Spec => OdometerNeverRunsBack
<1> DEFINE Kept == \A b \in Bus : NeverBackUnlessRaced(b)
<1>1. OdometerInv /\ [Next]_vars => [Kept]_vars
  <2> SUFFICES ASSUME OdometerInv, Next PROVE Kept
    OBVIOUS
  <2>1. ASSUME NEW t \in Parties, CommitReadings(t) PROVE Kept
    BY <2>1, CommitKeepsRows
  <2>2. CASE UNCHANGED row
    BY <2>2 DEF NeverBackUnlessRaced, OdometerInv, UnitsTypeOK, OdometerTypeOK, Row, Km
  <2> QED
    BY <2>1, <2>2
    DEF Next, OdometerNext, EnterReading, RequestSync, Commit, Abandon, BeginScan, ScanStep,
        ScanSite, ScanFails, EndScan, IntervalElapses, BeginFit, CommitFit, BeginRemove,
        CommitRemove, odometerVars, Parties
<1> QED BY <1>1, UnitsInit, UnitsStep, PTL DEF Spec, OdometerNeverRunsBack

-----------------------------------------------------------------------------
(* Inbox.                                                                  *)

\* A sign-out the server has not heard of is the only way a phone stays on the
\* list of someone who left it.
LeftIsCalled ==
  \A d \in Phone : phone[d].active /\ <<phone[d].owner, d>> \in left =>
                     <<phone[d].owner, d>> \in calls

Phones == phone \in [Phone -> [owner : Person \cup {I!Nobody}, active : BOOLEAN]]

InboxInv == Phones /\ LeftIsCalled

LEMMA InboxInit == I!Init => InboxInv
BY DEF I!Init, InboxInv, Phones, LeftIsCalled

LEMMA InboxStep == InboxInv /\ [I!Next]_(I!vars) => InboxInv'
<1> SUFFICES ASSUME InboxInv, [I!Next]_(I!vars) PROVE InboxInv'
  OBVIOUS
<1>1. ASSUME NEW p \in Person, NEW d \in Phone, I!Register(p, d) PROVE InboxInv'
  BY <1>1 DEF I!Register, I!Counted, InboxInv, Phones, LeftIsCalled
<1>2. ASSUME NEW p \in Person, NEW d \in Phone, I!SignOut(p, d) PROVE InboxInv'
  BY <1>2 DEF I!SignOut, InboxInv, Phones, LeftIsCalled
<1>3. ASSUME NEW p \in Person, NEW d \in Phone, I!Unregister(p, d) PROVE InboxInv'
  BY <1>3 DEF I!Unregister, I!Unregistered, InboxInv, Phones, LeftIsCalled
<1>4. ASSUME NEW n \in News, I!Commit(n) PROVE InboxInv'
  BY <1>4 DEF I!Commit, InboxInv, Phones, LeftIsCalled
<1>5. CASE UNCHANGED <<phone, calls, left>>
  BY <1>5 DEF InboxInv, Phones, LeftIsCalled
<1> QED
  BY <1>1, <1>2, <1>3, <1>4, <1>5
  DEF I!Next, I!Uninstall, I!Begin, I!Push, I!Fail, I!MarkAllRead, I!MarkRead, I!vars

\* A phone rings for nobody who had signed out of it, unless the server has yet to
\* hear of it: the phones a push goes to are those on the list when it is sent.
THEOREM SignedOutPhonesAreSilent == I!Spec => SignedOutIsSilent
<1> DEFINE Silent == \A t \in told' \ told : <<t[1], t[2]>> \in left => <<t[1], t[2]>> \in calls
<1>1. InboxInv /\ [I!Next]_(I!vars) => [Silent]_(I!vars)
  <2> SUFFICES ASSUME InboxInv, I!Next PROVE Silent
    OBVIOUS
  <2>1. ASSUME NEW n \in News, I!Push(n) PROVE Silent
    BY <2>1 DEF I!Push, I!Tokens, InboxInv, LeftIsCalled
  <2>2. CASE told' = told
    BY <2>2
  <2> QED
    BY <2>1, <2>2 DEF I!Next, I!Register, I!SignOut, I!Unregister, I!Uninstall, I!Begin,
                      I!Commit, I!Fail, I!MarkAllRead, I!MarkRead
<1> QED BY <1>1, InboxInit, InboxStep, PTL DEF I!Spec, SignedOutIsSilent, I!SignedOutIsSilent
-----------------------------------------------------------------------------
(* Registers.                                                              *)

\* No two rows of a list have one code, hidden or not.
CodesApart ==
  \A r, q \in ListRow : list[r].code # R!None /\ list[r].code = list[q].code => r = q

\* What an entry refers to is there: its row has a code, its ticket was filed,
\* and is completed if the entry completes it.
Refers(e) ==
  /\ entry[e].named # R!None => list[entry[e].named].code # R!None
  /\ entry[e].ticket # R!None => entry[e].ticket \in R!Filed
  /\ entry[e].completes => entry[e].ticket # R!None /\ entry[e].ticket \in completed

\* A form that came without a code was read from an entry that named no row.
FormsNameRows ==
  \A c \in Client : form[c] # R!NoForm /\ form[c].data.code = R!None => form[c].named = R!None

\* A photo has its row only between its upload and its removal.
PhotosSettled ==
  \A p \in Photo : /\ photo[p] # R!None => p \in files /\ moving[p] = "idle"
                   /\ moving[p] = "saving" => p \in files

RegistersInv ==
  /\ R!TypeOK
  /\ CodesApart /\ FormsNameRows /\ PhotosSettled
  /\ \A e \in R!Filed : Refers(e)

LEMMA FiledIsSaved ==
  ASSUME R!TypeOK, NEW e \in R!Filed PROVE e \in R!Entry /\ entry[e] \in R!Saved
BY DEF R!TypeOK, R!Filed

\* A save writes an entry that refers to what is there, and disturbs no other.
LEMMA WriteRefers ==
  ASSUME R!RegistersAssumption, RegistersInv,
         NEW e \in R!Entry, NEW data \in R!Data, NEW old, NEW r \in R!Meant(data),
         R!Valid(e, data), R!Accepted(e, data, old), R!Write(e, data, r), UNCHANGED list
  PROVE  /\ entry' \in [R!Entry -> R!Saved \cup {R!NoEntry}] /\ completed' \subseteq Breakdowns
         /\ \A x \in R!Filed' : Refers(x)'
<1> DEFINE saved == [bus |-> data.bus, named |-> r, who |-> data.who,
                     ticket |-> data.ticket, completes |-> data.completes]
<1>1. /\ entry \in [R!Entry -> R!Saved \cup {R!NoEntry}] /\ completed \subseteq Breakdowns
      /\ list \in [ListRow -> [code : Code \cup {R!None}, active : BOOLEAN]]
  BY DEF RegistersInv, R!TypeOK
<1>2. r \in ListRow \cup {R!None} /\ (r # R!None => list[r].code # R!None)
  BY <1>1 DEF R!Meant, R!Known, R!Listed
<1>3. saved \in R!Saved
  BY <1>2 DEF R!Data, R!Saved
<1>4. entry' = [entry EXCEPT ![e] = saved]
  BY DEF R!Write
<1>5. completed' = completed \cup (IF data.completes THEN {data.ticket} ELSE {})
  BY DEF R!Write
<1>6. data.completes => data.ticket # R!None
  BY DEF R!Valid
<1>7. data.ticket # R!None => data.ticket \in R!Filed /\ data.ticket \in Breakdowns
  BY DEF R!Accepted, R!Attachable, R!Data
<1>8. saved # R!NoEntry /\ R!Filed \subseteq R!Filed' /\ R!Filed' = R!Filed \cup {e}
  BY <1>1, <1>3, <1>4 DEF R!Filed, R!Saved, R!NoEntry
<1>9. ASSUME NEW x \in R!Filed' PROVE Refers(x)'
  <2>1. CASE x = e
    <3>1. entry'[x] = saved
      BY <1>1, <1>4, <2>1
    <3> QED BY <1>2, <1>5, <1>6, <1>7, <1>8, <3>1 DEF Refers
  <2>2. CASE x # e
    <3>1. entry'[x] = entry[x] /\ x \in R!Filed
      BY <1>1, <1>4, <1>8, <2>2
    <3> QED BY <1>5, <1>8, <3>1 DEF Refers, RegistersInv
  <2> QED BY <2>1, <2>2
<1>10. completed' \subseteq Breakdowns
  BY <1>1, <1>5, <1>6, <1>7
<1> QED BY <1>1, <1>3, <1>4, <1>9, <1>10

LEMMA ReadForm ==
  ASSUME RegistersInv, NEW e \in R!Filed PROVE R!DataOf(e) \in R!Data
<1>1. entry[e] \in R!Saved
  BY FiledIsSaved DEF RegistersInv
<1> QED BY <1>1 DEF R!DataOf, R!CodeOf, R!Data, R!Saved, RegistersInv, R!TypeOK

LEMMA RegistersInit == R!Init => RegistersInv
<1> R!RegistersAssumption
  BY RecordsAssumption
<1> SUFFICES ASSUME R!Init PROVE RegistersInv
  OBVIOUS
<1> USE DEF R!Init
<1>1. R!Filed = {}
  BY DEF R!Filed
<1>2. R!TypeOK
  BY DEF R!TypeOK, R!RegistersAssumption
<1> QED BY <1>1, <1>2 DEF RegistersInv, CodesApart, FormsNameRows, PhotosSettled

LEMMA RegistersStep == RegistersInv /\ [R!Next]_(R!vars) => RegistersInv'
<1> R!RegistersAssumption
  BY RecordsAssumption
<1> SUFFICES ASSUME RegistersInv, [R!Next]_(R!vars) PROVE RegistersInv'
  OBVIOUS
<1> USE DEF R!site, R!book, R!disk
<1>t. /\ list \in [ListRow -> [code : Code \cup {R!None}, active : BOOLEAN]]
      /\ entry \in [R!Entry -> R!Saved \cup {R!NoEntry}]
      /\ form \in [Client -> [entry : R!Entry, data : R!Data, named : ListRow \cup {R!None}]
                               \cup {R!NoForm}]
      /\ photo \in [Photo -> R!Entry \cup {R!None}] /\ files \subseteq Photo
      /\ moving \in [Photo -> {"idle", "saving", "removing"}]
      /\ saves \in 0..MaxSaves
  BY DEF RegistersInv, R!TypeOK
<1>w. ASSUME R!Counted PROVE saves' \in 0..MaxSaves
  BY <1>t, <1>w DEF R!Counted, R!RegistersAssumption
<1>1. ASSUME NEW e \in R!Entry, NEW data \in R!Data, NEW old, R!Valid(e, data),
             R!Accepted(e, data, old), \E r \in R!Meant(data) : R!Write(e, data, r),
             UNCHANGED <<R!site, R!disk>>, saves' \in 0..MaxSaves,
             form' \in [Client -> [entry : R!Entry, data : R!Data, named : ListRow \cup {R!None}]
                                    \cup {R!NoForm}],
             \A c \in Client : form'[c] \in {form[c], R!NoForm}
      PROVE  RegistersInv'
  <2>1. /\ entry' \in [R!Entry -> R!Saved \cup {R!NoEntry}] /\ completed' \subseteq Breakdowns
        /\ \A x \in R!Filed' : Refers(x)'
    BY <1>1, WriteRefers
  <2>2. R!TypeOK'
    BY <1>1, <2>1 DEF RegistersInv, R!TypeOK
  <2>3. CodesApart' /\ FormsNameRows' /\ PhotosSettled'
    BY <1>1 DEF RegistersInv, CodesApart, FormsNameRows, PhotosSettled
  <2> QED BY <2>1, <2>2, <2>3 DEF RegistersInv
<1>2. ASSUME NEW c \in Client, form' = [form EXCEPT ![c] = R!NoForm]
      PROVE  /\ form' \in [Client -> [entry : R!Entry, data : R!Data,
                                      named : ListRow \cup {R!None}] \cup {R!NoForm}]
             /\ \A d \in Client : form'[d] \in {form[d], R!NoForm}
  BY <1>2, <1>t
<1>3. ASSUME NEW e \in R!Entry, NEW data \in R!Data, R!CreateEntry(e, data)
      PROVE  RegistersInv'
  BY <1>3, <1>1, <1>t, <1>w DEF R!CreateEntry
<1>4. ASSUME NEW c \in Client, R!SaveBack(c) PROVE RegistersInv'
  <2>1. form[c].entry \in R!Entry /\ form[c].data \in R!Data
    BY <1>4, <1>t DEF R!SaveBack
  <2> QED BY <1>4, <1>1, <1>2, <1>w, <2>1 DEF R!SaveBack, R!Update
<1>5. ASSUME NEW c \in Client, NEW data \in R!Data, R!SaveChanged(c, data) PROVE RegistersInv'
  <2>1. form[c].entry \in R!Entry
    BY <1>5, <1>t DEF R!SaveChanged
  <2> QED BY <1>5, <1>1, <1>2, <1>w, <2>1 DEF R!SaveChanged, R!Update
<1>6. ASSUME UNCHANGED <<R!site, R!book, R!disk>>, saves' \in 0..MaxSaves,
             form' \in [Client -> [entry : R!Entry, data : R!Data, named : ListRow \cup {R!None}]
                                    \cup {R!NoForm}],
             FormsNameRows'
      PROVE  RegistersInv'
  BY <1>6 DEF RegistersInv, R!TypeOK, CodesApart, PhotosSettled, R!Filed, Refers
<1>7. ASSUME NEW c \in Client, NEW e \in R!Entry, R!OpenForm(c, e) PROVE RegistersInv'
  <2> DEFINE f == [entry |-> e, data |-> R!DataOf(e), named |-> entry[e].named]
  <2>1. e \in R!Filed /\ form' = [form EXCEPT ![c] = f]
    BY <1>7 DEF R!OpenForm
  <2>2. R!DataOf(e) \in R!Data /\ entry[e] \in R!Saved /\ Refers(e)
    BY <2>1, ReadForm, FiledIsSaved DEF RegistersInv
  <2>3. f \in [entry : R!Entry, data : R!Data, named : ListRow \cup {R!None}]
    BY <2>2 DEF R!Saved
  <2>4. f.data.code = R!None => f.named = R!None
    BY <2>2 DEF R!DataOf, R!CodeOf, Refers
  <2> HIDE DEF f
  <2>5. FormsNameRows'
    BY <1>t, <2>1, <2>4 DEF FormsNameRows, RegistersInv
  <2> QED BY <1>6, <1>7, <1>t, <2>1, <2>3, <2>5 DEF R!OpenForm
<1>8. ASSUME NEW c \in Client, R!CloseForm(c) PROVE RegistersInv'
  <2>1. FormsNameRows'
    BY <1>8, <1>t DEF R!CloseForm, FormsNameRows, RegistersInv
  <2> QED BY <1>2, <1>6, <1>8, <1>t, <2>1 DEF R!CloseForm
<1>9. ASSUME UNCHANGED <<R!book, R!disk, form, open, scrapped, roster, staffed>>,
             saves' \in 0..MaxSaves,
             list' \in [ListRow -> [code : Code \cup {R!None}, active : BOOLEAN]], CodesApart',
             \A r \in ListRow : list[r].code # R!None => list'[r].code # R!None
      PROVE  RegistersInv'
  <2>1. \A e \in R!Filed : Refers(e)'
    <3> SUFFICES ASSUME NEW e \in R!Filed PROVE Refers(e)'
      OBVIOUS
    <3>1. entry[e] \in R!Saved /\ Refers(e)
      BY FiledIsSaved DEF RegistersInv
    <3> QED BY <1>9, <3>1 DEF Refers, R!Filed, R!Saved
  <2> QED BY <1>9, <2>1 DEF RegistersInv, R!TypeOK, FormsNameRows, PhotosSettled, R!Filed
<1>10. ASSUME NEW r \in ListRow, NEW c \in Code, R!CreateRow(r, c) \/ R!RenameRow(r, c)
       PROVE  RegistersInv'
  <2>1. ~R!Taken(r, c) /\ R!Counted
        /\ UNCHANGED <<R!book, R!disk, form, open, scrapped, roster, staffed>>
    BY <1>10 DEF R!CreateRow, R!RenameRow
  <2>2. /\ list' \in [ListRow -> [code : Code \cup {R!None}, active : BOOLEAN]]
        /\ list'[r].code = c /\ \A q \in ListRow \ {r} : list'[q] = list[q]
    <3>1. CASE R!CreateRow(r, c)
      <4>1. list' = [list EXCEPT ![r] = [code |-> c, active |-> TRUE]]
        BY <3>1 DEF R!CreateRow
      <4> QED BY <1>t, <4>1
    <3>2. CASE R!RenameRow(r, c)
      <4>1. list' = [list EXCEPT ![r].code = c]
        BY <3>2 DEF R!RenameRow
      <4> QED BY <1>t, <4>1
    <3> QED BY <1>10, <3>1, <3>2
  <2>3. CodesApart'
    BY <2>1, <2>2 DEF CodesApart, RegistersInv, R!Taken
  <2>4. c # R!None
    BY DEF R!RegistersAssumption
  <2> QED BY <1>9, <1>w, <2>1, <2>2, <2>3, <2>4
<1>11. ASSUME NEW r \in ListRow, R!SetRowActive(r) PROVE RegistersInv'
  <2>1. /\ list' \in [ListRow -> [code : Code \cup {R!None}, active : BOOLEAN]]
        /\ \A q \in ListRow : list'[q].code = list[q].code
    BY <1>11, <1>t DEF R!SetRowActive
  <2>2. CodesApart'
    BY <2>1 DEF CodesApart, RegistersInv
  <2> QED BY <1>9, <1>11, <1>w, <2>1, <2>2 DEF R!SetRowActive
<1>12. ASSUME UNCHANGED <<list, R!book, R!disk, form>>, saves' \in 0..MaxSaves,
              open' \in BOOLEAN, scrapped' \subseteq DepotBus,
              roster' \subseteq Staff, staffed' \subseteq Staff
       PROVE  RegistersInv'
  BY <1>12
  DEF RegistersInv, R!TypeOK, CodesApart, FormsNameRows, PhotosSettled, R!Filed, Refers
<1>13. ASSUME \/ \E b \in DepotBus : R!SetVehicleActive(b)
              \/ \E p \in Staff : R!SetAccess(p) \/ R!SetStaffed(p)
              \/ R!SetSiteActive
       PROVE  RegistersInv'
  <2>1. open \in BOOLEAN /\ scrapped \subseteq DepotBus
        /\ roster \subseteq Staff /\ staffed \subseteq Staff
    BY DEF RegistersInv, R!TypeOK
  <2> QED
    BY <1>12, <1>13, <1>w, <2>1
    DEF R!SetVehicleActive, R!SetAccess, R!SetStaffed, R!SetSiteActive
<1>14. ASSUME UNCHANGED <<R!site, R!book, form>>, saves' \in 0..MaxSaves,
              photo' \in [Photo -> R!Entry \cup {R!None}], files' \subseteq Photo,
              moving' \in [Photo -> {"idle", "saving", "removing"}], PhotosSettled'
       PROVE  RegistersInv'
  BY <1>14 DEF RegistersInv, R!TypeOK, CodesApart, FormsNameRows, R!Filed, Refers
<1>15. ASSUME NEW p \in Photo, NEW e \in R!Entry, R!BeginUpload(p, e) \/ R!CommitUpload(p, e)
       PROVE  RegistersInv'
  <2>1. PhotosSettled'
    BY <1>15, <1>t DEF R!BeginUpload, R!CommitUpload, PhotosSettled, RegistersInv
  <2> QED BY <1>14, <1>15, <1>t, <1>w, <2>1 DEF R!BeginUpload, R!CommitUpload
<1>16. ASSUME NEW p \in Photo, R!DeletePhoto(p) \/ R!RemoveFile(p) \/ R!Die(p)
       PROVE  RegistersInv'
  <2>1. PhotosSettled'
    BY <1>16, <1>t DEF R!DeletePhoto, R!RemoveFile, R!Die, PhotosSettled, RegistersInv
  <2> QED BY <1>14, <1>16, <1>t, <1>w, <2>1 DEF R!DeletePhoto, R!RemoveFile, R!Die
<1>17. CASE UNCHANGED R!vars
  BY <1>6, <1>17, <1>t DEF R!vars, RegistersInv, FormsNameRows
<1> QED
  BY <1>3, <1>4, <1>5, <1>7, <1>8, <1>10, <1>11, <1>13, <1>15, <1>16, <1>17 DEF R!Next

\* An entry that was just read can be saved back as it is, whatever was hidden,
\* renamed or completed since it was filed.
THEOREM FormsReadBack == R!Spec => []ReadsBack
<1>1. RegistersInv => ReadsBack
  <2> SUFFICES ASSUME RegistersInv, NEW e \in R!Filed, entry[e].bus \notin scrapped,
                      entry[e].who \in roster \cup {R!None}
               PROVE  /\ R!Accepted(e, R!DataOf(e), entry[e].ticket)
                      /\ ~R!Undoes(e, R!DataOf(e))
    BY DEF ReadsBack, R!ReadsBack
  <2>1. entry[e] \in R!Saved /\ Refers(e)
    BY FiledIsSaved DEF RegistersInv
  <2>2. R!DataOf(e).code # R!None => R!Known(R!DataOf(e).code) # {}
    BY <2>1 DEF R!DataOf, R!CodeOf, R!Known, R!Listed, R!Saved
  <2>3. R!BusTaken(R!DataOf(e))
    BY DEF R!BusTaken, R!DataOf
  <2> QED
    BY <2>1, <2>2, <2>3 DEF R!Accepted, R!Undoes, R!Attachable, R!DataOf, Refers
<1> QED BY <1>1, RegistersInit, RegistersStep, PTL DEF R!Spec

\* An open ticket can be attended and completed by anyone on the roster, even when
\* its bus was retired meanwhile: the bus of the ticket is exempt.
THEOREM TicketsStayServiceable == R!Spec => []NoTicketIsOrphaned
<1>1. RegistersInv => NoTicketIsOrphaned
  BY RecordsAssumption
     DEF NoTicketIsOrphaned, R!NoTicketIsOrphaned, R!Accepted, R!BusTaken, R!Exempt, R!Attachable,
         R!RegistersAssumption, R!Entry
<1> QED BY <1>1, RegistersInit, RegistersStep, PTL DEF R!Spec

\* A photo an entry lists has its file, wherever an upload or a removal died.
THEOREM PhotosHaveFiles == R!Spec => []EveryPhotoHasItsFile
<1>1. RegistersInv => EveryPhotoHasItsFile
  BY DEF RegistersInv, PhotosSettled, EveryPhotoHasItsFile, R!EveryPhotoHasItsFile
<1> QED BY <1>1, RegistersInit, RegistersStep, PTL DEF R!Spec
\* A form that still says what it said leaves its entry with the row it named when
\* it was read, unless that row was renamed meanwhile.
THEOREM NamesAreKept == R!Spec => NobodyIsRelabelled
<1> DEFINE Kept(c) ==
      LET f == form[c]
          now == entry'[f.entry].named
      IN  f # R!NoForm /\ form'[c] = R!NoForm /\ R!book' # R!book /\ R!CodeOf(now) = f.data.code =>
            now = f.named \/ R!CodeOf(f.named) # f.data.code
<1>1. ASSUME RegistersInv, R!Next, NEW c \in Client PROVE Kept(c)
  <2> SUFFICES ASSUME form[c] # R!NoForm, form'[c] = R!NoForm, R!book' # R!book,
                      R!CodeOf(entry'[form[c].entry].named) = form[c].data.code,
                      R!CodeOf(form[c].named) = form[c].data.code
               PROVE  entry'[form[c].entry].named = form[c].named
    OBVIOUS
  <2>t. /\ form \in [Client -> [entry : R!Entry, data : R!Data, named : ListRow \cup {R!None}]
                                 \cup {R!NoForm}]
        /\ entry \in [R!Entry -> R!Saved \cup {R!NoEntry}]
    BY <1>1 DEF RegistersInv, R!TypeOK
  <2>1. PICK d \in Client : R!SaveBack(d) \/ \E data \in R!Data : R!SaveChanged(d, data)
    BY <1>1
    DEF R!Next, R!book, R!site, R!disk, R!CreateEntry, R!OpenForm, R!CloseForm, R!CreateRow,
        R!RenameRow, R!SetRowActive, R!SetVehicleActive, R!SetAccess, R!SetStaffed,
        R!SetSiteActive, R!BeginUpload, R!CommitUpload, R!DeletePhoto, R!RemoveFile, R!Die
  <2>2. form' = [form EXCEPT ![d] = R!NoForm]
    BY <2>1 DEF R!SaveBack, R!SaveChanged
  <2>3. d = c /\ form[c].entry \in R!Entry /\ form[c].named \in ListRow \cup {R!None}
        /\ form[c].data \in R!Data
    BY <2>2, <2>t
  <2>4. PICK data \in R!Data : \E r \in R!Meant(data) : R!Write(form[c].entry, data, r)
    BY <2>1, <2>3 DEF R!SaveBack, R!SaveChanged, R!Update
  <2>r. PICK r \in R!Meant(data) : R!Write(form[c].entry, data, r)
    BY <2>4
  <2>5. entry'[form[c].entry].named = r
    BY <2>3, <2>r, <2>t DEF R!Write
  <2>6. r \in ListRow \cup {R!None} /\ (r # R!None => list[r].code # R!None)
    BY <1>1 DEF R!Meant, R!Known, R!Listed
  <2>7. CASE r = R!None
    BY <1>1, <2>5, <2>7 DEF R!CodeOf, RegistersInv, FormsNameRows
  <2>8. CASE r # R!None
    <3>1. list[r].code = form[c].data.code /\ list[r].code # R!None
      BY <2>5, <2>6, <2>8 DEF R!CodeOf
    <3>2. form[c].named \in ListRow /\ list[form[c].named].code = list[r].code
      BY <2>3, <3>1 DEF R!CodeOf
    <3> QED BY <1>1, <2>5, <2>6, <2>8, <3>1, <3>2 DEF RegistersInv, CodesApart
  <2> QED BY <2>7, <2>8
<1>2. RegistersInv /\ [R!Next]_(R!vars) => [\A c \in Client : Kept(c)]_(R!vars)
  BY <1>1
<1> QED
  BY <1>2, RegistersInit, RegistersStep, PTL DEF R!Spec, NobodyIsRelabelled, R!NobodyIsRelabelled
-----------------------------------------------------------------------------
(* Checklists.                                                             *)

\* A set of lines to add: one for a wording of a sheet.
OneRowEach(add) ==
  /\ add \subseteq C!Sheet \X Label \X C!Line
  /\ \A x, y \in add : x[1] = y[1] /\ x[2] = y[2] => x = y

\* What a request under way has decided, against the rows as they are now: an id
\* it has seen is still the line it saw, or gone.
Replaces(q) ==
  /\ q.sheet \in C!Sheet /\ q.form \in C!Form /\ q.made \subseteq C!Sheet
  /\ DOMAIN q.saw \subseteq ItemId /\ q.removed \subseteq DOMAIN q.saw
  /\ \A i \in DOMAIN q.saw :
       C!Exists(i) => items[i].sheet = q.sheet /\ items[i].label = q.saw[i].label
  /\ \A l \in DOMAIN q.reused :
       l \in DOMAIN q.form /\ q.reused[l] \in DOMAIN q.saw /\ q.saw[q.reused[l]].label = l
  /\ OneRowEach(q.added)
  /\ \A x \in q.added : x[1] = q.sheet /\ \A i \in DOMAIN q.saw : q.saw[i].label # x[2]
Syncs(q) ==
  /\ q.made \subseteq C!Sheet /\ q.blank \subseteq C!Sheet
  /\ OneRowEach(q.added) /\ \A x \in q.added : x[1] \in q.blank
Inspects(q) ==
  /\ q.made \subseteq C!Sheet /\ q.day \in InspectionDay
  /\ DOMAIN q.book \subseteq Bus /\ \A b \in DOMAIN q.book : q.book[b] \in C!Answers
Decides(r) ==
  /\ asked[r].kind = "replace" => Replaces(asked[r])
  /\ asked[r].kind = "sync" => Syncs(asked[r])
  /\ asked[r].kind = "inspect" => Inspects(asked[r])

AnsweredExist == \A i \in C!Answered : i \in ItemId /\ C!Exists(i)

ChecklistInv ==
  /\ C!TypeOK /\ asked = [r \in Request |-> asked[r]]
  /\ C!OneLineOnce
  /\ AnsweredExist
  /\ \A r \in Request : Decides(r)

\* A step on the rows deletes no answered line, and makes no other line of one
\* that somebody may still point at.
LinesStay ==
  \A i \in ItemId :
    /\ i \notin C!Unused /\ C!Exists(i)' =>
         /\ C!Exists(i) /\ items'[i].sheet = items[i].sheet /\ items'[i].label = items[i].label
         /\ items'[i].active \/ items'[i].line = items[i].line
    /\ i \in C!Answered => C!Exists(i)'

\* The rows before new ones are put beside them.
RowsStay(rows) ==
  /\ rows \in [ItemId -> C!Item \cup {C!Gone}]
  /\ \A i \in ItemId :
       /\ rows[i] # C!Gone =>
            /\ C!Exists(i) /\ rows[i].sheet = items[i].sheet /\ rows[i].label = items[i].label
            /\ rows[i].active \/ rows[i].line = items[i].line
       /\ i \in C!Answered => rows[i] # C!Gone

\* The operators of the instance are those of the library.
LEMMA SameCounts ==
  ASSUME NEW S
  PROVE  (C!IsFiniteSet(S) <=> IsFiniteSet(S)) /\ C!Cardinality(S) = Cardinality(S)
<1>1. C!IsFiniteSet(S) <=> IsFiniteSet(S)
  BY DEF C!IsFiniteSet, IsFiniteSet
<1>2. C!Cardinality(S) = Cardinality(S)
  BY DEF C!Cardinality, Cardinality
<1> QED BY <1>1, <1>2

LEMMA Injections ==
  ASSUME NEW S, NEW T, IsFiniteSet(S), IsFiniteSet(T), Cardinality(S) <= Cardinality(T)
  PROVE  \E f \in [S -> T] : \A x, y \in S : x # y => f[x] # f[y]
<1> DEFINE m == Cardinality(S)
           n == Cardinality(T)
<1>1. PICK g \in Bijection(1..m, S) : TRUE
  BY FS_CardinalityType DEF ExistsBijection
<1>2. PICK h \in Bijection(1..n, T) : TRUE
  BY FS_CardinalityType DEF ExistsBijection
<1>3. m \in Nat /\ n \in Nat /\ 1..m \subseteq 1..n
  BY FS_CardinalityType
<1> HIDE DEF m, n
<1>4. \A x \in S : \E i \in 1..m : g[i] = x
  BY <1>1 DEF Bijection, Surjection
<1> DEFINE at == [x \in S |-> CHOOSE i \in 1..m : g[i] = x]
           f == [x \in S |-> h[at[x]]]
<1>5. \A x \in S : at[x] \in 1..m /\ g[at[x]] = x
  BY <1>4
<1> HIDE DEF at
<1>6. h \in [1..n -> T] /\ \A i, j \in 1..n : h[i] = h[j] => i = j
  BY <1>2 DEF Bijection, Injection, IsInjective
<1>7. f \in [S -> T]
  BY <1>3, <1>5, <1>6
<1>8. \A x, y \in S : x # y => f[x] # f[y]
  BY <1>3, <1>5, <1>6
<1> QED BY <1>7, <1>8

LEMMA AddFinite ==
  ASSUME C!ChecklistAssumption, NEW add, OneRowEach(add) PROVE IsFiniteSet(add)
<1> DEFINE f == [x \in add |-> <<x[1], x[2]>>]
<1>1. IsFiniteSet(C!Sheet \X Label)
  <2>1. IsFiniteSet(C!Sheet) /\ IsFiniteSet(Label)
    BY SameCounts DEF C!ChecklistAssumption
  <2> QED BY <2>1, FS_Product
<1>2. f \in Injection(add, C!Sheet \X Label)
  BY DEF OneRowEach, Injection, IsInjective
<1> QED BY <1>1, <1>2, FS_Injection

\* The new lines find ids of their own: no row has them, no request remembers them.
LEMMA PlacedApart ==
  ASSUME C!ChecklistAssumption, NEW add, OneRowEach(add), C!Room(add), NEW rows
  PROVE  \E at \in [add -> C!Unused] :
           /\ \A x, y \in add : x # y => at[x] # at[y]
           /\ \A i \in ItemId :
                \/ \E x \in add : at[x] = i
                                  /\ C!WithLines(rows, add)[i] = C!NewLine(x[1], x[2], x[3])
                \/ (\A x \in add : at[x] # i) /\ C!WithLines(rows, add)[i] = rows[i]
<1>1. IsFiniteSet(add) /\ IsFiniteSet(C!Unused)
  <2>1. IsFiniteSet(ItemId) /\ C!Unused \in SUBSET ItemId
    BY SameCounts DEF C!ChecklistAssumption, C!Unused
  <2> QED BY <2>1, AddFinite, FS_Subset
<1>2. \E f \in [add -> C!Unused] : \A x, y \in add : x # y => f[x] # f[y]
  BY <1>1, SameCounts, Injections DEF C!Room
<1> DEFINE at == C!Placed(add)
<1>3. at \in [add -> C!Unused] /\ \A x, y \in add : x # y => at[x] # at[y]
  BY <1>2 DEF C!Placed
<1> HIDE DEF at
<1>4. ASSUME NEW i \in ItemId
      PROVE  \/ \E x \in add : at[x] = i
                               /\ C!WithLines(rows, add)[i] = C!NewLine(x[1], x[2], x[3])
             \/ (\A x \in add : at[x] # i) /\ C!WithLines(rows, add)[i] = rows[i]
  <2>1. CASE \E x \in add : at[x] = i
    <3> DEFINE x == CHOOSE y \in add : at[y] = i
    <3>1. x \in add /\ at[x] = i
      BY <2>1
    <3>2. C!WithLines(rows, add)[i] = C!NewLine(x[1], x[2], x[3])
      BY <2>1 DEF C!WithLines, at
    <3> HIDE DEF x
    <3> QED BY <3>1, <3>2
  <2>2. CASE \A x \in add : at[x] # i
    BY <2>2 DEF C!WithLines, at
  <2> QED BY <2>1, <2>2
<1> QED BY <1>3, <1>4
\* Rewriting the rows and placing new lines beside them.
LEMMA Rewrites ==
  ASSUME C!ChecklistAssumption, C!TypeOK, AnsweredExist, C!OneLineOnce,
         NEW rows, RowsStay(rows), NEW add, OneRowEach(add), C!Room(add),
         items' = C!WithLines(rows, add), crossed \subseteq crossed',
         \A x \in add : x[1] \in crossed' \/ \A i \in C!Lines(x[1]) : items[i].label # x[2]
  PROVE  items' \in [ItemId -> C!Item \cup {C!Gone}] /\ LinesStay /\ C!OneLineOnce'
<1>1. PICK at \in [add -> C!Unused] :
        /\ \A x, y \in add : x # y => at[x] # at[y]
        /\ \A i \in ItemId :
             \/ \E x \in add : at[x] = i /\ items'[i] = C!NewLine(x[1], x[2], x[3])
             \/ (\A x \in add : at[x] # i) /\ items'[i] = rows[i]
  BY PlacedApart
<1>2. items' = [i \in ItemId |-> items'[i]]
  <2>1. items' = [i \in ItemId |-> C!WithLines(rows, add)[i]]
    BY DEF C!WithLines
  <2> QED BY <2>1
<1>3. \A x \in add : x[1] \in C!Sheet /\ x[2] \in Label /\ x[3] \in C!Line
  BY DEF OneRowEach
<1>4. \A x \in add : C!NewLine(x[1], x[2], x[3]) \in C!Item
  BY <1>3 DEF C!NewLine, C!Item
<1>5. items' \in [ItemId -> C!Item \cup {C!Gone}]
  BY <1>1, <1>2, <1>4 DEF RowsStay
<1>6. \A i \in ItemId : i \notin C!Unused => items'[i] = rows[i]
  BY <1>1
<1>7. \A i \in ItemId : C!Exists(i) => i \notin C!Unused
  BY DEF C!Unused
<1>8. LinesStay
  <2> SUFFICES ASSUME NEW i \in ItemId
               PROVE  /\ i \notin C!Unused /\ C!Exists(i)' =>
                           /\ C!Exists(i) /\ items'[i].sheet = items[i].sheet
                           /\ items'[i].label = items[i].label
                           /\ items'[i].active \/ items'[i].line = items[i].line
                      /\ i \in C!Answered => C!Exists(i)'
    BY DEF LinesStay
  <2> QED BY <1>6, <1>7 DEF RowsStay, AnsweredExist, C!Exists
<1>9. ASSUME NEW s \in C!Sheet \ crossed', NEW i \in C!Lines(s)', NEW j \in C!Lines(s)',
             items'[i].label = items'[j].label
      PROVE  i = j
  <2>1. i \in ItemId /\ j \in ItemId /\ items'[i] # C!Gone /\ items'[j] # C!Gone
        /\ items'[i].sheet = s /\ items'[j].sheet = s
    BY <1>9 DEF C!Lines, C!Exists
  <2>2. ASSUME NEW k \in ItemId, items'[k] = rows[k], items'[k] # C!Gone, items'[k].sheet = s
        PROVE  k \in C!Lines(s) /\ items[k].label = items'[k].label
    BY <2>2 DEF RowsStay, C!Lines
  <2>3. ASSUME NEW x \in add, NEW k \in ItemId, items'[k] = rows[k], items'[k] # C!Gone,
               items'[k].sheet = s, x[1] = s
        PROVE  items'[k].label # x[2]
    BY <1>9, <2>2, <2>3
  <2>4. CASE items'[i] = rows[i] /\ items'[j] = rows[j]
    <3>1. s \in C!Sheet \ crossed
      OBVIOUS
    <3> QED BY <1>9, <2>1, <2>2, <2>4, <3>1 DEF OneLineOnce, C!OneLineOnce
  <2>5. ASSUME NEW x \in add, at[x] = i, items'[i] = C!NewLine(x[1], x[2], x[3]) PROVE i = j
    <3>1. x[1] = s /\ x[2] = items'[j].label
      BY <1>9, <2>1, <2>5 DEF C!NewLine
    <3>2. PICK y \in add : at[y] = j /\ items'[j] = C!NewLine(y[1], y[2], y[3])
      BY <1>1, <2>1, <2>3, <3>1
    <3>3. y[1] = s /\ y[2] = items'[j].label
      BY <2>1, <3>2 DEF C!NewLine
    <3> QED BY <2>5, <3>1, <3>2, <3>3 DEF OneRowEach
  <2>6. ASSUME NEW y \in add, at[y] = j, items'[j] = C!NewLine(y[1], y[2], y[3]) PROVE i = j
    <3>1. y[1] = s /\ y[2] = items'[i].label
      BY <1>9, <2>1, <2>6 DEF C!NewLine
    <3>2. PICK x \in add : at[x] = i /\ items'[i] = C!NewLine(x[1], x[2], x[3])
      BY <1>1, <2>1, <2>3, <3>1
    <3> QED BY <2>5, <3>2
  <2> QED BY <1>1, <2>1, <2>4, <2>5, <2>6
<1>10. C!OneLineOnce'
  BY <1>9 DEF OneLineOnce, C!OneLineOnce
<1> QED BY <1>5, <1>8, <1>10

\* Taking lines out, with nothing put in.
LEMMA Deletes ==
  ASSUME C!TypeOK, AnsweredExist, C!OneLineOnce, RowsStay(items'), UNCHANGED crossed
  PROVE  items' \in [ItemId -> C!Item \cup {C!Gone}] /\ LinesStay /\ C!OneLineOnce'
<1>1. LinesStay
  BY DEF LinesStay, RowsStay, C!Exists
<1>2. \A s \in C!Sheet : \A i \in C!Lines(s)' : i \in C!Lines(s) /\ items'[i].label = items[i].label
  BY DEF RowsStay, C!Lines, C!Exists
<1>3. C!OneLineOnce'
  BY <1>2 DEF OneLineOnce, C!OneLineOnce
<1> QED BY <1>1, <1>3 DEF RowsStay

\* What a request has decided stands while the rows change under it.
LEMMA StaysDecided ==
  ASSUME NEW r \in Request, Decides(r), LinesStay, asked'[r] = asked[r] PROVE Decides(r)'
<1> DEFINE q == asked[r]
<1>1. ASSUME q.kind = "replace"
      PROVE  \A i \in DOMAIN q.saw :
               C!Exists(i)' => items'[i].sheet = q.sheet /\ items'[i].label = q.saw[i].label
  <2> SUFFICES ASSUME NEW i \in DOMAIN q.saw, C!Exists(i)'
               PROVE  items'[i].sheet = q.sheet /\ items'[i].label = q.saw[i].label
    OBVIOUS
  <2>1. i \in ItemId /\ i \notin C!Unused
    BY <1>1 DEF Decides, Replaces, C!Unused, C!Held
  <2> QED BY <1>1, <2>1 DEF Decides, Replaces, LinesStay
<1>2. q.kind = "replace" => Replaces(asked[r])'
  BY <1>1 DEF Decides, Replaces
<1>3. q.kind = "sync" => Syncs(asked[r])'
  BY DEF Decides, Syncs
<1>4. q.kind = "inspect" => Inspects(asked[r])'
  BY DEF Decides, Inspects
<1> QED BY <1>2, <1>3, <1>4 DEF Decides

\* The rows as a rewriting request leaves them.
LEMMA RewrittenStay ==
  ASSUME C!TypeOK, AnsweredExist, NEW q, Replaces(q), C!Unanswered(q.removed)
  PROVE  RowsStay(C!Rewritten(q))
<1> DEFINE by(i) == {l \in DOMAIN q.reused : q.reused[l] = i}
           now == C!Rewritten(q)
<1>1. \A i \in ItemId :
        now[i] = IF i \in q.removed THEN C!Gone
                 ELSE IF ~C!Exists(i) THEN items[i]
                 ELSE IF i \in q.retired THEN C!Retired(items[i])
                 ELSE IF by(i) # {} THEN C!NewLine(q.sheet, items[i].label, q.form[items[i].label])
                 ELSE items[i]
  BY DEF C!Rewritten
<1>2. now = [i \in ItemId |-> now[i]]
  BY DEF C!Rewritten
<1> HIDE DEF now
<1>3. ASSUME NEW i \in ItemId
      PROVE  /\ now[i] \in C!Item \cup {C!Gone}
             /\ now[i] # C!Gone =>
                  /\ C!Exists(i) /\ now[i].sheet = items[i].sheet /\ now[i].label = items[i].label
                  /\ now[i].active \/ now[i].line = items[i].line
             /\ i \in C!Answered => now[i] # C!Gone
  <2>0. items[i] \in C!Item \cup {C!Gone}
    BY DEF C!TypeOK
  <2>1. CASE i \in q.removed
    BY <1>1, <2>1 DEF C!Unanswered
  <2>2. CASE i \notin q.removed /\ ~C!Exists(i)
    BY <1>1, <2>2 DEF C!Exists, AnsweredExist
  <2>3. CASE i \notin q.removed /\ C!Exists(i) /\ i \in q.retired
    <3>1. items[i] \in C!Item /\ now[i] = C!Retired(items[i])
      BY <1>1, <2>0, <2>3 DEF C!Exists
    <3>2. now[i] \in C!Item /\ now[i].sheet = items[i].sheet /\ now[i].label = items[i].label
          /\ now[i].line = items[i].line
      BY <3>1 DEF C!Retired, C!Item
    <3> QED BY <2>3, <3>2 DEF C!Item, C!Gone
  <2>4. CASE i \notin q.removed /\ C!Exists(i) /\ i \notin q.retired /\ by(i) # {}
    <3>1. PICK l \in DOMAIN q.reused : q.reused[l] = i
      BY <2>4
    <3>2. /\ l \in DOMAIN q.form /\ i \in DOMAIN q.saw /\ items[i].sheet = q.sheet
          /\ items[i].label = l
      BY <2>4, <3>1 DEF Replaces
    <3>3. q.form[l] \in C!Line /\ l \in Label
      BY <3>2 DEF Replaces, C!Form
    <3>4. now[i] = C!NewLine(q.sheet, l, q.form[l])
      BY <1>1, <2>4, <3>2
    <3>5. now[i] \in C!Item /\ now[i].sheet = q.sheet /\ now[i].label = l /\ now[i].active
      BY <3>3, <3>4 DEF C!NewLine, C!Item, Replaces
    <3> QED BY <2>4, <3>2, <3>5 DEF C!Item, C!Gone
  <2>5. CASE i \notin q.removed /\ C!Exists(i) /\ i \notin q.retired /\ by(i) = {}
    BY <1>1, <2>0, <2>5 DEF C!Exists
  <2> QED BY <2>1, <2>2, <2>3, <2>4, <2>5
<1> QED BY <1>2, <1>3 DEF RowsStay, now
\* replace_items decides on the rows as they are.
LEMMA DecidedReplaces ==
  ASSUME C!TypeOK, NEW s \in C!Sheet, NEW sent \in C!Form
  PROVE  /\ Replaces(C!Decided(s, sent)) /\ C!Decided(s, sent).kind = "replace"
         /\ C!Unanswered(C!Decided(s, sent).removed)
         /\ \A x \in C!Decided(s, sent).added :
              x[1] = s /\ \A i \in C!Lines(s) : items[i].label # x[2]
<1> DEFINE q == C!Decided(s, sent)
           old == {l \in DOMAIN sent : C!Reusable(s, l) # {}}
<1>1. /\ q.kind = "replace" /\ q.sheet = s /\ q.form = sent /\ q.made = {s} \ sheets
      /\ q.saw = [i \in C!Lines(s) |-> items[i]]
      /\ q.removed = C!Dropped(s, sent) \ C!Answered
      /\ q.reused = [l \in old |-> CHOOSE i \in C!Reusable(s, l) : TRUE]
      /\ q.added = {<<s, l, sent[l]>> : l \in DOMAIN sent \ old}
  BY DEF C!Decided
<1> HIDE DEF q
<1>2. DOMAIN sent \subseteq Label /\ \A l \in DOMAIN sent : sent[l] \in C!Line
  BY DEF C!Form
<1>3. C!Lines(s) \subseteq ItemId /\ \A i \in C!Lines(s) : items[i].sheet = s
  BY DEF C!Lines
<1>4. DOMAIN q.saw = C!Lines(s) /\ \A i \in C!Lines(s) : q.saw[i] = items[i]
  BY <1>1
<1>5. q.removed \subseteq C!Lines(s) /\ C!Unanswered(q.removed)
  BY <1>1 DEF C!Dropped, C!Unanswered
<1>6. ASSUME NEW l \in DOMAIN q.reused
      PROVE  l \in DOMAIN sent /\ q.reused[l] \in C!Lines(s) /\ items[q.reused[l]].label = l
  <2>1. l \in old /\ q.reused[l] = CHOOSE i \in C!Reusable(s, l) : TRUE
    BY <1>1
  <2>2. q.reused[l] \in C!Reusable(s, l)
    BY <2>1
  <2> QED BY <2>1, <2>2 DEF C!Reusable
<1>7. OneRowEach(q.added)
  BY <1>1, <1>2 DEF OneRowEach
<1>8. ASSUME NEW x \in q.added
      PROVE  x[1] = s /\ \A i \in C!Lines(s) : items[i].label # x[2]
  <2>1. PICK l \in DOMAIN sent \ old : x = <<s, l, sent[l]>>
    BY <1>1
  <2>2. C!Reusable(s, l) = {}
    BY <2>1
  <2> QED BY <2>1, <2>2 DEF C!Reusable
<1>9. Replaces(q)
  <2>1. \A l \in DOMAIN q.reused :
          l \in DOMAIN q.form /\ q.reused[l] \in DOMAIN q.saw /\ q.saw[q.reused[l]].label = l
    BY <1>1, <1>4, <1>6
  <2>2. \A x \in q.added : x[1] = q.sheet /\ \A i \in DOMAIN q.saw : q.saw[i].label # x[2]
    BY <1>1, <1>4, <1>8
  <2>3. \A i \in DOMAIN q.saw : items[i].sheet = q.sheet /\ items[i].label = q.saw[i].label
    BY <1>1, <1>3, <1>4
  <2> QED BY <1>1, <1>3, <1>4, <1>5, <1>7, <2>1, <2>2, <2>3 DEF Replaces
<1> QED BY <1>1, <1>5, <1>8, <1>9 DEF q

\* A catalogue ships a wording of a sheet once.
LEMMA ShippedOnce ==
  ASSUME C!ChecklistAssumption, NEW S, NEW M \in SUBSET (1..Migrations + 1)
  PROVE  /\ OneRowEach(UNION {C!LinesOf(S, m) : m \in M})
         /\ \A x \in UNION {C!LinesOf(S, m) : m \in M} : x[1] \in S
<1> DEFINE add == UNION {C!LinesOf(S, m) : m \in M}
<1>1. ASSUME NEW x \in add
      PROVE  \E m \in M : /\ x[1] \in S \cap DOMAIN Catalogue[m]
                          /\ x[2] \in DOMAIN Catalogue[m][x[1]]
                          /\ x = <<x[1], x[2], Catalogue[m][x[1]][x[2]]>>
  BY DEF C!LinesOf
<1> HIDE DEF add
<1>2. ASSUME NEW x \in add PROVE x \in C!Sheet \X Label \X C!Line
  <2>1. PICK m \in M : /\ x[1] \in DOMAIN Catalogue[m] /\ x[2] \in DOMAIN Catalogue[m][x[1]]
                       /\ x = <<x[1], x[2], Catalogue[m][x[1]][x[2]]>>
    BY <1>1
  <2>2. x[1] \in C!Sheet /\ Catalogue[m][x[1]] \in C!Form
    BY <2>1 DEF C!ChecklistAssumption
  <2>3. x[2] \in Label /\ Catalogue[m][x[1]][x[2]] \in C!Line
    BY <2>1, <2>2 DEF C!Form
  <2> QED BY <2>1, <2>2, <2>3
<1>3. ASSUME NEW x \in add, NEW y \in add, x[1] = y[1], x[2] = y[2] PROVE x = y
  <2>1. PICK m \in M : /\ x[1] \in DOMAIN Catalogue[m]
                       /\ x = <<x[1], x[2], Catalogue[m][x[1]][x[2]]>>
    BY <1>1
  <2>2. PICK n \in M : /\ y[1] \in DOMAIN Catalogue[n]
                       /\ y = <<y[1], y[2], Catalogue[n][y[1]][y[2]]>>
    BY <1>1
  <2>3. m = n
    BY <1>3, <2>1, <2>2 DEF C!ChecklistAssumption
  <2> QED BY <1>3, <2>1, <2>2, <2>3
<1> QED BY <1>1, <1>2, <1>3 DEF OneRowEach, add

LEMMA RowsAsTheyAre ==
  ASSUME C!TypeOK, AnsweredExist PROVE RowsStay(items)
BY DEF RowsStay, C!TypeOK, AnsweredExist, C!Exists

LEMMA ChecklistsInit == C!Init => ChecklistInv
<1> C!ChecklistAssumption
  BY RecordsAssumption
<1> SUFFICES ASSUME C!Init PROVE ChecklistInv
  OBVIOUS
<1> USE DEF C!Init
<1>1. C!TypeOK
  BY DEF C!TypeOK, C!ChecklistAssumption
<1>2. C!OneLineOnce
  BY DEF OneLineOnce, C!OneLineOnce, C!Lines, C!Exists
<1>3. AnsweredExist
  BY DEF AnsweredExist, C!Answered, C!Recorded
<1>4. \A r \in Request : Decides(r)
  BY DEF Decides, C!Idle
<1>5. asked = [r \in Request |-> asked[r]]
  OBVIOUS
<1> QED BY <1>1, <1>2, <1>3, <1>4, <1>5 DEF ChecklistInv
LEMMA NothingMoves == UNCHANGED items /\ AnsweredExist => LinesStay
BY DEF LinesStay, AnsweredExist, C!Exists

\* What is left to show of a step that leaves the inspections.
LEMMA ChecklistsTo ==
  ASSUME ChecklistInv, C!TypeOK', C!OneLineOnce', LinesStay, UNCHANGED inspections,
         asked' = [r \in Request |-> asked'[r]],
         \A r \in Request : asked'[r] = asked[r] \/ Decides(r)'
  PROVE  ChecklistInv'
<1>1. AnsweredExist'
  <2>1. C!Answered' = C!Answered
    BY DEF C!Answered, C!Recorded
  <2> QED BY <2>1 DEF AnsweredExist, ChecklistInv, LinesStay
<1>2. \A r \in Request : Decides(r)'
  BY StaysDecided DEF ChecklistInv
<1> QED BY <1>1, <1>2 DEF ChecklistInv

\* A request begins, or ends.
LEMMA Asks ==
  ASSUME ChecklistInv, NEW r \in Request, NEW q, asked' = [asked EXCEPT ![r] = q]
  PROVE  /\ asked'[r] = q /\ asked' = [p \in Request |-> asked'[p]]
         /\ \A p \in Request \ {r} : asked'[p] = asked[p]
BY DEF ChecklistInv

LEMMA Finishes ==
  ASSUME ChecklistInv, NEW r \in Request, C!Finish(r)
  PROVE  /\ asked' = [p \in Request |-> asked'[p]]
         /\ \A p \in Request : asked'[p] = asked[p] \/ Decides(p)'
<1>1. asked' = [asked EXCEPT ![r] = C!Idle]
  BY DEF C!Finish
<1>2. asked'[r] = C!Idle
  BY <1>1, Asks
<1>3. Decides(r)'
  BY <1>2 DEF Decides, C!Idle
<1> QED BY <1>1, <1>3, Asks

LEMMA Begins ==
  ASSUME ChecklistInv, NEW r \in Request, asked' = [p \in Request |-> asked'[p]],
         \A p \in Request \ {r} : asked'[p] = asked[p], Decides(r)',
         UNCHANGED <<sheets, items, inspections, variant, outOfFleet, head, crossed>>,
         changes' \in 0..MaxChanges
  PROVE  ChecklistInv'
<1>1. C!TypeOK'
  BY DEF ChecklistInv, C!TypeOK
<1>2. C!OneLineOnce'
  BY DEF ChecklistInv, OneLineOnce, C!OneLineOnce, C!Lines, C!Exists
<1> QED BY <1>1, <1>2, NothingMoves, ChecklistsTo DEF ChecklistInv

LEMMA SheetForABus ==
  ASSUME C!TypeOK, NEW b \in Bus, NEW km \in Rung \cup {C!None}
  PROVE  C!SheetFor(b, km) \in C!Sheet
BY DEF C!SheetFor, C!Sheet, C!AllSheets, C!TypeOK

\* Every answer of a new inspection is on a line that is there, and no inspection
\* is overwritten.
LEMMA Inspected ==
  ASSUME ChecklistInv, NEW r \in Request, C!CommitInspect(r)
  PROVE  /\ inspections' \in [InspectionId -> C!Inspection \cup {C!Gone}] /\ AnsweredExist'
         /\ \A n \in C!Recorded : inspections'[n] = inspections[n]
<1> DEFINE q == asked[r]
           B == DOMAIN q.book
           free == {n \in InspectionId : inspections[n] = C!Gone}
<1>1. /\ q.kind = "inspect" /\ \A b \in B : \A i \in DOMAIN q.book[b] : C!Exists(i)
      /\ UNCHANGED items
  BY DEF C!CommitInspect
<1>2. PICK at \in [B -> free] :
        inspections' = [n \in InspectionId |->
                          IF \E b \in B : at[b] = n
                          THEN LET b == CHOOSE b \in B : at[b] = n
                               IN  [bus |-> b, day |-> q.day, answers |-> q.book[b]]
                          ELSE inspections[n]]
  BY DEF C!CommitInspect
<1>3. Inspects(q)
  BY <1>1 DEF ChecklistInv, Decides
<1>t. inspections \in [InspectionId -> C!Inspection \cup {C!Gone}]
  BY DEF ChecklistInv, C!TypeOK
<1>4. ASSUME NEW n \in InspectionId
      PROVE  \/ \E b \in B : /\ at[b] = n
                             /\ inspections'[n] = [bus |-> b, day |-> q.day, answers |-> q.book[b]]
             \/ inspections'[n] = inspections[n]
  <2>1. CASE \E b \in B : at[b] = n
    <3> DEFINE b == CHOOSE c \in B : at[c] = n
    <3>1. b \in B /\ at[b] = n
      BY <2>1
    <3>2. inspections'[n] = [bus |-> b, day |-> q.day, answers |-> q.book[b]]
      BY <1>2, <2>1
    <3> HIDE DEF b
    <3> QED BY <3>1, <3>2
  <2>2. CASE ~\E b \in B : at[b] = n
    BY <1>2, <2>2
  <2> QED BY <2>1, <2>2
<1>5. ASSUME NEW b \in B
      PROVE  [bus |-> b, day |-> q.day, answers |-> q.book[b]] \in C!Inspection
  BY <1>3 DEF Inspects, C!Inspection
<1>6. inspections' \in [InspectionId -> C!Inspection \cup {C!Gone}]
  <2>1. \A n \in InspectionId : inspections'[n] \in C!Inspection \cup {C!Gone}
    BY <1>t, <1>4, <1>5
  <2> QED BY <1>2, <2>1
<1>7. \A n \in C!Recorded : inspections'[n] = inspections[n]
  BY <1>2 DEF C!Recorded
<1>8. ASSUME NEW i \in C!Answered' PROVE i \in ItemId /\ C!Exists(i)'
  <2>1. PICK n \in InspectionId : inspections'[n] # C!Gone /\ i \in DOMAIN inspections'[n].answers
    BY <1>8 DEF C!Answered, C!Recorded
  <2>2. CASE inspections'[n] = inspections[n]
    <3>1. i \in C!Answered
      BY <2>1, <2>2 DEF C!Answered, C!Recorded
    <3> QED BY <1>1, <3>1 DEF ChecklistInv, AnsweredExist, C!Exists
  <2>3. ASSUME NEW b \in B,
               inspections'[n] = [bus |-> b, day |-> q.day, answers |-> q.book[b]]
        PROVE  i \in ItemId /\ C!Exists(i)'
    <3>1. i \in DOMAIN q.book[b] /\ q.book[b] \in C!Answers
      BY <1>3, <2>1, <2>3 DEF Inspects
    <3> QED BY <1>1, <3>1 DEF C!Answers, C!Exists
  <2> QED BY <1>4, <2>2, <2>3
<1> QED BY <1>6, <1>7, <1>8 DEF AnsweredExist

\* Every step on the rows, by whoever takes it.
LEMMA RowsStep ==
  ASSUME C!ChecklistAssumption, ChecklistInv, C!Next
  PROVE  /\ items' \in [ItemId -> C!Item \cup {C!Gone}] /\ LinesStay /\ C!OneLineOnce'
         /\ crossed \subseteq crossed' /\ crossed' \subseteq C!Sheet
<1>t. /\ C!TypeOK /\ AnsweredExist /\ C!OneLineOnce /\ crossed \subseteq C!Sheet
      /\ items \in [ItemId -> C!Item \cup {C!Gone}]
  BY DEF ChecklistInv, C!TypeOK
<1>1. ASSUME NEW r \in Request, C!CommitReplace(r)
      PROVE  /\ items' \in [ItemId -> C!Item \cup {C!Gone}] /\ LinesStay /\ C!OneLineOnce'
             /\ crossed \subseteq crossed' /\ crossed' \subseteq C!Sheet
  <2> DEFINE q == asked[r]
  <2>1. /\ q.kind = "replace" /\ C!Unanswered(q.removed) /\ C!Room(q.added)
        /\ items' = C!WithLines(C!Rewritten(q), q.added)
        /\ crossed' = IF [i \in C!Lines(q.sheet) |-> items[i]] = q.saw
                        THEN crossed ELSE crossed \cup {q.sheet}
    BY <1>1 DEF C!CommitReplace
  <2>2. Replaces(q)
    BY <2>1 DEF ChecklistInv, Decides
  <2> HIDE DEF q
  <2>3. crossed \subseteq crossed' /\ crossed' \subseteq C!Sheet
    BY <1>t, <2>1, <2>2 DEF Replaces
  <2>4. ASSUME NEW x \in q.added, x[1] \notin crossed', NEW i \in C!Lines(x[1])
        PROVE  items[i].label # x[2]
    <3>1. x[1] = q.sheet /\ \A j \in DOMAIN q.saw : q.saw[j].label # x[2]
      BY <2>2 DEF Replaces
    <3>2. [j \in C!Lines(q.sheet) |-> items[j]] = q.saw
      BY <2>1, <2>4, <3>1
    <3>3. i \in DOMAIN q.saw /\ q.saw[i] = items[i]
      BY <3>1, <3>2
    <3> QED BY <3>1, <3>3
  <2>5. RowsStay(C!Rewritten(q)) /\ OneRowEach(q.added)
    BY <1>t, <2>1, <2>2, RewrittenStay DEF Replaces
  <2> QED BY <1>t, <2>1, <2>3, <2>4, <2>5, Rewrites
<1>2. ASSUME NEW r \in Request, C!CommitSync(r)
      PROVE  /\ items' \in [ItemId -> C!Item \cup {C!Gone}] /\ LinesStay /\ C!OneLineOnce'
             /\ crossed \subseteq crossed' /\ crossed' \subseteq C!Sheet
  <2> DEFINE q == asked[r]
  <2>1. /\ q.kind = "sync" /\ C!Room(q.added)
        /\ items' = C!WithLines(items, q.added)
        /\ crossed' = crossed \cup {s \in q.blank : C!Lines(s) # {}}
    BY <1>2 DEF C!CommitSync
  <2>2. Syncs(q)
    BY <2>1 DEF ChecklistInv, Decides
  <2> HIDE DEF q
  <2>3. crossed \subseteq crossed' /\ crossed' \subseteq C!Sheet
    BY <1>t, <2>1, <2>2 DEF Syncs
  <2>4. \A x \in q.added : x[1] \in crossed' \/ C!Lines(x[1]) = {}
    BY <2>1, <2>2 DEF Syncs
  <2> QED BY <1>t, <2>1, <2>2, <2>3, <2>4, RowsAsTheyAre, Rewrites DEF Syncs
<1>3. ASSUME C!Upgrade
      PROVE  /\ items' \in [ItemId -> C!Item \cup {C!Gone}] /\ LinesStay /\ C!OneLineOnce'
             /\ crossed \subseteq crossed' /\ crossed' \subseteq C!Sheet
  <2> DEFINE add == C!LinesOf(C!Blank(C!Sheet), head + 1)
             M == {head + 1}
  <2>1. /\ C!Room(add) /\ items' = C!WithLines(items, add) /\ crossed' = crossed
        /\ head + 1 <= Migrations
    BY <1>3 DEF C!Upgrade
  <2>2. M \in SUBSET (1..Migrations + 1)
    BY <1>t, <2>1 DEF C!TypeOK, C!ChecklistAssumption
  <2>3. add = UNION {C!LinesOf(C!Blank(C!Sheet), m) : m \in M}
    OBVIOUS
  <2>4. OneRowEach(add) /\ \A x \in add : x[1] \in C!Blank(C!Sheet)
    <3> DEFINE S == C!Blank(C!Sheet)
    <3> HIDE DEF M
    <3>1. /\ OneRowEach(UNION {C!LinesOf(S, m) : m \in M})
          /\ \A x \in UNION {C!LinesOf(S, m) : m \in M} : x[1] \in S
      <4> HIDE DEF S
      <4> QED BY <2>2, ShippedOnce
    <3> HIDE DEF add
    <3> QED BY <2>3, <3>1
  <2> HIDE DEF add
  <2>5. \A x \in add : C!Lines(x[1]) = {}
    BY <2>4 DEF C!Blank
  <2> QED BY <1>t, <2>1, <2>4, <2>5, RowsAsTheyAre, Rewrites
<1>4. ASSUME C!Downgrade
      PROVE  /\ items' \in [ItemId -> C!Item \cup {C!Gone}] /\ LinesStay /\ C!OneLineOnce'
             /\ crossed \subseteq crossed' /\ crossed' \subseteq C!Sheet
  <2>1. RowsStay(items') /\ UNCHANGED crossed
    BY <1>4, <1>t DEF C!Downgrade, RowsStay, AnsweredExist, C!Exists
  <2> QED BY <1>t, <2>1, Deletes
<1>5. ASSUME NEW v \in Variant, NEW L \in SUBSET Label, NEW B \in SUBSET Bus,
             C!SeedWorkbook(v, L, B)
      PROVE  /\ items' \in [ItemId -> C!Item \cup {C!Gone}] /\ LinesStay /\ C!OneLineOnce'
             /\ crossed \subseteq crossed' /\ crossed' \subseteq C!Sheet
  <2> DEFINE s == [variant |-> v, km |-> C!None]
             sent == [l \in L |-> C!Standard]
             q == C!Decided(s, sent)
  <2>1. C!Room(q.added) /\ items' = C!WithLines(C!Rewritten(q), q.added) /\ UNCHANGED crossed
    BY <1>5 DEF C!SeedWorkbook
  <2>2. s \in C!Sheet /\ sent \in C!Form
    BY DEF C!Sheet, C!Form, C!Standard, C!Line
  <2> HIDE DEF s, sent
  <2>3. /\ Replaces(q) /\ C!Unanswered(q.removed)
        /\ \A x \in q.added : x[1] = s /\ \A i \in C!Lines(s) : items[i].label # x[2]
    BY <1>t, <2>2, DecidedReplaces
  <2> HIDE DEF q
  <2>4. RowsStay(C!Rewritten(q)) /\ OneRowEach(q.added)
    BY <1>t, <2>3, RewrittenStay DEF Replaces
  <2>5. \A x \in q.added : \A i \in C!Lines(x[1]) : items[i].label # x[2]
    BY <2>3
  <2> QED BY <1>t, <2>1, <2>4, <2>5, Rewrites
<1>6. ASSUME UNCHANGED <<items, crossed>>
      PROVE  /\ items' \in [ItemId -> C!Item \cup {C!Gone}] /\ LinesStay /\ C!OneLineOnce'
             /\ crossed \subseteq crossed' /\ crossed' \subseteq C!Sheet
  BY <1>6, <1>t, NothingMoves DEF OneLineOnce, C!OneLineOnce, C!Lines, C!Exists
<1> QED
  BY <1>1, <1>2, <1>3, <1>4, <1>5, <1>6
  DEF C!Next, C!BeginReplace, C!BeginSync, C!BeginInspect, C!CommitInspect, C!Abandon,
      C!ListChecklists, C!SetActive, C!SetVariant
LEMMA ChecklistsStep == ChecklistInv /\ [C!Next]_(C!vars) => ChecklistInv'
<1> C!ChecklistAssumption
  BY RecordsAssumption
<1> SUFFICES ASSUME ChecklistInv, [C!Next]_(C!vars) PROVE ChecklistInv'
  OBVIOUS
<1>t. /\ C!TypeOK /\ AnsweredExist
      /\ sheets \subseteq C!Sheet /\ inspections \in [InspectionId -> C!Inspection \cup {C!Gone}]
      /\ variant \in [Bus -> Variant \cup {C!None}] /\ outOfFleet \subseteq Bus
      /\ head \in 0..Migrations /\ changes \in 0..MaxChanges
      /\ asked = [r \in Request |-> asked[r]]
  BY DEF ChecklistInv, C!TypeOK
<1>w. ASSUME changes < MaxChanges, changes' = changes + 1 PROVE changes' \in 0..MaxChanges
  BY <1>t, <1>w DEF C!ChecklistAssumption
<1>r. ASSUME C!Next
      PROVE  /\ items' \in [ItemId -> C!Item \cup {C!Gone}] /\ LinesStay /\ C!OneLineOnce'
             /\ crossed' \subseteq C!Sheet
  BY <1>r, RowsStep
<1>1. ASSUME NEW r \in Request, NEW s \in C!Sheet, NEW sent \in SentForms,
             C!BeginReplace(r, s, sent)
      PROVE  ChecklistInv'
  <2> DEFINE q == C!Decided(s, sent)
  <2>1. asked' = [asked EXCEPT ![r] = q]
    BY <1>1 DEF C!BeginReplace
  <2>2. Replaces(q) /\ q.kind = "replace"
    BY <1>t, DecidedReplaces DEF C!ChecklistAssumption
  <2> HIDE DEF q
  <2>3. UNCHANGED <<sheets, items, inspections, variant, outOfFleet, head, crossed>>
    BY <1>1 DEF C!BeginReplace
  <2>4. changes' \in 0..MaxChanges
    BY <1>1, <1>w DEF C!BeginReplace, C!Start
  <2>5. asked'[r] = q /\ asked' = [p \in Request |-> asked'[p]]
        /\ \A p \in Request \ {r} : asked'[p] = asked[p]
    BY <2>1, Asks
  <2>6. Decides(r)'
    BY <2>2, <2>3, <2>5 DEF Decides, Replaces, C!Exists
  <2> QED BY <2>3, <2>4, <2>5, <2>6, Begins
<1>2. ASSUME NEW r \in Request, C!BeginSync(r) PROVE ChecklistInv'
  <2> DEFINE q == [kind |-> "sync", made |-> C!Shipped \ sheets, blank |-> C!Blank(C!Shipped),
                   added |-> UNION {C!LinesOf(C!Blank(C!Shipped), m) : m \in 1..Migrations + 1}]
  <2>1. asked' = [asked EXCEPT ![r] = q]
    BY <1>2 DEF C!BeginSync
  <2>2. C!Shipped \subseteq C!Sheet
    BY DEF C!Shipped, C!ChecklistAssumption
  <2>3. C!Blank(C!Shipped) \subseteq C!Sheet
    BY <2>2 DEF C!Blank
  <2>4. /\ OneRowEach(q.added)
        /\ \A x \in q.added : x[1] \in q.blank
    <3> DEFINE S == C!Blank(C!Shipped)
               M == 1..Migrations + 1
    <3>1. M \in SUBSET (1..Migrations + 1)
      OBVIOUS
    <3>2. /\ OneRowEach(UNION {C!LinesOf(S, m) : m \in M})
          /\ \A x \in UNION {C!LinesOf(S, m) : m \in M} : x[1] \in S
      <4> HIDE DEF S, M
      <4> QED BY <3>1, ShippedOnce
    <3> QED BY <3>2
  <2>5. Syncs(q) /\ q.kind = "sync"
    BY <2>2, <2>3, <2>4 DEF Syncs
  <2> HIDE DEF q
  <2>6. UNCHANGED <<sheets, items, inspections, variant, outOfFleet, head, crossed>>
    BY <1>2 DEF C!BeginSync
  <2>7. changes' \in 0..MaxChanges
    BY <1>2, <1>w DEF C!BeginSync, C!Start
  <2>8. asked'[r] = q /\ asked' = [p \in Request |-> asked'[p]]
        /\ \A p \in Request \ {r} : asked'[p] = asked[p]
    BY <2>1, Asks
  <2>9. Decides(r)'
    BY <2>5, <2>8 DEF Decides, Syncs
  <2> QED BY <2>6, <2>7, <2>8, <2>9, Begins
<1>3. ASSUME NEW r \in Request, NEW d \in InspectionDay, NEW km \in Rung \cup {C!None},
             NEW B \in SUBSET Bus \ {{}},
             NEW book \in [B -> UNION {[J -> C!Result] : J \in SUBSET {i \in ItemId : C!Exists(i)}}],
             C!BeginInspect(r, d, km, book)
      PROVE  ChecklistInv'
  <2> DEFINE q == [kind |-> "inspect", day |-> d, book |-> book,
                   made |-> {C!SheetFor(b, km) : b \in DOMAIN book} \ sheets]
  <2>1. asked' = [asked EXCEPT ![r] = q]
    BY <1>3 DEF C!BeginInspect
  <2>2. DOMAIN book = B /\ B \subseteq Bus
    OBVIOUS
  <2>3. \A b \in B : book[b] \in C!Answers
    BY DEF C!Answers
  <2>4. {C!SheetFor(b, km) : b \in DOMAIN book} \subseteq C!Sheet
    BY <1>t, <2>2, SheetForABus
  <2>5. Inspects(q) /\ q.kind = "inspect"
    BY <2>2, <2>3, <2>4 DEF Inspects
  <2> HIDE DEF q
  <2>6. UNCHANGED <<sheets, items, inspections, variant, outOfFleet, head, crossed>>
    BY <1>3 DEF C!BeginInspect
  <2>7. changes' \in 0..MaxChanges
    BY <1>3, <1>w DEF C!BeginInspect, C!Start
  <2>8. asked'[r] = q /\ asked' = [p \in Request |-> asked'[p]]
        /\ \A p \in Request \ {r} : asked'[p] = asked[p]
    BY <2>1, Asks
  <2>9. Decides(r)'
    BY <2>5, <2>8 DEF Decides, Inspects
  <2> QED BY <2>6, <2>7, <2>8, <2>9, Begins
<1>4. ASSUME NEW r \in Request, C!CommitReplace(r) \/ C!CommitSync(r) PROVE ChecklistInv'
  <2>1. C!Next
    BY <1>4 DEF C!Next
  <2>2. asked[r].made \subseteq C!Sheet
    BY <1>4 DEF C!CommitReplace, C!CommitSync, ChecklistInv, Decides, Replaces, Syncs
  <2>3. /\ sheets' = sheets \cup asked[r].made /\ C!Finish(r)
        /\ UNCHANGED <<inspections, variant, outOfFleet, head, changes>>
    BY <1>4 DEF C!CommitReplace, C!CommitSync
  <2>4. C!TypeOK'
    BY <1>t, <1>r, <2>1, <2>2, <2>3 DEF C!TypeOK
  <2> QED BY <1>r, <2>1, <2>3, <2>4, Finishes, ChecklistsTo
<1>5. ASSUME NEW r \in Request, C!CommitInspect(r) PROVE ChecklistInv'
  <2>1. C!Next
    BY <1>5 DEF C!Next
  <2>2. asked[r].made \subseteq C!Sheet
    BY <1>5 DEF C!CommitInspect, ChecklistInv, Decides, Inspects
  <2>3. /\ sheets' = sheets \cup asked[r].made /\ C!Finish(r)
        /\ UNCHANGED <<items, variant, outOfFleet, head, crossed, changes>>
    BY <1>5 DEF C!CommitInspect
  <2>4. inspections' \in [InspectionId -> C!Inspection \cup {C!Gone}] /\ AnsweredExist'
    BY <1>5, Inspected
  <2>5. C!TypeOK'
    BY <1>t, <1>r, <2>1, <2>2, <2>3, <2>4 DEF C!TypeOK
  <2>6. \A p \in Request : Decides(p)'
    BY <1>r, <2>1, <2>3, Finishes, StaysDecided DEF ChecklistInv
  <2> QED BY <1>r, <2>1, <2>3, <2>4, <2>5, <2>6, Finishes DEF ChecklistInv
<1>6. ASSUME NEW r \in Request, C!Abandon(r) PROVE ChecklistInv'
  <2>1. C!Next
    BY <1>6 DEF C!Next
  <2>2. C!Finish(r)
        /\ UNCHANGED <<sheets, inspections, variant, outOfFleet, head, changes>>
    BY <1>6 DEF C!Abandon
  <2>3. C!TypeOK'
    BY <1>t, <1>r, <2>1, <2>2 DEF C!TypeOK
  <2> QED BY <1>r, <2>1, <2>2, <2>3, Finishes, ChecklistsTo
<1>7. ASSUME C!Next, UNCHANGED <<inspections, asked>>, sheets' \subseteq C!Sheet,
             variant' \in [Bus -> Variant \cup {C!None}], outOfFleet' \subseteq Bus,
             head' \in 0..Migrations, changes' \in 0..MaxChanges
      PROVE  ChecklistInv'
  <2>1. C!TypeOK'
    BY <1>7, <1>t, <1>r DEF C!TypeOK
  <2> QED BY <1>7, <1>t, <1>r, <2>1, ChecklistsTo
<1>8. ASSUME C!Upgrade PROVE ChecklistInv'
  <2>1. C!Next
    BY <1>8 DEF C!Next
  <2>2. head' = head + 1 /\ head + 1 <= Migrations /\ sheets' = sheets \cup DOMAIN Catalogue[head + 1]
        /\ UNCHANGED <<inspections, variant, outOfFleet, asked, changes>>
    BY <1>8 DEF C!Upgrade
  <2>3. head' \in 0..Migrations /\ head + 1 \in 1..Migrations + 1
    BY <1>t, <2>2 DEF C!ChecklistAssumption
  <2>4. sheets' \subseteq C!Sheet
    BY <1>t, <2>2, <2>3 DEF C!ChecklistAssumption
  <2> QED BY <1>7, <1>t, <2>1, <2>2, <2>3, <2>4
<1>9. ASSUME C!Downgrade PROVE ChecklistInv'
  <2>1. C!Next
    BY <1>9 DEF C!Next
  <2>2. head' = head - 1 /\ head > 0
        /\ UNCHANGED <<sheets, inspections, variant, outOfFleet, asked, changes>>
    BY <1>9 DEF C!Downgrade
  <2>3. head' \in 0..Migrations
    BY <1>t, <2>2 DEF C!ChecklistAssumption
  <2> QED BY <1>7, <1>t, <2>1, <2>2, <2>3
<1>10. ASSUME NEW v \in Variant, NEW L \in SUBSET Label, NEW B \in SUBSET Bus,
              C!SeedWorkbook(v, L, B)
       PROVE  ChecklistInv'
  <2>1. C!Next
    BY <1>10 DEF C!Next
  <2>2. /\ sheets' = sheets \cup {[variant |-> v, km |-> C!None]}
        /\ variant' = [b \in Bus |-> IF b \in B THEN v ELSE variant[b]]
        /\ UNCHANGED <<inspections, outOfFleet, head, asked>>
    BY <1>10 DEF C!SeedWorkbook
  <2>3. changes' \in 0..MaxChanges
    BY <1>10, <1>w DEF C!SeedWorkbook
  <2>4. [variant |-> v, km |-> C!None] \in C!Sheet
    BY DEF C!Sheet
  <2>5. variant' \in [Bus -> Variant \cup {C!None}]
    BY <1>t, <2>2
  <2> QED BY <1>7, <1>t, <2>1, <2>2, <2>3, <2>4, <2>5
<1>11. ASSUME C!ListChecklists PROVE ChecklistInv'
  <2>1. C!Next
    BY <1>11 DEF C!Next
  <2>2. sheets' \subseteq C!Sheet
    BY <1>11, <1>t DEF C!ListChecklists, C!AllSheets, C!Sheet
  <2> QED BY <1>7, <1>11, <1>t, <2>1, <2>2 DEF C!ListChecklists
<1>12. ASSUME NEW b \in Bus, C!SetActive(b) \/ \E v \in Variant \cup {C!None} : C!SetVariant(b, v)
       PROVE  ChecklistInv'
  <2>1. C!Next
    BY <1>12 DEF C!Next
  <2>2. UNCHANGED <<sheets, items, inspections, head, asked, crossed>>
    BY <1>12 DEF C!SetActive, C!SetVariant
  <2>3. changes' \in 0..MaxChanges
    BY <1>12, <1>w DEF C!SetActive, C!SetVariant
  <2>4. variant' \in [Bus -> Variant \cup {C!None}] /\ outOfFleet' \subseteq Bus
    BY <1>12, <1>t DEF C!SetActive, C!SetVariant
  <2> QED BY <1>7, <1>t, <2>1, <2>2, <2>3, <2>4
<1>13. CASE UNCHANGED C!vars
  <2>1. UNCHANGED <<sheets, items, inspections, variant, outOfFleet, head, asked, crossed, changes>>
    BY <1>13 DEF C!vars
  <2>2. C!TypeOK' /\ C!OneLineOnce'
    BY <2>1 DEF ChecklistInv, C!TypeOK, OneLineOnce, C!OneLineOnce, C!Lines, C!Exists
  <2> QED BY <1>t, <2>1, <2>2, NothingMoves, ChecklistsTo
<1> QED
  BY <1>1, <1>2, <1>3, <1>4, <1>5, <1>6, <1>8, <1>9, <1>10, <1>11, <1>12, <1>13 DEF C!Next

\* No inspection is changed by a step, and the lines it answers stay.
LEMMA RecordedStay ==
  ASSUME C!ChecklistAssumption, ChecklistInv, C!Next
  PROVE  LinesStay /\ \A n \in C!Recorded : inspections'[n] = inspections[n]
<1>1. \A n \in C!Recorded : inspections'[n] = inspections[n]
  <2>1. ASSUME NEW r \in Request, C!CommitInspect(r)
        PROVE  \A n \in C!Recorded : inspections'[n] = inspections[n]
    BY <2>1, Inspected
  <2>2. CASE UNCHANGED inspections
    BY <2>2
  <2> QED
    BY <2>1, <2>2
    DEF C!Next, C!BeginReplace, C!CommitReplace, C!BeginSync, C!CommitSync, C!BeginInspect,
        C!Abandon, C!Upgrade, C!Downgrade, C!SeedWorkbook, C!ListChecklists, C!SetActive,
        C!SetVariant
<1> QED BY <1>1, RowsStep

LEMMA AnswerIsAnswered ==
  ASSUME NEW n \in C!Recorded, NEW i \in DOMAIN inspections[n].answers PROVE i \in C!Answered
BY DEF C!Answered

\* The results of an inspection keep pointing at the line that was answered, with
\* its wording and on its sheet, whoever rewrites or withdraws the sheet meanwhile.
THEOREM AnswersStayPut == C!Spec => AnswersKeepTheirLine
<1> C!ChecklistAssumption
  BY RecordsAssumption
<1> DEFINE Kept(n) ==
      /\ inspections'[n] = inspections[n]
      /\ \A i \in DOMAIN inspections[n].answers :
           C!Exists(i)' /\ items'[i].label = items[i].label /\ items'[i].sheet = items[i].sheet
<1>1. ASSUME ChecklistInv, C!Next, NEW n \in C!Recorded PROVE Kept(n)
  <2>1. LinesStay /\ inspections'[n] = inspections[n]
    BY <1>1, RecordedStay
  <2>2. ASSUME NEW i \in DOMAIN inspections[n].answers
        PROVE  C!Exists(i)' /\ items'[i].label = items[i].label /\ items'[i].sheet = items[i].sheet
    <3>1. i \in C!Answered /\ i \in ItemId /\ C!Exists(i) /\ i \notin C!Unused
      BY <1>1, AnswerIsAnswered DEF ChecklistInv, AnsweredExist, C!Unused
    <3> QED BY <2>1, <3>1 DEF LinesStay
  <2> QED BY <2>1, <2>2
<1>2. ChecklistInv /\ [C!Next]_(C!vars) => [\A n \in C!Recorded : Kept(n)]_(C!vars)
  BY <1>1
<1> QED BY <1>2, ChecklistsInit, ChecklistsStep, PTL
       DEF C!Spec, AnswersKeepTheirLine, C!AnswersKeepTheirLine

\* A tick of a chart goes only when the nomination is taken off a line that stays on
\* its sheet; taking the line off the sheet keeps the past.
THEOREM TicksStay == C!Spec => TicksOutliveTheSheet
<1> C!ChecklistAssumption
  BY RecordsAssumption
<1> DEFINE Kept ==
      C!Ticks \ C!Ticks' # {} =>
        \E i \in ItemId : /\ C!Exists(i) /\ items[i].line.keyed
                          /\ C!Exists(i)' /\ items'[i].active /\ ~items'[i].line.keyed
<1>1. ASSUME ChecklistInv, C!Next PROVE Kept
  <2> SUFFICES ASSUME C!Ticks \ C!Ticks' # {}
               PROVE  \E i \in ItemId : /\ C!Exists(i) /\ items[i].line.keyed
                                        /\ C!Exists(i)' /\ items'[i].active
                                        /\ ~items'[i].line.keyed
    OBVIOUS
  <2>1. PICK n \in C!Recorded :
          C!Tells(n) # {} /\ <<inspections[n].bus, inspections[n].day>> \notin C!Ticks'
    BY DEF C!Ticks
  <2>2. LinesStay /\ inspections'[n] = inspections[n] /\ n \in C!Recorded'
    BY <1>1, <2>1, RecordedStay DEF C!Recorded
  <2>3. C!Tells(n)' = {}
    BY <2>1, <2>2 DEF C!Ticks
  <2>4. PICK i \in DOMAIN inspections[n].answers :
          items[i].line.keyed /\ inspections[n].answers[i] # "na"
    BY <2>1 DEF C!Tells
  <2>5. ~items'[i].line.keyed
    BY <2>2, <2>3, <2>4 DEF C!Tells
  <2>6. i \in C!Answered /\ i \in ItemId /\ C!Exists(i) /\ i \notin C!Unused
    BY <1>1, <2>1, AnswerIsAnswered DEF ChecklistInv, AnsweredExist, C!Unused
  <2>7. C!Exists(i)' /\ (items'[i].active \/ items'[i].line = items[i].line)
    BY <2>2, <2>6 DEF LinesStay
  <2> QED BY <2>4, <2>5, <2>6, <2>7
<1>2. ChecklistInv /\ [C!Next]_(C!vars) => [Kept]_(C!vars)
  BY <1>1
<1> QED BY <1>2, ChecklistsInit, ChecklistsStep, PTL
       DEF C!Spec, TicksOutliveTheSheet, C!TicksOutliveTheSheet

\* Unless two requests crossed on it, a sheet has one row for a wording, in use or
\* retired: a line that comes back is the line that was answered.
THEOREM LinesAreOnce == C!Spec => []OneLineOnce
<1>1. ChecklistInv => OneLineOnce
  BY DEF ChecklistInv, OneLineOnce
<1> QED BY <1>1, ChecklistsInit, ChecklistsStep, PTL DEF C!Spec

-----------------------------------------------------------------------------
(* The components side by side.                                            *)

\* What a component keeps by itself it keeps while the others move.
THEOREM RecordsAreApart == RecordsSpec => Spec /\ I!Spec /\ R!Spec /\ C!Spec
<1>1. RecordsInit => Init /\ I!Init /\ R!Init /\ C!Init
  BY DEF RecordsInit
<1>2. [RecordsNext]_recordVars =>
        [Next]_vars /\ [I!Next]_(I!vars) /\ [R!Next]_(R!vars) /\ [C!Next]_(C!vars)
  <2> USE DEF unitVars, checklistVars, registerVars, inboxVars, vars, I!vars, R!vars, C!vars
  <2>1. CASE UNCHANGED recordVars
    BY <2>1 DEF recordVars
  <2>2. CASE RecordsNext
    BY <2>2, Zenon DEF RecordsNext
  <2> QED BY <2>1, <2>2
<1> QED BY <1>1, <1>2, PTL DEF RecordsSpec, Spec, I!Spec, R!Spec, C!Spec
=============================================================================
