---------------------------- MODULE FittedUnits ----------------------------
(***************************************************************************)
(* A unit's stay on a bus, from the day it is fitted to the day it is      *)
(* removed, with the odometer at both ends.  The failure statement of a    *)
(* month and the history card of a bus are both read off the stays.        *)
(*                                                                         *)
(* Fitting and removing are requests beside those of Odometer: they load   *)
(* the bus and its stays, decide, and commit later.                        *)
(***************************************************************************)
EXTENDS Odometer

CONSTANTS
  Unit,        \* unit types
  StayId,      \* bound: rows fitted_units may hold
  MaxDay,      \* bound: the last day a form may name
  MonthDays,   \* days of a month
  Typed        \* readings a form may give; NoKm leaves it to the odometer

ASSUME UnitAssumption ==
  MaxDay \in Nat \ {0} /\ MonthDays \in Nat \ {0} /\ Typed \subseteq Km \cup {NoKm}

Day     == 1..MaxDay
NoDate  == 0
NoStay  == [bus |-> "none"]
Reading == Km \cup {NoKm}
\* `typed`: a person gave one of the two readings; otherwise both are the
\* odometer's.
Stay ==
  [bus : Bus, unit : Unit, on : Day, onKm : Reading,
   off : Day \cup {NoDate}, offKm : Reading, typed : BOOLEAN]

VARIABLE stays     \* fitted_units

vars == <<row, history, due, scan, txn, raced, work, stays>>

FitTxn == [kind : {"fit"}, was : [Bus -> Row], seen : SUBSET StayId, now : Stay]
RemoveTxn == [kind : {"remove"}, was : [Bus -> Row], id : StayId, old : Stay, now : Stay]
UnitsTypeOK ==
  /\ OdometerTypeOK
  /\ stays \in [StayId -> Stay \cup {NoStay}]
  /\ \A t \in Txn \cup {Scan} :
       txn[t] \in {Free} \cup ReadingTxn \cup FitTxn \cup RemoveTxn

Held(i) == stays[i] # NoStay
IsFitted(i) == Held(i) /\ stays[i].off = NoDate
FittedTo(b, u) == {i \in StayId : IsFitted(i) /\ stays[i].bus = b /\ stays[i].unit = u}

\* _reading: unknown, not 0, until the bus has been read.
ReadingOf(b) == IF row[b].read THEN row[b].km ELSE NoKm

\* fit_unit's look-up; no unique key stands behind it.
FreeFor(b, u, d) == FittedTo(b, u) = {}

BeginFit(t, b, u, d, k) ==
  /\ Start
  /\ txn[t] = Free
  /\ FreeFor(b, u, d)
  /\ txn' = [txn EXCEPT ![t] =
       [kind |-> "fit", was |-> row, seen |-> FittedTo(b, u),
        now |-> [bus |-> b, unit |-> u, on |-> d,
                 onKm |-> IF k # NoKm THEN k ELSE ReadingOf(b),
                 off |-> NoDate, offKm |-> NoKm, typed |-> k # NoKm]]]
  /\ UNCHANGED <<odometerVars, raced, stays>>

\* The stay is raced when the bus was read or fitted in between.
CommitFit(t) ==
  /\ txn[t].kind = "fit"
  /\ \E i \in StayId : ~Held(i)
  /\ stays' = [stays EXCEPT ![CHOOSE i \in StayId : ~Held(i)] = txn[t].now]
  /\ LET q == txn[t]
         b == q.now.bus
     IN  raced' = IF row[b] # q.was[b] \/ FittedTo(b, q.now.unit) # q.seen
                    THEN raced \cup {b} ELSE raced
  /\ txn' = [txn EXCEPT ![t] = Free]
  /\ UNCHANGED <<odometerVars, work>>

\* The endpoint refuses a stay that is over, remove_unit a date before it began.
Removable(i, d) == IsFitted(i) /\ d >= stays[i].on

BeginRemove(t, i, d, k) ==
  /\ Start
  /\ txn[t] = Free
  /\ Removable(i, d)
  /\ txn' = [txn EXCEPT ![t] =
       [kind |-> "remove", was |-> row, id |-> i, old |-> stays[i],
        now |-> [stays[i] EXCEPT !.off = d,
                   !.offKm = IF k # NoKm THEN k ELSE ReadingOf(stays[i].bus),
                   !.typed = @ \/ k # NoKm]]]
  /\ UNCHANGED <<odometerVars, raced, stays>>

CommitRemove(t) ==
  /\ txn[t].kind = "remove"
  /\ LET q == txn[t]
         b == q.now.bus
         s == stays[q.id]
     IN  /\ stays' = [stays EXCEPT ![q.id] =
              [s EXCEPT !.off = q.now.off, !.typed = @ \/ q.now.typed,
                        !.offKm = Column(q.old.offKm, q.now.offKm, @)]]
         /\ raced' = IF row[b] # q.was[b] \/ s # q.old
                       THEN raced \cup {b} ELSE raced
  /\ txn' = [txn EXCEPT ![t] = Free]
  /\ UNCHANGED <<odometerVars, work>>

-----------------------------------------------------------------------------
(* The two views.  An event is an end of a stay.                           *)
MonthOf(d) == (d - 1) \div MonthDays
Month == {MonthOf(d) : d \in Day}

Statement(m) == {i \in StayId : Held(i) /\ ~IsFitted(i) /\ MonthOf(stays[i].off) = m}

Fits(b, u, m) ==
  {i \in StayId : Held(i) /\ stays[i].bus = b /\ stays[i].unit = u
                  /\ MonthOf(stays[i].on) = m}
Removals(b, u, m) ==
  {i \in Statement(m) : stays[i].bus = b /\ stays[i].unit = u}
\* history: two events of one month are written as one block.
CardCell(b, u, m) ==
  LET n == Cardinality(Fits(b, u, m)) + Cardinality(Removals(b, u, m))
  IN  IF n = 0 THEN "empty"
      ELSE IF n > 1 THEN "replaced"
      ELSE IF Fits(b, u, m) # {} THEN "fitted" ELSE "removed"
FittedNow(b, u) == FittedTo(b, u) # {}

Larger(m, n) == IF m > n THEN m ELSE n
KmsCovered(i) ==
  IF stays[i].onKm = NoKm \/ stays[i].offKm = NoKm THEN NoKm
  ELSE Larger(stays[i].offKm - stays[i].onKm, 0)

-----------------------------------------------------------------------------
Init == OdometerInit /\ stays = [i \in StayId |-> NoStay]

Next ==
  \/ OdometerNext /\ UNCHANGED stays
  \/ \E t \in Txn :
       \/ \E b \in Bus, u \in Unit, d \in Day, k \in Typed : BeginFit(t, b, u, d, k)
       \/ \E i \in StayId, d \in Day, k \in Typed : BeginRemove(t, i, d, k)
       \/ CommitFit(t)
       \/ CommitRemove(t)

Spec == Init /\ [][Next]_vars

\* max_instances=1: nothing holds up the one task of the scan.
FairSpec == Spec /\ WF_vars(ScanStep /\ UNCHANGED stays)

-----------------------------------------------------------------------------
OdometerNeverRunsBack == [][\A b \in Bus : NeverBackUnlessRaced(b)]_vars

\* "Record its removal first": a bus carries one unit of a type at a time,
\* unless two requests on that bus raced; no unique key says so.
OneUnitOfAType ==
  \A b \in Bus \ raced : \A u \in Unit : Cardinality(FittedTo(b, u)) <= 1

\* What the failure statement of a month says stays: a stay that ended is
\* never changed, unless two removals of it raced.
RemovedStaysRemoved ==
  [][\A i \in StayId :
       Held(i) /\ ~IsFitted(i) /\ stays'[i] # stays[i] => stays[i].bus \in raced']_vars

\* A life measured by the odometer alone is a real one: the clamp at zero in
\* kms_covered never bites, because no odometer ran back between the fitting
\* and the removal.
LifeIsMeasured ==
  \A i \in StayId :
    /\ Held(i) /\ ~IsFitted(i) /\ ~stays[i].typed
    /\ stays[i].bus \notin raced /\ KmsCovered(i) # NoKm
    => KmsCovered(i) = stays[i].offKm - stays[i].onKm

\* "An unknown life is not a life of zero": a reading taken from the bus is
\* one the bus really had.
ReadingsAreRecorded ==
  \A i \in StayId : Held(i) /\ ~stays[i].typed =>
    {stays[i].onKm, stays[i].offKm} \subseteq history[stays[i].bus] \cup {NoKm}

\* "The two can never disagree": every removal on a month's statement is on
\* the card of its bus, and a card shows none the statement has not.
CardAgreesWithStatement ==
  \A m \in Month, b \in Bus, u \in Unit :
    /\ (\E i \in Statement(m) : stays[i].bus = b /\ stays[i].unit = u)
         => CardCell(b, u, m) \in {"removed", "replaced"}
    /\ CardCell(b, u, m) = "removed"
         => \E i \in Statement(m) : stays[i].bus = b /\ stays[i].unit = u

\* "'replaced' when both happened that month."
ReplacedIsBoth ==
  \A m \in Month, b \in Bus, u \in Unit :
    CardCell(b, u, m) = "replaced" => Fits(b, u, m) # {} /\ Removals(b, u, m) # {}
=============================================================================
