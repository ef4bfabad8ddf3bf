----------------------------- MODULE Migrations -----------------------------
(***************************************************************************)
(* The migrations that rewrite data, 0024 to 0043, run up and down over a  *)
(* database that a depot has been writing to.  An older revision holds the *)
(* same facts in another form: a driver as text or as a row, spare parts   *)
(* as text or as a catalogue, one photo or many, a breakdown with or       *)
(* without a ticket, a work type that routes by its code or by a kind.     *)
(*                                                                         *)
(* The application writes at the newest revision only; what it wrote at    *)
(* older ones is in Init.  One site; breakdowns stand for all registers,   *)
(* and texts are compared as the migrations strip them.                    *)
(***************************************************************************)
EXTENDS Integers, FiniteSets, FiniteSetsExt

CONSTANTS
  Breakdown,     \* numbers, in the order of created_at
  Check,         \* failed checks of inspections
  Day, YearOf,   \* YearOf \in [Day -> Int]
  Text, Lower,   \* what was typed for a driver, and its lower case
  Driver,        \* ids of drivers rows
  Part, Photo,   \* photos are numbers, in the order of created_at
  WorkType, Code,
  KindOf,        \* the codes that once decided the kind of a ticket: 1, 2, ...
  None,
  MaxWork        \* bound: requests to the application

OfEntry == 0   \* the kind of a breakdown's ticket
SourceKind == {KindOf[c] : c \in DOMAIN KindOf}   \* numbers, in the order of _BACKFILL
Year == {YearOf[d] : d \in Day}
Revision == {23, 24, 25, 29, 30, 31, 32, 33, 34, 35, 36, 37, 40, 43}
Newest == 43

VARIABLES
  rev,   \* alembic_version
  db,    \* the tables, see Database
  work
vars == <<rev, db, work>>

Legacy(d) == <<"LEGACY", d>>
DriverCode == Text \cup {Legacy(d) : d \in Driver}
Fold(c) == IF c \in Text THEN Lower[c] ELSE c
Number == Year \X (Nat \ {0})

\* `driver` is what breakdown_entries.driver_id holds: text below 34, then a row.
Fault == [day : Day, resolved : BOOLEAN, driver : DriverCode \cup Driver \cup {None},
          number : Number \cup {None}, photos : SUBSET Photo]
Ticket == [done : BOOLEAN, kind : SourceKind \cup {None, OfEntry}, number : Number \cup {None}]
Database ==
  [fault   : [Breakdown -> Fault \cup {None}],
   ticket  : [Breakdown \cup Check -> Ticket \cup {None}],
   session : [ticket : Breakdown \cup {None}, parts : SUBSET Part],
   stock   : SUBSET Part,
   driver  : [Driver -> [code : DriverCode, name : DriverCode] \cup {None}],
   next    : [{"entry", "ticket"} \X Year -> Nat],      \* 0: no row
   type    : [WorkType -> [code : Code, kind : SourceKind \cup {None}]],
   failed  : [Check -> WorkType \cup {None}]]

TypeOK == rev \in Revision /\ db \in Database /\ work \in 0..MaxWork

\* The ids and texts of one table are nobody else's, and NULL is none of them.
MigrationsAssumption ==
  /\ IsFiniteSet(Breakdown) /\ Breakdown \subseteq Int /\ Breakdown \cap Check = {}
  /\ Day \subseteq Int /\ YearOf \in [Day -> Int]
  /\ Lower \in [Text -> Text]
  /\ Photo \subseteq Nat /\ Photo # {}
  /\ \A c \in DOMAIN KindOf : KindOf[c] \in Nat \ {0}
  /\ None \notin Driver /\ None \notin DriverCode /\ None \notin WorkType
  /\ None \notin SourceKind /\ None \notin Number
  /\ None \notin Fault /\ None \notin Ticket
  /\ None \notin [code : DriverCode, name : DriverCode]

Filed == {b \in Breakdown : db.fault[b] # None}
Naming == {b \in Filed : db.fault[b].driver # None}
Rows == {d \in Driver : db.driver[d] # None}

-----------------------------------------------------------------------------
(* Up, in order.  Each is the database after the migration.                *)
NoTicket == [t \in Breakdown \cup Check |-> None]
Up24 == [db EXCEPT !.ticket = NoTicket]
Up25 == [db EXCEPT !.session.ticket = None]

\* A ticket for every breakdown that has none, as far along as the breakdown.
Backfilled(b) == [done |-> db.fault[b].resolved, kind |-> None, number |-> None]
Up29 == [db EXCEPT !.ticket = [t \in Breakdown \cup Check |->
           IF t \in Filed /\ db.ticket[t] = None THEN Backfilled(t) ELSE db.ticket[t]]]

Up30 == [db EXCEPT !.ticket = [t \in Breakdown \cup Check |->
           IF db.ticket[t] = None THEN None ELSE [db.ticket[t] EXCEPT !.kind = OfEntry]]]

Up31 == [db EXCEPT !.stock = {}]
\* Every part of the text becomes a row of the catalogue.
Up32 == [db EXCEPT !.stock = @ \cup db.session.parts]

Up33 == [db EXCEPT !.driver = [d \in Driver |-> None]]
\* One row per text, under that text unless a driver has it already, capitals
\* aside: one the table had, or the text first met of those that differ in them.
Texts == {db.fault[b].driver : b \in Naming}
\* An id is a uuid: no code anywhere was made of it.
Fresh(d) ==
  d \notin Rows /\ Legacy(d) \notin Texts \cup UNION {{db.driver[e].code, db.driver[e].name} : e \in Rows}
Assignments == {f \in [Texts -> {d \in Driver : Fresh(d)}] : \A x, y \in Texts : x # y => f[x] # f[y]}
Firsts == {F \in SUBSET Texts :
             \A x \in Texts : Cardinality({y \in F : Fold(y) = Fold(x)}) = 1}
Taken(first, x) == x \notin first \/ \E d \in Rows : Fold(db.driver[d].code) = Fold(x)
Up34(at, first) ==
  LET text(d) == CHOOSE x \in Texts : at[x] = d
      made == {at[x] : x \in Texts}
  IN  [db EXCEPT
         !.driver = [d \in Driver |->
            IF d \notin made THEN db.driver[d]
            ELSE [code |-> IF Taken(first, text(d)) THEN Legacy(d) ELSE text(d),
                  name |-> text(d)]],
         !.fault = [b \in Breakdown |->
            IF b \in Naming THEN [db.fault[b] EXCEPT !.driver = at[db.fault[b].driver]]
            ELSE db.fault[b]]]

Up35 == [db EXCEPT !.next = [k \in {"entry", "ticket"} \X Year |-> 0]]

\* Numbers by year, in the order of (entry_date, created_at); the counter of a
\* year that has rows is set one past them.
Earlier(a, b) ==
  \/ db.fault[a].day < db.fault[b].day
  \/ db.fault[a].day = db.fault[b].day /\ a < b
YearIn(b) == YearOf[db.fault[b].day]
OfYear(B, y) == {b \in B : YearIn(b) = y}
Rank(B, b) == Cardinality({a \in OfYear(B, YearIn(b)) : a = b \/ Earlier(a, b)})
\* Broken: the counter is set to the last number given out.
CountedLast(table, B) ==
  [k \in DOMAIN db.next |->
     IF k[1] = table /\ OfYear(B, k[2]) # {} THEN Cardinality(OfYear(B, k[2])) ELSE db.next[k]]
Counted(table, B) ==
  [k \in DOMAIN db.next |->
     IF k[1] = table /\ OfYear(B, k[2]) # {} THEN Cardinality(OfYear(B, k[2])) + 1
     ELSE db.next[k]]
Up36 ==
  [db EXCEPT
     !.fault = [b \in Breakdown |-> IF b \in Filed
        THEN [db.fault[b] EXCEPT !.number = <<YearIn(b), Rank(Filed, b)>>] ELSE None],
     !.next = Counted("entry", Filed)]
Ticketed == {b \in Filed : db.ticket[b] # None}
Up37 ==
  [db EXCEPT
     !.ticket = [t \in Breakdown \cup Check |-> IF t \in Ticketed
        THEN [db.ticket[t] EXCEPT !.number = <<YearIn(t), Rank(Ticketed, t)>>] ELSE db.ticket[t]],
     !.next = Counted("ticket", Ticketed)]

Up40 == db   \* the photo of an entry becomes the first of its photos

\* By code, then by the tickets it raised, in the order of the kinds.
Minted(w) == {db.ticket[f].kind : f \in {f \in Check : db.failed[f] = w /\ db.ticket[f] # None}}
Routed(w) ==
  IF db.type[w].code \in DOMAIN KindOf THEN KindOf[db.type[w].code]
  ELSE IF Minted(w) # {} THEN Min(Minted(w)) ELSE None
Up43 == [db EXCEPT !.type = [w \in WorkType |-> [db.type[w] EXCEPT !.kind = Routed(w)]]]

-----------------------------------------------------------------------------
(* Down.                                                                   *)
Down43 == [db EXCEPT !.type = [w \in WorkType |-> [db.type[w] EXCEPT !.kind = None]]]
\* The oldest photo of an entry is kept.
Down40 == [db EXCEPT !.fault = [b \in Breakdown |->
             IF b \in Filed /\ db.fault[b].photos # {}
             THEN [db.fault[b] EXCEPT !.photos = {Min(@)}] ELSE db.fault[b]]]
Down37 == [db EXCEPT !.ticket = [t \in Breakdown \cup Check |->
             IF db.ticket[t] = None THEN None ELSE [db.ticket[t] EXCEPT !.number = None]]]
Down36 == [db EXCEPT !.fault = [b \in Breakdown |->
             IF b \in Filed THEN [db.fault[b] EXCEPT !.number = None] ELSE None]]
Down35 == Up35
\* The text comes back from the code of the row.
\* Broken: from its name.
NameBack(d) == db.driver[d].name
TextBack(d) == db.driver[d].code
Down34 == [db EXCEPT !.fault = [b \in Breakdown |->
             IF b \in Naming THEN [db.fault[b] EXCEPT !.driver = TextBack(@)] ELSE db.fault[b]]]
Down33 == Up33
Down32 == [db EXCEPT !.session.parts = {}]
Down31 == Up31
\* source_entry_id must not be null again: refused while inspections have tickets.
CanDown30 == \A f \in Check : db.ticket[f] = None
Down30 == [db EXCEPT !.ticket = [t \in Breakdown \cup Check |->
             IF db.ticket[t] = None THEN None ELSE [db.ticket[t] EXCEPT !.kind = None]]]
Down29 == db   \* the tickets stay
Down25 == Up25
Down24 == Up24

Above(r) == Min({s \in Revision : s > r})
Below(r) == Max({s \in Revision : s < r})

Upgrade ==
  /\ rev # Newest
  /\ rev' = Above(rev)
  /\ \/ rev' = 24 /\ db' = Up24
     \/ rev' = 25 /\ db' = Up25
     \/ rev' = 29 /\ db' = Up29
     \/ rev' = 30 /\ db' = Up30
     \/ rev' = 31 /\ db' = Up31
     \/ rev' = 32 /\ db' = Up32
     \/ rev' = 33 /\ db' = Up33
     \/ rev' = 34 /\ \E at \in Assignments, first \in Firsts : db' = Up34(at, first)
     \/ rev' = 35 /\ db' = Up35
     \/ rev' = 36 /\ db' = Up36
     \/ rev' = 37 /\ db' = Up37
     \/ rev' = 40 /\ db' = Up40
     \/ rev' = 43 /\ db' = Up43
  /\ UNCHANGED work
Downgrade ==
  /\ rev # 23
  /\ rev' = Below(rev)
  /\ \/ rev = 24 /\ db' = Down24
     \/ rev = 25 /\ db' = Down25
     \/ rev = 29 /\ db' = Down29
     \/ rev = 30 /\ CanDown30 /\ db' = Down30
     \/ rev = 31 /\ db' = Down31
     \/ rev = 32 /\ db' = Down32
     \/ rev = 33 /\ db' = Down33
     \/ rev = 34 /\ db' = Down34
     \/ rev = 35 /\ db' = Down35
     \/ rev = 36 /\ db' = Down36
     \/ rev = 37 /\ db' = Down37
     \/ rev = 40 /\ db' = Down40
     \/ rev = 43 /\ db' = Down43
  /\ UNCHANGED work

-----------------------------------------------------------------------------
(* The application of a release.                                           *)
Writing(R) == rev \in R /\ work < MaxWork /\ work' = work + 1 /\ rev' = rev
Request == Writing({Newest})

\* allocate_display_id
Allocated(table, y) == IF db.next[<<table, y>>] = 0 THEN 1 ELSE db.next[<<table, y>>]
FileBreakdown(b, d, driver) ==
  LET y == YearOf[d]
  IN  /\ Request
      /\ \A a \in Breakdown : a < b => a \in Filed
      /\ b \notin Filed
      /\ db' = [db EXCEPT
           !.fault[b] = [day |-> d, resolved |-> FALSE, driver |-> driver,
                         number |-> <<y, Allocated("entry", y)>>, photos |-> {}],
           !.ticket[b] = [done |-> FALSE, kind |-> OfEntry,
                          number |-> <<y, Allocated("ticket", y)>>],
           !.next[<<"entry", y>>] = Allocated("entry", y) + 1,
           !.next[<<"ticket", y>>] = Allocated("ticket", y) + 1]
\* A session on the ticket completes it.
Resolve(b) ==
  /\ Request
  /\ b \in Filed /\ ~db.fault[b].resolved
  /\ db' = [db EXCEPT !.fault[b].resolved = TRUE, !.ticket[b].done = TRUE,
                      !.session.ticket = b]
\* An edit of the entry may move its date, to another year even.
MoveDate(b, d) ==
  /\ Request
  /\ b \in Filed /\ db.fault[b].day # d
  /\ db' = [db EXCEPT !.fault[b].day = d]
AddPhoto(b, p) ==
  /\ Request
  /\ b \in Filed
  /\ \A q \in UNION {db.fault[a].photos : a \in Filed} : q < p
  /\ db' = [db EXCEPT !.fault[b].photos = @ \cup {p}]
CreateDriver(d, code, name) ==
  /\ Request
  /\ d \notin Rows
  /\ \A e \in Rows : db.driver[e].code # code
  /\ db' = [db EXCEPT !.driver[d] = [code |-> code, name |-> name]]
\* A manager renames a code, as at the releases before 43.
RenameType(w, c) ==
  /\ Writing({40, Newest})
  /\ \A v \in WorkType : db.type[v].code # c
  /\ db' = [db EXCEPT !.type[w].code = c]
\* A failed check raises a ticket if its work type says of which kind; it said so
\* by its code before 43.
Route(w) == IF rev = Newest THEN db.type[w].kind
            ELSE IF db.type[w].code \in DOMAIN KindOf THEN KindOf[db.type[w].code] ELSE None
FailCheck(f, w) ==
  /\ Writing({40, Newest})
  /\ db.failed[f] = None
  /\ db' = [db EXCEPT
       !.failed[f] = w,
       !.ticket[f] = IF Route(w) = None THEN None
                     ELSE [done |-> FALSE, kind |-> Route(w), number |-> None]]

-----------------------------------------------------------------------------
\* Before tickets: breakdowns with what was typed for the driver, a session with
\* the parts it names.
OldFault == [day : Day, resolved : BOOLEAN, driver : Text \cup {None}, number : {None},
             photos : {{}} \cup {{p} : p \in {Min(Photo)}}]
Codes == {c \in [WorkType -> Code] : \A v, w \in WorkType : v # w => c[v] # c[w]}
Init ==
  /\ rev = 23
  /\ \E old \in [Breakdown -> OldFault \cup {None}], parts \in SUBSET Part, c \in Codes :
       /\ \A a, b \in Breakdown : a < b /\ old[a] = None => old[b] = None
       /\ db = [fault |-> old, ticket |-> NoTicket,
                session |-> [ticket |-> None, parts |-> parts], stock |-> {},
                driver |-> [d \in Driver |-> None],
                next |-> [k \in {"entry", "ticket"} \X Year |-> 0],
                type |-> [w \in WorkType |-> [code |-> c[w], kind |-> None]],
                failed |-> [f \in Check |-> None]]
  /\ work = 0

Next ==
  \/ Upgrade
  \/ Downgrade
  \/ \E b \in Breakdown :
       \/ \E d \in Day, driver \in Rows \cup {None} : FileBreakdown(b, d, driver)
       \/ Resolve(b)
       \/ \E d \in Day : MoveDate(b, d)
       \/ \E p \in Photo : AddPhoto(b, p)
  \/ \E d \in Driver, c, n \in Text : CreateDriver(d, c, n)
  \/ \E w \in WorkType : \E c \in Code : RenameType(w, c)
  \/ \E f \in Check, w \in WorkType : FailCheck(f, w)

Spec == Init /\ [][Next]_vars

-----------------------------------------------------------------------------
\* From 29 on every breakdown has a ticket that is as far along as it is, however
\* often the tables of tickets were dropped and made again below.
TicketForEveryBreakdown ==
  rev >= 29 => \A b \in Filed : /\ db.ticket[b] # None
                               /\ db.ticket[b].done = db.fault[b].resolved

\* Going up or down never blanks the driver of a breakdown, makes one driver of
\* two, or two of one, whatever drivers were added meanwhile under which names.
DriversStayApart ==
  [][rev' # rev =>
       \A a, b \in Naming :
         /\ db'.fault[a].driver # None
         /\ db'.fault[a].driver = db'.fault[b].driver <=> db.fault[a].driver = db.fault[b].driver]_vars

\* A number printed on a breakdown or a ticket is nobody else's, with the
\* counters set by the migration and counted on by the application, across
\* entries whose date was moved to another year.
NumbersAreUnique ==
  \A a, b \in Filed : a # b =>
    /\ rev >= 36 => db.fault[a].number # db.fault[b].number
    /\ rev >= 37 => db.ticket[a].number # db.ticket[b].number

\* A work type whose failed checks ever raised a ticket raises them at the newest
\* revision, under whatever code it goes by now.
RoutingIsRecovered ==
  rev = Newest => \A w \in WorkType : Minted(w) # {} => db.type[w].kind # None

\* An entry that has a photo has one, the oldest, at every revision.
OldestPhotoStays ==
  [][\A b \in Filed : db.fault[b].photos # {} =>
       Min(db.fault[b].photos) \in db'.fault[b].photos]_vars

\* Not kept by the code: a driver is known by the name first typed for it.  The
\* second way down and up names it after the code the first one made up.
NamesAreTyped == \A d \in Rows : db.driver[d].name \in Text
=============================================================================
