----------------------------- MODULE MCImports -----------------------------
(***************************************************************************)
(* Instance of Intake for TLC.                                             *)
(*                                                                         *)
(* Imports: two sites, a bus each may claim, sheets that repeat a row, and *)
(* two commits at once.  Migrations: two breakdowns, up and down at will.  *)
(***************************************************************************)
EXTENDS Intake, TLC

CONSTANTS
  b1, b2, complaint, repair, sweep, listing,                     \* Imports
  blank, na, wide, bd, di, brake, BRAKE, r1,                     \* ImportRows
  now, junk, word, bus0, work0, iso, theirs, both, plain, columns, p1,
  t1, t2, w1                                                     \* Migrations

MCBusOf == complaint :> b1 @@ repair :> b2 @@ sweep :> b1 @@ listing :> b1
MCKind == complaint :> "complaint" @@ repair :> "work done" @@ sweep :> "inspection" @@
          listing :> "withdrawn"
MCSheets ==
  {[target |-> "register", rows |-> <<complaint, repair, complaint>>],
   [target |-> "snag report", rows |-> <<sweep, complaint>>],
   [target |-> "vehicles", rows |-> <<listing>>]}
\* Tokens and drivers are uuids: a run holds one or the other.
Symmetry == Permutations(Token) \cup Permutations(Worker) \cup Permutations(Site)

\* A day of `both` is another day in the columns' format than in none.
MCReadAs ==
  plain :> (iso :> 1 @@ theirs :> blank @@ both :> 2 @@ word :> blank @@ blank :> blank)
  @@ columns :> (iso :> blank @@ theirs :> 1 @@ both :> 1 @@ word :> blank @@ blank :> blank)
Broken ==
  [date |-> iso, bus |-> b1, work |-> bd, complaint |-> TRUE, group |-> brake,
   time |-> now, driver |-> r1, km |-> 2, status |-> "close"]
Inspected ==
  [Broken EXCEPT !.bus = na, !.work = di, !.complaint = blank, !.km = 1, !.group = BRAKE]
Elsewhere ==
  [Broken EXCEPT !.bus = b2, !.date = both, !.group = BRAKE, !.driver = blank]
Untimed == [Broken EXCEPT !.time = junk, !.date = theirs, !.km = blank]
\* The heading of a sheet names a bus and a type of work like any line below it.
MCHeading ==
  [date |-> word, bus |-> bus0, work |-> work0, complaint |-> TRUE, group |-> blank,
   time |-> junk, driver |-> blank, km |-> blank, status |-> blank]
MCGrids ==
  {<<MCHeading, Broken, blank, Inspected>>, <<MCHeading, Broken, Broken, blank>>,
   <<MCHeading, MCHeading, Elsewhere, blank, Untimed>>, <<MCHeading, Elsewhere, Broken>>}

Columns == {"date", "bus", "work", "complaint", "group", "time", "driver", "km", "status"}
Everything ==
  [target |-> "snag report", bound |-> Columns, constant |-> <<>>, format |-> plain,
   header |-> 1, skip |-> 0]
MCMappings ==
  {[Everything EXCEPT !.target = t] :
     t \in {"breakdown", "driver complaint", "pm schedule", "vehicles", "odometers", "defect types"}}
  \cup {[Everything EXCEPT !.format = columns], [Everything EXCEPT !.skip = 1],
        [Everything EXCEPT !.header = 2],
        [Everything EXCEPT !.bound = Columns \ {"date"}, !.constant = [k \in {"date"} |-> iso]]}

MCFoldOf == brake :> 1 @@ BRAKE :> 1
MCYearOf == <<1, 2>>
MCLower == t1 :> t1 @@ t2 :> t1
MCKindOf == di :> 1

MCInit ==
  /\ IntakeInit
  /\ part # "imports" => retired = {} /\ \A b, c \in Bus : owner[b] = owner[c]
  /\ IF part = "rows"
     THEN /\ route[bd] # "inspection" /\ route[di] # "breakdown"
          /\ route[bd] = blank <=> route[di] = blank
          /\ route[work0] = blank
          /\ fleet = IF route[bd] = blank THEN {} ELSE {b1, b2}
     ELSE fleet = {} /\ \A c \in {bd, di, work0} : route[c] = blank
  /\ db.type[w1].code = di
  /\ IF part = "migrations"
     THEN /\ \A b \in M!Filed : db.fault[b].photos = {}
          /\ db.session.parts # {} => M!Filed = {}
     ELSE M!Filed = {} /\ db.session.parts = {}
MCSpec == MCInit /\ [][IntakeNext]_allVars
=============================================================================
