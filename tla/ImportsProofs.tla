---------------------------- MODULE ImportsProofs ----------------------------
(***************************************************************************)
(* Theorems about rows that come by sheets and by migrations, one part for *)
(* each module that models them.                                           *)
(*                                                                         *)
(* Imports: for any sheets, sites, previews and number of commits at once, *)
(* Inv follows one token from its preview to its run: at any time it is at *)
(* one place only, and what it wrote bears its name.                       *)
(*                                                                         *)
(* Migrations: for any database they may find, MigrationsInv says of every *)
(* revision what the later ones rely on.                                   *)
(*                                                                         *)
(* ImportRows: SheetInv says what a judged row guarantees until it is      *)
(* committed, and CountInv what the number of new ones was counted of.     *)
(*                                                                         *)
(* Each theorem is about a component's own specification; IntakeIsApart    *)
(* says that all of them hold of the components side by side.              *)
(***************************************************************************)
EXTENDS Intake, FiniteSetTheorems, WellFoundedInduction, TLAPS

\* A token is staged, held by a commit, or on record, and never two of these.
TokenAtOnePlace ==
  /\ \A t \in Token : previews[t] # NoPreview => t \in used
  /\ \A w \in Worker : job[w] # Idle =>
       job[w].token \in used /\ previews[job[w].token] = NoPreview
  /\ \A r \in runs : r.token \in used /\ previews[r.token] = NoPreview

EntriesHaveRuns == \A e \in entries : \E r \in runs : r.token = e.run /\ r.site = e.site

WrittenBy(t) == {e \in entries : e.run = t}

CountsTrue ==
  \A r \in runs : r.target = "register" =>
    /\ IsFiniteSet(WrittenBy(r.token))
    /\ r.unchanged + Cardinality(WrittenBy(r.token)) = r.accepted

Inv ==
  /\ TypeOK
  /\ TokenAtOnePlace
  /\ PreviewAppliedOnce
  /\ NoRowTwice
  /\ EntriesHaveRuns
  /\ CountsTrue

-----------------------------------------------------------------------------
LEMMA ReadingTypes ==
  ASSUME NEW j \in Reading
  PROVE  /\ j # Idle /\ j.token \in Token /\ j.preview \in Staged /\ j.preview # NoPreview
         /\ j.preview.site \in Site /\ j.preview.target \in Target
         /\ j.preview.rows \in Seq(Row) /\ j.preview.passed \in SUBSET Nat
         /\ j.seen \subseteq Row /\ j.done \subseteq Row /\ j.retired \subseteq Bus
BY DEF Reading, Idle, Staged, NoPreview

\* Of any indices of a sheet, there are no more rows than indices.
LEMMA RowsBounded ==
  ASSUME NEW rows \in Seq(Row), NEW I \in SUBSET (DOMAIN rows), NEW seen
  PROVE  LET W == {rows[i] : i \in I} \ seen
         IN  /\ IsFiniteSet(I) /\ Cardinality(I) \in Nat
             /\ W \subseteq Row /\ IsFiniteSet(W)
             /\ Cardinality(W) \in Nat /\ Cardinality(W) <= Cardinality(I)
<1> DEFINE X == {rows[i] : i \in I}
           f == [i \in I |-> rows[i]]
<1>1. IsFiniteSet(DOMAIN rows)
  <2>1. DOMAIN rows = 1 .. Len(rows) /\ Len(rows) \in Int
    OBVIOUS
  <2>2. QED
    BY <2>1, FS_Interval
<1>2. IsFiniteSet(I) /\ Cardinality(I) \in Nat
  BY <1>1, FS_Subset, FS_CardinalityType
<1>3. f \in Surjection(I, X)
  BY DEF Surjection
<1>4. IsFiniteSet(X) /\ Cardinality(X) <= Cardinality(I)
  BY <1>2, <1>3, FS_Surjection DEF ExistsSurjection
<1>5. /\ IsFiniteSet(X \ seen) /\ Cardinality(X \ seen) <= Cardinality(X)
      /\ Cardinality(X \ seen) \in Nat /\ Cardinality(X) \in Nat
  <2>1. X \ seen \subseteq X
    OBVIOUS
  <2> HIDE DEF X
  <2>2. IsFiniteSet(X \ seen) /\ Cardinality(X \ seen) <= Cardinality(X)
    BY <1>4, <2>1, FS_Subset
  <2>3. QED
    BY <1>4, <2>2, FS_CardinalityType
<1>6. X \ seen \subseteq Row
  OBVIOUS
<1> HIDE DEF X
<1>7. Cardinality(X \ seen) <= Cardinality(I)
  BY <1>2, <1>4, <1>5
<1>8. QED
  BY <1>2, <1>5, <1>6, <1>7 DEF X

\* What a commit writes: as many entries as rows, and never more than passed.
LEMMA WriteCounts ==
  ASSUME NEW j \in Reading, j.preview.passed \subseteq DOMAIN j.preview.rows
  PROVE  /\ ToWrite(j) \subseteq Row /\ IsFiniteSet(Written(j))
         /\ Cardinality(Written(j)) \in Nat
         /\ Unchanged(j) + Cardinality(Written(j)) = Cardinality(EntryRows(j.preview))
         /\ Unchanged(j) \in Nat /\ Cardinality(j.preview.passed) \in Nat
         /\ Refusals(j.preview) \in Nat
<1> DEFINE p == j.preview
           e(r) == [site |-> p.site, target |-> p.target, row |-> r, run |-> j.token,
                    status |-> Status(p, r)]
<1>1. /\ p.rows \in Seq(Row) /\ EntryRows(p) \in SUBSET (DOMAIN p.rows)
      /\ p.passed \in SUBSET (DOMAIN p.rows)
      /\ DOMAIN p.rows \ p.passed \in SUBSET (DOMAIN p.rows)
  BY ReadingTypes DEF EntryRows
<1>2. /\ ToWrite(j) \subseteq Row /\ IsFiniteSet(ToWrite(j))
      /\ Cardinality(ToWrite(j)) \in Nat /\ Cardinality(EntryRows(p)) \in Nat
      /\ Cardinality(ToWrite(j)) <= Cardinality(EntryRows(p))
  BY <1>1, RowsBounded DEF ToWrite
<1>3. Cardinality(p.passed) \in Nat /\ Refusals(p) \in Nat
  BY <1>1, RowsBounded DEF Refusals
<1>4. IsFiniteSet(Written(j)) /\ Cardinality(Written(j)) = Cardinality(ToWrite(j))
  <2> DEFINE f == [r \in ToWrite(j) |-> e(r)]
  <2>1. Written(j) = {e(r) : r \in ToWrite(j)}
    BY DEF Written
  <2>2. \A r, q \in ToWrite(j) : e(r) = e(q) => r = q
    OBVIOUS
  <2>3. f \in Bijection(ToWrite(j), Written(j))
    <3>1. f \in [ToWrite(j) -> Written(j)]
      BY <2>1
    <3>2. IsInjective(f)
      BY <2>2 DEF IsInjective
    <3>3. \A x \in Written(j) : \E r \in ToWrite(j) : f[r] = x
      BY <2>1
    <3> HIDE DEF f
    <3>4. QED
      BY <3>1, <3>2, <3>3 DEF Bijection, Injection, Surjection
  <2> HIDE DEF f
  <2>4. QED
    BY <1>2, <2>3, FS_Bijection DEF ExistsBijection
<1> HIDE DEF p
<1>5. QED
  BY <1>2, <1>3, <1>4 DEF Unchanged, p

-----------------------------------------------------------------------------
(* Types of what a commit puts down.                                       *)
LEMMA StatusTypes ==
  ASSUME NEW p, NEW r
  PROVE  Status(p, r) \in {"open", "resolved", "done"}
BY DEF Status

LEMMA EntryTypes ==
  ASSUME NEW j \in Reading, j.preview.passed \subseteq DOMAIN j.preview.rows
  PROVE  Written(j) \subseteq Entry
<1>1. ToWrite(j) \subseteq Row
  BY WriteCounts
<1>2. QED
  BY <1>1, ReadingTypes, StatusTypes DEF Written, Entry

LEMMA ReportTypes ==
  ASSUME NEW j \in Reading, j.preview.passed \subseteq DOMAIN j.preview.rows
  PROVE  Report(j) \in Run
BY ReadingTypes, WriteCounts DEF Report, Run

LEMMA RowsOfSheet ==
  ASSUME NEW p \in Staged, p.passed \subseteq DOMAIN p.rows
  PROVE  RowsOf(p) \subseteq Row
<1>1. p.rows \in Seq(Row)
  BY DEF Staged
<1>2. QED
  BY <1>1 DEF RowsOf

LEMMA WithdrawnTypes ==
  ASSUME NEW j \in Reading, j.preview.passed \subseteq DOMAIN j.preview.rows,
         retired \subseteq Bus
  PROVE  Withdrawn(j) \subseteq Bus
<1>1. BusesOf(RowsOf(j.preview)) \subseteq Bus
  BY ReadingTypes, RowsOfSheet, SheetAssumption DEF BusesOf
<1>2. QED
  BY <1>1 DEF Withdrawn

LEMMA FleetTypes ==
  ASSUME NEW s \in Site, NEW B, owner \in [Bus -> Site \cup {Nobody}], JoinFleet(s, B)
  PROVE  owner' \in [Bus -> Site \cup {Nobody}]
BY DEF JoinFleet

-----------------------------------------------------------------------------
(* Steps that leave what was committed alone.                              *)
LEMMA RecordKept ==
  ASSUME NoRowTwice, EntriesHaveRuns, CountsTrue, UNCHANGED <<entries, runs>>
  PROVE  NoRowTwice' /\ EntriesHaveRuns' /\ CountsTrue'
<1>1. NoRowTwice' /\ EntriesHaveRuns'
  BY DEF NoRowTwice, EntriesHaveRuns
<1>2. \A t : WrittenBy(t)' = WrittenBy(t)
  BY DEF WrittenBy
<1>3. CountsTrue'
  BY <1>2 DEF CountsTrue, WrittenBy
<1>4. QED
  BY <1>1, <1>3

\* Fleet steps touch nothing a token is known by.
LEMMA FleetStep ==
  ASSUME Inv, retired' \subseteq Bus, owner' \in [Bus -> Site \cup {Nobody}],
         UNCHANGED <<previews, used, dbVars, job>>
  PROVE  Inv'
<1>1. TypeOK'
  BY DEF Inv, TypeOK, dbVars
<1>2. TokenAtOnePlace' /\ PreviewAppliedOnce'
  BY DEF Inv, TokenAtOnePlace, PreviewAppliedOnce, dbVars
<1>3. QED
  BY <1>1, <1>2, RecordKept DEF Inv, dbVars

LEMMA PreviewStep ==
  ASSUME Inv, NEW s \in Site, NEW sheet \in Sheets, NEW t \in Token, Preview(s, sheet, t)
  PROVE  Inv'
<1> DEFINE p == [stage |-> "staged", site |-> s, target |-> sheet.target,
                 rows |-> sheet.rows, passed |-> Accepted(s, sheet)]
<1>1. sheet.target \in Target /\ sheet.rows \in Seq(Row)
  BY SheetAssumption
<1>2. Accepted(s, sheet) \subseteq DOMAIN sheet.rows /\ DOMAIN sheet.rows \subseteq Nat
  BY <1>1 DEF Accepted
<1>3. p \in Staged /\ p.passed \subseteq DOMAIN p.rows /\ p # NoPreview
  BY <1>1, <1>2 DEF Staged, NoPreview
<1>4. previews' = [previews EXCEPT ![t] = p]
  BY DEF Preview
<1> HIDE DEF p
<1>5. previews' \in [Token -> Staged \cup {NoPreview}]
  BY <1>3, <1>4 DEF Inv, TypeOK
<1>6. previews'[t] = p /\ \A u \in Token \ {t} : previews'[u] = previews[u]
  BY <1>4 DEF Inv, TypeOK
<1>7. TypeOK'
  <2>1. owner' \in [Bus -> Site \cup {Nobody}]
    BY FleetTypes DEF Inv, TypeOK, Preview
  <2>2. \A u \in Token : previews'[u] # NoPreview =>
                           previews'[u].passed \subseteq DOMAIN previews'[u].rows
    BY <1>3, <1>6 DEF Inv, TypeOK
  <2>3. QED
    BY <1>5, <2>1, <2>2 DEF Inv, TypeOK, Preview, dbVars
<1>8. TokenAtOnePlace'
  <2>1. t \notin used /\ used' = used \cup {t} /\ UNCHANGED <<runs, job>>
    BY DEF Preview, dbVars
  <2>2. \A w \in Worker : job[w] # Idle => job[w].token \in Token
    BY ReadingTypes DEF Inv, TypeOK
  <2>3. \A r \in runs : r.token \in Token
    BY DEF Inv, TypeOK, Run
  <2>4. QED
    BY <1>6, <2>1, <2>2, <2>3 DEF Inv, TokenAtOnePlace
<1>9. PreviewAppliedOnce'
  BY DEF Inv, PreviewAppliedOnce, Preview, dbVars
<1>10. QED
  BY <1>7, <1>8, <1>9, RecordKept DEF Inv, Preview, dbVars

LEMMA ExpireStep ==
  ASSUME Inv, NEW t \in Token, Expire(t)
  PROVE  Inv'
<1>1. /\ previews' = [previews EXCEPT ![t] = NoPreview]
      /\ UNCHANGED <<owner, retired, used, entries, inspected, runs, job>>
  BY DEF Expire, fleetVars, dbVars
<1>2. TypeOK'
  BY <1>1 DEF Inv, TypeOK
<1>3. TokenAtOnePlace'
  BY <1>1 DEF Inv, TypeOK, TokenAtOnePlace
<1>4. PreviewAppliedOnce'
  BY <1>1 DEF Inv, PreviewAppliedOnce
<1>5. QED
  BY <1>1, <1>2, <1>3, <1>4, RecordKept DEF Inv

LEMMA RestartStep ==
  ASSUME Inv, Restart
  PROVE  Inv'
<1>1. /\ previews' = [t \in Token |-> NoPreview] /\ job' = [w \in Worker |-> Idle]
      /\ UNCHANGED <<owner, retired, used, entries, inspected, runs>>
  BY DEF Restart, fleetVars, dbVars
<1>2. TypeOK'
  BY <1>1 DEF Inv, TypeOK
<1>3. TokenAtOnePlace'
  <2>1. \A r \in runs : r.token \in Token
    BY DEF Inv, TypeOK, Run
  <2>2. QED
    BY <1>1, <2>1 DEF Inv, TokenAtOnePlace
<1>4. PreviewAppliedOnce'
  BY <1>1 DEF Inv, PreviewAppliedOnce
<1>5. QED
  BY <1>1, <1>2, <1>3, <1>4, RecordKept DEF Inv

\* A commit that ends without writing gives its token up.
LEMMA FailStep ==
  ASSUME Inv, NEW w \in Worker, Fail(w)
  PROVE  Inv'
<1>1. /\ job' = [job EXCEPT ![w] = Idle]
      /\ UNCHANGED <<owner, retired, previews, used, entries, inspected, runs>>
  BY DEF Fail, fleetVars, dbVars
<1>2. TypeOK'
  BY <1>1 DEF Inv, TypeOK
<1>3. TokenAtOnePlace'
  BY <1>1 DEF Inv, TypeOK, TokenAtOnePlace
<1>4. PreviewAppliedOnce'
  BY <1>1 DEF Inv, TypeOK, PreviewAppliedOnce
<1>5. QED
  BY <1>1, <1>2, <1>3, <1>4, RecordKept DEF Inv

\* A commit takes the token out of the store as it takes it up.
LEMMA BeginStep ==
  ASSUME Inv, NEW w \in Worker, NEW t \in Token, NEW s \in Site, BeginCommit(w, t, s)
  PROVE  Inv'
<1>1. /\ job[w] = Idle /\ previews[t] # NoPreview
      /\ previews' = [previews EXCEPT ![t] = NoPreview]
      /\ UNCHANGED <<owner, retired, used, entries, inspected, runs>>
  BY DEF BeginCommit, Take, fleetVars, dbVars
<1>2. PICK j : /\ job' = [job EXCEPT ![w] = j]
               /\ j # Idle => /\ j \in Reading /\ j.token = t
                              /\ j.preview = previews[t]
               /\ j = Idle \/ j \in Reading
  <2>1. Held(s, previews[t].target) \subseteq Row
    BY DEF Held, Inv, TypeOK, Entry
  <2>2. InspectedAt(s) \subseteq Row
    BY DEF InspectedAt
  <2>3. previews[t] \in Staged
    BY <1>1 DEF Inv, TypeOK
  <2>4. [stage |-> "read", token |-> t, preview |-> previews[t],
         seen |-> Held(s, previews[t].target), done |-> InspectedAt(s),
         retired |-> retired] \in Reading
    BY <2>1, <2>2, <2>3 DEF Inv, TypeOK, Reading
  <2>5. QED
    BY <2>4 DEF BeginCommit
<1>3. TypeOK'
  <2>1. job' \in [Worker -> Reading \cup {Idle}]
    BY <1>2 DEF Inv, TypeOK
  <2>2. \A v \in Worker : job'[v] # Idle =>
          job'[v].preview.passed \subseteq DOMAIN job'[v].preview.rows
    BY <1>1, <1>2 DEF Inv, TypeOK
  <2>3. QED
    BY <1>1, <2>1, <2>2 DEF Inv, TypeOK
<1>4. TokenAtOnePlace'
  <2>1. t \in used
    BY <1>1 DEF Inv, TokenAtOnePlace
  <2>2. \A v \in Worker : job'[v] # Idle =>
          job'[v].token \in used /\ previews'[job'[v].token] = NoPreview
    BY <1>1, <1>2, <2>1 DEF Inv, TypeOK, TokenAtOnePlace
  <2>3. QED
    BY <1>1, <2>2 DEF Inv, TypeOK, TokenAtOnePlace
<1>5. PreviewAppliedOnce'
  <2>1. \A v \in Worker : job[v] # Idle => job[v].token # t
    BY <1>1 DEF Inv, TokenAtOnePlace
  <2>2. \A r \in runs : r.token # t
    BY <1>1 DEF Inv, TokenAtOnePlace
  <2>3. \A v \in Worker : v # w => job'[v] = job[v]
    BY <1>2 DEF Inv, TypeOK
  <2>4. job'[w] = j
    BY <1>2 DEF Inv, TypeOK
  <2>5. \A u, v \in Worker : u # v /\ job'[u] # Idle /\ job'[v] # Idle =>
          job'[u].token # job'[v].token
    BY <1>2, <2>1, <2>3, <2>4 DEF Inv, PreviewAppliedOnce
  <2>6. \A v \in Worker : job'[v] # Idle => job'[v].token \notin {r.token : r \in runs}
    BY <1>2, <2>2, <2>3, <2>4 DEF Inv, PreviewAppliedOnce
  <2>7. QED
    BY <1>1, <2>5, <2>6 DEF Inv, PreviewAppliedOnce
<1>6. QED
  BY <1>1, <1>3, <1>4, <1>5, RecordKept DEF Inv

\* A commit writes its rows, its inspections and its run together.
LEMMA FinishStep ==
  ASSUME Inv, NEW w \in Worker, Finish(w)
  PROVE  Inv'
<1> DEFINE j == job[w]
           t == j.token
<1>1. /\ job[w] # Idle /\ j \in Reading
      /\ j.preview.passed \subseteq DOMAIN j.preview.rows
  BY DEF Finish, Inv, TypeOK
<1>2. /\ Writable(j) /\ JoinFleet(j.preview.site, Vivified(j))
      /\ retired' = Withdrawn(j) /\ entries' = entries \cup Written(j)
      /\ runs' = runs \cup {Report(j)} /\ job' = [job EXCEPT ![w] = Idle]
      /\ UNCHANGED <<previews, used>>
  BY DEF Finish
<1>3. /\ j.preview.site \in Site /\ j.preview.target \in Target /\ t \in Token
  BY <1>1, ReadingTypes
<1>4. /\ t \in used /\ previews[t] = NoPreview
      /\ \A r \in runs : r.token # t
      /\ \A v \in Worker : v # w /\ job[v] # Idle => job[v].token # t
  BY <1>1 DEF Inv, TokenAtOnePlace, PreviewAppliedOnce
<1>5. Report(j) \in Run /\ Report(j).token = t /\ Report(j).site = j.preview.site
  BY <1>1, ReportTypes DEF Report
<1>6. \A e \in Written(j) :
        /\ e.run = t /\ e.site = j.preview.site /\ e.target = j.preview.target
        /\ e.row \in ToWrite(j) /\ e.status = Status(j.preview, e.row)
  BY DEF Written
<1>7. Written(j) \subseteq Entry
  BY <1>1, EntryTypes
<1>8. \A v \in Worker : job'[v] = IF v = w THEN Idle ELSE job[v]
  BY <1>2 DEF Inv, TypeOK
<1>9. TypeOK'
  <2>1. owner' \in [Bus -> Site \cup {Nobody}]
    BY <1>2, <1>3, FleetTypes DEF Inv, TypeOK
  <2>2. retired' \subseteq Bus
    BY <1>1, <1>2, WithdrawnTypes DEF Inv, TypeOK
  <2>3. inspected' \in [Site -> [Row -> Nat]]
    BY <1>3 DEF Finish, Inv, TypeOK
  <2>4. job' \in [Worker -> Reading \cup {Idle}]
    BY <1>2 DEF Inv, TypeOK
  <2>5. \A v \in Worker : job'[v] # Idle =>
          job'[v].preview.passed \subseteq DOMAIN job'[v].preview.rows
    BY <1>8 DEF Inv, TypeOK
  <2> HIDE DEF j
  <2>6. entries' \subseteq Entry /\ runs' \subseteq Run
    BY <1>2, <1>5, <1>7 DEF Inv, TypeOK
  <2>7. QED
    BY <1>2, <2>1, <2>2, <2>3, <2>4, <2>5, <2>6 DEF Inv, TypeOK
<1> HIDE DEF j
<1>10. TokenAtOnePlace'
  BY <1>2, <1>4, <1>5, <1>8 DEF Inv, TokenAtOnePlace
<1>11. PreviewAppliedOnce'
  BY <1>2, <1>4, <1>5, <1>8 DEF Inv, PreviewAppliedOnce
<1>12. NoRowTwice'
  <2>1. \A e \in entries, f \in Written(j) :
          ~(e.site = f.site /\ e.target = f.target /\ e.row = f.row)
    BY <1>2, <1>6 DEF Writable, Held
  <2>2. \A e, f \in Written(j) : e.row = f.row => e = f
    BY <1>6 DEF Written
  <2>3. QED
    BY <1>2, <2>1, <2>2 DEF Inv, NoRowTwice
<1>13. EntriesHaveRuns'
  BY <1>2, <1>5, <1>6 DEF Inv, EntriesHaveRuns
<1>14. CountsTrue'
  <2>1. \A r \in runs : {e \in entries' : e.run = r.token} = WrittenBy(r.token)
    BY <1>2, <1>4, <1>6 DEF WrittenBy
  <2>2. {e \in entries' : e.run = t} = Written(j)
    <3>1. \A e \in entries : e.run # t
      BY <1>4 DEF Inv, EntriesHaveRuns
    <3>2. QED
      BY <1>2, <1>6, <3>1
  <2>3. j.preview.target = "register" => EntryRows(j.preview) = j.preview.passed
    BY DEF EntryRows, IsEntry
  <2>4. /\ Report(j).unchanged = Unchanged(j) /\ Report(j).target = j.preview.target
        /\ Report(j).accepted = Cardinality(j.preview.passed)
    BY DEF Report
  <2>5. /\ IsFiniteSet(Written(j))
        /\ Unchanged(j) + Cardinality(Written(j)) = Cardinality(EntryRows(j.preview))
    BY <1>1, WriteCounts DEF j
  <2>6. \A r \in runs' : r.target = "register" =>
          /\ IsFiniteSet({e \in entries' : e.run = r.token})
          /\ r.unchanged + Cardinality({e \in entries' : e.run = r.token}) = r.accepted
    <3> SUFFICES ASSUME NEW r \in runs', r.target = "register"
                 PROVE  /\ IsFiniteSet({e \in entries' : e.run = r.token})
                        /\ r.unchanged + Cardinality({e \in entries' : e.run = r.token})
                              = r.accepted
      OBVIOUS
    <3>1. CASE r \in runs
      BY <2>1, <3>1 DEF Inv, CountsTrue
    <3>2. CASE r = Report(j)
      BY <1>5, <2>2, <2>3, <2>4, <2>5, <3>2
    <3>3. QED
      BY <1>2, <3>1, <3>2
  <2>7. QED
    BY <2>6 DEF CountsTrue, WrittenBy
<1>15. QED
  BY <1>9, <1>10, <1>11, <1>12, <1>13, <1>14 DEF Inv

-----------------------------------------------------------------------------
LEMMA SetActiveStep ==
  ASSUME Inv, NEW b \in Bus, SetActive(b)
  PROVE  Inv'
BY FleetStep DEF SetActive, Inv, TypeOK

LEMMA CreateVehicleStep ==
  ASSUME Inv, NEW b \in Bus, NEW s \in Site, CreateVehicle(b, s)
  PROVE  Inv'
<1>1. owner' \in [Bus -> Site \cup {Nobody}]
  BY FleetTypes DEF CreateVehicle, Inv, TypeOK
<1>2. QED
  BY <1>1, FleetStep DEF CreateVehicle, Inv, TypeOK

LEMMA InitInv == Init => Inv
<1> SUFFICES ASSUME Init PROVE Inv
  OBVIOUS
<1>1. TypeOK
  BY DEF Init, TypeOK
<1>2. QED
  BY <1>1 DEF Init, Inv, TokenAtOnePlace, PreviewAppliedOnce, NoRowTwice, EntriesHaveRuns,
              CountsTrue

LEMMA NextInv == Inv /\ [Next]_vars => Inv'
<1> SUFFICES ASSUME Inv, [Next]_vars PROVE Inv'
  OBVIOUS
<1>1. ASSUME NEW t \in Token, NEW s \in Site, NEW sheet \in Sheets, Preview(s, sheet, t)
      PROVE  Inv'
  BY <1>1, PreviewStep
<1>2. ASSUME NEW t \in Token, NEW s \in Site, NEW w \in Worker, BeginCommit(w, t, s)
      PROVE  Inv'
  BY <1>2, BeginStep
<1>3. ASSUME NEW t \in Token, Expire(t)
      PROVE  Inv'
  BY <1>3, ExpireStep
<1>4. ASSUME NEW w \in Worker, Finish(w)
      PROVE  Inv'
  BY <1>4, FinishStep
<1>5. ASSUME NEW w \in Worker, Fail(w)
      PROVE  Inv'
  BY <1>5, FailStep
<1>6. CASE Restart
  BY <1>6, RestartStep
<1>7. ASSUME NEW b \in Bus, SetActive(b)
      PROVE  Inv'
  BY <1>7, SetActiveStep
<1>8. ASSUME NEW b \in Bus, NEW s \in Site, CreateVehicle(b, s)
      PROVE  Inv'
  BY <1>8, CreateVehicleStep
<1>9. CASE UNCHANGED vars
  <2>1. TypeOK' /\ TokenAtOnePlace' /\ PreviewAppliedOnce'
    BY <1>9 DEF vars, Inv, TypeOK, TokenAtOnePlace, PreviewAppliedOnce
  <2>2. QED
    BY <1>9, <2>1, RecordKept DEF vars, Inv
<1>10. QED
  BY <1>1, <1>2, <1>3, <1>4, <1>5, <1>6, <1>7, <1>8, <1>9 DEF Next

\* Every reachable state has the invariant.
THEOREM Invariance == Spec => []Inv
<1>1. QED
  BY InitInv, NextInv, PTL DEF Spec

-----------------------------------------------------------------------------
\* The variables keep their types: a staged preview's accepted rows are rows of
\* its sheet, and counts never go below zero.
THEOREM TypeCorrect == Spec => []TypeOK
<1>1. Inv => TypeOK
  BY DEF Inv
<1>2. QED
  BY <1>1, Invariance, PTL

\* PreviewStore.take and commit_preview: a preview is applied at most once, by
\* however many commits it is asked for at the same time, across restarts.
THEOREM AppliedOnce == Spec => []PreviewAppliedOnce
<1>1. Inv => PreviewAppliedOnce
  BY DEF Inv
<1>2. QED
  BY <1>1, Invariance, PTL

\* The fingerprint and its unique index: no row of a target is written twice at
\* a site, by overlapping commits of different uploads either.
THEOREM WrittenOnce == Spec => []NoRowTwice
<1>1. Inv => NoRowTwice
  BY DEF Inv
<1>2. QED
  BY <1>1, Invariance, PTL

\* commit_preview's report: what a register's run says it left unchanged and
\* what it wrote make up what it accepted, and no entry is without its run.
THEOREM RunsAreTrue == Spec => []RunsCountTrue
<1>1. Inv => RunsCountTrue
  BY DEF Inv, EntriesHaveRuns, CountsTrue, WrittenBy, RunsCountTrue
<1>2. QED
  BY <1>1, Invariance, PTL

\* Registrations are unique across sites: neither a sheet nor a new vehicle
\* takes a bus from the site that has it.
THEOREM NoBusIsTaken == Spec => BusStays
<1>1. Inv /\ [Next]_vars => [\A b \in Bus : owner[b] # Nobody => owner'[b] = owner[b]]_vars
  <2> SUFFICES ASSUME Inv, Next, NEW b \in Bus, owner[b] # Nobody
               PROVE  owner'[b] = owner[b]
    BY DEF vars
  <2>1. ASSUME NEW s \in Site, NEW B, ~OwnedElsewhere(B), JoinFleet(s, B)
        PROVE  owner'[b] = owner[b]
    <3>1. b \notin B
      BY <2>1 DEF OwnedElsewhere
    <3>2. QED
      BY <2>1, <3>1 DEF JoinFleet, Inv, TypeOK
  <2>2. ASSUME NEW t \in Token, NEW s \in Site, NEW sheet \in Sheets, Preview(s, sheet, t)
        PROVE  owner'[b] = owner[b]
    BY <2>1, <2>2 DEF Preview
  <2>3. ASSUME NEW w \in Worker, Finish(w)
        PROVE  owner'[b] = owner[b]
    <3>1. job[w] \in Reading
      BY <2>3 DEF Finish, Inv, TypeOK
    <3>2. job[w].preview.site \in Site
      BY <3>1, ReadingTypes
    <3>3. ~OwnedElsewhere(Vivified(job[w])) /\ JoinFleet(job[w].preview.site, Vivified(job[w]))
      BY <2>3 DEF Finish, Writable
    <3>4. QED
      BY <2>1, <3>2, <3>3
  <2>4. ASSUME NEW s \in Site, NEW c \in Bus, CreateVehicle(c, s)
        PROVE  owner'[b] = owner[b]
    BY <2>1, <2>4 DEF CreateVehicle
  <2>5. ASSUME UNCHANGED owner
        PROVE  owner'[b] = owner[b]
    BY <2>5
  <2>6. QED
    BY <2>2, <2>3, <2>4, <2>5
       DEF Next, BeginCommit, Expire, Fail, Restart, SetActive, fleetVars
<1>2. QED
  BY <1>1, Invariance, PTL DEF Spec, BusStays

-----------------------------------------------------------------------------
(* Migrations, whatever was filed, typed and named before and between them. *)
CodesDiffer == \A d, e \in M!Rows : db.driver[d].code = db.driver[e].code => d = e
DriversKnown ==
  /\ rev < 34 => \A b \in M!Naming : db.fault[b].driver \in M!DriverCode
  /\ rev >= 34 => \A b \in M!Naming : db.fault[b].driver \in M!Rows
  /\ CodesDiffer

TicketsFollow ==
  \A b \in M!Filed :
    /\ db.ticket[b] # None => db.ticket[b].done = db.fault[b].resolved
    /\ rev >= 29 => db.ticket[b] # None
ChecksRaise ==
  \A f \in Check : db.ticket[f] # None => rev >= 30 /\ db.ticket[f].kind \in M!SourceKind

\* The numbers num of some rows of a table are their own, and below the counter
\* of their year.
NumbersFit(next, table, num) ==
  /\ \A b \in DOMAIN num : \E y \in M!Year, n \in Nat \ {0} :
       num[b] = <<y, n>> /\ n < next[<<table, y>>]
  /\ \A a, b \in DOMAIN num : num[a] = num[b] => a = b
EntryNumbers == [b \in M!Filed |-> db.fault[b].number]
TicketNumbers == [b \in M!Filed |-> db.ticket[b].number]
Numbered ==
  /\ rev >= 36 => NumbersFit(db.next, "entry", EntryNumbers)
  /\ rev >= 37 => NumbersFit(db.next, "ticket", TicketNumbers)

MigrationsInv ==
  /\ rev \in M!Revision /\ db \in M!Database
  /\ DriversKnown /\ TicketsFollow /\ ChecksRaise /\ Numbered

-----------------------------------------------------------------------------
LEMMA MigrationsCount ==
  ASSUME NEW X
  PROVE  (M!IsFiniteSet(X) <=> IsFiniteSet(X)) /\ M!Cardinality(X) = Cardinality(X)
<1>1. M!IsFiniteSet(X) <=> IsFiniteSet(X)
  BY DEF M!IsFiniteSet, IsFiniteSet
<1>2. M!Cardinality(X) = Cardinality(X)
  BY DEF M!Cardinality, Cardinality
<1> QED BY <1>1, <1>2

LEMMA HasSmallest ==
  ASSUME NEW X \in SUBSET Nat, X # {}
  PROVE  \E x \in X : \A y \in X : x <= y
<1> DEFINE Upto == {0 .. n : n \in X}
<1>1. Upto \subseteq FiniteSubsetsOf(Nat) /\ Upto # {}
  <2>1. ASSUME NEW n \in X PROVE 0 .. n \subseteq Nat /\ IsFiniteSet(0 .. n)
    BY FS_Interval
  <2> QED BY <2>1 DEF FiniteSubsetsOf
<1>2. PICK I \in Upto : \A J \in Upto : <<J, I>> \notin StrictSubsetOrdering(Nat)
  BY <1>1, FS_StrictSubsetOrderingWellFounded, WFMin
<1>3. PICK x \in X : I = 0 .. x
  OBVIOUS
<1>4. ASSUME NEW y \in X, y < x PROVE FALSE
  <2>1. 0 .. y \subseteq 0 .. x /\ x \in 0 .. x /\ x \notin 0 .. y
    BY <1>4
  <2>2. 0 .. y \in Upto /\ 0 .. y \subseteq Nat /\ 0 .. x \subseteq Nat
    OBVIOUS
  <2>3. <<0 .. y, I>> \in StrictSubsetOrdering(Nat)
    BY <1>3, <2>1, <2>2 DEF StrictSubsetOrdering
  <2> QED BY <1>2, <2>2, <2>3
<1> QED BY <1>4

LEMMA MinIsLeast ==
  ASSUME NEW X \in SUBSET Nat, X # {}
  PROVE  M!Min(X) \in X /\ \A y \in X : M!Min(X) <= y
BY HasSmallest DEF M!Min

\* The next revision up is the least above, the next one down the greatest below.
LEMMA NextUp ==
  ASSUME NEW r \in M!Revision, r # 43
  PROVE  /\ M!Above(r) \in M!Revision /\ r < M!Above(r)
         /\ \A s \in M!Revision : ~(r < s /\ s < M!Above(r))
<1> DEFINE X == {s \in M!Revision : s > r}
<1>1. X \in SUBSET Nat /\ 43 \in X
  BY DEF M!Revision
<1>2. M!Above(r) = M!Min(X)
  BY DEF M!Above
<1>3. M!Min(X) \in X /\ \A y \in X : M!Min(X) <= y
  BY <1>1, MinIsLeast
<1> QED BY <1>2, <1>3 DEF M!Revision

LEMMA NextDown ==
  ASSUME NEW r \in M!Revision, r # 23
  PROVE  /\ M!Below(r) \in M!Revision /\ M!Below(r) < r
         /\ \A s \in M!Revision : ~(M!Below(r) < s /\ s < r)
<1> DEFINE X == {s \in M!Revision : s < r}
           N == {43 - s : s \in X}
<1>1. N \in SUBSET Nat /\ N # {} /\ X \subseteq Nat
  <2>1. 23 \in X
    BY DEF M!Revision
  <2> QED BY <2>1 DEF M!Revision
<1>2. PICK n \in N : \A k \in N : n <= k
  BY <1>1, HasSmallest
<1>3. PICK x \in X : n = 43 - x
  OBVIOUS
<1>4. ASSUME NEW y \in X PROVE x >= y
  <2>1. 43 - y \in N
    OBVIOUS
  <2> QED BY <1>1, <1>2, <1>3, <2>1
<1>5. M!Max(X) \in X /\ \A y \in X : M!Max(X) >= y
  <2> HIDE DEF X, N
  <2> QED BY <1>3, <1>4 DEF M!Max
<1>6. M!Below(r) = M!Max(X)
  BY DEF M!Below
<1> QED BY <1>5, <1>6 DEF M!Revision

LEMMA UpgradeCases ==
  ASSUME rev \in M!Revision, M!Upgrade
  PROVE  \/ rev = 23 /\ rev' = 24 /\ db' = M!Up24
         \/ rev = 24 /\ rev' = 25 /\ db' = M!Up25
         \/ rev = 25 /\ rev' = 29 /\ db' = M!Up29
         \/ rev = 29 /\ rev' = 30 /\ db' = M!Up30
         \/ rev = 30 /\ rev' = 31 /\ db' = M!Up31
         \/ rev = 31 /\ rev' = 32 /\ db' = M!Up32
         \/ rev = 32 /\ rev' = 33 /\ db' = M!Up33
         \/ rev = 33 /\ rev' = 34 /\ \E at \in M!Assignments, first \in M!Firsts : db' = M!Up34(at, first)
         \/ rev = 34 /\ rev' = 35 /\ db' = M!Up35
         \/ rev = 35 /\ rev' = 36 /\ db' = M!Up36
         \/ rev = 36 /\ rev' = 37 /\ db' = M!Up37
         \/ rev = 37 /\ rev' = 40 /\ db' = M!Up40
         \/ rev = 40 /\ rev' = 43 /\ db' = M!Up43
<1>1. /\ rev' \in M!Revision /\ rev < rev'
      /\ \A s \in M!Revision : ~(rev < s /\ s < rev')
  BY NextUp DEF M!Upgrade, M!Newest
<1>2. /\ rev' = 24 => rev = 23
      /\ rev' = 25 => rev = 24
      /\ rev' = 29 => rev = 25
      /\ rev' = 30 => rev = 29
      /\ rev' = 31 => rev = 30
      /\ rev' = 32 => rev = 31
      /\ rev' = 33 => rev = 32
      /\ rev' = 34 => rev = 33
      /\ rev' = 35 => rev = 34
      /\ rev' = 36 => rev = 35
      /\ rev' = 37 => rev = 36
      /\ rev' = 40 => rev = 37
      /\ rev' = 43 => rev = 40
  BY <1>1 DEF M!Revision
<1> QED BY <1>2 DEF M!Upgrade

LEMMA DowngradeCases ==
  ASSUME rev \in M!Revision, M!Downgrade
  PROVE  \/ rev = 24 /\ rev' = 23 /\ db' = M!Down24
         \/ rev = 25 /\ rev' = 24 /\ db' = M!Down25
         \/ rev = 29 /\ rev' = 25 /\ db' = M!Down29
         \/ rev = 30 /\ rev' = 29 /\ M!CanDown30 /\ db' = M!Down30
         \/ rev = 31 /\ rev' = 30 /\ db' = M!Down31
         \/ rev = 32 /\ rev' = 31 /\ db' = M!Down32
         \/ rev = 33 /\ rev' = 32 /\ db' = M!Down33
         \/ rev = 34 /\ rev' = 33 /\ db' = M!Down34
         \/ rev = 35 /\ rev' = 34 /\ db' = M!Down35
         \/ rev = 36 /\ rev' = 35 /\ db' = M!Down36
         \/ rev = 37 /\ rev' = 36 /\ db' = M!Down37
         \/ rev = 40 /\ rev' = 37 /\ db' = M!Down40
         \/ rev = 43 /\ rev' = 40 /\ db' = M!Down43
<1>1. /\ rev' \in M!Revision /\ rev' < rev
      /\ \A s \in M!Revision : ~(rev' < s /\ s < rev)
  BY NextDown DEF M!Downgrade
<1>2. /\ rev = 24 => rev' = 23
      /\ rev = 25 => rev' = 24
      /\ rev = 29 => rev' = 25
      /\ rev = 30 => rev' = 29
      /\ rev = 31 => rev' = 30
      /\ rev = 32 => rev' = 31
      /\ rev = 33 => rev' = 32
      /\ rev = 34 => rev' = 33
      /\ rev = 35 => rev' = 34
      /\ rev = 36 => rev' = 35
      /\ rev = 37 => rev' = 36
      /\ rev = 40 => rev' = 37
      /\ rev = 43 => rev' = 40
  BY <1>1 DEF M!Revision
<1> QED BY <1>2 DEF M!Downgrade

LEMMA DatabaseTypes ==
  ASSUME db \in M!Database
  PROVE  /\ db.fault \in [Breakdown -> M!Fault \cup {None}]
         /\ db.ticket \in [Breakdown \cup Check -> M!Ticket \cup {None}]
         /\ db.session \in [ticket : Breakdown \cup {None}, parts : SUBSET Part]
         /\ db.stock \in SUBSET Part
         /\ db.driver \in [Driver -> [code : M!DriverCode, name : M!DriverCode] \cup {None}]
         /\ db.next \in [{"entry", "ticket"} \X M!Year -> Nat]
         /\ db.type \in [WorkType -> [code : Code, kind : M!SourceKind \cup {None}]]
         /\ db.failed \in [Check -> WorkType \cup {None}]
BY DEF M!Database

LEMMA FiledTypes ==
  ASSUME M!MigrationsAssumption, db \in M!Database
  PROVE  /\ M!Filed \subseteq Breakdown /\ M!Filed \subseteq Int
         /\ \A b \in M!Filed :
              /\ db.fault[b] \in M!Fault /\ db.fault[b] # None
              /\ db.fault[b].day \in FiledDay /\ db.fault[b].resolved \in BOOLEAN
              /\ db.fault[b].driver \in M!DriverCode \cup Driver \cup {None}
              /\ db.fault[b].number \in M!Number \cup {None}
              /\ db.fault[b].photos \in SUBSET Photo
              /\ M!YearIn(b) \in M!Year
<1>1. ASSUME NEW b \in M!Filed PROVE b \in Breakdown /\ db.fault[b] \in M!Fault
  BY DatabaseTypes DEF M!Filed
<1>2. ASSUME NEW f \in M!Fault
      PROVE  /\ f.day \in FiledDay /\ f.resolved \in BOOLEAN
             /\ f.driver \in M!DriverCode \cup Driver \cup {None}
             /\ f.number \in M!Number \cup {None} /\ f.photos \in SUBSET Photo
  BY DEF M!Fault
<1>3. Breakdown \subseteq Int /\ \A f \in M!Fault : f # None
  BY DEF M!MigrationsAssumption
<1>4. \A b \in M!Filed : M!YearIn(b) \in M!Year
  BY <1>1, <1>2 DEF M!YearIn, M!Year
<1> QED BY <1>1, <1>2, <1>3, <1>4

LEMMA TicketTypes ==
  ASSUME M!MigrationsAssumption, db \in M!Database, NEW t \in Breakdown \cup Check,
         db.ticket[t] # None
  PROVE  /\ db.ticket[t] \in M!Ticket
         /\ db.ticket[t].done \in BOOLEAN
         /\ db.ticket[t].kind \in M!SourceKind \cup {None, M!OfEntry}
         /\ db.ticket[t].number \in M!Number \cup {None}
<1>1. db.ticket[t] \in M!Ticket
  BY DatabaseTypes
<1> QED BY <1>1 DEF M!Ticket

\* Moves of a column, the others as they were.
LEMMA FaultsMove ==
  ASSUME db \in M!Database, NEW X, X \in [Breakdown -> M!Fault \cup {None}],
         db' = [db EXCEPT !.fault = X]
  PROVE  /\ db' \in M!Database /\ db'.fault = X /\ db'.ticket = db.ticket
         /\ db'.next = db.next /\ db'.driver = db.driver
BY DEF M!Database
LEMMA TicketsMove ==
  ASSUME db \in M!Database, NEW X, X \in [Breakdown \cup Check -> M!Ticket \cup {None}],
         db' = [db EXCEPT !.ticket = X]
  PROVE  /\ db' \in M!Database /\ db'.fault = db.fault /\ db'.ticket = X
         /\ db'.next = db.next /\ db'.driver = db.driver
BY DEF M!Database
LEMMA DriversMove ==
  ASSUME db \in M!Database,
         NEW X, X \in [Driver -> [code : M!DriverCode, name : M!DriverCode] \cup {None}],
         db' = [db EXCEPT !.driver = X]
  PROVE  /\ db' \in M!Database /\ db'.fault = db.fault /\ db'.ticket = db.ticket
         /\ db'.next = db.next /\ db'.driver = X
BY DEF M!Database
LEMMA CountersMove ==
  ASSUME db \in M!Database, NEW X, X \in [{"entry", "ticket"} \X M!Year -> Nat],
         db' = [db EXCEPT !.next = X]
  PROVE  /\ db' \in M!Database /\ db'.fault = db.fault /\ db'.ticket = db.ticket
         /\ db'.next = X /\ db'.driver = db.driver
BY DEF M!Database
LEMMA StockMoves ==
  ASSUME db \in M!Database, NEW X, X \in SUBSET Part, db' = [db EXCEPT !.stock = X]
  PROVE  /\ db' \in M!Database /\ db'.fault = db.fault /\ db'.ticket = db.ticket
         /\ db'.next = db.next /\ db'.driver = db.driver
BY DEF M!Database
LEMMA TypesMove ==
  ASSUME db \in M!Database,
         NEW X, X \in [WorkType -> [code : Code, kind : M!SourceKind \cup {None}]],
         db' = [db EXCEPT !.type = X]
  PROVE  /\ db' \in M!Database /\ db'.fault = db.fault /\ db'.ticket = db.ticket
         /\ db'.next = db.next /\ db'.driver = db.driver
BY DEF M!Database
LEMMA SessionMoves ==
  ASSUME db \in M!Database,
         NEW X, X \in [ticket : Breakdown \cup {None}, parts : SUBSET Part],
         db' = [db EXCEPT !.session = X]
  PROVE  /\ db' \in M!Database /\ db'.fault = db.fault /\ db'.ticket = db.ticket
         /\ db'.next = db.next /\ db'.driver = db.driver
BY DEF M!Database
LEMMA SessionEmpties ==
  ASSUME db \in M!Database,
         \/ db' = [db EXCEPT !.session.ticket = None]
         \/ db' = [db EXCEPT !.session.parts = {}]
  PROVE  /\ db' \in M!Database /\ db'.fault = db.fault /\ db'.ticket = db.ticket
         /\ db'.next = db.next /\ db'.driver = db.driver
<1>1. /\ [db.session EXCEPT !.ticket = None] \in [ticket : Breakdown \cup {None}, parts : SUBSET Part]
      /\ [db.session EXCEPT !.parts = {}] \in [ticket : Breakdown \cup {None}, parts : SUBSET Part]
  BY DatabaseTypes
<1>2. CASE db' = [db EXCEPT !.session.ticket = None]
  <2>1. db' = [db EXCEPT !.session = [db.session EXCEPT !.ticket = None]]
    BY <1>2
  <2> QED BY <1>1, <2>1, SessionMoves
<1>3. CASE db' = [db EXCEPT !.session.parts = {}]
  <2>1. db' = [db EXCEPT !.session = [db.session EXCEPT !.parts = {}]]
    BY <1>3
  <2> QED BY <1>1, <2>1, SessionMoves
<1> QED BY <1>2, <1>3

-----------------------------------------------------------------------------
(* Numbers by year: of two rows of a year the later counts what the earlier *)
(* does, and itself.                                                        *)
Upto(B, b) == {a \in M!OfYear(B, M!YearIn(b)) : a = b \/ M!Earlier(a, b)}

LEMMA YearsAreCounted ==
  ASSUME M!MigrationsAssumption, db \in M!Database, NEW B, B \subseteq M!Filed, NEW y
  PROVE  /\ IsFiniteSet(M!OfYear(B, y)) /\ M!Cardinality(M!OfYear(B, y)) \in Nat
         /\ M!OfYear(B, y) \subseteq B
<1>1. M!OfYear(B, y) \subseteq Breakdown /\ M!OfYear(B, y) \subseteq B
  BY FiledTypes DEF M!OfYear
<1>2. IsFiniteSet(Breakdown)
  BY MigrationsCount DEF M!MigrationsAssumption
<1>3. IsFiniteSet(M!OfYear(B, y))
  BY <1>1, <1>2, FS_Subset
<1> QED BY <1>1, <1>3, MigrationsCount, FS_CardinalityType

LEMMA RanksCount ==
  ASSUME M!MigrationsAssumption, db \in M!Database, NEW B, B \subseteq M!Filed, NEW b \in B
  PROVE  /\ M!Rank(B, b) \in Nat \ {0}
         /\ M!Rank(B, b) <= M!Cardinality(M!OfYear(B, M!YearIn(b)))
         /\ IsFiniteSet(Upto(B, b)) /\ M!Rank(B, b) = Cardinality(Upto(B, b))
<1>1. Upto(B, b) \subseteq M!OfYear(B, M!YearIn(b)) /\ b \in Upto(B, b)
  BY DEF Upto, M!OfYear
<1>2. M!Rank(B, b) = Cardinality(Upto(B, b))
  BY MigrationsCount DEF M!Rank, Upto
<1>3. IsFiniteSet(M!OfYear(B, M!YearIn(b)))
  BY YearsAreCounted
<1>4. /\ IsFiniteSet(Upto(B, b))
      /\ Cardinality(Upto(B, b)) <= Cardinality(M!OfYear(B, M!YearIn(b)))
  BY <1>1, <1>3, FS_Subset
<1>5. Cardinality(Upto(B, b)) \in Nat /\ Cardinality(Upto(B, b)) # 0
  BY <1>1, <1>4, FS_CardinalityType, FS_EmptySet
<1> QED BY <1>2, <1>4, <1>5, MigrationsCount

LEMMA EarlierRanksLower ==
  ASSUME M!MigrationsAssumption, db \in M!Database, NEW B, B \subseteq M!Filed,
         NEW a \in B, NEW b \in B, M!YearIn(a) = M!YearIn(b), M!Earlier(a, b)
  PROVE  M!Rank(B, a) < M!Rank(B, b)
<1>1. a \in Int /\ b \in Int /\ db.fault[a].day \in Int /\ db.fault[b].day \in Int
  BY FiledTypes DEF M!MigrationsAssumption
<1>2. Upto(B, a) \subseteq Upto(B, b)
  <2>1. ASSUME NEW c \in Upto(B, a) PROVE c \in Upto(B, b)
    <3>1. c \in B /\ c \in M!OfYear(B, M!YearIn(b)) /\ (c = a \/ M!Earlier(c, a))
      BY <2>1 DEF Upto, M!OfYear
    <3>2. c \in Int /\ db.fault[c].day \in Int
      BY <3>1, FiledTypes DEF M!MigrationsAssumption
    <3>3. M!Earlier(c, b)
      BY <1>1, <3>1, <3>2 DEF M!Earlier
    <3> QED BY <3>1, <3>3 DEF Upto
  <2> QED BY <2>1
<1>3. b \in Upto(B, b) /\ b \notin Upto(B, a)
  BY <1>1 DEF Upto, M!OfYear, M!Earlier
<1>4. /\ IsFiniteSet(Upto(B, b)) /\ M!Rank(B, b) = Cardinality(Upto(B, b))
      /\ IsFiniteSet(Upto(B, a)) /\ M!Rank(B, a) = Cardinality(Upto(B, a))
      /\ M!Rank(B, b) \in Nat /\ M!Rank(B, a) \in Nat
  BY RanksCount
<1>5. /\ Cardinality(Upto(B, a)) <= Cardinality(Upto(B, b))
      /\ Cardinality(Upto(B, b)) = Cardinality(Upto(B, a)) => Upto(B, b) = Upto(B, a)
  BY <1>2, <1>4, FS_Subset
<1> QED BY <1>3, <1>4, <1>5

LEMMA MigratedNumbersFit ==
  ASSUME M!MigrationsAssumption, db \in M!Database, NEW B, B \subseteq M!Filed,
         NEW table \in {"entry", "ticket"}
  PROVE  /\ NumbersFit(M!Counted(table, B), table, [b \in B |-> <<M!YearIn(b), M!Rank(B, b)>>])
         /\ M!Counted(table, B) \in [{"entry", "ticket"} \X M!Year -> Nat]
         /\ \A other \in {"entry", "ticket"} : other # table =>
              \A y \in M!Year : M!Counted(table, B)[<<other, y>>] = db.next[<<other, y>>]
<1> DEFINE next == M!Counted(table, B)
           num == [b \in B |-> <<M!YearIn(b), M!Rank(B, b)>>]
<1>1. /\ db.next \in [{"entry", "ticket"} \X M!Year -> Nat]
      /\ DOMAIN db.next = {"entry", "ticket"} \X M!Year
  BY DatabaseTypes
<1>2. \A k \in {"entry", "ticket"} \X M!Year :
        next[k] = IF k[1] = table /\ M!OfYear(B, k[2]) # {}
                  THEN M!Cardinality(M!OfYear(B, k[2])) + 1 ELSE db.next[k]
  BY <1>1 DEF M!Counted
<1>3. next \in [{"entry", "ticket"} \X M!Year -> Nat]
  <2>1. \A y : M!Cardinality(M!OfYear(B, y)) + 1 \in Nat
    BY YearsAreCounted
  <2> QED BY <1>1, <2>1 DEF M!Counted
<1>4. ASSUME NEW b \in B
      PROVE  \E y \in M!Year, n \in Nat \ {0} : num[b] = <<y, n>> /\ n < next[<<table, y>>]
  <2>1. M!YearIn(b) \in M!Year /\ M!Rank(B, b) \in Nat \ {0} /\ num[b] = <<M!YearIn(b), M!Rank(B, b)>>
    BY FiledTypes, RanksCount
  <2>2. M!OfYear(B, M!YearIn(b)) # {}
    BY DEF M!OfYear
  <2>3. next[<<table, M!YearIn(b)>>] = M!Cardinality(M!OfYear(B, M!YearIn(b))) + 1
    <3> HIDE DEF next
    <3> QED BY <1>2, <2>1, <2>2
  <2>4. /\ M!Rank(B, b) <= M!Cardinality(M!OfYear(B, M!YearIn(b)))
        /\ M!Cardinality(M!OfYear(B, M!YearIn(b))) \in Nat
    BY RanksCount, YearsAreCounted
  <2> HIDE DEF next, num
  <2> QED BY <2>1, <2>3, <2>4
<1>5. ASSUME NEW a \in B, NEW b \in B, num[a] = num[b] PROVE a = b
  <2>1. M!YearIn(a) = M!YearIn(b) /\ M!Rank(B, a) = M!Rank(B, b) /\ M!Rank(B, a) \in Nat
    BY <1>5, RanksCount
  <2>2. a \in Int /\ b \in Int /\ db.fault[a].day \in Int /\ db.fault[b].day \in Int
    BY FiledTypes DEF M!MigrationsAssumption
  <2>3. a = b \/ M!Earlier(a, b) \/ M!Earlier(b, a)
    BY <2>2 DEF M!Earlier
  <2>4. ~M!Earlier(a, b) /\ ~M!Earlier(b, a)
    BY <2>1, EarlierRanksLower
  <2> QED BY <2>3, <2>4
<1>6. NumbersFit(next, table, num)
  <2>1. DOMAIN num = B
    OBVIOUS
  <2> HIDE DEF next, num
  <2> QED BY <1>4, <1>5, <2>1 DEF NumbersFit
<1>7. ASSUME NEW other \in {"entry", "ticket"}, other # table, NEW y \in M!Year
      PROVE  next[<<other, y>>] = db.next[<<other, y>>]
  <2> HIDE DEF next
  <2> QED BY <1>2, <1>7
<1> QED BY <1>3, <1>6, <1>7

\* A row is numbered by the counter of its year, which moves past it.
Files(next, next2, table, num, num2, b, y, n) ==
  /\ table \in {"entry", "ticket"} /\ y \in M!Year /\ n \in Nat
  /\ next \in [{"entry", "ticket"} \X M!Year -> Nat]
  /\ n = (IF next[<<table, y>>] = 0 THEN 1 ELSE next[<<table, y>>])
  /\ next2[<<table, y>>] = n + 1
  /\ \A z \in M!Year : z # y => next2[<<table, z>>] = next[<<table, z>>]
  /\ b \notin DOMAIN num /\ DOMAIN num2 = DOMAIN num \cup {b}
  /\ \A a \in DOMAIN num : num2[a] = num[a]
  /\ num2[b] = <<y, n>>

LEMMA FiledNumbersFit ==
  ASSUME NEW table, NEW next, NEW next2, NEW num, NEW num2, NEW b, NEW y, NEW n,
         Files(next, next2, table, num, num2, b, y, n), NumbersFit(next, table, num)
  PROVE  NumbersFit(next2, table, num2)
<1>0. /\ table \in {"entry", "ticket"} /\ y \in M!Year /\ n \in Nat
      /\ next \in [{"entry", "ticket"} \X M!Year -> Nat]
      /\ n = (IF next[<<table, y>>] = 0 THEN 1 ELSE next[<<table, y>>])
      /\ next2[<<table, y>>] = n + 1
      /\ \A z \in M!Year : z # y => next2[<<table, z>>] = next[<<table, z>>]
      /\ b \notin DOMAIN num /\ DOMAIN num2 = DOMAIN num \cup {b}
      /\ \A a \in DOMAIN num : num2[a] = num[a]
      /\ num2[b] = <<y, n>>
  BY DEF Files
<1>1. next[<<table, y>>] \in Nat /\ n \in Nat \ {0} /\ n < n + 1 /\ next[<<table, y>>] <= n
  BY <1>0
<1>2. ASSUME NEW a \in DOMAIN num
      PROVE  /\ \E z \in M!Year, m \in Nat \ {0} : num2[a] = <<z, m>> /\ m < next2[<<table, z>>]
             /\ num2[a] # num2[b]
  <2>1. PICK z \in M!Year, m \in Nat \ {0} : num[a] = <<z, m>> /\ m < next[<<table, z>>]
    BY DEF NumbersFit
  <2>2. next[<<table, z>>] \in Nat
    BY <1>0, <2>1
  <2>3. m < next2[<<table, z>>]
    BY <1>0, <1>1, <2>1, <2>2
  <2>4. <<z, m>> # <<y, n>>
    BY <1>0, <1>1, <2>1, <2>2
  <2> QED BY <1>0, <2>1, <2>3, <2>4
<1>3. ASSUME NEW a \in DOMAIN num, NEW c \in DOMAIN num, num2[a] = num2[c] PROVE a = c
  BY <1>0, <1>3 DEF NumbersFit
<1>4. \E z \in M!Year, m \in Nat \ {0} : num2[b] = <<z, m>> /\ m < next2[<<table, z>>]
  BY <1>0, <1>1
<1> QED BY <1>0, <1>2, <1>3, <1>4 DEF NumbersFit

\* Numbers fit again where only counters of other tables moved.
LEMMA NumbersStillFit ==
  ASSUME NEW table, NEW next, NEW next2, NEW num, NumbersFit(next, table, num),
         \A y \in M!Year : next2[<<table, y>>] = next[<<table, y>>]
  PROVE  NumbersFit(next2, table, num)
BY DEF NumbersFit

-----------------------------------------------------------------------------
(* What a step leaves alone stays true.                                     *)
DriversApart ==
  \A a, b \in M!Naming :
    /\ db'.fault[a].driver # None
    /\ db'.fault[a].driver = db'.fault[b].driver <=> db.fault[a].driver = db.fault[b].driver

LEMMA DriversCarried ==
  ASSUME DriversKnown, M!Filed' = M!Filed, db'.driver = db.driver,
         \A b \in M!Filed : db'.fault[b].driver = db.fault[b].driver, rev < 34 <=> rev' < 34,
         rev \in M!Revision, rev' \in M!Revision
  PROVE  DriversKnown' /\ DriversApart
<1>1. M!Rows' = M!Rows /\ M!Naming' = M!Naming
  BY DEF M!Rows, M!Naming
<1>2. rev >= 34 <=> rev' >= 34
  BY DEF M!Revision
<1>3. M!DriverCode' = M!DriverCode
  BY DEF M!DriverCode, M!Legacy
<1>4. CodesDiffer'
  BY <1>1 DEF DriversKnown, CodesDiffer
<1>5. DriversKnown'
  BY <1>1, <1>2, <1>3, <1>4 DEF DriversKnown, M!Naming
<1>6. DriversApart
  BY DEF DriversApart, M!Naming
<1> QED BY <1>5, <1>6

LEMMA TicketsCarried ==
  ASSUME TicketsFollow, M!Filed' = M!Filed,
         \A b \in M!Filed :
           /\ db'.fault[b].resolved = db.fault[b].resolved
           /\ db'.ticket[b] # None => db.ticket[b] # None /\ db'.ticket[b].done = db.ticket[b].done
           /\ rev' >= 29 => rev >= 29 /\ (db.ticket[b] # None => db'.ticket[b] # None)
  PROVE  TicketsFollow'
BY DEF TicketsFollow

LEMMA ChecksCarried ==
  ASSUME ChecksRaise, rev \in M!Revision, rev' \in M!Revision,
         \A f \in Check : db'.ticket[f] # None =>
           /\ db.ticket[f] # None /\ db'.ticket[f].kind = db.ticket[f].kind
           /\ rev >= 30 => rev' >= 30
  PROVE  ChecksRaise'
BY DEF ChecksRaise, M!SourceKind

LEMMA NumbersCarried ==
  ASSUME Numbered, M!Filed' = M!Filed, db'.next = db.next,
         rev' >= 36 => rev >= 36 /\ \A b \in M!Filed : db'.fault[b].number = db.fault[b].number,
         rev' >= 37 => rev >= 37 /\ \A b \in M!Filed : db'.ticket[b].number = db.ticket[b].number
  PROVE  Numbered'
<1>1. ASSUME rev' >= 36 PROVE NumbersFit(db.next, "entry", EntryNumbers)'
  <2>1. EntryNumbers' = EntryNumbers
    BY <1>1 DEF EntryNumbers
  <2>2. NumbersFit(db.next, "entry", EntryNumbers)
    BY <1>1 DEF Numbered
  <2> QED BY <2>1, <2>2 DEF NumbersFit, M!Year
<1>2. ASSUME rev' >= 37 PROVE NumbersFit(db.next, "ticket", TicketNumbers)'
  <2>1. TicketNumbers' = TicketNumbers
    BY <1>2 DEF TicketNumbers
  <2>2. NumbersFit(db.next, "ticket", TicketNumbers)
    BY <1>2 DEF Numbered
  <2> QED BY <2>1, <2>2 DEF NumbersFit, M!Year
<1> QED BY <1>1, <1>2 DEF Numbered

\* A move along the revisions that changes none of these columns.
LEMMA Unmoved ==
  ASSUME MigrationsInv, rev' \in M!Revision, db' \in M!Database, db'.fault = db.fault,
         db'.ticket = db.ticket, db'.next = db.next, db'.driver = db.driver,
         rev' >= 29 => rev >= 29, rev < 34 <=> rev' < 34, rev' >= 36 => rev >= 36,
         rev' >= 37 => rev >= 37,
         \A f \in Check : db.ticket[f] # None => rev' >= 30
  PROVE  MigrationsInv' /\ DriversApart
<1>1. M!Filed' = M!Filed
  BY DEF M!Filed
<1>2. DriversKnown' /\ DriversApart
  BY <1>1, DriversCarried DEF MigrationsInv
<1>3. TicketsFollow'
  BY <1>1, TicketsCarried DEF MigrationsInv
<1>4. ChecksRaise'
  BY ChecksCarried DEF MigrationsInv
<1>5. Numbered'
  BY <1>1, NumbersCarried DEF MigrationsInv
<1> QED BY <1>2, <1>3, <1>4, <1>5 DEF MigrationsInv, M!Revision, M!Database, M!Fault, M!Ticket, M!Number, M!Year, M!DriverCode, M!Legacy, M!SourceKind

\* A move that rewrites tickets only.
LEMMA TicketsAltered ==
  ASSUME MigrationsInv, rev' \in M!Revision, db' \in M!Database, db'.fault = db.fault,
         db'.next = db.next, db'.driver = db.driver, rev < 34 <=> rev' < 34,
         \A b \in M!Filed : 
           /\ db'.ticket[b] # None => db.ticket[b] # None /\ db'.ticket[b].done = db.ticket[b].done
           /\ rev' >= 29 => rev >= 29 /\ (db.ticket[b] # None => db'.ticket[b] # None)
           /\ rev' >= 37 => db'.ticket[b].number = db.ticket[b].number,
         rev' >= 36 => rev >= 36, rev' >= 37 => rev >= 37,
         \A f \in Check : db'.ticket[f] # None =>
           /\ db.ticket[f] # None /\ db'.ticket[f].kind = db.ticket[f].kind
           /\ rev >= 30 => rev' >= 30
  PROVE  MigrationsInv' /\ DriversApart
<1>1. M!Filed' = M!Filed
  BY DEF M!Filed
<1>2. DriversKnown' /\ DriversApart
  BY <1>1, DriversCarried DEF MigrationsInv
<1>3. TicketsFollow'
  BY <1>1, TicketsCarried DEF MigrationsInv
<1>4. ChecksRaise'
  BY ChecksCarried DEF MigrationsInv
<1>5. Numbered'
  BY <1>1, NumbersCarried DEF MigrationsInv
<1> QED BY <1>2, <1>3, <1>4, <1>5 DEF MigrationsInv, M!Revision, M!Database, M!Fault, M!Ticket, M!Number, M!Year, M!DriverCode, M!Legacy, M!SourceKind

LEMMA NoTicketStep ==
  ASSUME M!MigrationsAssumption, MigrationsInv, rev' \in M!Revision, rev' < 25, rev < 29,
         db' = [db EXCEPT !.ticket = M!NoTicket]
  PROVE  MigrationsInv' /\ DriversApart
<1>1. M!NoTicket \in [Breakdown \cup Check -> M!Ticket \cup {None}]
  BY DEF M!NoTicket
<1>2. \A t \in Breakdown \cup Check : M!NoTicket[t] = None
  BY DEF M!NoTicket
<1>3. /\ db' \in M!Database /\ db'.fault = db.fault /\ db'.ticket = M!NoTicket
      /\ db'.next = db.next /\ db'.driver = db.driver
  BY <1>1, TicketsMove DEF MigrationsInv
<1>4. M!Filed \subseteq Breakdown
  BY DEF M!Filed
<1>5. rev < 34 /\ rev' < 34 /\ ~(rev' >= 29) /\ ~(rev' >= 36) /\ ~(rev' >= 37)
  BY DEF M!Revision, MigrationsInv
<1> QED BY <1>2, <1>3, <1>4, <1>5, TicketsAltered

LEMMA Up29Step ==
  ASSUME M!MigrationsAssumption, MigrationsInv, rev = 25, rev' = 29, db' = M!Up29
  PROVE  MigrationsInv' /\ DriversApart
<1> DEFINE X == [t \in Breakdown \cup Check |->
                   IF t \in M!Filed /\ db.ticket[t] = None THEN M!Backfilled(t) ELSE db.ticket[t]]
<1>1. ASSUME NEW b \in M!Filed
      PROVE  /\ M!Backfilled(b) \in M!Ticket /\ M!Backfilled(b) # None
             /\ M!Backfilled(b).done = db.fault[b].resolved
  <2>1. db.fault[b].resolved \in BOOLEAN
    BY FiledTypes DEF MigrationsInv
  <2>2. M!Backfilled(b) \in M!Ticket /\ M!Backfilled(b).done = db.fault[b].resolved
    BY <2>1 DEF M!Backfilled, M!Ticket
  <2> QED BY <2>2 DEF M!MigrationsAssumption
<1>2. db.ticket \in [Breakdown \cup Check -> M!Ticket \cup {None}]
  BY DatabaseTypes DEF MigrationsInv
<1>3. X \in [Breakdown \cup Check -> M!Ticket \cup {None}]
  BY <1>1, <1>2
<1>4. db' = [db EXCEPT !.ticket = X]
  BY DEF M!Up29
<1>5. /\ db' \in M!Database /\ db'.fault = db.fault /\ db'.ticket = X
      /\ db'.next = db.next /\ db'.driver = db.driver
  <2> HIDE DEF X
  <2> QED BY <1>3, <1>4, TicketsMove DEF MigrationsInv
<1>6. M!Filed' = M!Filed /\ M!Filed \subseteq Breakdown /\ M!Filed \cap Check = {}
  BY <1>5 DEF M!Filed, M!MigrationsAssumption
<1>7. DriversKnown' /\ DriversApart
  BY <1>5, <1>6, DriversCarried DEF MigrationsInv, M!Revision
<1>8. TicketsFollow'
  <2>1. ASSUME NEW b \in M!Filed
        PROVE  X[b] # None /\ X[b].done = db.fault[b].resolved
    <3>1. X[b] = IF db.ticket[b] = None THEN M!Backfilled(b) ELSE db.ticket[b]
      BY <1>6
    <3> QED BY <1>1, <3>1 DEF MigrationsInv, TicketsFollow
  <2> HIDE DEF X
  <2> QED BY <1>5, <1>6, <2>1 DEF TicketsFollow
<1>9. ChecksRaise'
  <2>1. \A f \in Check : X[f] = db.ticket[f]
    BY <1>6
  <2> HIDE DEF X
  <2>2. \A f \in Check : db.ticket[f] = None
    BY DEF MigrationsInv, ChecksRaise
  <2> QED BY <1>5, <2>1, <2>2 DEF ChecksRaise
<1>10. Numbered'
  BY DEF Numbered
<1> QED BY <1>5, <1>7, <1>8, <1>9, <1>10 DEF MigrationsInv, M!Revision

\* The tickets there are, with one of their fields set.
LEMMA TicketFieldSet ==
  ASSUME M!MigrationsAssumption, db \in M!Database, NEW X,
         \A t \in Breakdown \cup Check : db.ticket[t] = None => X[t] = None,
         \A t \in Breakdown \cup Check : db.ticket[t] # None =>
           \/ \E k \in M!SourceKind \cup {None, M!OfEntry} : X[t] = [db.ticket[t] EXCEPT !.kind = k]
           \/ \E n \in M!Number \cup {None} : X[t] = [db.ticket[t] EXCEPT !.number = n],
         X = [t \in Breakdown \cup Check |-> X[t]],
         db' = [db EXCEPT !.ticket = X]
  PROVE  /\ db' \in M!Database /\ db'.fault = db.fault /\ db'.ticket = X
         /\ db'.next = db.next /\ db'.driver = db.driver
         /\ \A t \in Breakdown \cup Check : db.ticket[t] # None =>
              X[t] # None /\ X[t].done = db.ticket[t].done
<1>1. ASSUME NEW t \in Breakdown \cup Check, db.ticket[t] # None
      PROVE  X[t] \in M!Ticket /\ X[t].done = db.ticket[t].done
  <2>1. db.ticket[t] \in M!Ticket
    BY <1>1, TicketTypes
  <2>2. ASSUME NEW k \in M!SourceKind \cup {None, M!OfEntry}
        PROVE  /\ [db.ticket[t] EXCEPT !.kind = k] \in M!Ticket
               /\ [db.ticket[t] EXCEPT !.kind = k].done = db.ticket[t].done
    BY <2>1 DEF M!Ticket
  <2>3. ASSUME NEW n \in M!Number \cup {None}
        PROVE  /\ [db.ticket[t] EXCEPT !.number = n] \in M!Ticket
               /\ [db.ticket[t] EXCEPT !.number = n].done = db.ticket[t].done
    BY <2>1 DEF M!Ticket
  <2>4. CASE \E k \in M!SourceKind \cup {None, M!OfEntry} : X[t] = [db.ticket[t] EXCEPT !.kind = k]
    BY <2>2, <2>4
  <2>5. CASE \E n \in M!Number \cup {None} : X[t] = [db.ticket[t] EXCEPT !.number = n]
    BY <2>3, <2>5
  <2> QED BY <1>1, <2>4, <2>5
<1>2. X \in [Breakdown \cup Check -> M!Ticket \cup {None}]
  BY <1>1
<1>3. \A t \in Breakdown \cup Check : X[t] \in M!Ticket => X[t] # None
  BY DEF M!MigrationsAssumption
<1> QED BY <1>1, <1>2, <1>3, TicketsMove

LEMMA KindSetStep ==
  ASSUME M!MigrationsAssumption, MigrationsInv, NEW k \in {None, M!OfEntry},
         rev \in {29, 30}, rev' \in {29, 30}, \A f \in Check : db.ticket[f] = None,
         db' = [db EXCEPT !.ticket = [t \in Breakdown \cup Check |->
                  IF db.ticket[t] = None THEN None ELSE [db.ticket[t] EXCEPT !.kind = k]]]
  PROVE  MigrationsInv' /\ DriversApart
<1> DEFINE X == [t \in Breakdown \cup Check |->
                   IF db.ticket[t] = None THEN None ELSE [db.ticket[t] EXCEPT !.kind = k]]
<1>1. \A t \in Breakdown \cup Check :
        X[t] = IF db.ticket[t] = None THEN None ELSE [db.ticket[t] EXCEPT !.kind = k]
  OBVIOUS
<1>2. X = [t \in Breakdown \cup Check |-> X[t]] /\ db' = [db EXCEPT !.ticket = X]
  OBVIOUS
<1> HIDE DEF X
<1>0. /\ \A t \in Breakdown \cup Check : db.ticket[t] = None => X[t] = None
      /\ \A t \in Breakdown \cup Check : db.ticket[t] # None =>
           \/ \E k1 \in M!SourceKind \cup {None, M!OfEntry} : X[t] = [db.ticket[t] EXCEPT !.kind = k1]
           \/ \E n \in M!Number \cup {None} : X[t] = [db.ticket[t] EXCEPT !.number = n]
  BY <1>1
<1>3. /\ db' \in M!Database /\ db'.fault = db.fault /\ db'.ticket = X
      /\ db'.next = db.next /\ db'.driver = db.driver
      /\ \A t \in Breakdown \cup Check : db.ticket[t] # None =>
           X[t] # None /\ X[t].done = db.ticket[t].done
  <2>1. db \in M!Database
    BY DEF MigrationsInv
  <2> QED BY <1>0, <1>2, <2>1, TicketFieldSet
<1>4. M!Filed \subseteq Breakdown
  BY DEF M!Filed
<1> QED BY <1>1, <1>3, <1>4, TicketsAltered DEF M!Revision

LEMMA Down37Step ==
  ASSUME M!MigrationsAssumption, MigrationsInv, rev = 37, rev' = 36, db' = M!Down37
  PROVE  MigrationsInv' /\ DriversApart
<1> DEFINE X == [t \in Breakdown \cup Check |->
                   IF db.ticket[t] = None THEN None ELSE [db.ticket[t] EXCEPT !.number = None]]
<1>1. \A t \in Breakdown \cup Check :
        X[t] = IF db.ticket[t] = None THEN None ELSE [db.ticket[t] EXCEPT !.number = None]
  OBVIOUS
<1>2. X = [t \in Breakdown \cup Check |-> X[t]] /\ db' = [db EXCEPT !.ticket = X]
  BY DEF M!Down37
<1> HIDE DEF X
<1>0. /\ \A t \in Breakdown \cup Check : db.ticket[t] = None => X[t] = None
      /\ \A t \in Breakdown \cup Check : db.ticket[t] # None =>
           \/ \E k1 \in M!SourceKind \cup {None, M!OfEntry} : X[t] = [db.ticket[t] EXCEPT !.kind = k1]
           \/ \E n \in M!Number \cup {None} : X[t] = [db.ticket[t] EXCEPT !.number = n]
  BY <1>1
<1>3. /\ db' \in M!Database /\ db'.fault = db.fault /\ db'.ticket = X
      /\ db'.next = db.next /\ db'.driver = db.driver
      /\ \A t \in Breakdown \cup Check : db.ticket[t] # None =>
           X[t] # None /\ X[t].done = db.ticket[t].done
  <2>1. db \in M!Database
    BY DEF MigrationsInv
  <2> QED BY <1>0, <1>2, <2>1, TicketFieldSet
<1>4. M!Filed \subseteq Breakdown
  BY DEF M!Filed
<1>5. ASSUME NEW f \in Check, X[f] # None
      PROVE  db.ticket[f] # None /\ X[f].kind = db.ticket[f].kind
  <2>1. db.ticket[f] # None /\ db.ticket[f] \in M!Ticket
    BY <1>1, <1>5, TicketTypes DEF MigrationsInv
  <2> QED BY <1>1, <2>1 DEF M!Ticket
<1>6. /\ \A b \in M!Filed : db'.ticket[b] # None => db.ticket[b] # None /\ db'.ticket[b].done = db.ticket[b].done
      /\ \A b \in M!Filed : db.ticket[b] # None => db'.ticket[b] # None
  BY <1>1, <1>3, <1>4
<1>7. rev >= 29 /\ ~(rev' >= 37) /\ rev' >= 30 /\ rev >= 36 /\ rev' \in M!Revision /\ ~(rev < 34) /\ ~(rev' < 34)
  BY DEF M!Revision
<1> QED BY <1>3, <1>5, <1>6, <1>7, TicketsAltered

LEMMA Up37Step ==
  ASSUME M!MigrationsAssumption, MigrationsInv, rev = 36, rev' = 37, db' = M!Up37
  PROVE  MigrationsInv' /\ DriversApart
<1> DEFINE X == [t \in Breakdown \cup Check |-> IF t \in M!Ticketed
                   THEN [db.ticket[t] EXCEPT !.number = <<M!YearIn(t), M!Rank(M!Ticketed, t)>>]
                   ELSE db.ticket[t]]
           N == M!Counted("ticket", M!Ticketed)
           mid == [db EXCEPT !.ticket = X]
<1>1. M!Ticketed = M!Filed
  <2>1. \A b \in M!Filed : db.ticket[b] # None
    BY DEF MigrationsInv, TicketsFollow
  <2> QED BY <2>1 DEF M!Ticketed
<1>2. /\ NumbersFit(N, "ticket", [b \in M!Filed |-> <<M!YearIn(b), M!Rank(M!Filed, b)>>])
      /\ N \in [{"entry", "ticket"} \X M!Year -> Nat]
      /\ \A y \in M!Year : N[<<"entry", y>>] = db.next[<<"entry", y>>]
  <2> HIDE DEF N
  <2>1. N = M!Counted("ticket", M!Filed)
    BY <1>1 DEF N
  <2> QED BY <2>1, MigratedNumbersFit DEF MigrationsInv
<1>3. /\ M!Filed \subseteq Breakdown /\ M!Filed \cap Check = {}
      /\ \A t \in Breakdown \cup Check : t \notin M!Filed => X[t] = db.ticket[t]
  BY <1>1 DEF M!Filed, M!MigrationsAssumption
<1>4. ASSUME NEW b \in M!Filed
      PROVE  /\ db.ticket[b] # None /\ X[b] \in M!Ticket /\ X[b] # None
             /\ X[b].done = db.ticket[b].done
             /\ X[b].number = <<M!YearIn(b), M!Rank(M!Filed, b)>>
  <2>1. db.ticket[b] # None /\ db.ticket[b] \in M!Ticket
    BY <1>3, TicketTypes DEF MigrationsInv, TicketsFollow
  <2>2. <<M!YearIn(b), M!Rank(M!Filed, b)>> \in M!Number
    BY FiledTypes, RanksCount DEF MigrationsInv, M!Number
  <2>3. X[b] = [db.ticket[b] EXCEPT !.number = <<M!YearIn(b), M!Rank(M!Filed, b)>>]
    BY <1>1, <1>3
  <2> HIDE DEF X
  <2>4. /\ X[b] \in M!Ticket /\ X[b].done = db.ticket[b].done
        /\ X[b].number = <<M!YearIn(b), M!Rank(M!Filed, b)>>
    BY <2>1, <2>2, <2>3 DEF M!Ticket
  <2> QED BY <2>1, <2>4 DEF M!MigrationsAssumption
<1>5. X \in [Breakdown \cup Check -> M!Ticket \cup {None}]
  <2>1. X = [t \in Breakdown \cup Check |-> X[t]]
    OBVIOUS
  <2> HIDE DEF X
  <2>2. \A t \in Breakdown \cup Check : X[t] \in M!Ticket \cup {None}
    BY <1>3, <1>4, DatabaseTypes DEF MigrationsInv
  <2> QED BY <2>1, <2>2
<1>6. db' = [db EXCEPT !.ticket = X, !.next = N]
  BY DEF M!Up37
<1> HIDE DEF X, N
<1>7. /\ db' \in M!Database /\ db'.fault = db.fault /\ db'.ticket = X /\ db'.next = N
      /\ db'.driver = db.driver
  BY <1>2, <1>5, <1>6 DEF MigrationsInv, M!Database
<1>8. M!Filed' = M!Filed
  BY <1>7 DEF M!Filed
<1>9. DriversKnown' /\ DriversApart
  BY <1>7, <1>8, DriversCarried DEF MigrationsInv, M!Revision
<1>10. TicketsFollow'
  BY <1>4, <1>7, <1>8 DEF TicketsFollow, MigrationsInv
<1>11. ChecksRaise'
  BY <1>3, <1>7 DEF ChecksRaise, MigrationsInv, M!SourceKind
<1>12. Numbered'
  <2>1. EntryNumbers' = EntryNumbers
    BY <1>7, <1>8 DEF EntryNumbers
  <2>2. TicketNumbers' = [b \in M!Filed |-> <<M!YearIn(b), M!Rank(M!Filed, b)>>]
    BY <1>4, <1>7, <1>8 DEF TicketNumbers
  <2>3. NumbersFit(db.next, "entry", EntryNumbers)
    BY DEF MigrationsInv, Numbered
  <2>4. NumbersFit(N, "entry", EntryNumbers)
    BY <1>2, <2>3, NumbersStillFit
  <2> QED BY <1>2, <1>7, <2>1, <2>2, <2>4 DEF Numbered
<1> QED BY <1>7, <1>9, <1>10, <1>11, <1>12 DEF MigrationsInv, M!Revision

\* A move that rewrites breakdowns, without filing or dropping one.
LEMMA FaultsAltered ==
  ASSUME M!MigrationsAssumption, MigrationsInv, rev' \in M!Revision, NEW X,
         X \in [Breakdown -> M!Fault \cup {None}], db' = [db EXCEPT !.fault = X],
         \A b \in Breakdown : X[b] = None <=> db.fault[b] = None,
         \A b \in M!Filed : X[b].driver = db.fault[b].driver /\ X[b].resolved = db.fault[b].resolved,
         rev' >= 29 => rev >= 29, rev < 34 <=> rev' < 34, rev >= 30 => rev' >= 30,
         rev' >= 36 => rev >= 36 /\ \A b \in M!Filed : X[b].number = db.fault[b].number,
         rev' >= 37 => rev >= 37
  PROVE  MigrationsInv' /\ DriversApart
<1>1. /\ db' \in M!Database /\ db'.fault = X /\ db'.ticket = db.ticket
      /\ db'.next = db.next /\ db'.driver = db.driver
  BY FaultsMove DEF MigrationsInv
<1>2. M!Filed' = M!Filed
  BY <1>1 DEF M!Filed
<1>3. DriversKnown' /\ DriversApart
  BY <1>1, <1>2, DriversCarried DEF MigrationsInv
<1>4. TicketsFollow'
  BY <1>1, <1>2, TicketsCarried DEF MigrationsInv
<1>5. ChecksRaise'
  BY <1>1, ChecksCarried DEF MigrationsInv
<1>6. Numbered'
  BY <1>1, <1>2, NumbersCarried DEF MigrationsInv
<1> QED BY <1>1, <1>3, <1>4, <1>5, <1>6 DEF MigrationsInv, M!Revision

LEMMA Down36Step ==
  ASSUME M!MigrationsAssumption, MigrationsInv, rev = 36, rev' = 35, db' = M!Down36
  PROVE  MigrationsInv' /\ DriversApart
<1> DEFINE X == [b \in Breakdown |->
                   IF b \in M!Filed THEN [db.fault[b] EXCEPT !.number = None] ELSE None]
<1>1. ASSUME NEW b \in M!Filed
      PROVE  /\ X[b] \in M!Fault /\ X[b] # None
             /\ X[b].driver = db.fault[b].driver /\ X[b].resolved = db.fault[b].resolved
  <2>1. b \in Breakdown /\ db.fault[b] \in M!Fault
    BY FiledTypes DEF MigrationsInv
  <2>2. X[b] = [db.fault[b] EXCEPT !.number = None]
    BY <2>1
  <2> HIDE DEF X
  <2>3. /\ X[b] \in M!Fault
        /\ X[b].driver = db.fault[b].driver /\ X[b].resolved = db.fault[b].resolved
    BY <2>1, <2>2 DEF M!Fault
  <2> QED BY <2>3 DEF M!MigrationsAssumption
<1>2. \A b \in Breakdown : b \notin M!Filed => X[b] = None /\ db.fault[b] = None
  BY DEF M!Filed
<1>3. X \in [Breakdown -> M!Fault \cup {None}] /\ db' = [db EXCEPT !.fault = X]
  <2>1. X = [b \in Breakdown |-> X[b]] /\ db' = [db EXCEPT !.fault = X]
    BY DEF M!Down36
  <2> HIDE DEF X
  <2> QED BY <1>1, <1>2, <2>1
<1> HIDE DEF X
<1>4. \A b \in Breakdown : X[b] = None <=> db.fault[b] = None
  BY <1>1, <1>2, FiledTypes DEF MigrationsInv
<1>5. /\ rev' \in M!Revision /\ rev >= 29 /\ ~(rev < 34) /\ ~(rev' < 34) /\ rev' >= 30
      /\ ~(rev' >= 36) /\ ~(rev' >= 37)
  BY DEF M!Revision
<1> QED BY <1>1, <1>3, <1>4, <1>5, FaultsAltered

LEMMA Down40Step ==
  ASSUME M!MigrationsAssumption, MigrationsInv, rev = 40, rev' = 37, db' = M!Down40
  PROVE  MigrationsInv' /\ DriversApart
<1> DEFINE Kept(b) == b \in M!Filed /\ db.fault[b].photos # {}
           X == [b \in Breakdown |->
             IF Kept(b) THEN [db.fault[b] EXCEPT !.photos = {M!Min(db.fault[b].photos)}]
             ELSE db.fault[b]]
<1>1. ASSUME NEW b \in M!Filed
      PROVE  /\ X[b] \in M!Fault /\ X[b] # None
             /\ X[b].driver = db.fault[b].driver /\ X[b].resolved = db.fault[b].resolved
             /\ X[b].number = db.fault[b].number
  <2>1. b \in Breakdown /\ db.fault[b] \in M!Fault /\ db.fault[b].photos \in SUBSET Photo
    BY FiledTypes DEF MigrationsInv
  <2>2. ASSUME Kept(b) PROVE {M!Min(db.fault[b].photos)} \in SUBSET Photo
    <3>1. db.fault[b].photos \in SUBSET Nat /\ db.fault[b].photos # {}
      BY <2>1, <2>2 DEF M!MigrationsAssumption
    <3>2. M!Min(db.fault[b].photos) \in db.fault[b].photos
      BY <3>1, MinIsLeast
    <3> QED BY <2>1, <3>2
  <2>3. X[b] = IF Kept(b) THEN [db.fault[b] EXCEPT !.photos = {M!Min(db.fault[b].photos)}]
               ELSE db.fault[b]
    BY <2>1
  <2> HIDE DEF X, Kept
  <2>4. /\ X[b] \in M!Fault /\ X[b].number = db.fault[b].number
        /\ X[b].driver = db.fault[b].driver /\ X[b].resolved = db.fault[b].resolved
    <3>1. CASE Kept(b)
      <4>1. {M!Min(db.fault[b].photos)} \in SUBSET Photo
        BY <2>2, <3>1
      <4>2. X[b] = [db.fault[b] EXCEPT !.photos = {M!Min(db.fault[b].photos)}]
        BY <2>3, <3>1
      <4> QED BY <2>1, <4>1, <4>2 DEF M!Fault
    <3>2. CASE ~Kept(b)
      BY <2>1, <2>3, <3>2
    <3> QED BY <3>1, <3>2
  <2> QED BY <2>4 DEF M!MigrationsAssumption
<1>2. \A b \in Breakdown : b \notin M!Filed => X[b] = None /\ db.fault[b] = None
  BY DEF M!Filed
<1>3. X \in [Breakdown -> M!Fault \cup {None}] /\ db' = [db EXCEPT !.fault = X]
  <2>1. X = [b \in Breakdown |-> X[b]] /\ db' = [db EXCEPT !.fault = X]
    BY DEF M!Down40
  <2> HIDE DEF X
  <2> QED BY <1>1, <1>2, <2>1
<1> HIDE DEF X
<1>4. \A b \in Breakdown : X[b] = None <=> db.fault[b] = None
  BY <1>1, <1>2, FiledTypes DEF MigrationsInv
<1>5. /\ rev' \in M!Revision /\ rev >= 29 /\ ~(rev < 34) /\ ~(rev' < 34) /\ rev' >= 30
      /\ rev >= 36 /\ rev >= 37
  BY DEF M!Revision
<1> QED BY <1>1, <1>3, <1>4, <1>5, FaultsAltered

LEMMA Up36Step ==
  ASSUME M!MigrationsAssumption, MigrationsInv, rev = 35, rev' = 36, db' = M!Up36
  PROVE  MigrationsInv' /\ DriversApart
<1> DEFINE X == [b \in Breakdown |-> IF b \in M!Filed
                   THEN [db.fault[b] EXCEPT !.number = <<M!YearIn(b), M!Rank(M!Filed, b)>>]
                   ELSE None]
           N == M!Counted("entry", M!Filed)
<1>1. ASSUME NEW b \in M!Filed
      PROVE  /\ X[b] \in M!Fault /\ X[b] # None
             /\ X[b].driver = db.fault[b].driver /\ X[b].resolved = db.fault[b].resolved
             /\ X[b].number = <<M!YearIn(b), M!Rank(M!Filed, b)>>
  <2>1. b \in Breakdown /\ db.fault[b] \in M!Fault
    BY FiledTypes DEF MigrationsInv
  <2>2. X[b] = [db.fault[b] EXCEPT !.number = <<M!YearIn(b), M!Rank(M!Filed, b)>>]
    BY <2>1
  <2>3. <<M!YearIn(b), M!Rank(M!Filed, b)>> \in M!Number
    BY FiledTypes, RanksCount DEF MigrationsInv, M!Number
  <2> HIDE DEF X
  <2>4. /\ X[b] \in M!Fault /\ X[b].number = <<M!YearIn(b), M!Rank(M!Filed, b)>>
        /\ X[b].driver = db.fault[b].driver /\ X[b].resolved = db.fault[b].resolved
    BY <2>1, <2>2, <2>3 DEF M!Fault
  <2> QED BY <2>4 DEF M!MigrationsAssumption
<1>2. \A b \in Breakdown : b \notin M!Filed => X[b] = None /\ db.fault[b] = None
  BY DEF M!Filed
<1>3. X \in [Breakdown -> M!Fault \cup {None}]
  <2>1. X = [b \in Breakdown |-> X[b]]
    OBVIOUS
  <2> HIDE DEF X
  <2> QED BY <1>1, <1>2, <2>1
<1>4. db' = [db EXCEPT !.fault = X, !.next = N]
  BY DEF M!Up36
<1>5. NumbersFit(N, "entry", [b \in M!Filed |-> <<M!YearIn(b), M!Rank(M!Filed, b)>>])
      /\ N \in [{"entry", "ticket"} \X M!Year -> Nat]
  BY MigratedNumbersFit DEF MigrationsInv
<1> HIDE DEF X, N
<1>6. /\ db' \in M!Database /\ db'.fault = X /\ db'.ticket = db.ticket /\ db'.next = N
      /\ db'.driver = db.driver
  BY <1>3, <1>4, <1>5 DEF MigrationsInv, M!Database
<1>7. M!Filed' = M!Filed
  BY <1>1, <1>2, <1>6, FiledTypes DEF M!Filed, MigrationsInv
<1>8. DriversKnown' /\ DriversApart
  BY <1>1, <1>6, <1>7, DriversCarried DEF MigrationsInv, M!Revision
<1>9. TicketsFollow'
  BY <1>1, <1>6, <1>7, TicketsCarried DEF MigrationsInv
<1>10. ChecksRaise'
  BY <1>6, ChecksCarried DEF MigrationsInv, M!Revision
<1>11. Numbered'
  <2>1. EntryNumbers' = [b \in M!Filed |-> <<M!YearIn(b), M!Rank(M!Filed, b)>>]
    BY <1>1, <1>6, <1>7 DEF EntryNumbers
  <2> QED BY <1>5, <1>6, <2>1 DEF Numbered
<1> QED BY <1>6, <1>8, <1>9, <1>10, <1>11 DEF MigrationsInv, M!Revision

LEMMA CountersStep ==
  ASSUME M!MigrationsAssumption, MigrationsInv, rev \in {34, 35}, rev' \in {34, 35},
         db' = [db EXCEPT !.next = [k \in {"entry", "ticket"} \X M!Year |-> 0]]
  PROVE  MigrationsInv' /\ DriversApart
<1> DEFINE X == [k \in {"entry", "ticket"} \X M!Year |-> 0]
<1>1. X \in [{"entry", "ticket"} \X M!Year -> Nat] /\ db' = [db EXCEPT !.next = X]
  OBVIOUS
<1> HIDE DEF X
<1>2. /\ db' \in M!Database /\ db'.fault = db.fault /\ db'.ticket = db.ticket
      /\ db'.driver = db.driver
  BY <1>1, CountersMove DEF MigrationsInv
<1>3. M!Filed' = M!Filed
  BY <1>2 DEF M!Filed
<1>4. DriversKnown' /\ DriversApart
  BY <1>2, <1>3, DriversCarried DEF MigrationsInv, M!Revision
<1>5. TicketsFollow'
  BY <1>2, <1>3, TicketsCarried DEF MigrationsInv
<1>6. ChecksRaise'
  BY <1>2, ChecksCarried DEF MigrationsInv, M!Revision
<1>7. Numbered'
  BY DEF Numbered
<1> QED BY <1>2, <1>4, <1>5, <1>6, <1>7 DEF MigrationsInv, M!Revision

LEMMA NoDriverStep ==
  ASSUME M!MigrationsAssumption, MigrationsInv, rev \in {32, 33}, rev' \in {32, 33},
         db' = [db EXCEPT !.driver = [d \in Driver |-> None]]
  PROVE  MigrationsInv' /\ DriversApart
<1> DEFINE X == [d \in Driver |-> None]
<1>1. /\ X \in [Driver -> [code : M!DriverCode, name : M!DriverCode] \cup {None}]
      /\ \A d \in Driver : X[d] = None
      /\ db' = [db EXCEPT !.driver = X]
  OBVIOUS
<1> HIDE DEF X
<1>2. /\ db' \in M!Database /\ db'.fault = db.fault /\ db'.ticket = db.ticket
      /\ db'.next = db.next /\ db'.driver = X
  BY <1>1, DriversMove DEF MigrationsInv
<1>3. M!Filed' = M!Filed /\ M!Naming' = M!Naming
  BY <1>2 DEF M!Filed, M!Naming
<1>4. DriversKnown' /\ DriversApart
  <2>1. M!Rows' = {}
    BY <1>1, <1>2 DEF M!Rows
  <2>2. \A b \in M!Naming : db.fault[b].driver \in M!DriverCode /\ db.fault[b].driver # None
    BY DEF MigrationsInv, DriversKnown, M!Naming
  <2>3. DriversKnown'
    BY <1>2, <1>3, <2>1, <2>2 DEF DriversKnown, CodesDiffer, M!DriverCode, M!Legacy
  <2> QED BY <1>2, <2>2, <2>3 DEF DriversApart
<1>5. TicketsFollow'
  BY <1>2, <1>3, TicketsCarried DEF MigrationsInv
<1>6. ChecksRaise'
  BY <1>2, ChecksCarried DEF MigrationsInv, M!Revision
<1>7. Numbered'
  BY DEF Numbered
<1> QED BY <1>2, <1>4, <1>5, <1>6, <1>7 DEF MigrationsInv, M!Revision

\* A text becomes a row, and texts that differ rows that differ, under codes
\* nobody has: a fresh id was never made into a code.
LEMMA Up34Step ==
  ASSUME M!MigrationsAssumption, MigrationsInv, rev = 33, rev' = 34,
         NEW at \in M!Assignments, NEW first \in M!Firsts, db' = M!Up34(at, first)
  PROVE  MigrationsInv' /\ DriversApart
<1> DEFINE Record == [code : M!DriverCode, name : M!DriverCode]
           text(d) == CHOOSE x \in M!Texts : at[x] = d
           made == {at[x] : x \in M!Texts}
           D == [d \in Driver |->
                   IF d \notin made THEN db.driver[d]
                   ELSE [code |-> IF M!Taken(first, text(d)) THEN M!Legacy(d) ELSE text(d),
                         name |-> text(d)]]
           X == [b \in Breakdown |->
                   IF b \in M!Naming THEN [db.fault[b] EXCEPT !.driver = at[db.fault[b].driver]]
                   ELSE db.fault[b]]
<1>1. /\ \A b \in M!Naming : db.fault[b].driver \in M!Texts
      /\ M!Texts \subseteq M!DriverCode
  BY DEF MigrationsInv, DriversKnown, M!Texts
<1>2. /\ \A x \in M!Texts : at[x] \in Driver /\ M!Fresh(at[x])
      /\ \A x, y \in M!Texts : at[x] = at[y] => x = y
  BY DEF M!Assignments
<1>3. ASSUME NEW d \in made
      PROVE  text(d) \in M!Texts /\ at[text(d)] = d /\ d \in Driver /\ M!Fresh(d)
  BY <1>2
<1>4. \A x \in M!Texts : text(at[x]) = x /\ at[x] \in made
  BY <1>2
<1>5. /\ \A d \in Driver : d \notin made => D[d] = db.driver[d]
      /\ \A d \in made : D[d] = [code |-> IF M!Taken(first, text(d)) THEN M!Legacy(d) ELSE text(d),
                                 name |-> text(d)]
  BY <1>3
<1>6. /\ \A b \in M!Naming : X[b] = [db.fault[b] EXCEPT !.driver = at[db.fault[b].driver]]
      /\ \A b \in Breakdown : b \notin M!Naming => X[b] = db.fault[b]
      /\ M!Naming \subseteq M!Filed /\ M!Filed \subseteq Breakdown
  BY DEF M!Naming, M!Filed
<1>7. db' = [db EXCEPT !.driver = D, !.fault = X]
  BY DEF M!Up34
<1>8. D = [d \in Driver |-> D[d]] /\ X = [b \in Breakdown |-> X[b]]
  OBVIOUS
<1> HIDE DEF text, made, D, X
<1>9. ASSUME NEW d \in made
      PROVE  /\ D[d] \in Record /\ D[d] # None
             /\ \/ D[d].code = M!Legacy(d)
                \/ D[d].code = text(d) /\ ~M!Taken(first, text(d))
  <2>1. M!Legacy(d) \in M!DriverCode /\ text(d) \in M!DriverCode
    BY <1>1, <1>3 DEF M!DriverCode
  <2>2. D[d] = [code |-> IF M!Taken(first, text(d)) THEN M!Legacy(d) ELSE text(d), name |-> text(d)]
    BY <1>5
  <2>3. D[d] \in Record
    BY <2>1, <2>2
  <2>4. D[d] # None
    BY <2>3 DEF M!MigrationsAssumption
  <2>5. CASE M!Taken(first, text(d))
    BY <2>2, <2>3, <2>4, <2>5
  <2>6. CASE ~M!Taken(first, text(d))
    BY <2>2, <2>3, <2>4, <2>6
  <2> QED BY <2>5, <2>6
<1>10. ASSUME NEW b \in M!Naming
       PROVE  /\ X[b] \in M!Fault /\ X[b] # None /\ X[b].driver = at[db.fault[b].driver]
              /\ X[b].resolved = db.fault[b].resolved
  <2>1. db.fault[b] \in M!Fault /\ at[db.fault[b].driver] \in Driver
    BY <1>1, <1>2, <1>6, FiledTypes DEF MigrationsInv
  <2>2. /\ X[b] \in M!Fault /\ X[b].driver = at[db.fault[b].driver]
        /\ X[b].resolved = db.fault[b].resolved
    BY <1>6, <2>1 DEF M!Fault
  <2> QED BY <2>2 DEF M!MigrationsAssumption
<1>11. D \in [Driver -> Record \cup {None}] /\ X \in [Breakdown -> M!Fault \cup {None}]
  <2>1. \A d \in Driver : D[d] \in Record \cup {None}
    BY <1>5, <1>9, DatabaseTypes DEF MigrationsInv
  <2>2. \A b \in Breakdown : X[b] \in M!Fault \cup {None}
    BY <1>6, <1>10, DatabaseTypes DEF MigrationsInv
  <2> QED BY <1>8, <2>1, <2>2
<1>12. /\ db' \in M!Database /\ db'.fault = X /\ db'.ticket = db.ticket /\ db'.next = db.next
       /\ db'.driver = D
  BY <1>7, <1>11 DEF MigrationsInv, M!Database
<1>13. /\ M!Filed' = M!Filed /\ M!Naming' = M!Naming /\ M!Rows' = M!Rows \cup made
       /\ M!Rows \cap made = {}
  <2>1. \A b \in M!Filed : X[b] # None
    BY <1>6, <1>10 DEF M!Filed
  <2>2. \A b \in Breakdown : b \notin M!Filed => X[b] = None
    BY <1>6 DEF M!Filed
  <2>3. M!Filed' = M!Filed
    BY <1>12, <2>1, <2>2 DEF M!Filed
  <2>4. \A b \in M!Naming : X[b].driver # None
    BY <1>1, <1>2, <1>10 DEF M!MigrationsAssumption
  <2>5. M!Naming' = M!Naming
    BY <1>6, <1>12, <2>3, <2>4 DEF M!Naming
  <2>6. M!Rows \cap made = {}
    BY <1>3 DEF M!Fresh
  <2>7. M!Rows' = M!Rows \cup made
    BY <1>3, <1>5, <1>9, <1>12 DEF M!Rows
  <2> QED BY <2>3, <2>5, <2>6, <2>7
<1>14. ASSUME NEW d \in made, NEW e \in M!Rows PROVE D[d].code # D[e].code
  <2>1. D[e] = db.driver[e]
    BY <1>5, <1>13 DEF M!Rows
  <2>2. CASE D[d].code = M!Legacy(d)
    <3>1. M!Legacy(d) # db.driver[e].code
      BY <1>3 DEF M!Fresh
    <3> QED BY <2>1, <2>2, <3>1
  <2>3. CASE D[d].code = text(d) /\ ~M!Taken(first, text(d))
    <3>1. M!Fold(db.driver[e].code) # M!Fold(text(d))
      BY <2>3 DEF M!Taken
    <3> QED BY <2>1, <2>3, <3>1
  <2> QED BY <1>9, <2>2, <2>3
<1>15. ASSUME NEW d \in made, NEW e \in made, D[d].code = D[e].code PROVE d = e
  <2>1. M!Legacy(d) \notin M!Texts /\ M!Legacy(e) \notin M!Texts
    BY <1>3 DEF M!Fresh
  <2>2. text(d) \in M!Texts /\ text(e) \in M!Texts /\ at[text(d)] = d /\ at[text(e)] = e
    BY <1>3
  <2>3. M!Legacy(d) = M!Legacy(e) => d = e
    BY DEF M!Legacy
  <2> QED BY <1>9, <1>15, <2>1, <2>2, <2>3
<1>16. ASSUME NEW d \in M!Rows, NEW e \in M!Rows, D[d].code = D[e].code PROVE d = e
  <2>1. D[d] = db.driver[d] /\ D[e] = db.driver[e]
    BY <1>5, <1>13 DEF M!Rows
  <2> QED BY <1>16, <2>1 DEF MigrationsInv, DriversKnown, CodesDiffer
<1>17. CodesDiffer'
  <2>1. \A d, e \in M!Rows \cup made : D[d].code = D[e].code => d = e
    BY <1>14, <1>15, <1>16
  <2> QED BY <1>12, <1>13, <2>1 DEF CodesDiffer
<1>18. DriversKnown'
  <2>1. \A b \in M!Naming : X[b].driver \in M!Rows \cup made
    BY <1>1, <1>4, <1>10
  <2> QED BY <1>12, <1>13, <1>17, <2>1 DEF DriversKnown
<1>19. DriversApart
  <2>1. \A b \in M!Naming : X[b].driver # None
    BY <1>1, <1>2, <1>10 DEF M!MigrationsAssumption
  <2> QED BY <1>1, <1>2, <1>10, <1>12, <2>1 DEF DriversApart
<1>20. TicketsFollow'
  <2>1. \A b \in M!Filed : X[b].resolved = db.fault[b].resolved
    BY <1>6, <1>10
  <2> QED BY <1>12, <1>13, <2>1, TicketsCarried DEF MigrationsInv
<1>21. ChecksRaise'
  BY <1>12, ChecksCarried DEF MigrationsInv, M!Revision
<1>22. Numbered'
  BY DEF Numbered
<1> QED BY <1>12, <1>18, <1>19, <1>20, <1>21, <1>22 DEF MigrationsInv, M!Revision

LEMMA Down34Step ==
  ASSUME M!MigrationsAssumption, MigrationsInv, rev = 34, rev' = 33, db' = M!Down34
  PROVE  MigrationsInv' /\ DriversApart
<1> DEFINE code(d) == db.driver[d].code
           X == [b \in Breakdown |->
                   IF b \in M!Naming THEN [db.fault[b] EXCEPT !.driver = code(db.fault[b].driver)]
                   ELSE db.fault[b]]
<1>1. /\ \A b \in M!Naming : X[b] = [db.fault[b] EXCEPT !.driver = code(db.fault[b].driver)]
      /\ \A b \in Breakdown : b \notin M!Naming => X[b] = db.fault[b]
      /\ M!Naming \subseteq M!Filed /\ M!Filed \subseteq Breakdown
  BY DEF M!Naming, M!Filed
<1>2. db' = [db EXCEPT !.fault = X]
  BY DEF M!Down34, M!TextBack
<1>3. X = [b \in Breakdown |-> X[b]]
  OBVIOUS
<1>4. ASSUME NEW d \in M!Rows PROVE code(d) \in M!DriverCode /\ code(d) # None
  <2>1. db.driver[d] \in [code : M!DriverCode, name : M!DriverCode]
    BY DatabaseTypes DEF MigrationsInv, M!Rows
  <2> QED BY <2>1 DEF M!MigrationsAssumption
<1>5. \A b \in M!Naming : db.fault[b].driver \in M!Rows
  BY DEF MigrationsInv, DriversKnown
<1>6. \A d, e \in M!Rows : code(d) = code(e) => d = e
  BY DEF MigrationsInv, DriversKnown, CodesDiffer
<1> HIDE DEF X, code
<1>7. ASSUME NEW b \in M!Naming
      PROVE  /\ X[b] \in M!Fault /\ X[b] # None /\ X[b].driver = code(db.fault[b].driver)
             /\ X[b].resolved = db.fault[b].resolved
  <2>1. db.fault[b] \in M!Fault /\ code(db.fault[b].driver) \in M!DriverCode
    BY <1>1, <1>4, <1>5, FiledTypes DEF MigrationsInv
  <2>2. /\ X[b] \in M!Fault /\ X[b].driver = code(db.fault[b].driver)
        /\ X[b].resolved = db.fault[b].resolved
    BY <1>1, <2>1 DEF M!Fault
  <2> QED BY <2>2 DEF M!MigrationsAssumption
<1>8. X \in [Breakdown -> M!Fault \cup {None}]
  <2>1. \A b \in Breakdown : X[b] \in M!Fault \cup {None}
    BY <1>1, <1>7, DatabaseTypes DEF MigrationsInv
  <2> QED BY <1>3, <2>1
<1>9. /\ db' \in M!Database /\ db'.fault = X /\ db'.ticket = db.ticket
      /\ db'.next = db.next /\ db'.driver = db.driver
  BY <1>2, <1>8, FaultsMove DEF MigrationsInv
<1>10. M!Filed' = M!Filed /\ M!Naming' = M!Naming /\ M!Rows' = M!Rows
  <2>1. M!Filed' = M!Filed
    BY <1>1, <1>7, <1>9 DEF M!Filed
  <2>2. \A b \in M!Naming : X[b].driver # None
    BY <1>4, <1>5, <1>7
  <2>3. M!Naming' = M!Naming
    BY <1>1, <1>9, <2>1, <2>2 DEF M!Naming
  <2> QED BY <1>9, <2>1, <2>3 DEF M!Rows
<1>11. DriversKnown'
  <2>1. \A b \in M!Naming : X[b].driver \in M!DriverCode
    BY <1>4, <1>5, <1>7
  <2>2. CodesDiffer'
    BY <1>9, <1>10 DEF CodesDiffer, MigrationsInv, DriversKnown
  <2> QED BY <1>9, <1>10, <2>1, <2>2 DEF DriversKnown, M!DriverCode, M!Legacy
<1>12. DriversApart
  <2>1. \A b \in M!Naming : X[b].driver # None
    BY <1>4, <1>5, <1>7
  <2> QED BY <1>5, <1>6, <1>7, <1>9, <2>1 DEF DriversApart
<1>13. TicketsFollow'
  <2>1. \A b \in M!Filed : X[b].resolved = db.fault[b].resolved
    BY <1>1, <1>7
  <2> QED BY <1>9, <1>10, <2>1, TicketsCarried DEF MigrationsInv
<1>14. ChecksRaise'
  BY <1>9, ChecksCarried DEF MigrationsInv, M!Revision
<1>15. Numbered'
  BY DEF Numbered
<1> QED BY <1>9, <1>11, <1>12, <1>13, <1>14, <1>15 DEF MigrationsInv, M!Revision

LEMMA RoutedIsAKind ==
  ASSUME M!MigrationsAssumption, MigrationsInv, NEW w \in WorkType
  PROVE  M!Routed(w) \in M!SourceKind \cup {None}
<1>1. M!SourceKind \subseteq Nat /\ \A c \in DOMAIN KindOf : KindOf[c] \in M!SourceKind
  BY DEF M!SourceKind, M!MigrationsAssumption
<1>2. M!Minted(w) \subseteq M!SourceKind
  BY DEF M!Minted, MigrationsInv, ChecksRaise
<1>3. M!Minted(w) # {} => M!Min(M!Minted(w)) \in M!Minted(w)
  BY <1>1, <1>2, MinIsLeast
<1> QED BY <1>1, <1>2, <1>3 DEF M!Routed

LEMMA TypesStep ==
  ASSUME MigrationsInv, rev \in {40, 43}, rev' \in {40, 43},
         NEW X \in [WorkType -> [code : Code, kind : M!SourceKind \cup {None}]],
         db' = [db EXCEPT !.type = X]
  PROVE  MigrationsInv' /\ DriversApart
<1>1. /\ db' \in M!Database /\ db'.fault = db.fault /\ db'.ticket = db.ticket
      /\ db'.next = db.next /\ db'.driver = db.driver
  BY TypesMove DEF MigrationsInv
<1>2. /\ rev' \in M!Revision /\ rev >= 29 /\ ~(rev < 34) /\ ~(rev' < 34) /\ rev >= 36 /\ rev >= 37
      /\ rev' >= 30
  BY DEF M!Revision
<1> QED BY <1>1, <1>2, Unmoved

LEMMA KindsAreTyped ==
  ASSUME db \in M!Database, NEW w \in WorkType, NEW k \in M!SourceKind \cup {None}
  PROVE  [db.type[w] EXCEPT !.kind = k] \in [code : Code, kind : M!SourceKind \cup {None}]
<1>1. db.type[w] \in [code : Code, kind : M!SourceKind \cup {None}]
  BY DatabaseTypes
<1> QED BY <1>1

LEMMA UpgradeStep ==
  ASSUME M!MigrationsAssumption, MigrationsInv, M!Upgrade
  PROVE  MigrationsInv' /\ DriversApart
<1>1. rev \in M!Revision /\ db \in M!Database
  BY DEF MigrationsInv
<1>2. CASE rev = 23 /\ rev' = 24 /\ db' = M!Up24
  BY <1>2, NoTicketStep DEF M!Up24, M!Revision
<1>3. CASE rev = 24 /\ rev' = 25 /\ db' = M!Up25
  BY <1>1, <1>3, SessionEmpties, Unmoved DEF M!Up25, M!Revision, MigrationsInv, ChecksRaise
<1>4. CASE rev = 25 /\ rev' = 29 /\ db' = M!Up29
  BY <1>4, Up29Step
<1>5. CASE rev = 29 /\ rev' = 30 /\ db' = M!Up30
  <2>1. \A f \in Check : db.ticket[f] = None
    BY <1>5 DEF MigrationsInv, ChecksRaise
  <2> QED BY <1>5, <2>1, KindSetStep DEF M!Up30
<1>6. CASE rev = 30 /\ rev' = 31 /\ db' = M!Up31
  BY <1>1, <1>6, StockMoves, Unmoved DEF M!Up31, M!Revision
<1>7. CASE rev = 31 /\ rev' = 32 /\ db' = M!Up32
  <2>1. db.stock \cup db.session.parts \in SUBSET Part
    BY <1>1, DatabaseTypes
  <2>2. db' = [db EXCEPT !.stock = db.stock \cup db.session.parts]
    BY <1>7 DEF M!Up32
  <2>3. /\ db' \in M!Database /\ db'.fault = db.fault /\ db'.ticket = db.ticket
        /\ db'.next = db.next /\ db'.driver = db.driver
    BY <1>1, <2>1, <2>2, StockMoves
  <2> QED BY <1>7, <2>3, Unmoved DEF M!Revision
<1>8. CASE rev = 32 /\ rev' = 33 /\ db' = M!Up33
  BY <1>8, NoDriverStep DEF M!Up33
<1>9. CASE /\ rev = 33 /\ rev' = 34
           /\ \E at \in M!Assignments, first \in M!Firsts : db' = M!Up34(at, first)
  BY <1>9, Up34Step
<1>10. CASE rev = 34 /\ rev' = 35 /\ db' = M!Up35
  BY <1>10, CountersStep DEF M!Up35
<1>11. CASE rev = 35 /\ rev' = 36 /\ db' = M!Up36
  BY <1>11, Up36Step
<1>12. CASE rev = 36 /\ rev' = 37 /\ db' = M!Up37
  BY <1>12, Up37Step
<1>13. CASE rev = 37 /\ rev' = 40 /\ db' = M!Up40
  BY <1>1, <1>13, Unmoved DEF M!Up40, M!Revision
<1>14. CASE rev = 40 /\ rev' = 43 /\ db' = M!Up43
  <2> DEFINE X == [w \in WorkType |-> [db.type[w] EXCEPT !.kind = M!Routed(w)]]
  <2>1. X \in [WorkType -> [code : Code, kind : M!SourceKind \cup {None}]]
    BY <1>1, RoutedIsAKind, KindsAreTyped
  <2>2. db' = [db EXCEPT !.type = X]
    BY <1>14 DEF M!Up43
  <2> HIDE DEF X
  <2> QED BY <1>14, <2>1, <2>2, TypesStep
<1> QED BY <1>1, <1>2, <1>3, <1>4, <1>5, <1>6, <1>7, <1>8, <1>9, <1>10, <1>11, <1>12, <1>13,
           <1>14, UpgradeCases

LEMMA DowngradeStep ==
  ASSUME M!MigrationsAssumption, MigrationsInv, M!Downgrade
  PROVE  MigrationsInv' /\ DriversApart
<1>1. rev \in M!Revision /\ db \in M!Database
  BY DEF MigrationsInv
<1>2. CASE rev = 24 /\ rev' = 23 /\ db' = M!Down24
  BY <1>2, NoTicketStep DEF M!Down24, M!Up24, M!Revision
<1>3. CASE rev = 25 /\ rev' = 24 /\ db' = M!Down25
  BY <1>1, <1>3, SessionEmpties, Unmoved DEF M!Down25, M!Up25, M!Revision, MigrationsInv, ChecksRaise
<1>4. CASE rev = 29 /\ rev' = 25 /\ db' = M!Down29
  BY <1>1, <1>4, Unmoved DEF M!Down29, M!Revision, MigrationsInv, ChecksRaise
<1>5. CASE rev = 30 /\ rev' = 29 /\ M!CanDown30 /\ db' = M!Down30
  BY <1>5, KindSetStep DEF M!Down30, M!CanDown30
<1>6. CASE rev = 31 /\ rev' = 30 /\ db' = M!Down31
  BY <1>1, <1>6, StockMoves, Unmoved DEF M!Down31, M!Up31, M!Revision
<1>7. CASE rev = 32 /\ rev' = 31 /\ db' = M!Down32
  BY <1>1, <1>7, SessionEmpties, Unmoved DEF M!Down32, M!Revision
<1>8. CASE rev = 33 /\ rev' = 32 /\ db' = M!Down33
  BY <1>8, NoDriverStep DEF M!Down33, M!Up33
<1>9. CASE rev = 34 /\ rev' = 33 /\ db' = M!Down34
  BY <1>9, Down34Step
<1>10. CASE rev = 35 /\ rev' = 34 /\ db' = M!Down35
  BY <1>10, CountersStep DEF M!Down35, M!Up35
<1>11. CASE rev = 36 /\ rev' = 35 /\ db' = M!Down36
  BY <1>11, Down36Step
<1>12. CASE rev = 37 /\ rev' = 36 /\ db' = M!Down37
  BY <1>12, Down37Step
<1>13. CASE rev = 40 /\ rev' = 37 /\ db' = M!Down40
  BY <1>13, Down40Step
<1>14. CASE rev = 43 /\ rev' = 40 /\ db' = M!Down43
  <2> DEFINE X == [w \in WorkType |-> [db.type[w] EXCEPT !.kind = None]]
  <2>1. X \in [WorkType -> [code : Code, kind : M!SourceKind \cup {None}]]
    BY <1>1, KindsAreTyped
  <2>2. db' = [db EXCEPT !.type = X]
    BY <1>14 DEF M!Down43
  <2> HIDE DEF X
  <2> QED BY <1>14, <2>1, <2>2, TypesStep
<1> QED BY <1>1, <1>2, <1>3, <1>4, <1>5, <1>6, <1>7, <1>8, <1>9, <1>10, <1>11, <1>12, <1>13,
           <1>14, DowngradeCases

-----------------------------------------------------------------------------
(* Requests at the newest revision, and at 40.                              *)
LEMMA FileBreakdownStep ==
  ASSUME M!MigrationsAssumption, MigrationsInv, NEW b \in Breakdown, NEW d \in FiledDay,
         NEW driver \in M!Rows \cup {None}, M!FileBreakdown(b, d, driver)
  PROVE  MigrationsInv'
<1> DEFINE y == YearOf[d]
           m == M!Allocated("entry", y)
           n == M!Allocated("ticket", y)
           F == [day |-> d, resolved |-> FALSE, driver |-> driver, number |-> <<y, m>>, photos |-> {}]
           K == [done |-> FALSE, kind |-> M!OfEntry, number |-> <<y, n>>]
           N == [db.next EXCEPT ![<<"entry", y>>] = m + 1, ![<<"ticket", y>>] = n + 1]
<1>1. rev = 43 /\ rev' = rev /\ b \notin M!Filed /\ db \in M!Database
  BY DEF M!FileBreakdown, M!Request, M!Writing, M!Newest, MigrationsInv
<1>2. db' = [db EXCEPT !.fault[b] = F, !.ticket[b] = K, !.next[<<"entry", y>>] = m + 1,
                       !.next[<<"ticket", y>>] = n + 1]
  BY DEF M!FileBreakdown
<1>3. /\ y \in M!Year
      /\ db.next \in [{"entry", "ticket"} \X M!Year -> Nat]
      /\ m = (IF db.next[<<"entry", y>>] = 0 THEN 1 ELSE db.next[<<"entry", y>>])
      /\ n = (IF db.next[<<"ticket", y>>] = 0 THEN 1 ELSE db.next[<<"ticket", y>>])
  BY <1>1, DatabaseTypes DEF M!Year, M!Allocated
<1>4. m \in Nat \ {0} /\ n \in Nat \ {0}
  BY <1>3
<1>5. /\ F.day = d /\ F.resolved = FALSE /\ F.driver = driver /\ F.number = <<y, m>>
      /\ K.done = FALSE /\ K.number = <<y, n>>
      /\ F \in M!Fault /\ K \in M!Ticket
  <2>1. driver \in M!DriverCode \cup Driver \cup {None}
    BY DEF M!Rows
  <2> HIDE DEF y, m, n
  <2>2. <<y, m>> \in M!Number /\ <<y, n>> \in M!Number
    BY <1>3, <1>4 DEF M!Number
  <2> QED BY <2>1, <2>2 DEF M!Fault, M!Ticket
<1>6. F # None /\ K # None
  BY <1>5 DEF M!MigrationsAssumption
<1> HIDE DEF F, K, y, m, n
<1>7. db' = [db EXCEPT !.fault = [db.fault EXCEPT ![b] = F],
                       !.ticket = [db.ticket EXCEPT ![b] = K],
                       !.next = N]
  BY <1>1, <1>2 DEF M!Database
<1>8. /\ [db.fault EXCEPT ![b] = F] \in [Breakdown -> M!Fault \cup {None}]
      /\ [db.ticket EXCEPT ![b] = K] \in [Breakdown \cup Check -> M!Ticket \cup {None}]
      /\ N \in [{"entry", "ticket"} \X M!Year -> Nat]
  <2>1. [db.fault EXCEPT ![b] = F] \in [Breakdown -> M!Fault \cup {None}]
    BY <1>1, <1>5, DatabaseTypes
  <2>2. [db.ticket EXCEPT ![b] = K] \in [Breakdown \cup Check -> M!Ticket \cup {None}]
    BY <1>1, <1>5, DatabaseTypes
  <2>3. N \in [{"entry", "ticket"} \X M!Year -> Nat]
    BY <1>3, <1>4
  <2> QED BY <2>1, <2>2, <2>3
<1>9. /\ N[<<"entry", y>>] = m + 1 /\ N[<<"ticket", y>>] = n + 1
      /\ \A z \in M!Year : z # y => /\ N[<<"entry", z>>] = db.next[<<"entry", z>>]
                                   /\ N[<<"ticket", z>>] = db.next[<<"ticket", z>>]
  BY <1>3
<1> HIDE DEF N
<1>10. /\ db' \in M!Database /\ db'.fault = [db.fault EXCEPT ![b] = F]
       /\ db'.ticket = [db.ticket EXCEPT ![b] = K] /\ db'.next = N /\ db'.driver = db.driver
  BY <1>1, <1>7, <1>8 DEF M!Database
<1>11. /\ db'.fault[b] = F /\ db'.ticket[b] = K
       /\ \A a \in Breakdown : a # b => db'.fault[a] = db.fault[a] /\ db'.ticket[a] = db.ticket[a]
       /\ \A f \in Check : db'.ticket[f] = db.ticket[f]
  BY <1>1, <1>10, DatabaseTypes DEF M!MigrationsAssumption
<1>12. M!Filed' = M!Filed \cup {b} /\ M!Filed \subseteq Breakdown /\ M!Rows' = M!Rows
  BY <1>6, <1>10, <1>11 DEF M!Filed, M!Rows
<1>13. DriversKnown'
  <2>1. \A a \in M!Naming' : db'.fault[a].driver \in M!Rows
    <3>1. \A a \in M!Filed : db.fault[a].driver # None => db.fault[a].driver \in M!Rows
      BY <1>1 DEF MigrationsInv, DriversKnown, M!Naming
    <3> QED BY <1>1, <1>5, <1>11, <1>12, <3>1 DEF M!Naming
  <2>2. CodesDiffer'
    BY <1>10, <1>12 DEF CodesDiffer, MigrationsInv, DriversKnown
  <2> QED BY <1>1, <1>12, <2>1, <2>2 DEF DriversKnown
<1>14. TicketsFollow'
  BY <1>1, <1>5, <1>6, <1>11, <1>12 DEF TicketsFollow, MigrationsInv
<1>15. ChecksRaise'
  BY <1>1, <1>11 DEF ChecksRaise, MigrationsInv, M!SourceKind
<1>16. Numbered'
  <2>1. NumbersFit(db.next, "entry", EntryNumbers) /\ NumbersFit(db.next, "ticket", TicketNumbers)
    BY <1>1 DEF MigrationsInv, Numbered
  <2>2. /\ DOMAIN EntryNumbers = M!Filed /\ DOMAIN TicketNumbers = M!Filed
        /\ DOMAIN EntryNumbers' = M!Filed \cup {b} /\ DOMAIN TicketNumbers' = M!Filed \cup {b}
    BY <1>12 DEF EntryNumbers, TicketNumbers
  <2>3. /\ \A a \in M!Filed : EntryNumbers'[a] = EntryNumbers[a] /\ TicketNumbers'[a] = TicketNumbers[a]
        /\ EntryNumbers'[b] = <<y, m>> /\ TicketNumbers'[b] = <<y, n>>
    BY <1>1, <1>5, <1>11, <1>12 DEF EntryNumbers, TicketNumbers
  <2>4. NumbersFit(N, "entry", EntryNumbers')
    <3>1. PICK old, new, next : old = EntryNumbers /\ new = EntryNumbers' /\ next = db.next
      OBVIOUS
    <3>2. /\ b \notin DOMAIN old /\ DOMAIN new = DOMAIN old \cup {b}
          /\ \A a \in DOMAIN old : new[a] = old[a]
          /\ new[b] = <<y, m>>
          /\ NumbersFit(next, "entry", old)
      BY <1>1, <2>1, <2>2, <2>3, <3>1
    <3>3. /\ y \in M!Year /\ m \in Nat /\ next \in [{"entry", "ticket"} \X M!Year -> Nat]
          /\ m = (IF next[<<"entry", y>>] = 0 THEN 1 ELSE next[<<"entry", y>>])
          /\ N[<<"entry", y>>] = m + 1
          /\ \A z \in M!Year : z # y => N[<<"entry", z>>] = next[<<"entry", z>>]
      BY <1>3, <1>4, <1>9, <3>1
    <3>4. Files(next, N, "entry", old, new, b, y, m)
      BY <3>2, <3>3 DEF Files
    <3>5. NumbersFit(N, "entry", new)
      BY <3>2, <3>4, FiledNumbersFit
    <3> QED BY <3>1, <3>5
  <2>5. NumbersFit(N, "ticket", TicketNumbers')
    <3>1. PICK old, new, next : old = TicketNumbers /\ new = TicketNumbers' /\ next = db.next
      OBVIOUS
    <3>2. /\ b \notin DOMAIN old /\ DOMAIN new = DOMAIN old \cup {b}
          /\ \A a \in DOMAIN old : new[a] = old[a]
          /\ new[b] = <<y, n>>
          /\ NumbersFit(next, "ticket", old)
      BY <1>1, <2>1, <2>2, <2>3, <3>1
    <3>3. /\ y \in M!Year /\ n \in Nat /\ next \in [{"entry", "ticket"} \X M!Year -> Nat]
          /\ n = (IF next[<<"ticket", y>>] = 0 THEN 1 ELSE next[<<"ticket", y>>])
          /\ N[<<"ticket", y>>] = n + 1
          /\ \A z \in M!Year : z # y => N[<<"ticket", z>>] = next[<<"ticket", z>>]
      BY <1>3, <1>4, <1>9, <3>1
    <3>4. Files(next, N, "ticket", old, new, b, y, n)
      BY <3>2, <3>3 DEF Files
    <3>5. NumbersFit(N, "ticket", new)
      BY <3>2, <3>4, FiledNumbersFit
    <3> QED BY <3>1, <3>5
  <2> QED BY <1>10, <2>4, <2>5 DEF Numbered
<1> QED BY <1>1, <1>10, <1>13, <1>14, <1>15, <1>16 DEF MigrationsInv, M!Revision

LEMMA FaultMoves ==
  ASSUME M!MigrationsAssumption, MigrationsInv, NEW b \in M!Filed, NEW F \in M!Fault,
         rev' = rev, db' = [db EXCEPT !.fault = [db.fault EXCEPT ![b] = F]],
         F.driver = db.fault[b].driver, F.resolved = db.fault[b].resolved,
         F.number = db.fault[b].number
  PROVE  MigrationsInv'
<1> DEFINE X == [db.fault EXCEPT ![b] = F]
<1>1. b \in Breakdown /\ db.fault[b] # None /\ F # None
  BY FiledTypes DEF MigrationsInv, M!MigrationsAssumption
<1>2. db.fault \in [Breakdown -> M!Fault \cup {None}]
  BY DatabaseTypes DEF MigrationsInv
<1>3. /\ X \in [Breakdown -> M!Fault \cup {None}] /\ X[b] = F
      /\ \A a \in Breakdown : a # b => X[a] = db.fault[a]
  BY <1>1, <1>2
<1>4. M!Filed \subseteq Breakdown /\ rev' \in M!Revision
  BY DEF M!Filed, MigrationsInv
<1> HIDE DEF X
<1>5. db' = [db EXCEPT !.fault = X]
  BY DEF X
<1> QED BY <1>1, <1>3, <1>4, <1>5, FaultsAltered

LEMMA MoveDateStep ==
  ASSUME M!MigrationsAssumption, MigrationsInv, NEW b \in Breakdown, NEW d \in FiledDay,
         M!MoveDate(b, d)
  PROVE  MigrationsInv'
<1> DEFINE F == [db.fault[b] EXCEPT !.day = d]
<1>1. b \in M!Filed /\ rev' = rev /\ db' = [db EXCEPT !.fault[b].day = d]
  BY DEF M!MoveDate, M!Request, M!Writing
<1>2. db.fault[b] \in M!Fault
  BY <1>1, FiledTypes DEF MigrationsInv
<1>3. /\ F \in M!Fault /\ F.driver = db.fault[b].driver /\ F.resolved = db.fault[b].resolved
      /\ F.number = db.fault[b].number
  BY <1>2 DEF M!Fault
<1>4. db' = [db EXCEPT !.fault = [db.fault EXCEPT ![b] = F]]
  BY <1>1
<1> HIDE DEF F
<1> QED BY <1>1, <1>3, <1>4, FaultMoves

LEMMA AddPhotoStep ==
  ASSUME M!MigrationsAssumption, MigrationsInv, NEW b \in Breakdown, NEW p \in Photo,
         M!AddPhoto(b, p)
  PROVE  MigrationsInv'
<1> DEFINE F == [db.fault[b] EXCEPT !.photos = @ \cup {p}]
<1>1. b \in M!Filed /\ rev' = rev /\ db' = [db EXCEPT !.fault[b].photos = @ \cup {p}]
  BY DEF M!AddPhoto, M!Request, M!Writing
<1>2. db.fault[b] \in M!Fault
  BY <1>1, FiledTypes DEF MigrationsInv
<1>3. /\ F \in M!Fault /\ F.driver = db.fault[b].driver /\ F.resolved = db.fault[b].resolved
      /\ F.number = db.fault[b].number
  BY <1>2 DEF M!Fault
<1>4. db' = [db EXCEPT !.fault = [db.fault EXCEPT ![b] = F]]
  BY <1>1
<1> HIDE DEF F
<1> QED BY <1>1, <1>3, <1>4, FaultMoves

LEMMA ResolveStep ==
  ASSUME M!MigrationsAssumption, MigrationsInv, NEW b \in Breakdown, M!Resolve(b)
  PROVE  MigrationsInv'
<1> DEFINE F == [db.fault[b] EXCEPT !.resolved = TRUE]
           K == [db.ticket[b] EXCEPT !.done = TRUE]
           Z == [db.session EXCEPT !.ticket = b]
<1>1. /\ b \in M!Filed /\ rev' = rev /\ rev = 43 /\ db \in M!Database
      /\ db' = [db EXCEPT !.fault[b].resolved = TRUE, !.ticket[b].done = TRUE, !.session.ticket = b]
  BY DEF M!Resolve, M!Request, M!Writing, M!Newest, MigrationsInv
<1>2. db.fault[b] \in M!Fault /\ db.ticket[b] # None
  BY <1>1, FiledTypes DEF MigrationsInv, TicketsFollow
<1>3. db.ticket[b] \in M!Ticket
  BY <1>1, <1>2, TicketTypes
<1>4. /\ F \in M!Fault /\ F.driver = db.fault[b].driver /\ F.resolved = TRUE
      /\ F.number = db.fault[b].number
  BY <1>2 DEF M!Fault
<1>5. /\ K \in M!Ticket /\ K.done = TRUE /\ K.number = db.ticket[b].number
  BY <1>3 DEF M!Ticket
<1>6. F # None /\ K # None
  BY <1>4, <1>5 DEF M!MigrationsAssumption
<1>7. Z \in [ticket : Breakdown \cup {None}, parts : SUBSET Part]
  BY <1>1, DatabaseTypes
<1>8. db' = [db EXCEPT !.fault = [db.fault EXCEPT ![b] = F],
                       !.ticket = [db.ticket EXCEPT ![b] = K], !.session = Z]
  BY <1>1 DEF M!Database
<1> HIDE DEF F, K, Z
<1>9. /\ [db.fault EXCEPT ![b] = F] \in [Breakdown -> M!Fault \cup {None}]
      /\ [db.ticket EXCEPT ![b] = K] \in [Breakdown \cup Check -> M!Ticket \cup {None}]
  BY <1>1, <1>4, <1>5, DatabaseTypes
<1>10. /\ db' \in M!Database /\ db'.fault = [db.fault EXCEPT ![b] = F]
       /\ db'.ticket = [db.ticket EXCEPT ![b] = K] /\ db'.next = db.next /\ db'.driver = db.driver
  BY <1>1, <1>7, <1>8, <1>9 DEF M!Database
<1>11. /\ db'.fault[b] = F /\ db'.ticket[b] = K
       /\ \A a \in Breakdown : a # b => db'.fault[a] = db.fault[a] /\ db'.ticket[a] = db.ticket[a]
       /\ \A f \in Check : db'.ticket[f] = db.ticket[f]
  BY <1>1, <1>10, DatabaseTypes DEF M!MigrationsAssumption
<1>12. M!Filed' = M!Filed /\ M!Filed \subseteq Breakdown
  BY <1>1, <1>6, <1>10, <1>11 DEF M!Filed
<1>13. DriversKnown'
  BY <1>1, <1>4, <1>10, <1>11, <1>12, DriversCarried DEF MigrationsInv
<1>14. TicketsFollow'
  BY <1>1, <1>4, <1>5, <1>6, <1>11, <1>12 DEF TicketsFollow, MigrationsInv
<1>15. ChecksRaise'
  BY <1>1, <1>11 DEF ChecksRaise, MigrationsInv, M!SourceKind
<1>16. Numbered'
  <2>1. \A a \in M!Filed : /\ db'.fault[a].number = db.fault[a].number
                           /\ db'.ticket[a].number = db.ticket[a].number
    BY <1>4, <1>5, <1>11, <1>12
  <2> QED BY <1>1, <1>10, <1>12, <2>1, NumbersCarried DEF MigrationsInv
<1> QED BY <1>1, <1>10, <1>13, <1>14, <1>15, <1>16 DEF MigrationsInv, M!Revision

LEMMA CreateDriverStep ==
  ASSUME M!MigrationsAssumption, MigrationsInv, NEW d \in Driver, NEW c \in Text, NEW n \in Text,
         M!CreateDriver(d, c, n)
  PROVE  MigrationsInv'
<1> DEFINE Record == [code : M!DriverCode, name : M!DriverCode]
           R == [code |-> c, name |-> n]
           X == [db.driver EXCEPT ![d] = R]
<1>1. /\ rev' = rev /\ rev = 43 /\ db \in M!Database /\ d \notin M!Rows
      /\ \A e \in M!Rows : db.driver[e].code # c
      /\ db' = [db EXCEPT !.driver = X]
  BY DEF M!CreateDriver, M!Request, M!Writing, M!Newest, MigrationsInv
<1>2. R \in Record /\ R # None /\ R.code = c
  <2>1. R \in Record
    BY DEF M!DriverCode
  <2> QED BY <2>1 DEF M!MigrationsAssumption
<1> HIDE DEF R
<1>3. /\ X \in [Driver -> Record \cup {None}] /\ X[d] = R
      /\ \A e \in Driver : e # d => X[e] = db.driver[e]
  BY <1>1, <1>2, DatabaseTypes
<1> HIDE DEF X
<1>4. /\ db' \in M!Database /\ db'.fault = db.fault /\ db'.ticket = db.ticket
      /\ db'.next = db.next /\ db'.driver = X
  BY <1>1, <1>3, DriversMove
<1>5. M!Filed' = M!Filed /\ M!Naming' = M!Naming /\ M!Rows' = M!Rows \cup {d} /\ M!Rows \subseteq Driver
  BY <1>2, <1>3, <1>4 DEF M!Filed, M!Naming, M!Rows
<1>6. DriversKnown'
  <2>1. CodesDiffer'
    <3>1. \A e \in M!Rows : X[e] = db.driver[e]
      BY <1>1, <1>3, <1>5
    <3>2. \A e, f \in M!Rows : db.driver[e].code = db.driver[f].code => e = f
      BY DEF MigrationsInv, DriversKnown, CodesDiffer
    <3>3. \A e, f \in M!Rows \cup {d} : X[e].code = X[f].code => e = f
      BY <1>1, <1>2, <1>3, <3>1, <3>2
    <3> QED BY <1>4, <1>5, <3>3 DEF CodesDiffer
  <2> QED BY <1>1, <1>4, <1>5, <2>1 DEF DriversKnown, MigrationsInv
<1>7. TicketsFollow'
  BY <1>1, <1>4, <1>5, TicketsCarried DEF MigrationsInv
<1>8. ChecksRaise'
  BY <1>1, <1>4, ChecksCarried DEF MigrationsInv, M!Revision
<1>9. Numbered'
  BY <1>1, <1>4, <1>5, NumbersCarried DEF MigrationsInv
<1> QED BY <1>1, <1>4, <1>6, <1>7, <1>8, <1>9 DEF MigrationsInv, M!Revision

LEMMA RenameTypeStep ==
  ASSUME M!MigrationsAssumption, MigrationsInv, NEW w \in WorkType, NEW c \in Code,
         M!RenameType(w, c)
  PROVE  MigrationsInv'
<1> DEFINE X == [db.type EXCEPT ![w] = [db.type[w] EXCEPT !.code = c]]
<1>1. /\ rev' = rev /\ rev \in {40, 43} /\ db \in M!Database
      /\ db' = [db EXCEPT !.type[w].code = c]
  BY DEF M!RenameType, M!Writing, M!Newest, MigrationsInv
<1>2. db.type \in [WorkType -> [code : Code, kind : M!SourceKind \cup {None}]]
  BY <1>1, DatabaseTypes
<1>3. [db.type[w] EXCEPT !.code = c] \in [code : Code, kind : M!SourceKind \cup {None}]
  BY <1>2
<1>4. X \in [WorkType -> [code : Code, kind : M!SourceKind \cup {None}]]
  BY <1>2, <1>3
<1>5. db' = [db EXCEPT !.type = X]
  BY <1>1
<1> HIDE DEF X
<1> QED BY <1>1, <1>4, <1>5, TypesStep

LEMMA ChecksMove ==
  ASSUME db \in M!Database, NEW X \in [Check -> WorkType \cup {None}],
         NEW Y \in [Breakdown \cup Check -> M!Ticket \cup {None}],
         db' = [db EXCEPT !.failed = X, !.ticket = Y]
  PROVE  /\ db' \in M!Database /\ db'.fault = db.fault /\ db'.ticket = Y
         /\ db'.next = db.next /\ db'.driver = db.driver
BY DEF M!Database

LEMMA FailCheckStep ==
  ASSUME M!MigrationsAssumption, MigrationsInv, NEW f \in Check, NEW w \in WorkType,
         M!FailCheck(f, w)
  PROVE  MigrationsInv'
<1> DEFINE K == IF M!Route(w) = None THEN None
                ELSE [done |-> FALSE, kind |-> M!Route(w), number |-> None]
<1>1. /\ rev' = rev /\ rev \in {40, 43} /\ db \in M!Database
      /\ db' = [db EXCEPT !.failed[f] = w, !.ticket[f] = K]
  BY DEF M!FailCheck, M!Writing, M!Newest, MigrationsInv
<1>2. M!Route(w) \in M!SourceKind \cup {None}
  <2>1. db.type[w] \in [code : Code, kind : M!SourceKind \cup {None}]
    BY <1>1, DatabaseTypes
  <2> QED BY <2>1 DEF M!Route, M!SourceKind
<1>3. K \in M!Ticket \cup {None} /\ (K # None => K.kind \in M!SourceKind)
  BY <1>2 DEF M!Ticket
<1> HIDE DEF K
<1>4. db' = [db EXCEPT !.failed = [db.failed EXCEPT ![f] = w],
                       !.ticket = [db.ticket EXCEPT ![f] = K]]
  BY <1>1 DEF M!Database
<1>5. /\ [db.failed EXCEPT ![f] = w] \in [Check -> WorkType \cup {None}]
      /\ [db.ticket EXCEPT ![f] = K] \in [Breakdown \cup Check -> M!Ticket \cup {None}]
  BY <1>1, <1>3, DatabaseTypes
<1>6. /\ db' \in M!Database /\ db'.fault = db.fault
      /\ db'.ticket = [db.ticket EXCEPT ![f] = K] /\ db'.next = db.next /\ db'.driver = db.driver
  BY <1>1, <1>4, <1>5, ChecksMove
<1>7. /\ db'.ticket[f] = K
      /\ \A a \in Breakdown : db'.ticket[a] = db.ticket[a]
      /\ \A g \in Check : g # f => db'.ticket[g] = db.ticket[g]
  BY <1>1, <1>6, DatabaseTypes DEF M!MigrationsAssumption
<1>8. M!Filed' = M!Filed /\ M!Filed \subseteq Breakdown
  BY <1>6 DEF M!Filed
<1>9. DriversKnown'
  BY <1>1, <1>6, <1>8, DriversCarried DEF MigrationsInv
<1>10. TicketsFollow'
  BY <1>1, <1>6, <1>7, <1>8 DEF TicketsFollow, MigrationsInv
<1>11. ChecksRaise'
  BY <1>1, <1>3, <1>7 DEF ChecksRaise, MigrationsInv, M!SourceKind
<1>12. Numbered'
  BY <1>1, <1>6, <1>7, <1>8, NumbersCarried DEF MigrationsInv
<1> QED BY <1>1, <1>6, <1>9, <1>10, <1>11, <1>12 DEF MigrationsInv, M!Revision

-----------------------------------------------------------------------------
LEMMA MigrationsInit ==
  ASSUME M!MigrationsAssumption, M!Init
  PROVE  MigrationsInv
<1>1. PICK old \in [Breakdown -> M!OldFault \cup {None}], parts \in SUBSET Part, c \in M!Codes :
        db = [fault |-> old, ticket |-> M!NoTicket,
              session |-> [ticket |-> None, parts |-> parts], stock |-> {},
              driver |-> [d \in Driver |-> None],
              next |-> [k \in {"entry", "ticket"} \X M!Year |-> 0],
              type |-> [w \in WorkType |-> [code |-> c[w], kind |-> None]],
              failed |-> [f \in Check |-> None]]
  BY DEF M!Init
<1>2. rev = 23
  BY DEF M!Init
<1>3. /\ db.fault = old /\ db.ticket = M!NoTicket /\ db.driver = [d \in Driver |-> None]
  BY <1>1
<1>4. ASSUME NEW f \in M!OldFault PROVE f \in M!Fault /\ f.driver \in Text \cup {None}
  <2>1. M!Min(Photo) \in Photo
    BY MinIsLeast DEF M!MigrationsAssumption
  <2>2. Text \subseteq M!DriverCode
    BY DEF M!DriverCode
  <2> QED BY <2>1, <2>2 DEF M!OldFault, M!Fault
<1>5. db \in M!Database
  <2>1. old \in [Breakdown -> M!Fault \cup {None}]
    BY <1>4
  <2>2. M!NoTicket \in [Breakdown \cup Check -> M!Ticket \cup {None}]
    BY DEF M!NoTicket
  <2>3. [w \in WorkType |-> [code |-> c[w], kind |-> None]]
          \in [WorkType -> [code : Code, kind : M!SourceKind \cup {None}]]
    BY DEF M!Codes
  <2>4. [k \in {"entry", "ticket"} \X M!Year |-> 0] \in [{"entry", "ticket"} \X M!Year -> Nat]
    OBVIOUS
  <2> QED BY <1>1, <2>1, <2>2, <2>3, <2>4 DEF M!Database
<1>6. DriversKnown
  <2>1. M!Rows = {}
    BY <1>3 DEF M!Rows
  <2>2. \A b \in M!Naming : db.fault[b].driver \in M!DriverCode
    BY <1>3, <1>4 DEF M!Naming, M!Filed, M!DriverCode
  <2> QED BY <1>2, <2>1, <2>2 DEF DriversKnown, CodesDiffer
<1>7. \A t \in Breakdown \cup Check : db.ticket[t] = None
  BY <1>3 DEF M!NoTicket
<1>8. TicketsFollow /\ ChecksRaise
  BY <1>2, <1>7 DEF TicketsFollow, ChecksRaise, M!Filed
<1>9. Numbered
  BY <1>2 DEF Numbered
<1> QED BY <1>2, <1>5, <1>6, <1>8, <1>9 DEF MigrationsInv, M!Revision

LEMMA MigrationsNext ==
  ASSUME M!MigrationsAssumption, MigrationsInv, [M!Next]_M!vars
  PROVE  MigrationsInv' /\ (rev' # rev => DriversApart)
<1>1. CASE M!Upgrade
  BY <1>1, UpgradeStep
<1>2. CASE M!Downgrade
  BY <1>2, DowngradeStep
<1>3. CASE \E b \in Breakdown, d \in FiledDay, driver \in M!Rows \cup {None} : M!FileBreakdown(b, d, driver)
  <2>1. PICK b \in Breakdown, d \in FiledDay, driver \in M!Rows \cup {None} : M!FileBreakdown(b, d, driver)
    BY <1>3
  <2>2. MigrationsInv'
    BY <2>1, FileBreakdownStep
  <2>3. rev' = rev
    BY <2>1 DEF M!FileBreakdown, M!Request, M!Writing
  <2> QED BY <2>2, <2>3
<1>4. CASE \E b \in Breakdown : M!Resolve(b)
  BY <1>4, ResolveStep DEF M!Resolve, M!Request, M!Writing
<1>5. CASE \E b \in Breakdown, d \in FiledDay : M!MoveDate(b, d)
  BY <1>5, MoveDateStep DEF M!MoveDate, M!Request, M!Writing
<1>6. CASE \E b \in Breakdown, p \in Photo : M!AddPhoto(b, p)
  BY <1>6, AddPhotoStep DEF M!AddPhoto, M!Request, M!Writing
<1>7. CASE \E d \in Driver, c, n \in Text : M!CreateDriver(d, c, n)
  BY <1>7, CreateDriverStep DEF M!CreateDriver, M!Request, M!Writing
<1>8. CASE \E w \in WorkType, c \in Code : M!RenameType(w, c)
  BY <1>8, RenameTypeStep DEF M!RenameType, M!Writing
<1>9. CASE \E f \in Check, w \in WorkType : M!FailCheck(f, w)
  BY <1>9, FailCheckStep DEF M!FailCheck, M!Writing
<1>10. CASE UNCHANGED M!vars
  <2>1. rev' = rev /\ db' = db
    BY <1>10 DEF M!vars
  <2>2. MigrationsInv'
    BY <2>1, Unmoved DEF MigrationsInv, ChecksRaise, M!Revision
  <2> QED BY <2>1, <2>2
<1> QED BY <1>1, <1>2, <1>3, <1>4, <1>5, <1>6, <1>7, <1>8, <1>9, <1>10 DEF M!Next

\* For any breakdowns, names and schedules filed before or between migrations,
\* up and down in any order: MigrationsInv holds at every revision.
THEOREM MigrationsInvariance == M!Spec => []MigrationsInv
<1> M!MigrationsAssumption
  BY IntakeAssumption
<1>1. M!Init => MigrationsInv
  BY MigrationsInit
<1>2. MigrationsInv /\ [M!Next]_M!vars => MigrationsInv'
  BY MigrationsNext
<1> QED BY <1>1, <1>2, PTL DEF M!Spec

\* For any breakdowns, years, checks and drivers: a number printed on a breakdown
\* or on a ticket is nobody else's at any revision that numbers them.  The rank
\* of a row in its year is strictly increasing, and the counter stays above it.
THEOREM NumbersStayUnique == M!Spec => []NumbersAreUnique
<1> M!MigrationsAssumption
  BY IntakeAssumption
<1>1. MigrationsInv => NumbersAreUnique
  <2> SUFFICES ASSUME MigrationsInv, NEW a \in M!Filed, NEW b \in M!Filed, a # b
               PROVE  /\ rev >= 36 => db.fault[a].number # db.fault[b].number
                      /\ rev >= 37 => db.ticket[a].number # db.ticket[b].number
    BY DEF NumbersAreUnique, M!NumbersAreUnique
  <2>1. rev >= 36 => EntryNumbers[a] # EntryNumbers[b]
    BY DEF MigrationsInv, Numbered, NumbersFit, EntryNumbers
  <2>2. rev >= 37 => TicketNumbers[a] # TicketNumbers[b]
    BY DEF MigrationsInv, Numbered, NumbersFit, TicketNumbers
  <2> QED BY <2>1, <2>2 DEF EntryNumbers, TicketNumbers
<1> QED BY <1>1, MigrationsInvariance, PTL

\* For any drivers and texts: going up or down blanks no driver of a breakdown
\* and makes neither one driver of two nor two of one.
THEOREM DriversAreKept == M!Spec => DriversStayApart
<1> M!MigrationsAssumption
  BY IntakeAssumption
<1>1. MigrationsInv /\ [M!Next]_M!vars =>
        [rev' # rev =>
           \A a, b \in M!Naming :
             /\ db'.fault[a].driver # None
             /\ db'.fault[a].driver = db'.fault[b].driver <=>
                  db.fault[a].driver = db.fault[b].driver]_M!vars
  BY MigrationsNext DEF DriversApart
<1> QED BY <1>1, MigrationsInvariance, PTL DEF M!Spec, DriversStayApart, M!DriversStayApart

\* For any history of migrations: from 29 on every breakdown has a ticket that is
\* as far along as it is.
THEOREM BreakdownsHaveTickets == M!Spec => []TicketForEveryBreakdown
<1> M!MigrationsAssumption
  BY IntakeAssumption
<1>1. MigrationsInv => TicketForEveryBreakdown
  BY DEF MigrationsInv, TicketsFollow, TicketForEveryBreakdown, M!TicketForEveryBreakdown
<1> QED BY <1>1, MigrationsInvariance, PTL

-----------------------------------------------------------------------------
(* Rows of a sheet, under any masters, mappings and edits between a preview *)
(* and its commit.                                                          *)
RouteTyped == route \in [WorkCode -> S!Register \cup {S!Inspection, S!Unrouted, Blank}]

\* What a preview holds, and what its judgement of a row still guarantees.
AsStaged(q) ==
  [stage |-> "previewed", profile |-> q.profile, grid |-> q.grid, rows |-> q.rows,
   numbers |-> q.numbers, errors |-> q.errors, new |-> q.new, touched |-> q.touched]
RowStands(v) == v.work # Blank /\ v.bus \in fleet
RowsStand ==
  staged.stage = "previewed" =>
    /\ staged = AsStaged(staged)
    /\ staged.profile.target = "snag report" => \A v \in S!Range(staged.rows) : RowStands(v)

SheetInv == RouteTyped /\ RowsStand

LEMMA PreviewKeepsStage ==
  ASSUME staged.stage = "previewed", staged = AsStaged(staged), NEW q,
         q \in {[staged EXCEPT !.touched = TRUE], [staged EXCEPT !.stage = "done"]}
  PROVE  /\ q.profile = staged.profile /\ q.rows = staged.rows
         /\ q.grid = staged.grid /\ q.new = staged.new
         /\ q = [staged EXCEPT !.touched = TRUE] =>
              q.stage = "previewed" /\ q.touched /\ q = AsStaged(q)
         /\ q = [staged EXCEPT !.stage = "done"] => q.stage = "done" /\ q.touched = staged.touched
BY DEF AsStaged

\* A row that passed names its work and a bus of the fleet.
LEMMA PassedRowStands ==
  ASSUME NEW p, NEW v, p.target = "snag report", DOMAIN v = S!Key, v = [k \in S!Key |-> v[k]],
         S!Errors(p, v) = {}
  PROVE  RowStands(S!Canonical(p, v))
<1> DEFINE missing == S!Blanks(p, v) \cup S!WorkErrors(p, v)
<1>1. missing = {} /\ S!FieldErrors(p, v) = {}
  BY DEF S!Errors
<1>2. v["work"] # Blank
  <2>1. "work" \in S!Required(p.target)
    BY DEF S!Required, S!Key
  <2> QED BY <1>1, <2>1 DEF S!Blanks
<1>3. S!BusNamed(p, v) # NotABus /\ S!BusNamed(p, v) \in fleet
  BY <1>1 DEF S!FieldErrors, S!NeedsFleet, S!Dated
<1>4. S!Canonical(p, v).work = v["work"] /\ S!Canonical(p, v).bus = S!BusNamed(p, v)
  <2>1. "work" \in S!Key /\ "bus" \in S!Key
    BY DEF S!Key
  <2> QED BY <2>1 DEF S!Canonical
<1> QED BY <1>2, <1>3, <1>4 DEF RowStands

LEMMA EnsureGrows ==
  ASSUME NEW R, S!Ensure(R), RouteTyped
  PROVE  RouteTyped'
BY DEF S!Ensure, RouteTyped, S!Register

LEMMA BeginPreviewStep ==
  ASSUME SheetInv, NEW id \in Profile, NEW grid \in Grids, S!BeginPreview(id, grid)
  PROVE  SheetInv' /\ ~S!Committing
<1>1. staged'.stage = "read"
  BY DEF S!BeginPreview
<1>2. RouteTyped'
  <2>1. CASE profiles[id].target = "snag report"
    BY <2>1, EnsureGrows DEF S!BeginPreview, SheetInv
  <2>2. CASE profiles[id].target # "snag report"
    BY <2>2 DEF S!BeginPreview, S!NothingToEnsure, SheetInv, RouteTyped
  <2> QED BY <2>1, <2>2
<1> QED BY <1>1, <1>2 DEF SheetInv, RowsStand, S!Committing

LEMMA JudgeStep ==
  ASSUME SheetInv, S!Judge
  PROVE  SheetInv' /\ ~S!Committing
<1> DEFINE p == staged.profile
           number == S!Numbered(staged.grid, p)
           value == [i \in DOMAIN number |-> S!Mapped(staged.grid[i], staged.grid, p)]
           wrong == [i \in DOMAIN number |-> S!Errors(p, value[i])]
           passed == [i \in {i \in DOMAIN number : wrong[i] = {}} |-> S!Canonical(p, value[i])]
<1>1. /\ staged.stage = "read" /\ staged'.stage = "previewed" /\ staged'.profile = p
      /\ staged'.rows = passed /\ staged' = AsStaged(staged')
      /\ route' = route /\ fleet' = fleet
  BY DEF S!Judge, AsStaged, S!masters
<1>2. ASSUME p.target = "snag report", NEW v \in S!Range(passed) PROVE RowStands(v)
  <2>1. PICK i \in DOMAIN number : wrong[i] = {} /\ v = S!Canonical(p, value[i])
    BY <1>2 DEF S!Range
  <2>2. S!Errors(p, value[i]) = {} /\ value[i] = S!Mapped(staged.grid[i], staged.grid, p)
    BY <2>1
  <2>3. DOMAIN value[i] = S!Key /\ value[i] = [k \in S!Key |-> value[i][k]]
    BY <2>2 DEF S!Mapped
  <2> HIDE DEF p, number, value, wrong, passed
  <2> QED BY <1>2, <2>1, <2>2, <2>3, PassedRowStands
<1> HIDE DEF p, number, value, wrong, passed
<1>3. RowsStand'
  BY <1>1, <1>2 DEF RowsStand, RowStands, S!Range
<1> QED BY <1>1, <1>3 DEF SheetInv, RouteTyped, S!Committing

LEMMA EditStep ==
  ASSUME SheetInv, S!Edit, RouteTyped', fleet' = fleet
  PROVE  SheetInv' /\ ~S!Committing
<1>1. CASE staged.stage = "previewed"
  <2>1. staged = AsStaged(staged) /\ staged' = [staged EXCEPT !.touched = TRUE]
    BY <1>1 DEF S!Edit, SheetInv, RowsStand
  <2>2. /\ staged'.profile = staged.profile /\ staged'.rows = staged.rows
        /\ staged'.stage = "previewed" /\ staged' = AsStaged(staged')
    BY <1>1, <2>1, PreviewKeepsStage
  <2> QED BY <1>1, <2>2 DEF SheetInv, RowsStand, RowStands, S!Committing, S!Range
<1>2. CASE staged.stage # "previewed"
  BY <1>2 DEF S!Edit, SheetInv, RowsStand, S!Committing
<1> QED BY <1>1, <1>2

\* The masters a commit is judged by and the rows it was given have not moved.
LEMMA CommitStep ==
  ASSUME SheetInv, S!Commit
  PROVE  /\ SheetInv'
         /\ staged'.profile = staged.profile
         /\ \A v \in S!Range(staged.rows) :
              \/ ~S!Dated(staged.profile.target)
              \/ S!OnTheBooks(staged.profile, v)'
              \/ S!Day(v) = Blank
              \/ S!RegisterOf(staged.profile, v) = S!Unrouted
<1> DEFINE p == staged.profile
           R == S!Range(staged.rows)
<1>1. /\ staged.stage = "previewed" /\ staged' = [staged EXCEPT !.stage = "done"]
      /\ route' = route
      /\ p.target = "snag report" => S!StillEnsured(R)
      /\ S!CommitEntries(p, IF S!Dated(p.target) THEN R ELSE {})
  BY DEF S!Commit
<1>2. staged = AsStaged(staged)
  BY <1>1 DEF SheetInv, RowsStand
<1>3. staged'.profile = p /\ staged'.stage = "done"
  BY <1>1, <1>2, PreviewKeepsStage
<1>4. SheetInv'
  BY <1>1, <1>3 DEF SheetInv, RowsStand, RouteTyped
<1>5. ASSUME NEW v \in R, S!Dated(p.target), S!Day(v) # Blank, S!RegisterOf(p, v) # S!Unrouted
      PROVE  S!OnTheBooks(staged.profile, v)'
  <2>1. S!CommitEntries(p, R)
    BY <1>1, <1>5
  <2>2. S!RegisterOf(p, v) \in S!Register \/ (p.target = "snag report" /\ S!RouteOf(v) = S!Inspection)
    <3>1. CASE p.target \in S!Register
      BY <3>1 DEF S!RegisterOf, S!Register
    <3>2. CASE p.target = "snag report"
      <4>1. RowStands(v) /\ S!NewCodes(R) = {}
        BY <1>1, <3>2 DEF SheetInv, RowsStand, S!StillEnsured
      <4>2. v.work \in S!InUse
        BY <4>1 DEF S!NewCodes, RowStands
      <4>3. S!RouteOf(v) = route[v.work] /\ v.work \in WorkCode /\ route[v.work] # Blank
        BY <4>2 DEF S!RouteOf, S!InUse
      <4>4. S!RouteOf(v) \in S!Register \cup {S!Inspection, S!Unrouted}
        BY <4>3 DEF SheetInv, RouteTyped
      <4> QED BY <1>5, <3>2, <4>4 DEF S!RegisterOf
    <3> QED BY <1>5, <3>1, <3>2 DEF S!Dated
  <2>3. CASE S!RegisterOf(p, v) \in S!Register
    <3>1. CASE S!Mark(p.target, v) \in S!Marks
      <4>1. PICK e \in book : e.mark = S!Mark(p.target, v)
        BY <3>1 DEF S!Marks
      <4>2. e \in book'
        BY <2>1 DEF S!CommitEntries
      <4> QED BY <1>3, <4>1, <4>2 DEF S!OnTheBooks, S!Marks, S!Mark
    <3>2. CASE S!Mark(p.target, v) \notin S!Marks
      <4>1. S!Writes(p, v)
        BY <1>5, <2>3, <3>2 DEF S!Writes
      <4>2. S!EntryFor(p, v) \in book'
        BY <2>1, <4>1 DEF S!CommitEntries
      <4>3. S!EntryFor(p, v).mark = S!Mark(p.target, v)
        BY DEF S!EntryFor
      <4> QED BY <1>3, <4>2, <4>3 DEF S!OnTheBooks, S!Marks, S!Mark
    <3> QED BY <3>1, <3>2
  <2>4. CASE p.target = "snag report" /\ S!RouteOf(v) = S!Inspection
    <3>1. v.bus \in fleet
      BY <1>1, <2>4 DEF SheetInv, RowsStand, RowStands
    <3>2. <<v.bus, v.work, S!Day(v)>> \in inspections'
      <4>1. CASE S!Inspects(p, v)
        BY <2>1, <4>1 DEF S!CommitEntries
      <4>2. CASE ~S!Inspects(p, v)
        BY <1>5, <2>1, <2>4, <3>1, <4>2 DEF S!CommitEntries, S!Inspects
      <4> QED BY <4>1, <4>2
    <3> QED BY <3>2 DEF S!OnTheBooks, S!Day
  <2> QED BY <2>2, <2>3, <2>4
<1> QED BY <1>3, <1>4, <1>5

LEMMA OtherStep ==
  ASSUME SheetInv, S!masters' = S!masters, staged' \in {staged, S!NoPreview}
  PROVE  SheetInv' /\ ~S!Committing
<1>1. route' = route /\ fleet' = fleet
  BY DEF S!masters
<1>2. CASE staged' = staged
  BY <1>1, <1>2 DEF SheetInv, RouteTyped, RowsStand, RowStands, S!Committing, AsStaged, S!Range
<1>3. CASE staged' = S!NoPreview
  <2>1. staged'.stage = "none"
    BY <1>3 DEF S!NoPreview
  <2> QED BY <1>1, <2>1 DEF SheetInv, RouteTyped, RowsStand, S!Committing
<1> QED BY <1>2, <1>3

LEMMA SheetInit ==
  ASSUME S!Init PROVE SheetInv
<1>1. staged.stage = "none"
  BY DEF S!Init, S!NoPreview
<1>2. route \in [WorkCode -> {Blank, "breakdown", S!Inspection}]
  BY DEF S!Init
<1> QED BY <1>1, <1>2 DEF SheetInv, RowsStand, RouteTyped, S!Register

LEMMA SheetNext ==
  ASSUME SheetInv, [S!Next]_S!vars
  PROVE  SheetInv' /\ (S!Committing => S!Commit)
<1>1. CASE \E id \in Profile, grid \in Grids : S!BeginPreview(id, grid)
  BY <1>1, BeginPreviewStep
<1>2. CASE S!Judge
  BY <1>2, JudgeStep
<1>3. CASE S!Commit
  BY <1>3, CommitStep
<1>4. CASE S!CommitFails
  BY <1>4, OtherStep DEF S!CommitFails
<1>5. CASE \/ \E id \in Profile : (\E m \in Mappings : S!Save(id, m)) \/ S!Delete(id)
           \/ S!Seed
  BY <1>5, OtherStep DEF S!Save, S!Delete, S!Seed
<1>6. CASE \E b \in SheetBus : S!Retire(b)
  BY <1>6, EditStep DEF S!Retire, SheetInv, RouteTyped
<1>7. CASE \E c \in WorkCode : S!Hide(c)
  BY <1>7, EditStep DEF S!Hide, SheetInv, RouteTyped
<1>8. CASE \E c \in WorkCode, to \in S!Register \cup {S!Inspection, S!Unrouted} : S!Reroute(c, to)
  <2>1. PICK c \in WorkCode, to \in S!Register \cup {S!Inspection, S!Unrouted} : S!Reroute(c, to)
    BY <1>8
  <2>2. S!Edit /\ fleet' = fleet /\ route' = [route EXCEPT ![c] = to]
    BY <2>1 DEF S!Reroute
  <2>3. RouteTyped'
    BY <2>2 DEF SheetInv, RouteTyped
  <2> QED BY <2>2, <2>3, EditStep
<1>9. CASE UNCHANGED S!vars
  BY <1>9, OtherStep DEF S!vars, S!masters
<1> QED BY <1>1, <1>2, <1>3, <1>4, <1>5, <1>6, <1>7, <1>8, <1>9 DEF S!Next

\* For any sheets, mappings and edits of the masters in between: a commit that
\* went through has put every accepted row on the books, unless its work is
\* routed nowhere by now or only the mapping's format reads its date.
THEOREM AcceptedRowsArrive == S!Spec => NoRowIsDropped
<1>1. SheetInv /\ [S!Next]_S!vars => SheetInv'
  BY SheetNext
<1>2. SheetInv /\ [S!Next]_S!vars =>
        [S!Committing =>
           \A v \in S!Range(staged.rows) :
             \/ ~S!Dated(staged.profile.target)
             \/ S!OnTheBooks(staged.profile, v)'
             \/ S!Day(v) = Blank
             \/ S!RegisterOf(staged.profile, v) = S!Unrouted]_S!vars
  BY SheetNext, CommitStep
<1> QED BY <1>1, <1>2, SheetInit, PTL DEF S!Spec, NoRowIsDropped, S!NoRowIsDropped

-----------------------------------------------------------------------------
(* What a preview counts as new: keys nobody has, each with the first row   *)
(* that bears it.                                                           *)
LEMMA SheetsCount ==
  ASSUME NEW A
  PROVE  (S!IsFiniteSet(A) <=> IsFiniteSet(A)) /\ S!Cardinality(A) = Cardinality(A)
<1>1. S!IsFiniteSet(A) <=> IsFiniteSet(A)
  BY DEF S!IsFiniteSet, IsFiniteSet
<1>2. S!Cardinality(A) = Cardinality(A)
  BY DEF S!Cardinality, Cardinality
<1> QED BY <1>1, <1>2

LEMMA ImageIsFinite ==
  ASSUME NEW f, IsFiniteSet(DOMAIN f)
  PROVE  IsFiniteSet({f[x] : x \in DOMAIN f})
<1> DEFINE T == {f[x] : x \in DOMAIN f}
           g == [x \in DOMAIN f |-> f[x]]
<1>1. g \in Surjection(DOMAIN f, T)
  BY DEF Surjection
<1> HIDE DEF T, g
<1>2. IsFiniteSet(T)
  BY <1>1, FS_Surjection
<1> QED BY <1>2 DEF T

\* As many things as keys, where no two have one key.
LEMMA KeysCount ==
  ASSUME NEW f, IsFiniteSet(DOMAIN f), \A x, y \in DOMAIN f : f[x] = f[y] => x = y
  PROVE  /\ IsFiniteSet({f[x] : x \in DOMAIN f})
         /\ Cardinality({f[x] : x \in DOMAIN f}) = Cardinality(DOMAIN f)
<1> DEFINE T == {f[x] : x \in DOMAIN f}
           g == [x \in DOMAIN f |-> f[x]]
<1>1. g \in Bijection(DOMAIN f, T)
  BY DEF Bijection, Injection, Surjection, IsInjective
<1> HIDE DEF T, g
<1>2. IsFiniteSet(T) /\ Cardinality(T) = Cardinality(DOMAIN f)
  BY <1>1, FS_Bijection DEF ExistsBijection
<1> QED BY <1>2 DEF T

\* The indices of rows that are first of a key not yet known.
FirstOf(known, key) ==
  {i \in DOMAIN key : key[i] \notin known /\ \A j \in DOMAIN key : j < i => key[j] # key[i]}
KeysOf(key) == {key[i] : i \in DOMAIN key}

LEMMA FirstsCountKeys ==
  ASSUME NEW known, NEW key, DOMAIN key \in SUBSET Nat, IsFiniteSet(DOMAIN key)
  PROVE  /\ IsFiniteSet(KeysOf(key))
         /\ Cardinality(FirstOf(known, key)) = Cardinality(KeysOf(key) \ known)
<1> DEFINE N == FirstOf(known, key)
           f == [i \in N |-> key[i]]
<1>1. N \subseteq DOMAIN key /\ IsFiniteSet(N)
  <2>1. N \subseteq DOMAIN key
    BY DEF FirstOf
  <2> QED BY <2>1, FS_Subset
<1>2. ASSUME NEW x \in N, NEW y \in N, f[x] = f[y] PROVE x = y
  <2>1. /\ x \in Nat /\ y \in Nat /\ x \in DOMAIN key /\ y \in DOMAIN key /\ key[x] = key[y]
    BY <1>1, <1>2
  <2>2. ~(x < y) /\ ~(y < x)
    BY <2>1 DEF FirstOf
  <2> QED BY <2>1, <2>2
<1>3. {f[x] : x \in DOMAIN f} = KeysOf(key) \ known
  <2>1. ASSUME NEW k \in KeysOf(key) \ known PROVE \E x \in N : key[x] = k
    <3> DEFINE B == {i \in DOMAIN key : key[i] = k}
    <3>1. B \in SUBSET Nat /\ B # {}
      BY DEF KeysOf
    <3>2. PICK i \in B : \A j \in B : i <= j
      BY <3>1, HasSmallest
    <3>3. \A j \in DOMAIN key : j < i => key[j] # key[i]
      BY <3>1, <3>2
    <3>4. i \in N
      BY <3>2, <3>3 DEF FirstOf
    <3> QED BY <3>2, <3>4
  <2>2. \A x \in N : key[x] \in KeysOf(key) \ known
    BY DEF FirstOf, KeysOf
  <2> HIDE DEF N
  <2> QED BY <2>1, <2>2
<1>4. DOMAIN f = N
  OBVIOUS
<1> HIDE DEF N, f
<1>5. Cardinality(KeysOf(key) \ known) = Cardinality(N)
  BY <1>1, <1>2, <1>3, <1>4, KeysCount
<1>6. IsFiniteSet(KeysOf(key))
  BY ImageIsFinite DEF KeysOf
<1> QED BY <1>5, <1>6 DEF N

LEMMA UnionCounts ==
  ASSUME NEW A, NEW B, IsFiniteSet(A), IsFiniteSet(B)
  PROVE  /\ IsFiniteSet(A \cup B)
         /\ Cardinality(A \cup B) = Cardinality(A) + Cardinality(B \ A)
<1> DEFINE D == B \ A
<1>1. IsFiniteSet(D)
  BY FS_Subset
<1>2. A \cup B = A \cup D /\ A \cap D = {}
  OBVIOUS
<1> HIDE DEF D
<1>3. /\ IsFiniteSet(A \cup D)
      /\ Cardinality(A \cup D) = Cardinality(A) + Cardinality(D) - Cardinality(A \cap D)
  BY <1>1, FS_Union
<1>4. Cardinality(A \cap D) = 0
  BY <1>2, FS_EmptySet
<1>5. Cardinality(A) \in Nat /\ Cardinality(D) \in Nat
  BY <1>1, FS_CardinalityType
<1>6. Cardinality(A \cup D) = Cardinality(A) + Cardinality(D)
  BY <1>3, <1>4, <1>5
<1>7. IsFiniteSet(A \cup B) /\ Cardinality(A \cup B) = Cardinality(A) + Cardinality(D)
  BY <1>2, <1>3, <1>6
<1> QED BY <1>7 DEF D

\* A list of one spelling each, brought up to date: one spelling each again, and
\* as many as names there were or are in the sheet.
OneSpelling(list) == \A m, n \in list : FoldOf[m] = FoldOf[n] => m = n
FoldsOf(list) == {FoldOf[n] : n \in list}

LEMMA UpsertedCounts ==
  ASSUME NEW list, IsFiniteSet(list), OneSpelling(list),
         NEW vs, DOMAIN vs \in SUBSET Nat, IsFiniteSet(DOMAIN vs),
         NEW N \in Nat, \A i \in DOMAIN vs : i <= N,
         NEW key, key = [i \in DOMAIN vs |-> FoldOf[vs[i].group]]
  PROVE  /\ IsFiniteSet(S!Upserted(list, vs)) /\ OneSpelling(S!Upserted(list, vs))
         /\ Cardinality(S!Upserted(list, vs)) =
              Cardinality(list) + Cardinality(KeysOf(key) \ FoldsOf(list))
<1> DEFINE U == S!Upserted(list, vs)
           kept == {n \in list : \A i \in DOMAIN vs : FoldOf[vs[i].group] # FoldOf[n]}
           last == {i \in DOMAIN vs : \A j \in DOMAIN vs : key[j] = key[i] => j <= i}
           new == {vs[i].group : i \in last}
           f == [n \in U |-> FoldOf[n]]
           g == [n \in list |-> FoldOf[n]]
<1>1. U = kept \cup new
  BY DEF S!Upserted
<1>2. IsFiniteSet(kept) /\ IsFiniteSet(new)
  <2>1. IsFiniteSet(kept)
    BY FS_Subset
  <2> DEFINE h == [i \in last |-> vs[i].group]
  <2>2. IsFiniteSet(last)
    BY FS_Subset
  <2>3. new = {h[i] : i \in DOMAIN h} /\ DOMAIN h = last
    OBVIOUS
  <2> HIDE DEF h, last, new
  <2>4. IsFiniteSet(new)
    BY <2>2, <2>3, ImageIsFinite
  <2> QED BY <2>1, <2>4
<1>3. IsFiniteSet(U)
  <2> HIDE DEF U, kept, new
  <2> QED BY <1>1, <1>2, FS_Union
<1>4. OneSpelling(U)
  <2>1. ASSUME NEW m \in kept, NEW n \in kept, FoldOf[m] = FoldOf[n] PROVE m = n
    BY <2>1 DEF OneSpelling
  <2>2. ASSUME NEW m \in kept, NEW n \in new PROVE FoldOf[m] # FoldOf[n]
    OBVIOUS
  <2>3. ASSUME NEW m \in new, NEW n \in new, FoldOf[m] = FoldOf[n] PROVE m = n
    <3>1. PICK i \in last : m = vs[i].group
      OBVIOUS
    <3>2. PICK j \in last : n = vs[j].group
      OBVIOUS
    <3>3. key[i] = key[j] /\ i \in DOMAIN vs /\ j \in DOMAIN vs
      BY <2>3, <3>1, <3>2
    <3>4. i <= j /\ j <= i /\ i \in Nat /\ j \in Nat
      BY <3>3
    <3> QED BY <3>1, <3>2, <3>4
  <2> HIDE DEF U, kept, new
  <2> QED BY <1>1, <2>1, <2>2, <2>3 DEF OneSpelling
<1>5. {f[n] : n \in DOMAIN f} = FoldsOf(list) \cup KeysOf(key)
  <2>1. ASSUME NEW i \in DOMAIN vs PROVE \E n \in new : FoldOf[n] = key[i]
    <3> DEFINE B == {N - j : j \in {j \in DOMAIN vs : key[j] = key[i]}}
    <3>1. B \in SUBSET Nat /\ B # {}
      OBVIOUS
    <3>2. PICK b \in B : \A c \in B : b <= c
      BY <3>1, HasSmallest
    <3>3. PICK j \in DOMAIN vs : key[j] = key[i] /\ b = N - j
      OBVIOUS
    <3>4. ASSUME NEW k \in DOMAIN vs, key[k] = key[j] PROVE k <= j
      <4>1. N - k \in B
        BY <3>3, <3>4
      <4>2. N - j <= N - k /\ j \in Nat /\ k \in Nat
        BY <3>2, <3>3, <4>1
      <4> QED BY <4>2
    <3>5. j \in last
      BY <3>4
    <3> QED BY <3>3, <3>5
  <2>2. ASSUME NEW n \in list PROVE \E m \in U : FoldOf[m] = FoldOf[n]
    <3>1. CASE n \in kept
      BY <1>1, <3>1
    <3>2. CASE n \notin kept
      <4>1. PICK i \in DOMAIN vs : FoldOf[vs[i].group] = FoldOf[n]
        BY <3>2
      <4>2. key[i] = FoldOf[n]
        BY <4>1
      <4>3. PICK m \in new : FoldOf[m] = key[i]
        BY <2>1
      <4> QED BY <1>1, <4>2, <4>3
    <3> QED BY <3>1, <3>2
  <2>3. ASSUME NEW m \in U PROVE FoldOf[m] \in FoldsOf(list) \cup KeysOf(key)
    <3>1. CASE m \in kept
      BY <3>1 DEF FoldsOf
    <3>2. CASE m \in new
      BY <3>2 DEF KeysOf
    <3> HIDE DEF U, kept, new
    <3> QED BY <1>1, <3>1, <3>2
  <2>4. \A k \in KeysOf(key) : \E i \in DOMAIN vs : k = key[i]
    BY DEF KeysOf
  <2>5. \A k \in FoldsOf(list) : \E n \in list : k = FoldOf[n]
    BY DEF FoldsOf
  <2>6. new \subseteq U
    BY <1>1
  <2> HIDE DEF U, kept, new, last
  <2>7. DOMAIN f = U /\ \A n \in U : f[n] = FoldOf[n]
    OBVIOUS
  <2> HIDE DEF f
  <2> QED BY <2>1, <2>2, <2>3, <2>4, <2>5, <2>6, <2>7
<1>6. /\ DOMAIN f = U /\ \A m, n \in U : f[m] = f[n] => m = n
      /\ DOMAIN g = list /\ \A m, n \in list : g[m] = g[n] => m = n
      /\ {g[n] : n \in DOMAIN g} = FoldsOf(list)
  <2> HIDE DEF U
  <2> QED BY <1>4 DEF OneSpelling, FoldsOf
<1> HIDE DEF U, f, g, kept, new, last
<1>7. Cardinality(U) = Cardinality(FoldsOf(list) \cup KeysOf(key))
  BY <1>3, <1>5, <1>6, KeysCount
<1>8. Cardinality(FoldsOf(list)) = Cardinality(list) /\ IsFiniteSet(FoldsOf(list))
  <2>1. IsFiniteSet(DOMAIN g) /\ \A m, n \in DOMAIN g : g[m] = g[n] => m = n
    BY <1>6
  <2>2. /\ IsFiniteSet({g[x] : x \in DOMAIN g})
        /\ Cardinality({g[x] : x \in DOMAIN g}) = Cardinality(DOMAIN g)
    BY <2>1, KeysCount
  <2> QED BY <1>6, <2>2
<1>9. IsFiniteSet(KeysOf(key))
  BY ImageIsFinite DEF KeysOf
<1>10. Cardinality(FoldsOf(list) \cup KeysOf(key)) =
         Cardinality(FoldsOf(list)) + Cardinality(KeysOf(key) \ FoldsOf(list))
  BY <1>8, <1>9, UnionCounts
<1> QED BY <1>3, <1>4, <1>7, <1>8, <1>10 DEF U

\* What a preview is made of and what it counted, against masters that only a
\* commit or the next preview changes.
ListsFit ==
  /\ lists = [l \in S!Lists |-> lists[l]]
  /\ \A l \in S!Lists : IsFiniteSet(lists[l]) /\ OneSpelling(lists[l])
SheetsFit ==
  /\ profiles \in [Profile -> Mappings \cup {SeedMapping, Blank}]
  /\ staged.stage = "read" =>
       staged.profile \in Mappings \cup {SeedMapping} /\ staged.grid \in Grids
IndicesFit(rows) ==
  /\ DOMAIN rows \in SUBSET Nat /\ IsFiniteSet(DOMAIN rows)
  /\ \E n \in Nat : \A i \in DOMAIN rows : i <= n
RowFits(target, v) ==
  /\ target \in {"vehicles", "odometers"} => v.bus # Blank
  /\ target = "odometers" => v.bus \in fleet
  /\ target \in S!Lists => v.group \in DOMAIN FoldOf
BusKey(rows) == [i \in DOMAIN rows |-> rows[i].bus]
NameKey(rows) == [i \in DOMAIN rows |-> FoldOf[rows[i].group]]
NewCounted ==
  staged.stage = "previewed" =>
    /\ IndicesFit(staged.rows)
    /\ \A i \in DOMAIN staged.rows : RowFits(staged.profile.target, staged.rows[i])
    /\ staged.profile.target \in {"vehicles", "odometers"} =>
         staged.new = Cardinality(KeysOf(BusKey(staged.rows)) \ fleet)
    /\ staged.profile.target \in S!Lists =>
         staged.new =
           Cardinality(KeysOf(NameKey(staged.rows)) \ FoldsOf(lists[staged.profile.target]))

CountInv == ListsFit /\ IsFiniteSet(fleet) /\ SheetsFit /\ NewCounted

LEMMA NaturalKeyIs ==
  ASSUME NEW p, NEW v
  PROVE  /\ p.target \in {"vehicles", "odometers"} =>
              S!NaturalKey(p, v) = v.bus /\ S!Known(p) = fleet
         /\ p.target \in S!Lists =>
              /\ S!NaturalKey(p, v) = FoldOf[v.group]
              /\ S!Known(p) = {FoldOf[n] : n \in lists[p.target]}
<1>1. CASE p.target \in {"vehicles", "odometers"}
  <2>1. p.target \notin S!Lists
    BY <1>1 DEF S!Lists
  <2>2. S!NaturalKey(p, v) = v.bus
    BY <1>1, <2>1, Zenon DEF S!NaturalKey
  <2>3. S!Known(p) = fleet
    BY <1>1, <2>1, Zenon DEF S!Known
  <2> QED BY <2>1, <2>2, <2>3
<1>2. CASE p.target \in S!Lists
  <2>1. p.target \notin {"vehicles", "odometers"}
    BY <1>2 DEF S!Lists
  <2>2. S!NaturalKey(p, v) = FoldOf[v.group]
    BY <1>2, <2>1, Zenon DEF S!NaturalKey
  <2>3. S!Known(p) = {FoldOf[n] : n \in lists[p.target]}
    BY <1>2, <2>1, Zenon DEF S!Known
  <2> QED BY <2>1, <2>2, <2>3
<1> QED BY <1>1, <1>2

LEMMA TrimmedFits ==
  ASSUME NEW grid \in Grids, S!RowsAssumption
  PROVE  \E n \in Nat : DOMAIN S!Trimmed(grid) = 1 .. n /\ n <= Len(grid)
<1> DEFINE A == {0} \cup {i \in DOMAIN grid : grid[i] # Blank}
           N == Len(grid)
           B == {N - i : i \in A}
<1>1. N \in Nat /\ DOMAIN grid = 1 .. N
  BY DEF S!RowsAssumption
<1>2. A \in SUBSET (0 .. N) /\ 0 \in A
  BY <1>1
<1>3. B \in SUBSET Nat /\ B # {}
  BY <1>1, <1>2
<1> HIDE DEF A, N
<1>4. PICK b \in B : \A c \in B : b <= c
  BY <1>3, HasSmallest
<1>5. PICK a \in A : b = N - a
  OBVIOUS
<1>6. \A i \in A : a >= i
  <2>1. ASSUME NEW i \in A PROVE a >= i
    <3>1. N - a <= N - i
      BY <1>4, <1>5
    <3>2. a \in Nat /\ i \in Nat
      BY <1>1, <1>2
    <3> QED BY <1>1, <3>1, <3>2
  <2> QED BY <2>1
<1>7. S!Max(A) \in A
  BY <1>6 DEF S!Max
<1>8. S!Max(A) \in Nat /\ S!Max(A) <= N
  <2>1. \A m \in A : m \in Nat /\ m <= N
    BY <1>1, <1>2
  <2> QED BY <1>7, <2>1
<1>9. S!Trimmed(grid) = SubSeq(grid, 1, S!Max(A))
  BY DEF S!Trimmed, A
<1>10. DOMAIN S!Trimmed(grid) = 1 .. S!Max(A)
  BY <1>8, <1>9
<1> QED BY <1>8, <1>10 DEF N

LEMMA NumberedFits ==
  ASSUME NEW grid \in Grids, S!RowsAssumption, NEW p
  PROVE  /\ IndicesFit(S!Numbered(grid, p))
         /\ \A i \in DOMAIN S!Numbered(grid, p) : i \in DOMAIN grid /\ grid[i] # Blank
<1>1. PICK n \in Nat : DOMAIN S!Trimmed(grid) = 1 .. n /\ n <= Len(grid)
  BY TrimmedFits
<1>2. Len(grid) \in Nat /\ DOMAIN grid = 1 .. Len(grid)
  BY DEF S!RowsAssumption
<1> DEFINE D == DOMAIN S!Numbered(grid, p)
<1>3. D \subseteq 1 .. n /\ \A i \in D : grid[i] # Blank
  BY <1>1 DEF S!Numbered
<1> HIDE DEF D
<1>4. IsFiniteSet(D)
  <2>1. IsFiniteSet(1 .. n)
    BY FS_Interval
  <2> QED BY <1>3, <2>1, FS_Subset
<1>5. D \in SUBSET Nat /\ \A i \in D : i <= n
  BY <1>1, <1>3
<1>6. \A i \in D : i \in DOMAIN grid
  BY <1>1, <1>2, <1>3
<1> QED BY <1>1, <1>3, <1>4, <1>5, <1>6 DEF IndicesFit, D

\* A row that passed has what its list or the fleet is compared by.
LEMMA PassedRowFits ==
  ASSUME NEW p \in Mappings \cup {SeedMapping}, NEW grid \in Grids, S!RowsAssumption,
         NEW i \in DOMAIN S!Numbered(grid, p), NEW v, v = S!Mapped(grid[i], grid, p),
         S!Errors(p, v) = {}
  PROVE  RowFits(p.target, S!Canonical(p, v))
<1>1. i \in DOMAIN grid /\ grid[i] # Blank
  BY NumberedFits
<1>2. v["group"] \in S!Named
  <2>1. grid[i]["group"] \in S!Named
    BY <1>1 DEF S!RowsAssumption
  <2>2. "group" \in DOMAIN p.constant => p.constant["group"] \in S!Named
    BY DEF S!RowsAssumption
  <2> QED BY <2>1, <2>2 DEF S!Mapped, S!Key, S!Named
<1>3. DOMAIN v = S!Key /\ v = [k \in S!Key |-> v[k]]
  BY DEF S!Mapped
<1>4. "bus" \in S!Key /\ "group" \in S!Key
  BY DEF S!Key
<1>5. S!Blanks(p, v) = {} /\ S!FieldErrors(p, v) = {}
  BY DEF S!Errors
<1>6. CASE p.target \in {"vehicles", "odometers"}
  <2>1. /\ p.target \notin S!Lists /\ p.target # "snag report" /\ ~S!Dated(p.target)
    BY <1>6 DEF S!Lists, S!Dated, S!Register
  <2>2. "bus" \in S!Required(p.target)
    BY <1>4, <2>1 DEF S!Required
  <2>3. v["bus"] # Blank
    BY <1>5, <2>2 DEF S!Blanks
  <2>4. S!BusNamed(p, v) = v["bus"]
    BY <2>1 DEF S!BusNamed
  <2>5. S!Canonical(p, v).bus = v["bus"]
    BY <1>3, <1>4, <2>4 DEF S!Canonical
  <2>6. p.target = "odometers" => v["bus"] \in fleet
    BY <1>5, <2>4 DEF S!FieldErrors, S!NeedsFleet
  <2> QED BY <2>1, <2>3, <2>5, <2>6 DEF RowFits
<1>7. CASE p.target \in S!Lists
  <2>1. p.target \notin {"vehicles", "odometers"} /\ ~S!Dated(p.target)
    BY <1>7 DEF S!Lists, S!Dated, S!Register
  <2>2. "group" \in S!Required(p.target)
    BY <1>4, <1>7 DEF S!Required
  <2>3. v["group"] # Blank
    BY <1>5, <2>2 DEF S!Blanks
  <2>4. S!Canonical(p, v).group = v["group"]
    BY <1>3, <1>4, <2>1 DEF S!Canonical
  <2> QED BY <1>2, <2>1, <2>3, <2>4 DEF RowFits, S!Named
<1> QED BY <1>6, <1>7 DEF RowFits

\* What a preview counts as new are the keys its rows bring.
LEMMA NewAreFirst ==
  ASSUME NEW p, NEW vs, IndicesFit(vs), NEW key, DOMAIN key = DOMAIN vs,
         \A i \in DOMAIN vs : S!NaturalKey(p, vs[i]) = key[i] /\ key[i] # Blank
  PROVE  Cardinality(S!NewRows(p, vs)) = Cardinality(KeysOf(key) \ S!Known(p))
<1>1. S!NewRows(p, vs) = FirstOf(S!Known(p), key)
  BY DEF S!NewRows, FirstOf
<1>2. DOMAIN key \in SUBSET Nat /\ IsFiniteSet(DOMAIN key)
  BY DEF IndicesFit
<1> QED BY <1>1, <1>2, FirstsCountKeys

LEMMA JudgeCounts ==
  ASSUME CountInv, S!RowsAssumption, S!Judge
  PROVE  NewCounted'
<1> DEFINE p == staged.profile
           number == S!Numbered(staged.grid, p)
           value == [i \in DOMAIN number |-> S!Mapped(staged.grid[i], staged.grid, p)]
           wrong == [i \in DOMAIN number |-> S!Errors(p, value[i])]
           passed == [i \in {i \in DOMAIN number : wrong[i] = {}} |-> S!Canonical(p, value[i])]
<1>1. /\ staged.stage = "read" /\ staged'.profile = p /\ staged'.rows = passed
      /\ staged'.new = S!Cardinality(S!NewRows(p, passed))
      /\ fleet' = fleet /\ lists' = lists
  BY DEF S!Judge, S!masters
<1>2. p \in Mappings \cup {SeedMapping} /\ staged.grid \in Grids
  BY <1>1 DEF CountInv, SheetsFit
<1>3. IndicesFit(number)
  BY <1>2, NumberedFits
<1>4. IndicesFit(passed)
  <2>1. DOMAIN passed \subseteq DOMAIN number
    OBVIOUS
  <2> HIDE DEF passed, number
  <2> QED BY <1>3, <2>1, FS_Subset DEF IndicesFit
<1>5. \A i \in DOMAIN passed : RowFits(p.target, passed[i])
  <2>1. ASSUME NEW i \in DOMAIN passed PROVE RowFits(p.target, passed[i])
    <3>1. i \in DOMAIN number /\ wrong[i] = {} /\ passed[i] = S!Canonical(p, value[i])
      OBVIOUS
    <3>2. value[i] = S!Mapped(staged.grid[i], staged.grid, p) /\ S!Errors(p, value[i]) = {}
      BY <3>1
    <3> HIDE DEF passed, number, value, wrong, p
    <3>3. i \in DOMAIN S!Numbered(staged.grid, p)
      BY <3>1 DEF number
    <3>4. RowFits(p.target, S!Canonical(p, value[i]))
      BY <1>2, <3>2, <3>3, PassedRowFits
    <3> QED BY <3>1, <3>4
  <2> QED BY <2>1
<1> HIDE DEF passed, number, value, wrong, p
<1>6. staged'.new = Cardinality(S!NewRows(p, passed))
  BY <1>1, SheetsCount
<1>7. p.target \in {"vehicles", "odometers"} =>
        staged'.new = Cardinality(KeysOf(BusKey(passed)) \ fleet)
  <2>1. SUFFICES ASSUME p.target \in {"vehicles", "odometers"}
                 PROVE  staged'.new = Cardinality(KeysOf(BusKey(passed)) \ fleet)
    OBVIOUS
  <2>2. DOMAIN BusKey(passed) = DOMAIN passed
    BY DEF BusKey
  <2>3. \A i \in DOMAIN passed :
          S!NaturalKey(p, passed[i]) = BusKey(passed)[i] /\ BusKey(passed)[i] # Blank
    BY <1>5, <2>1, NaturalKeyIs DEF BusKey, RowFits
  <2>4. S!Known(p) = fleet
    BY <2>1, NaturalKeyIs
  <2> QED BY <1>4, <1>6, <2>2, <2>3, <2>4, NewAreFirst
<1>8. p.target \in S!Lists =>
        staged'.new = Cardinality(KeysOf(NameKey(passed)) \ FoldsOf(lists[p.target]))
  <2>1. SUFFICES ASSUME p.target \in S!Lists
                 PROVE  staged'.new = Cardinality(KeysOf(NameKey(passed)) \ FoldsOf(lists[p.target]))
    OBVIOUS
  <2>2. DOMAIN NameKey(passed) = DOMAIN passed
    BY DEF NameKey
  <2>3. \A i \in DOMAIN passed :
          S!NaturalKey(p, passed[i]) = NameKey(passed)[i] /\ NameKey(passed)[i] # Blank
    BY <1>5, <2>1, NaturalKeyIs DEF NameKey, RowFits, S!RowsAssumption
  <2>4. S!Known(p) = FoldsOf(lists[p.target])
    BY <2>1, NaturalKeyIs DEF FoldsOf
  <2> QED BY <1>4, <1>6, <2>2, <2>3, <2>4, NewAreFirst
<1> QED BY <1>1, <1>4, <1>5, <1>7, <1>8
        DEF NewCounted, RowFits, IndicesFit, KeysOf, FoldsOf, BusKey, NameKey

\* Names that are on the list in no spelling, one spelling of each, and the list.
LEMMA SpellingsFit ==
  ASSUME NEW list, OneSpelling(list), IsFiniteSet(list),
         NEW names, IsFiniteSet(names), \A n \in names : S!Entry(list, n) = {},
         NEW T \in S!Spellings(names)
  PROVE  IsFiniteSet(list \cup T) /\ OneSpelling(list \cup T)
<1>1. T \subseteq names /\ \A n \in names : S!Cardinality(S!Entry(T, n)) = 1
  BY DEF S!Spellings
<1>2. IsFiniteSet(T)
  BY <1>1, FS_Subset
<1>3. ASSUME NEW m \in T, NEW n \in T, FoldOf[m] = FoldOf[n] PROVE m = n
  <2>1. IsFiniteSet(S!Entry(T, m)) /\ m \in S!Entry(T, m) /\ n \in S!Entry(T, m)
    <3>1. S!Entry(T, m) \subseteq T
      BY DEF S!Entry
    <3>2. m \in S!Entry(T, m) /\ n \in S!Entry(T, m)
      BY <1>3 DEF S!Entry
    <3> QED BY <1>2, <3>1, <3>2, FS_Subset
  <2>2. Cardinality(S!Entry(T, m)) = 1
    BY <1>1, SheetsCount
  <2>3. PICK x : S!Entry(T, m) = {x}
    BY <2>1, <2>2, FS_Singleton
  <2> QED BY <2>1, <2>3
<1>4. ASSUME NEW m \in list, NEW n \in T PROVE FoldOf[m] # FoldOf[n]
  BY <1>1 DEF S!Entry
<1>5. OneSpelling(list \cup T)
  BY <1>3, <1>4 DEF OneSpelling
<1> QED BY <1>2, <1>5, FS_Union

LEMMA EnsureFits ==
  ASSUME ListsFit, IsFiniteSet(fleet), NEW R, IsFiniteSet(R), S!Ensure(R)
  PROVE  ListsFit' /\ IsFiniteSet(fleet')
<1> DEFINE names == S!NewNames(R)
           groups == [v \in R |-> v.group]
           buses == [v \in R |-> v.bus]
<1>1. IsFiniteSet({groups[v] : v \in R}) /\ IsFiniteSet({buses[v] : v \in R})
  <2>1. DOMAIN groups = R /\ DOMAIN buses = R
    OBVIOUS
  <2> HIDE DEF groups, buses
  <2> QED BY <2>1, ImageIsFinite
<1>2. IsFiniteSet(names) /\ \A n \in names : S!Entry(lists["defect types"], n) = {}
  <2>1. names \subseteq {groups[v] : v \in R}
    BY DEF S!NewNames
  <2>2. \A n \in names : S!Entry(lists["defect types"], n) = {}
    BY DEF S!NewNames
  <2> HIDE DEF names, groups
  <2> QED BY <1>1, <2>1, <2>2, FS_Subset
<1>3. "defect types" \in S!Lists
  BY DEF S!Lists
<1>4. PICK T \in S!Spellings(names) : lists' = [lists EXCEPT !["defect types"] = @ \cup T]
  BY DEF S!Ensure
<1> HIDE DEF names
<1>5. /\ IsFiniteSet(lists["defect types"] \cup T)
      /\ OneSpelling(lists["defect types"] \cup T)
  BY <1>2, <1>3, SpellingsFit DEF ListsFit
<1>6. \A l \in S!Lists :
        lists'[l] = IF l = "defect types" THEN lists["defect types"] \cup T ELSE lists[l]
  BY <1>3, <1>4 DEF ListsFit
<1>7. lists' = [l \in S!Lists |-> lists'[l]]
  BY <1>3, <1>4 DEF ListsFit
<1>8. ListsFit'
  BY <1>5, <1>6, <1>7 DEF ListsFit, OneSpelling
<1>9. IsFiniteSet(fleet')
  <2>1. S!NewBuses(R) \subseteq {buses[v] : v \in R} \cup {FleetWide}
    BY DEF S!NewBuses
  <2>2. fleet' = fleet \cup S!NewBuses(R)
    BY DEF S!Ensure
  <2> HIDE DEF buses
  <2>3. IsFiniteSet({FleetWide})
    BY FS_Singleton
  <2>4. IsFiniteSet(S!NewBuses(R))
    BY <1>1, <2>1, <2>3, FS_Union, FS_Subset
  <2> QED BY <2>2, <2>4, FS_Union
<1> QED BY <1>8, <1>9

LEMMA BeginPreviewCounts ==
  ASSUME CountInv, S!RowsAssumption, NEW id \in Profile, NEW grid \in Grids,
         S!BeginPreview(id, grid)
  PROVE  CountInv'
<1> DEFINE p == profiles[id]
           number == S!Numbered(grid, p)
           values == {S!Mapped(grid[i], grid, p) : i \in DOMAIN number}
<1>1. /\ p # Blank /\ profiles' = profiles /\ staged'.stage = "read"
      /\ staged'.profile = p /\ staged'.grid = grid
      /\ IF p.target = "snag report" THEN S!Ensure(values) ELSE S!NothingToEnsure
  BY DEF S!BeginPreview
<1>2. p \in Mappings \cup {SeedMapping}
  BY <1>1 DEF CountInv, SheetsFit
<1>3. IsFiniteSet(values)
  <2> DEFINE f == [i \in DOMAIN number |-> S!Mapped(grid[i], grid, p)]
  <2>1. values = {f[i] : i \in DOMAIN f} /\ DOMAIN f = DOMAIN number
    OBVIOUS
  <2>2. IsFiniteSet(DOMAIN number)
    BY NumberedFits DEF IndicesFit
  <2> HIDE DEF f, number, values
  <2> QED BY <2>1, <2>2, ImageIsFinite
<1> HIDE DEF values, p
<1>4. ListsFit' /\ IsFiniteSet(fleet')
  <2>1. CASE p.target = "snag report"
    BY <1>1, <1>3, <2>1, EnsureFits DEF CountInv
  <2>2. CASE p.target # "snag report"
    <3>1. lists' = lists /\ fleet' = fleet
      BY <1>1, <2>2 DEF S!NothingToEnsure
    <3> QED BY <3>1 DEF CountInv, ListsFit, OneSpelling
  <2> QED BY <2>1, <2>2
<1>5. SheetsFit' /\ NewCounted'
  BY <1>1, <1>2 DEF CountInv, SheetsFit, NewCounted
<1> QED BY <1>4, <1>5 DEF CountInv

\* The masters grow by what the preview had counted.
LEMMA CommitCounts ==
  ASSUME CountInv, SheetInv, S!Commit
  PROVE  /\ CountInv'
         /\ staged.profile.target \in S!Lists =>
              Cardinality(lists'[staged.profile.target]) =
                Cardinality(lists[staged.profile.target]) + staged.new
         /\ staged.profile.target \in {"vehicles", "odometers"} =>
              Cardinality(fleet') = Cardinality(fleet) + staged.new
<1> DEFINE t == staged.profile.target
           rows == staged.rows
           R == S!Range(rows)
<1>1. /\ staged.stage = "previewed" /\ staged' = [staged EXCEPT !.stage = "done"]
      /\ profiles' = profiles
      /\ lists' = IF t \in S!Lists
                    THEN [lists EXCEPT ![t] = S!Upserted(@, rows)] ELSE lists
      /\ fleet' = IF t = "vehicles" THEN fleet \cup {v.bus : v \in R} ELSE fleet
  BY DEF S!Commit
<1>2. staged'.stage = "done"
  BY <1>1, PreviewKeepsStage DEF SheetInv, RowsStand
<1>3. /\ IndicesFit(rows) /\ \A i \in DOMAIN rows : RowFits(t, rows[i])
      /\ t \in {"vehicles", "odometers"} =>
           staged.new = Cardinality(KeysOf(BusKey(rows)) \ fleet)
      /\ t \in S!Lists => staged.new = Cardinality(KeysOf(NameKey(rows)) \ FoldsOf(lists[t]))
  BY <1>1 DEF CountInv, NewCounted
<1>4. ListsFit /\ IsFiniteSet(fleet)
  BY DEF CountInv
<1> HIDE DEF t, rows, R
<1>5. t \in S!Lists =>
        /\ IsFiniteSet(S!Upserted(lists[t], rows)) /\ OneSpelling(S!Upserted(lists[t], rows))
        /\ Cardinality(S!Upserted(lists[t], rows)) = Cardinality(lists[t]) + staged.new
  <2>1. SUFFICES ASSUME t \in S!Lists
                 PROVE  /\ IsFiniteSet(S!Upserted(lists[t], rows))
                        /\ OneSpelling(S!Upserted(lists[t], rows))
                        /\ Cardinality(S!Upserted(lists[t], rows)) =
                             Cardinality(lists[t]) + staged.new
    OBVIOUS
  <2>2. IsFiniteSet(lists[t]) /\ OneSpelling(lists[t])
    BY <1>4, <2>1 DEF ListsFit
  <2>3. PICK n \in Nat : \A i \in DOMAIN rows : i <= n
    BY <1>3 DEF IndicesFit
  <2>4. DOMAIN rows \in SUBSET Nat /\ IsFiniteSet(DOMAIN rows)
    BY <1>3 DEF IndicesFit
  <2>5. NameKey(rows) = [i \in DOMAIN rows |-> FoldOf[rows[i].group]]
    BY DEF NameKey
  <2>6. /\ IsFiniteSet(S!Upserted(lists[t], rows)) /\ OneSpelling(S!Upserted(lists[t], rows))
        /\ Cardinality(S!Upserted(lists[t], rows)) =
             Cardinality(lists[t]) + Cardinality(KeysOf(NameKey(rows)) \ FoldsOf(lists[t]))
    BY <2>2, <2>3, <2>4, <2>5, UpsertedCounts
  <2> QED BY <1>3, <2>1, <2>6
<1>6. t \in S!Lists => lists'[t] = S!Upserted(lists[t], rows)
  BY <1>1, <1>4 DEF ListsFit
<1>7. ListsFit'
  <2>1. lists' = [l \in S!Lists |-> lists'[l]]
    BY <1>1, <1>4 DEF ListsFit
  <2>2. ASSUME NEW l \in S!Lists PROVE IsFiniteSet(lists'[l]) /\ OneSpelling(lists'[l])
    <3>1. CASE l = t
      BY <1>5, <1>6, <3>1
    <3>2. CASE l # t
      <4>1. lists'[l] = lists[l]
        BY <1>1, <1>4, <3>2 DEF ListsFit
      <4> QED BY <1>4, <4>1 DEF ListsFit
    <3> QED BY <3>1, <3>2
  <2> QED BY <2>1, <2>2 DEF ListsFit, OneSpelling
<1>8. t = "vehicles" => fleet' = fleet \cup KeysOf(BusKey(rows))
  <2>1. DOMAIN BusKey(rows) = DOMAIN rows /\ \A i \in DOMAIN rows : BusKey(rows)[i] = rows[i].bus
    BY DEF BusKey
  <2>2. {v.bus : v \in R} = KeysOf(BusKey(rows))
    BY <2>1 DEF R, S!Range, KeysOf
  <2> QED BY <1>1, <2>2
<1>9. IsFiniteSet(KeysOf(BusKey(rows)))
  <2>1. DOMAIN BusKey(rows) = DOMAIN rows /\ IsFiniteSet(DOMAIN rows)
    BY <1>3 DEF BusKey, IndicesFit
  <2> QED BY <2>1, ImageIsFinite DEF KeysOf
<1>10. t = "vehicles" =>
         IsFiniteSet(fleet') /\ Cardinality(fleet') = Cardinality(fleet) + staged.new
  BY <1>3, <1>4, <1>8, <1>9, UnionCounts
<1>11. t # "vehicles" => fleet' = fleet
  BY <1>1
<1>12. t = "odometers" => Cardinality(fleet') = Cardinality(fleet) + staged.new
  <2>1. SUFFICES ASSUME t = "odometers" PROVE Cardinality(fleet') = Cardinality(fleet) + staged.new
    OBVIOUS
  <2>2. DOMAIN BusKey(rows) = DOMAIN rows /\ \A i \in DOMAIN rows : BusKey(rows)[i] = rows[i].bus
    BY DEF BusKey
  <2>3. KeysOf(BusKey(rows)) \ fleet = {}
    BY <1>3, <2>1, <2>2 DEF KeysOf, RowFits
  <2>4. staged.new = 0 /\ Cardinality(fleet) \in Nat /\ fleet' = fleet
    BY <1>3, <1>4, <1>11, <2>1, <2>3, FS_EmptySet, FS_CardinalityType
  <2> QED BY <2>4
<1>13. SheetsFit' /\ NewCounted'
  BY <1>1, <1>2 DEF CountInv, SheetsFit, NewCounted
<1>14. CountInv'
  BY <1>4, <1>7, <1>10, <1>11, <1>13 DEF CountInv
<1> QED BY <1>5, <1>6, <1>10, <1>12, <1>14 DEF t

\* What leaves the names and the fleet alone leaves the count true.
LEMMA CountKept ==
  ASSUME CountInv, lists' = lists, fleet' = fleet,
         profiles' \in [Profile -> Mappings \cup {SeedMapping, Blank}],
         \/ staged' = staged
         \/ staged'.stage \in {"none", "done"}
         \/ /\ staged.stage = "previewed" /\ staged'.profile = staged.profile
            /\ staged'.rows = staged.rows /\ staged'.new = staged.new
            /\ staged'.stage = "previewed"
  PROVE  CountInv'
<1>1. ListsFit' /\ IsFiniteSet(fleet')
  BY DEF CountInv, ListsFit, OneSpelling
<1>2. SheetsFit'
  BY DEF CountInv, SheetsFit
<1>3. NewCounted'
  <2>1. CASE staged' = staged
    BY <2>1 DEF CountInv, NewCounted, IndicesFit, RowFits, KeysOf, FoldsOf, BusKey, NameKey
  <2>2. CASE staged'.stage \in {"none", "done"}
    BY <2>2 DEF NewCounted
  <2>3. CASE /\ staged.stage = "previewed" /\ staged'.profile = staged.profile
             /\ staged'.rows = staged.rows /\ staged'.new = staged.new
             /\ staged'.stage = "previewed"
    BY <2>3 DEF CountInv, NewCounted, IndicesFit, RowFits, KeysOf, FoldsOf, BusKey, NameKey
  <2> QED BY <2>1, <2>2, <2>3
<1> QED BY <1>1, <1>2, <1>3 DEF CountInv

LEMMA JudgeKeepsCount ==
  ASSUME CountInv, S!RowsAssumption, S!Judge
  PROVE  CountInv'
<1>1. /\ lists' = lists /\ fleet' = fleet /\ profiles' = profiles
      /\ staged'.stage = "previewed"
  BY DEF S!Judge, S!masters
<1>2. ListsFit' /\ IsFiniteSet(fleet') /\ SheetsFit'
  BY <1>1 DEF CountInv, ListsFit, OneSpelling, SheetsFit
<1> QED BY <1>2, JudgeCounts DEF CountInv

LEMMA EditKeepsCount ==
  ASSUME CountInv, SheetInv, S!Edit, lists' = lists, fleet' = fleet
  PROVE  CountInv'
<1>1. profiles' = profiles
  BY DEF S!Edit
<1>2. CASE staged.stage = "previewed"
  <2>1. staged = AsStaged(staged) /\ staged' = [staged EXCEPT !.touched = TRUE]
    BY <1>2 DEF S!Edit, SheetInv, RowsStand
  <2>2. /\ staged'.profile = staged.profile /\ staged'.rows = staged.rows
        /\ staged'.new = staged.new /\ staged'.stage = "previewed"
    BY <1>2, <2>1, PreviewKeepsStage
  <2> QED BY <1>1, <1>2, <2>2, CountKept DEF CountInv, SheetsFit
<1>3. CASE staged.stage # "previewed"
  <2>1. staged' = staged
    BY <1>3 DEF S!Edit
  <2> QED BY <1>1, <2>1, CountKept DEF CountInv, SheetsFit
<1> QED BY <1>2, <1>3

LEMMA CountInit ==
  ASSUME S!RowsAssumption, S!Init PROVE CountInv
<1>1. IsFiniteSet(fleet)
  <2>1. fleet \subseteq SheetBus /\ IsFiniteSet(SheetBus)
    BY SheetsCount DEF S!Init, S!RowsAssumption
  <2> QED BY <2>1, FS_Subset
<1>2. ListsFit
  BY FS_EmptySet DEF S!Init, ListsFit, OneSpelling
<1>3. staged.stage = "none"
  BY DEF S!Init, S!NoPreview
<1>4. SheetsFit /\ NewCounted
  BY <1>3 DEF S!Init, SheetsFit, NewCounted
<1> QED BY <1>1, <1>2, <1>4 DEF CountInv

LEMMA CountNext ==
  ASSUME S!RowsAssumption, CountInv, SheetInv, [S!Next]_S!vars
  PROVE  CountInv'
<1>1. CASE \E id \in Profile, grid \in Grids : S!BeginPreview(id, grid)
  BY <1>1, BeginPreviewCounts
<1>2. CASE S!Judge
  BY <1>2, JudgeKeepsCount
<1>3. CASE S!Commit
  BY <1>3, CommitCounts
<1>4. CASE S!CommitFails
  <2>1. lists' = lists /\ fleet' = fleet /\ profiles' = profiles /\ staged'.stage = "none"
    BY <1>4 DEF S!CommitFails, S!masters, S!NoPreview
  <2> QED BY <2>1, CountKept DEF CountInv, SheetsFit
<1>5. CASE \/ \E id \in Profile : (\E m \in Mappings : S!Save(id, m)) \/ S!Delete(id)
           \/ S!Seed
  <2>1. lists' = lists /\ fleet' = fleet /\ staged' = staged
    BY <1>5 DEF S!Save, S!Delete, S!Seed, S!masters
  <2>2. profiles' \in [Profile -> Mappings \cup {SeedMapping, Blank}]
    <3>1. profiles \in [Profile -> Mappings \cup {SeedMapping, Blank}]
      BY DEF CountInv, SheetsFit
    <3>2. \E id, q : /\ q \in Mappings \cup {SeedMapping, Blank}
                     /\ profiles' = [profiles EXCEPT ![id] = q]
      BY <1>5 DEF S!Save, S!Delete, S!Seed
    <3> QED BY <3>1, <3>2
  <2> QED BY <2>1, <2>2, CountKept
<1>6. CASE \/ \E b \in SheetBus : S!Retire(b)
           \/ \E c \in WorkCode : \/ S!Hide(c)
                                  \/ \E to \in S!Register \cup {S!Inspection, S!Unrouted} :
                                       S!Reroute(c, to)
  BY <1>6, EditKeepsCount DEF S!Retire, S!Hide, S!Reroute
<1>7. CASE UNCHANGED S!vars
  <2>1. lists' = lists /\ fleet' = fleet /\ profiles' = profiles /\ staged' = staged
    BY <1>7 DEF S!vars, S!masters
  <2> QED BY <2>1, CountKept DEF CountInv, SheetsFit
<1> QED BY <1>1, <1>2, <1>3, <1>4, <1>5, <1>6, <1>7 DEF S!Next

\* For any sheets that are sequences of lines: a commit with nothing in between
\* adds to its list, or to the fleet, exactly the number the preview called new,
\* whatever the sheet repeats, respells or names that the site has.
THEOREM CountsComeTrue == S!Spec => PreviewCountsTrue
<1> S!RowsAssumption
  BY IntakeAssumption
<1>1. SheetInv /\ CountInv /\ [S!Next]_S!vars => SheetInv' /\ CountInv'
  BY SheetNext, CountNext
<1>2. SheetInv /\ CountInv /\ [S!Next]_S!vars =>
        [S!Committing /\ ~staged.touched =>
           LET target == staged.profile.target
           IN  /\ target \in S!Lists =>
                    S!Cardinality(lists'[target]) = S!Cardinality(lists[target]) + staged.new
               /\ target \in {"vehicles", "odometers"} =>
                    S!Cardinality(fleet') = S!Cardinality(fleet) + staged.new]_S!vars
  BY SheetNext, CommitCounts, SheetsCount
<1>3. S!Init => SheetInv /\ CountInv
  BY SheetInit, CountInit
<1> QED BY <1>1, <1>2, <1>3, PTL DEF S!Spec, PreviewCountsTrue, S!PreviewCountsTrue

-----------------------------------------------------------------------------
(* The components side by side.                                            *)

\* What a component keeps by itself it keeps while the others move.
THEOREM IntakeIsApart == IntakeSpec => Spec /\ S!Spec /\ M!Spec
<1>1. IntakeInit => Init /\ S!Init /\ M!Init
  BY DEF IntakeInit
<1>2. [IntakeNext]_allVars => [Next]_vars /\ [S!Next]_(S!vars) /\ [M!Next]_(M!vars)
  <2> USE DEF importVars, rowVars, migrationVars, vars,
              S!vars, S!masters, S!books, M!vars
  <2>1. CASE UNCHANGED allVars
    BY <2>1 DEF allVars
  <2>2. CASE IntakeNext
    BY <2>2, Zenon DEF IntakeNext
  <2> QED BY <2>1, <2>2
<1> QED BY <1>1, <1>2, PTL DEF IntakeSpec, Spec, S!Spec, M!Spec
=============================================================================
