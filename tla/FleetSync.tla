----------------------------- MODULE FleetSync -----------------------------
(***************************************************************************)
(* The fleet of each site, refreshed from the platform: every night for    *)
(* all linked sites in one session with one commit at the end, and by hand *)
(* for one site.  A site is read, its fleet compared with what the         *)
(* platform lists, and its changes flushed; nobody sees them before the    *)
(* commit, and what they touch is locked until then.                       *)
(*                                                                         *)
(* A bus is its registration, unique over all sites.                       *)
(***************************************************************************)
EXTENDS Integers, Sequences, FiniteSets

CONSTANTS
  Site, Bus,
  Order,       \* the linked sites, in the order the night takes them
  Runner,      \* syncs that may be in flight: the night's and a manager's
  Night,       \* the runner of the night
  FleetWide,   \* the placeholder of fleet-wide rows, which no platform lists
  Nobody,
  MaxEdits     \* bound: changes made by hand or at the platform

ASSUME FleetAssumption ==
  /\ Order \in Seq(Site) /\ \A i, k \in DOMAIN Order : i # k => Order[i] # Order[k]
  /\ Night \in Runner
  /\ FleetWide \in Bus /\ Nobody \notin Site /\ MaxEdits \in Nat

VARIABLES
  owner,     \* vehicles.site_code
  active,    \* vehicles.is_active
  roster,    \* what the platform lists for each site
  outage,    \* the platform does not answer
  result,    \* sites.last_siteops_sync_result
  run,       \* each sync in flight
  edits

vars == <<owner, active, roster, outage, result, run, edits>>

Answer == {"none", "ok", "unreachable"}
Idle == [stage |-> "idle"]

\* A sync at work: the sites left, the rows it inserted or changed and has not
\* committed, what it noted of each site, the lists it was given, and the buses
\* anybody else moved since it began.
Work == [stage : {"fetch", "flush"}, todo : Seq(Site), listed : [Site -> SUBSET Bus],
         owns : [Bus -> Site \cup {Nobody}], on : SUBSET Bus,
         added : [Bus -> Site \cup {Nobody}], set : [Bus -> {"keep", "on", "off"}],
         note : [Site -> Answer], moved : SUBSET Bus]

TypeOK ==
  /\ owner \in [Bus -> Site \cup {Nobody}]
  /\ active \subseteq {b \in Bus : owner[b] # Nobody}
  /\ roster \in [Site -> SUBSET (Bus \ {FleetWide})]
  /\ outage \in BOOLEAN
  /\ result \in [Site -> Answer]
  /\ run \in [Runner -> Work \cup {Idle}]
  /\ edits \in 0 .. MaxEdits

Init ==
  /\ owner = [b \in Bus |-> Nobody] /\ active = {}
  /\ roster \in [Site -> SUBSET (Bus \ {FleetWide})] /\ outage = FALSE
  /\ result = [s \in Site |-> "none"]
  /\ run = [r \in Runner |-> Idle]
  /\ edits = 0

-----------------------------------------------------------------------------
(* What a session sees: its own rows over what is committed.               *)
OwnerSeen(j) == [b \in Bus |-> IF j.added[b] # Nobody THEN j.added[b] ELSE owner[b]]
Over(j, on) == (on \ {b \in Bus : j.set[b] = "off"}) \cup {b \in Bus : j.set[b] = "on"}

\* Rows a session wrote and has not committed.
Locks(j) ==
  IF j = Idle THEN {} ELSE {b \in Bus : j.added[b] # Nobody \/ j.set[b] # "keep"}
LockedBy(others) == UNION {Locks(run[q]) : q \in others}

\* A session that has read nothing yet.
Fresh(sites) ==
  [stage |-> "fetch", todo |-> sites, listed |-> [s \in Site |-> {}],
   owns |-> [b \in Bus |-> Nobody], on |-> {},
   added |-> [b \in Bus |-> Nobody], set |-> [b \in Bus |-> "keep"],
   note |-> [s \in Site |-> "none"], moved |-> {}]

Begin(r, sites) ==
  /\ run[r] = Idle
  /\ run' = [run EXCEPT ![r] = Fresh(sites)]
  /\ UNCHANGED <<owner, active, roster, outage, result, edits>>

BeginNight == Begin(Night, Order)
BeginByHand(r, s) == r # Night /\ Begin(r, <<s>>)

NextSite(j) == [j EXCEPT !.stage = "fetch", !.todo = Tail(@),
                         !.owns = [b \in Bus |-> Nobody], !.on = {}]

\* list_all_vehicles and the two look-ups.
Fetch(r) ==
  /\ run[r] # Idle /\ run[r].stage = "fetch" /\ run[r].todo # <<>>
  /\ ~outage
  /\ LET j == run[r]
         s == Head(j.todo)
     IN  run' = [run EXCEPT ![r] = [j EXCEPT !.stage = "flush", !.listed[s] = roster[s],
                                     !.owns = OwnerSeen(j), !.on = Over(j, active)]]
  /\ UNCHANGED <<owner, active, roster, outage, result, edits>>

\* SiteOpsUnavailable: the night notes it and goes on, a manager is refused.
FetchFails(r) ==
  /\ run[r] # Idle /\ run[r].stage = "fetch" /\ run[r].todo # <<>>
  /\ outage
  /\ LET j == run[r]
     IN  run' = [run EXCEPT ![r] =
           IF r = Night THEN [NextSite(j) EXCEPT !.note[Head(j.todo)] = "unreachable"]
           ELSE Idle]
  /\ UNCHANGED <<owner, active, roster, outage, result, edits>>

Mine(j, s) == {b \in Bus : j.owns[b] = s}
Created(j, s) == {b \in j.listed[s] : j.owns[b] = Nobody}

\* Broken: a bus that returns to the list stays retired.
ReactivatedNone(j, s) == {}
Reactivated(j, s) == (Mine(j, s) \cap j.listed[s]) \ j.on

Deactivated(j, s) == ((Mine(j, s) \cap j.on) \ j.listed[s]) \ {FleetWide}

Touches(j, s) == Created(j, s) \cup Reactivated(j, s) \cup Deactivated(j, s)

Flush(r) ==
  /\ run[r] # Idle /\ run[r].stage = "flush"
  /\ LET j == run[r]
         s == Head(j.todo)
     IN  /\ Touches(j, s) \cap LockedBy(Runner \ {r}) = {}
         /\ \A b \in Created(j, s) : OwnerSeen(j)[b] = Nobody
         /\ run' = [run EXCEPT ![r] =
              [NextSite(j) EXCEPT
                 !.added = [b \in Bus |-> IF b \in Created(j, s) THEN s ELSE @[b]],
                 !.set = [b \in Bus |->
                            IF b \in Created(j, s) \cup Reactivated(j, s) THEN "on"
                            ELSE IF b \in Deactivated(j, s) THEN "off" ELSE @[b]],
                 !.note[s] = IF @ = "none" THEN "ok" ELSE @]]
  /\ UNCHANGED <<owner, active, roster, outage, result, edits>>

\* A registration somebody else committed since, or a lock that closes a
\* circle: the flush fails, the session is of no more use, and all it wrote is
\* rolled back, whichever site it was for.
FlushFails(r) ==
  /\ run[r] # Idle /\ run[r].stage = "flush"
  /\ LET j == run[r]
         s == Head(j.todo)
     IN  \/ \E b \in Created(j, s) : OwnerSeen(j)[b] # Nobody
         \/ Touches(j, s) \cap LockedBy(Runner \ {r}) # {}
  /\ run' = [run EXCEPT ![r] = Idle]
  /\ UNCHANGED <<owner, active, roster, outage, result, edits>>

\* The others' view of what r is about to commit.
MovedBy(r, B) ==
  [q \in Runner |-> IF q = r THEN Idle
                    ELSE IF run[q] = Idle THEN Idle
                    ELSE [run[q] EXCEPT !.moved = @ \cup B]]

Commit(r) ==
  /\ run[r] # Idle /\ run[r].stage = "fetch" /\ run[r].todo = <<>>
  /\ LET j == run[r]
     IN  /\ owner' = OwnerSeen(j)
         /\ active' = Over(j, active)
         /\ result' = [s \in Site |-> IF j.note[s] = "none" THEN result[s] ELSE j.note[s]]
         /\ run' = MovedBy(r, Locks(j))
  /\ UNCHANGED <<roster, outage, edits>>

-----------------------------------------------------------------------------
(* Vehicle Master, and the platform's own life.                            *)
Edit == edits < MaxEdits /\ edits' = edits + 1
Free(b) == b \notin LockedBy(Runner)
Touched(B) == run' = [q \in Runner |-> IF run[q] = Idle THEN Idle
                                       ELSE [run[q] EXCEPT !.moved = @ \cup B]]

\* create_vehicle, and the placeholder a snag report brings.
CreateVehicle(b, s) ==
  /\ Edit /\ owner[b] = Nobody /\ Free(b)
  /\ owner' = [owner EXCEPT ![b] = s]
  /\ active' = active \cup {b}
  /\ Touched({b})
  /\ UNCHANGED <<roster, outage, result>>

\* _set_vehicle_active.
SetActive(b) ==
  /\ Edit /\ owner[b] # Nobody /\ Free(b)
  /\ active' = IF b \in active THEN active \ {b} ELSE active \cup {b}
  /\ Touched({b})
  /\ UNCHANGED <<owner, roster, outage, result>>

\* The platform lists a bus at a site, or no longer.
Relist(s, b) ==
  /\ Edit /\ b # FleetWide
  /\ roster' = [roster EXCEPT ![s] = IF b \in @ THEN @ \ {b} ELSE @ \cup {b}]
  /\ UNCHANGED <<owner, active, outage, result, run>>

GoDown == Edit /\ ~outage /\ outage' = TRUE /\ UNCHANGED <<owner, active, roster, result, run>>
ComeBack ==
  /\ outage /\ outage' = FALSE
  /\ UNCHANGED <<owner, active, roster, result, run, edits>>

Step(r) == Fetch(r) \/ FetchFails(r) \/ Flush(r) \/ FlushFails(r) \/ Commit(r)

Next ==
  \/ BeginNight
  \/ \E r \in Runner, s \in Site : BeginByHand(r, s)
  \/ \E r \in Runner : Step(r)
  \/ \E b \in Bus, s \in Site : CreateVehicle(b, s) \/ Relist(s, b)
  \/ \E b \in Bus : SetActive(b)
  \/ GoDown \/ ComeBack

Spec == Init /\ [][Next]_vars
\* The night comes again, a sync under way goes on, an outage ends.
FairSpec ==
  Spec /\ WF_vars(BeginNight) /\ WF_vars(ComeBack) /\ \A r \in Runner : WF_vars(Step(r))

-----------------------------------------------------------------------------
\* r is about to commit, or just did.
Commits(r) == run[r] # Idle /\ run[r].todo = <<>> /\ run'[r] = Idle
\* Buses nobody else moved while r was at work.
Still(r) == Bus \ ({FleetWide} \cup run[r].moved)
Mirrors(s, list, own, on, buses) ==
  \A b \in buses : /\ own[b] = s => (b \in on <=> b \in list)
                   /\ b \in list => own[b] # Nobody

\* "SiteOps is the source of truth for who is on the site": when a sync
\* commits, the fleet of each site it read is the list it was given, save for
\* buses other sites have and what was moved by hand meanwhile; every bus
\* listed has a row.
SyncMirrors ==
  [][\A r \in Runner : Commits(r) =>
       \A s \in Site : run[r].note[s] = "ok" =>
         Mirrors(s, run[r].listed[s], owner', active', Still(r))]_vars

\* A platform that cannot be reached retires nobody: the site it failed for
\* keeps its fleet, though the night commits the others.
OutageRetiresNobody ==
  [][\A r \in Runner : Commits(r) =>
       \A b \in Still(r) : owner[b] # Nobody /\ run[r].note[owner[b]] = "unreachable" =>
         (b \in active' <=> b \in active)]_vars

\* "Never moved automatically": a sync leaves every bus with the site that has
\* it, and retires only buses of the sites it read.
OthersUntouched ==
  [][\A r \in Runner : Commits(r) =>
       \A b \in Still(r) : owner[b] # Nobody =>
         /\ owner'[b] = owner[b]
         /\ b \in active \ active' => run[r].note[owner[b]] = "ok"]_vars

\* Once nobody edits any more and the platform answers, every site's fleet
\* comes to be its list, whatever overlapped or failed before.
Converges ==
  <>[](\A s \in Site : Mirrors(s, roster[s], owner, active, Bus \ {FleetWide}))

-----------------------------------------------------------------------------
(* Statements of the code's comments that do not hold.                     *)

\* "Per-site failures are recorded on the site row and do not abort the run":
\* a night that has read one site commits it.
OneSiteStopsNobody ==
  [][run[Night] # Idle /\ (\E s \in Site : run[Night].note[s] = "ok") =>
       run'[Night] # Idle \/ run[Night].todo = <<>>]_vars

\* A bus the platform lists at a site comes to be in service there: not one
\* that had been another site's.
ListedIsInService ==
  <>[](\A s \in Site : \A b \in roster[s] : b \in active)
=============================================================================
