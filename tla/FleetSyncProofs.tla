--------------------------- MODULE FleetSyncProofs ---------------------------
(***************************************************************************)
(* Theorems about FleetSync, for any number of sites, buses and syncs at   *)
(* once.  The inductive invariant says, of every sync under way, what its  *)
(* session sees of the sites it has read, whatever the others have         *)
(* committed since: the rows of no two sessions meet, a bus keeps its      *)
(* site, and only what was moved can differ.                               *)
(***************************************************************************)
EXTENDS FleetSync, TLAPS

\* What a session with the rows of j sees over a committed fleet.
Seen(j, own) == [b \in Bus |-> IF j.added[b] # Nobody THEN j.added[b] ELSE own[b]]
SeenOn(j, on, b) == j.set[b] = "on" \/ (j.set[b] = "keep" /\ b \in on)
Written(j) == {b \in Bus : j.added[b] # Nobody \/ j.set[b] # "keep"}

\* The sites left are read once each, and nothing was noted of them.
TodoSound(j) ==
  /\ j.stage = "flush" => j.todo # <<>>
  /\ \A i, k \in DOMAIN j.todo : i # k => j.todo[i] # j.todo[k]
  /\ \A i \in DOMAIN j.todo : j.note[j.todo[i]] = "none"

\* Rows are inserted where there is none, and set for sites that were read.
RowsSound(j, own) ==
  /\ \A b \in Bus : j.added[b] # Nobody => own[b] = Nobody
  /\ \A b \in Bus : j.set[b] # "keep" =>
       Seen(j, own)[b] # Nobody /\ j.note[Seen(j, own)[b]] = "ok"

\* Between reading a fleet and writing to it, only what was moved differs.
ReadSound(j, own, on) ==
  j.stage = "flush" =>
    \A b \in Bus :
      /\ j.owns[b] # Nobody => Seen(j, own)[b] = j.owns[b]
      /\ b \notin j.moved => /\ Seen(j, own)[b] = j.owns[b]
                             /\ b \in j.on <=> SeenOn(j, on, b)

\* A site noted as read is, as the session sees it, what the platform listed.
MirrorSound(j, own, on) ==
  \A s \in Site : j.note[s] = "ok" =>
    \A b \in Bus \ ({FleetWide} \cup j.moved) :
      /\ Seen(j, own)[b] = s => (SeenOn(j, on, b) <=> b \in j.listed[s])
      /\ b \in j.listed[s] => Seen(j, own)[b] # Nobody

Sound(j, own, on) ==
  TodoSound(j) /\ RowsSound(j, own) /\ ReadSound(j, own, on) /\ MirrorSound(j, own, on)

Inv ==
  /\ TypeOK
  /\ \A r \in Runner : run[r] # Idle => Sound(run[r], owner, active)
  /\ \A q, r \in Runner : q # r => Locks(run[q]) \cap Locks(run[r]) = {}

\* A fleet that changed in B only, and in which no bus left its site.
Moves(own, on, own2, on2, B) ==
  /\ \A b \in Bus \ B : own2[b] = own[b] /\ (b \in on2 <=> b \in on)
  /\ \A b \in Bus : own[b] # Nobody => own2[b] = own[b]

\* A session that learns that B moved.
Learns(j, new, B) == new = [j EXCEPT !.moved = @ \cup B]

-----------------------------------------------------------------------------
LEMMA WorkTypes ==
  ASSUME NEW j \in Work
  PROVE  /\ j # Idle /\ j.stage \in {"fetch", "flush"} /\ j.todo \in Seq(Site)
         /\ j.listed \in [Site -> SUBSET Bus] /\ j.owns \in [Bus -> Site \cup {Nobody}]
         /\ j.on \in SUBSET Bus /\ j.added \in [Bus -> Site \cup {Nobody}]
         /\ j.set \in [Bus -> {"keep", "on", "off"}] /\ j.note \in [Site -> Answer]
         /\ j.moved \in SUBSET Bus
BY DEF Work, Idle

LEMMA SessionView ==
  ASSUME NEW j \in Work, NEW on \in SUBSET Bus
  PROVE  /\ OwnerSeen(j) = Seen(j, owner) /\ Locks(j) = Written(j)
         /\ \A b \in Bus : b \in Over(j, on) <=> SeenOn(j, on, b)
         /\ Over(j, on) \in SUBSET Bus
BY WorkTypes DEF OwnerSeen, Seen, Locks, Written, Over, SeenOn

LEMMA IdleLocks == Locks(Idle) = {}
BY DEF Locks

\* What others commit or change by hand leaves a session sound, once it counts
\* as moved.
LEMMA OthersMove ==
  ASSUME NEW j \in Work, NEW own \in [Bus -> Site \cup {Nobody}], NEW on \in SUBSET Bus,
         NEW own2 \in [Bus -> Site \cup {Nobody}], NEW on2 \in SUBSET Bus, NEW B \in SUBSET Bus,
         Sound(j, own, on), Written(j) \cap B = {},
         Moves(own, on, own2, on2, B), NEW new, Learns(j, new, B)
  PROVE  new \in Work /\ Sound(new, own2, on2) /\ Written(new) = Written(j)
<1>1. /\ new \in Work /\ new.moved = j.moved \cup B /\ new.stage = j.stage /\ new.todo = j.todo
      /\ new.listed = j.listed /\ new.owns = j.owns /\ new.on = j.on /\ new.added = j.added
      /\ new.set = j.set /\ new.note = j.note
  BY DEF Work, Learns
<1>2. Written(new) = Written(j)
  BY <1>1 DEF Written
<1>3. TodoSound(new)
  BY <1>1 DEF Sound, TodoSound
<1>4. /\ \A b \in Bus \ B : Seen(new, own2)[b] = Seen(j, own)[b] /\ (SeenOn(new, on2, b) <=> SeenOn(j, on, b))
      /\ \A b \in Bus : Seen(j, own)[b] # Nobody => Seen(new, own2)[b] = Seen(j, own)[b]
  BY <1>1, WorkTypes DEF Seen, SeenOn, Moves
<1>5. RowsSound(new, own2)
  <2>1. \A b \in Bus : new.added[b] # Nobody => own2[b] = Nobody
    BY <1>1 DEF Sound, RowsSound, Written, Moves
  <2>2. \A b \in Bus : new.set[b] # "keep" =>
          Seen(new, own2)[b] # Nobody /\ new.note[Seen(new, own2)[b]] = "ok"
    BY <1>1, <1>4 DEF Sound, RowsSound
  <2>3. QED
    BY <2>1, <2>2 DEF RowsSound
<1>6. ReadSound(new, own2, on2)
  BY <1>1, <1>4 DEF Sound, ReadSound
<1>7. MirrorSound(new, own2, on2)
  BY <1>1, <1>4 DEF Sound, MirrorSound
<1>8. QED
  BY <1>1, <1>2, <1>3, <1>5, <1>6, <1>7 DEF Sound

-----------------------------------------------------------------------------
(* What a sync does to itself.                                             *)
LEMMA SiteList ==
  ASSUME NEW todo \in Seq(Site), todo # <<>>
  PROVE  /\ Head(todo) \in Site /\ Tail(todo) \in Seq(Site)
         /\ 1 \in DOMAIN todo /\ Head(todo) = todo[1]
         /\ \A i \in DOMAIN Tail(todo) : i + 1 \in DOMAIN todo /\ Tail(todo)[i] = todo[i + 1]
         /\ DOMAIN Tail(todo) \subseteq Nat
OBVIOUS

\* The next site: what is left stays distinct and unread.
LEMMA TodoTail ==
  ASSUME NEW j \in Work, TodoSound(j), j.todo # <<>>
  PROVE  /\ Tail(j.todo) \in Seq(Site)
         /\ \A i, k \in DOMAIN Tail(j.todo) : i # k => Tail(j.todo)[i] # Tail(j.todo)[k]
         /\ \A i \in DOMAIN Tail(j.todo) :
              Tail(j.todo)[i] # Head(j.todo) /\ j.note[Tail(j.todo)[i]] = "none"
<1>1. j.todo \in Seq(Site)
  BY WorkTypes
<1>2. \A i \in DOMAIN Tail(j.todo) : i \in Nat \ {0}
  BY <1>1
<1>3. \A i, k \in DOMAIN Tail(j.todo) : i # k => i + 1 # k + 1
  BY <1>2
<1>4. \A i \in DOMAIN Tail(j.todo) : i + 1 # 1
  BY <1>2
<1>5. QED
  BY <1>1, <1>3, <1>4, SiteList DEF TodoSound

LEMMA NextTodo ==
  ASSUME NEW j \in Work, TodoSound(j), j.todo # <<>>, NEW answer \in Answer,
         NEW new, new.stage = "fetch", new.todo = Tail(j.todo),
         new.note = [j.note EXCEPT ![Head(j.todo)] = answer]
  PROVE  TodoSound(new)
<1>1. PICK todo \in Seq(Site) : todo = Tail(j.todo)
  BY WorkTypes, SiteList
<1>2. j.note \in [Site -> Answer] /\ \A i \in DOMAIN todo : todo[i] \in Site
  BY WorkTypes
<1>3. /\ \A i, k \in DOMAIN todo : i # k => todo[i] # todo[k]
      /\ \A i \in DOMAIN todo : todo[i] # Head(j.todo) /\ j.note[todo[i]] = "none"
  BY <1>1, TodoTail
<1>4. \A i \in DOMAIN todo : new.note[todo[i]] = "none"
  BY <1>2, <1>3
<1>5. QED
  BY <1>1, <1>3, <1>4 DEF TodoSound

LEMMA BeginSound ==
  ASSUME NEW sites \in Seq(Site), \A i, k \in DOMAIN sites : i # k => sites[i] # sites[k],
         NEW own \in [Bus -> Site \cup {Nobody}], NEW on \in SUBSET Bus
  PROVE  Fresh(sites) \in Work /\ Sound(Fresh(sites), own, on) /\ Written(Fresh(sites)) = {}
<1> DEFINE new == Fresh(sites)
<1>1. new \in Work
  BY DEF Work, Answer, Fresh
<1>2. TodoSound(new)
  <2>1. \A i \in DOMAIN sites : sites[i] \in Site
    OBVIOUS
  <2>2. QED
    BY <2>1 DEF TodoSound, Fresh
<1>3. RowsSound(new, own) /\ ReadSound(new, own, on) /\ MirrorSound(new, own, on)
  BY DEF RowsSound, ReadSound, MirrorSound, Fresh
<1>4. Written(new) = {}
  BY DEF Written, Fresh
<1>5. QED
  BY <1>1, <1>2, <1>3, <1>4 DEF Sound

LEMMA FetchSound ==
  ASSUME NEW j \in Work, NEW on \in SUBSET Bus, NEW list \in SUBSET Bus,
         owner \in [Bus -> Site \cup {Nobody}],
         Sound(j, owner, on), j.todo # <<>>, j.stage = "fetch",
         NEW new, new = [j EXCEPT !.stage = "flush", !.listed[Head(j.todo)] = list,
                                  !.owns = OwnerSeen(j), !.on = Over(j, on)]
  PROVE  new \in Work /\ Sound(new, owner, on) /\ Written(new) = Written(j)
<1> DEFINE s == Head(j.todo)
<1>1. s \in Site /\ j.note[s] = "none"
  BY WorkTypes, SiteList DEF Sound, TodoSound
<1>2. OwnerSeen(j) \in [Bus -> Site \cup {Nobody}] /\ Over(j, on) \in SUBSET Bus
  BY WorkTypes DEF OwnerSeen, Over
<1>3. /\ new \in Work /\ new.stage = "flush" /\ new.todo = j.todo
      /\ new.listed = [j.listed EXCEPT ![s] = list]
      /\ new.owns = OwnerSeen(j) /\ new.on = Over(j, on)
      /\ new.added = j.added /\ new.set = j.set /\ new.note = j.note /\ new.moved = j.moved
  <2>1. [j.listed EXCEPT ![s] = list] \in [Site -> SUBSET Bus]
    BY <1>1, WorkTypes
  <2>2. QED
    BY <1>2, <2>1 DEF Work
<1> HIDE DEF s
<1>4. TodoSound(new)
  BY <1>3 DEF Sound, TodoSound
<1>5. RowsSound(new, owner) /\ Written(new) = Written(j)
  BY <1>3 DEF Sound, RowsSound, Seen, Written
<1>6. ReadSound(new, owner, on)
  <2>1. Seen(new, owner) = OwnerSeen(j)
    BY <1>3 DEF Seen, OwnerSeen
  <2>2. \A b \in Bus : b \in Over(j, on) <=> SeenOn(new, on, b)
    <3>1. \A b \in Bus : b \in Over(j, on) <=> SeenOn(j, on, b)
      BY SessionView
    <3>2. QED
      BY <1>3, <3>1 DEF SeenOn
  <2>3. QED
    BY <1>3, <2>1, <2>2 DEF ReadSound
<1>7. MirrorSound(new, owner, on)
  <2>1. \A t \in Site : j.note[t] = "ok" => new.listed[t] = j.listed[t]
    BY <1>1, <1>3, WorkTypes
  <2>2. QED
    BY <1>3, <2>1 DEF Sound, MirrorSound, Seen, SeenOn
<1>8. QED
  BY <1>3, <1>4, <1>5, <1>6, <1>7 DEF Sound

\* A site that could not be read leaves the session as it was.
LEMMA FetchFailsSound ==
  ASSUME NEW j \in Work, NEW own \in [Bus -> Site \cup {Nobody}], NEW on \in SUBSET Bus,
         Sound(j, own, on), j.todo # <<>>, j.stage = "fetch",
         NEW new, new = [NextSite(j) EXCEPT !.note[Head(j.todo)] = "unreachable"]
  PROVE  new \in Work /\ Sound(new, own, on) /\ Written(new) = Written(j)
<1> DEFINE s == Head(j.todo)
<1>1. s \in Site /\ j.note[s] = "none"
  BY WorkTypes, SiteList DEF Sound, TodoSound
<1>2. /\ new \in Work /\ new.stage = "fetch" /\ new.todo = Tail(j.todo)
      /\ new.listed = j.listed /\ new.added = j.added /\ new.set = j.set
      /\ new.note = [j.note EXCEPT ![s] = "unreachable"] /\ new.moved = j.moved
  <2>1. [j.note EXCEPT ![s] = "unreachable"] \in [Site -> Answer]
    BY <1>1, WorkTypes DEF Answer
  <2>2. Tail(j.todo) \in Seq(Site)
    BY WorkTypes, SiteList
  <2>3. [b \in Bus |-> Nobody] \in [Bus -> Site \cup {Nobody}]
    OBVIOUS
  <2>4. QED
    BY <2>1, <2>2, <2>3 DEF Work, NextSite
<1> HIDE DEF s
<1>3. \A t \in Site : j.note[t] = "ok" <=> new.note[t] = "ok"
  BY <1>1, <1>2, WorkTypes
<1>4. TodoSound(new)
  BY <1>2, NextTodo DEF Sound, Answer, s
<1>5. RowsSound(new, own) /\ Written(new) = Written(j)
  <2>1. \A b \in Bus : Seen(new, own)[b] = Seen(j, own)[b] /\ Seen(j, own)[b] \in Site \cup {Nobody}
    BY <1>2, WorkTypes DEF Seen
  <2>2. QED
    BY <1>2, <1>3, <2>1 DEF Sound, RowsSound, Written
<1>6. ReadSound(new, own, on)
  BY <1>2 DEF ReadSound
<1>7. MirrorSound(new, own, on)
  BY <1>2, <1>3 DEF Sound, MirrorSound, Seen, SeenOn
<1>8. QED
  BY <1>2, <1>4, <1>5, <1>6, <1>7 DEF Sound

LEMMA FlushSound ==
  ASSUME NEW j \in Work, NEW own \in [Bus -> Site \cup {Nobody}], NEW on \in SUBSET Bus,
         Sound(j, own, on), j.stage = "flush",
         NEW s, s = Head(j.todo),
         \A b \in Created(j, s) : Seen(j, own)[b] = Nobody,
         NEW new,
         new = [NextSite(j) EXCEPT
                  !.added = [b \in Bus |-> IF b \in Created(j, s) THEN s ELSE @[b]],
                  !.set = [b \in Bus |->
                             IF b \in Created(j, s) \cup Reactivated(j, s) THEN "on"
                             ELSE IF b \in Deactivated(j, s) THEN "off" ELSE @[b]],
                  !.note[s] = IF @ = "none" THEN "ok" ELSE @]
  PROVE  /\ new \in Work /\ Sound(new, own, on)
         /\ Written(new) \subseteq Written(j) \cup Touches(j, s)
<1>1. s \in Site /\ j.note[s] = "none" /\ j.todo # <<>> /\ TodoSound(j)
  BY WorkTypes, SiteList DEF Sound, TodoSound
<1> DEFINE added == [b \in Bus |-> IF b \in Created(j, s) THEN s ELSE j.added[b]]
           set == [b \in Bus |-> IF b \in Created(j, s) \cup Reactivated(j, s) THEN "on"
                                 ELSE IF b \in Deactivated(j, s) THEN "off" ELSE j.set[b]]
<1>2. /\ added \in [Bus -> Site \cup {Nobody}]
      /\ set \in [Bus -> {"keep", "on", "off"}]
  BY <1>1, WorkTypes
<1>3. /\ new \in Work /\ new.stage = "fetch" /\ new.todo = Tail(j.todo)
      /\ new.listed = j.listed /\ new.added = added /\ new.set = set
      /\ new.note = [j.note EXCEPT ![s] = "ok"] /\ new.moved = j.moved
  <2>1. [j.note EXCEPT ![s] = "ok"] \in [Site -> Answer]
    BY <1>1, WorkTypes DEF Answer
  <2>2. Tail(j.todo) \in Seq(Site)
    BY <1>1, WorkTypes, SiteList
  <2>3. [b \in Bus |-> Nobody] \in [Bus -> Site \cup {Nobody}]
    OBVIOUS
  <2>4. /\ NextSite(j).added = j.added /\ NextSite(j).set = j.set /\ NextSite(j).note = j.note
        /\ NextSite(j) \in Work /\ NextSite(j).stage = "fetch" /\ NextSite(j).todo = Tail(j.todo)
        /\ NextSite(j).listed = j.listed /\ NextSite(j).moved = j.moved
    BY <2>2, <2>3 DEF Work, NextSite
  <2>5. new = [NextSite(j) EXCEPT !.added = added, !.set = set, !.note = [j.note EXCEPT ![s] = "ok"]]
    BY <1>1, <2>4
  <2> HIDE DEF added, set
  <2>6. QED
    BY <1>2, <2>1, <2>4, <2>5 DEF Work
<1>4. TodoSound(new)
  BY <1>1, <1>3, NextTodo DEF Answer
<1>5. Written(new) \subseteq Written(j) \cup Touches(j, s)
  BY <1>3, WorkTypes DEF Written, Touches
<1>6. ReadSound(new, own, on)
  BY <1>3 DEF ReadSound
<1>7. \A b \in Bus :
        /\ Seen(new, own)[b] = IF b \in Created(j, s) THEN s ELSE Seen(j, own)[b]
        /\ Seen(j, own)[b] \in Site \cup {Nobody}
        /\ j.owns[b] # Nobody => Seen(j, own)[b] = j.owns[b]
  BY <1>1, <1>3, WorkTypes, FleetAssumption DEF Seen, Sound, ReadSound
<1>8. \A t \in Site : new.note[t] = "ok" <=> t = s \/ j.note[t] = "ok"
  BY <1>1, <1>3, WorkTypes
<1>9. /\ Created(j, s) = {b \in j.listed[s] : j.owns[b] = Nobody}
      /\ \A b \in Reactivated(j, s) \cup Deactivated(j, s) : b \in Bus /\ j.owns[b] = s
      /\ Created(j, s) \in SUBSET Bus
  BY <1>1, WorkTypes DEF Created, Reactivated, Deactivated, Mine
<1>10. RowsSound(new, own)
  <2>1. \A b \in Bus : added[b] # Nobody => own[b] = Nobody
    <3>1. ASSUME NEW b \in Created(j, s) PROVE own[b] = Nobody
      <4>1. b \in Bus /\ Seen(j, own)[b] = Nobody
        BY <1>9
      <4>2. QED
        BY <4>1, WorkTypes DEF Seen
    <3>2. QED
      BY <3>1 DEF Sound, RowsSound
  <2>2. \A b \in Bus : set[b] # "keep" => Seen(new, own)[b] # Nobody /\ new.note[Seen(new, own)[b]] = "ok"
    <3>1. ASSUME NEW b \in Bus, set[b] # "keep"
          PROVE  Seen(new, own)[b] # Nobody /\ new.note[Seen(new, own)[b]] = "ok"
      <4>1. CASE b \in Created(j, s)
        BY <1>1, <1>7, <1>8, <4>1, FleetAssumption
      <4>2. CASE b \notin Created(j, s) /\ b \in Reactivated(j, s) \cup Deactivated(j, s)
        <5>1. j.owns[b] = s /\ s # Nobody
          BY <1>1, <1>9, <4>2, FleetAssumption
        <5>2. Seen(new, own)[b] = s
          BY <1>7, <4>2, <5>1
        <5>3. QED
          BY <1>1, <1>8, <5>1, <5>2
      <4>3. CASE b \notin Created(j, s) /\ b \notin Reactivated(j, s) \cup Deactivated(j, s)
        <5>1. j.set[b] # "keep"
          BY <3>1, <4>3
        <5>2. Seen(j, own)[b] \in Site /\ j.note[Seen(j, own)[b]] = "ok"
          BY <1>7, <5>1 DEF Sound, RowsSound
        <5>3. QED
          BY <1>7, <1>8, <4>3, <5>2, FleetAssumption
      <4>4. QED
        BY <4>1, <4>2, <4>3
    <3>2. QED
      BY <3>1
  <2>3. QED
    BY <1>3, <2>1, <2>2 DEF RowsSound
<1>11. MirrorSound(new, own, on)
  <2>1. ASSUME NEW t \in Site, new.note[t] = "ok", NEW b \in Bus \ ({FleetWide} \cup j.moved)
        PROVE  /\ Seen(new, own)[b] = t => (SeenOn(new, on, b) <=> b \in j.listed[t])
               /\ b \in j.listed[t] => Seen(new, own)[b] # Nobody
    <3>1. /\ b \in Bus /\ Seen(j, own)[b] = j.owns[b]
          /\ b \in j.on <=> SeenOn(j, on, b)
      BY <2>1 DEF Sound, ReadSound
    <3>2. SeenOn(new, on, b) <=>
            IF b \in Created(j, s) \cup Reactivated(j, s) THEN TRUE
            ELSE IF b \in Deactivated(j, s) THEN FALSE ELSE SeenOn(j, on, b)
      BY <1>3 DEF SeenOn
    <3>3. CASE t = s
      <4>1. /\ b \in Created(j, s) <=> b \in j.listed[s] /\ j.owns[b] = Nobody
            /\ b \in Reactivated(j, s) <=> j.owns[b] = s /\ b \in j.listed[s] /\ b \notin j.on
            /\ b \in Deactivated(j, s) <=> j.owns[b] = s /\ b \in j.on /\ b \notin j.listed[s]
        BY <2>1 DEF Created, Reactivated, Deactivated, Mine
      <4>2. s # Nobody /\ Seen(new, own)[b] = IF b \in Created(j, s) THEN s ELSE j.owns[b]
        BY <1>1, <1>7, <3>1, FleetAssumption
      <4>3. SeenOn(new, on, b) <=>
              b \in Created(j, s) \/ b \in Reactivated(j, s) \/ (b \notin Deactivated(j, s) /\ b \in j.on)
        BY <3>1, <3>2, <4>1, <4>2
      <4>4. QED
        BY <3>3, <4>1, <4>2, <4>3
    <3>4. CASE t # s
      <4>1. j.note[t] = "ok"
        BY <1>8, <2>1, <3>4
      <4>2. /\ Seen(j, own)[b] = t => (SeenOn(j, on, b) <=> b \in j.listed[t])
            /\ b \in j.listed[t] => Seen(j, own)[b] # Nobody
        BY <2>1, <4>1 DEF Sound, MirrorSound
      <4>3. /\ Seen(new, own)[b] = IF b \in Created(j, s) THEN s ELSE j.owns[b]
            /\ s # Nobody /\ b \in Created(j, s) => j.owns[b] = Nobody
            /\ b \in Reactivated(j, s) \cup Deactivated(j, s) => j.owns[b] = s
        BY <1>1, <1>7, <1>9, <3>1, FleetAssumption
      <4>4. Seen(new, own)[b] = t => (SeenOn(new, on, b) <=> SeenOn(j, on, b))
        BY <3>2, <3>4, <4>3
      <4>5. QED
        BY <3>1, <3>4, <4>2, <4>3, <4>4
    <3>5. QED
      BY <3>3, <3>4
  <2>2. QED
    BY <1>3, <2>1 DEF MirrorSound
<1>12. QED
  BY <1>3, <1>4, <1>5, <1>6, <1>10, <1>11 DEF Sound

-----------------------------------------------------------------------------
(* Steps of the system.                                                    *)
OthersTyped ==
  /\ roster \in [Site -> SUBSET (Bus \ {FleetWide})] /\ outage \in BOOLEAN
  /\ result \in [Site -> Answer] /\ edits \in 0 .. MaxEdits

LEMMA LocksOf ==
  ASSUME Inv, NEW r \in Runner
  PROVE  /\ run[r] \in Work \cup {Idle}
         /\ Locks(run[r]) = IF run[r] = Idle THEN {} ELSE Written(run[r])
         /\ run[r] # Idle => run[r] \in Work
BY IdleLocks, SessionView DEF Inv, TypeOK

\* A step of one session that commits nothing.
LEMMA OneRun ==
  ASSUME Inv, NEW r \in Runner, NEW new \in Work \cup {Idle},
         new # Idle => Sound(new, owner, active),
         \A q \in Runner \ {r} : Locks(run[q]) \cap (IF new = Idle THEN {} ELSE Written(new)) = {},
         run' = [run EXCEPT ![r] = new], owner' = owner, active' = active, OthersTyped'
  PROVE  Inv'
<1>1. /\ \A q \in Runner : run'[q] = IF q = r THEN new ELSE run[q]
      /\ run' \in [Runner -> Work \cup {Idle}]
  BY DEF Inv, TypeOK
<1>2. TypeOK'
  BY <1>1 DEF Inv, TypeOK, OthersTyped
<1>3. \A q \in Runner : run'[q] # Idle => Sound(run'[q], owner', active')
  BY <1>1 DEF Inv
<1>4. Locks(new) = IF new = Idle THEN {} ELSE Written(new)
  BY IdleLocks, SessionView
<1>5. \A p, q \in Runner : p # q => Locks(run'[p]) \cap Locks(run'[q]) = {}
  BY <1>1, <1>4 DEF Inv
<1>6. (\A q \in Runner : run[q] # Idle => Sound(run[q], owner, active))'
  BY <1>3
<1>7. (\A p, q \in Runner : p # q => Locks(run[p]) \cap Locks(run[q]) = {})'
  BY <1>5 DEF Locks
<1>8. QED
  BY <1>2, <1>6, <1>7 DEF Inv

\* A change of the fleet: sessions of out are over, and what changed was locked
\* by none of the others.
LEMMA FleetChange ==
  ASSUME Inv, NEW B \in SUBSET Bus, NEW out \in SUBSET Runner,
         owner' \in [Bus -> Site \cup {Nobody}], active' \subseteq {b \in Bus : owner'[b] # Nobody},
         Moves(owner, active, owner', active', B),
         \A q \in Runner \ out : Locks(run[q]) \cap B = {},
         run' = [q \in Runner |-> IF q \in out \/ run[q] = Idle THEN Idle
                                  ELSE [run[q] EXCEPT !.moved = @ \cup B]],
         OthersTyped'
  PROVE  Inv'
<1>0. /\ owner \in [Bus -> Site \cup {Nobody}] /\ active \in SUBSET Bus /\ active' \in SUBSET Bus
  BY DEF Inv, TypeOK
<1>1. ASSUME NEW q \in Runner \ out, run[q] # Idle
      PROVE  /\ run'[q] \in Work /\ Sound(run'[q], owner', active')
             /\ Written(run'[q]) = Written(run[q])
  <2>1. run[q] \in Work /\ Sound(run[q], owner, active) /\ Written(run[q]) \cap B = {}
    BY <1>1, LocksOf DEF Inv
  <2>2. Learns(run[q], run'[q], B)
    BY <1>1 DEF Learns
  <2>3. PICK j \in Work : j = run[q]
    BY <2>1
  <2>4. PICK new : new = run'[q]
    OBVIOUS
  <2>5. /\ owner' \in [Bus -> Site \cup {Nobody}] /\ Moves(owner, active, owner', active', B)
        /\ Sound(j, owner, active) /\ Written(j) \cap B = {} /\ Learns(j, new, B)
        /\ B \in SUBSET Bus /\ j \in Work
        /\ owner \in [Bus -> Site \cup {Nobody}] /\ active \in SUBSET Bus /\ active' \in SUBSET Bus
    BY <1>0, <2>1, <2>2, <2>3, <2>4
  <2>6. new \in Work /\ Sound(new, owner', active') /\ Written(new) = Written(j)
    BY ONLY <2>5, OthersMove
  <2>7. QED
    BY <2>3, <2>4, <2>6
<1>2. \A q \in Runner : run'[q] # Idle => q \notin out /\ run[q] # Idle
  OBVIOUS
<1>3. TypeOK'
  <2>1. run' \in [Runner -> Work \cup {Idle}]
    <3>1. \A q \in Runner : run'[q] \in Work \cup {Idle}
      BY <1>1, <1>2
    <3>2. QED
      BY <3>1
  <2>2. QED
    BY <2>1 DEF TypeOK, OthersTyped
<1>4. (\A q \in Runner : run[q] # Idle => Sound(run[q], owner, active))'
  BY <1>1, <1>2
<1>5. \A q \in Runner : Locks(run'[q]) = {} \/ Locks(run'[q]) = Locks(run[q])
  <2>1. ASSUME NEW q \in Runner, run'[q] # Idle PROVE Locks(run'[q]) = Locks(run[q])
    <3>1. run'[q] \in Work /\ Written(run'[q]) = Written(run[q]) /\ run[q] # Idle
      BY <1>1, <1>2, <2>1
    <3>2. run[q] \in Work
      BY <3>1, LocksOf
    <3>3. QED
      BY <3>1, <3>2, <1>0, SessionView
  <2>2. QED
    BY <2>1, IdleLocks
<1>6. \A p, q \in Runner : p # q => Locks(run'[p]) \cap Locks(run'[q]) = {}
  BY <1>5 DEF Inv
<1>7. (\A p, q \in Runner : p # q => Locks(run[p]) \cap Locks(run[q]) = {})'
  BY <1>6 DEF Locks
<1>8. QED
  BY <1>3, <1>4, <1>7 DEF Inv

LEMMA RunnerSteps ==
  ASSUME Inv, NEW r \in Runner, Fetch(r) \/ FetchFails(r) \/ Flush(r) \/ FlushFails(r)
  PROVE  Inv'
<1> DEFINE j == run[r]
           s == Head(j.todo)
<1>0. /\ j \in Work /\ j # Idle /\ Sound(j, owner, active)
      /\ owner \in [Bus -> Site \cup {Nobody}] /\ active \in SUBSET Bus
      /\ Locks(j) = Written(j)
  BY LocksOf DEF Inv, TypeOK, Fetch, FetchFails, Flush, FlushFails
<1>1. \A q \in Runner \ {r} : Locks(run[q]) \cap Written(j) = {}
  BY <1>0 DEF Inv
<1>2. OthersTyped' /\ owner' = owner /\ active' = active
  BY DEF Inv, TypeOK, OthersTyped, Fetch, FetchFails, Flush, FlushFails
<1>3. CASE Fetch(r)
  <2> DEFINE new == [j EXCEPT !.stage = "flush", !.listed[s] = roster[s],
                              !.owns = OwnerSeen(j), !.on = Over(j, active)]
  <2>1. run' = [run EXCEPT ![r] = new] /\ j.stage = "fetch" /\ j.todo # <<>>
    BY <1>3 DEF Fetch
  <2>2. s \in Site /\ roster[s] \in SUBSET Bus
    BY <1>0, <2>1, WorkTypes, SiteList DEF Inv, TypeOK
  <2>3. new \in Work /\ Sound(new, owner, active) /\ Written(new) = Written(j)
    <3> HIDE DEF j
    <3>1. QED
      BY <1>0, <2>1, <2>2, FetchSound
  <2> HIDE DEF new
  <2>4. QED
    BY <1>1, <1>2, <2>1, <2>3, OneRun
<1>4. CASE FetchFails(r)
  <2> DEFINE new == IF r = Night THEN [NextSite(j) EXCEPT !.note[s] = "unreachable"] ELSE Idle
  <2>1. run' = [run EXCEPT ![r] = new] /\ j.stage = "fetch" /\ j.todo # <<>>
    BY <1>4 DEF FetchFails
  <2>2. CASE r = Night
    <3>1. new = [NextSite(j) EXCEPT !.note[s] = "unreachable"]
      BY <2>2
    <3> HIDE DEF j, new
    <3>2. new \in Work /\ Sound(new, owner, active) /\ Written(new) = Written(j)
      BY <1>0, <2>1, <3>1, FetchFailsSound
    <3>3. QED
      BY <1>1, <1>2, <2>1, <3>2, OneRun
  <2>3. CASE r # Night
    BY <1>2, <2>1, <2>3, OneRun
  <2>4. QED
    BY <2>2, <2>3
<1>5. CASE Flush(r)
  <2> DEFINE new == [NextSite(j) EXCEPT
                       !.added = [b \in Bus |-> IF b \in Created(j, s) THEN s ELSE @[b]],
                       !.set = [b \in Bus |->
                                  IF b \in Created(j, s) \cup Reactivated(j, s) THEN "on"
                                  ELSE IF b \in Deactivated(j, s) THEN "off" ELSE @[b]],
                       !.note[s] = IF @ = "none" THEN "ok" ELSE @]
  <2>1. /\ run' = [run EXCEPT ![r] = new] /\ j.stage = "flush"
        /\ Touches(j, s) \cap LockedBy(Runner \ {r}) = {}
        /\ \A b \in Created(j, s) : Seen(j, owner)[b] = Nobody
    BY <1>0, <1>5, SessionView DEF Flush
  <2>2. /\ new \in Work /\ Sound(new, owner, active)
        /\ Written(new) \subseteq Written(j) \cup Touches(j, s)
    <3>1. PICK t : t = s
      OBVIOUS
    <3> HIDE DEF j
    <3>2. QED
      BY <1>0, <2>1, FlushSound
  <2> HIDE DEF new
  <2>3. \A q \in Runner \ {r} : Locks(run[q]) \cap Touches(j, s) = {}
    BY <2>1 DEF LockedBy
  <2>4. \A q \in Runner \ {r} : Locks(run[q]) \cap Written(new) = {}
    BY <1>1, <2>2, <2>3
  <2>5. QED
    BY <1>2, <2>1, <2>2, <2>4, OneRun
<1>6. CASE FlushFails(r)
  <2>1. run' = [run EXCEPT ![r] = Idle]
    BY <1>6 DEF FlushFails
  <2>2. QED
    BY <1>2, <2>1, OneRun
<1>7. QED
  BY <1>3, <1>4, <1>5, <1>6

LEMMA CommitStep == ASSUME Inv, NEW r \in Runner, Commit(r) PROVE Inv'
<1> DEFINE j == run[r]
<1>1. /\ j \in Work /\ j # Idle /\ RowsSound(j, owner)
      /\ owner \in [Bus -> Site \cup {Nobody}] /\ active \subseteq {b \in Bus : owner[b] # Nobody}
      /\ Locks(j) = Written(j)
  BY LocksOf DEF Inv, TypeOK, Commit, Sound
<1>2. /\ owner' = Seen(j, owner) /\ active' = Over(j, active) /\ run' = MovedBy(r, Written(j))
      /\ active' \in SUBSET Bus /\ \A b \in Bus : b \in active' <=> SeenOn(j, active, b)
  BY <1>1, SessionView DEF Commit
<1>3. owner' \in [Bus -> Site \cup {Nobody}]
  BY <1>1, <1>2, WorkTypes DEF Seen
<1>4. Moves(owner, active, owner', active', Written(j))
  BY <1>1, <1>2, WorkTypes DEF Moves, Seen, SeenOn, Written, RowsSound
<1>5. active' \subseteq {b \in Bus : owner'[b] # Nobody}
  <2>1. \A b \in Bus : j.set[b] = "keep" /\ b \in active => owner'[b] # Nobody
    BY <1>1, <1>2 DEF Seen
  <2>2. \A b \in Bus : j.set[b] # "keep" => owner'[b] # Nobody
    BY <1>1, <1>2 DEF RowsSound
  <2>3. QED
    BY <1>2, <2>1, <2>2 DEF SeenOn
<1>6. OthersTyped'
  <2>1. result' \in [Site -> Answer]
    BY <1>1, WorkTypes DEF Commit, Inv, TypeOK
  <2>2. QED
    BY <2>1 DEF OthersTyped, Commit, Inv, TypeOK
<1>7. \A q \in Runner \ {r} : Locks(run[q]) \cap Written(j) = {}
  BY <1>1 DEF Inv
<1>8. run' = [q \in Runner |-> IF q \in {r} \/ run[q] = Idle THEN Idle
                               ELSE [run[q] EXCEPT !.moved = @ \cup Written(j)]]
  BY <1>2 DEF MovedBy
<1>9. Written(j) \in SUBSET Bus /\ {r} \in SUBSET Runner
  BY DEF Written
<1> HIDE DEF j
<1>10. QED
  BY <1>3, <1>4, <1>5, <1>6, <1>7, <1>8, <1>9, FleetChange

LEMMA EditCount == ASSUME edits \in 0 .. MaxEdits, Edit PROVE edits' \in 0 .. MaxEdits
BY FleetAssumption DEF Edit

LEMMA HandSteps ==
  ASSUME Inv, NEW b \in Bus, (\E s \in Site : CreateVehicle(b, s)) \/ SetActive(b)
  PROVE  Inv'
<1>1. /\ owner \in [Bus -> Site \cup {Nobody}] /\ active \subseteq {c \in Bus : owner[c] # Nobody}
      /\ OthersTyped
  BY DEF Inv, TypeOK, OthersTyped
<1>2. /\ owner' \in [Bus -> Site \cup {Nobody}]
      /\ active' \subseteq {c \in Bus : owner'[c] # Nobody}
      /\ Moves(owner, active, owner', active', {b})
  <2>1. ASSUME NEW s \in Site, CreateVehicle(b, s) PROVE <1>2
    BY <1>1, <2>1, FleetAssumption DEF CreateVehicle, Moves
  <2>2. CASE SetActive(b)
    BY <1>1, <2>2 DEF SetActive, Moves
  <2>3. QED
    BY <2>1, <2>2
<1>3. edits' \in 0 .. MaxEdits
  BY <1>1, EditCount DEF CreateVehicle, SetActive, OthersTyped
<1>4. OthersTyped' /\ Touched({b}) /\ Free(b)
  BY <1>1, <1>3 DEF CreateVehicle, SetActive, OthersTyped
<1>5. \A q \in Runner \ {} : Locks(run[q]) \cap {b} = {}
  BY <1>4 DEF Free, LockedBy
<1>6. run' = [q \in Runner |-> IF q \in {} \/ run[q] = Idle THEN Idle
                               ELSE [run[q] EXCEPT !.moved = @ \cup {b}]]
  BY <1>4 DEF Touched
<1>7. {b} \in SUBSET Bus /\ {} \in SUBSET Runner
  OBVIOUS
<1>8. QED
  BY <1>2, <1>4, <1>5, <1>6, <1>7, FleetChange

LEMMA BeginSteps == ASSUME Inv, NEW r \in Runner, NEW sites \in Seq(Site), Begin(r, sites),
                           \A i, k \in DOMAIN sites : i # k => sites[i] # sites[k]
                    PROVE  Inv'
<1>1. owner \in [Bus -> Site \cup {Nobody}] /\ active \in SUBSET Bus
  BY DEF Inv, TypeOK
<1>2. run' = [run EXCEPT ![r] = Fresh(sites)] /\ owner' = owner /\ active' = active /\ OthersTyped'
  BY DEF Begin, Inv, TypeOK, OthersTyped
<1>3. Fresh(sites) \in Work /\ Sound(Fresh(sites), owner, active) /\ Written(Fresh(sites)) = {}
  BY <1>1, BeginSound
<1>4. QED
  BY <1>2, <1>3, OneRun

LEMMA PlatformSteps ==
  ASSUME Inv, (\E b \in Bus, s \in Site : Relist(s, b)) \/ GoDown \/ ComeBack
  PROVE  Inv'
<1>1. OthersTyped' /\ owner' = owner /\ active' = active /\ run' = run
  <2>1. ASSUME NEW b \in Bus, NEW s \in Site, Relist(s, b) PROVE <1>1
    <3>1. (IF b \in roster[s] THEN roster[s] \ {b} ELSE roster[s] \cup {b}) \in SUBSET (Bus \ {FleetWide})
      BY <2>1 DEF Relist, Inv, TypeOK
    <3>2. roster' \in [Site -> SUBSET (Bus \ {FleetWide})]
      BY <2>1, <3>1 DEF Relist, Inv, TypeOK
    <3>3. QED
      BY <2>1, <3>2, EditCount DEF Relist, Inv, TypeOK, OthersTyped
  <2>2. CASE GoDown \/ ComeBack
    <3>1. edits' \in 0 .. MaxEdits
      BY <2>2, EditCount DEF GoDown, ComeBack, Inv, TypeOK
    <3>2. QED
      BY <2>2, <3>1 DEF GoDown, ComeBack, Inv, TypeOK, OthersTyped
  <2>3. QED
    BY <2>1, <2>2
<1>2. TypeOK'
  BY <1>1 DEF Inv, TypeOK, OthersTyped
<1>3. QED
  BY <1>1, <1>2 DEF Inv, Locks

LEMMA Inductive == ASSUME Inv, [Next]_vars PROVE Inv'
<1>1. CASE UNCHANGED vars
  BY <1>1 DEF vars, Inv, TypeOK, Locks
<1>2. CASE BeginNight
  BY <1>2, FleetAssumption, BeginSteps DEF BeginNight
<1>3. ASSUME NEW r \in Runner, NEW s \in Site, BeginByHand(r, s) PROVE Inv'
  <2>1. <<s>> \in Seq(Site) /\ \A i, k \in DOMAIN <<s>> : i # k => <<s>>[i] # <<s>>[k]
    OBVIOUS
  <2>2. QED
    BY <1>3, <2>1, BeginSteps DEF BeginByHand
<1>4. ASSUME NEW r \in Runner, Step(r) PROVE Inv'
  BY <1>4, RunnerSteps, CommitStep DEF Step
<1>5. QED
  BY <1>1, <1>2, <1>3, <1>4, HandSteps, PlatformSteps DEF Next

LEMMA Initially == Init => Inv
<1> SUFFICES ASSUME Init PROVE Inv
  OBVIOUS
<1>1. \A r \in Runner : run[r] = Idle
  BY DEF Init
<1>2. TypeOK
  <2>1. edits \in 0 .. MaxEdits
    BY FleetAssumption DEF Init
  <2>2. result \in [Site -> Answer] /\ run \in [Runner -> Work \cup {Idle}]
    BY DEF Init, Answer
  <2>3. QED
    BY <2>1, <2>2 DEF Init, TypeOK
<1>3. QED
  BY <1>1, <1>2, IdleLocks DEF Inv

LEMMA Invariance == Spec => []Inv
<1>1. Inv /\ [Next]_vars => Inv'
  BY Inductive
<1>2. QED
  BY Initially, <1>1, PTL DEF Spec

-----------------------------------------------------------------------------
(* What a sync that is done has done.                                      *)
\* A run that ends with nothing left to read has committed.
LEMMA OnlyCommitCommits ==
  ASSUME Inv, [Next]_vars, NEW r \in Runner, Commits(r)
  PROVE  Commit(r)
<1>0. run[r] # Idle /\ run[r].todo = <<>> /\ run'[r] = Idle /\ run[r] \in Work
  BY LocksOf DEF Commits
<1>1. \A j \in Work : [j EXCEPT !.moved = @] # Idle
  BY DEF Work, Idle
<1>2. run \in [Runner -> Work \cup {Idle}]
  BY DEF Inv, TypeOK
<1>3. ASSUME NEW q \in Runner, NEW sites \in Seq(Site), Begin(q, sites) PROVE FALSE
  <2>1. run[q] = Idle /\ r # q /\ run'[r] = run[r]
    BY <1>0, <1>2, <1>3 DEF Begin
  <2>2. QED
    BY <1>0, <2>1
<1>4. ASSUME NEW B, Touched(B) PROVE FALSE
  <2>1. run'[r] = [run[r] EXCEPT !.moved = @ \cup B]
    BY <1>0, <1>4 DEF Touched
  <2>2. run'[r].stage = run[r].stage
    BY <1>0, <2>1 DEF Work
  <2>3. QED
    BY <1>0, <2>2 DEF Work, Idle
<1>5. ASSUME NEW q \in Runner, Fetch(q) \/ FetchFails(q) \/ Flush(q) \/ FlushFails(q)
      PROVE  FALSE
  <2>1. run[q].todo # <<>>
    BY <1>5, LocksOf DEF Fetch, FetchFails, Flush, FlushFails, Inv, Sound, TodoSound
  <2>2. q # r
    BY <1>0, <2>1
  <2>3. run'[r] = run[r]
    BY <1>2, <1>5, <2>2 DEF Fetch, FetchFails, Flush, FlushFails
  <2>4. QED
    BY <1>0, <2>3
<1>6. ASSUME NEW q \in Runner \ {r}, Commit(q) PROVE FALSE
  <2>1. PICK B : run'[r] = [run[r] EXCEPT !.moved = @ \cup B]
    BY <1>0, <1>6 DEF Commit, MovedBy
  <2>2. run'[r].stage = run[r].stage
    BY <1>0, <2>1 DEF Work
  <2>3. QED
    BY <1>0, <2>2 DEF Work, Idle
<1>7. run' # run
  BY <1>0
<1>8. ASSUME NEW q \in Runner, NEW s \in Site, BeginByHand(q, s) PROVE FALSE
  <2>1. <<s>> \in Seq(Site) /\ Begin(q, <<s>>)
    BY <1>8 DEF BeginByHand
  <2>2. QED
    BY <1>3, <2>1
<1>9. ~BeginNight
  BY <1>3, FleetAssumption DEF BeginNight
<1>10. ASSUME NEW b \in Bus, NEW s \in Site, CreateVehicle(b, s) \/ Relist(s, b) PROVE FALSE
  BY <1>4, <1>7, <1>10 DEF CreateVehicle, Relist
<1>11. ASSUME NEW b \in Bus, SetActive(b) PROVE FALSE
  BY <1>4, <1>11 DEF SetActive
<1>12. ~GoDown /\ ~ComeBack /\ ~UNCHANGED vars
  BY <1>7 DEF GoDown, ComeBack, vars
<1>13. QED
  BY <1>5, <1>6, <1>8, <1>9, <1>10, <1>11, <1>12 DEF Next, Step

\* What a commit leaves of the fleet.
LEMMA Committed ==
  ASSUME Inv, NEW r \in Runner, Commit(r)
  PROVE  /\ run[r] \in Work /\ Sound(run[r], owner, active)
         /\ owner \in [Bus -> Site \cup {Nobody}]
         /\ owner' = Seen(run[r], owner)
         /\ \A b \in Bus : b \in active' <=> SeenOn(run[r], active, b)
<1>1. /\ run[r] \in Work /\ Sound(run[r], owner, active)
      /\ owner \in [Bus -> Site \cup {Nobody}] /\ active \in SUBSET Bus
  BY LocksOf DEF Inv, TypeOK, Commit
<1>2. QED
  BY <1>1, SessionView DEF Commit

THEOREM TypeCorrect == Spec => []TypeOK
BY Invariance, PTL DEF Inv

\* When a sync commits, the fleet of each site it read is the list it was
\* given, save for buses other sites have and what was moved meanwhile.
THEOREM SyncIsAMirror == Spec => SyncMirrors
<1>1. ASSUME Inv, [Next]_vars, NEW r \in Runner, Commits(r), NEW s \in Site, run[r].note[s] = "ok"
      PROVE  Mirrors(s, run[r].listed[s], owner', active', Still(r))
  <2>1. Commit(r)
    BY <1>1, OnlyCommitCommits
  <2>2. MirrorSound(run[r], owner, active)
    BY <1>1, <2>1, Committed DEF Sound
  <2>3. /\ owner' = Seen(run[r], owner)
        /\ \A b \in Bus : b \in active' <=> SeenOn(run[r], active, b)
    BY <1>1, <2>1, Committed
  <2>4. QED
    BY <1>1, <2>2, <2>3 DEF MirrorSound, Mirrors, Still
<1>2. Inv /\ [Next]_vars =>
        [\A r \in Runner : Commits(r) =>
           \A s \in Site : run[r].note[s] = "ok" =>
             Mirrors(s, run[r].listed[s], owner', active', Still(r))]_vars
  BY <1>1
<1>3. QED
  BY <1>2, Invariance, PTL DEF Spec, SyncMirrors

\* A bus that has a row keeps its site; unless it was set for its site, which
\* was read, it stays as it was.
LEMMA CommitKeeps ==
  ASSUME Inv, [Next]_vars, NEW r \in Runner, Commits(r), NEW b \in Bus, owner[b] # Nobody
  PROVE  /\ owner'[b] = owner[b]
         /\ (b \in active' <=> b \in active) \/ run[r].note[owner[b]] = "ok"
<1>1. Commit(r)
  BY OnlyCommitCommits
<1>2. /\ run[r] \in Work /\ RowsSound(run[r], owner)
      /\ owner' = Seen(run[r], owner)
      /\ b \in active' <=> SeenOn(run[r], active, b)
  BY <1>1, Committed DEF Sound
<1>3. run[r].added[b] = Nobody /\ owner'[b] = owner[b]
  BY <1>2 DEF RowsSound, Seen
<1>4. CASE run[r].set[b] = "keep"
  BY <1>2, <1>3, <1>4 DEF SeenOn
<1>5. CASE run[r].set[b] # "keep"
  BY <1>2, <1>3, <1>5 DEF RowsSound
<1>6. QED
  BY <1>3, <1>4, <1>5

\* A site the platform could not be asked about keeps its fleet.
THEOREM OutageKeepsFleets == Spec => OutageRetiresNobody
<1>1. Inv /\ [Next]_vars =>
        [\A r \in Runner : Commits(r) =>
           \A b \in Still(r) : owner[b] # Nobody /\ run[r].note[owner[b]] = "unreachable" =>
             (b \in active' <=> b \in active)]_vars
  BY CommitKeeps DEF Still
<1>2. QED
  BY <1>1, Invariance, PTL DEF Spec, OutageRetiresNobody

\* No sync moves a bus from one site to another, or retires one of a site it
\* did not read.
THEOREM SitesKeepTheirBuses == Spec => OthersUntouched
<1>1. Inv /\ [Next]_vars =>
        [\A r \in Runner : Commits(r) =>
           \A b \in Still(r) : owner[b] # Nobody =>
             /\ owner'[b] = owner[b]
             /\ b \in active \ active' => run[r].note[owner[b]] = "ok"]_vars
  BY CommitKeeps DEF Still
<1>2. QED
  BY <1>1, Invariance, PTL DEF Spec, OthersUntouched
=============================================================================
