--------------------------- MODULE AccountsProofs ---------------------------
(***************************************************************************)
(* Theorems about Accounts, for any number of people, sites, tokens and    *)
(* renewals.  Inv is inductive: it adds to the properties that an          *)
(* administrator is never the platform's, that a session is somebody's,    *)
(* and that a renewal waits for somebody the platform has adopted.         *)
(***************************************************************************)
EXTENDS Accounts, TLAPS

\* What TypeOK says of one account.
GoodRow(row) ==
  /\ row \in Row \cup {NoRow}
  /\ row # NoRow =>
       /\ row.role = "super" => row.links = {}
       /\ row.id = "platform" => ~row.password

\* A sync skips administrators whole, so none of them loses its password.
AdminsAreOurs ==
  \A p \in Person : account[p] # NoRow /\ account[p].role = "super" => account[p].password

SessionsExist == \A t \in Token : session[t] # NoSession => account[session[t].who] # NoRow

\* The platform is asked only about people it has, and they stay its own.
WaitingManaged ==
  \A w \in Worker : waiting[w] # NoToken =>
    session[waiting[w]] # NoSession /\ Managed(session[waiting[w]].who)

Inv ==
  /\ TypeOK
  /\ AdminsAreOurs
  /\ SessionsExist
  /\ WaitingManaged
  /\ AdminCanSignIn
  /\ NoSessionSleeps

\* What no step does to an account that is there.
RowsStay ==
  \A p \in Person : account[p] # NoRow =>
    /\ account'[p] # NoRow /\ account'[p].id = account[p].id
    /\ Managed(p) => ~account'[p].password

-----------------------------------------------------------------------------
LEMMA RowFacts ==
  /\ NoRow \notin Row
  /\ Shadow \in Row /\ GoodRow(Shadow) /\ Shadow # NoRow
  /\ NoSession \notin Session
BY DEF NoRow, Row, Shadow, GoodRow, Role, NoSession, Session

LEMMA TypedByRows ==
  TypeOK <=>
    /\ account \in [Person -> Row \cup {NoRow}]
    /\ \A p \in Person : GoodRow(account[p])
    /\ session \in [Token -> Session \cup {NoSession}]
    /\ waiting \in [Worker -> Token \cup {NoToken}]
    /\ staffed \in [Site -> SUBSET Person] /\ enabled \subseteq Person
    /\ outage \in BOOLEAN
BY DEF TypeOK, GoodRow

\* The rows a sign-in or a sync makes are accounts of the same identity.
LEMMA FoundRow ==
  ASSUME TypeOK, NEW p \in Person
  PROVE  /\ Found(p) \in Row /\ GoodRow(Found(p))
         /\ account[p] # NoRow => Found(p) = account[p]
         /\ account[p] = NoRow => Found(p) = Shadow
BY RowFacts, TypedByRows DEF Found

LEMMA MadeRows ==
  ASSUME TypeOK, NEW p \in Person, NEW s \in Site
  PROVE  /\ Adopted(p) \in Row /\ GoodRow(Adopted(p)) /\ ~Adopted(p).password
         /\ Adopted(p).id = Found(p).id /\ Adopted(p).role = Found(p).role
         /\ Adopted(p).links = Found(p).links
         /\ Mirrored(p, s) \in Row /\ GoodRow(Mirrored(p, s)) /\ ~Mirrored(p, s).password
         /\ Mirrored(p, s).id = Found(p).id /\ Mirrored(p, s).role = RoleAt[p]
         /\ Mirrored(p, s).links =
              Found(p).links \cup (IF p \in enabled THEN {s} ELSE {})
         /\ RoleAt[p] \in Role /\ RoleAt[p] # "super"
<1>1. Found(p) \in Row /\ GoodRow(Found(p))
  BY FoundRow
<1>2. RoleAt[p] \in Role /\ RoleAt[p] # "super"
  BY AccountsAssumption DEF Role
<1>3. /\ Adopted(p) \in Row /\ GoodRow(Adopted(p)) /\ ~Adopted(p).password
      /\ Adopted(p).id = Found(p).id /\ Adopted(p).role = Found(p).role
      /\ Adopted(p).links = Found(p).links
  BY <1>1, RowFacts DEF Adopted, Row, GoodRow
<1>4. /\ Mirrored(p, s) \in Row /\ GoodRow(Mirrored(p, s)) /\ ~Mirrored(p, s).password
      /\ Mirrored(p, s).id = Found(p).id /\ Mirrored(p, s).role = RoleAt[p]
      /\ Mirrored(p, s).links = Found(p).links \cup (IF p \in enabled THEN {s} ELSE {})
  <2>1. /\ Found(p).id \in {"own", "platform"} /\ Found(p).links \in SUBSET Site
    BY <1>1 DEF Row
  <2>2. Mirrored(p, s) \in Row
    BY <1>2, <2>1 DEF Mirrored, Row
  <2>3. /\ ~Mirrored(p, s).password
        /\ Mirrored(p, s).id = Found(p).id /\ Mirrored(p, s).role = RoleAt[p]
        /\ Mirrored(p, s).links = Found(p).links \cup (IF p \in enabled THEN {s} ELSE {})
    BY DEF Mirrored
  <2>4. QED
    BY <1>2, <2>2, <2>3 DEF GoodRow
<1>5. QED
  BY <1>1, <1>2, <1>3, <1>4

-----------------------------------------------------------------------------
LEMMA SomeAdmin == ASSUME Inv PROVE \E q \in Admins : account[q].password
BY DEF Inv, AdminCanSignIn

\* One administrator left as it was is enough.
LEMMA AdminLeft ==
  ASSUME Inv, NEW q \in Admins, account'[q] = account[q]
  PROVE  AdminCanSignIn'
BY DEF Inv, AdminCanSignIn, AdminsAreOurs, Admins

\* A step that changes accounts only.
LEMMA AccountsChange ==
  ASSUME Inv,
         account' \in [Person -> Row \cup {NoRow}],
         \A p \in Person : GoodRow(account'[p]),
         \A p \in Person : account'[p] # NoRow /\ account'[p].role = "super" => account'[p].password,
         RowsStay,
         \A p \in Person : account[p] # NoRow /\ account[p].active =>
           account'[p].active \/ ~account'[p].password,
         AdminCanSignIn',
         session' = session, waiting' = waiting,
         staffed' \in [Site -> SUBSET Person], enabled' \subseteq Person, outage' \in BOOLEAN
  PROVE  Inv'
<1>1. TypeOK'
  BY TypedByRows DEF Inv, TypeOK, GoodRow
<1>2. AdminsAreOurs'
  BY DEF AdminsAreOurs
<1>3. SessionsExist'
  <2>1. \A t \in Token : session[t] # NoSession => session[t].who \in Person
    BY DEF Inv, TypeOK, Session
  <2>2. QED
    BY <2>1 DEF Inv, SessionsExist, RowsStay
<1>4. WaitingManaged'
  <2>1. SUFFICES ASSUME NEW w \in Worker, waiting[w] # NoToken
                 PROVE  session[waiting[w]] # NoSession /\ Managed(session[waiting[w]].who)'
    BY DEF WaitingManaged
  <2>2. session[waiting[w]] # NoSession /\ Managed(session[waiting[w]].who)
    BY <2>1 DEF Inv, WaitingManaged
  <2>3. session[waiting[w]].who \in Person
    BY <2>1, <2>2 DEF Inv, TypeOK, Session
  <2>4. QED
    BY <2>2, <2>3 DEF Managed, RowsStay
<1>5. NoSessionSleeps'
  <2>1. SUFFICES ASSUME NEW t \in Token, session[t] # NoSession, session[t].live
                 PROVE  account'[session[t].who].active \/ ~account'[session[t].who].password
    BY DEF NoSessionSleeps
  <2> DEFINE p == session[t].who
  <2>2. p \in Person /\ account[p] # NoRow
    BY <2>1 DEF Inv, TypeOK, Session, SessionsExist
  <2>3. account[p].active \/ ~account[p].password
    BY <2>1 DEF Inv, NoSessionSleeps
  <2>4. CASE account[p].active
    BY <2>2, <2>4
  <2>5. CASE ~account[p].password
    BY <2>2, <2>5 DEF RowsStay, Managed
  <2>6. QED
    BY <2>3, <2>4, <2>5
<1>6. QED
  BY <1>1, <1>2, <1>3, <1>4, <1>5 DEF Inv

\* A step that changes sessions and renewals only.
LEMMA SessionsChange ==
  ASSUME Inv, account' = account,
         session' \in [Token -> Session \cup {NoSession}],
         \A t \in Token : session[t] # NoSession =>
           session'[t] # NoSession /\ session'[t].who = session[t].who,
         \A t \in Token : session'[t] # NoSession => account[session'[t].who] # NoRow,
         \A t \in Token : session'[t] # NoSession /\ session'[t].live =>
           account[session'[t].who].active \/ ~account[session'[t].who].password,
         waiting' \in [Worker -> Token \cup {NoToken}],
         \A w \in Worker : waiting'[w] # NoToken =>
           session[waiting'[w]] # NoSession /\ Managed(session[waiting'[w]].who),
         UNCHANGED platformVars
  PROVE  Inv'
<1>1. TypeOK' /\ AdminsAreOurs' /\ SessionsExist' /\ AdminCanSignIn' /\ NoSessionSleeps'
  BY DEF Inv, TypeOK, AdminsAreOurs, SessionsExist, AdminCanSignIn, Admins, NoSessionSleeps,
         platformVars
<1>2. WaitingManaged'
  BY DEF WaitingManaged, Managed
<1>3. QED
  BY <1>1, <1>2 DEF Inv

-----------------------------------------------------------------------------
LEMMA IssuedFacts ==
  ASSUME TypeOK, NEW t \in Token, NEW p \in Person, NEW grants \in BOOLEAN,
         NEW old \in Token \cup {NoToken}
  PROVE  /\ Issued(t, p, grants, old) \in [Token -> Session \cup {NoSession}]
         /\ Issued(t, p, grants, old)[t] \in Session
         /\ Issued(t, p, grants, old)[t].who = p
         /\ \A u \in Token \ {t} : Issued(t, p, grants, old)[u] = session[u]
<1>1. [who |-> p, live |-> TRUE, grants |-> grants, after |-> old] \in Session
  BY DEF Session
<1>2. QED
  BY <1>1 DEF Issued, TypeOK

\* The token spent is not the one issued for it.
LEMMA SpendFacts ==
  ASSUME Inv, NEW t \in Token, NEW old \in Token, session[t] = NoSession,
         session[old] # NoSession, NEW grants \in BOOLEAN, Spend(old, t, grants)
  PROVE  /\ session' \in [Token -> Session \cup {NoSession}]
         /\ session'[t] # NoSession /\ session'[t].who = session[old].who
         /\ session'[old] # NoSession /\ session'[old].who = session[old].who
         /\ ~session'[old].live
         /\ \A u \in Token \ {t, old} : session'[u] = session[u]
<1> DEFINE j == Issued(t, session[old].who, grants, old)
<1>1. session[old] \in Session /\ session[old].who \in Person
  BY DEF Inv, TypeOK, Session
<1>2. /\ j \in [Token -> Session \cup {NoSession}] /\ j[t] \in Session
      /\ j[t].who = session[old].who /\ \A u \in Token \ {t} : j[u] = session[u]
  BY <1>1, IssuedFacts DEF Inv
<1>3. session' = [j EXCEPT ![old] = [j[old] EXCEPT !.live = FALSE]]
  BY DEF Spend
<1> HIDE DEF j
<1>4. j[old] = session[old] /\ old # t
  BY <1>2
<1>5. [j[old] EXCEPT !.live = FALSE] \in Session
  BY <1>1, <1>4 DEF Session
<1>6. /\ [j[old] EXCEPT !.live = FALSE].who = session[old].who
      /\ [j[old] EXCEPT !.live = FALSE].live = FALSE
  BY <1>1, <1>4 DEF Session
<1>7. QED
  BY <1>2, <1>3, <1>4, <1>5, <1>6, RowFacts

LEMMA SpendKeeps ==
  ASSUME Inv, NEW t \in Token, NEW old \in Token, session[t] = NoSession,
         session[old] # NoSession, NEW grants \in BOOLEAN, Spend(old, t, grants),
         account[session[old].who].active \/ ~account[session[old].who].password,
         account' = account, UNCHANGED platformVars,
         waiting' \in [Worker -> Token \cup {NoToken}],
         \A w \in Worker : waiting'[w] \in {waiting[w], NoToken}
  PROVE  Inv'
<1>1. \A u \in Token : session[u] # NoSession =>
        session'[u] # NoSession /\ session'[u].who = session[u].who
  BY SpendFacts
<1>2. \A u \in Token : session'[u] # NoSession => account[session'[u].who] # NoRow
  BY SpendFacts DEF Inv, SessionsExist
<1>3. \A u \in Token : session'[u] # NoSession /\ session'[u].live =>
        account[session'[u].who].active \/ ~account[session'[u].who].password
  BY SpendFacts DEF Inv, NoSessionSleeps
<1>4. \A w \in Worker : waiting'[w] # NoToken =>
        session[waiting'[w]] # NoSession /\ Managed(session[waiting'[w]].who)
  BY DEF Inv, WaitingManaged
<1>5. session' \in [Token -> Session \cup {NoSession}]
  BY SpendFacts
<1>6. QED
  BY <1>1, <1>2, <1>3, <1>4, <1>5, SessionsChange

LEMMA SessionSteps ==
  ASSUME Inv,
         \/ \E p \in Person, t \in Token : LocalLogin(p, t)
         \/ \E old, t \in Token : RefreshLocal(old, t)
         \/ \E w \in Worker, t \in Token : LookUp(w, t) \/ Renew(w, t)
         \/ \E w \in Worker : RenewRefused(w)
         \/ \E t \in Token : Logout(t)
  PROVE  Inv' /\ account' = account
<1>0. /\ waiting \in [Worker -> Token \cup {NoToken}]
      /\ \A w \in Worker : waiting[w] # NoToken => waiting[w] \in Token
  BY DEF Inv, TypeOK
<1>1. ASSUME NEW p \in Person, NEW t \in Token, LocalLogin(p, t) PROVE Inv'
  <2>1. /\ session' = Issued(t, p, FALSE, NoToken) /\ session[t] = NoSession
        /\ account[p] # NoRow /\ account[p].active
        /\ account' = account /\ waiting' = waiting /\ UNCHANGED platformVars
    BY <1>1 DEF LocalLogin, Local
  <2>2. /\ session' \in [Token -> Session \cup {NoSession}] /\ session'[t] \in Session
        /\ session'[t].who = p /\ \A u \in Token \ {t} : session'[u] = session[u]
    <3>1. PICK grants \in BOOLEAN : session' = Issued(t, p, grants, NoToken)
      BY <2>1
    <3>2. TypeOK /\ NoToken \in Token \cup {NoToken}
      BY DEF Inv
    <3>3. QED
      BY <3>1, <3>2, IssuedFacts
  <2>3. \A u \in Token : session[u] # NoSession =>
          session'[u] # NoSession /\ session'[u].who = session[u].who
    BY <2>1, <2>2
  <2>4. \A u \in Token : session'[u] # NoSession => account[session'[u].who] # NoRow
    BY <2>1, <2>2 DEF Inv, SessionsExist
  <2>5. \A u \in Token : session'[u] # NoSession /\ session'[u].live =>
          account[session'[u].who].active \/ ~account[session'[u].who].password
    BY <2>1, <2>2 DEF Inv, NoSessionSleeps
  <2>6. \A w \in Worker : waiting'[w] # NoToken =>
          session[waiting'[w]] # NoSession /\ Managed(session[waiting'[w]].who)
    BY <2>1 DEF Inv, WaitingManaged
  <2>7. QED
    BY <1>0, <2>1, <2>2, <2>3, <2>4, <2>5, <2>6, SessionsChange
<1>2. ASSUME NEW old \in Token, NEW t \in Token, RefreshLocal(old, t) PROVE Inv'
  <2>1. /\ session[old] # NoSession /\ session[t] = NoSession /\ Spend(old, t, FALSE)
        /\ account[session[old].who].active
        /\ account' = account /\ waiting' = waiting /\ UNCHANGED platformVars
    BY <1>2 DEF RefreshLocal, Usable
  <2>2. waiting' \in [Worker -> Token \cup {NoToken}]
        /\ \A w \in Worker : waiting'[w] \in {waiting[w], NoToken}
    BY <1>0, <2>1
  <2>3. QED
    BY <2>1, <2>2, SpendKeeps
<1>3. ASSUME NEW w \in Worker, NEW t \in Token, LookUp(w, t) PROVE Inv'
  <2>1. /\ waiting' = [waiting EXCEPT ![w] = t] /\ session[t] # NoSession
        /\ Managed(session[t].who)
        /\ account' = account /\ session' = session /\ UNCHANGED platformVars
    BY <1>3 DEF LookUp, Usable
  <2>2. /\ waiting' \in [Worker -> Token \cup {NoToken}]
        /\ \A v \in Worker : waiting'[v] # NoToken =>
             session[waiting'[v]] # NoSession /\ Managed(session[waiting'[v]].who)
    BY <1>0, <2>1 DEF Inv, WaitingManaged
  <2>3. QED
    BY <2>1, <2>2, SessionsChange DEF Inv, TypeOK, SessionsExist, NoSessionSleeps
<1>4. ASSUME NEW w \in Worker, NEW t \in Token, Renew(w, t) PROVE Inv'
  <2> DEFINE old == waiting[w]
  <2>1. /\ old \in Token /\ session[old] # NoSession /\ Managed(session[old].who)
        /\ session[t] = NoSession
    BY <1>0, <1>4 DEF Renew, Inv, WaitingManaged
  <2>2. PICK grants \in BOOLEAN : Spend(old, t, grants)
    <3>1. CASE account[session[old].who].id = "platform" /\ session[old].who \in enabled
      <4>1. Spend(old, t, TRUE)
        BY <1>4, <3>1 DEF Renew, Spend, Issued
      <4>2. QED
        BY <4>1
    <3>2. CASE ~(account[session[old].who].id = "platform" /\ session[old].who \in enabled)
      <4>1. Spend(old, t, FALSE)
        BY <1>4, <3>2 DEF Renew, Spend, Issued
      <4>2. QED
        BY <4>1
    <3>3. QED
      BY <3>1, <3>2
  <2>3. /\ waiting' = [waiting EXCEPT ![w] = NoToken]
        /\ account' = account /\ UNCHANGED platformVars
    BY <1>4 DEF Renew
  <2>4. /\ waiting' \in [Worker -> Token \cup {NoToken}]
        /\ \A v \in Worker : waiting'[v] \in {waiting[v], NoToken}
    BY <1>0, <2>3
  <2>5. QED
    BY <2>1, <2>2, <2>3, <2>4, SpendKeeps DEF Managed
<1>5. ASSUME NEW w \in Worker, RenewRefused(w) PROVE Inv'
  <2>1. /\ waiting' = [waiting EXCEPT ![w] = NoToken]
        /\ account' = account /\ session' = session /\ UNCHANGED platformVars
    BY <1>5 DEF RenewRefused
  <2>2. /\ waiting' \in [Worker -> Token \cup {NoToken}]
        /\ \A v \in Worker : waiting'[v] # NoToken =>
             session[waiting'[v]] # NoSession /\ Managed(session[waiting'[v]].who)
    BY <1>0, <2>1 DEF Inv, WaitingManaged
  <2>3. QED
    BY <2>1, <2>2, SessionsChange DEF Inv, TypeOK, SessionsExist, NoSessionSleeps
<1>6. ASSUME NEW t \in Token, Logout(t) PROVE Inv'
  <2>1. /\ session' = [session EXCEPT ![t] = [session[t] EXCEPT !.live = FALSE]]
        /\ session[t] # NoSession
        /\ account' = account /\ waiting' = waiting /\ UNCHANGED platformVars
    BY <1>6 DEF Logout
  <2>2. session[t] \in Session /\ session \in [Token -> Session \cup {NoSession}]
    BY <2>1 DEF Inv, TypeOK
  <2>3. /\ session' \in [Token -> Session \cup {NoSession}]
        /\ session'[t] # NoSession /\ session'[t].who = session[t].who /\ ~session'[t].live
        /\ \A u \in Token \ {t} : session'[u] = session[u]
    <3>1. /\ [session[t] EXCEPT !.live = FALSE] \in Session
          /\ [session[t] EXCEPT !.live = FALSE].who = session[t].who
          /\ [session[t] EXCEPT !.live = FALSE].live = FALSE
      BY <2>2 DEF Session
    <3>2. QED
      BY <2>1, <2>2, <3>1, RowFacts
  <2>4. /\ \A u \in Token : session[u] # NoSession =>
             session'[u] # NoSession /\ session'[u].who = session[u].who
        /\ \A u \in Token : session'[u] # NoSession => account[session'[u].who] # NoRow
        /\ \A u \in Token : session'[u] # NoSession /\ session'[u].live =>
             account[session'[u].who].active \/ ~account[session'[u].who].password
    BY <2>1, <2>3 DEF Inv, SessionsExist, NoSessionSleeps
  <2>5. \A v \in Worker : waiting'[v] # NoToken =>
          session[waiting'[v]] # NoSession /\ Managed(session[waiting'[v]].who)
    BY <2>1 DEF Inv, WaitingManaged
  <2>6. QED
    BY <1>0, <2>1, <2>3, <2>4, <2>5, SessionsChange
<1>7. account' = account
  BY DEF LocalLogin, RefreshLocal, LookUp, Renew, RenewRefused, Logout
<1>8. QED
  BY <1>1, <1>2, <1>3, <1>4, <1>5, <1>6, <1>7

-----------------------------------------------------------------------------
\* A sign-in finds or makes the shadow, and starts a session of an active one.
LEMMA PlatformLoginStep ==
  ASSUME Inv, NEW p \in Person, NEW t \in Token, PlatformLogin(p, t)
  PROVE  Inv' /\ RowsStay
<1>1. /\ account' = [account EXCEPT ![p] = Found(p)] /\ session[t] = NoSession
      /\ session' = (IF Found(p).active THEN Issued(t, p, TRUE, NoToken) ELSE session)
      /\ waiting' = waiting /\ UNCHANGED platformVars
  BY DEF PlatformLogin
<1>2. /\ Found(p) \in Row /\ GoodRow(Found(p)) /\ Found(p) # NoRow
      /\ account[p] # NoRow => Found(p) = account[p]
      /\ account[p] = NoRow => Found(p) = Shadow
  BY FoundRow, RowFacts DEF Inv
<1>3. /\ account \in [Person -> Row \cup {NoRow}]
      /\ account' \in [Person -> Row \cup {NoRow}]
      /\ \A q \in Person : account[q] # NoRow => account'[q] = account[q]
      /\ \A q \in Person : q # p => account'[q] = account[q]
      /\ account'[p] = Found(p)
  BY <1>1, <1>2 DEF Inv, TypeOK
<1>4. RowsStay
  BY <1>3 DEF RowsStay, Managed
<1>5. /\ session' \in [Token -> Session \cup {NoSession}]
      /\ \A u \in Token : session[u] # NoSession => session'[u] = session[u]
      /\ \A u \in Token : session'[u] # NoSession /\ session[u] = NoSession =>
           session'[u].who = p /\ Found(p).active
  <2>1. CASE Found(p).active
    <3>1. PICK grants \in BOOLEAN : session' = Issued(t, p, grants, NoToken)
      BY <1>1, <2>1
    <3>2. TypeOK /\ NoToken \in Token \cup {NoToken}
      BY DEF Inv
    <3>3. /\ session' \in [Token -> Session \cup {NoSession}]
          /\ session'[t].who = p /\ \A u \in Token \ {t} : session'[u] = session[u]
      BY <3>1, <3>2, IssuedFacts
    <3>4. QED
      BY <1>1, <2>1, <3>3
  <2>2. CASE ~Found(p).active
    BY <1>1, <2>2 DEF Inv, TypeOK
  <2>3. QED
    BY <2>1, <2>2
<1>6. TypeOK'
  <2>1. \A q \in Person : GoodRow(account'[q])
    BY <1>2, <1>3, TypedByRows DEF Inv
  <2>2. QED
    BY <1>1, <1>3, <1>5, <2>1 DEF TypeOK, GoodRow, Inv, platformVars
<1>7. AdminsAreOurs'
  BY <1>2, <1>3 DEF Inv, AdminsAreOurs, Shadow
<1>8. AdminCanSignIn'
  BY <1>3, SomeAdmin, AdminLeft DEF Admins
<1>9. \A u \in Token : session[u] # NoSession => session[u].who \in Person
  BY DEF Inv, TypeOK, Session
<1>10. SessionsExist'
  BY <1>2, <1>3, <1>5, <1>9 DEF Inv, SessionsExist
<1>11. WaitingManaged'
  <2>1. \A w \in Worker : waiting[w] # NoToken => waiting[w] \in Token
    BY DEF Inv, TypeOK
  <2>2. SUFFICES ASSUME NEW w \in Worker, waiting[w] # NoToken
                 PROVE  (session[waiting[w]] # NoSession /\ Managed(session[waiting[w]].who))'
    BY <1>1 DEF WaitingManaged
  <2>3. session[waiting[w]] # NoSession /\ Managed(session[waiting[w]].who)
    BY <2>2 DEF Inv, WaitingManaged
  <2>4. QED
    BY <1>1, <1>3, <1>5, <1>9, <2>1, <2>2, <2>3 DEF Managed
<1>12. NoSessionSleeps'
  BY <1>2, <1>3, <1>5, <1>9 DEF Inv, NoSessionSleeps, SessionsExist
<1>13. QED
  BY <1>4, <1>6, <1>7, <1>8, <1>10, <1>11, <1>12 DEF Inv

\* _revoke_sessions ends what one account has and leaves the others theirs.
LEMMA RevokedFacts ==
  ASSUME TypeOK, NEW p \in Person
  PROVE  /\ Revoked(p) \in [Token -> Session \cup {NoSession}]
         /\ \A t \in Token : session[t] = NoSession => Revoked(p)[t] = NoSession
         /\ \A t \in Token : session[t] # NoSession =>
              /\ Revoked(p)[t] # NoSession /\ Revoked(p)[t].who = session[t].who
              /\ IF session[t].who = p THEN ~Revoked(p)[t].live
                                       ELSE Revoked(p)[t] = session[t]
<1>1. \A t \in Token : session[t] # NoSession => session[t] \in Session
  BY DEF TypeOK
<1>2. \A t \in Token : session[t] # NoSession =>
        /\ [session[t] EXCEPT !.live = FALSE] \in Session
        /\ [session[t] EXCEPT !.live = FALSE].who = session[t].who
        /\ [session[t] EXCEPT !.live = FALSE].live = FALSE
  BY <1>1 DEF Session
<1>3. QED
  BY <1>1, <1>2, RowFacts DEF Revoked, TypeOK

\* A step of administration that ends the sessions of the account it changes.
LEMMA RevokingStep ==
  ASSUME Inv, NEW p \in Person, Local(p), NEW row \in Row, GoodRow(row),
         row.id = account[p].id, row.role = account[p].role, row.password,
         account' = [account EXCEPT ![p] = row], session' = Revoked(p),
         waiting' = waiting, UNCHANGED platformVars, AdminCanSignIn'
  PROVE  Inv' /\ RowsStay
<1>1. /\ account[p] # NoRow /\ account[p].password /\ row # NoRow
      /\ account \in [Person -> Row \cup {NoRow}]
      /\ account' \in [Person -> Row \cup {NoRow}]
      /\ account'[p] = row
      /\ \A q \in Person : q # p => account'[q] = account[q]
  BY RowFacts DEF Inv, TypeOK, Local
<1>2. RowsStay
  BY <1>1 DEF RowsStay, Managed
<1>3. /\ session' \in [Token -> Session \cup {NoSession}]
      /\ \A t \in Token : session'[t] # NoSession <=> session[t] # NoSession
      /\ \A t \in Token : session[t] # NoSession =>
           /\ session'[t].who = session[t].who
           /\ IF session[t].who = p THEN ~session'[t].live ELSE session'[t] = session[t]
  BY RevokedFacts DEF Inv
<1>4. TypeOK'
  <2>1. \A q \in Person : GoodRow(account'[q])
    BY <1>1, TypedByRows DEF Inv
  <2>2. QED
    BY <1>1, <1>3, <2>1 DEF TypeOK, GoodRow, Inv, platformVars
<1>5. AdminsAreOurs'
  BY <1>1 DEF Inv, AdminsAreOurs
<1>6. \A t \in Token : session[t] # NoSession => session[t].who \in Person
  BY DEF Inv, TypeOK, Session
<1>7. SessionsExist'
  BY <1>1, <1>3, <1>6 DEF Inv, SessionsExist
<1>8. WaitingManaged'
  <2>1. \A w \in Worker : waiting[w] # NoToken => waiting[w] \in Token
    BY DEF Inv, TypeOK
  <2>2. QED
    BY <1>1, <1>3, <1>6, <2>1 DEF Inv, WaitingManaged, Managed
<1>9. NoSessionSleeps'
  BY <1>1, <1>3, <1>6 DEF Inv, NoSessionSleeps
<1>10. QED
  BY <1>2, <1>4, <1>5, <1>7, <1>8, <1>9 DEF Inv

-----------------------------------------------------------------------------
\* Administration: what is changed is an account with a password.
LEMMA AdminSteps ==
  ASSUME Inv, NEW p \in Person,
         \/ \E r \in Role : SetRole(p, r) \/ \E L \in SUBSET Site : CreateUser(p, r, L)
         \/ \E L \in SUBSET Site : SetSites(p, L)
         \/ Deactivate(p) \/ Activate(p) \/ NewPassword(p)
  PROVE  Inv' /\ RowsStay
<1>0. /\ account \in [Person -> Row \cup {NoRow}] /\ NoRow \notin Row
      /\ \A q \in Person : GoodRow(account[q])
      /\ \A q \in Person : account[q] # NoRow /\ account[q].role = "super" => account[q].password
      /\ staffed \in [Site -> SUBSET Person] /\ enabled \subseteq Person /\ outage \in BOOLEAN
  BY TypedByRows, RowFacts DEF Inv, AdminsAreOurs
\* One row is written, over a row with a password or where there was none.
<1>1. ASSUME NEW row \in Row, GoodRow(row), account' = [account EXCEPT ![p] = row],
             row.password, account[p] # NoRow => row.id = account[p].id /\ account[p].password
      PROVE  /\ account' \in [Person -> Row \cup {NoRow}] /\ RowsStay
             /\ \A q \in Person : GoodRow(account'[q])
             /\ \A q \in Person :
                  account'[q] # NoRow /\ account'[q].role = "super" => account'[q].password
             /\ \A q \in Person : q # p => account'[q] = account[q]
             /\ account'[p] = row
  BY <1>0, <1>1 DEF RowsStay, Managed
<1>2. ASSUME ~LastAdmin(p), \A q \in Person : q # p => account'[q] = account[q]
      PROVE  AdminCanSignIn'
  <2>1. PICK q \in Admins : q # p
    BY <1>2, SomeAdmin DEF LastAdmin
  <2>2. QED
    BY <1>2, <2>1, AdminLeft DEF Admins
<1>3. ASSUME NEW r \in Role, SetRole(p, r) PROVE Inv' /\ RowsStay
  <2> DEFINE L == IF r = "super" THEN {} ELSE account[p].links
             row == [account[p] EXCEPT !.role = r, !.links = L]
  <2>1. /\ account[p] \in Row /\ account[p].password /\ ~LastAdmin(p)
        /\ account' = [account EXCEPT ![p] = row]
    BY <1>0, <1>3 DEF SetRole, Local
  <2>2. /\ row \in Row /\ GoodRow(row) /\ row.id = account[p].id
        /\ row.password = account[p].password /\ row.active = account[p].active
    <3>1. L \in SUBSET Site /\ (r = "super" => L = {})
      BY <2>1 DEF Row
    <3> HIDE DEF L
    <3>2. QED
      BY <1>0, <2>1, <3>1 DEF Row, GoodRow
  <2> HIDE DEF row
  <2>3. QED
    BY <1>0, <1>1, <1>2, <1>3, <2>1, <2>2, AccountsChange DEF SetRole, platformVars
<1>4. ASSUME NEW r \in Role, NEW L \in SUBSET Site, CreateUser(p, r, L) PROVE Inv' /\ RowsStay
  <2> DEFINE row == [id |-> "own", password |-> TRUE, role |-> r, active |-> TRUE, links |-> L]
  <2>1. row \in Row /\ GoodRow(row) /\ row.password
    BY <1>4 DEF CreateUser, Row, GoodRow
  <2>2. account[p] = NoRow /\ account' = [account EXCEPT ![p] = row]
    BY <1>4 DEF CreateUser
  <2> HIDE DEF row
  <2>3. AdminCanSignIn'
    BY <1>1, <2>1, <2>2, SomeAdmin, AdminLeft DEF Admins
  <2>4. QED
    BY <1>0, <1>1, <1>4, <2>1, <2>2, <2>3, AccountsChange DEF CreateUser, platformVars
<1>5. ASSUME NEW L \in SUBSET Site, SetSites(p, L) PROVE Inv' /\ RowsStay
  <2> DEFINE row == [account[p] EXCEPT !.links = L]
  <2>1. /\ account[p] \in Row /\ account[p].password /\ account[p].role # "super"
        /\ account' = [account EXCEPT ![p] = row]
    BY <1>0, <1>5 DEF SetSites, Local
  <2>2. /\ row \in Row /\ GoodRow(row) /\ row.id = account[p].id
        /\ row.password = account[p].password /\ row.active = account[p].active
    BY <1>0, <2>1 DEF Row, GoodRow
  <2> HIDE DEF row
  <2>3. AdminCanSignIn'
    BY <1>1, <2>1, <2>2, SomeAdmin, AdminLeft DEF Admins
  <2>4. QED
    BY <1>0, <1>1, <1>5, <2>1, <2>2, <2>3, AccountsChange DEF SetSites, platformVars
<1>6. ASSUME Deactivate(p) PROVE Inv' /\ RowsStay
  <2> DEFINE row == [account[p] EXCEPT !.active = FALSE]
  <2>1. /\ account[p] \in Row /\ account[p].password /\ ~LastAdmin(p)
        /\ account' = [account EXCEPT ![p] = row]
    BY <1>0, <1>6 DEF Deactivate, Local
  <2>2. /\ row \in Row /\ GoodRow(row) /\ row.id = account[p].id
        /\ row.password /\ row.role = account[p].role
    BY <1>0, <2>1 DEF Row, GoodRow
  <2> HIDE DEF row
  <2>3. AdminCanSignIn'
    BY <1>1, <1>2, <2>1, <2>2
  <2>4. QED
    BY <1>6, <2>1, <2>2, <2>3, RevokingStep DEF Deactivate
<1>7. ASSUME Activate(p) PROVE Inv' /\ RowsStay
  <2> DEFINE row == [account[p] EXCEPT !.active = TRUE]
  <2>1. /\ account[p] \in Row /\ account[p].password
        /\ account' = [account EXCEPT ![p] = row]
    BY <1>0, <1>7 DEF Activate, Local
  <2>2. /\ row \in Row /\ GoodRow(row) /\ row.id = account[p].id
        /\ row.password /\ row.role = account[p].role /\ row.active
    BY <1>0, <2>1 DEF Row, GoodRow
  <2> HIDE DEF row
  <2>3. AdminCanSignIn'
    <3>1. PICK q \in Admins : account[q].password
      BY SomeAdmin
    <3>2. CASE q = p
      BY <1>0, <1>1, <2>1, <2>2, <3>1, <3>2 DEF AdminCanSignIn, Admins
    <3>3. CASE q # p
      BY <1>1, <2>1, <2>2, <3>1, <3>3, AdminLeft DEF Admins
    <3>4. QED
      BY <3>2, <3>3
  <2>4. QED
    BY <1>0, <1>1, <1>7, <2>1, <2>2, <2>3, AccountsChange DEF Activate, platformVars
<1>8. ASSUME NewPassword(p) PROVE Inv' /\ RowsStay
  <2> DEFINE row == [account[p] EXCEPT !.password = TRUE]
  <2>1. /\ account[p] \in Row /\ account[p].password
        /\ account' = [account EXCEPT ![p] = row]
    BY <1>0, <1>8 DEF NewPassword, Local
  <2>2. /\ row = account[p] /\ account' = account
    BY <1>0, <2>1 DEF Row
  <2>3. AdminCanSignIn'
    BY <2>2 DEF Inv, AdminCanSignIn, Admins
  <2>4. QED
    BY <1>0, <1>8, <2>1, <2>2, <2>3, RevokingStep DEF NewPassword
<1>9. QED
  BY <1>3, <1>4, <1>5, <1>6, <1>7, <1>8

-----------------------------------------------------------------------------
\* Every row a step of the platform's leaves is the one it found, what a sync
\* makes of it, or one of those without some sites.
ByThePlatform(p, row) ==
  \/ row = account[p]
  \/ (account[p] = NoRow \/ account[p].role # "super") /\
       \/ row = Adopted(p)
       \/ \E s \in Site : row = Mirrored(p, s)

\* What makes such a row one the invariant allows.
AllowedRow(p, new) ==
  /\ new \in Row \cup {NoRow} /\ GoodRow(new)
  /\ new # NoRow /\ new.role = "super" => new.password
  /\ account[p] # NoRow =>
       /\ new # NoRow /\ new.id = account[p].id
       /\ Managed(p) => ~new.password
       /\ account[p].active => new.active \/ ~new.password

LEMMA PlatformRows ==
  ASSUME Inv, NEW p \in Person, NEW row, ByThePlatform(p, row)
  PROVE  /\ AllowedRow(p, row)
         /\ row # NoRow => \A gone \in SUBSET Site : AllowedRow(p, [row EXCEPT !.links = @ \ gone])
<1>0. GoodRow(account[p]) /\ account[p] \in Row \cup {NoRow} /\ NoRow \notin Row
  BY TypedByRows, RowFacts DEF Inv
<1>1. AllowedRow(p, row)
  <2>1. CASE row = account[p]
    BY <1>0, <2>1 DEF Inv, AdminsAreOurs, Managed, AllowedRow
  <2>2. CASE row = Adopted(p) /\ (account[p] = NoRow \/ account[p].role # "super")
    <3>1. /\ Adopted(p) \in Row /\ GoodRow(Adopted(p)) /\ ~Adopted(p).password
          /\ Adopted(p).id = Found(p).id /\ Adopted(p).role = Found(p).role
          /\ account[p] # NoRow => Found(p) = account[p]
          /\ account[p] = NoRow => Found(p) = Shadow
      <4>1. TypeOK /\ Found(p) \in Row /\ GoodRow(Found(p))
        BY FoundRow DEF Inv
      <4>2. QED
        BY <4>1, FoundRow, RowFacts DEF Adopted, Row, GoodRow
    <3>2. Shadow.role # "super"
      BY DEF Shadow
    <3>3. QED
      BY <1>0, <2>2, <3>1, <3>2 DEF AllowedRow
  <2>3. ASSUME NEW s \in Site, row = Mirrored(p, s) PROVE AllowedRow(p, row)
    BY <1>0, <2>3, MadeRows, FoundRow DEF Inv, AllowedRow
  <2>4. QED
    BY <2>1, <2>2, <2>3 DEF ByThePlatform
<1>2. ASSUME row # NoRow, NEW gone \in SUBSET Site
      PROVE  AllowedRow(p, [row EXCEPT !.links = @ \ gone])
  <2>1. row \in Row /\ GoodRow(row)
    BY <1>1, <1>2 DEF AllowedRow
  <2>2. PICK new : new = [row EXCEPT !.links = @ \ gone]
    OBVIOUS
  <2>3. /\ new \in Row /\ new # NoRow /\ GoodRow(new) /\ new.id = row.id
        /\ new.role = row.role /\ new.active = row.active /\ new.password = row.password
    BY <1>0, <2>1, <2>2 DEF Row, GoodRow
  <2>4. QED
    BY <1>1, <1>2, <2>2, <2>3 DEF AllowedRow
<1>3. QED
  BY <1>1, <1>2

LEMMA AllowedChange ==
  ASSUME Inv, account' = [p \in Person |-> account'[p]],
         \A p \in Person : AllowedRow(p, account'[p]),
         \A p \in Person : account[p] # NoRow /\ account[p].role = "super" =>
           account'[p] = account[p],
         session' = session, waiting' = waiting,
         staffed' \in [Site -> SUBSET Person], enabled' \subseteq Person, outage' \in BOOLEAN
  PROVE  Inv' /\ RowsStay
<1>1. /\ account' \in [Person -> Row \cup {NoRow}]
      /\ \A p \in Person : GoodRow(account'[p])
      /\ \A p \in Person : account'[p] # NoRow /\ account'[p].role = "super" => account'[p].password
      /\ \A p \in Person : account[p] # NoRow /\ account[p].active =>
           account'[p].active \/ ~account'[p].password
  BY DEF AllowedRow
<1>2. RowsStay
  BY DEF AllowedRow, RowsStay
<1>3. AdminCanSignIn'
  BY SomeAdmin, AdminLeft DEF Admins
<1>4. QED
  BY <1>1, <1>2, <1>3, AccountsChange

LEMMA PlatformSteps ==
  ASSUME Inv,
         \/ \E s \in Site :
              \/ Sync(s) \/ ListStaff(s)
              \/ \E reached \in SUBSET staffed[s], at \in staffed[s] : SyncCut(s, reached, at)
              \/ \E p \in Person : Staff(s, p)
         \/ \E p \in Person : Enable(p)
         \/ Flip
  PROVE  Inv' /\ RowsStay
<1>0. /\ account = [p \in Person |-> account[p]]
      /\ staffed \in [Site -> SUBSET Person] /\ enabled \subseteq Person /\ outage \in BOOLEAN
  BY DEF Inv, TypeOK
<1>1. ASSUME NEW s \in Site, Sync(s) PROVE Inv' /\ RowsStay
  <2> DEFINE named == Unprotected(staffed[s])
             stale == Stale(s, named \cap enabled)
             row(p) == IF p \in named THEN Mirrored(p, s) ELSE account[p]
  <2>1. account' = [p \in Person |-> IF p \in stale THEN [row(p) EXCEPT !.links = @ \ {s}]
                                     ELSE row(p)]
    BY <1>1 DEF Sync
  <2>2. \A p \in Person : p \in named \/ p \in stale => account[p] = NoRow \/ account[p].role # "super"
    BY DEF Unprotected, Stale
  <2>3. \A p \in Person : ByThePlatform(p, row(p))
    BY <2>2 DEF ByThePlatform
  <2>4. \A p \in Person : AllowedRow(p, account'[p])
    <3>1. SUFFICES ASSUME NEW p \in Person PROVE AllowedRow(p, account'[p])
      OBVIOUS
    <3>2. CASE p \in stale
      <4>1. ByThePlatform(p, row(p)) /\ account[p] # NoRow
        BY <2>3, <3>2 DEF Stale
      <4>2. AllowedRow(p, row(p))
        BY <4>1, PlatformRows
      <4>3. row(p) # NoRow /\ {s} \in SUBSET Site
        BY <4>1, <4>2 DEF AllowedRow
      <4>4. AllowedRow(p, [row(p) EXCEPT !.links = @ \ {s}])
        BY <4>1, <4>3, PlatformRows
      <4>5. account'[p] = [row(p) EXCEPT !.links = @ \ {s}]
        BY <2>1, <3>2
      <4>6. QED
        BY <4>4, <4>5
    <3>3. CASE p \notin stale
      <4>1. account'[p] = row(p) /\ ByThePlatform(p, row(p))
        BY <2>1, <2>3, <3>3
      <4>2. QED
        BY <4>1, PlatformRows
    <3>4. QED
      BY <3>2, <3>3
  <2>5. \A p \in Person : account[p] # NoRow /\ account[p].role = "super" =>
          account'[p] = account[p]
    BY <2>1, <2>2
  <2>6. account' = [p \in Person |-> account'[p]]
    BY <2>1
  <2>7. QED
    BY <1>0, <1>1, <2>4, <2>5, <2>6, AllowedChange DEF Sync, platformVars
<1>2. ASSUME NEW s \in Site, ListStaff(s) PROVE Inv' /\ RowsStay
  <2> DEFINE shown == Unprotected(staffed[s] \cap enabled)
  <2>1. account' = [p \in Person |-> IF p \in shown THEN Adopted(p) ELSE account[p]]
    BY <1>2 DEF ListStaff
  <2>2. \A p \in shown : account[p] = NoRow \/ account[p].role # "super"
    BY DEF Unprotected
  <2>3. \A p \in Person : ByThePlatform(p, account'[p])
    BY <2>1, <2>2 DEF ByThePlatform
  <2>4. \A p \in Person : AllowedRow(p, account'[p])
    BY <2>3, PlatformRows
  <2>5. QED
    BY <1>0, <1>2, <2>1, <2>2, <2>4, AllowedChange DEF ListStaff, platformVars
<1>3. ASSUME NEW s \in Site, NEW reached \in SUBSET staffed[s], NEW at \in staffed[s],
             SyncCut(s, reached, at)
      PROVE  Inv' /\ RowsStay
  <2>1. account' = [p \in Person |->
          IF p \in Unprotected(reached) THEN Mirrored(p, s)
          ELSE IF p \in Unprotected({at}) THEN Adopted(p) ELSE account[p]]
    BY <1>3 DEF SyncCut
  <2>2. \A p \in Unprotected(reached) \cup Unprotected({at}) :
          account[p] = NoRow \/ account[p].role # "super"
    BY DEF Unprotected
  <2>3. \A p \in Person : ByThePlatform(p, account'[p])
    BY <2>1, <2>2 DEF ByThePlatform
  <2>4. \A p \in Person : AllowedRow(p, account'[p])
    BY <2>3, PlatformRows
  <2>5. QED
    BY <1>0, <1>3, <2>1, <2>2, <2>4, AllowedChange DEF SyncCut
<1>4. ASSUME \/ \E s \in Site, p \in Person : Staff(s, p)
             \/ \E p \in Person : Enable(p)
             \/ Flip
      PROVE  Inv' /\ RowsStay
  <2>1. /\ account' = account /\ session' = session /\ waiting' = waiting
        /\ staffed' \in [Site -> SUBSET Person] /\ enabled' \subseteq Person /\ outage' \in BOOLEAN
    <3>1. ASSUME NEW s \in Site, NEW p \in Person, Staff(s, p) PROVE <2>1
      <4>1. (IF p \in staffed[s] THEN staffed[s] \ {p} ELSE staffed[s] \cup {p}) \in SUBSET Person
        BY <1>0
      <4>2. QED
        BY <1>0, <3>1, <4>1 DEF Staff
    <3>2. ASSUME NEW p \in Person, Enable(p) PROVE <2>1
      BY <1>0, <3>2 DEF Enable
    <3>3. CASE Flip
      BY <1>0, <3>3 DEF Flip
    <3>4. QED
      BY <1>4, <3>1, <3>2, <3>3
  <2>2. \A p \in Person : ByThePlatform(p, account'[p])
    BY <2>1 DEF ByThePlatform
  <2>3. \A p \in Person : AllowedRow(p, account'[p])
    BY <2>2, PlatformRows
  <2>4. QED
    BY <1>0, <2>1, <2>3, AllowedChange
<1>5. QED
  BY <1>1, <1>2, <1>3, <1>4

-----------------------------------------------------------------------------
LEMMA Inductive == ASSUME Inv, [Next]_vars PROVE Inv' /\ RowsStay
<1>1. CASE UNCHANGED vars
  <2>1. Inv'
    BY <1>1 DEF vars, Inv, TypeOK, AdminsAreOurs, SessionsExist, WaitingManaged, AdminCanSignIn,
                NoSessionSleeps, Admins, Managed
  <2>2. QED
    BY <1>1, <2>1 DEF vars, RowsStay, Managed
<1>2. ASSUME \/ \E p \in Person, t \in Token : LocalLogin(p, t)
             \/ \E old, t \in Token : RefreshLocal(old, t)
             \/ \E w \in Worker, t \in Token : LookUp(w, t) \/ Renew(w, t)
             \/ \E w \in Worker : RenewRefused(w)
             \/ \E t \in Token : Logout(t)
      PROVE  Inv' /\ RowsStay
  <2>1. Inv' /\ account' = account
    BY <1>2, SessionSteps
  <2>2. QED
    BY <2>1 DEF RowsStay, Managed
<1>3. QED
  BY <1>1, <1>2, PlatformLoginStep, AdminSteps, PlatformSteps DEF Next

LEMMA Initially == Init => Inv
<1> SUFFICES ASSUME Init PROVE Inv
  OBVIOUS
<1>1. TypeOK /\ AdminsAreOurs
  BY AccountsAssumption DEF Init, TypeOK, AdminsAreOurs, Row, Role, NoRow
<1>2. SessionsExist /\ WaitingManaged /\ NoSessionSleeps
  BY DEF Init, SessionsExist, WaitingManaged, NoSessionSleeps
<1>3. AdminCanSignIn
  <2>1. Boss \in Admins /\ account[Boss].password
    BY AccountsAssumption DEF Init, Admins, NoRow
  <2>2. QED
    BY <2>1 DEF AdminCanSignIn
<1>4. QED
  BY <1>1, <1>2, <1>3 DEF Inv

LEMMA Invariance == Spec => []Inv
<1>1. Inv /\ [Next]_vars => Inv'
  BY Inductive
<1>2. QED
  BY Initially, <1>1, PTL DEF Spec

\* Every account, session and renewal is one the code can hold.
THEOREM TypeCorrect == Spec => []TypeOK
BY Invariance, PTL DEF Inv

\* Whatever the platform lists, forgets or gives out, and whatever is
\* administered, some administrator can sign in by a password kept here.
THEOREM AlwaysAnAdmin == Spec => []AdminCanSignIn
BY Invariance, PTL DEF Inv

\* No deactivated account of E&M's own has a session to renew.
THEOREM SessionsEndWithAccounts == Spec => []NoSessionSleeps
BY Invariance, PTL DEF Inv

\* A row is one person's for good, and what the platform adopted stays its own.
THEOREM OnePersonOneAccount == Spec => AdoptedForGood
<1>1. Inv /\ [Next]_vars => [\A p \in Person : account[p] # NoRow =>
        /\ account'[p] # NoRow /\ account'[p].id = account[p].id
        /\ Managed(p) => ~account'[p].password]_vars
  BY Inductive DEF RowsStay
<1>2. QED
  BY <1>1, Invariance, PTL DEF Spec, AdoptedForGood

\* A sync leaves exactly the staffed people their site, and nobody else's
\* account changed.
THEOREM SyncIsAMirror == Spec => SyncReconciles
<1> DEFINE Exact(s, p) ==
             /\ account'[p] # NoRow /\ ~account'[p].password /\ account'[p].role # "super" =>
                  (s \in account'[p].links <=> p \in staffed[s] \cap enabled)
             /\ Local(p) /\ (p \notin staffed[s] \/ account[p].role = "super") =>
                  account'[p] = account[p]
<1>1. ASSUME Inv, NEW s \in Site, Sync(s), NEW p \in Person PROVE Exact(s, p)
  <2> DEFINE named == Unprotected(staffed[s])
             stale == Stale(s, named \cap enabled)
             row == IF p \in named THEN Mirrored(p, s) ELSE account[p]
  <2>1. account'[p] = IF p \in stale THEN [row EXCEPT !.links = @ \ {s}] ELSE row
    BY <1>1 DEF Sync
  <2>2. /\ account[p] \in Row \cup {NoRow} /\ NoRow \notin Row
        /\ Mirrored(p, s) \in Row /\ Mirrored(p, s).role = RoleAt[p]
        /\ Mirrored(p, s).links = Found(p).links \cup (IF p \in enabled THEN {s} ELSE {})
        /\ account[p] = NoRow => Found(p) = Shadow
        /\ Shadow.links = {}
    BY <1>1, MadeRows, FoundRow, RowFacts DEF Inv, TypeOK, Shadow
  <2>3. p \in named <=> p \in staffed[s] /\ (account[p] = NoRow \/ account[p].role # "super")
    BY <1>1 DEF Unprotected, Inv, TypeOK
  <2>4. p \in stale <=> /\ p \notin named \cap enabled /\ account[p] # NoRow
                        /\ account[p].role # "super" /\ (Managed(p) \/ p \in staffed[s])
    BY DEF Stale
  <2> HIDE DEF named, stale
  <2>5. CASE p \in named
    <3>1. CASE p \in stale
      <4>1. s \notin account'[p].links /\ p \notin enabled /\ account[p].role # "super"
            /\ p \in staffed[s]
        BY <2>1, <2>2, <2>3, <2>4, <2>5, <3>1 DEF Row
      <4>2. QED
        BY <4>1
    <3>2. CASE p \notin stale
      <4>1. account'[p] = Mirrored(p, s) /\ (p \in enabled \/ account[p] = NoRow)
        BY <2>1, <2>3, <2>4, <2>5, <3>2
      <4>2. s \in account'[p].links <=> p \in enabled
        BY <2>2, <4>1
      <4>3. QED
        BY <2>3, <2>5, <4>2 DEF Local
    <3>3. QED
      BY <3>1, <3>2
  <2>6. CASE p \notin named
    <3>1. CASE p \in stale
      <4>1. /\ p \notin staffed[s] /\ Managed(p) /\ account[p] \in Row
            /\ account'[p] = [account[p] EXCEPT !.links = @ \ {s}]
        BY <2>1, <2>2, <2>3, <2>4, <2>6, <3>1
      <4>2. s \notin account'[p].links
        BY <4>1 DEF Row
      <4>3. QED
        BY <4>1, <4>2 DEF Managed, Local
    <3>2. CASE p \notin stale
      <4>1. account'[p] = account[p]
        BY <2>1, <2>6, <3>2
      <4>2. account[p] = NoRow \/ account[p].role = "super" \/ account[p].password
        BY <2>3, <2>4, <2>6, <3>2 DEF Managed
      <4>3. QED
        BY <4>1, <4>2
    <3>3. QED
      BY <3>1, <3>2
  <2>7. QED
    BY <2>5, <2>6
<1>2. Inv /\ [Next]_vars => [\A s \in Site : Sync(s) => \A p \in Person : Exact(s, p)]_vars
  BY <1>1
<1>3. QED
  BY <1>2, Invariance, PTL DEF Spec, SyncReconciles

\* A sync broken off takes no site from anybody.
THEOREM OutageTakesNothing == Spec => CutShortDropsNobody
<1>1. ASSUME Inv, NEW s \in Site, NEW reached \in SUBSET staffed[s], NEW at \in staffed[s],
             SyncCut(s, reached, at), NEW p \in Person, account[p] # NoRow
      PROVE  account[p].links \subseteq account'[p].links
  <2>1. account'[p] = IF p \in Unprotected(reached) THEN Mirrored(p, s)
                      ELSE IF p \in Unprotected({at}) THEN Adopted(p) ELSE account[p]
    BY <1>1 DEF SyncCut
  <2>2. QED
    BY <1>1, <2>1, MadeRows, FoundRow DEF Inv
<1>2. Inv /\ [Next]_vars =>
        [\A s \in Site : (\E reached \in SUBSET staffed[s], at \in staffed[s] : SyncCut(s, reached, at)) =>
           \A p \in Person : account[p] # NoRow => account[p].links \subseteq account'[p].links]_vars
  BY <1>1
<1>3. QED
  BY <1>2, Invariance, PTL DEF Spec, CutShortDropsNobody
=============================================================================
