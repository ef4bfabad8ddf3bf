------------------------------ MODULE Accounts ------------------------------
(***************************************************************************)
(* Accounts and sessions.  An account is a row of E&M's own with a         *)
(* password, or the shadow of a person of the platform.  A sign-in through *)
(* the platform and every sync of a site look for the shadow, then for a   *)
(* row of the same handle, which they adopt; a sync takes the password of  *)
(* the row it adopts.  A session is a refresh token, spent for the next.   *)
(*                                                                         *)
(* Requests of the database alone are single steps.  A renewal asks the    *)
(* platform between reading the token and spending it, so others get in    *)
(* between.  Who may call what is not modelled.                            *)
(***************************************************************************)
EXTENDS Integers, FiniteSets

CONSTANTS
  Person,    \* people, each with one handle
  Boss,      \* the bootstrap administrator
  Site,
  RoleAt,    \* the role _map_role makes of a person's roles at the platform
  Token,     \* bound: refresh tokens ever issued
  Worker,    \* renewals that may be waiting for the platform
  NoToken

Role == {"super", "manager", "executive"}

ASSUME AccountsAssumption ==
  /\ Boss \in Person /\ NoToken \notin Token
  /\ RoleAt \in [Person -> Role \ {"super"}]

VARIABLES
  account,   \* users and user_site_access
  session,   \* refresh_tokens, and whether the access token issued with one
             \* carries what the platform grants
  waiting,   \* the token each renewal under way has read
  staffed,   \* whom the platform lists for a site
  enabled,   \* whom the platform has as active
  outage     \* the platform does not answer

vars == <<account, session, waiting, staffed, enabled, outage>>
platformVars == <<staffed, enabled, outage>>

NoRow == [id |-> "none"]
Row == [id : {"own", "platform"}, password : BOOLEAN, role : Role,
        active : BOOLEAN, links : SUBSET Site]
NoSession == [who |-> "none"]
Session == [who : Person, live : BOOLEAN, grants : BOOLEAN, after : Token \cup {NoToken}]

TypeOK ==
  /\ account \in [Person -> Row \cup {NoRow}]
  /\ \A p \in Person : account[p] # NoRow =>
       /\ account[p].role = "super" => account[p].links = {}
       /\ account[p].id = "platform" => ~account[p].password
  /\ session \in [Token -> Session \cup {NoSession}]
  /\ waiting \in [Worker -> Token \cup {NoToken}]
  /\ staffed \in [Site -> SUBSET Person] /\ enabled \subseteq Person
  /\ outage \in BOOLEAN

Init ==
  /\ account = [p \in Person |-> IF p = Boss
       THEN [id |-> "own", password |-> TRUE, role |-> "super", active |-> TRUE, links |-> {}]
       ELSE NoRow]
  /\ session = [t \in Token |-> NoSession]
  /\ waiting = [w \in Worker |-> NoToken]
  /\ staffed = [s \in Site |-> {}] /\ enabled = {} /\ outage = FALSE

Local(p) == account[p] # NoRow /\ account[p].password
Managed(p) == account[p] # NoRow /\ ~account[p].password

Shadow == [id |-> "platform", password |-> FALSE, role |-> "executive",
           active |-> TRUE, links |-> {}]
\* ensure_user at a sign-in: the shadow, the row of that handle, or a new one.
Found(p) == IF account[p] = NoRow THEN Shadow ELSE account[p]

-----------------------------------------------------------------------------
(* Sessions.                                                               *)
Issued(t, p, grants, old) ==
  [session EXCEPT ![t] = [who |-> p, live |-> TRUE, grants |-> grants, after |-> old]]

\* _revoke_sessions.
Revoked(p) ==
  [t \in Token |-> IF session[t] # NoSession /\ session[t].who = p
                     THEN [session[t] EXCEPT !.live = FALSE] ELSE session[t]]

\* login and _complete_sso, by the platform's word.
PlatformLogin(p, t) ==
  /\ ~outage /\ p \in enabled /\ session[t] = NoSession
  /\ account' = [account EXCEPT ![p] = Found(p)]
  /\ session' = IF Found(p).active THEN Issued(t, p, TRUE, NoToken) ELSE session
  /\ UNCHANGED <<waiting, platformVars>>

\* login by the password kept here: the platform does not know it, or is down.
LocalLogin(p, t) ==
  /\ Local(p) /\ account[p].active /\ session[t] = NoSession
  /\ session' = Issued(t, p, FALSE, NoToken)
  /\ UNCHANGED <<account, waiting, platformVars>>

Usable(t) == session[t] # NoSession /\ session[t].live /\ account[session[t].who].active

Spend(old, t, grants) ==
  session' = [Issued(t, session[old].who, grants, old) EXCEPT ![old].live = FALSE]

\* refresh of an account with a password: the platform is not asked.
RefreshLocal(old, t) ==
  /\ Usable(old) /\ Local(session[old].who) /\ session[t] = NoSession
  /\ Spend(old, t, FALSE)
  /\ UNCHANGED <<account, waiting, platformVars>>

LookUp(w, old) ==
  /\ waiting[w] = NoToken
  /\ Usable(old) /\ Managed(session[old].who)
  /\ waiting' = [waiting EXCEPT ![w] = old]
  /\ UNCHANGED <<account, session, platformVars>>

\* _regrant answered: it knows people by the id of their shadow.
Renew(w, t) ==
  /\ waiting[w] # NoToken /\ ~outage /\ session[t] = NoSession
  /\ LET old == waiting[w]
         p == session[old].who
     IN  Spend(old, t, account[p].id = "platform" /\ p \in enabled)
  /\ waiting' = [waiting EXCEPT ![w] = NoToken]
  /\ UNCHANGED <<account, platformVars>>
\* "Better a re-login": the token is kept.
RenewRefused(w) ==
  /\ waiting[w] # NoToken /\ outage
  /\ waiting' = [waiting EXCEPT ![w] = NoToken]
  /\ UNCHANGED <<account, session, platformVars>>

Logout(t) ==
  /\ session[t] # NoSession /\ session[t].live
  /\ session' = [session EXCEPT ![t].live = FALSE]
  /\ UNCHANGED <<account, waiting, platformVars>>

-----------------------------------------------------------------------------
(* Administration, of rows with a password only.                           *)
Admins == {p \in Person : account[p] # NoRow /\ account[p].role = "super" /\ account[p].active}

\* _assert_not_last_super_admin.
LastAdmin(p) == Admins = {p}

CreateUser(p, r, L) ==
  /\ account[p] = NoRow
  /\ IF r = "super" THEN L = {} ELSE L # {}
  /\ account' = [account EXCEPT ![p] =
       [id |-> "own", password |-> TRUE, role |-> r, active |-> TRUE, links |-> L]]
  /\ UNCHANGED <<session, waiting, platformVars>>

SetRole(p, r) ==
  /\ Local(p) /\ r # account[p].role /\ ~LastAdmin(p)
  /\ account' = [account EXCEPT ![p].role = r, ![p].links = IF r = "super" THEN {} ELSE @]
  /\ UNCHANGED <<session, waiting, platformVars>>
SetSites(p, L) ==
  /\ Local(p) /\ account[p].role # "super"
  /\ account' = [account EXCEPT ![p].links = L]
  /\ UNCHANGED <<session, waiting, platformVars>>

\* Broken: sessions go on.
DeactivateOnly(p) ==
  /\ Local(p) /\ account[p].active /\ ~LastAdmin(p)
  /\ account' = [account EXCEPT ![p].active = FALSE]
  /\ UNCHANGED <<session, waiting, platformVars>>
Deactivate(p) ==
  /\ Local(p) /\ account[p].active /\ ~LastAdmin(p)
  /\ account' = [account EXCEPT ![p].active = FALSE]
  /\ session' = Revoked(p)
  /\ UNCHANGED <<waiting, platformVars>>
Activate(p) ==
  /\ Local(p)
  /\ account' = [account EXCEPT ![p].active = TRUE]
  /\ UNCHANGED <<session, waiting, platformVars>>
\* reset_password and change_password: every session ends.
NewPassword(p) ==
  /\ Local(p)
  /\ account' = [account EXCEPT ![p].password = TRUE]
  /\ session' = Revoked(p)
  /\ UNCHANGED <<waiting, platformVars>>

-----------------------------------------------------------------------------
(* What the platform's list does to the accounts.                          *)
\* Broken: whoever the list names is adopted.
UnprotectedNone(P) == P
\* SyncProtectedSuperAdmin: an administrator is skipped whole.
Unprotected(P) == {p \in P : account[p] = NoRow \/ account[p].role # "super"}

\* ensure_user of a sync: adopting takes the password.
Adopted(p) == [Found(p) EXCEPT !.password = FALSE]

Mirrored(p, s) ==
  [id |-> Found(p).id, password |-> FALSE, role |-> RoleAt[p], active |-> p \in enabled,
   links |-> Found(p).links \cup (IF p \in enabled THEN {s} ELSE {})]

\* Broken: accounts of E&M's own lose the site too.
StaleEveryone(s, seen) ==
  {p \in Person \ seen : account[p] # NoRow /\ account[p].role # "super"}
\* Links of managed people the list no longer staffs; whoever it names has been
\* adopted by then.
Stale(s, seen) ==
  {p \in Person \ seen : /\ account[p] # NoRow /\ account[p].role # "super"
                         /\ Managed(p) \/ p \in staffed[s]}

\* sync_users_from_siteops.
Sync(s) ==
  /\ ~outage
  /\ LET named == Unprotected(staffed[s])
         stale == Stale(s, named \cap enabled)
     IN  account' = [p \in Person |->
           LET row == IF p \in named THEN Mirrored(p, s) ELSE account[p]
           IN  IF p \in stale THEN [row EXCEPT !.links = @ \ {s}] ELSE row]
  /\ UNCHANGED <<session, waiting, platformVars>>

\* The platform goes away while asked for the grants of one of those listed:
\* the night commits what it had done.
SyncCut(s, reached, at) ==
  /\ ~outage /\ at \notin reached
  /\ account' = [p \in Person |->
       IF p \in Unprotected(reached) THEN Mirrored(p, s)
       ELSE IF p \in Unprotected({at}) THEN Adopted(p) ELSE account[p]]
  /\ outage' = TRUE
  /\ UNCHANGED <<session, waiting, staffed, enabled>>

\* _platform_staff: opening the list of names adopts whom it shows.
ListStaff(s) ==
  /\ ~outage
  /\ account' = [p \in Person |-> IF p \in Unprotected(staffed[s] \cap enabled) THEN Adopted(p)
                                  ELSE account[p]]
  /\ UNCHANGED <<session, waiting, platformVars>>

\* The platform's own life.
Staff(s, p) ==
  /\ staffed' = [staffed EXCEPT ![s] = IF p \in @ THEN @ \ {p} ELSE @ \cup {p}]
  /\ UNCHANGED <<account, session, waiting, enabled, outage>>
Enable(p) ==
  /\ enabled' = IF p \in enabled THEN enabled \ {p} ELSE enabled \cup {p}
  /\ UNCHANGED <<account, session, waiting, staffed, outage>>
Flip ==
  /\ outage' = ~outage
  /\ UNCHANGED <<account, session, waiting, staffed, enabled>>

Next ==
  \/ \E p \in Person, t \in Token : PlatformLogin(p, t) \/ LocalLogin(p, t)
  \/ \E old, t \in Token : RefreshLocal(old, t)
  \/ \E w \in Worker, t \in Token : LookUp(w, t) \/ Renew(w, t)
  \/ \E w \in Worker : RenewRefused(w)
  \/ \E t \in Token : Logout(t)
  \/ \E p \in Person :
       \/ \E r \in Role : SetRole(p, r) \/ \E L \in SUBSET Site : CreateUser(p, r, L)
       \/ \E L \in SUBSET Site : SetSites(p, L)
       \/ Deactivate(p) \/ Activate(p) \/ NewPassword(p) \/ Enable(p)
  \/ \E s \in Site :
       \/ Sync(s) \/ ListStaff(s)
       \/ \E reached \in SUBSET staffed[s], at \in staffed[s] : SyncCut(s, reached, at)
       \/ \E p \in Person : Staff(s, p)
  \/ Flip

Spec == Init /\ [][Next]_vars

-----------------------------------------------------------------------------
\* "The one account that has to survive SiteOps being wrong or unreachable":
\* some administrator can always sign in by a password kept here.
AdminCanSignIn == \E p \in Admins : account[p].password

\* "Deactivation revokes sessions": a deactivated account of E&M's own has no
\* session that could be renewed once it is activated again.
NoSessionSleeps ==
  \A t \in Token : session[t] # NoSession /\ session[t].live =>
    account[session[t].who].active \/ ~account[session[t].who].password

\* A sync leaves a site's managed people exactly those the platform staffs
\* there, and every account of E&M's own that is not listed as it was.
SyncReconciles ==
  [][\A s \in Site : Sync(s) =>
       \A p \in Person :
         /\ account'[p] # NoRow /\ ~account'[p].password /\ account'[p].role # "super" =>
              (s \in account'[p].links <=> p \in staffed[s] \cap enabled)
         /\ Local(p) /\ (p \notin staffed[s] \/ account[p].role = "super") =>
              account'[p] = account[p]]_vars

\* A sync the platform broke off takes nobody's site away.
CutShortDropsNobody ==
  [][\A s \in Site : (\E reached \in SUBSET staffed[s], at \in staffed[s] : SyncCut(s, reached, at)) =>
       \A p \in Person : account[p] # NoRow => account[p].links \subseteq account'[p].links]_vars

\* A person is one account: the row of a handle is never replaced by another,
\* and what was adopted stays the platform's.
AdoptedForGood ==
  [][\A p \in Person : account[p] # NoRow =>
       /\ account'[p] # NoRow /\ account'[p].id = account[p].id
       /\ Managed(p) => ~account'[p].password]_vars

-----------------------------------------------------------------------------
(* Statements of the code's comments that do not hold.                     *)

\* "Deactivation revokes sessions immediately": no session of a deactivated
\* account is live.
DeactivationEndsSessions ==
  \A t \in Token : session[t] # NoSession /\ session[t].live => account[session[t].who].active

\* "Refreshing must not be a way to lose" what the platform granted: while it
\* has the person as active, a session it granted is renewed with its grants.
GrantsSurviveRefresh ==
  [][\A t \in Token : session[t] = NoSession /\ session'[t] # NoSession
                      /\ session'[t].after # NoToken /\ session'[t].who \in enabled =>
       (session[session'[t].after].grants => session'[t].grants)]_vars

\* "The presented token is burned, a fresh one is issued": one for one.
SpentOnce ==
  \A t, u \in Token : session[t] # NoSession /\ session[u] # NoSession /\ t # u =>
    session[t].after = NoToken \/ session[t].after # session[u].after
=============================================================================
