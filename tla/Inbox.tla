------------------------------- MODULE Inbox -------------------------------
(***************************************************************************)
(* Notifications: the inbox of a person and the phones it is pushed to.    *)
(*                                                                         *)
(* fan_out writes a row for every recipient, sends one push to the phones  *)
(* they are signed in on, and takes phones Firebase no longer knows off    *)
(* the list, all in the transaction of the event itself: what it looked up *)
(* may have changed when it commits, and a push cannot be taken back.      *)
(***************************************************************************)
EXTENDS Integers, FiniteSets

CONSTANTS
  Person,
  Phone,      \* a registration token of Firebase
  News,       \* events that notify: breakdowns opened, resolved, overdue
  Audience,   \* whom an event concerns
  MaxWork     \* bound: requests ever made

Nobody == "nobody"

VARIABLES
  phone,    \* device_tokens: whose it is and is_active
  gone,     \* phones whose token Firebase has dropped
  calls,    \* sign-outs a client sent and the server has not served yet
  left,     \* people who signed out of a phone since they signed in on it
  inbox,    \* notifications: who has which, read or not
  fan,      \* the transaction of each event
  told,     \* pushes that reached a phone, for whom
  work

vars == <<phone, gone, calls, left, inbox, fan, told, work>>

Mail == {"unread", "read", "none"}
Fan == [stage : {"idle", "written", "pushed", "done", "failed"},
        to : SUBSET Person, dead : SUBSET Phone]

TypeOK ==
  /\ phone \in [Phone -> [owner : Person \cup {Nobody}, active : BOOLEAN]]
  /\ gone \subseteq Phone
  /\ calls \subseteq Person \X Phone /\ left \subseteq Person \X Phone
  /\ inbox \in [Person \X News -> Mail]
  /\ fan \in [News -> Fan]
  /\ told \subseteq Person \X Phone \X News
  /\ work \in 0..MaxWork

Counted == work < MaxWork /\ work' = work + 1

-----------------------------------------------------------------------------
(* Phones.                                                                 *)
\* POST /devices/token: the token now belongs to whoever registers it.
Register(p, d) ==
  /\ Counted
  /\ d \notin gone
  /\ phone' = [phone EXCEPT ![d] = [owner |-> p, active |-> TRUE]]
  /\ left' = left \ {<<p, d>>}
  /\ UNCHANGED <<gone, calls, inbox, fan, told>>

\* A person signs out of the phone; the call may arrive much later.
SignOut(p, d) ==
  /\ phone[d].owner = p /\ <<p, d>> \notin left
  /\ calls' = calls \cup {<<p, d>>}
  /\ left' = left \cup {<<p, d>>}
  /\ UNCHANGED <<phone, gone, inbox, fan, told, work>>

\* DELETE /devices/token, of the caller's own row only.
Unregistered(p, d) ==
  IF phone[d].owner = p THEN [phone EXCEPT ![d].active = FALSE] ELSE phone
Unregister(p, d) ==
  /\ <<p, d>> \in calls
  /\ calls' = calls \ {<<p, d>>}
  /\ phone' = Unregistered(p, d)
  /\ UNCHANGED <<gone, left, inbox, fan, told, work>>

\* The app is removed: Firebase drops the token for good.
Uninstall(d) ==
  /\ Counted
  /\ d \notin gone /\ phone[d].owner # Nobody
  /\ gone' = gone \cup {d}
  /\ UNCHANGED <<phone, calls, left, inbox, fan, told>>

-----------------------------------------------------------------------------
(* fan_out.                                                                *)
Begin(n) ==
  /\ Counted
  /\ fan[n].stage = "idle"
  /\ \E actor \in Person :
       fan' = [fan EXCEPT ![n] = [stage |-> "written", to |-> Audience[n] \ {actor}, dead |-> {}]]
  /\ UNCHANGED <<phone, gone, calls, left, inbox, told>>

\* One multicast to the phones on the list now.
\* Broken: to every phone of the person, signed out or not.
TokensEver(P) == {d \in Phone : phone[d].owner \in P}
Tokens(P) == {d \in Phone : phone[d].owner \in P /\ phone[d].active}
Push(n) ==
  /\ fan[n].stage = "written"
  /\ LET D == Tokens(fan[n].to)
     IN  \* Firebase refuses what it dropped; the call may fail whole.
         \E reached \in {D \ gone, {}} :
           /\ told' = told \cup {<<phone[d].owner, d, n>> : d \in reached}
           /\ fan' = [fan EXCEPT ![n].stage = "pushed",
                                 ![n].dead = IF reached = {} THEN {} ELSE D \cap gone]
  /\ UNCHANGED <<phone, gone, calls, left, inbox, work>>

\* The commit of the event: rows, and tokens off the list.
Commit(n) ==
  /\ fan[n].stage = "pushed"
  /\ inbox' = [m \in Person \X News |->
                 IF m[2] = n /\ m[1] \in fan[n].to THEN "unread" ELSE inbox[m]]
  /\ phone' = [d \in Phone |-> IF d \in fan[n].dead
                                 THEN [phone[d] EXCEPT !.active = FALSE] ELSE phone[d]]
  /\ fan' = [fan EXCEPT ![n].stage = "done"]
  /\ UNCHANGED <<gone, calls, left, told, work>>
Fail(n) ==
  /\ fan[n].stage \in {"written", "pushed"}
  /\ fan' = [fan EXCEPT ![n].stage = "failed"]
  /\ UNCHANGED <<phone, gone, calls, left, inbox, told, work>>

-----------------------------------------------------------------------------
(* Reading.                                                                *)
Opened(p, N) ==
  [m \in Person \X News |->
     IF m[1] = p /\ m[2] \in N /\ inbox[m] = "unread" THEN "read" ELSE inbox[m]]
MarkRead(p, n) ==
  /\ inbox[<<p, n>>] = "unread"
  /\ inbox' = Opened(p, {n})
  /\ UNCHANGED <<phone, gone, calls, left, fan, told, work>>
MarkAllRead(p) ==
  /\ \E n \in News : inbox[<<p, n>>] = "unread"
  /\ inbox' = Opened(p, News)
  /\ UNCHANGED <<phone, gone, calls, left, fan, told, work>>

Init ==
  /\ phone = [d \in Phone |-> [owner |-> Nobody, active |-> FALSE]]
  /\ gone = {} /\ calls = {} /\ left = {}
  /\ inbox = [m \in Person \X News |-> "none"]
  /\ fan = [n \in News |-> [stage |-> "idle", to |-> {}, dead |-> {}]]
  /\ told = {} /\ work = 0

Next ==
  \/ \E p \in Person, d \in Phone : Register(p, d) \/ SignOut(p, d) \/ Unregister(p, d)
  \/ \E d \in Phone : Uninstall(d)
  \/ \E n \in News : Begin(n) \/ Push(n) \/ Commit(n) \/ Fail(n)
  \/ \E p \in Person : MarkAllRead(p) \/ \E n \in News : MarkRead(p, n)

Spec == Init /\ [][Next]_vars

-----------------------------------------------------------------------------
\* A phone falls silent only because Firebase dropped it or because the person
\* it belongs to signed out on it: not for the late sign-out of someone who had
\* it before, nor for a push that was under way.
NobodyElseIsSilenced ==
  [][\A d \in Phone :
       phone[d].active /\ ~phone'[d].active =>
         d \in gone \/ <<phone[d].owner, d>> \in left \/ <<phone[d].owner, d>> \in calls]_vars

\* Whoever's phone was told of an event that stands finds it in the inbox.
ToldIsKept ==
  \A t \in told : fan[t[3]].stage = "done" => inbox[<<t[1], t[3]>>] # "none"

\* A phone rings for nobody who had signed out of it before the push, once the
\* server has heard of it.
SignedOutIsSilent ==
  [][\A t \in told' \ told : <<t[1], t[2]>> \in left => <<t[1], t[2]>> \in calls]_vars
=============================================================================
