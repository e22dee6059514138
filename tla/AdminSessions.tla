---------------------------- MODULE AdminSessions ----------------------------
(***************************************************************************)
(* The administrator's sessions: rows of admin_sessions, each request      *)
(* reading the row, and reading it again to put its end off, with awaits   *)
(* in between where another request may log out.  A row is "fresh" while   *)
(* more than REFRESH_THRESHOLD_HOURS are left, then "old", then "expired". *)
(***************************************************************************)
CONSTANTS
    Sessions,  \* the ids that secrets.token_urlsafe will give, none of them twice
    Browsers   \* requests to the dashboard under way at once

VARIABLES
    rows,   \* admin_sessions, by id
    visit,  \* of each request: the step it is at, its cookie, what it asks for
    given,  \* the ids given out so far
    ended   \* ghost: the sessions whose row create_session or logout deleted

sessionVars == <<rows, visit, given, ended>>

NoVisit == [step |-> "none", cookie |-> "none", asks |-> "none"]

(* The sessions that the database holds from before.                       *)
SessionsInit(before) ==
    /\ rows = [s \in Sessions |-> IF s \in before THEN "fresh" ELSE "none"]
    /\ visit = [b \in Browsers |-> NoVisit]
    /\ given = before /\ ended = {}

(* get_admin_session finds a row that has not expired.                     *)
Valid(s) == s \in Sessions /\ rows[s] \in {"fresh", "old"}

Goes(b, step) == visit' = [visit EXCEPT ![b].step = step]
Answered(b) == visit' = [visit EXCEPT ![b] = NoVisit]

(* POST /admin/login with the right password: the session of the cookie,   *)
(* if the browser sends one, goes before the new one is made.              *)
Login(b, cookie) ==
    /\ visit[b] = NoVisit
    /\ visit' = [visit EXCEPT ![b] =
           [step |-> IF cookie = "none" THEN "create" ELSE "delete",
            cookie |-> cookie, asks |-> "login"]]
    /\ UNCHANGED <<rows, given, ended>>

Create(b) ==
    /\ visit[b].step = "create"
    /\ \E s \in Sessions \ given :
           rows' = [rows EXCEPT ![s] = "fresh"] /\ given' = given \cup {s}
    /\ Answered(b)
    /\ UNCHANGED ended

Delete(b) ==
    /\ visit[b].step = "delete"
    /\ rows' = [rows EXCEPT ![visit[b].cookie] = "none"]
    /\ ended' = ended \cup {visit[b].cookie}
    /\ IF visit[b].asks = "login" THEN Goes(b, "create") ELSE Answered(b)
    /\ UNCHANGED given

(* require_admin_session; an invalid cookie is answered 401 or 302.        *)
Visit(b, cookie, asks) ==
    /\ visit[b] = NoVisit
    /\ Valid(cookie)
    /\ visit' = [visit EXCEPT ![b] = [step |-> "refresh", cookie |-> cookie, asks |-> asks]]
    /\ UNCHANGED <<rows, given, ended>>

Handle(b) == IF visit[b].asks = "logout" THEN Goes(b, "delete") ELSE Answered(b)

Refresh(b) ==
    /\ visit[b].step = "refresh"
    /\ IF rows[visit[b].cookie] = "old" THEN Goes(b, "renew") ELSE Handle(b)
    /\ UNCHANGED <<rows, given, ended>>

(* Mutant: the end put off the way create_admin_session writes, an upsert. *)
RenewedAnew(s) == [rows EXCEPT ![s] = "fresh"]

(* update_admin_session_expiry: an UPDATE, of the row if it is still there *)
(* (expired in the meantime or not).                                       *)
Renewed(s) == IF rows[s] = "none" THEN rows ELSE [rows EXCEPT ![s] = "fresh"]

Renew(b) ==
    /\ visit[b].step = "renew"
    /\ rows' = Renewed(visit[b].cookie)
    /\ Handle(b)
    /\ UNCHANGED <<given, ended>>

Age(s) ==
    /\ Valid(s)
    /\ rows' = [rows EXCEPT ![s] = IF @ = "fresh" THEN "old" ELSE "expired"]
    /\ UNCHANGED <<visit, given, ended>>

SessionWork(browsers, aging) ==
    \/ \E b \in browsers :
           \/ \E cookie \in given \cup {"none"} : Login(b, cookie)
           \/ \E cookie \in given, asks \in {"page", "logout"} : Visit(b, cookie, asks)
           \/ Create(b) \/ Delete(b) \/ Refresh(b) \/ Renew(b)
    \/ \E s \in aging : Age(s)

SessionsTypeOK ==
    /\ rows \in [Sessions -> {"none", "fresh", "old", "expired"}]
    /\ visit \in [Browsers -> [step : {"none", "create", "delete", "refresh", "renew"},
                              cookie : Sessions \cup {"none"},
                              asks : {"none", "login", "page", "logout"}]]
    /\ ended \subseteq given /\ given \subseteq Sessions

(* A session that ended, by a logout or by a new login in its browser,     *)
(* stays ended, whatever requests were reading or prolonging it then.      *)
EndedStays == \A s \in ended : rows[s] = "none"
=============================================================================
