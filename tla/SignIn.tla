--------------------------------- MODULE SignIn ---------------------------------
(***************************************************************************)
(* Signing in and out in one browser tab: what AuthenticationBoundary      *)
(* shows, the two queries it reads, the requests that change them and the  *)
(* cookie, which the tab shares with others.  A request carries the cookie *)
(* of when it is sent and is served some time later, and its answer, with  *)
(* the cookie it sets or clears, is heard some time after that             *)
(* (authentication-boundary.tsx, auth-hooks.ts, auth-api.ts, api.ts;       *)
(* middleware.go, auth_handlers.go).                                       *)
(*                                                                         *)
(* A session is a number, and stands for its cookie, its CSRF token and    *)
(* what the session endpoint says of it.                                   *)
(***************************************************************************)
EXTENDS Integers

CONSTANT MaxIssued  \* bound: sessions issued

ASSUME SignInBounds == MaxIssued \in Nat \ {0}

Sessions == 1..MaxIssued

Nobody == 0    \* no cookie; the session endpoint's null
Unknown == -1  \* a query without data

VARIABLES
  installed,     \* the server has its first account
  valid,         \* sessions the server knows and takes for valid
  issued,        \* sessions issued so far
  jar,           \* the cookie
  setupQuery,    \* the cached setup status and whether reading it failed
  setupRead,     \* the read of it that is under way
  sessionQuery,  \* the cached session and whether reading it failed
  sessionRead,   \* the read of it that is under way
  signing,       \* the setup, login or logout request under way
  call,          \* another request of the dashboard that is under way
  ended          \* sessions this tab has signed out of

signVars == <<installed, valid, issued, jar, setupQuery, setupRead, sessionQuery,
              sessionRead, signing, call, ended>>
accounts == <<installed, valid, issued>>
boundary == <<setupQuery, setupRead, sessionQuery, sessionRead>>

(* A request: what it asks, with which cookie and token, and what was answered. *)
NoRequest == [state |-> "idle", kind |-> "none", cookie |-> Nobody, token |-> Nobody,
              answer |-> "none", value |-> Nobody, tries |-> 0]

Mutations == {"act", "logout"}

(* request(): the cookie goes with what is authenticated, the token with what
   changes something. *)
Asking(kind) ==
  [NoRequest EXCEPT !.state = "sent", !.kind = kind,
     !.cookie = IF kind \in {"setupStatus", "setup", "login"} THEN Nobody ELSE jar,
     !.token = IF kind \in Mutations THEN sessionQuery.data ELSE Nobody]

Answering(request, answer, value) ==
  [request EXCEPT !.state = "answered", !.answer = answer, !.value = value]

FreshSetup == [data |-> "unknown", failed |-> FALSE]
FreshSession == [data |-> Unknown, failed |-> FALSE]

SignInit ==
  /\ \/ installed = FALSE /\ valid = {} /\ issued = 0 /\ jar = Nobody
     \/ installed = TRUE /\ valid = {1} /\ issued = 1 /\ jar \in {Nobody, 1}
  /\ setupQuery = FreshSetup
  /\ setupRead = Asking("setupStatus")
  /\ sessionQuery = FreshSession /\ sessionRead = NoRequest
  /\ signing = NoRequest /\ call = NoRequest
  /\ ended = {}

-----------------------------------------------------------------------------
(* What is shown *)

SignedIn == sessionQuery.data \in Sessions

ScreenUnlessFailed ==  \* variant: a failed read of the session replaces the dashboard
  IF \/ setupQuery.data = "unknown" /\ setupRead.state # "idle"
     \/ setupQuery.data = "installed" /\ sessionQuery.data = Unknown
          /\ sessionRead.state # "idle" THEN "loading"
  ELSE IF setupQuery.failed THEN "setupError"
  ELSE IF setupQuery.data = "required" THEN "setup"
  ELSE IF sessionQuery.failed THEN "sessionError"
  ELSE IF SignedIn THEN "dashboard" ELSE "login"

(* AuthenticationBoundary *)
Screen ==
  IF \/ setupQuery.data = "unknown" /\ setupRead.state # "idle"
     \/ setupQuery.data = "installed" /\ sessionQuery.data = Unknown
          /\ sessionRead.state # "idle" THEN "loading"
  ELSE IF setupQuery.failed THEN "setupError"
  ELSE IF setupQuery.data = "required" THEN "setup"
  ELSE IF sessionQuery.failed /\ ~SignedIn THEN "sessionError"
  ELSE IF SignedIn THEN "dashboard" ELSE "login"

-----------------------------------------------------------------------------
(* The server *)

(* authenticated(): a session that cannot be looked up is refused like one that is
   not there, and either way the answer clears the cookie. *)
Authenticates(request, lookedUp) == lookedUp /\ request.cookie \in valid

(* Issue *)
IssueNext == issued < MaxIssued /\ issued' = issued + 1 /\ valid' = valid \union {issued + 1}

(* session *)
ServeSessionRead ==
  /\ sessionRead.state = "sent"
  /\ \/ sessionRead' = Answering(sessionRead, "failed", Nobody)
     \/ \E lookedUp \in BOOLEAN :
          sessionRead' = IF Authenticates(sessionRead, lookedUp)
                           THEN Answering(sessionRead, "ok", sessionRead.cookie)
                           ELSE Answering(sessionRead, "unauthenticated", Nobody)
  /\ UNCHANGED <<accounts, jar, setupQuery, setupRead, sessionQuery, signing, call, ended>>

(* setup, login *)
ServeSignIn ==
  /\ signing.state = "sent" /\ signing.kind \in {"setup", "login"}
  /\ \/ /\ signing.kind = "setup" <=> ~installed
        /\ installed' = TRUE
        /\ IssueNext
        /\ signing' = Answering(signing, "ok", issued + 1)
     \/ signing' = Answering(signing, "refused", Nobody) /\ UNCHANGED accounts
  /\ UNCHANGED <<jar, boundary, call, ended>>

(* logout *)
ServeSignOut ==
  /\ signing.state = "sent" /\ signing.kind = "logout"
  /\ \E lookedUp \in BOOLEAN :
       IF ~Authenticates(signing, lookedUp)
         THEN /\ signing' = Answering(signing, "unauthenticated", Nobody)
              /\ UNCHANGED valid
       ELSE IF signing.token # signing.cookie
         THEN signing' = Answering(signing, "refused", Nobody) /\ UNCHANGED valid
       ELSE /\ signing' = Answering(signing, "ok", Nobody)
            /\ valid' = valid \ {signing.cookie}
  /\ UNCHANGED <<installed, issued, jar, boundary, call, ended>>

ServeCallAnyToken ==  \* variant: the token is not compared
  /\ call.state = "sent"
  /\ \E lookedUp \in BOOLEAN :
       call' = IF Authenticates(call, lookedUp) THEN Answering(call, "ok", call.cookie)
               ELSE Answering(call, "unauthenticated", Nobody)
  /\ UNCHANGED <<accounts, jar, boundary, signing, ended>>

(* Any route of the dashboard: a read, or an action, which requireCSRF guards. *)
ServeCall ==
  /\ call.state = "sent"
  /\ \E lookedUp \in BOOLEAN :
       call' = IF ~Authenticates(call, lookedUp)
                 THEN Answering(call, "unauthenticated", Nobody)
               ELSE IF call.kind = "act" /\ call.token # call.cookie
                 THEN Answering(call, "refused", Nobody)
               ELSE Answering(call, "ok", call.cookie)
  /\ UNCHANGED <<accounts, jar, boundary, signing, ended>>

(* Sessions expire and are revoked; the other tabs sign in and out. *)
SessionEnds(s) ==
  /\ s \in valid
  /\ valid' = valid \ {s}
  /\ jar' \in IF jar = s THEN {jar, Nobody} ELSE {jar}
  /\ UNCHANGED <<installed, issued, boundary, signing, call, ended>>

OtherTabSignsIn ==
  /\ IssueNext
  /\ installed' = TRUE /\ jar' = issued + 1
  /\ UNCHANGED <<boundary, signing, call, ended>>

-----------------------------------------------------------------------------
(* The tab *)

(* setupStatus; its answer is heard as it is given: it changes once, and nothing the
   tab does meanwhile depends on it. *)
SetupAnswer == IF installed THEN "installed" ELSE "required"

(* The session is read when the setup status allows it and it is not known. *)
ReadSessionIf(wanted) ==
  sessionRead' = IF wanted THEN Asking("session") ELSE sessionRead

SetupHeard(data) ==
  /\ setupRead.state = "sent"
  /\ setupRead' = NoRequest
  /\ setupQuery' = [data |-> data, failed |-> FALSE]
  /\ ReadSessionIf(/\ data = "installed"
                   /\ sessionQuery.data = Unknown /\ sessionRead = NoRequest)
  /\ UNCHANGED <<accounts, jar, sessionQuery, signing, call, ended>>

(* useSetupStatus: one retry, and what is known stays known beside an error. *)
SetupFails ==
  /\ setupRead.state = "sent"
  /\ IF setupRead.tries = 0
       THEN setupRead' = [setupRead EXCEPT !.tries = 1] /\ UNCHANGED setupQuery
       ELSE setupRead' = NoRequest /\ setupQuery' = [setupQuery EXCEPT !.failed = TRUE]
  /\ UNCHANGED <<accounts, jar, sessionQuery, sessionRead, signing, call, ended>>

(* The cookie after an answer to a request that was refused for its cookie. *)
Cleared(request) ==
  IF request.answer = "unauthenticated" /\ request.cookie # Nobody THEN Nobody ELSE jar

(* getSession, without a retry: a refusal is the answer null. *)
SessionHeard ==
  /\ sessionRead.state = "answered"
  /\ sessionRead' = NoRequest
  /\ sessionQuery' = IF sessionRead.answer = "failed"
                       THEN [sessionQuery EXCEPT !.failed = TRUE]
                       ELSE [data |-> sessionRead.value, failed |-> FALSE]
  /\ jar' = Cleared(sessionRead)
  /\ UNCHANGED <<accounts, setupQuery, setupRead, signing, call, ended>>

(* "Try again" *)
SessionRetried ==
  /\ Screen = "sessionError"
  /\ sessionRead' = Asking("session")
  /\ sessionQuery' = IF sessionQuery.data = Unknown THEN FreshSession ELSE sessionQuery
  /\ UNCHANGED <<accounts, jar, setupQuery, setupRead, signing, call, ended>>

(* AuthForm's submit: the button is disabled while its request is pending. *)
SubmitForm(mode) ==
  /\ signing = NoRequest
  /\ signing' = Asking(mode)
  /\ UNCHANGED <<accounts, jar, boundary, call, ended>>

SubmitSetup == Screen = "setup" /\ SubmitForm("setup")
SubmitLogin == Screen = "login" /\ SubmitForm("login")

(* useAuthenticationMutation; a read of the session that is under way goes on. *)
SignInHeard ==
  /\ signing.state = "answered" /\ signing.kind \in {"setup", "login"}
  /\ signing' = NoRequest
  /\ IF signing.answer = "ok"
       THEN /\ jar' = signing.value
            /\ setupQuery' = [data |-> "installed", failed |-> FALSE]
            /\ sessionQuery' = [data |-> signing.value, failed |-> FALSE]
       ELSE UNCHANGED <<jar, setupQuery, sessionQuery>>
  /\ UNCHANGED <<accounts, setupRead, sessionRead, call, ended>>

SubmitSignOut ==
  /\ Screen = "dashboard" /\ signing = NoRequest
  /\ signing' = Asking("logout")
  /\ UNCHANGED <<accounts, jar, boundary, call, ended>>

(* The page is loaded anew: nothing is cached and nothing under way is heard. *)
Reload ==
  /\ setupQuery' = FreshSetup
  /\ setupRead' = Asking("setupStatus")
  /\ sessionQuery' = FreshSession /\ sessionRead' = NoRequest
  /\ signing' = NoRequest /\ call' = NoRequest

SignOutForgets ==  \* variant: the cache is not cleared and the page not reloaded
  /\ signing.kind = "logout" /\ signing.state = "answered"
  /\ signing' = NoRequest
  /\ sessionQuery' = [data |-> Nobody, failed |-> FALSE]
  /\ jar' = IF signing.answer = "ok" THEN Nobody ELSE Cleared(signing)
  /\ ended' = IF signing.answer = "ok" THEN ended \union {signing.cookie} ELSE ended
  /\ UNCHANGED <<accounts, setupQuery, setupRead, sessionRead, call>>

(* useLogoutMutation: onSettled, also when the request failed on its way. *)
SignOutSettles ==
  /\ signing.kind = "logout" /\ signing.state \in {"sent", "answered"}
  /\ jar' = IF signing.answer = "ok" THEN Nobody ELSE Cleared(signing)
  /\ ended' = IF signing.answer = "ok" THEN ended \union {signing.cookie} ELSE ended
  /\ Reload
  /\ UNCHANGED accounts

(* The dashboard reads a page's data or sends an action. *)
SubmitCall(kind) ==
  /\ Screen = "dashboard" /\ call = NoRequest
  /\ call' = Asking(kind)
  /\ UNCHANGED <<accounts, jar, boundary, signing, ended>>

(* An action that succeeded invalidates every query: both of these are mounted and
   read again, a read of known data that is under way is given up for it. *)
CallHeard ==
  /\ call.state = "answered"
  /\ call' = NoRequest
  /\ jar' = Cleared(call)
  /\ IF call.kind = "act" /\ call.answer = "ok"
       THEN /\ setupRead' = IF setupRead.state # "idle" /\ setupQuery.data = "unknown"
                              THEN setupRead
                              ELSE Asking("setupStatus")
            /\ ReadSessionIf(/\ setupQuery.data = "installed"
                             /\ sessionQuery.data # Unknown \/ sessionRead = NoRequest)
            /\ sessionQuery' = IF sessionQuery.data = Unknown THEN FreshSession
                               ELSE sessionQuery
       ELSE UNCHANGED <<setupRead, sessionRead, sessionQuery>>
  /\ UNCHANGED <<accounts, setupQuery, signing, ended>>

(* The user's way out of the setup status' error. *)
UserReloads ==
  /\ Screen = "setupError"
  /\ Reload
  /\ UNCHANGED <<accounts, jar, ended>>

TabStep ==
  \/ SetupHeard(SetupAnswer) \/ SetupFails \/ SessionHeard \/ SessionRetried
  \/ SubmitSetup \/ SubmitLogin \/ SignInHeard \/ SubmitSignOut \/ SignOutSettles
  \/ \E kind \in {"read", "act"} : SubmitCall(kind)
  \/ CallHeard \/ UserReloads

ServerStep ==
  \/ ServeSessionRead \/ ServeSignIn \/ ServeSignOut \/ ServeCall
  \/ \E s \in Sessions : SessionEnds(s)
  \/ OtherTabSignsIn

SignNext == TabStep \/ ServerStep

SignSpec == SignInit /\ [][SignNext]_signVars

-----------------------------------------------------------------------------
(* Properties *)

SignTypeOK ==
  /\ installed \in BOOLEAN /\ valid \subseteq 1..issued /\ issued \in 0..MaxIssued
  /\ jar \in 0..issued
  /\ setupQuery.data \in {"unknown", "required", "installed"}
  /\ sessionQuery.data \in -1..issued
  /\ \A request \in {setupRead, sessionRead, signing, call} :
       /\ request.state \in {"idle", "sent", "answered"}
       /\ request.state = "idle" => request = NoRequest
       /\ request.tries \in 0..1
  /\ ended \subseteq 1..issued

(* The server performs an action of the dashboard only for the session whose
   account the dashboard showed when it was asked for, though another tab may have
   replaced the cookie before (bootstrap.tsx:14, middleware.go:92, 110). *)
ActsAsShown ==
  (call.kind = "act" /\ call.answer = "ok") => call.value = call.token

(* Nothing but a sign-out, the server not knowing the session, or the setup status
   being unreadable takes the dashboard away: "a session that has loaded once
   survives a failed background refetch" (authentication-boundary.tsx:30-35).  The
   last is a gap in that promise: the setup status is read again with the session
   and its error is shown whatever is known (authentication-boundary.tsx:22). *)
DashboardStays ==
  [][(Screen = "dashboard" /\ Screen' # "dashboard") =>
       \/ signing.kind = "logout" /\ signing' = NoRequest
       \/ sessionRead.answer = "unauthenticated" /\ sessionQuery'.data = Nobody
       \/ setupQuery'.failed]_signVars

(* A session that this tab has signed out of is never shown again, whatever reads
   were under way (auth-hooks.ts:43-47). *)
SignedOutStaysOut == sessionQuery.data \notin ended

=============================================================================
