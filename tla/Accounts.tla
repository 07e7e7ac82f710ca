------------------------------ MODULE Accounts ------------------------------
(***************************************************************************)
(* Accounts, fleet ownership, grants and browser sessions: store/users.go, *)
(* store/sessions.go and store/servers.go as the handlers of               *)
(* httpapi/auth_handlers.go and httpapi/admin_handlers.go call them.       *)
(*                                                                         *)
(* A handler reads the session once (authenticated), decides on that       *)
(* snapshot (authorize), looks at its target (UserByID) and writes.  Each  *)
(* of the four is a step of its own and other requests run in between; a   *)
(* write is one transaction on the only database connection.               *)
(***************************************************************************)

CONSTANTS
  Users,     \* accounts that may come to exist
  Tokens,    \* session tokens; bounds the sessions ever issued
  Requests,  \* HTTP requests in flight
  Roles,     \* roles a grant can carry; all but "administrator" are alike here
  Nobody     \* no account, no session

ASSUME ConstantsOK == /\ Nobody \notin Users \cup Tokens
                      /\ "administrator" \in Roles /\ "none" \notin Roles

VARIABLES
  users,     \* rows of the users table
  owners,    \* users.fleet_owner
  disabled,  \* users.disabled
  role,      \* server_grants on the one server; "none" is no row
  session,   \* whose live session a token is
  spent,     \* tokens issued and since revoked or expired
  recent,    \* tokens within the reauthentication window
  pc,        \* where each request is
  req        \* what it asks for, and the session it has read

vars == <<users, owners, disabled, role, session, spent, recent, pc, req>>
accounts == <<users, owners, disabled>>
sessions == <<session, spent, recent>>

FleetOps == {"createUser", "disableUser", "promote", "demote", "revokeSessions"}
GrantOps == {"setGrant", "revokeGrant"}
OwnOps == {"logout", "reauthenticate"}

Authenticated == {"authorize", "check", "write"}
Request ==
  {q \in [op : FleetOps \cup GrantOps \cup OwnOps \cup {"login", "setup", "none"},
          target : Users \cup {Nobody}, token : Tokens \cup {Nobody},
          actor : Users \cup {Nobody}, owner : BOOLEAN, recent : BOOLEAN] :
     /\ q.op \in FleetOps \cup GrantOps => q.target \in Users
     /\ q.op \in OwnOps => q.token \in Tokens}
NoRequest == [op |-> "none", target |-> Nobody, token |-> Nobody,
              actor |-> Nobody, owner |-> FALSE, recent |-> FALSE]

TypeOK ==
  /\ users \subseteq Users
  /\ owners \subseteq users /\ disabled \subseteq users
  /\ role \in [Users -> Roles \cup {"none"}]
  /\ \A u \in Users \ users : role[u] = "none"
  /\ session \in [Tokens -> Users \cup {Nobody}]
  /\ spent \subseteq Tokens /\ recent \subseteq Tokens
  /\ pc \in [Requests -> {"idle", "issue"} \cup Authenticated]
  /\ req \in [Requests -> Request]

Init ==
  /\ users = {} /\ owners = {} /\ disabled = {}
  /\ role = [u \in Users |-> "none"]
  /\ session = [t \in Tokens |-> Nobody] /\ spent = {} /\ recent = {}
  /\ pc = [r \in Requests |-> "idle"]
  /\ req = [r \in Requests |-> NoRequest]

-----------------------------------------------------------------------------
Goto(r, phase) == pc' = [pc EXCEPT ![r] = phase] /\ UNCHANGED req

Return(r) ==
  /\ pc' = [pc EXCEPT ![r] = "idle"]
  /\ req' = [req EXCEPT ![r] = NoRequest]

(* Any handler may end early with an error: a check that fails, a bad body or
   CSRF token, a cancelled request. *)
Refuse(r) ==
  /\ pc[r] # "idle"
  /\ Return(r)
  /\ UNCHANGED <<accounts, role, sessions>>

(* Sessions the UPDATE sets revoked_at on. *)
Revoke(tokens) ==
  /\ session' = [t \in Tokens |-> IF t \in tokens THEN Nobody ELSE session[t]]
  /\ spent' = spent \cup tokens
  /\ UNCHANGED recent

SessionsOf(u) == {t \in Tokens : session[t] = u}

ActiveOwners == owners \ disabled

-----------------------------------------------------------------------------
(* setup and login *)

Knock(r, o, u) ==
  /\ pc[r] = "idle"
  /\ pc' = [pc EXCEPT ![r] = "issue"]
  /\ req' = [req EXCEPT ![r] = [NoRequest EXCEPT !.op = o, !.target = u]]

(* login reads the account, its disabled flag and its password hash. *)
Login(r) ==
  /\ \E u \in users \ disabled : Knock(r, "login", u)
  /\ UNCHANGED <<accounts, role, sessions>>

(* Count and insert in one transaction; the first account is a fleet owner. *)
CreateInitialUser(r) ==
  /\ users = {}
  /\ \E u \in Users :
       /\ Knock(r, "setup", u)
       /\ users' = {u} /\ owners' = {u}
       /\ role' = [role EXCEPT ![u] = "administrator"]
  /\ UNCHANGED <<disabled, sessions>>

(* Issue inserts the session row without looking at the account again. *)
Issue(r) ==
  /\ pc[r] = "issue"
  /\ \E t \in Tokens \ spent :
       /\ session[t] = Nobody
       /\ session' = [session EXCEPT ![t] = req[r].target]
       /\ recent' = recent \cup {t}
  /\ Return(r)
  /\ UNCHANGED <<accounts, role, spent>>

(* The session runs out, or its reauthentication window does.  What
   PurgeExpiredSessions deletes is spent already. *)
Expire ==
  /\ \E t \in Tokens : \/ session[t] # Nobody /\ Revoke({t})
                       \/ recent' = recent \ {t} /\ UNCHANGED <<session, spent>>
  /\ UNCHANGED <<accounts, role, pc, req>>

-----------------------------------------------------------------------------
(* authenticated and authorize *)

(* The request keeps what it read; only logout and reauthentication use the
   token again, only the others have a target. *)
ReadSession(r, t) ==
  /\ \/ \E own \in OwnOps :
          req' = [req EXCEPT ![r] =
            [NoRequest EXCEPT !.op = own, !.token = t, !.actor = session[t]]]
     \/ \E o \in FleetOps \cup GrantOps, u \in Users :
          req' = [req EXCEPT ![r] =
            [op |-> o, target |-> u, token |-> Nobody, actor |-> session[t],
             owner |-> session[t] \in owners,
             recent |-> o \in {"promote", "demote"} /\ t \in recent]]
  /\ pc' = [pc EXCEPT ![r] = "authorize"]

SessionByTokenOfAnybody(r) ==  \* variant: without AND u.disabled=0
  /\ pc[r] = "idle"
  /\ \E t \in Tokens : session[t] # Nobody /\ ReadSession(r, t)
  /\ UNCHANGED <<accounts, role, sessions>>

(* The live session, joined with its account, which must not be disabled. *)
SessionByToken(r) ==
  /\ pc[r] = "idle"
  /\ \E t \in Tokens : /\ session[t] \in users \ disabled
                       /\ ReadSession(r, t)
  /\ UNCHANGED <<accounts, role, sessions>>

AuthorizeAdministrators(r) ==  \* variant: an administrator may use fleet routes
  /\ pc[r] = "authorize"
  /\ req[r].op \in OwnOps \/ req[r].owner \/ role[req[r].actor] = "administrator"
  /\ Goto(r, "check")
  /\ UNCHANGED <<accounts, role, sessions>>

(* A fleet permission takes the owner flag of the session that was read; a
   server permission that flag or the grant as it is now. *)
Authorize(r) ==
  /\ pc[r] = "authorize"
  /\ \/ req[r].op \in OwnOps
     \/ req[r].owner
     \/ req[r].op \in GrantOps /\ role[req[r].actor] = "administrator"
  /\ Goto(r, "check")
  /\ UNCHANGED <<accounts, role, sessions>>

(* What the handler checks on the target it reads with UserByID. *)
Check(r) ==
  /\ pc[r] = "check"
  /\ req[r].op \in {"disableUser", "promote", "demote", "revokeSessions", "setGrant"}
       => req[r].target \in users
  /\ req[r].op \in {"promote", "setGrant"} => req[r].target \notin disabled
  /\ req[r].op = "disableUser" => req[r].target # req[r].actor
  /\ req[r].op \in {"promote", "demote"} => req[r].recent
  /\ Goto(r, "write")
  /\ UNCHANGED <<accounts, role, sessions>>

-----------------------------------------------------------------------------
(* The transactions *)

Writes(r, ops) == pc[r] = "write" /\ req[r].op \in ops /\ Return(r)

(* The account and the grant that carries its role; a name that is taken
   violates the UNIQUE constraint. *)
CreateUser(r) ==
  /\ Writes(r, {"createUser"})
  /\ req[r].target \notin users
  /\ users' = users \cup {req[r].target}
  /\ \E new \in Roles : role' = [role EXCEPT ![req[r].target] = new]
  /\ UNCHANGED <<owners, disabled, sessions>>

DisableUserCountingAll(r) ==  \* variant: COUNT(*) WHERE fleet_owner=1
  /\ Writes(r, {"disableUser"})
  /\ req[r].target \in owners => owners # {req[r].target}
  /\ disabled' = disabled \cup {req[r].target}
  /\ Revoke(SessionsOf(req[r].target))
  /\ UNCHANGED <<users, owners, role>>

(* Never the last active fleet owner.  Disabling twice does nothing. *)
DisableUser(r) ==
  /\ Writes(r, {"disableUser"})
  /\ req[r].target \in users
  /\ \/ /\ req[r].target \notin disabled
        /\ ActiveOwners # {req[r].target}
        /\ disabled' = disabled \cup {req[r].target}
        /\ Revoke(SessionsOf(req[r].target))
     \/ req[r].target \in disabled /\ UNCHANGED <<disabled, sessions>>
  /\ UNCHANGED <<users, owners, role>>

SetFleetOwnerUnchecked(r) ==  \* variant: disabled is not read in the transaction
  /\ Writes(r, {"promote", "demote"})
  /\ \/ req[r].op = "promote" /\ owners' = owners \cup {req[r].target}
     \/ /\ req[r].op = "demote" /\ ActiveOwners # {req[r].target}
        /\ owners' = owners \ {req[r].target}
  /\ UNCHANGED <<users, disabled, role, sessions>>

(* Never a disabled account, never without an active owner left. *)
SetFleetOwner(r) ==
  /\ Writes(r, {"promote", "demote"})
  /\ req[r].target \in users
  /\ \/ /\ req[r].op = "promote" /\ req[r].target \notin disabled
        /\ owners' = owners \cup {req[r].target}
     \/ /\ req[r].op = "demote" /\ ActiveOwners # {req[r].target}
        /\ owners' = owners \ {req[r].target}
  /\ UNCHANGED <<users, disabled, role, sessions>>

RevokeUserSessions(r) ==
  /\ Writes(r, {"revokeSessions"})
  /\ Revoke(SessionsOf(req[r].target))
  /\ UNCHANGED <<accounts, role>>

(* Insert or update; of the account only the foreign key is checked. *)
SetServerGrant(r) ==
  /\ Writes(r, {"setGrant"})
  /\ req[r].target \in users
  /\ \E new \in Roles : role' = [role EXCEPT ![req[r].target] = new]
  /\ UNCHANGED <<accounts, sessions>>

RevokeServerGrant(r) ==
  /\ Writes(r, {"revokeGrant"})
  /\ role[req[r].target] # "none"
  /\ role' = [role EXCEPT ![req[r].target] = "none"]
  /\ UNCHANGED <<accounts, sessions>>

RevokeSession(r) ==
  /\ Writes(r, {"logout"})
  /\ Revoke({req[r].token})
  /\ UNCHANGED <<accounts, role>>

(* A session that was revoked meanwhile is not renewed. *)
ReauthenticateSession(r) ==
  /\ Writes(r, {"reauthenticate"})
  /\ session[req[r].token] # Nobody
  /\ recent' = recent \cup {req[r].token}
  /\ UNCHANGED <<accounts, role, session, spent>>

Next ==
  \/ Expire
  \/ \E r \in Requests :
       \/ Refuse(r) \/ Login(r) \/ CreateInitialUser(r) \/ Issue(r)
       \/ SessionByToken(r) \/ Authorize(r) \/ Check(r)
       \/ CreateUser(r) \/ DisableUser(r) \/ SetFleetOwner(r)
       \/ RevokeUserSessions(r) \/ SetServerGrant(r) \/ RevokeServerGrant(r)
       \/ RevokeSession(r) \/ ReauthenticateSession(r)

Spec == Init /\ [][Next]_vars

-----------------------------------------------------------------------------
(* Properties *)

(* Once set up, the installation always has a fleet owner who can sign in,
   though owners disable and demote each other at the same time
   (ErrLastFleetOwner). *)
ActiveOwnerExists == users # {} => ActiveOwners # {}

InFlight(u) == {r \in Requests : pc[r] \in Authenticated /\ req[r].actor = u}

(* A disabled account begins no further request, even with a session a login
   issued after the account was disabled; what was in flight may end. *)
DisabledLockedOut ==
  [][\A u \in disabled : InFlight(u)' \subseteq InFlight(u)]_vars

(* After setup accounts are made, disabled, promoted and demoted only by
   requests that came in as a fleet owner's: no second setup and no server
   administrator changes them. *)
AccountsChangedByOwners ==
  [][UNCHANGED accounts \/ users = {}
     \/ \E r \in Requests : pc[r] = "write" /\ req[r].owner /\ pc'[r] = "idle"]_vars

(* "A disabled user cannot become a fleet owner", not even one who is disabled
   after the handler has looked (admin_handlers.go). *)
NoPromotionOfDisabled ==
  [][\A u \in disabled : u \in owners' => u \in owners]_vars
=============================================================================
