--------------------------- MODULE AccountsProofs ---------------------------
(***************************************************************************)
(* Theorems about Accounts for any numbers of accounts, tokens and         *)
(* requests.                                                               *)
(***************************************************************************)
EXTENDS Accounts, TLAPS

LEMMA GotoType ==
  ASSUME TypeOK, NEW r \in Requests, NEW phase \in Authenticated \cup {"issue"},
         Goto(r, phase)
  PROVE  /\ pc' \in [Requests -> {"idle", "issue"} \cup Authenticated]
         /\ req' \in [Requests -> Request]
BY DEF Goto, TypeOK

LEMMA ReturnType ==
  ASSUME TypeOK, NEW r \in Requests, Return(r)
  PROVE  /\ pc' \in [Requests -> {"idle", "issue"} \cup Authenticated]
         /\ req' \in [Requests -> Request]
<1>1. NoRequest \in Request
  BY DEF NoRequest, Request, FleetOps, GrantOps, OwnOps
<1> QED
  BY <1>1 DEF Return, TypeOK

LEMMA KnockType ==
  ASSUME TypeOK, NEW r \in Requests, NEW o \in {"login", "setup"},
         NEW u \in Users, Knock(r, o, u)
  PROVE  /\ pc' \in [Requests -> {"idle", "issue"} \cup Authenticated]
         /\ req' \in [Requests -> Request]
<1>1. [NoRequest EXCEPT !.op = o, !.target = u] \in Request
  BY DEF NoRequest, Request, FleetOps, GrantOps, OwnOps
<1> QED
  BY <1>1 DEF Knock, TypeOK

LEMMA ReadSessionType ==
  ASSUME TypeOK, NEW r \in Requests, NEW t \in Tokens,
         session[t] \in Users, ReadSession(r, t)
  PROVE  /\ pc' \in [Requests -> {"idle", "issue"} \cup Authenticated]
         /\ req' \in [Requests -> Request]
<1>1. session[t] \in Users
  BY DEF TypeOK
<1>2. PICK q : q \in Request /\ req' = [req EXCEPT ![r] = q]
  <2>1. CASE \E own \in OwnOps : req' = [req EXCEPT ![r] =
               [NoRequest EXCEPT !.op = own, !.token = t, !.actor = session[t]]]
    <3>1. PICK own \in OwnOps : req' = [req EXCEPT ![r] =
               [NoRequest EXCEPT !.op = own, !.token = t, !.actor = session[t]]]
      BY <2>1
    <3>2. [NoRequest EXCEPT !.op = own, !.token = t, !.actor = session[t]] \in Request
      BY <1>1 DEF NoRequest, Request, FleetOps, GrantOps, OwnOps
    <3> QED
      BY <3>1, <3>2
  <2>2. CASE ~ \E own \in OwnOps : req' = [req EXCEPT ![r] =
               [NoRequest EXCEPT !.op = own, !.token = t, !.actor = session[t]]]
    <3> DEFINE Read(o, u) ==
          [op |-> o, target |-> u, token |-> Nobody, actor |-> session[t],
           owner |-> session[t] \in owners,
           recent |-> o \in {"promote", "demote"} /\ t \in recent]
    <3>1. PICK o \in FleetOps \cup GrantOps, u \in Users :
               req' = [req EXCEPT ![r] = Read(o, u)]
      BY <2>2, Zenon DEF ReadSession
    <3>2. Read(o, u) \in Request
      BY <1>1 DEF Request, FleetOps, GrantOps, OwnOps
    <3> QED
      BY <3>1, <3>2
  <2> QED
    BY <2>1, <2>2
<1> QED
  BY <1>2 DEF ReadSession, TypeOK, Authenticated

LEMMA RevokeType ==
  ASSUME TypeOK, NEW tokens \in SUBSET Tokens, Revoke(tokens)
  PROVE  /\ session' \in [Tokens -> Users \cup {Nobody}]
         /\ spent' \subseteq Tokens /\ recent' \subseteq Tokens
BY DEF Revoke, TypeOK

(* Every step keeps the type invariant. *)
LEMMA TypeStep ==
  ASSUME TypeOK, Next
  PROVE  TypeOK'
<1>1. CASE Expire
  <2>1. UNCHANGED <<users, owners, disabled, role, pc, req>>
    BY <1>1 DEF Expire, accounts
  <2>2. /\ session' \in [Tokens -> Users \cup {Nobody}]
        /\ spent' \subseteq Tokens /\ recent' \subseteq Tokens
    <3>1. PICK t \in Tokens : \/ session[t] # Nobody /\ Revoke({t})
                              \/ recent' = recent \ {t} /\ UNCHANGED <<session, spent>>
      BY <1>1, Zenon DEF Expire
    <3>2. CASE Revoke({t})
      BY <3>2, RevokeType
    <3>3. CASE recent' = recent \ {t} /\ UNCHANGED <<session, spent>>
      BY <3>3 DEF TypeOK
    <3> QED
      BY <3>1, <3>2, <3>3
  <2> QED
    BY <2>1, <2>2 DEF TypeOK
<1>2. ASSUME NEW r \in Requests, Refuse(r)
      PROVE  TypeOK'
  BY <1>2, ReturnType DEF Refuse, TypeOK, accounts, sessions
<1>3. ASSUME NEW r \in Requests, Login(r)
      PROVE  TypeOK'
  BY <1>3, KnockType DEF Login, TypeOK, accounts, sessions
<1>4. ASSUME NEW r \in Requests, CreateInitialUser(r)
      PROVE  TypeOK'
  BY <1>4, KnockType, ConstantsOK DEF CreateInitialUser, TypeOK, sessions
<1>5. ASSUME NEW r \in Requests, Issue(r)
      PROVE  TypeOK'
  <2>1. req[r].target \in Users \cup {Nobody}
    BY DEF TypeOK, Request
  <2> QED
    BY <1>5, <2>1, ReturnType DEF Issue, TypeOK, accounts
<1>6. ASSUME NEW r \in Requests, SessionByToken(r)
      PROVE  TypeOK'
  <2>1. PICK t \in Tokens : session[t] \in users \ disabled /\ ReadSession(r, t)
    BY <1>6 DEF SessionByToken
  <2> QED
    BY <1>6, <2>1, ReadSessionType DEF SessionByToken, TypeOK, accounts, sessions
<1>7. ASSUME NEW r \in Requests, Authorize(r) \/ Check(r)
      PROVE  TypeOK'
  <2>1. \E phase \in Authenticated : Goto(r, phase)
    BY <1>7 DEF Authorize, Check, Authenticated
  <2> QED
    BY <1>7, <2>1, GotoType DEF Authorize, Check, TypeOK, accounts, sessions
<1>8. ASSUME NEW r \in Requests,
             CreateUser(r) \/ SetServerGrant(r) \/ RevokeServerGrant(r)
      PROVE  TypeOK'
  <2>1. Return(r) /\ req[r].target \in Users
    BY <1>8 DEF CreateUser, SetServerGrant, RevokeServerGrant, Writes, TypeOK,
                Request, FleetOps, GrantOps
  <2>2. CASE CreateUser(r)
    BY <2>1, <2>2, ReturnType DEF CreateUser, TypeOK, sessions
  <2>3. CASE SetServerGrant(r)
    BY <2>1, <2>3, ReturnType DEF SetServerGrant, TypeOK, accounts, sessions
  <2>4. CASE RevokeServerGrant(r)
    BY <2>1, <2>4, ReturnType DEF RevokeServerGrant, TypeOK, accounts, sessions
  <2> QED
    BY <1>8, <2>2, <2>3, <2>4
<1>9. ASSUME NEW r \in Requests, DisableUser(r)
      PROVE  TypeOK'
  <2>1. Return(r) /\ req[r].target \in users
    BY <1>9 DEF DisableUser, Writes
  <2>2. /\ session' \in [Tokens -> Users \cup {Nobody}]
        /\ spent' \subseteq Tokens /\ recent' \subseteq Tokens
    <3>1. CASE Revoke(SessionsOf(req[r].target))
      BY <3>1, RevokeType DEF SessionsOf
    <3>2. CASE UNCHANGED sessions
      BY <3>2 DEF sessions, TypeOK
    <3> QED
      BY <1>9, <3>1, <3>2 DEF DisableUser
  <2>3. UNCHANGED <<users, owners, role>> /\ disabled' \subseteq users
    BY <1>9, <2>1 DEF DisableUser, TypeOK
  <2> QED
    BY <2>1, <2>2, <2>3, ReturnType DEF TypeOK
<1>10. ASSUME NEW r \in Requests, SetFleetOwner(r)
       PROVE  TypeOK'
  BY <1>10, ReturnType DEF SetFleetOwner, Writes, TypeOK, sessions
<1>11. ASSUME NEW r \in Requests, RevokeUserSessions(r) \/ RevokeSession(r)
       PROVE  TypeOK'
  <2>1. Return(r) /\ UNCHANGED <<users, owners, disabled, role>>
    BY <1>11 DEF RevokeUserSessions, RevokeSession, Writes, accounts
  <2>2. \E tokens \in SUBSET Tokens : Revoke(tokens)
    <3>1. CASE RevokeUserSessions(r)
      BY <3>1 DEF RevokeUserSessions, SessionsOf
    <3>2. CASE RevokeSession(r)
      BY <3>2 DEF RevokeSession, Writes, TypeOK, Request, OwnOps
    <3> QED
      BY <1>11, <3>1, <3>2
  <2> QED
    BY <2>1, <2>2, RevokeType, ReturnType DEF TypeOK
<1>12. ASSUME NEW r \in Requests, ReauthenticateSession(r)
       PROVE  TypeOK'
  <2>1. req[r].token \in Tokens
    BY <1>12 DEF ReauthenticateSession, Writes, TypeOK, Request, OwnOps
  <2> QED
    BY <1>12, <2>1, ReturnType DEF ReauthenticateSession, Writes, TypeOK, accounts
<1> QED
  BY <1>1, <1>2, <1>3, <1>4, <1>5, <1>6, <1>7, <1>8, <1>9, <1>10,
     <1>11, <1>12 DEF Next

(* The type invariant of Accounts: among others the foreign keys, no fleet
   owner, disabled account or grant without its account row. *)
THEOREM TypeCorrect == Spec => []TypeOK
<1>1. Init => TypeOK
  <2>1. NoRequest \in Request
    BY DEF NoRequest, Request, FleetOps, GrantOps, OwnOps
  <2> QED
    BY <2>1 DEF Init, TypeOK
<1>2. TypeOK /\ UNCHANGED vars => TypeOK'
  BY DEF TypeOK, vars
<1> QED
  BY <1>1, <1>2, TypeStep, PTL DEF Spec

-----------------------------------------------------------------------------
(* What a step does to the accounts, in three cases. *)
LEMMA AccountSteps ==
  ASSUME TypeOK, Next
  PROVE  \/ UNCHANGED accounts
         \/ /\ users = {}
            /\ \E u \in Users : users' = {u} /\ owners' = {u}
            /\ UNCHANGED disabled
         \/ \E r \in Requests :
              /\ pc[r] = "write" /\ pc'[r] = "idle"
              /\ req[r].op \in FleetOps
              /\ \/ users' = users \cup {req[r].target} /\ UNCHANGED <<owners, disabled>>
                 \/ /\ ActiveOwners # {req[r].target}
                    /\ disabled' = disabled \cup {req[r].target}
                    /\ UNCHANGED <<users, owners>>
                 \/ /\ req[r].target \notin disabled
                    /\ owners' = owners \cup {req[r].target}
                    /\ UNCHANGED <<users, disabled>>
                 \/ /\ ActiveOwners # {req[r].target}
                    /\ owners' = owners \ {req[r].target}
                    /\ UNCHANGED <<users, disabled>>
<1>1. ASSUME NEW r \in Requests, CreateInitialUser(r)
      PROVE  /\ users = {}
             /\ \E u \in Users : users' = {u} /\ owners' = {u}
             /\ UNCHANGED disabled
  BY <1>1 DEF CreateInitialUser
<1>2. ASSUME NEW r \in Requests, Return(r)
      PROVE  pc'[r] = "idle"
  BY <1>2 DEF Return, TypeOK
<1>3. ASSUME NEW r \in Requests, CreateUser(r)
      PROVE  /\ pc[r] = "write" /\ pc'[r] = "idle" /\ req[r].op \in FleetOps
             /\ users' = users \cup {req[r].target} /\ UNCHANGED <<owners, disabled>>
  BY <1>2, <1>3 DEF CreateUser, Writes, FleetOps
<1>4. ASSUME NEW r \in Requests, DisableUser(r)
      PROVE  \/ UNCHANGED accounts
             \/ /\ pc[r] = "write" /\ pc'[r] = "idle" /\ req[r].op \in FleetOps
                /\ ActiveOwners # {req[r].target}
                /\ disabled' = disabled \cup {req[r].target}
                /\ UNCHANGED <<users, owners>>
  BY <1>2, <1>4 DEF DisableUser, Writes, FleetOps, accounts
<1>5. ASSUME NEW r \in Requests, SetFleetOwner(r)
      PROVE  /\ pc[r] = "write" /\ pc'[r] = "idle" /\ req[r].op \in FleetOps
             /\ UNCHANGED <<users, disabled>>
             /\ \/ /\ req[r].target \notin disabled
                   /\ owners' = owners \cup {req[r].target}
                \/ /\ ActiveOwners # {req[r].target}
                   /\ owners' = owners \ {req[r].target}
  BY <1>2, <1>5 DEF SetFleetOwner, Writes, FleetOps
<1>6. CASE Expire
  BY <1>6 DEF Expire
<1>7. ASSUME NEW r \in Requests,
             \/ Refuse(r) \/ Login(r) \/ Issue(r) \/ SessionByToken(r)
             \/ Authorize(r) \/ Check(r) \/ RevokeUserSessions(r)
             \/ SetServerGrant(r) \/ RevokeServerGrant(r)
             \/ RevokeSession(r) \/ ReauthenticateSession(r)
      PROVE  UNCHANGED accounts
  BY <1>7 DEF Refuse, Login, Issue, SessionByToken, Authorize, Check,
              RevokeUserSessions, SetServerGrant, RevokeServerGrant,
              RevokeSession, ReauthenticateSession
<1> QED
  BY <1>1, <1>3, <1>4, <1>5, <1>6, <1>7 DEF Next

(* Before setup no request gets past authentication. *)
NobodyBeforeSetup == users = {} => \A r \in Requests : pc[r] \notin Authenticated

OwnerInv == TypeOK /\ NobodyBeforeSetup /\ ActiveOwnerExists

LEMMA NobodyBeforeSetupStep ==
  ASSUME TypeOK, NobodyBeforeSetup, Next
  PROVE  NobodyBeforeSetup'
<1> SUFFICES ASSUME users' = {}
             PROVE  \A r \in Requests : pc'[r] \notin Authenticated
  BY DEF NobodyBeforeSetup
<1> USE DEF NobodyBeforeSetup, TypeOK
<1>1. users = {}
  BY AccountSteps DEF accounts
<1>2. CASE Expire
  BY <1>1, <1>2 DEF Expire
<1>3. ASSUME NEW r \in Requests, Refuse(r) \/ Issue(r)
      PROVE  \A q \in Requests : pc'[q] \notin Authenticated
  BY <1>1, <1>3 DEF Refuse, Issue, Return, Authenticated
<1>4. ASSUME NEW r \in Requests, Login(r) \/ CreateInitialUser(r)
      PROVE  \A q \in Requests : pc'[q] \notin Authenticated
  BY <1>1, <1>4 DEF Login, CreateInitialUser, Knock, Authenticated
<1>5. ASSUME NEW r \in Requests, SessionByToken(r)
      PROVE  FALSE
  BY <1>1, <1>5 DEF SessionByToken
<1>6. ASSUME NEW r \in Requests,
             \/ Authorize(r) \/ Check(r) \/ CreateUser(r) \/ DisableUser(r)
             \/ SetFleetOwner(r) \/ RevokeUserSessions(r) \/ SetServerGrant(r)
             \/ RevokeServerGrant(r) \/ RevokeSession(r) \/ ReauthenticateSession(r)
      PROVE  FALSE
  <2>1. pc[r] \notin {"authorize", "check", "write"}
    BY <1>1 DEF Authenticated
  <2> QED
    BY <1>6, <2>1 DEF Authorize, Check, CreateUser, DisableUser, SetFleetOwner,
         RevokeUserSessions, SetServerGrant, RevokeServerGrant, RevokeSession,
         ReauthenticateSession, Writes
<1> QED
  BY <1>2, <1>3, <1>4, <1>5, <1>6 DEF Next

(* A set-up installation always has a fleet owner who is not disabled,
   however the requests that disable and demote owners interleave. *)
THEOREM OwnerRemains == Spec => []ActiveOwnerExists
<1>1. Init => OwnerInv
  <2>1. Init => NobodyBeforeSetup /\ ActiveOwnerExists
    BY DEF Init, NobodyBeforeSetup, ActiveOwnerExists, Authenticated
  <2>2. NoRequest \in Request
    BY DEF NoRequest, Request, FleetOps, GrantOps, OwnOps
  <2> QED
    BY <2>1, <2>2 DEF OwnerInv, Init, TypeOK
<1>2. ASSUME OwnerInv, Next
      PROVE  OwnerInv'
  <2> USE DEF OwnerInv
  <2>1. TypeOK' /\ NobodyBeforeSetup'
    BY <1>2, TypeStep, NobodyBeforeSetupStep
  <2>2. ActiveOwnerExists'
    <3> USE DEF ActiveOwnerExists, ActiveOwners
    <3>1. CASE UNCHANGED accounts
      BY <1>2, <3>1 DEF accounts
    <3>2. CASE /\ users = {}
               /\ \E u \in Users : users' = {u} /\ owners' = {u}
               /\ UNCHANGED disabled
      BY <1>2, <3>2 DEF TypeOK
    <3>3. ASSUME NEW r \in Requests, pc[r] = "write"
          PROVE  users # {}
      BY <1>2, <3>3 DEF NobodyBeforeSetup, Authenticated
    <3>4. ASSUME NEW r \in Requests, users # {},
                 users' = users \cup {req[r].target}, UNCHANGED <<owners, disabled>>
          PROVE  ActiveOwnerExists'
      BY <1>2, <3>4
    <3>5. ASSUME NEW r \in Requests, users # {}, UNCHANGED users,
                 \/ /\ ActiveOwners # {req[r].target}
                    /\ disabled' = disabled \cup {req[r].target}
                    /\ UNCHANGED owners
                 \/ /\ req[r].target \notin disabled
                    /\ owners' = owners \cup {req[r].target}
                    /\ UNCHANGED disabled
                 \/ /\ ActiveOwners # {req[r].target}
                    /\ owners' = owners \ {req[r].target}
                    /\ UNCHANGED disabled
          PROVE  ActiveOwnerExists'
      BY <1>2, <3>5
    <3> QED
      BY <1>2, <3>1, <3>2, <3>3, <3>4, <3>5, AccountSteps
  <2> QED
    BY <2>1, <2>2
<1>3. OwnerInv /\ UNCHANGED vars => OwnerInv'
  BY DEF OwnerInv, TypeOK, NobodyBeforeSetup, ActiveOwnerExists, ActiveOwners, vars
<1> QED
  BY <1>1, <1>2, <1>3, PTL DEF Spec, OwnerInv

(* No disabled account becomes a fleet owner, not even one that is disabled
   between the handler's look at it and its transaction. *)
THEOREM DisabledNotPromoted == Spec => NoPromotionOfDisabled
<1>1. ASSUME TypeOK, [Next]_vars
      PROVE  [\A u \in disabled : u \in owners' => u \in owners]_vars
  <2>1. CASE Next
    <3> USE <1>1
    <3>1. CASE UNCHANGED accounts
      BY <3>1 DEF accounts
    <3>2. CASE users = {}
      BY <3>2 DEF TypeOK
    <3> QED
      BY <2>1, <3>1, <3>2, AccountSteps
  <2> QED
    BY <1>1, <2>1
<1> QED
  BY <1>1, TypeCorrect, PTL DEF Spec, NoPromotionOfDisabled

(* A request that has passed authorize for a fleet route read an owner's
   session. *)
OwnerDecided ==
  \A r \in Requests :
    pc[r] \in {"check", "write"} /\ req[r].op \in FleetOps => req[r].owner

LEMMA OwnerDecidedStep ==
  ASSUME TypeOK, OwnerDecided, Next
  PROVE  OwnerDecided'
<1> USE DEF OwnerDecided, TypeOK
<1>1. ASSUME NEW r \in Requests, Return(r)
      PROVE  OwnerDecided'
  BY <1>1 DEF Return
<1>2. ASSUME NEW r \in Requests, NEW o \in {"login", "setup"}, NEW u \in Users, Knock(r, o, u)
      PROVE  OwnerDecided'
  BY <1>2 DEF Knock
<1>3. ASSUME NEW r \in Requests, SessionByToken(r)
      PROVE  OwnerDecided'
  <2>1. /\ pc' = [pc EXCEPT ![r] = "authorize"]
        /\ \A q \in Requests \ {r} : req'[q] = req[q]
    <3>1. PICK q : req' = [req EXCEPT ![r] = q]
      BY <1>3, Zenon DEF SessionByToken, ReadSession
    <3>2. pc' = [pc EXCEPT ![r] = "authorize"]
      BY <1>3, Zenon DEF SessionByToken, ReadSession
    <3> QED
      BY <3>1, <3>2
  <2> QED
    BY <2>1
<1>4. ASSUME NEW r \in Requests, Authorize(r)
      PROVE  OwnerDecided'
  BY <1>4 DEF Authorize, Goto, FleetOps, GrantOps, OwnOps
<1>5. ASSUME NEW r \in Requests, Check(r)
      PROVE  OwnerDecided'
  BY <1>5 DEF Check, Goto
<1>6. CASE Expire
  BY <1>6 DEF Expire
<1> QED
  BY <1>1, <1>2, <1>3, <1>4, <1>5, <1>6
     DEF Next, Refuse, Login, CreateInitialUser, Issue, Writes, CreateUser,
         DisableUser, SetFleetOwner, RevokeUserSessions, SetServerGrant,
         RevokeServerGrant, RevokeSession, ReauthenticateSession

(* After setup accounts change only by a request that was authorized as a
   fleet owner's: no server administrator and no second setup changes them. *)
THEOREM OwnersChangeAccounts == Spec => AccountsChangedByOwners
<1>1. Init => OwnerDecided
  BY DEF Init, OwnerDecided
<1>2. OwnerDecided /\ UNCHANGED vars => OwnerDecided'
  BY DEF OwnerDecided, vars
<1>3. ASSUME TypeOK, OwnerDecided, [Next]_vars
      PROVE  [UNCHANGED accounts \/ users = {}
              \/ \E r \in Requests : pc[r] = "write" /\ req[r].owner /\ pc'[r] = "idle"]_vars
  BY <1>3, AccountSteps DEF OwnerDecided
<1> QED
  BY <1>1, <1>2, <1>3, TypeCorrect, OwnerDecidedStep, PTL
     DEF Spec, AccountsChangedByOwners

-----------------------------------------------------------------------------
(* A disabled account begins no further request, whatever sessions it has. *)
THEOREM DisabledStaysOut == Spec => DisabledLockedOut
<1>1. ASSUME TypeOK, [Next]_vars
      PROVE  [\A u \in disabled : InFlight(u)' \subseteq InFlight(u)]_vars
  <2> SUFFICES ASSUME NEW u \in disabled, Next
               PROVE  InFlight(u)' \subseteq InFlight(u)
    BY <1>1
  <2> USE DEF InFlight, TypeOK, Authenticated
  <2>1. ASSUME NEW r \in Requests, Return(r)
        PROVE  InFlight(u)' \subseteq InFlight(u)
    BY <1>1, <2>1 DEF Return
  <2>2. ASSUME NEW r \in Requests, NEW o \in {"login", "setup"}, NEW v \in Users, Knock(r, o, v)
        PROVE  InFlight(u)' \subseteq InFlight(u)
    BY <1>1, <2>2 DEF Knock
  <2>3. ASSUME NEW r \in Requests, SessionByToken(r)
        PROVE  InFlight(u)' \subseteq InFlight(u)
    <3>1. PICK t \in Tokens : session[t] \in users \ disabled /\ ReadSession(r, t)
      BY <2>3 DEF SessionByToken
    <3>2. PICK q : req' = [req EXCEPT ![r] = q] /\ q.actor = session[t]
      <4>1. CASE \E own \in OwnOps : req' = [req EXCEPT ![r] =
               [NoRequest EXCEPT !.op = own, !.token = t, !.actor = session[t]]]
        <5>1. PICK own \in OwnOps : req' = [req EXCEPT ![r] =
                [NoRequest EXCEPT !.op = own, !.token = t, !.actor = session[t]]]
          BY <4>1
        <5>2. [NoRequest EXCEPT !.op = own, !.token = t, !.actor = session[t]].actor
                = session[t]
          BY DEF NoRequest
        <5> QED
          BY <5>1, <5>2
      <4>2. CASE ~ \E own \in OwnOps : req' = [req EXCEPT ![r] =
               [NoRequest EXCEPT !.op = own, !.token = t, !.actor = session[t]]]
        <5> DEFINE Read(o, v) ==
              [op |-> o, target |-> v, token |-> Nobody, actor |-> session[t],
               owner |-> session[t] \in owners,
               recent |-> o \in {"promote", "demote"} /\ t \in recent]
        <5>1. PICK o \in FleetOps \cup GrantOps, v \in Users :
                 req' = [req EXCEPT ![r] = Read(o, v)]
          BY <3>1, <4>2, Zenon DEF ReadSession
        <5>2. Read(o, v).actor = session[t]
          OBVIOUS
        <5> QED
          BY <5>1, <5>2
      <4> QED
        BY <4>1, <4>2
    <3>3. pc' = [pc EXCEPT ![r] = "authorize"]
      BY <3>1, Zenon DEF ReadSession
    <3> QED
      BY <1>1, <3>1, <3>2, <3>3
  <2>4. ASSUME NEW r \in Requests, Authorize(r) \/ Check(r)
        PROVE  InFlight(u)' \subseteq InFlight(u)
    BY <1>1, <2>4 DEF Authorize, Check, Goto
  <2>5. CASE Expire
    BY <2>5 DEF Expire
  <2>6. ASSUME NEW r \in Requests, Login(r) \/ CreateInitialUser(r)
        PROVE  InFlight(u)' \subseteq InFlight(u)
    <3>1. \E o \in {"login", "setup"}, v \in Users : Knock(r, o, v)
      BY <1>1, <2>6, Zenon DEF Login, CreateInitialUser
    <3> QED
      BY <2>2, <3>1, Zenon
  <2>7. ASSUME NEW r \in Requests,
               \/ Refuse(r) \/ Issue(r) \/ CreateUser(r) \/ DisableUser(r)
               \/ SetFleetOwner(r) \/ RevokeUserSessions(r) \/ SetServerGrant(r)
               \/ RevokeServerGrant(r) \/ RevokeSession(r) \/ ReauthenticateSession(r)
        PROVE  Return(r)
    BY <2>7 DEF Refuse, Issue, Writes, CreateUser, DisableUser, SetFleetOwner,
         RevokeUserSessions, SetServerGrant, RevokeServerGrant, RevokeSession,
         ReauthenticateSession
  <2> HIDE DEF InFlight, TypeOK, Authenticated
  <2> QED
    BY <2>1, <2>3, <2>4, <2>5, <2>6, <2>7, Zenon DEF Next
<1> QED
  BY <1>1, TypeCorrect, PTL DEF Spec, DisabledLockedOut
=============================================================================
