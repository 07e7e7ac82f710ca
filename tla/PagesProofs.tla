----------------------------- MODULE PagesProofs -----------------------------
(***************************************************************************)
(* Proofs about the pages of the browser: what SignIn states of one tab    *)
(* holds for every number of sessions, and what Surfaces states of the     *)
(* dialogs and requests of the pages for every number of requests.         *)
(***************************************************************************)
EXTENDS SignIn, Surfaces, TLAPS
-----------------------------------------------------------------------------
(* Signing in and out *)

Kinds == {"none", "setupStatus", "session", "setup", "login", "logout", "read", "act"}
Answers == {"none", "ok", "failed", "refused", "unauthenticated"}

(* Requests that name sessions up to n. *)
Requests(n) ==
  [state : {"idle", "sent", "answered"}, kind : Kinds, cookie : 0..n, token : -1..n,
   answer : Answers, value : 0..n, tries : 0..1]

SetupQueries == [data : {"unknown", "required", "installed"}, failed : BOOLEAN]
SessionQueries(n) == [data : -1..n, failed : BOOLEAN]

Counted ==
  /\ issued \in 0..MaxIssued /\ valid \subseteq 1..issued
  /\ jar \in 0..issued /\ ended \subseteq 1..issued

Flagged == installed \in BOOLEAN

IsRequest(r, n) == r \in Requests(n) /\ (r.state = "idle" => r = NoRequest)

Cached == setupQuery \in SetupQueries /\ sessionQuery \in SessionQueries(issued)

(* What the tab holds, or may still hear, is no session it has signed out of. *)
Ended ==
  /\ ended \intersect valid = {}
  /\ sessionQuery.data \notin ended
  /\ sessionRead.value \notin ended /\ signing.value \notin ended
  /\ (signing.kind = "logout" /\ signing.answer = "ok")
       => signing.cookie \in 1..issued /\ signing.cookie \notin valid

SignInv ==
  /\ Counted /\ Flagged /\ Cached
  /\ IsRequest(setupRead, issued) /\ IsRequest(sessionRead, issued)
  /\ IsRequest(signing, issued) /\ IsRequest(call, issued)
  /\ Ended /\ ActsAsShown

-----------------------------------------------------------------------------
(* What a step does to what the tab holds *)

LEMMA Fields ==
  ASSUME NEW n \in Nat, NEW r \in Requests(n)
  PROVE  /\ r.cookie \in 0..n /\ r.token \in -1..n /\ r.value \in 0..n
         /\ r.kind \in Kinds /\ r.answer \in Answers /\ r.tries \in 0..1
  BY DEF Requests

LEMMA IdleRequest ==
  ASSUME NEW n \in Nat
  PROVE  /\ IsRequest(NoRequest, n) /\ NoRequest.value = 0 /\ NoRequest.kind = "none"
         /\ NoRequest.answer = "none" /\ NoRequest.state = "idle"
  BY DEF IsRequest, Requests, NoRequest, Kinds, Answers, Nobody

LEMMA SentRequest ==
  ASSUME NEW n \in Nat, jar \in 0..n, sessionQuery \in SessionQueries(n), NEW kind \in Kinds
  PROVE  /\ IsRequest(Asking(kind), n) /\ Asking(kind).value = 0
         /\ Asking(kind).answer = "none" /\ Asking(kind).kind = kind
<1> DEFINE c == IF kind \in {"setupStatus", "setup", "login"} THEN Nobody ELSE jar
           k == IF kind \in Mutations THEN sessionQuery.data ELSE Nobody
<1>1. c \in 0..n /\ k \in -1..n
  BY DEF SessionQueries, Nobody
<1>2. Asking(kind) = [NoRequest EXCEPT !.state = "sent", !.kind = kind, !.cookie = c, !.token = k]
  BY Zenon DEF Asking
<1> HIDE DEF c, k
<1> DEFINE a == [state |-> "sent", kind |-> kind, cookie |-> c, token |-> k,
                 answer |-> "none", value |-> 0, tries |-> 0]
<1>3. "none" \in Answers /\ 0 \in 0..n /\ 0 \in 0..1
  BY DEF Answers
<1>4. a \in Requests(n)
  BY <1>1, <1>3 DEF Requests
<1>5. a.value = 0 /\ a.answer = "none" /\ a.kind = kind /\ a.state # "idle"
  OBVIOUS
<1>6. Asking(kind) = a
  BY <1>2 DEF NoRequest, Nobody
<1> HIDE DEF a
<1> QED
  BY <1>4, <1>5, <1>6 DEF IsRequest

LEMMA AnsweredRequest ==
  ASSUME NEW n \in Nat, NEW r \in Requests(n), NEW answer \in Answers, NEW value \in 0..n
  PROVE  LET a == Answering(r, answer, value)
         IN /\ IsRequest(a, n) /\ a.value = value /\ a.answer = answer
            /\ a.kind = r.kind /\ a.cookie = r.cookie /\ a.token = r.token
  BY DEF Answering, IsRequest, Requests

LEMMA RetriedRequest ==
  ASSUME NEW n \in Nat, NEW r \in Requests(n), r.state # "idle"
  PROVE  IsRequest([r EXCEPT !.tries = 1], n)
  BY DEF IsRequest, Requests

LEMMA MoreSessions ==
  ASSUME NEW n \in Nat, NEW k \in Nat, n <= k
  PROVE  /\ \A r : IsRequest(r, n) => IsRequest(r, k)
         /\ SessionQueries(n) \subseteq SessionQueries(k)
  BY DEF IsRequest, Requests, SessionQueries

LEMMA SessionCached ==
  ASSUME NEW n \in Nat, NEW d \in -1..n
  PROVE  /\ [data |-> d, failed |-> FALSE] \in SessionQueries(n)
         /\ [data |-> d, failed |-> FALSE].data = d
  BY DEF SessionQueries

LEMMA SessionKept ==
  ASSUME NEW n \in Nat, NEW q \in SessionQueries(n)
  PROVE  /\ [q EXCEPT !.failed = TRUE] \in SessionQueries(n)
         /\ [q EXCEPT !.failed = TRUE].data = q.data
  BY DEF SessionQueries

LEMMA SetupCached == [data |-> "installed", failed |-> FALSE] \in SetupQueries
  BY DEF SetupQueries

LEMMA KnownFacts ==
  ASSUME SignInv
  PROVE  /\ issued \in Nat /\ MaxIssued \in Nat /\ 0 \in 0..issued /\ 0 \notin ended
         /\ \A r \in {setupRead, sessionRead, signing, call} :
              r \in Requests(issued) /\ r.cookie \in 0..issued
  BY SignInBounds, Fields DEF SignInv, Counted, IsRequest

LEMMA SignInvInit == SignInit => SignInv
<1> SUFFICES ASSUME SignInit PROVE SignInv
  OBVIOUS
<1>1. issued \in {0, 1} /\ valid = 1..issued /\ jar \in {0, issued} /\ ended = {}
  <2>1. CASE valid = {} /\ issued = 0 /\ jar = Nobody
    BY <2>1 DEF SignInit, Nobody
  <2>2. CASE valid = {1} /\ issued = 1 /\ jar \in {Nobody, 1}
    BY <2>2 DEF SignInit, Nobody
  <2> QED
    BY <2>1, <2>2, Zenon DEF SignInit
<1>2. Counted
  BY <1>1, SignInBounds DEF Counted
<1>3. Flagged
  BY DEF SignInit, Flagged
<1>4. setupQuery \in SetupQueries /\ sessionQuery \in SessionQueries(issued)
  BY <1>1 DEF SignInit, FreshSetup, FreshSession, Unknown, SetupQueries, SessionQueries
<1>5. IsRequest(setupRead, issued)
  BY <1>1, <1>4, SentRequest DEF SignInit, Kinds
<1>6. IsRequest(sessionRead, issued) /\ IsRequest(signing, issued) /\ IsRequest(call, issued)
  BY <1>1, IdleRequest DEF SignInit
<1>7. Ended
  BY <1>1, IdleRequest DEF SignInit, Ended
<1>8. ActsAsShown
  BY IdleRequest DEF SignInit, ActsAsShown
<1> QED
  BY <1>2, <1>3, <1>4, <1>5, <1>6, <1>7, <1>8 DEF SignInv, Cached

(* Steps that neither issue a session nor concern the request that signs in or out. *)
LEMMA QuietStep ==
  ASSUME SignInv, UNCHANGED <<installed, issued, ended, signing>>,
         valid' \subseteq valid, jar' \in {jar, 0},
         setupQuery' \in SetupQueries, sessionQuery' \in SessionQueries(issued),
         sessionQuery'.data \notin ended, sessionRead'.value \notin ended,
         IsRequest(setupRead', issued), IsRequest(sessionRead', issued),
         IsRequest(call', issued), ActsAsShown'
  PROVE  SignInv'
<1>1. Counted'
  BY DEF SignInv, Counted
<1>2. Flagged' /\ Cached'
  BY DEF SignInv, Flagged, Cached
<1>3. Ended'
  BY DEF SignInv, Ended
<1>4. /\ IsRequest(setupRead, issued)' /\ IsRequest(sessionRead, issued)'
      /\ IsRequest(signing, issued)' /\ IsRequest(call, issued)'
  BY DEF SignInv
<1> QED
  BY <1>1, <1>2, <1>3, <1>4 DEF SignInv

(* Steps of the request that signs in or out; those of logging in issue a session. *)
LEMMA SigningStep ==
  ASSUME SignInv,
         UNCHANGED <<installed, issued, jar, boundary, call, ended>>,
         valid' \subseteq valid, IsRequest(signing', issued), signing'.value \notin ended,
         (signing'.kind = "logout" /\ signing'.answer = "ok")
           => signing'.cookie \in 1..issued /\ signing'.cookie \notin valid'
  PROVE  SignInv'
<1>1. Counted' /\ Flagged' /\ Cached'
  BY DEF SignInv, Counted, Flagged, Cached, boundary
<1>2. Ended'
  BY DEF SignInv, Ended, boundary
<1>3. /\ IsRequest(setupRead, issued)' /\ IsRequest(sessionRead, issued)'
      /\ IsRequest(signing, issued)' /\ IsRequest(call, issued)' /\ ActsAsShown'
  BY DEF SignInv, ActsAsShown, boundary
<1> QED
  BY <1>1, <1>2, <1>3 DEF SignInv

(* A session is issued, to this tab or to another. *)
LEMMA IssueStep ==
  ASSUME SignInv, IssueNext, installed' = TRUE, jar' \in {jar, issued + 1},
         signing' \in {signing, Answering(signing, "ok", issued + 1)},
         signing' # signing => signing.state # "idle" /\ signing.kind # "logout",
         UNCHANGED <<boundary, call, ended>>
  PROVE  SignInv'
<1> DEFINE n == issued + 1
<1>1. /\ issued \in Nat /\ n \in Nat /\ issued <= n /\ n \in 1..n /\ issued' = n
      /\ n \in 0..MaxIssued /\ valid' = valid \union {n} /\ n \notin ended
  BY SignInBounds DEF SignInv, Counted, IssueNext
<1>2. Counted'
  BY <1>1 DEF SignInv, Counted
<1>3. Flagged'
  BY DEF Flagged
<1>4. Cached'
  BY <1>1, MoreSessions DEF SignInv, Cached, boundary
<1>5. /\ IsRequest(setupRead, n) /\ IsRequest(sessionRead, n)
      /\ IsRequest(signing, n) /\ IsRequest(call, n)
  BY <1>1, MoreSessions DEF SignInv
<1>6. /\ IsRequest(signing', n) /\ signing'.value \in {signing.value, n}
      /\ signing'.kind = signing.kind /\ signing'.cookie = signing.cookie
      /\ signing'.kind = "logout" => signing' = signing
  <2>1. signing \in Requests(n) /\ n \in 0..n /\ "ok" \in Answers
    BY <1>1, <1>5 DEF IsRequest, Answers
  <2> HIDE DEF n
  <2>2. CASE signing' = signing
    BY <2>2, <1>5
  <2>3. CASE signing' = Answering(signing, "ok", n) /\ signing' # signing
    BY <2>1, <2>3, <1>1, AnsweredRequest
  <2> QED
    BY <2>2, <2>3 DEF n
<1>7. Ended'
  BY <1>1, <1>6 DEF SignInv, Ended, Counted, boundary
<1>8. ActsAsShown'
  BY DEF SignInv, ActsAsShown
<1> QED
  BY <1>1, <1>2, <1>3, <1>4, <1>5, <1>6, <1>7, <1>8 DEF SignInv, boundary

(* The page is loaded anew, after a sign-out or because the user did so. *)
LEMMA ReloadStep ==
  ASSUME SignInv, Reload, UNCHANGED accounts, jar' \in {jar, 0},
         \/ ended' = ended
         \/ /\ ended' = ended \union {signing.cookie}
            /\ signing.kind = "logout" /\ signing.answer = "ok"
  PROVE  SignInv'
<1>1. /\ UNCHANGED <<installed, valid, issued>> /\ issued \in Nat
      /\ ended' \subseteq 1..issued /\ ended' \intersect valid = {}
  BY KnownFacts DEF SignInv, Counted, Ended, accounts
<1>2. Counted' /\ Flagged'
  BY <1>1 DEF SignInv, Counted, Flagged
<1>3. setupQuery' \in SetupQueries
  BY DEF Reload, FreshSetup, SetupQueries
<1>4. sessionQuery' \in SessionQueries(issued) /\ sessionQuery'.data = -1
  BY <1>1 DEF Reload, FreshSession, Unknown, SessionQueries
<1>5. IsRequest(setupRead', issued)
  BY <1>1, SentRequest, KnownFacts DEF Reload, Kinds, SignInv, Counted, Cached
<1>6. /\ sessionRead' = NoRequest /\ signing' = NoRequest /\ call' = NoRequest
  BY DEF Reload
<1>7. Ended'
  BY <1>1, <1>4, <1>6, IdleRequest DEF Ended
<1>8. ActsAsShown'
  BY <1>1, <1>6, IdleRequest DEF ActsAsShown
<1> QED
  BY <1>1, <1>2, <1>3, <1>4, <1>5, <1>6, <1>7, <1>8, IdleRequest DEF SignInv, Cached

(* The tab's requests are served, and sessions end. *)
LEMMA ServerKeepsSign ==
  ASSUME SignInv,
         ServeSessionRead \/ ServeCall \/ \E s \in Sessions : SessionEnds(s)
  PROVE  SignInv'
<1>0. /\ issued \in Nat /\ 0 \in 0..issued /\ 0 \notin ended
      /\ sessionRead \in Requests(issued) /\ call \in Requests(issued)
      /\ sessionRead.cookie \in 0..issued /\ call.cookie \in 0..issued
  BY KnownFacts
<1>1. CASE ServeSessionRead
  <2>1. /\ UNCHANGED <<installed, issued, ended, signing, valid, jar, setupQuery>>
        /\ UNCHANGED <<setupRead, sessionQuery, call>>
    BY <1>1 DEF ServeSessionRead, accounts
  <2>2. \E answer \in Answers, value \in 0..issued :
          sessionRead' = Answering(sessionRead, answer, value) /\ value \notin ended
    <3>1. "failed" \in Answers /\ "ok" \in Answers /\ "unauthenticated" \in Answers
      BY DEF Answers
    <3>2. sessionRead.cookie \in valid => sessionRead.cookie \notin ended
      BY DEF SignInv, Ended
    <3> QED
      BY <1>0, <1>1, <3>1, <3>2, Zenon DEF ServeSessionRead, Authenticates, Nobody
  <2>3. IsRequest(sessionRead', issued) /\ sessionRead'.value \notin ended
    BY <1>0, <2>2, AnsweredRequest
  <2> QED
    BY <2>1, <2>3, QuietStep DEF SignInv, Cached, Ended, ActsAsShown
<1>2. CASE ServeCall
  <2>1. /\ UNCHANGED <<installed, issued, ended, signing, valid, jar, setupQuery>>
        /\ UNCHANGED <<setupRead, sessionQuery, sessionRead>>
    BY <1>2 DEF ServeCall, accounts, boundary
  <2>2. \E answer \in Answers, value \in 0..issued :
          /\ call' = Answering(call, answer, value)
          /\ answer = "ok" /\ call.kind = "act" => value = call.cookie /\ call.token = call.cookie
    <3>1. "refused" \in Answers /\ "ok" \in Answers /\ "unauthenticated" \in Answers
      BY DEF Answers
    <3>2. PICK lookedUp \in BOOLEAN :
            call' = IF ~Authenticates(call, lookedUp)
                      THEN Answering(call, "unauthenticated", 0)
                    ELSE IF call.kind = "act" /\ call.token # call.cookie
                      THEN Answering(call, "refused", 0)
                    ELSE Answering(call, "ok", call.cookie)
      BY <1>2, Zenon DEF ServeCall, Nobody
    <3>3. "refused" # "ok" /\ "unauthenticated" # "ok"
      OBVIOUS
    <3> QED
      BY <1>0, <3>1, <3>2, <3>3, Zenon
  <2>3. IsRequest(call', issued) /\ ActsAsShown'
    BY <1>0, <2>2, AnsweredRequest DEF ActsAsShown
  <2> QED
    BY <2>1, <2>3, QuietStep DEF SignInv, Cached, Ended
<1>3. CASE \E s \in Sessions : SessionEnds(s)
  <2>1. /\ UNCHANGED <<installed, issued, ended, signing, call>> /\ valid' \subseteq valid
        /\ UNCHANGED <<setupQuery, setupRead, sessionQuery, sessionRead>>
        /\ jar' \in {jar, 0}
    BY <1>3 DEF SessionEnds, boundary, Nobody
  <2> QED
    BY <2>1, QuietStep DEF SignInv, Cached, Ended, ActsAsShown
<1> QED
  BY <1>1, <1>2, <1>3

(* The tab hears of the setup status and of its session, and asks anew. *)
LEMMA QueriesKeepSign ==
  ASSUME SignInv,
         \/ SetupHeard(SetupAnswer) \/ SetupFails \/ SessionHeard \/ SessionRetried
         \/ (\E kind \in {"read", "act"} : SubmitCall(kind)) \/ CallHeard
  PROVE  SignInv'
<1>0. /\ issued \in Nat /\ 0 \in 0..issued /\ 0 \notin ended
      /\ jar \in 0..issued /\ sessionQuery \in SessionQueries(issued)
      /\ setupQuery \in SetupQueries /\ sessionQuery.data \notin ended
      /\ -1 \notin ended
  BY KnownFacts DEF SignInv, Counted, Cached, Ended
<1>a. \A kind \in Kinds : IsRequest(Asking(kind), issued) /\ Asking(kind).value \notin ended
  BY <1>0, SentRequest
<1>b. IsRequest(NoRequest, issued) /\ NoRequest.value \notin ended /\ NoRequest.kind # "act"
  BY <1>0, IdleRequest
<1>c. FreshSession \in SessionQueries(issued) /\ FreshSession.data \notin ended
  BY <1>0 DEF FreshSession, SessionQueries, Unknown
<1>d. "setupStatus" \in Kinds /\ "session" \in Kinds /\ "read" \in Kinds /\ "act" \in Kinds
  BY DEF Kinds
<1>e. \A request : Cleared(request) \in {jar, 0}
  BY DEF Cleared, Nobody
<1>1. CASE SetupHeard(SetupAnswer)
  <2>1. /\ UNCHANGED <<installed, valid, issued, jar, sessionQuery, signing, call, ended>>
        /\ setupRead' = NoRequest /\ sessionRead' \in {sessionRead, Asking("session")}
    BY <1>1 DEF SetupHeard, ReadSessionIf, accounts
  <2>2. setupQuery' \in SetupQueries
    BY <1>1 DEF SetupHeard, SetupAnswer, SetupQueries
  <2>3. IsRequest(sessionRead', issued) /\ sessionRead'.value \notin ended
    BY <1>a, <1>d, <2>1 DEF SignInv, Ended
  <2> QED
    BY <1>0, <1>b, <2>1, <2>2, <2>3, QuietStep DEF SignInv, ActsAsShown
<1>2. CASE SetupFails
  <2>1. /\ UNCHANGED <<installed, valid, issued, jar, sessionQuery, signing, call, ended>>
        /\ UNCHANGED sessionRead
    BY <1>2 DEF SetupFails, accounts
  <2>2. setupQuery' \in SetupQueries
    BY <1>0, <1>2 DEF SetupFails, SetupQueries
  <2>3. IsRequest(setupRead', issued)
    <3>1. setupRead \in Requests(issued) /\ setupRead.state # "idle"
      BY <1>2 DEF SignInv, IsRequest, SetupFails
    <3>2. setupRead' \in {NoRequest, [setupRead EXCEPT !.tries = 1]}
      BY <1>2 DEF SetupFails
    <3> QED
      BY <1>0, <1>b, <3>1, <3>2, RetriedRequest
  <2> QED
    BY <1>0, <2>1, <2>2, <2>3, QuietStep DEF SignInv, Ended, ActsAsShown
<1>3. CASE SessionHeard
  <2>1. /\ UNCHANGED <<installed, valid, issued, setupQuery, setupRead, signing, call, ended>>
        /\ sessionRead' = NoRequest /\ jar' \in {jar, 0}
    BY <1>3, <1>e DEF SessionHeard, accounts
  <2>2. sessionRead.value \in 0..issued /\ sessionRead.value \notin ended
    BY <1>0, Fields DEF SignInv, IsRequest, Ended
  <2>3. sessionQuery' \in SessionQueries(issued) /\ sessionQuery'.data \notin ended
    <3>1. sessionRead.value \in -1..issued
      BY <1>0, <2>2
    <3>2. \/ sessionQuery' = [sessionQuery EXCEPT !.failed = TRUE]
          \/ sessionQuery' = [data |-> sessionRead.value, failed |-> FALSE]
      BY <1>3, Zenon DEF SessionHeard
    <3> QED
      BY <1>0, <2>2, <3>1, <3>2, SessionCached, SessionKept
  <2> QED
    BY <1>0, <1>b, <2>1, <2>3, QuietStep DEF SignInv, ActsAsShown
<1>4. CASE SessionRetried
  <2>1. /\ UNCHANGED <<installed, valid, issued, jar, setupQuery, setupRead, signing, call, ended>>
        /\ sessionRead' = Asking("session") /\ sessionQuery' \in {sessionQuery, FreshSession}
    BY <1>4 DEF SessionRetried, accounts
  <2>2. sessionQuery' \in SessionQueries(issued) /\ sessionQuery'.data \notin ended
    BY <1>0, <1>c, <2>1
  <2>3. IsRequest(sessionRead', issued) /\ sessionRead'.value \notin ended
    BY <1>a, <1>d, <2>1
  <2> QED
    BY <1>0, <2>1, <2>2, <2>3, QuietStep DEF SignInv, ActsAsShown
<1>5. CASE \E kind \in {"read", "act"} : SubmitCall(kind)
  <2>1. /\ UNCHANGED <<installed, valid, issued, jar, setupQuery, setupRead, signing, ended>>
        /\ UNCHANGED <<sessionQuery, sessionRead>>
    BY <1>5 DEF SubmitCall, accounts, boundary
  <2>2. PICK kind \in Kinds : call' = Asking(kind)
    BY <1>5, <1>d DEF SubmitCall
  <2>3. IsRequest(call', issued) /\ ActsAsShown'
    BY <1>0, <1>a, <2>2, SentRequest DEF ActsAsShown
  <2> QED
    BY <1>0, <2>1, <2>3, QuietStep DEF SignInv, Ended
<1>6. CASE CallHeard
  <2>1. /\ UNCHANGED <<installed, valid, issued, setupQuery, signing, ended>>
        /\ call' = NoRequest /\ jar' \in {jar, 0}
    BY <1>6, <1>e DEF CallHeard, accounts
  <2>2. /\ setupRead' \in {setupRead, Asking("setupStatus")}
        /\ sessionRead' \in {sessionRead, Asking("session")}
        /\ sessionQuery' \in {sessionQuery, FreshSession}
    BY <1>6 DEF CallHeard, ReadSessionIf
  <2>3. IsRequest(setupRead', issued)
    BY <1>a, <1>d, <2>2 DEF SignInv
  <2>4. IsRequest(sessionRead', issued) /\ sessionRead'.value \notin ended
    BY <1>a, <1>d, <2>2 DEF SignInv, Ended
  <2>5. sessionQuery' \in SessionQueries(issued) /\ sessionQuery'.data \notin ended
    BY <1>0, <1>c, <2>2
  <2>6. IsRequest(call', issued) /\ ActsAsShown'
    BY <1>b, <2>1 DEF ActsAsShown
  <2> QED
    BY <1>0, <2>1, <2>3, <2>4, <2>5, <2>6, QuietStep
<1> QED
  BY <1>1, <1>2, <1>3, <1>4, <1>5, <1>6

(* The request that signs in or out: sent, served, heard. *)
LEMMA SigningKeepsSign ==
  ASSUME SignInv,
         \/ SubmitSetup \/ SubmitLogin \/ SubmitSignOut \/ ServeSignIn \/ ServeSignOut
         \/ SignInHeard \/ SignOutSettles \/ UserReloads \/ OtherTabSignsIn
  PROVE  SignInv'
<1>0. /\ issued \in Nat /\ 0 \in 0..issued /\ 0 \notin ended
      /\ jar \in 0..issued /\ sessionQuery \in SessionQueries(issued)
      /\ signing \in Requests(issued)
  BY KnownFacts DEF SignInv, Counted, Cached
<1>1. CASE SubmitSetup \/ SubmitLogin \/ SubmitSignOut
  <2>1. UNCHANGED <<installed, issued, jar, boundary, call, ended>> /\ valid' = valid
    BY <1>1 DEF SubmitSetup, SubmitLogin, SubmitSignOut, SubmitForm, accounts
  <2>2. PICK kind \in Kinds : signing' = Asking(kind)
    BY <1>1 DEF SubmitSetup, SubmitLogin, SubmitSignOut, SubmitForm, Kinds
  <2>3. IsRequest(signing', issued) /\ signing'.value \notin ended /\ signing'.answer # "ok"
    BY <1>0, <2>2, SentRequest
  <2> QED
    BY <2>1, <2>3, SigningStep
<1>2. CASE ServeSignIn
  <2>0. /\ signing.state = "sent" /\ signing.kind \in {"setup", "login"}
        /\ UNCHANGED <<jar, boundary, call, ended>>
    BY <1>2 DEF ServeSignIn
  <2>1. CASE IssueNext /\ installed' = TRUE /\ signing' = Answering(signing, "ok", issued + 1)
    BY <2>0, <2>1, IssueStep
  <2>2. CASE signing' = Answering(signing, "refused", Nobody) /\ UNCHANGED accounts
    <3>1. IsRequest(signing', issued) /\ signing'.value \notin ended /\ signing'.answer # "ok"
      BY <1>0, <2>2, AnsweredRequest DEF Answers, Nobody
    <3> QED
      BY <2>0, <2>2, <3>1, SigningStep DEF accounts
  <2> QED
    BY <1>2, <2>1, <2>2 DEF ServeSignIn
<1>3. CASE ServeSignOut
  <2>1. UNCHANGED <<installed, issued, jar, boundary, call, ended>> /\ signing.kind = "logout"
    BY <1>3 DEF ServeSignOut
  <2>2. \/ /\ valid' = valid
           /\ \E answer \in Answers \ {"ok"} : signing' = Answering(signing, answer, 0)
        \/ /\ signing.cookie \in valid /\ valid' = valid \ {signing.cookie}
           /\ signing' = Answering(signing, "ok", 0)
    <3>1. "unauthenticated" \in Answers \ {"ok"} /\ "refused" \in Answers \ {"ok"}
      BY DEF Answers
    <3> QED
      BY <1>3, <3>1, Zenon DEF ServeSignOut, Authenticates, Nobody
  <2>3. CASE /\ valid' = valid
             /\ \E answer \in Answers \ {"ok"} : signing' = Answering(signing, answer, 0)
    <3>1. IsRequest(signing', issued) /\ signing'.value \notin ended /\ signing'.answer # "ok"
      BY <1>0, <2>3, AnsweredRequest
    <3> QED
      BY <2>1, <2>3, <3>1, SigningStep
  <2>4. CASE /\ signing.cookie \in valid /\ valid' = valid \ {signing.cookie}
             /\ signing' = Answering(signing, "ok", 0)
    <3>1. "ok" \in Answers
      BY DEF Answers
    <3>2. /\ IsRequest(signing', issued) /\ signing'.value \notin ended
          /\ signing'.cookie = signing.cookie
      BY <1>0, <2>4, <3>1, AnsweredRequest
    <3>3. signing'.cookie \in 1..issued /\ signing'.cookie \notin valid'
      BY <2>4, <3>2 DEF SignInv, Counted
    <3> QED
      BY <2>1, <2>4, <3>2, <3>3, SigningStep
  <2> QED
    BY <2>2, <2>3, <2>4
<1>4. CASE SignInHeard
  <2>1. /\ UNCHANGED <<installed, valid, issued, setupRead, sessionRead, call, ended>>
        /\ signing' = NoRequest
        /\ IF signing.answer = "ok"
             THEN /\ jar' = signing.value
                  /\ setupQuery' = [data |-> "installed", failed |-> FALSE]
                  /\ sessionQuery' = [data |-> signing.value, failed |-> FALSE]
             ELSE UNCHANGED <<jar, setupQuery, sessionQuery>>
    BY <1>4 DEF SignInHeard, accounts
  <2>2. signing.value \in 0..issued /\ signing.value \notin ended
    BY <1>0, Fields DEF SignInv, Ended
  <2>3. Counted' /\ Flagged'
    BY <2>1, <2>2 DEF SignInv, Counted, Flagged
  <2>4. setupQuery' \in SetupQueries
    BY <2>1, SetupCached, Zenon DEF SignInv, Cached
  <2>5. sessionQuery' \in SessionQueries(issued) /\ sessionQuery'.data \notin ended
    <3>1. signing.value \in -1..issued
      BY <1>0, <2>2
    <3>2. \/ sessionQuery' = sessionQuery
          \/ sessionQuery' = [data |-> signing.value, failed |-> FALSE]
      BY <2>1, Zenon
    <3> QED
      BY <1>0, <2>2, <3>1, <3>2, SessionCached DEF SignInv, Ended
  <2>6. Ended'
    BY <1>0, <2>1, <2>5, IdleRequest DEF SignInv, Ended
  <2>7. /\ IsRequest(setupRead, issued)' /\ IsRequest(sessionRead, issued)'
        /\ IsRequest(signing, issued)' /\ IsRequest(call, issued)' /\ ActsAsShown'
    BY <1>0, <2>1, IdleRequest DEF SignInv, ActsAsShown
  <2> QED
    BY <2>1, <2>3, <2>4, <2>5, <2>6, <2>7 DEF SignInv, Cached
<1>5. CASE SignOutSettles
  <2>1. jar' \in {jar, 0}
    BY <1>5 DEF SignOutSettles, Cleared, Nobody
  <2> QED
    BY <1>5, <2>1, ReloadStep DEF SignOutSettles
<1>6. CASE UserReloads
  BY <1>6, ReloadStep DEF UserReloads
<1>7. CASE OtherTabSignsIn
  BY <1>7, IssueStep DEF OtherTabSignsIn
<1> QED
  BY <1>1, <1>2, <1>3, <1>4, <1>5, <1>6, <1>7

LEMMA SignInvNext == SignInv /\ [SignNext]_signVars => SignInv'
<1> SUFFICES ASSUME SignInv, [SignNext]_signVars PROVE SignInv'
  OBVIOUS
<1>1. CASE TabStep
  BY <1>1, QueriesKeepSign, SigningKeepsSign DEF TabStep
<1>2. CASE ServerStep
  BY <1>2, ServerKeepsSign, SigningKeepsSign DEF ServerStep
<1>3. CASE UNCHANGED signVars
  BY <1>3 DEF signVars, SignInv, Counted, Flagged, Cached, Ended, ActsAsShown
<1> QED
  BY <1>1, <1>2, <1>3 DEF SignNext

LEMMA SignInvAlways == SignSpec => []SignInv
  BY SignInvInit, SignInvNext, PTL DEF SignSpec

-----------------------------------------------------------------------------
(* The theorems *)

(* The types of what the tab and the server hold (auth-hooks.ts, auth_handlers.go). *)
THEOREM SignTypeCorrect == SignSpec => []SignTypeOK
<1>1. SignInv => SignTypeOK
  BY KnownFacts, Fields
     DEF SignInv, Counted, Flagged, Cached, SetupQueries, SessionQueries, IsRequest, Requests,
         SignTypeOK
<1> QED
  BY <1>1, SignInvAlways, PTL

(* The server performs an action only for the account the dashboard showed when it was
   asked for, whatever became of the cookie (bootstrap.tsx:14, middleware.go:110). *)
THEOREM ActionsAsShown == SignSpec => []ActsAsShown
<1>1. SignInv => ActsAsShown
  BY DEF SignInv
<1> QED
  BY <1>1, SignInvAlways, PTL

(* A session the tab has signed out of is never shown again: no read of it is left that
   could still be heard (auth-hooks.ts:43-47). *)
THEOREM SignedOutIsOut == SignSpec => []SignedOutStaysOut
<1>1. SignInv => SignedOutStaysOut
  BY DEF SignInv, Ended, SignedOutStaysOut
<1> QED
  BY <1>1, SignInvAlways, PTL

-----------------------------------------------------------------------------
(* What keeps the dashboard on the screen *)

(* Sessions are issued to an installation; a setup status that is not known is being
   read or failed; and what an answer says of the session is known with it. *)
InstalledFirst == issued > 0 => installed

SetupWatched == setupQuery.data = "unknown" => setupRead.state # "idle" \/ setupQuery.failed

ReadAnswered ==
  sessionRead.state = "answered" =>
    \/ sessionRead.answer = "failed" \/ sessionRead.value \in Sessions
    \/ sessionRead.answer = "unauthenticated" /\ sessionRead.value = Nobody

SignInAnswered ==
  (signing.kind \in {"setup", "login"} /\ signing.answer = "ok") => signing.value \in Sessions

WatchInv == InstalledFirst /\ SetupWatched /\ ReadAnswered /\ SignInAnswered

LEMMA AskedState == \A kind : Asking(kind).state = "sent"
<1> SUFFICES ASSUME NEW kind PROVE Asking(kind).state = "sent"
  OBVIOUS
<1> QED
  BY DEF Asking, NoRequest

LEMMA InstalledStep ==
  ASSUME InstalledFirst, [SignNext]_signVars
  PROVE  InstalledFirst'
<1>1. CASE ServeSignIn \/ OtherTabSignsIn
  <2>1. installed' = TRUE \/ UNCHANGED <<installed, issued>>
    BY <1>1, Zenon DEF ServeSignIn, OtherTabSignsIn, accounts
  <2> QED
    BY <2>1 DEF InstalledFirst
<1>2. CASE UNCHANGED <<installed, issued>>
  BY <1>2 DEF InstalledFirst
<1>3. CASE TabStep \/ ServeSessionRead \/ ServeSignOut \/ ServeCall
           \/ (\E s \in Sessions : SessionEnds(s)) \/ UNCHANGED signVars
  <2>1. UNCHANGED <<installed, issued>>
    BY <1>3, Zenon
       DEF TabStep, SetupHeard, SetupFails, SessionHeard, SessionRetried, SubmitSetup,
           SubmitLogin, SubmitForm, SignInHeard, SubmitSignOut, SignOutSettles, SubmitCall,
           CallHeard, UserReloads, ServeSessionRead, ServeSignOut, ServeCall, SessionEnds,
           accounts, signVars
  <2> QED
    BY <1>2, <2>1
<1> QED
  BY <1>1, <1>3 DEF SignNext, ServerStep

LEMMA WatchedStep ==
  ASSUME SignInv, SetupWatched, [SignNext]_signVars
  PROVE  SetupWatched'
<1>1. CASE UNCHANGED <<setupQuery, setupRead>>
  BY <1>1 DEF SetupWatched
<1>2. CASE SetupHeard(SetupAnswer)
  <2>1. setupQuery' = [data |-> SetupAnswer, failed |-> FALSE] /\ SetupAnswer # "unknown"
    BY <1>2 DEF SetupHeard, SetupAnswer
  <2> QED
    BY <2>1 DEF SetupWatched
<1>3. CASE SetupFails
  <2>1. CASE setupRead.tries = 0
    <3>1. setupQuery' = setupQuery /\ setupRead' = [setupRead EXCEPT !.tries = 1]
      BY <1>3, <2>1 DEF SetupFails
    <3>2. setupRead'.state = setupRead.state
      BY <3>1, KnownFacts DEF Requests
    <3> QED
      BY <3>1, <3>2 DEF SetupWatched
  <2>2. CASE setupRead.tries # 0
    <3>1. setupQuery' = [setupQuery EXCEPT !.failed = TRUE] /\ setupQuery \in SetupQueries
      BY <1>3, <2>2 DEF SetupFails, SignInv, Cached
    <3>2. setupQuery'.failed
      BY <3>1 DEF SetupQueries
    <3> QED
      BY <3>2 DEF SetupWatched
  <2> QED
    BY <2>1, <2>2
<1>4. CASE SignInHeard
  <2>1. \/ setupQuery' = setupQuery /\ setupRead' = setupRead
        \/ setupQuery' = [data |-> "installed", failed |-> FALSE]
    BY <1>4, Zenon DEF SignInHeard
  <2> QED
    BY <2>1 DEF SetupWatched
<1>5. CASE Reload
  <2>1. setupRead'.state # "idle"
    BY <1>5, AskedState DEF Reload
  <2> QED
    BY <2>1 DEF SetupWatched
<1>6. CASE CallHeard
  <2>1. /\ setupQuery' = setupQuery
        /\ setupRead' = setupRead \/ setupRead' = Asking("setupStatus")
    BY <1>6, Zenon DEF CallHeard
  <2> QED
    BY <2>1, AskedState DEF SetupWatched
<1>7. CASE TabStep
  <2>1. CASE \/ SessionHeard \/ SessionRetried \/ SubmitSetup \/ SubmitLogin \/ SubmitSignOut
             \/ \E kind \in {"read", "act"} : SubmitCall(kind)
    BY <1>1, <2>1, Zenon
       DEF SessionHeard, SessionRetried, SubmitSetup, SubmitLogin, SubmitForm,
           SubmitSignOut, SubmitCall, boundary
  <2> QED
    BY <1>2, <1>3, <1>4, <1>5, <1>6, <1>7, <2>1
       DEF TabStep, SignOutSettles, UserReloads
<1>8. CASE ServerStep \/ UNCHANGED signVars
  BY <1>1, <1>8, Zenon
     DEF ServerStep, ServeSessionRead, ServeSignIn, ServeSignOut, ServeCall, SessionEnds,
         OtherTabSignsIn, boundary, signVars
<1> QED
  BY <1>7, <1>8 DEF SignNext

LEMMA ReadAnsweredStep ==
  ASSUME SignInv, ReadAnswered, [SignNext]_signVars
  PROVE  ReadAnswered'
<1>1. CASE sessionRead' = sessionRead \/ sessionRead' = NoRequest
           \/ sessionRead' = Asking("session")
  BY <1>1, AskedState, KnownFacts, IdleRequest DEF ReadAnswered
<1>2. CASE ServeSessionRead
  <2>1. sessionRead \in Requests(issued) /\ issued \in Nat /\ 0 \in 0..issued
    BY KnownFacts
  <2>2. sessionRead.cookie \in valid =>
          sessionRead.cookie \in Sessions /\ sessionRead.cookie \in 0..issued
    BY KnownFacts DEF SignInv, Counted, Sessions
  <2>3. "failed" \in Answers /\ "ok" \in Answers /\ "unauthenticated" \in Answers
    BY DEF Answers
  <2>4. \E answer \in Answers, value \in 0..issued :
          /\ sessionRead' = Answering(sessionRead, answer, value)
          /\ \/ answer = "failed" \/ value \in Sessions
             \/ answer = "unauthenticated" /\ value = Nobody
    <3>1. Nobody \in 0..issued
      BY <2>1 DEF Nobody
    <3> QED
      BY <1>2, <2>2, <2>3, <3>1, Zenon DEF ServeSessionRead, Authenticates
  <2> QED
    BY <2>1, <2>4, AnsweredRequest DEF ReadAnswered
<1>3. CASE TabStep
  <2>1. CASE SetupHeard(SetupAnswer) \/ CallHeard
    BY <1>1, <2>1, Zenon DEF SetupHeard, CallHeard, ReadSessionIf
  <2>2. CASE SessionHeard \/ SessionRetried \/ SignOutSettles \/ UserReloads
    BY <1>1, <2>2, Zenon DEF SessionHeard, SessionRetried, SignOutSettles, UserReloads, Reload
  <2>3. CASE \/ SetupFails \/ SubmitSetup \/ SubmitLogin \/ SignInHeard \/ SubmitSignOut
             \/ \E kind \in {"read", "act"} : SubmitCall(kind)
    BY <1>1, <2>3, Zenon
       DEF SetupFails, SubmitSetup, SubmitLogin, SubmitForm, SignInHeard, SubmitSignOut,
           SubmitCall, boundary
  <2> QED
    BY <1>3, <2>1, <2>2, <2>3 DEF TabStep
<1>4. CASE ServeSignIn \/ ServeSignOut \/ ServeCall \/ (\E s \in Sessions : SessionEnds(s))
           \/ OtherTabSignsIn \/ UNCHANGED signVars
  BY <1>1, <1>4, Zenon
     DEF ServeSignIn, ServeSignOut, ServeCall, SessionEnds, OtherTabSignsIn, boundary, signVars
<1> QED
  BY <1>2, <1>3, <1>4 DEF SignNext, ServerStep

LEMMA SignInAnsweredStep ==
  ASSUME SignInv, SignInAnswered, [SignNext]_signVars
  PROVE  SignInAnswered'
<1>1. CASE signing' = signing \/ signing' = NoRequest
  BY <1>1, KnownFacts, IdleRequest DEF SignInAnswered
<1>2. ASSUME NEW kind \in Kinds, signing' = Asking(kind) PROVE SignInAnswered'
  <2>1. signing'.answer = "none"
    BY <1>2, SentRequest, KnownFacts DEF SignInv, Counted, Cached
  <2> QED
    BY <2>1 DEF SignInAnswered
<1>3. CASE ServeSignIn
  <2>1. /\ signing \in Requests(issued) /\ issued \in Nat /\ 0 \in 0..issued
        /\ "ok" \in Answers /\ "refused" \in Answers
    BY KnownFacts DEF Answers
  <2>2. CASE signing' = Answering(signing, "refused", Nobody)
    <3>1. signing'.answer = "refused"
      BY <2>1, <2>2, AnsweredRequest DEF Nobody
    <3> QED
      BY <3>1 DEF SignInAnswered
  <2>3. CASE IssueNext /\ signing' = Answering(signing, "ok", issued + 1)
    <3>1. issued + 1 \in Sessions /\ issued + 1 \in 0..(issued + 1) /\ issued + 1 \in Nat
      BY <2>1, <2>3, SignInBounds DEF IssueNext, Sessions
    <3>2. signing \in Requests(issued + 1)
      BY <2>1, <3>1, MoreSessions DEF SignInv, IsRequest
    <3>3. signing'.value = issued + 1
      BY <2>1, <2>3, <3>1, <3>2, AnsweredRequest
    <3> QED
      BY <3>1, <3>3 DEF SignInAnswered
  <2> QED
    BY <1>3, <2>2, <2>3, Zenon DEF ServeSignIn
<1>4. CASE ServeSignOut
  <2>1. signing \in Requests(issued) /\ issued \in Nat /\ 0 \in 0..issued
    BY KnownFacts
  <2>2. \E answer \in Answers : signing' = Answering(signing, answer, 0)
    <3>1. "unauthenticated" \in Answers /\ "refused" \in Answers /\ "ok" \in Answers
      BY DEF Answers
    <3> QED
      BY <1>4, <3>1, Zenon DEF ServeSignOut, Nobody
  <2>3. signing'.kind = "logout"
    <3>1. signing.kind = "logout"
      BY <1>4 DEF ServeSignOut
    <3> QED
      BY <2>1, <2>2, <3>1, AnsweredRequest
  <2> QED
    BY <2>3 DEF SignInAnswered
<1>5. CASE TabStep
  <2>1. CASE SubmitSetup \/ SubmitLogin \/ SubmitSignOut
    <3>1. "setup" \in Kinds /\ "login" \in Kinds /\ "logout" \in Kinds
      BY DEF Kinds
    <3> QED
      BY <1>2, <2>1, <3>1, Zenon DEF SubmitSetup, SubmitLogin, SubmitForm, SubmitSignOut
  <2>2. CASE \/ SetupHeard(SetupAnswer) \/ SetupFails \/ SessionHeard \/ SessionRetried
             \/ CallHeard \/ \E kind \in {"read", "act"} : SubmitCall(kind)
    BY <1>1, <2>2, Zenon
       DEF SetupHeard, SetupFails, SessionHeard, SessionRetried, CallHeard, SubmitCall
  <2>3. CASE SignInHeard \/ SignOutSettles \/ UserReloads
    BY <1>1, <2>3, Zenon DEF SignInHeard, SignOutSettles, UserReloads, Reload
  <2> QED
    BY <1>5, <2>1, <2>2, <2>3 DEF TabStep
<1>6. CASE ServeSessionRead \/ ServeCall \/ (\E s \in Sessions : SessionEnds(s))
           \/ OtherTabSignsIn \/ UNCHANGED signVars
  BY <1>1, <1>6, Zenon
     DEF ServeSessionRead, ServeCall, SessionEnds, OtherTabSignsIn, signVars
<1> QED
  BY <1>3, <1>4, <1>5, <1>6 DEF SignNext, ServerStep

LEMMA WatchInvInit == SignInit => WatchInv
<1> SUFFICES ASSUME SignInit PROVE WatchInv
  OBVIOUS
<1>1. InstalledFirst
  BY DEF SignInit, InstalledFirst
<1>2. SetupWatched
  BY AskedState DEF SignInit, SetupWatched
<1>3. ReadAnswered /\ SignInAnswered
  BY DEF SignInit, ReadAnswered, SignInAnswered, NoRequest
<1> QED
  BY <1>1, <1>2, <1>3 DEF WatchInv

LEMMA WatchInvAlways == SignSpec => []WatchInv
<1>1. SignInv /\ WatchInv /\ [SignNext]_signVars => WatchInv'
  BY InstalledStep, WatchedStep, ReadAnsweredStep, SignInAnsweredStep DEF WatchInv
<1> QED
  BY <1>1, WatchInvInit, SignInvAlways, PTL DEF SignSpec

(* The dashboard is what is shown once both queries have answered. *)
LEMMA DashboardShown ==
  Screen = "dashboard" <=>
    /\ ~(setupQuery.data = "unknown" /\ setupRead.state # "idle")
    /\ ~setupQuery.failed /\ setupQuery.data # "required"
    /\ SignedIn
<1>1. SignedIn => sessionQuery.data # Unknown
  BY SignInBounds DEF SignedIn, Sessions, Unknown
<1> QED
  BY <1>1, Zenon DEF Screen

LEMMA DashboardShownNext ==
  (/\ setupQuery'.data # "unknown" /\ ~setupQuery'.failed /\ setupQuery'.data # "required"
   /\ SignedIn') => Screen' = "dashboard"
<1>1. SignedIn' => sessionQuery'.data # Unknown
  BY SignInBounds DEF SignedIn, Sessions, Unknown
<1> QED
  BY <1>1, Zenon DEF Screen

(* In a step that hides it although no error is shown and nobody signs out, the
   session is no longer known. *)
LEMMA DashboardStep ==
  ASSUME SignInv, WatchInv, [SignNext]_signVars,
         Screen = "dashboard", Screen' # "dashboard"
  PROVE  \/ signing.kind = "logout" /\ signing' = NoRequest
         \/ sessionRead.answer = "unauthenticated" /\ sessionQuery'.data = Nobody
         \/ setupQuery'.failed
<1> DEFINE Goal == \/ signing.kind = "logout" /\ signing' = NoRequest
                   \/ sessionRead.answer = "unauthenticated" /\ sessionQuery'.data = Nobody
                   \/ setupQuery'.failed
<1>1. /\ ~setupQuery.failed /\ setupQuery.data # "required" /\ setupQuery.data # "unknown"
      /\ SignedIn
  BY DashboardShown DEF WatchInv, SetupWatched
<1>2. installed
  BY <1>1, KnownFacts
     DEF SignInv, Cached, SessionQueries, SignedIn, Sessions, WatchInv, InstalledFirst
<1>3. CASE setupQuery'.data = setupQuery.data /\ sessionQuery'.data \in Sessions
  <2>1. SignedIn'
    BY <1>3 DEF SignedIn
  <2>2. setupQuery'.data # "required" /\ setupQuery'.data # "unknown"
    BY <1>1, <1>3
  <2> QED
    BY <2>1, <2>2, DashboardShownNext
<1>4. CASE setupQuery' = setupQuery /\ sessionQuery' = sessionQuery
  BY <1>1, <1>3, <1>4 DEF SignedIn
<1>5. CASE SetupHeard(SetupAnswer)
  <2>1. setupQuery'.data = "installed" /\ sessionQuery' = sessionQuery
    BY <1>2, <1>5 DEF SetupHeard, SetupAnswer
  <2>2. SignedIn' /\ setupQuery'.data # "required" /\ setupQuery'.data # "unknown"
    BY <1>1, <2>1 DEF SignedIn
  <2> QED
    BY <2>2, DashboardShownNext
<1>6. CASE SetupFails
  <2>1. sessionQuery' = sessionQuery /\ setupQuery'.data = setupQuery.data
    <3>1. setupQuery \in SetupQueries
      BY DEF SignInv, Cached
    <3> QED
      BY <1>6, <3>1 DEF SetupFails, SetupQueries
  <2> QED
    BY <1>1, <1>3, <2>1 DEF SignedIn
<1>7. CASE SessionHeard
  <2>1. setupQuery' = setupQuery /\ sessionRead.state = "answered"
    BY <1>7 DEF SessionHeard
  <2>2. CASE sessionRead.answer = "failed"
    <3>1. sessionQuery'.data = sessionQuery.data
      BY <1>7, <2>2, SessionKept, KnownFacts DEF SessionHeard, SignInv, Cached
    <3> QED
      BY <1>1, <1>3, <2>1, <3>1 DEF SignedIn
  <2>3. CASE sessionRead.answer # "failed"
    <3>1. sessionQuery'.data = sessionRead.value
      BY <1>7, <2>3 DEF SessionHeard
    <3> QED
      BY <1>3, <2>1, <2>3, <3>1 DEF WatchInv, ReadAnswered
  <2> QED
    BY <2>2, <2>3
<1>8. CASE SignInHeard
  <2>1. CASE signing.answer = "ok"
    <3>1. /\ setupQuery'.data = "installed" /\ sessionQuery'.data = signing.value
          /\ signing.value \in Sessions
      BY <1>8, <2>1 DEF SignInHeard, WatchInv, SignInAnswered
    <3>2. SignedIn' /\ setupQuery'.data # "required" /\ setupQuery'.data # "unknown"
      BY <3>1 DEF SignedIn
    <3> QED
      BY <3>2, DashboardShownNext
  <2>2. CASE signing.answer # "ok"
    BY <1>4, <1>8, <2>2 DEF SignInHeard
  <2> QED
    BY <2>1, <2>2
<1>9. CASE SessionRetried \/ UserReloads
  <2>1. "dashboard" # "sessionError" /\ "dashboard" # "setupError"
    OBVIOUS
  <2> QED
    BY <1>9, <2>1, Zenon DEF SessionRetried, UserReloads
<1>10. CASE SignOutSettles
  BY <1>10 DEF SignOutSettles, Reload
<1>11. CASE CallHeard
  <2>1. setupQuery' = setupQuery /\ sessionQuery' = sessionQuery
    <3>1. sessionQuery.data # Unknown
      BY <1>1, SignInBounds DEF SignedIn, Sessions, Unknown
    <3> QED
      BY <1>11, <3>1, Zenon DEF CallHeard
  <2> QED
    BY <1>4, <2>1
<1>12. CASE \/ SubmitSetup \/ SubmitLogin \/ SubmitSignOut
            \/ (\E kind \in {"read", "act"} : SubmitCall(kind))
            \/ ServerStep \/ UNCHANGED signVars
  <2>1. setupQuery' = setupQuery /\ sessionQuery' = sessionQuery
    BY <1>12, Zenon
       DEF SubmitSetup, SubmitLogin, SubmitForm, SubmitSignOut, SubmitCall, ServerStep,
           ServeSessionRead, ServeSignIn, ServeSignOut, ServeCall, SessionEnds,
           OtherTabSignsIn, boundary, signVars
  <2> QED
    BY <1>4, <2>1
<1> QED
  BY <1>5, <1>6, <1>7, <1>8, <1>9, <1>10, <1>11, <1>12 DEF SignNext, TabStep

(* A dashboard that is shown stays until somebody signs out, the server does not know
   the session any more, or the setup status cannot be read
   (authentication-boundary.tsx:22, 30-35). *)
THEOREM DashboardIsKept == SignSpec => DashboardStays
<1>1. SignInv /\ WatchInv /\ [SignNext]_signVars =>
        ((Screen = "dashboard" /\ Screen' # "dashboard") =>
           \/ signing.kind = "logout" /\ signing' = NoRequest
           \/ sessionRead.answer = "unauthenticated" /\ sessionQuery'.data = Nobody
           \/ setupQuery'.failed)
  BY DashboardStep
<1> QED
  BY <1>1, SignInvAlways, WatchInvAlways, PTL DEF SignSpec, DashboardStays

-----------------------------------------------------------------------------
(* The dialogs and requests of the pages *)

PlayerActions ==
  {"allowlist-add", "allowlist-remove", "op", "deop", "ban", "pardon", "kick"}

(* What the dialogs of a page may ask, and the hook that sends it. *)
PageActions(p) ==
  CASE p = "overview" -> OverviewActions
    [] p = "backups" -> {"create", "delete", "restore"}
    [] p = "players" -> PlayerActions
    [] p = "settings" -> {"disable", "revoke"}
    [] p = "worlds" -> {"replace"}
    [] OTHER -> {}

HookOf(p, a) ==
  CASE p = "overview" -> OverviewHook(a)
    [] p = "backups" -> BackupsHook[a]
    [] p = "players" -> "action"
    [] OTHER -> a

(* Hooks of forms, which stay usable beside each other. *)
FormHooks == {"createUser", "updateRcon"}

(* Pages that reset the hook of a dialog with it. *)
ResetPages == {"overview", "backups", "players"}

Origins == {"page", "player-row", "allowlist", "file", "user", "rcon"}
Fillings == Texts \union {Empty}
Actions ==
  {"none", "backup", "start", "stop", "restart", "create", "delete", "restore",
   "disable", "revoke", "replace"} \union PlayerActions
Dialogs == [action : Actions, origin : Origins \union {"none"}, text : Fillings, id : Nat]
Statuses == {"pending", "done", "failed"}
Requested == [hook : Hooks, dialog : Nat, origin : Origins, text : Fillings,
              status : Statuses]

Typed ==
  /\ role \in Roles /\ page \in Pages /\ shown \in BOOLEAN
  /\ draft \in [Forms -> Fillings]
  /\ requests \in Seq(Requested) /\ Len(requests) <= MaxRequests
  /\ dialog \in Dialogs

(* What the open dialog asks is of the page; one that came from the allowlist form
   asks for the name that is in it. *)
DialogOK ==
  /\ opened \in 0..MaxOpened /\ dialog.id \in 0..opened
  /\ dialog = NoDialog <=> dialog.id = 0
  /\ dialog.id # 0 =>
       /\ dialog.action \in PageActions(page) /\ dialog.origin \in Origins
       /\ page = "worlds" => dialog.origin = "file"
       /\ (page = "players" /\ dialog.origin = "allowlist") => dialog.text = draft.allowlist

OfForm(r) ==
  \/ r.hook = "createUser" /\ r.origin = "user"
  \/ r.hook = "updateRcon" /\ r.origin = "rcon"

OfDialog(r) ==
  /\ r.hook = HookOf(page, dialog.action) /\ r.origin = dialog.origin
  /\ page = "players" => r.text = dialog.text

(* A request was sent from a dialog or, with no dialog, from a form of the settings,
   and while its surface is there and it is pending, its hook observes it. *)
RequestOK(i, r) ==
  /\ r.dialog \in 0..opened
  /\ r.dialog = 0 <=> r.hook \in FormHooks
  /\ r.dialog = 0 => page = "settings" /\ OfForm(r)
  /\ (r.dialog = dialog.id /\ r.dialog # 0) => OfDialog(r)
  /\ (r.dialog \in {0, dialog.id} /\ r.status = "pending") => observed[r.hook] = i
  /\ page = "worlds" => r.hook = "replace" /\ r.origin = "file"

RequestsOK == \A i \in 1..Len(requests) : RequestOK(i, requests[i])

(* A hook observes what it has sent; where hooks are reset with the dialog, that is a
   request of the open one. *)
ObservedOK ==
  /\ observed \in [Hooks -> 0..Len(requests)]
  /\ \A h \in Hooks : observed[h] # 0 =>
       /\ requests[observed[h]].hook = h
       /\ page \in ResetPages => dialog.id # 0 /\ requests[observed[h]].dialog = dialog.id
       /\ (page = "worlds" /\ dialog.id # 0 /\ requests[observed[h]].status = "pending") =>
             requests[observed[h]].dialog = dialog.id

SurfaceInv == Typed /\ DialogOK /\ RequestsOK /\ ObservedOK /\ OnePendingPerSurface

-----------------------------------------------------------------------------
(* What a step does to dialogs and requests: nothing to the dialog (Stays), close it,
   open one, or send a request *)

LEMMA HooksOfActions ==
  ASSUME NEW p \in Pages, NEW a \in PageActions(p)
  PROVE  /\ HookOf(p, a) \in Hooks \ FormHooks
         /\ p = "overview" => HookOf(p, a) \in {"create", "serverAction"}
         /\ p = "backups" => HookOf(p, a) \in {"create", "remove", "restore"}
         /\ p = "players" => HookOf(p, a) = "action"
         /\ p = "settings" => HookOf(p, a) = a /\ a \in {"disable", "revoke"}
         /\ p = "worlds" => HookOf(p, a) = "replace"
         /\ a \in Actions /\ a # "none"
  BY DEF Pages, PageActions, HookOf, OverviewActions, OverviewHook, BackupsHook, PlayerActions,
         Hooks, FormHooks, Actions

(* Before and after, a request differs at most in having been answered. *)
Kept ==
  /\ requests' \in Seq(Requested) /\ Len(requests') = Len(requests)
  /\ \A j \in 1..Len(requests) :
       /\ requests'[j].hook = requests[j].hook /\ requests'[j].dialog = requests[j].dialog
       /\ requests'[j].origin = requests[j].origin /\ requests'[j].text = requests[j].text
       /\ requests'[j].status = "pending" => requests[j].status = "pending"

LEMMA SettledKept ==
  ASSUME Typed, NEW i \in 1..Len(requests), NEW s \in Statuses, s # "pending", Settles(i, s)
  PROVE  Kept
<1> DEFINE answered == [requests[i] EXCEPT !.status = s]
<1>1. requests' = [requests EXCEPT ![i] = answered]
  BY DEF Settles
<1>2. requests \in Seq(Requested) /\ requests[i] \in Requested
  BY DEF Typed
<1>3. /\ answered \in Requested /\ answered.hook = requests[i].hook
      /\ answered.dialog = requests[i].dialog /\ answered.origin = requests[i].origin
      /\ answered.text = requests[i].text /\ answered.status = s
  BY <1>2 DEF Requested
<1> HIDE DEF answered
<1>4. /\ requests' \in Seq(Requested) /\ Len(requests') = Len(requests)
      /\ \A j \in 1..Len(requests) : requests'[j] = IF j = i THEN answered ELSE requests[j]
  BY <1>1, <1>2, <1>3
<1> QED
  BY <1>3, <1>4 DEF Kept

LEMMA SameKept == ASSUME Typed, UNCHANGED requests PROVE Kept
  BY DEF Typed, Kept

(* Hooks of H may be reset, and no other changes. *)
Resets(H) ==
  /\ observed' \in [Hooks -> 0..Len(requests)]
  /\ \A h \in Hooks : observed'[h] = observed[h] \/ (h \in H /\ observed'[h] = 0)

LEMMA Forgotten ==
  ASSUME ObservedOK, NEW H, Forget(H)
  PROVE  Resets(H) /\ \A h \in Hooks \intersect H : observed'[h] = 0
<1>1. \A h \in Hooks : observed'[h] = IF h \in H THEN 0 ELSE observed[h]
  BY DEF Forget
<1>2. Len(requests) >= 0 => observed' \in [Hooks -> 0..Len(requests)]
  BY DEF Forget, ObservedOK
<1> QED
  BY <1>1, <1>2 DEF Resets

(* No surface loses sight of its request: a hook that is reset was not pending or is
   no form's, whose dialog is closed. *)
LEMMA RequestSeen ==
  ASSUME SurfaceInv, NEW i \in 1..Len(requests), requests[i].status = "pending",
         requests[i].dialog \in {0, dialog.id}
  PROVE  /\ requests[i].hook \in Hooks /\ observed[requests[i].hook] = i
         /\ IsPending(requests[i].hook)
<1>1. requests[i] \in Requested
  BY DEF SurfaceInv, Typed
<1>2. requests[i].hook \in Hooks
  BY <1>1 DEF Requested
<1>3. observed[requests[i].hook] = i
  BY DEF SurfaceInv, RequestsOK, RequestOK
<1> QED
  BY <1>2, <1>3 DEF IsPending, Status

LEMMA KeptTyped ==
  ASSUME SurfaceInv, Kept
  PROVE  /\ requests' \in Seq(Requested) /\ Len(requests') = Len(requests)
         /\ Len(requests') <= MaxRequests /\ OnePendingPerSurface'
<1>1. Len(requests') = Len(requests) /\ requests' \in Seq(Requested)
  BY DEF Kept
<1>2. ASSUME NEW i \in 1..Len(requests'), NEW j \in 1..Len(requests'),
             requests'[i].status = "pending", requests'[j].status = "pending",
             requests'[i].dialog = requests'[j].dialog,
             requests'[i].origin = requests'[j].origin
      PROVE  i = j
  BY <1>1, <1>2, Zenon DEF Kept, SurfaceInv, OnePendingPerSurface
<1> QED
  BY <1>1, <1>2 DEF SurfaceInv, Typed, OnePendingPerSurface

LEMMA Stays ==
  ASSUME SurfaceInv, Kept, role' \in Roles, shown' \in BOOLEAN, draft' \in [Forms -> Fillings],
         UNCHANGED <<page, dialog, opened>>,
         draft'.allowlist = draft.allowlist \/ dialog = NoDialog,
         NEW H, Resets(H), \A h \in H : ~IsPending(h)
  PROVE  SurfaceInv'
<1>1. Typed' /\ OnePendingPerSurface'
  BY KeptTyped DEF Typed, SurfaceInv
<1>2. DialogOK'
  BY DEF DialogOK, SurfaceInv
<1>3. ASSUME NEW i \in 1..Len(requests')
      PROVE  RequestOK(i, requests[i])'
  <2>1. i \in 1..Len(requests)
    BY <1>3 DEF Kept
  <2>2. RequestOK(i, requests[i])
    BY <2>1 DEF SurfaceInv, RequestsOK
  <2>3. (requests'[i].dialog \in {0, dialog.id} /\ requests'[i].status = "pending")
          => observed'[requests'[i].hook] = i
    BY <2>1, RequestSeen DEF Kept, Resets
  <2> QED
    BY <2>1, <2>2, <2>3 DEF RequestOK, Kept, OfForm, OfDialog
<1>4. observed' \in [Hooks -> 0..Len(requests')]
  BY DEF Kept, Resets
<1>5. ASSUME NEW h \in Hooks, observed'[h] # 0
      PROVE  /\ requests'[observed'[h]].hook = h
             /\ page \in ResetPages =>
                  dialog.id # 0 /\ requests'[observed'[h]].dialog = dialog.id
             /\ (page = "worlds" /\ dialog.id # 0
                   /\ requests'[observed'[h]].status = "pending")
                  => requests'[observed'[h]].dialog = dialog.id
  <2>1. observed'[h] = observed[h] /\ observed[h] \in 1..Len(requests)
    BY <1>5 DEF Resets, SurfaceInv, ObservedOK
  <2>2. /\ requests[observed[h]].hook = h
        /\ page \in ResetPages =>
             dialog.id # 0 /\ requests[observed[h]].dialog = dialog.id
        /\ (page = "worlds" /\ dialog.id # 0 /\ requests[observed[h]].status = "pending")
             => requests[observed[h]].dialog = dialog.id
    BY <1>5, <2>1 DEF SurfaceInv, ObservedOK
  <2> QED
    BY <2>1, <2>2 DEF Kept
<1> QED
  BY <1>1, <1>2, <1>3, <1>4, <1>5 DEF SurfaceInv, RequestsOK, ObservedOK

LEMMA Closes ==
  ASSUME SurfaceInv, Kept, UNCHANGED <<role, page, shown, opened>>,
         draft' \in [Forms -> Fillings], Shut,
         NEW H, Resets(H), H \intersect FormHooks = {},
         page \in ResetPages => \A h \in Hooks : observed'[h] = 0
  PROVE  SurfaceInv'
<1>0. dialog' = NoDialog /\ NoDialog \in Dialogs /\ NoDialog.id = 0
  BY DEF Shut, NoDialog, Dialogs, Actions, Fillings
<1> HIDE DEF NoDialog
<1>1. Typed' /\ OnePendingPerSurface'
  BY <1>0, KeptTyped DEF Typed, SurfaceInv
<1>2. DialogOK'
  BY <1>0 DEF DialogOK, SurfaceInv
<1>3. ASSUME NEW i \in 1..Len(requests')
      PROVE  RequestOK(i, requests[i])'
  <2>1. i \in 1..Len(requests)
    BY <1>3 DEF Kept
  <2>2. RequestOK(i, requests[i])
    BY <2>1 DEF SurfaceInv, RequestsOK
  <2>3. (requests'[i].dialog = 0 /\ requests'[i].status = "pending")
          => observed'[requests'[i].hook] = i
    <3> SUFFICES ASSUME requests'[i].dialog = 0, requests'[i].status = "pending"
                 PROVE  observed'[requests'[i].hook] = i
      OBVIOUS
    <3>1. requests[i].dialog = 0 /\ requests[i].status = "pending"
          /\ requests'[i].hook = requests[i].hook
      BY <2>1 DEF Kept
    <3>2. requests[i].hook \in Hooks /\ observed[requests[i].hook] = i
      BY <2>1, <3>1, RequestSeen
    <3>3. requests[i].hook \in FormHooks
      BY <2>2, <3>1 DEF RequestOK
    <3> QED
      BY <3>1, <3>2, <3>3 DEF Resets
  <2> QED
    BY <1>0, <2>1, <2>2, <2>3 DEF RequestOK, Kept, OfForm
<1>4. observed' \in [Hooks -> 0..Len(requests')]
  BY DEF Kept, Resets
<1>5. ASSUME NEW h \in Hooks, observed'[h] # 0
      PROVE  requests'[observed'[h]].hook = h /\ page \notin ResetPages
  <2>1. observed'[h] = observed[h] /\ observed[h] \in 1..Len(requests)
    BY <1>5 DEF Resets, SurfaceInv, ObservedOK
  <2>2. requests[observed[h]].hook = h
    BY <1>5, <2>1 DEF SurfaceInv, ObservedOK
  <2> QED
    BY <1>5, <2>1, <2>2 DEF Kept
<1> QED
  BY <1>0, <1>1, <1>2, <1>3, <1>4, <1>5 DEF SurfaceInv, RequestsOK, ObservedOK

LEMMA Opens ==
  ASSUME SurfaceInv, UNCHANGED <<role, page, shown, draft, requests>>, dialog = NoDialog,
         NEW action \in PageActions(page), NEW origin \in Origins, NEW text \in Fillings,
         Display(action, origin, text),
         page = "worlds" => origin = "file" /\ ~IsPending("replace"),
         (page = "players" /\ origin = "allowlist") => text = draft.allowlist,
         NEW H, Resets(H), H \intersect FormHooks = {}
  PROVE  SurfaceInv'
<1>0. opened \in 0..MaxOpened /\ opened' = opened + 1 /\ opened' \in 0..MaxOpened
  BY SurfaceBounds DEF SurfaceInv, DialogOK, Display
<1>1. /\ dialog' \in Dialogs /\ dialog'.id = opened + 1 /\ dialog'.id \in 1..opened'
      /\ dialog'.action = action /\ dialog'.origin = origin /\ dialog'.text = text
  BY <1>0, HooksOfActions DEF Display, Dialogs, SurfaceInv, Typed
<1>2. dialog' # NoDialog /\ dialog.id = 0
  BY <1>0, <1>1 DEF NoDialog
<1>3. Typed' /\ OnePendingPerSurface'
  BY <1>1 DEF Typed, SurfaceInv, OnePendingPerSurface
<1>4. DialogOK'
  BY <1>0, <1>1, <1>2 DEF DialogOK
<1>5. ASSUME NEW i \in 1..Len(requests')
      PROVE  RequestOK(i, requests[i])'
  <2>1. i \in 1..Len(requests) /\ RequestOK(i, requests[i])
    BY <1>5 DEF SurfaceInv, RequestsOK
  <2>2. requests[i].dialog \in 0..opened /\ requests[i].dialog # dialog'.id
        /\ requests[i].dialog \in 0..opened'
    BY <1>0, <1>1, <2>1 DEF RequestOK
  <2>3. (requests[i].dialog = 0 /\ requests[i].status = "pending")
          => observed'[requests[i].hook] = i
    <3> SUFFICES ASSUME requests[i].dialog = 0, requests[i].status = "pending"
                 PROVE  observed'[requests[i].hook] = i
      OBVIOUS
    <3>1. requests[i].hook \in Hooks /\ observed[requests[i].hook] = i
      BY <2>1, RequestSeen
    <3>2. requests[i].hook \in FormHooks
      BY <2>1 DEF RequestOK
    <3> QED
      BY <3>1, <3>2 DEF Resets
  <2> QED
    BY <2>1, <2>2, <2>3 DEF RequestOK, OfForm
<1>6. observed' \in [Hooks -> 0..Len(requests')]
  BY DEF Resets
<1>7. ASSUME NEW h \in Hooks, observed'[h] # 0
      PROVE  /\ requests[observed'[h]].hook = h /\ page \notin ResetPages
             /\ page = "worlds" => requests[observed'[h]].status # "pending"
  <2>1. observed'[h] = observed[h] /\ observed[h] \in 1..Len(requests)
    BY <1>7 DEF Resets, SurfaceInv, ObservedOK
  <2>2. requests[observed[h]].hook = h /\ page \notin ResetPages
    BY <1>2, <1>7, <2>1 DEF SurfaceInv, ObservedOK
  <2>3. page = "worlds" => requests[observed[h]].status # "pending"
    BY <1>7, <2>1, <2>2 DEF SurfaceInv, RequestsOK, RequestOK, IsPending, Status
  <2> QED
    BY <2>1, <2>2, <2>3
<1> QED
  BY <1>1, <1>3, <1>4, <1>5, <1>6, <1>7 DEF SurfaceInv, RequestsOK, ObservedOK

(* What a request is sent from: the open dialog, or a form of the settings. *)
SentFrom(h, from) ==
  \/ /\ dialog.id # 0 /\ from.id = dialog.id /\ from.origin = dialog.origin
     /\ h = HookOf(page, dialog.action)
     /\ page = "players" => from.text = dialog.text
  \/ /\ dialog = NoDialog /\ page = "settings" /\ from.id = 0
     /\ \/ h = "createUser" /\ from.origin = "user"
        \/ h = "updateRcon" /\ from.origin = "rcon"

LEMMA Sends ==
  ASSUME SurfaceInv, UNCHANGED <<role, page, shown, dialog, opened, draft>>,
         NEW h \in Hooks, NEW from, Mutate(h, from), SentFrom(h, from), from.text \in Fillings,
         (observed[h] # 0 /\ requests[observed[h]].dialog = from.id) => ~IsPending(h)
  PROVE  SurfaceInv'
<1> DEFINE n == Len(requests)
           r == [hook |-> h, dialog |-> from.id, origin |-> from.origin,
                 text |-> from.text, status |-> "pending"]
<1>1. /\ requests \in Seq(Requested) /\ n \in Nat /\ n < MaxRequests
      /\ requests' = Append(requests, r) /\ observed' = [observed EXCEPT ![h] = n + 1]
      /\ observed \in [Hooks -> 0..n]
  BY DEF SurfaceInv, Typed, Mutate, ObservedOK
<1>2. from.id \in 0..opened /\ from.id \in Nat /\ from.origin \in Origins
  BY DEF SurfaceInv, DialogOK, SentFrom, Origins
<1>3. /\ r \in Requested /\ r.hook = h /\ r.dialog = from.id /\ r.origin = from.origin
      /\ r.text = from.text /\ r.status = "pending"
  BY <1>2 DEF Requested, Statuses
<1>4. h \in FormHooks <=> from.id = 0
  <2>1. CASE dialog.id # 0
    BY <2>1, HooksOfActions DEF SurfaceInv, DialogOK, Typed, SentFrom, NoDialog
  <2>2. CASE dialog.id = 0
    BY <2>2 DEF SentFrom, FormHooks
  <2> QED
    BY <2>1, <2>2
<1> HIDE DEF r, n
<1>5. /\ requests' \in Seq(Requested) /\ Len(requests') = n + 1 /\ requests'[n + 1] = r
      /\ \A i \in 1..n : requests'[i] = requests[i]
      /\ \A i \in 1..(n + 1) : i \in 1..n \/ i = n + 1
  BY <1>1, <1>3 DEF n
<1>6. /\ observed' \in [Hooks -> 0..(n + 1)] /\ observed'[h] = n + 1
      /\ \A g \in Hooks \ {h} : observed'[g] = observed[g]
  BY <1>1
<1>7. Typed'
  BY <1>1, <1>5, SurfaceBounds DEF SurfaceInv, Typed
<1>8. DialogOK'
  BY DEF SurfaceInv, DialogOK
<1>9. ASSUME NEW i \in 1..n, requests[i].status = "pending", requests[i].dialog \in {0, dialog.id}
      PROVE  requests[i].hook # h /\ observed'[requests[i].hook] = i
  <2>1. requests[i].hook \in Hooks /\ observed[requests[i].hook] = i
        /\ IsPending(requests[i].hook) /\ i # 0
    BY <1>1, <1>9, RequestSeen DEF n
  <2>2. RequestOK(i, requests[i])
    BY <1>9 DEF SurfaceInv, RequestsOK, n
  <2>3. requests[i].hook = h => requests[i].dialog = from.id
    BY <1>4, <1>9, <2>2 DEF RequestOK, SentFrom, NoDialog
  <2> QED
    BY <1>6, <2>1, <2>3
<1>10. ASSUME NEW i \in 1..n
       PROVE  RequestOK(i, requests[i])'
  BY <1>5, <1>9, <1>10 DEF SurfaceInv, RequestsOK, RequestOK, OfForm, OfDialog, n
<1>11. ASSUME NEW i \in 1..Len(requests'), i = n + 1
       PROVE  RequestOK(i, requests[i])'
  <2>1. requests'[i] = r
    BY <1>5, <1>11
  <2>2. r.dialog = 0 => page = "settings" /\ OfForm(r)
    BY <1>3 DEF SentFrom, OfForm
  <2>3. /\ r.dialog # 0 => dialog.id # 0 /\ r.hook = HookOf(page, dialog.action)
        /\ r.dialog # 0 => r.origin = dialog.origin /\ (page = "players" => r.text = dialog.text)
    BY <1>3, <1>2 DEF SentFrom
  <2>4. page = "worlds" => r.hook = "replace" /\ r.origin = "file"
    BY <1>3, HooksOfActions DEF SentFrom, SurfaceInv, DialogOK, Typed
  <2>5. observed'[r.hook] = i
    BY <1>3, <1>6, <1>11
  <2>6. (r.dialog \in 0..opened) /\ (r.dialog = 0 <=> r.hook \in FormHooks)
    BY <1>2, <1>3, <1>4
  <2> QED
    BY <2>1, <2>2, <2>3, <2>4, <2>5, <2>6 DEF RequestOK, OfForm, OfDialog
<1>12. RequestsOK'
  <2>1. ASSUME NEW i \in 1..Len(requests')
        PROVE  RequestOK(i, requests[i])'
    BY <1>5, <1>10, <1>11
  <2> QED
    BY <2>1 DEF RequestsOK
<1>13. ObservedOK'
  <2>1. ASSUME NEW g \in Hooks \ {h}, observed'[g] # 0
        PROVE  /\ requests'[observed'[g]].hook = g
               /\ page \in ResetPages =>
                    dialog.id # 0 /\ requests'[observed'[g]].dialog = dialog.id
               /\ (page = "worlds" /\ dialog.id # 0
                     /\ requests'[observed'[g]].status = "pending")
                    => requests'[observed'[g]].dialog = dialog.id
    <3>1. observed'[g] = observed[g] /\ observed[g] \in 1..n
      BY <1>1, <1>6, <2>1
    <3>2. requests'[observed[g]] = requests[observed[g]]
      BY <1>5, <3>1
    <3> QED
      BY <2>1, <3>1, <3>2 DEF SurfaceInv, ObservedOK
  <2>2. page \in ResetPages \union {"worlds"} => dialog.id # 0 /\ r.dialog = dialog.id
    BY <1>3 DEF SentFrom, ResetPages
  <2> QED
    BY <1>3, <1>5, <1>6, <2>1, <2>2 DEF ObservedOK
<1>14. OnePendingPerSurface'
  <2>1. ASSUME NEW i \in 1..n, requests[i].status = "pending"
        PROVE  ~(requests[i].dialog = r.dialog /\ requests[i].origin = r.origin)
    <3> SUFFICES ASSUME requests[i].dialog = r.dialog, requests[i].origin = r.origin
                 PROVE  FALSE
      OBVIOUS
    <3>1. requests[i].dialog \in {0, dialog.id}
      BY <1>3 DEF SentFrom
    <3>2. requests[i].hook # h
      BY <1>9, <2>1, <3>1
    <3>3. RequestOK(i, requests[i])
      BY DEF SurfaceInv, RequestsOK, n
    <3> QED
      BY <1>3, <3>2, <3>3 DEF RequestOK, SentFrom, OfDialog, OfForm
  <2>2. ASSUME NEW i \in 1..n, NEW j \in 1..n,
               requests[i].status = "pending", requests[j].status = "pending",
               requests[i].dialog = requests[j].dialog, requests[i].origin = requests[j].origin
        PROVE  i = j
    BY <2>2 DEF SurfaceInv, OnePendingPerSurface, n
  <2> QED
    BY <1>5, <2>1, <2>2 DEF OnePendingPerSurface
<1> QED
  BY <1>7, <1>8, <1>12, <1>13, <1>14 DEF SurfaceInv

-----------------------------------------------------------------------------
(* What happens to a page, and the steps of each page *)

(* A page that is mounted anew observes nothing and asks nothing. *)
LEMMA MountedFresh ==
  ASSUME role' \in Roles, NEW p \in Pages, page' = p, Fresh(p)
  PROVE  SurfaceInv'
<1>0. NoDialog \in Dialogs /\ NoDialog.id = 0
  BY DEF NoDialog, Dialogs, Actions, Fillings
<1>1. /\ dialog' = NoDialog /\ opened' = 0 /\ requests' = <<>> /\ Len(requests') = 0
      /\ draft' \in [Forms -> Fillings] /\ shown' \in BOOLEAN
      /\ observed' \in [Hooks -> 0..0] /\ \A h \in Hooks : observed'[h] = 0
  BY DEF Fresh, Fillings
<1>2. <<>> \in Seq(Requested)
  OBVIOUS
<1> HIDE DEF NoDialog
<1>3. Typed'
  BY <1>0, <1>1, <1>2, SurfaceBounds DEF Typed
<1>4. DialogOK'
  BY <1>0, <1>1, SurfaceBounds DEF DialogOK
<1>5. RequestsOK' /\ OnePendingPerSurface'
  BY <1>1 DEF RequestsOK, OnePendingPerSurface
<1>6. ObservedOK'
  BY <1>1 DEF ObservedOK
<1> QED
  BY <1>3, <1>4, <1>5, <1>6 DEF SurfaceInv

LEMMA SurfaceInvInit == SurfacesInit => SurfaceInv
<1> SUFFICES ASSUME SurfacesInit PROVE SurfaceInv
  OBVIOUS
<1>0. NoDialog \in Dialogs /\ NoDialog.id = 0
  BY DEF NoDialog, Dialogs, Actions, Fillings
<1>1. /\ dialog = NoDialog /\ opened = 0 /\ requests = <<>> /\ Len(requests) = 0
      /\ draft \in [Forms -> Fillings] /\ shown \in BOOLEAN
      /\ observed \in [Hooks -> 0..0] /\ \A h \in Hooks : observed[h] = 0
      /\ role \in Roles /\ page \in Pages
  <2>1. /\ dialog = NoDialog /\ opened = 0 /\ requests = <<>> /\ shown = FALSE
        /\ draft = [f \in Forms |-> Empty] /\ observed = [h \in Hooks |-> 0]
        /\ role \in Roles /\ page = "overview"
    BY DEF SurfacesInit
  <2>2. draft \in [Forms -> Fillings]
    BY <2>1 DEF Fillings
  <2>3. observed \in [Hooks -> 0..0] /\ \A h \in Hooks : observed[h] = 0
    BY <2>1
  <2>4. page \in Pages /\ shown \in BOOLEAN /\ Len(requests) = 0
    BY <2>1 DEF Pages
  <2> QED
    BY <2>1, <2>2, <2>3, <2>4
<1>2. <<>> \in Seq(Requested)
  OBVIOUS
<1> HIDE DEF NoDialog
<1>3. Typed
  BY <1>0, <1>1, <1>2, SurfaceBounds DEF Typed
<1>4. DialogOK
  BY <1>0, <1>1, SurfaceBounds DEF DialogOK
<1>5. RequestsOK /\ OnePendingPerSurface
  BY <1>1 DEF RequestsOK, OnePendingPerSurface
<1>6. ObservedOK
  BY <1>1 DEF ObservedOK
<1> QED
  BY <1>3, <1>4, <1>5, <1>6 DEF SurfaceInv

LEMMA NothingReset == ASSUME ObservedOK, UNCHANGED observed PROVE Resets({})
  BY DEF ObservedOK, Resets

LEMMA OnlyHook ==
  ASSUME SurfaceInv, page \in ResetPages, NEW h \in Hooks, observed[h] # 0
  PROVE  dialog.id # 0 /\ h = HookOf(page, dialog.action)
<1>1. /\ requests[observed[h]].hook = h /\ observed[h] \in 1..Len(requests)
      /\ dialog.id # 0 /\ requests[observed[h]].dialog = dialog.id
  BY DEF SurfaceInv, ObservedOK
<1>2. RequestOK(observed[h], requests[observed[h]])
  BY <1>1 DEF SurfaceInv, RequestsOK
<1> QED
  BY <1>1, <1>2 DEF RequestOK, OfDialog

(* The parts of the invariant that every step uses. *)
LEMMA Parts ==
  ASSUME SurfaceInv
  PROVE  /\ Typed /\ DialogOK /\ ObservedOK
         /\ role \in Roles /\ page \in Pages /\ shown \in BOOLEAN
         /\ draft \in [Forms -> Fillings] /\ dialog \in Dialogs
         /\ dialog.text \in Fillings
         /\ dialog = NoDialog <=> dialog.id = 0
         /\ dialog.id # 0 => dialog.action \in PageActions(page) /\ dialog.origin \in Origins
  BY DEF SurfaceInv, Typed, DialogOK, Dialogs

(* A dialog of a page that resets the hook is closed, by its user or by the answer. *)
LEMMA CloseKeeps ==
  ASSUME SurfaceInv, page \in ResetPages \union {"settings"}, dialog # NoDialog,
         Forget({HookOf(page, dialog.action)}), Shut,
         Kept, draft' \in [Forms -> Fillings], UNCHANGED <<role, page, shown, opened>>
  PROVE  SurfaceInv'
<1> DEFINE hook == HookOf(page, dialog.action)
<1>1. dialog.id # 0 /\ hook \in Hooks \ FormHooks
  BY Parts, HooksOfActions
<1>2. Resets({hook}) /\ \A h \in Hooks \intersect {hook} : observed'[h] = 0
  BY Parts, Forgotten
<1> HIDE DEF hook
<1>3. page \in ResetPages => \A h \in Hooks : observed'[h] = 0
  BY <1>2, OnlyHook DEF Resets, hook
<1>4. {hook} \intersect FormHooks = {}
  BY <1>1
<1> QED
  BY <1>2, <1>3, <1>4, Closes

(* The answer that an open dialog's hook hears is to that dialog. *)
LEMMA HeardByDialog ==
  ASSUME SurfaceInv, page \in ResetPages, NEW i \in 1..Len(requests), NEW h \in Hooks,
         Heard(i, h)
  PROVE  /\ Kept /\ dialog # NoDialog /\ requests[i].hook = h
         /\ h = HookOf(page, dialog.action)
         /\ requests[i].dialog = dialog.id /\ requests[i].origin = dialog.origin
         /\ page = "players" => requests[i].text = dialog.text
<1>1. observed[h] = i /\ i # 0 /\ requests[i].hook = h /\ Settles(i, "done")
  BY DEF Heard
<1>2. Kept
  BY <1>1, Parts, SettledKept DEF Statuses
<1>3. requests[i].dialog = dialog.id /\ dialog.id # 0
  BY <1>1 DEF SurfaceInv, ObservedOK
<1>4. OfDialog(requests[i])
  BY <1>3 DEF SurfaceInv, RequestsOK, RequestOK
<1> QED
  BY <1>1, <1>2, <1>3, <1>4, Parts, OnlyHook DEF OfDialog

LEMMA OverviewKeeps == SurfaceInv /\ OverviewStep => SurfaceInv'
<1> SUFFICES ASSUME SurfaceInv, OverviewStep PROVE SurfaceInv'
  OBVIOUS
<1>1. ASSUME NEW action \in OverviewActions, OverviewRequest(action)
      PROVE  SurfaceInv'
  <2>1. page = "overview" /\ dialog = NoDialog /\ action \in PageActions(page)
    BY <1>1 DEF OverviewRequest, Clickable, Rendered, PageActions
  <2>2. Resets({OverviewHook(action)}) /\ {OverviewHook(action)} \intersect FormHooks = {}
    BY <1>1, Parts, Forgotten DEF OverviewRequest, OverviewHook, FormHooks
  <2>3. "page" \in Origins /\ Empty \in Fillings
    BY DEF Origins, Fillings
  <2> QED
    BY <1>1, <2>1, <2>2, <2>3, Opens DEF OverviewRequest, place
<1>2. CASE OverviewClose
  <2>1. /\ page = "overview" /\ dialog # NoDialog /\ Shut
        /\ Forget({HookOf(page, dialog.action)})
        /\ UNCHANGED <<role, page, shown, draft, opened, requests>>
    BY <1>2 DEF OverviewClose, Rendered, HookOf, place
  <2> QED
    BY <2>1, Parts, SameKept, CloseKeeps DEF ResetPages
<1>3. CASE OverviewConfirm
  <2> DEFINE hook == OverviewHook(dialog.action)
  <2>1. page = "overview" /\ dialog # NoDialog /\ dialog.id # 0 /\ Mutate(hook, dialog)
        /\ hook = HookOf(page, dialog.action)
        /\ UNCHANGED <<role, page, shown, dialog, opened, draft>>
    BY <1>3, Parts DEF OverviewConfirm, Rendered, HookOf, place
  <2>2. hook \in Hooks /\ hook \in {"create", "serverAction"}
    BY <2>1, Parts, HooksOfActions
  <2>3. ~IsPending(hook)
    BY <1>3, <2>2 DEF OverviewConfirm, OverviewBusy
  <2>4. SentFrom(hook, dialog)
    BY <2>1 DEF SentFrom
  <2> HIDE DEF hook
  <2> QED
    BY <2>1, <2>2, <2>3, <2>4, Parts, Sends
<1>4. ASSUME NEW i \in 1..Len(requests), page = "overview", OverviewSucceeds(i)
      PROVE  SurfaceInv'
  <2>1. PICK h \in {"create", "serverAction"} : Heard(i, h)
    BY <1>4 DEF OverviewSucceeds
  <2>2. h \in Hooks /\ page \in ResetPages
    BY <1>4 DEF Hooks, ResetPages
  <2>3. /\ Kept /\ dialog # NoDialog /\ requests[i].hook = h
        /\ h = HookOf(page, dialog.action)
    BY <2>1, <2>2, HeardByDialog
  <2> QED
    BY <1>4, <2>2, <2>3, Parts, CloseKeeps DEF OverviewSucceeds, place
<1>5. \A state \in ServerStates :
        HeaderActions \union LifecycleActions(state) \subseteq OverviewActions
  BY DEF HeaderActions, LifecycleActions, OverviewActions
<1> QED
  BY <1>1, <1>2, <1>3, <1>4, <1>5 DEF OverviewStep

LEMMA BackupsKeeps == SurfaceInv /\ BackupsStep => SurfaceInv'
<1> SUFFICES ASSUME SurfaceInv, BackupsStep PROVE SurfaceInv'
  OBVIOUS
<1>1. ASSUME NEW action \in DOMAIN BackupsHook, BackupsIntent(action)
      PROVE  SurfaceInv'
  <2>1. page = "backups" /\ dialog = NoDialog /\ action \in PageActions(page)
    BY <1>1 DEF BackupsIntent, Clickable, Rendered, PageActions, BackupsHook
  <2>2. Resets({})
    BY <1>1, Parts, NothingReset DEF BackupsIntent
  <2>3. "page" \in Origins /\ Empty \in Fillings
    BY DEF Origins, Fillings
  <2> QED
    BY <1>1, <2>1, <2>2, <2>3, Opens DEF BackupsIntent, place
<1>2. CASE BackupsClose
  <2>1. /\ page = "backups" /\ dialog # NoDialog /\ Shut
        /\ Forget({HookOf(page, dialog.action)})
        /\ UNCHANGED <<role, page, shown, draft, opened, requests>>
    BY <1>2 DEF BackupsClose, Rendered, HookOf, place
  <2> QED
    BY <2>1, Parts, SameKept, CloseKeeps DEF ResetPages
<1>3. CASE BackupsConfirm
  <2> DEFINE hook == BackupsHook[dialog.action]
  <2>1. page = "backups" /\ dialog # NoDialog /\ dialog.id # 0 /\ Mutate(hook, dialog)
        /\ hook = HookOf(page, dialog.action)
        /\ UNCHANGED <<role, page, shown, dialog, opened, draft>>
    BY <1>3, Parts DEF BackupsConfirm, Rendered, HookOf, place
  <2>2. hook \in Hooks /\ hook \in {"create", "remove", "restore"}
    BY <2>1, Parts, HooksOfActions
  <2>3. ~IsPending(hook)
    BY <1>3, <2>2 DEF BackupsConfirm, BackupsBusy
  <2>4. SentFrom(hook, dialog)
    BY <2>1 DEF SentFrom
  <2> HIDE DEF hook
  <2> QED
    BY <2>1, <2>2, <2>3, <2>4, Parts, Sends
<1>4. ASSUME NEW i \in 1..Len(requests), page = "backups", BackupsSucceeds(i)
      PROVE  SurfaceInv'
  <2>1. PICK h \in {"create", "remove", "restore"} : Heard(i, h)
    BY <1>4 DEF BackupsSucceeds
  <2>2. h \in Hooks /\ page \in ResetPages
    BY <1>4 DEF Hooks, ResetPages
  <2>3. /\ Kept /\ dialog # NoDialog /\ requests[i].hook = h
        /\ h = HookOf(page, dialog.action)
    BY <2>1, <2>2, HeardByDialog
  <2> QED
    BY <1>4, <2>2, <2>3, Parts, CloseKeeps DEF BackupsSucceeds, place
<1> QED
  BY <1>1, <1>2, <1>3, <1>4 DEF BackupsStep

LEMMA PlayersKeeps == SurfaceInv /\ PlayersStep => SurfaceInv'
<1> SUFFICES ASSUME SurfaceInv, PlayersStep PROVE SurfaceInv'
  OBVIOUS
<1>1. ASSUME NEW flags, NEW action, PlayersFromRow(flags, action)
      PROVE  SurfaceInv'
  <2>1. page = "players" /\ dialog = NoDialog /\ action \in PageActions(page)
    BY <1>1 DEF PlayersFromRow, Clickable, Rendered, PageActions, RowActions, PlayerActions
  <2>2. Resets({})
    BY <1>1, Parts, NothingReset DEF PlayersFromRow
  <2>3. "player-row" \in Origins /\ Empty \in Fillings
    BY DEF Origins, Fillings
  <2> QED
    BY <1>1, <2>1, <2>2, <2>3, Opens DEF PlayersFromRow, place
<1>2. ASSUME NEW text \in Fillings, AllowlistEdit(text)
      PROVE  SurfaceInv'
  <2>1. dialog = NoDialog /\ UNCHANGED <<role, page, shown, dialog, opened, requests, observed>>
    BY <1>2 DEF AllowlistEdit, Clickable, place
  <2>2. draft' \in [Forms -> Fillings]
    BY <1>2, Parts DEF AllowlistEdit
  <2>3. Resets({}) /\ Kept
    BY <2>1, Parts, NothingReset, SameKept
  <2> QED
    BY <2>1, <2>2, <2>3, Parts, Stays
<1>3. CASE AllowlistSubmit
  <2>1. page = "players" /\ dialog = NoDialog /\ "allowlist-add" \in PageActions(page)
    BY <1>3 DEF AllowlistSubmit, Clickable, Rendered, PageActions, PlayerActions
  <2>2. Resets({})
    BY <1>3, Parts, NothingReset DEF AllowlistSubmit
  <2>3. "allowlist" \in Origins /\ draft.allowlist \in Fillings
    BY Parts DEF Origins, Forms
  <2> QED
    BY <1>3, <2>1, <2>2, <2>3, Opens DEF AllowlistSubmit, place
<1>4. CASE PlayersClose
  <2>1. /\ page = "players" /\ dialog # NoDialog /\ Shut
        /\ Forget({HookOf(page, dialog.action)})
        /\ UNCHANGED <<role, page, shown, draft, opened, requests>>
    BY <1>4 DEF PlayersClose, Rendered, HookOf, place
  <2> QED
    BY <2>1, Parts, SameKept, CloseKeeps DEF ResetPages
<1>5. CASE PlayersConfirm
  <2>1. page = "players" /\ dialog # NoDialog /\ dialog.id # 0 /\ Mutate("action", dialog)
        /\ "action" = HookOf(page, dialog.action) /\ "action" \in Hooks
        /\ ~IsPending("action")
        /\ UNCHANGED <<role, page, shown, dialog, opened, draft>>
    BY <1>5, Parts DEF PlayersConfirm, Rendered, HookOf, place, Hooks
  <2>2. SentFrom("action", dialog)
    BY <2>1 DEF SentFrom
  <2> QED
    BY <2>1, <2>2, Parts, Sends
<1>6. ASSUME NEW i \in 1..Len(requests), page = "players", PlayersSucceeds(i)
      PROVE  SurfaceInv'
  <2>1. Heard(i, "action") /\ "action" \in Hooks /\ page \in ResetPages
    BY <1>6 DEF PlayersSucceeds, Hooks, ResetPages
  <2>2. Kept /\ dialog # NoDialog /\ "action" = HookOf(page, dialog.action)
    BY <2>1, HeardByDialog
  <2>3. draft' \in [Forms -> Fillings]
    BY <1>6, Parts DEF PlayersSucceeds, Fillings
  <2> QED
    BY <1>6, <2>1, <2>2, <2>3, Parts, CloseKeeps DEF PlayersSucceeds, place
<1> QED
  BY <1>1, <1>2, <1>3, <1>4, <1>5, <1>6 DEF PlayersStep, Fillings

(* A form of the settings is edited, sent, or emptied by an answer. *)
LEMMA FormEdited ==
  ASSUME SurfaceInv, NEW f \in Forms \ {"allowlist"}, NEW text \in Fillings, NEW h,
         dialog = NoDialog, draft' = [draft EXCEPT ![f] = text], ForgetSettled(h),
         UNCHANGED <<place, dialog, opened, requests>>
  PROVE  SurfaceInv'
<1>1. draft' \in [Forms -> Fillings] /\ Kept
  BY Parts, SameKept
<1> DEFINE H == IF IsPending(h) THEN {} ELSE {h}
<1>2. Resets(H) /\ \A g \in H : ~IsPending(g)
  BY Parts, Forgotten DEF ForgetSettled
<1> QED
  BY <1>1, <1>2, Parts, Stays DEF place

LEMMA FormSent ==
  ASSUME SurfaceInv, NEW f \in {"user", "rcon"}, NEW h \in Hooks, page = "settings",
         h = IF f = "user" THEN "createUser" ELSE "updateRcon",
         dialog = NoDialog, ~IsPending(h), UNCHANGED <<place, dialog, draft, opened>>,
         \/ Forget({h}) /\ UNCHANGED requests
         \/ Mutate(h, FromForm(f))
  PROVE  SurfaceInv'
<1>1. CASE Forget({h}) /\ UNCHANGED requests
  <2>1. Resets({h}) /\ \A g \in {h} : ~IsPending(g)
    BY <1>1, Parts, Forgotten
  <2>2. Kept
    BY <1>1, Parts, SameKept
  <2> QED
    BY <2>1, <2>2, Parts, Stays DEF place
<1>2. CASE Mutate(h, FromForm(f))
  <2>1. FromForm(f).id = 0 /\ FromForm(f).origin = f /\ FromForm(f).text \in Fillings
    BY Parts DEF FromForm, Forms
  <2>2. SentFrom(h, FromForm(f))
    BY <2>1 DEF SentFrom
  <2> QED
    BY <1>2, <2>1, <2>2, Sends DEF place
<1> QED
  BY <1>1, <1>2

LEMMA FormAnswered ==
  ASSUME SurfaceInv, NEW f \in Forms \ {"allowlist"}, NEW i \in 1..Len(requests), NEW h,
         Heard(i, h), draft' = [draft EXCEPT ![f] = Empty],
         UNCHANGED <<place, dialog, opened, observed>>
  PROVE  SurfaceInv'
<1>1. draft' \in [Forms -> Fillings] /\ draft'.allowlist = draft.allowlist
  BY Parts DEF Fillings, Forms
<1>2. Kept /\ Resets({})
  BY Parts, SettledKept, NothingReset DEF Heard, Statuses
<1> QED
  BY <1>1, <1>2, Parts, Stays DEF place

LEMMA UserKeeps == SurfaceInv /\ UserStep => SurfaceInv'
<1> SUFFICES ASSUME SurfaceInv, UserStep PROVE SurfaceInv'
  OBVIOUS
<1>1. ASSUME NEW text \in Fillings, UserEdit(text)
      PROVE  SurfaceInv'
  <2>1. "user" \in Forms \ {"allowlist"} /\ dialog = NoDialog
    BY <1>1 DEF Forms, UserEdit, Clickable
  <2> QED
    BY <1>1, <2>1, FormEdited DEF UserEdit
<1>2. CASE UserSubmit
  <2>1. /\ "createUser" \in Hooks /\ page = "settings" /\ dialog = NoDialog
        /\ ~IsPending("createUser") /\ UNCHANGED <<place, dialog, draft, opened>>
        /\ \/ Forget({"createUser"}) /\ UNCHANGED requests
           \/ Mutate("createUser", FromForm("user"))
    BY <1>2 DEF Hooks, UserSubmit, Clickable, Rendered
  <2> QED
    BY <2>1, FormSent
<1>3. ASSUME NEW type \in {"disable", "revoke"}, UserIntent(type)
      PROVE  SurfaceInv'
  <2>1. page = "settings" /\ dialog = NoDialog /\ type \in PageActions(page)
    BY <1>3 DEF UserIntent, Clickable, Rendered, PageActions
  <2>2. Resets({type}) /\ {type} \intersect FormHooks = {}
    BY <1>3, Parts, Forgotten DEF UserIntent, FormHooks
  <2>3. "page" \in Origins /\ Empty \in Fillings
    BY DEF Origins, Fillings
  <2> QED
    BY <1>3, <2>1, <2>2, <2>3, Opens DEF UserIntent, place
<1>4. CASE UserClose
  <2>1. /\ page = "settings" /\ dialog # NoDialog /\ Shut
        /\ Forget({HookOf(page, dialog.action)})
        /\ UNCHANGED <<role, page, shown, draft, opened, requests>>
    BY <1>4 DEF UserClose, Rendered, HookOf, place
  <2> QED
    BY <2>1, Parts, SameKept, CloseKeeps
<1>5. CASE UserConfirm
  <2>1. page = "settings" /\ dialog # NoDialog /\ dialog.id # 0
        /\ Mutate(dialog.action, dialog)
        /\ dialog.action = HookOf(page, dialog.action)
        /\ UNCHANGED <<role, page, shown, dialog, opened, draft>>
    BY <1>5, Parts DEF UserConfirm, Rendered, HookOf, place
  <2>2. dialog.action \in Hooks
    BY <2>1, Parts, HooksOfActions
  <2>3. (observed[dialog.action] # 0 /\ requests[observed[dialog.action]].dialog = dialog.id)
          => ~IsPending(dialog.action)
    BY <1>5 DEF UserConfirm, SurfaceMatches
  <2>4. SentFrom(dialog.action, dialog)
    BY <2>1 DEF SentFrom
  <2> QED
    BY <2>1, <2>2, <2>3, <2>4, Parts, Sends
<1>6. ASSUME NEW i \in 1..Len(requests), page = "settings", UserCreated(i)
      PROVE  SurfaceInv'
  <2>1. "user" \in Forms \ {"allowlist"}
    BY DEF Forms
  <2> QED
    BY <1>6, <2>1, FormAnswered DEF UserCreated
<1>7. ASSUME NEW i \in 1..Len(requests), page = "settings", UserChanged(i)
      PROVE  SurfaceInv'
  <2>1. Kept /\ Resets({})
    BY <1>7, Parts, SettledKept, NothingReset DEF UserChanged, Heard, Statuses
  <2>2. UNCHANGED <<role, page, shown, draft, opened>> /\ (UNCHANGED dialog \/ Shut)
    BY <1>7 DEF UserChanged, Shut, place
  <2>3. CASE UNCHANGED dialog
    BY <2>1, <2>2, <2>3, Parts, Stays
  <2>4. CASE Shut
    BY <1>7, <2>1, <2>2, <2>4, Parts, Closes DEF ResetPages
  <2> QED
    BY <2>2, <2>3, <2>4
<1> QED
  BY <1>1, <1>2, <1>3, <1>4, <1>5, <1>6, <1>7 DEF UserStep, Fillings

LEMMA RconKeeps == SurfaceInv /\ RconStep => SurfaceInv'
<1> SUFFICES ASSUME SurfaceInv, RconStep PROVE SurfaceInv'
  OBVIOUS
<1>0. "rcon" \in Forms \ {"allowlist"}
  BY DEF Forms
<1>1. ASSUME NEW text \in Fillings, RconEdit(text)
      PROVE  SurfaceInv'
  BY <1>0, <1>1, FormEdited DEF RconEdit, Clickable
<1>2. CASE RconSubmit
  <2>1. /\ "updateRcon" \in Hooks /\ page = "settings" /\ dialog = NoDialog
        /\ ~IsPending("updateRcon") /\ UNCHANGED <<place, dialog, draft, opened>>
        /\ \/ Forget({"updateRcon"}) /\ UNCHANGED requests
           \/ Mutate("updateRcon", FromForm("rcon"))
    BY <1>2 DEF Hooks, RconSubmit, Clickable, Rendered
  <2> QED
    BY <2>1, FormSent
<1>3. ASSUME NEW i \in 1..Len(requests), page = "settings", RconUpdated(i)
      PROVE  SurfaceInv'
  BY <1>0, <1>3, FormAnswered DEF RconUpdated
<1> QED
  BY <1>1, <1>2, <1>3 DEF RconStep, Fillings

LEMMA WorldsKeeps == SurfaceInv /\ WorldsStep => SurfaceInv'
<1> SUFFICES ASSUME SurfaceInv, WorldsStep PROVE SurfaceInv'
  OBVIOUS
<1>1. ASSUME NEW text \in Fillings, WorldsSelect(text)
      PROVE  SurfaceInv'
  <2>1. /\ dialog = NoDialog /\ draft' = [draft EXCEPT !.file = text]
        /\ UNCHANGED <<role, page, shown, dialog, opened, requests, observed>>
    BY <1>1 DEF WorldsSelect, Clickable, place
  <2>2. draft' \in [Forms -> Fillings] /\ Kept /\ Resets({})
    BY <2>1, Parts, SameKept, NothingReset
  <2> QED
    BY <2>1, <2>2, Parts, Stays
<1>2. CASE WorldsAsk
  <2>1. /\ page = "worlds" /\ dialog = NoDialog /\ "replace" \in PageActions(page)
        /\ ~IsPending("replace")
    BY <1>2 DEF WorldsAsk, Clickable, Rendered, PageActions
  <2>2. Resets({})
    BY <1>2, Parts, NothingReset DEF WorldsAsk
  <2>3. "file" \in Origins /\ draft.file \in Fillings
    BY Parts DEF Origins, Forms
  <2> QED
    BY <1>2, <2>1, <2>2, <2>3, Opens DEF WorldsAsk, place
<1>3. CASE WorldsClose
  <2>1. page = "worlds" /\ Shut /\ UNCHANGED <<role, page, shown, draft, opened, requests>>
    BY <1>3 DEF WorldsClose, Rendered, place
  <2>2. Resets({}) /\ Kept
    BY <1>3, Parts, NothingReset, SameKept DEF WorldsClose
  <2> QED
    BY <2>1, <2>2, Parts, Closes DEF ResetPages
<1>4. CASE WorldsConfirm
  <2> DEFINE from == [dialog EXCEPT !.text = draft.file]
  <2>1. /\ page = "worlds" /\ dialog # NoDialog /\ dialog.id # 0 /\ Mutate("replace", from)
        /\ ~IsPending("replace") /\ UNCHANGED <<role, page, shown, dialog, opened, draft>>
    BY <1>4, Parts DEF WorldsConfirm, Rendered, place
  <2>2. from.id = dialog.id /\ from.origin = dialog.origin /\ from.text \in Fillings
    BY Parts DEF Dialogs, Forms
  <2>3. "replace" \in Hooks /\ "replace" = HookOf(page, dialog.action)
    BY <2>1, Parts, HooksOfActions DEF Hooks
  <2> HIDE DEF from
  <2>4. SentFrom("replace", from)
    BY <2>1, <2>2, <2>3 DEF SentFrom
  <2> QED
    BY <2>1, <2>2, <2>3, <2>4, Sends
<1>5. ASSUME NEW i \in 1..Len(requests), page = "worlds", WorldsSucceeds(i)
      PROVE  SurfaceInv'
  <2>1. draft' \in [Forms -> Fillings] /\ Shut /\ UNCHANGED <<role, page, shown, opened>>
    BY <1>5, Parts DEF WorldsSucceeds, Fillings, place
  <2>2. Kept /\ Resets({})
    BY <1>5, Parts, SettledKept, NothingReset DEF WorldsSucceeds, Heard, Statuses
  <2> QED
    BY <1>5, <2>1, <2>2, Parts, Closes DEF ResetPages
<1> QED
  BY <1>1, <1>2, <1>3, <1>4, <1>5 DEF WorldsStep, Fillings

LEMMA SurfaceInvNext == SurfaceInv /\ [SurfacesNext]_surfaceVars => SurfaceInv'
<1> SUFFICES ASSUME SurfaceInv, [SurfacesNext]_surfaceVars PROVE SurfaceInv'
  OBVIOUS
<1>0. ASSUME UNCHANGED <<dialog, draft, opened, requests, observed, page>>, role' \in Roles,
             shown' \in BOOLEAN
      PROVE  SurfaceInv'
  <2>1. Kept /\ Resets({})
    BY <1>0, Parts, SameKept, NothingReset
  <2> QED
    BY <1>0, <2>1, Parts, Stays
<1>1. ASSUME NEW p \in Pages, NavigateTo(p)
      PROVE  SurfaceInv'
  BY <1>1, Parts, MountedFresh DEF NavigateTo
<1>2. ASSUME NEW r \in Roles, RoleChanges(r)
      PROVE  SurfaceInv'
  BY <1>0, <1>2, Parts, MountedFresh DEF RoleChanges
<1>3. CASE PageLoads
  BY <1>0, <1>3, Parts DEF PageLoads
<1>4. CASE PageFails
  BY <1>0, <1>4, Parts, MountedFresh DEF PageFails
<1>5. ASSUME NEW i \in 1..Len(requests), RequestFails(i) \/ RequestUnheard(i)
      PROVE  SurfaceInv'
  <2>1. Kept /\ Resets({})
    BY <1>5, Parts, SettledKept, NothingReset DEF RequestFails, RequestUnheard, Statuses
  <2> QED
    BY <1>5, <2>1, Parts, Stays DEF RequestFails, RequestUnheard, place
<1>6. CASE UNCHANGED surfaceVars
  BY <1>0, <1>6, Parts DEF surfaceVars
<1> QED
  BY <1>1, <1>2, <1>3, <1>4, <1>5, <1>6, OverviewKeeps, BackupsKeeps, PlayersKeeps,
     UserKeeps, RconKeeps, WorldsKeeps DEF SurfacesNext, SettingsStep

LEMMA SurfaceInvAlways == SurfacesSpec => []SurfaceInv
  BY SurfaceInvInit, SurfaceInvNext, PTL DEF SurfacesSpec

-----------------------------------------------------------------------------
(* The theorems *)

LEMMA KeepApart == ASSUME SurfaceInv PROVE SurfacesKeepApart
<1>1. SurfacesTypeOK
  <2>1. ASSUME NEW i \in 1..Len(requests)
        PROVE  requests[i].hook \in Hooks /\ requests[i].status \in Statuses
    <3>1. requests[i] \in Requested
      BY DEF SurfaceInv, Typed
    <3> QED
      BY <3>1 DEF Requested
  <2> QED
    BY <2>1 DEF SurfaceInv, Typed, DialogOK, ObservedOK, SurfacesTypeOK, Statuses, Fillings
<1>2. ASSUME dialog # NoDialog, NEW h \in DialogHooks, observed[h] # 0
      PROVE  requests[observed[h]].dialog = dialog.id
  <2>1. dialog.id # 0 /\ dialog.action \in PageActions(page) /\ page \in Pages
    BY <1>2, Parts
  <2>2. CASE page \in ResetPages
    <3>1. h \in Hooks
      BY <1>2, <2>2 DEF DialogHooks, ResetPages, Hooks
    <3> QED
      BY <1>2, <2>2, <3>1 DEF SurfaceInv, ObservedOK
  <2>3. CASE page = "settings"
    BY <1>2, <2>3 DEF DialogHooks, SurfaceMatches
  <2>4. CASE page = "worlds"
    <3>1. h = "replace" /\ IsPending(h) /\ h \in Hooks
      BY <1>2, <2>4 DEF DialogHooks, Hooks
    <3> QED
      BY <1>2, <2>1, <2>4, <3>1 DEF SurfaceInv, ObservedOK, IsPending, Status
  <2>5. page \in ResetPages \union {"settings", "worlds"}
    BY <2>1 DEF Pages, PageActions, ResetPages
  <2> QED
    BY <2>2, <2>3, <2>4, <2>5
<1> QED
  BY <1>1, <1>2 DEF SurfacesKeepApart, OutcomeShownIsOwn, SurfaceInv

(* However dialogs are closed and opened while their requests are answered, an
   outcome is shown only by the surface that asked for it, and no surface has two
   requests under way (confirm-dialog.tsx:44, players-page.tsx:27-29). *)
THEOREM EachSurfaceItsOwn == SurfacesSpec => []SurfacesKeepApart
<1>1. SurfaceInv => SurfacesKeepApart
  BY KeepApart
<1> QED
  BY <1>1, SurfaceInvAlways, PTL

(* What the answer to request i changes is that request's surface. *)
AtHome(i) ==
  /\ dialog # NoDialog /\ dialog' # dialog => requests[i].dialog = dialog.id
  /\ \A f \in Forms : draft'[f] # draft[f] =>
       /\ requests[i].origin = f
       /\ f = "allowlist" => requests[i].text = draft[f]

LEMMA OnlySettledAnswers ==
  ASSUME Typed, NEW i \in 1..Len(requests), AnsweredNow(i)
  PROVE  /\ requests' # requests /\ requests' # <<>>
         /\ \A h, from : ~Mutate(h, from)
         /\ \A j, s : Settles(j, s) => i = j
<1>1. requests \in Seq(Requested)
  BY DEF Typed
<1>2. \A h, from : ~Mutate(h, from)
  BY <1>1 DEF AnsweredNow, Mutate
<1>3. \A j, s : Settles(j, s) => i = j
  BY <1>1 DEF AnsweredNow, Settles
<1>4. requests' # requests
  BY DEF AnsweredNow
<1>5. Len(requests') # 0
  BY DEF AnsweredNow
<1> QED
  BY <1>2, <1>3, <1>4, <1>5

LEMMA FormOfHook ==
  ASSUME SurfaceInv, NEW i \in 1..Len(requests), requests[i].hook \in FormHooks
  PROVE  requests[i].origin = IF requests[i].hook = "createUser" THEN "user" ELSE "rcon"
  BY DEF SurfaceInv, RequestsOK, RequestOK, OfForm

LEMMA AnswerAtHome ==
  ASSUME SurfaceInv, SurfacesNext, NEW i \in 1..Len(requests), AnsweredNow(i)
  PROVE  AtHome(i)
<1>0. /\ requests' # requests /\ requests' # <<>> /\ (\A h, from : ~Mutate(h, from))
      /\ \A j, s : Settles(j, s) => i = j
      /\ \A p : ~Fresh(p)
  BY Parts, OnlySettledAnswers DEF Fresh
<1>1. ASSUME NEW p, NavigateTo(p)
      PROVE  FALSE
  BY <1>0, <1>1 DEF NavigateTo
<1>2. ASSUME NEW r, RoleChanges(r)
      PROVE  FALSE
  BY <1>0, <1>2, Zenon DEF RoleChanges
<1>3. ~PageLoads /\ ~PageFails
  BY <1>0 DEF PageLoads, PageFails
<1>4. ASSUME NEW j, RequestFails(j) \/ RequestUnheard(j)
      PROVE  AtHome(i)
  BY <1>4 DEF RequestFails, RequestUnheard, AtHome
<1>5. CASE OverviewStep
  <2>1. PICK j \in 1..Len(requests) : page = "overview" /\ OverviewSucceeds(j)
    BY <1>0, <1>5, Zenon
    DEF OverviewStep, OverviewRequest, OverviewClose, OverviewConfirm, place
  <2>2. PICK h \in {"create", "serverAction"} : Heard(j, h)
    BY <2>1 DEF OverviewSucceeds
  <2>3. i = j /\ h \in Hooks /\ page \in ResetPages
    BY <1>0, <2>1, <2>2 DEF Heard, Hooks, ResetPages
  <2>4. requests[i].dialog = dialog.id
    BY <2>2, <2>3, HeardByDialog
  <2> QED
    BY <2>1, <2>4 DEF OverviewSucceeds, AtHome
<1>6. CASE BackupsStep
  <2>1. PICK j \in 1..Len(requests) : page = "backups" /\ BackupsSucceeds(j)
    BY <1>0, <1>6, Zenon DEF BackupsStep, BackupsIntent, BackupsClose, BackupsConfirm, place
  <2>2. PICK h \in {"create", "remove", "restore"} : Heard(j, h)
    BY <2>1 DEF BackupsSucceeds
  <2>3. i = j /\ h \in Hooks /\ page \in ResetPages
    BY <1>0, <2>1, <2>2 DEF Heard, Hooks, ResetPages
  <2>4. requests[i].dialog = dialog.id
    BY <2>2, <2>3, HeardByDialog
  <2> QED
    BY <2>1, <2>4 DEF BackupsSucceeds, AtHome
<1>7. CASE PlayersStep
  <2>1. PICK j \in 1..Len(requests) : page = "players" /\ PlayersSucceeds(j)
    BY <1>0, <1>7, Zenon
    DEF PlayersStep, PlayersFromRow, AllowlistEdit, AllowlistSubmit, PlayersClose,
        PlayersConfirm, place
  <2>2. Heard(j, "action") /\ "action" \in Hooks /\ page \in ResetPages
    BY <2>1 DEF PlayersSucceeds, Hooks, ResetPages
  <2>3. i = j
    BY <1>0, <2>2 DEF Heard
  <2>4. /\ dialog # NoDialog /\ requests[i].dialog = dialog.id
        /\ requests[i].origin = dialog.origin /\ requests[i].text = dialog.text
    BY <2>1, <2>2, <2>3, HeardByDialog
  <2>5. dialog.origin = "allowlist" => dialog.text = draft.allowlist
    BY <2>1, <2>4, Parts DEF DialogOK
  <2>6. \A f \in Forms : draft'[f] # draft[f] =>
          f = "allowlist" /\ requests[i].origin = "allowlist"
    BY <2>1, <2>3, Parts DEF PlayersSucceeds
  <2> QED
    BY <2>4, <2>5, <2>6 DEF AtHome
<1>8. CASE UserStep
  <2>1. PICK j \in 1..Len(requests) : page = "settings" /\ (UserCreated(j) \/ UserChanged(j))
    BY <1>0, <1>8, Zenon
    DEF UserStep, UserEdit, UserSubmit, UserIntent, UserClose, UserConfirm, place
  <2>2. i = j
    BY <1>0, <2>1 DEF UserCreated, UserChanged, Heard
  <2>3. CASE UserCreated(i)
    <3>1. requests[i].hook = "createUser"
      BY <2>3 DEF UserCreated, Heard
    <3>2. requests[i].origin = "user"
      BY <3>1, FormOfHook DEF FormHooks
    <3> QED
      BY <2>3, <3>2, Parts DEF UserCreated, AtHome
  <2>4. CASE UserChanged(i)
    BY <2>4 DEF UserChanged, AtHome
  <2> QED
    BY <2>1, <2>2, <2>3, <2>4
<1>9. CASE RconStep
  <2>1. PICK j \in 1..Len(requests) : page = "settings" /\ RconUpdated(j)
    BY <1>0, <1>9, Zenon DEF RconStep, RconEdit, RconSubmit, place
  <2>2. i = j /\ requests[j].hook = "updateRcon"
    BY <1>0, <2>1 DEF RconUpdated, Heard
  <2>3. requests[i].origin = "rcon"
    BY <2>2, FormOfHook DEF FormHooks
  <2> QED
    BY <2>1, <2>3, Parts DEF RconUpdated, AtHome
<1>10. CASE WorldsStep
  <2>1. PICK j \in 1..Len(requests) : page = "worlds" /\ WorldsSucceeds(j)
    BY <1>0, <1>10, Zenon
    DEF WorldsStep, WorldsSelect, WorldsAsk, WorldsClose, WorldsConfirm, place
  <2>2. /\ i = j /\ observed["replace"] = i /\ "replace" \in Hooks
        /\ requests[i].status = "pending"
    BY <1>0, <2>1 DEF WorldsSucceeds, Heard, Settles, Hooks
  <2>3. requests[i].origin = "file"
    BY <2>1 DEF SurfaceInv, RequestsOK, RequestOK
  <2>4. dialog # NoDialog => requests[i].dialog = dialog.id
    BY <2>1, <2>2, Parts DEF ObservedOK
  <2> QED
    BY <2>1, <2>3, <2>4, Parts DEF WorldsSucceeds, AtHome
<1> QED
  BY <1>1, <1>2, <1>3, <1>4, <1>5, <1>6, <1>7, <1>8, <1>9, <1>10
  DEF SurfacesNext, SettingsStep

(* An answer that comes late closes no dialog but the one its request was sent from
   and empties no form but its own, the allowlist form only of the name that was
   sent (user-settings.tsx:70, players-page.tsx:45-46). *)
THEOREM AnswersTouchTheirOwn == SurfacesSpec => AnswersStayHome
<1>1. SurfaceInv /\ [SurfacesNext]_surfaceVars
        => [LateAnswerClosesOwnDialog /\ AnswerEmptiesOwnForm]_surfaceVars
  <2> SUFFICES ASSUME SurfaceInv, SurfacesNext
               PROVE  LateAnswerClosesOwnDialog /\ AnswerEmptiesOwnForm
    OBVIOUS
  <2>1. \A i \in 1..Len(requests) : AnsweredNow(i) => AtHome(i)
    BY AnswerAtHome
  <2> QED
    BY <2>1 DEF AtHome, LateAnswerClosesOwnDialog, AnswerEmptiesOwnForm
<1> QED
  BY <1>1, SurfaceInvAlways, PTL DEF SurfacesSpec, AnswersStayHome

(* On every page and for every role, no button, form, download or reading of the page is
   offered that the server refuses an account whose grant is that role, but for what
   belongs to the whole fleet (permissions.ts:34, scope.go:93, server.go:80-107). *)
THEOREM OffersAreServed == SurfacesSpec => []OfferedIsServed
<1>1. SurfaceInv => OfferedIsServed
  <2> SUFFICES ASSUME role \in Roles, page \in Pages PROVE OfferedIsServed
    BY Parts
  <2> USE DEF OfferedIsServed, Offered, Buttons, Links, MayOpen, PagePermission, PageNeeds,
              RouteNeeds, HasPermission, ViewerPermissions, OperatorPermissions, Authorized,
              ServerPermissions, FleetPermissions
  <2>1. CASE page = "overview"
    BY <2>1 DEF Roles, OverviewActions, OverviewMay
  <2>2. CASE page = "backups"
    BY <2>2 DEF Roles, BackupsHook, BackupsMay
  <2>3. CASE page = "players"
    BY <2>3 DEF Roles, PlayersManage
  <2>4. CASE page = "worlds"
    BY <2>4 DEF Roles, WorldsReplace
  <2>5. CASE page = "settings"
    BY <2>5 DEF Roles
  <2>6. CASE page \in {"console", "audit"}
    BY <2>6 DEF Roles
  <2> QED
    BY <2>1, <2>2, <2>3, <2>4, <2>5, <2>6 DEF Pages
<1> QED
  BY <1>1, SurfaceInvAlways, PTL

=============================================================================
