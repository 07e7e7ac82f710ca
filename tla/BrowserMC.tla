------------------------------- MODULE BrowserMC -------------------------------
(***************************************************************************)
(* What has to go on, for TLC: the operations under operationMu, and the   *)
(* data of the pages that ask for them.  They share no state here, so TLC  *)
(* looks at one of them while the other rests: the operations as they      *)
(* begin, the pages once the overview is read.                             *)
(***************************************************************************)
EXTENDS WorldOperationsMC, Views

VARIABLE focus  \* the part that takes steps

ViewsRest ==
  /\ version = 0 /\ place = "overview"
  /\ cache = [q \in Queries |->
       IF q = "overview" THEN [Unread EXCEPT !.data = 0, !.stale = FALSE] ELSE Unread]
  /\ mutation = "none" /\ refresh = FALSE /\ confirmed = 0

MCInit ==
  /\ focus \in {"operations", "views"}
  /\ Init
  /\ focus # "operations" => ~running
  /\ IF focus = "views" THEN ViewsInit ELSE ViewsRest

MCNext ==
  /\ \/ focus = "operations" /\ Next /\ UNCHANGED viewVars
     \/ focus = "views" /\ ViewsNext /\ UNCHANGED vars
  /\ UNCHANGED focus

(* The fairness of FairSpec and ViewsSpec. *)
MCSpec ==
  /\ MCInit /\ [][MCNext]_<<focus, vars, viewVars>>
  /\ \A r \in Requests :
       WF_vars(focus = "operations" /\ Work(r)) /\ SF_vars(focus = "operations" /\ Lock(r))
  /\ \A q \in Polled :
       /\ SF_viewVars(focus = "views" /\ AnswerRead(q))
       /\ SF_viewVars(focus = "views" /\ HearRead(q))
       /\ WF_viewVars(focus = "views" /\ Poll(q))

=============================================================================
