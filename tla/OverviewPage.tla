------------------------------ MODULE OverviewPage ------------------------------
(***************************************************************************)
(* The overview's buttons and their confirmation: overview-page.tsx,       *)
(* server-lifecycle.tsx, overview-confirmation.tsx.                        *)
(***************************************************************************)
EXTENDS Surface

OverviewActions == {"backup", "start", "stop", "restart"}

OverviewHook(action) == IF action = "backup" THEN "create" ELSE "serverAction"

(* canBackup and canRunServerAction *)
OverviewMay(r, action) ==
  IF action = "backup" THEN HasPermission(r, "backups.create")
  ELSE IF action = "restart" THEN HasPermission(r, "server.restart")
  ELSE r = "administrator"

(* Both hooks keep every dialog busy. *)
OverviewBusy == IsPending("create") \/ IsPending("serverAction")

(* The page's header. *)
HeaderActions == {"backup", "restart"}

(* ServerLifecycle: the card's buttons for a server in a state. *)
LifecycleActions(state) ==
  (IF state = "online" THEN {} ELSE {"start"}) \union
  (IF state = "offline" THEN {} ELSE {"stop"})

ServerStates == {"online", "offline", "unknown"}

(* requestAction, from the page's header or from the lifecycle card. *)
OverviewRequest(action) ==
  /\ Clickable("overview") /\ OverviewMay(role, action)
  /\ Display(action, "page", Empty)
  /\ Forget({OverviewHook(action)})
  /\ UNCHANGED <<place, draft, requests>>

(* closeConfirmation: the cancel button is disabled while busy, the other ways
   to close a dialog are not. *)
OverviewClose ==
  /\ Rendered("overview") /\ dialog # NoDialog
  /\ Forget({OverviewHook(dialog.action)})
  /\ Shut
  /\ UNCHANGED <<place, draft, opened, requests>>

(* confirmAction *)
OverviewConfirm ==
  /\ Rendered("overview") /\ dialog # NoDialog
  /\ ~OverviewBusy /\ OverviewMay(role, dialog.action)
  /\ Mutate(OverviewHook(dialog.action), dialog)
  /\ UNCHANGED <<place, dialog, draft, opened>>

(* onSuccess: closeConfirmation as it was when the request was sent. *)
OverviewSucceeds(i) ==
  /\ \E h \in {"create", "serverAction"} : Heard(i, h)
  /\ Forget({requests[i].hook})
  /\ Shut
  /\ UNCHANGED <<place, draft, opened>>

OverviewStep ==
  \/ \E state \in ServerStates :
       \E action \in HeaderActions \union LifecycleActions(state) : OverviewRequest(action)
  \/ OverviewClose \/ OverviewConfirm
  \/ \E i \in 1..Len(requests) : page = "overview" /\ OverviewSucceeds(i)

=============================================================================
