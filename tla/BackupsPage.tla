------------------------------ MODULE BackupsPage ------------------------------
(***************************************************************************)
(* The backup catalogue's dialogs: backups-page.tsx, backup-row.tsx,       *)
(* backup-action-dialog.tsx.                                               *)
(***************************************************************************)
EXTENDS Surface

BackupsHook == [create |-> "create", delete |-> "remove", restore |-> "restore"]

(* canCreate, canDelete, canRestore *)
BackupsMay(r, action) ==
  HasPermission(r, [create |-> "backups.create", delete |-> "backups.delete",
                    restore |-> "backups.restore"][action])

BackupsBusy == IsPending("create") \/ IsPending("remove") \/ IsPending("restore")

(* A button of the page or of a row. *)
BackupsIntent(action) ==
  /\ Clickable("backups") /\ BackupsMay(role, action)
  /\ Display(action, "page", Empty)
  /\ UNCHANGED <<place, draft, requests, observed>>

BackupsCloseCreate ==  \* variant: only the creation's hook is reset
  /\ Rendered("backups") /\ dialog # NoDialog
  /\ Forget({"create"})
  /\ Shut
  /\ UNCHANGED <<place, draft, opened, requests>>

(* closeDialog *)
BackupsClose ==
  /\ Rendered("backups") /\ dialog # NoDialog
  /\ Forget({BackupsHook[dialog.action]})
  /\ Shut
  /\ UNCHANGED <<place, draft, opened, requests>>

(* runIntent: the dialog's submit button is disabled while busy. *)
BackupsConfirm ==
  /\ Rendered("backups") /\ dialog # NoDialog
  /\ ~BackupsBusy
  /\ Mutate(BackupsHook[dialog.action], dialog)
  /\ UNCHANGED <<place, dialog, draft, opened>>

(* onSuccess: closeDialog as it was when the request was sent. *)
BackupsSucceeds(i) ==
  /\ \E h \in {"create", "remove", "restore"} : Heard(i, h)
  /\ Forget({requests[i].hook})
  /\ Shut
  /\ UNCHANGED <<place, draft, opened>>

BackupsStep ==
  \/ \E action \in DOMAIN BackupsHook : BackupsIntent(action)
  \/ BackupsClose \/ BackupsConfirm
  \/ \E i \in 1..Len(requests) : page = "backups" /\ BackupsSucceeds(i)

=============================================================================
