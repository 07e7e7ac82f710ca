------------------------------ MODULE PlayersPage ------------------------------
(***************************************************************************)
(* The player table, the allowlist form and their dialog:                  *)
(* players-page.tsx, player-row.tsx, allowlist-form.tsx and                *)
(* player-action-dialog.tsx.                                               *)
(***************************************************************************)
EXTENDS Surface

CONSTANT RowFlags  \* what rows of the table may show of a player

PlayersManage(r) == HasPermission(r, "players.manage")

(* The buttons of a row: two toggles, a ban or a pardon, and a kick for a player
   who is online. *)
RowActions(flags) ==
  {IF "allowlisted" \in flags THEN "allowlist-remove" ELSE "allowlist-add",
   IF "operator" \in flags THEN "deop" ELSE "op",
   IF "banned" \in flags THEN "pardon" ELSE "ban"}
  \union (IF "online" \in flags THEN {"kick"} ELSE {})

(* requestFromRow; the dialog keeps what the row offered when it was clicked. *)
PlayersFromRow(flags, action) ==
  /\ Clickable("players") /\ PlayersManage(role)
  /\ action \in RowActions(flags)
  /\ Display(action, "player-row", Empty)
  /\ UNCHANGED <<place, draft, requests, observed>>

(* onNameChange *)
AllowlistEdit(text) ==
  /\ Clickable("players") /\ PlayersManage(role)
  /\ draft' = [draft EXCEPT !.allowlist = text]
  /\ UNCHANGED <<place, dialog, opened, requests, observed>>

(* The form's submit, of a name that is a valid one. *)
AllowlistSubmit ==
  /\ Clickable("players") /\ PlayersManage(role)
  /\ draft.allowlist # Empty
  /\ Display("allowlist-add", "allowlist", draft.allowlist)
  /\ UNCHANGED <<place, draft, requests, observed>>

(* closeDialog *)
PlayersClose ==
  /\ Rendered("players") /\ dialog # NoDialog
  /\ Forget({"action"})
  /\ Shut
  /\ UNCHANGED <<place, draft, opened, requests>>

(* The dialog's submit, with a valid reason where one is needed, and confirm. *)
PlayersConfirm ==
  /\ Rendered("players") /\ dialog # NoDialog
  /\ ~IsPending("action")
  /\ Mutate("action", dialog)
  /\ UNCHANGED <<place, dialog, draft, opened>>

PlayersSucceedsShared(i) ==  \* variant: any success clears the allowlist form
  /\ Heard(i, "action")
  /\ Forget({"action"})
  /\ Shut
  /\ draft' = [draft EXCEPT !.allowlist = Empty]
  /\ UNCHANGED <<place, opened>>

(* onSuccess: the surface that started the action is reset, and nothing else. *)
PlayersSucceeds(i) ==
  /\ Heard(i, "action")
  /\ Forget({"action"})
  /\ Shut
  /\ draft' = IF requests[i].origin = "allowlist"
                THEN [draft EXCEPT !.allowlist = Empty] ELSE draft
  /\ UNCHANGED <<place, opened>>

PlayersStep ==
  \/ \E flags \in RowFlags : \E action \in RowActions(flags) : PlayersFromRow(flags, action)
  \/ \E text \in Texts \union {Empty} : AllowlistEdit(text)
  \/ AllowlistSubmit \/ PlayersClose \/ PlayersConfirm
  \/ \E i \in 1..Len(requests) : page = "players" /\ PlayersSucceeds(i)

=============================================================================
