------------------------------ MODULE SettingsPage ------------------------------
(***************************************************************************)
(* The settings: the form that creates a user and the dialogs of the user  *)
(* list (user-settings.tsx), and the form for the RCON credentials         *)
(* (integration-settings.tsx).                                             *)
(***************************************************************************)
EXTENDS Surface

FromForm(f) == [id |-> 0, origin |-> f, text |-> draft[f]]

-----------------------------------------------------------------------------
(* UserSettings: creating a user *)

(* A field of the form changes. *)
UserEdit(text) ==
  /\ Clickable("settings")
  /\ draft' = [draft EXCEPT !.user = text]
  /\ ForgetSettled("createUser")
  /\ UNCHANGED <<place, dialog, opened, requests>>

(* submit: what is not valid resets the hook, what is valid is sent. *)
UserSubmit ==
  /\ Clickable("settings") /\ ~IsPending("createUser")
  /\ IF draft.user = Empty
       THEN Forget({"createUser"}) /\ UNCHANGED requests
       ELSE Mutate("createUser", FromForm("user"))
  /\ UNCHANGED <<place, dialog, draft, opened>>

(* onSuccess: whatever the fields hold by now. *)
UserCreated(i) ==
  /\ Heard(i, "createUser")
  /\ draft' = [draft EXCEPT !.user = Empty]
  /\ UNCHANGED <<place, dialog, opened, observed>>

-----------------------------------------------------------------------------
(* UserSettings: disabling users and revoking their sessions *)

(* openIntent, for a user who is listed, and not oneself if it is to disable. *)
UserIntent(type) ==
  /\ Clickable("settings")
  /\ Forget({type})
  /\ Display(type, "page", Empty)
  /\ UNCHANGED <<place, draft, requests>>

(* closeIntent *)
UserClose ==
  /\ Rendered("settings") /\ dialog # NoDialog
  /\ Forget({dialog.action})
  /\ Shut
  /\ UNCHANGED <<place, draft, opened, requests>>

(* activeSurfaceMatches: the outcome of the hook belongs to the open dialog. *)
SurfaceMatches(h) == observed[h] # 0 /\ requests[observed[h]].dialog = dialog.id

(* confirmIntent *)
UserConfirm ==
  /\ Rendered("settings") /\ dialog # NoDialog
  /\ ~(SurfaceMatches(dialog.action) /\ IsPending(dialog.action))
  /\ Mutate(dialog.action, dialog)
  /\ UNCHANGED <<place, dialog, draft, opened>>

(* onSuccess closes the dialog that started the action, if it is still open. *)
UserChanged(i) ==
  /\ \E h \in {"disable", "revoke"} : Heard(i, h)
  /\ dialog' = IF dialog.id = requests[i].dialog THEN NoDialog ELSE dialog
  /\ UNCHANGED <<place, draft, opened, observed>>

(* What UserSettings renders. *)
UserStep ==
  \/ \E text \in Texts \union {Empty} : UserEdit(text)
  \/ UserSubmit
  \/ \E type \in {"disable", "revoke"} : UserIntent(type)
  \/ UserClose \/ UserConfirm
  \/ \E i \in 1..Len(requests) : page = "settings" /\ (UserCreated(i) \/ UserChanged(i))

-----------------------------------------------------------------------------
(* IntegrationSettings *)

(* editAddress, editPassword *)
RconEdit(text) ==
  /\ Clickable("settings")
  /\ draft' = [draft EXCEPT !.rcon = text]
  /\ ForgetSettled("updateRcon")
  /\ UNCHANGED <<place, dialog, opened, requests>>

RconSubmit ==
  /\ Clickable("settings") /\ ~IsPending("updateRcon")
  /\ IF draft.rcon = Empty
       THEN Forget({"updateRcon"}) /\ UNCHANGED requests
       ELSE Mutate("updateRcon", FromForm("rcon"))
  /\ UNCHANGED <<place, dialog, draft, opened>>

(* onSuccess: whatever the fields hold by now. *)
RconUpdated(i) ==
  /\ Heard(i, "updateRcon")
  /\ draft' = [draft EXCEPT !.rcon = Empty]
  /\ UNCHANGED <<place, dialog, opened, observed>>

(* What IntegrationSettings renders. *)
RconStep ==
  \/ \E text \in Texts \union {Empty} : RconEdit(text)
  \/ RconSubmit
  \/ \E i \in 1..Len(requests) : page = "settings" /\ RconUpdated(i)

SettingsStep == UserStep \/ RconStep

=============================================================================
