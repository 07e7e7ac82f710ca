------------------------------ MODULE WorldsPage ------------------------------
(***************************************************************************)
(* Choosing a world archive and replacing the world by it:                 *)
(* worlds-page.tsx.  The page reads nothing, so it is always rendered.     *)
(***************************************************************************)
EXTENDS Surface

WorldsReplace(r) == HasPermission(r, "world.replace")

(* selectFile and removeFile; a file that is not a ZIP empties the selection. *)
WorldsSelect(text) ==
  /\ Clickable("worlds") /\ WorldsReplace(role)
  /\ draft' = [draft EXCEPT !.file = text]
  /\ UNCHANGED <<place, dialog, opened, requests, observed>>

(* The button is disabled without a file and while a request is pending. *)
WorldsAsk ==
  /\ Clickable("worlds") /\ WorldsReplace(role)
  /\ draft.file # Empty /\ ~IsPending("replace")
  /\ Display("replace", "file", draft.file)
  /\ UNCHANGED <<place, draft, requests, observed>>

(* The hook is not reset: its outcome stays on the page. *)
WorldsClose ==
  /\ Rendered("worlds") /\ dialog # NoDialog
  /\ Shut
  /\ UNCHANGED <<place, draft, opened, requests, observed>>

(* replaceSelectedWorld *)
WorldsConfirm ==
  /\ Rendered("worlds") /\ dialog # NoDialog
  /\ ~IsPending("replace") /\ draft.file # Empty
  /\ Mutate("replace", [dialog EXCEPT !.text = draft.file])
  /\ UNCHANGED <<place, dialog, draft, opened>>

(* onSuccess: whatever file is selected by now, and whatever dialog is open. *)
WorldsSucceeds(i) ==
  /\ Heard(i, "replace")
  /\ draft' = [draft EXCEPT !.file = Empty]
  /\ Shut
  /\ UNCHANGED <<place, opened, observed>>

WorldsStep ==
  \/ \E text \in Texts \union {Empty} : WorldsSelect(text)
  \/ WorldsAsk \/ WorldsClose \/ WorldsConfirm
  \/ \E i \in 1..Len(requests) : page = "worlds" /\ WorldsSucceeds(i)

=============================================================================
