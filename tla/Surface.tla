-------------------------------- MODULE Surface --------------------------------
(***************************************************************************)
(* What the pages of the browser application have in common: one page is   *)
(* mounted at a time, it opens one modal dialog at a time, and it sends    *)
(* requests through mutation hooks, each of which observes the last        *)
(* request sent through it.  A request whose hook was reset, or whose page *)
(* was left, goes on and is answered, but no surface hears of it.          *)
(*                                                                         *)
(* A form or the file input of a page is a draft: what its fields hold.    *)
(***************************************************************************)
EXTENDS Permissions

CONSTANTS
  Texts,        \* what a form may hold
  MaxOpened,    \* bound: dialogs opened while a page is mounted
  MaxRequests   \* bound: requests sent while a page is mounted

Empty == "empty"

ASSUME SurfaceBounds ==
  /\ Empty \notin Texts
  /\ MaxOpened \in Nat /\ MaxRequests \in Nat

VARIABLES
  role,      \* role of the account the session names
  page,      \* the location
  shown,     \* the page's data is loaded, so the page is rendered
  dialog,    \* what the open dialog asks
  draft,     \* what the forms hold
  opened,    \* dialogs opened
  requests,  \* requests sent
  observed   \* of each hook, the number of its request, 0 if it was reset

surfaceVars == <<role, page, shown, dialog, draft, opened, requests, observed>>
place == <<role, page, shown>>

Forms == {"allowlist", "file", "user", "rcon"}

Hooks == {"create", "serverAction", "remove", "restore", "action",
          "createUser", "disable", "revoke", "updateRcon", "replace"}

NoDialog == [action |-> "none", origin |-> "none", text |-> Empty, id |-> 0]

-----------------------------------------------------------------------------
(* Rendering *)

(* Something of page p can be clicked. *)
Rendered(p) == page = p /\ MayOpen(role, p) /\ shown

(* ... beside a dialog, which is modal. *)
Clickable(p) == Rendered(p) /\ dialog = NoDialog

(* The components of page p are mounted anew. *)
Fresh(p) ==
  /\ shown' = (p = "worlds")
  /\ dialog' = NoDialog /\ opened' = 0
  /\ draft' = [f \in Forms |-> Empty]
  /\ requests' = <<>> /\ observed' = [h \in Hooks |-> 0]

Display(action, origin, text) ==
  /\ opened < MaxOpened
  /\ opened' = opened + 1
  /\ dialog' = [action |-> action, origin |-> origin, text |-> text, id |-> opened + 1]

Shut == dialog' = NoDialog

-----------------------------------------------------------------------------
(* Mutation hooks *)

Status(h) == IF observed[h] = 0 THEN "idle" ELSE requests[observed[h]].status

IsPending(h) == Status(h) = "pending"

Mutate(h, from) ==
  /\ Len(requests) < MaxRequests
  /\ requests' = Append(requests, [hook |-> h, dialog |-> from.id, origin |-> from.origin,
                                   text |-> from.text, status |-> "pending"])
  /\ observed' = [observed EXCEPT ![h] = Len(requests) + 1]

(* reset() of the hooks H *)
Forget(H) == observed' = [h \in Hooks |-> IF h \in H THEN 0 ELSE observed[h]]

(* A form is edited after its request was answered. *)
ForgetSettled(h) == Forget(IF IsPending(h) THEN {} ELSE {h})

(* The callbacks of mutate() are called: the hook still observes request i. *)
Settles(i, status) ==
  /\ requests[i].status = "pending"
  /\ requests' = [requests EXCEPT ![i].status = status]

Heard(i, h) == requests[i].hook = h /\ observed[h] = i /\ Settles(i, "done")

=============================================================================
