-------------------------------- MODULE Surfaces --------------------------------
(***************************************************************************)
(* The pages of the browser application together: navigation between them, *)
(* the session's account changing under an open page, page data that fails *)
(* and recovers, and requests answered in any order and at any time.       *)
(***************************************************************************)
EXTENDS OverviewPage, BackupsPage, PlayersPage, SettingsPage, WorldsPage

SurfacesInit ==
  /\ role \in Roles /\ page = "overview"
  /\ shown = FALSE
  /\ dialog = NoDialog /\ opened = 0
  /\ draft = [f \in Forms |-> Empty]
  /\ requests = <<>> /\ observed = [h \in Hooks |-> 0]

(* A link of the sidebar leads to its page whatever the role may open. *)
NavigateTo(p) ==
  /\ page # p
  /\ page' = p
  /\ Fresh(p)
  /\ UNCHANGED role

(* The session is read again and names another account, signed in from another
   tab; PermissionBoundary keeps the page, drops it, or mounts it anew. *)
RoleChanges(r) ==
  /\ role' = r
  /\ IF MayOpen(r, page) <=> MayOpen(role, page)
       THEN UNCHANGED <<shown, dialog, draft, opened, requests, observed>>
       ELSE Fresh(page)
  /\ UNCHANGED page

(* The page's data arrives, at first or after an error. *)
PageLoads ==
  /\ MayOpen(role, page) /\ ~shown
  /\ shown' = TRUE
  /\ UNCHANGED <<role, page, dialog, draft, opened, requests, observed>>

(* Reading the page's data again fails: the page renders its error instead.  The
   settings' state is held by the cards it renders, that of other pages by the
   page itself. *)
PageFails ==
  /\ shown /\ page # "worlds"
  /\ IF page = "settings" THEN Fresh(page)
     ELSE shown' = FALSE /\ UNCHANGED <<dialog, draft, opened, requests, observed>>
  /\ UNCHANGED <<role, page>>

(* The server refuses or fails, or nobody hears its answer any more. *)
RequestFails(i) ==
  /\ Settles(i, "failed")
  /\ UNCHANGED <<place, dialog, draft, opened, observed>>

RequestUnheard(i) ==
  /\ observed[requests[i].hook] # i
  /\ Settles(i, "done")
  /\ UNCHANGED <<place, dialog, draft, opened, observed>>

SurfacesNext ==
  \/ \E p \in Pages : NavigateTo(p)
  \/ \E r \in Roles : RoleChanges(r)
  \/ PageLoads \/ PageFails
  \/ \E i \in 1..Len(requests) : RequestFails(i) \/ RequestUnheard(i)
  \/ OverviewStep \/ BackupsStep \/ PlayersStep \/ SettingsStep \/ WorldsStep

SurfacesSpec == SurfacesInit /\ [][SurfacesNext]_surfaceVars

-----------------------------------------------------------------------------
(* Properties *)

(* The variables have their types; numbers refer to what was opened and sent. *)
SurfacesTypeOK ==
  /\ role \in Roles /\ page \in Pages /\ shown \in BOOLEAN
  /\ opened \in 0..MaxOpened
  /\ dialog.id \in 0..opened
  /\ draft \in [Forms -> Texts \union {Empty}]
  /\ Len(requests) <= MaxRequests
  /\ \A i \in 1..Len(requests) :
       requests[i].hook \in Hooks /\ requests[i].status \in {"pending", "done", "failed"}
  /\ observed \in [Hooks -> 0..Len(requests)]

(* The hooks whose state a page's dialog shows. *)
DialogHooks ==
  CASE page = "overview" -> {"create", "serverAction"}
    [] page = "backups" -> {"create", "remove", "restore"}
    [] page = "players" -> {"action"}
    [] page = "settings" -> {h \in {dialog.action} : SurfaceMatches(h)}
    [] OTHER -> {h \in {"replace"} : IsPending(h)}

(* A dialog that is busy, or that shows an error, is so because of a request that
   was sent from it: a failed ban of one player is not shown when the dialog is
   opened for the next (players-page.tsx:27-29). *)
OutcomeShownIsOwn ==
  dialog # NoDialog =>
    \A h \in DialogHooks :
      observed[h] # 0 => requests[observed[h]].dialog = dialog.id

(* No surface, a dialog from its opening to its closing or a form, sends a second
   request before the first is answered (confirm-dialog.tsx:44, the busy button). *)
OnePendingPerSurface ==
  \A i, j \in 1..Len(requests) :
    (/\ requests[i].status = "pending" /\ requests[j].status = "pending"
     /\ requests[i].dialog = requests[j].dialog
     /\ requests[i].origin = requests[j].origin) => i = j

(* An outcome belongs to the surface that shows it, and a surface has one request
   under way, however dialogs are closed and opened while requests are answered. *)
SurfacesKeepApart == SurfacesTypeOK /\ OutcomeShownIsOwn /\ OnePendingPerSurface

(* Request i is answered by this step. *)
AnsweredNow(i) ==
  /\ requests[i].status = "pending"
  /\ i \in 1..Len(requests') /\ requests'[i].status # "pending"

(* An answer that comes late closes no dialog but the one its request was sent
   from, however many were closed and opened meanwhile (user-settings.tsx:70). *)
LateAnswerClosesOwnDialog ==
  \A i \in 1..Len(requests) :
    (AnsweredNow(i) /\ dialog # NoDialog /\ dialog' # dialog)
      => requests[i].dialog = dialog.id

(* An answer empties no form but the one its request came from, and the allowlist
   form only of the name that was sent: "A kick must never discard a name typed
   into the allowlist form" (players-page.tsx:45-46). *)
AnswerEmptiesOwnForm ==
  \A i \in 1..Len(requests) : AnsweredNow(i) =>
    \A f \in Forms : draft'[f] # draft[f] =>
      /\ requests[i].origin = f
      /\ f = "allowlist" => requests[i].text = draft[f]

(* An answer touches nothing but the dialog and the form it belongs to. *)
AnswersStayHome == [][LateAnswerClosesOwnDialog /\ AnswerEmptiesOwnForm]_surfaceVars

(* What a page shows besides the buttons of its dialogs: a download link in the rows
   of the backups (canDownload), the world's and the export's to whoever the page is
   open to, and the console's command form (canExecute). *)
Links ==
  CASE page = "backups" /\ HasPermission(role, "backups.download") -> {"download"}
    [] page = "console" /\ HasPermission(role, "console.execute") -> {"command"}
    [] page = "worlds" -> {"download"}
    [] page = "audit" -> {"export"}
    [] OTHER -> {}

(* The actions for which a page has a button or a form. *)
Buttons ==
  CASE page = "overview" -> {x \in OverviewActions : OverviewMay(role, x)}
    [] page = "backups" -> {x \in DOMAIN BackupsHook : BackupsMay(role, x)}
    [] page = "players" -> {x \in {"kick"} : PlayersManage(role)}
    [] page = "worlds" -> {x \in {"replace"} : WorldsReplace(role)}
    [] page = "settings" -> {"rcon", "disable"}
    [] OTHER -> {}

(* The permissions of the routes a page reads and of those it offers its user. *)
Offered == PageNeeds[page] \union {RouteNeeds(page, a) : a \in Buttons \union Links}

(* The browser offers nothing the server refuses an account whose grant is its
   role: no page, button, form or download.  Excepted is what belongs to the whole
   fleet: the settings' user list and the audit log are refused to administrators
   who do not own it (permissions.ts:34 against scope.go:93). *)
OfferedIsServed ==
  MayOpen(role, page) =>
    \A permission \in Offered :
      Authorized(role, FALSE, permission) \/ permission \in FleetPermissions

=============================================================================
