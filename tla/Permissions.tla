------------------------------ MODULE Permissions ------------------------------
(***************************************************************************)
(* Who may do what, twice: the browser's table, by which pages and buttons *)
(* are shown (features/auth/permissions.ts, app/routing), and the server's *)
(* (auth/scope.go and the routes of httpapi/server.go), by which requests  *)
(* are served.                                                             *)
(***************************************************************************)
EXTENDS Integers, Sequences

Roles == {"administrator", "operator", "viewer"}

Pages == {"overview", "console", "players", "worlds", "backups", "settings", "audit"}

-----------------------------------------------------------------------------
(* The browser *)

ViewerPermissions == {"monitor.read", "console.read", "players.read", "backups.read"}

OperatorPermissions ==
  ViewerPermissions \union
  {"console.execute", "players.manage", "backups.create", "backups.delete",
   "backups.download", "world.download", "server.restart"}

HasPermissionLoose(r, permission) ==  \* variant: operators may do what viewers may not
  r = "administrator" \/ r = "operator" \/ permission \in ViewerPermissions

HasPermission(r, permission) ==
  \/ r = "administrator"
  \/ r = "operator" /\ permission \in OperatorPermissions
  \/ permission \in ViewerPermissions

(* What a page asks of the role: the route modules, and routes.ts for the sidebar. *)
PagePermission ==
  [overview |-> "monitor.read", console |-> "console.read", players |-> "players.read",
   worlds |-> "world.download", backups |-> "backups.read",
   settings |-> "settings.manage", audit |-> "audit.read"]

(* PermissionBoundary renders the page instead of its refusal. *)
MayOpen(r, p) == HasPermission(r, PagePermission[p])

-----------------------------------------------------------------------------
(* The server *)

FleetPermissions == {"fleet.users.manage", "fleet.audit.read", "fleet.settings.manage"}

ServerPermissions ==
  [administrator |->
     {"monitor.read", "console.read", "console.execute", "players.read", "players.manage",
      "backups.read", "backups.create", "backups.delete", "backups.download",
      "backups.restore", "world.download", "world.replace", "server.start",
      "server.stop", "server.restart", "server.delete", "settings.manage",
      "grants.manage", "audit.read"},
   operator |->
     {"monitor.read", "console.read", "console.execute", "players.read", "players.manage",
      "backups.read", "backups.create", "backups.delete", "backups.download",
      "world.download", "server.restart"},
   viewer |-> {"monitor.read", "console.read", "players.read", "backups.read"}]

(* Authorize, for an account whose grant on the active server is its role; the
   account that set the dashboard up is a fleet owner, the others are not. *)
Authorized(r, owner, permission) ==
  IF permission \in FleetPermissions THEN owner
  ELSE permission \in ServerPermissions[IF owner THEN "administrator" ELSE r]

(* What the routes ask for that the pages read when they are shown, ... *)
PageNeeds ==
  [overview |-> {"monitor.read"}, console |-> {"console.read"},
   players |-> {"players.read"}, worlds |-> {}, backups |-> {"backups.read"},
   settings |-> {"settings.manage", "fleet.users.manage"}, audit |-> {"fleet.audit.read"}]

(* ... and those that what the pages offer leads to: the actions of their dialogs
   and forms, the download links, the export and the console's commands. *)
RouteNeeds(p, action) ==
  CASE p = "overview" ->
         [backup |-> "backups.create", start |-> "server.start",
          stop |-> "server.stop", restart |-> "server.restart"][action]
    [] p = "backups" ->
         [create |-> "backups.create", delete |-> "backups.delete",
          restore |-> "backups.restore", download |-> "backups.download"][action]
    [] p = "players" -> "players.manage"
    [] p = "worlds" -> [replace |-> "world.replace", download |-> "world.download"][action]
    [] p = "console" -> "console.execute"
    [] p = "settings" ->
         IF action = "rcon" THEN "settings.manage" ELSE "fleet.users.manage"
    [] p = "audit" -> "fleet.audit.read"

=============================================================================
