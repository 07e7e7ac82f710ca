-------------------------------- MODULE PagesMC --------------------------------
(***************************************************************************)
(* For TLC: the operations under operationMu, signing in, the pages whose  *)
(* dialogs and forms ask for the operations, and the audit log, which      *)
(* holds what was asked, as it is exported and as it is shown.  They share *)
(* no state here, so TLC looks at one of them at a time while the others   *)
(* rest as they begin.                                                     *)
(***************************************************************************)
EXTENDS WorldOperationsMC, SignIn, Surfaces, AuditTrail

VARIABLE focus  \* the part that takes steps

(* Rows of the player table that between them have every button. *)
SomeRows == {{"online"}, {"allowlisted", "operator", "banned"}}

MCInit ==
  /\ focus \in {"operations", "signIn", "surfaces", "export", "trail"}
  /\ Init /\ SignInit /\ SurfacesInit /\ AuditInit /\ TrailInit
  /\ focus # "operations" => ~running
  /\ focus # "signIn" => issued = 0
  /\ focus # "surfaces" => role = "viewer"

MCNext ==
  /\ \/ focus = "operations" /\ Next
        /\ UNCHANGED <<signVars, surfaceVars, auditVars, trailVars>>
     \/ focus = "signIn" /\ SignNext /\ UNCHANGED <<vars, surfaceVars, auditVars, trailVars>>
     \/ focus = "surfaces" /\ SurfacesNext
        /\ UNCHANGED <<vars, signVars, auditVars, trailVars>>
     \/ /\ UNCHANGED <<vars, signVars, surfaceVars>>
        /\ \/ focus \in {"export", "trail"} /\ AuditWrites /\ UNCHANGED trailVars
           \/ focus = "export" /\ ExportNext /\ UNCHANGED trailVars
           \/ focus = "trail" /\ TrailNext
  /\ UNCHANGED focus

MCSpec == MCInit /\ [][MCNext]_<<focus, vars, signVars, surfaceVars, auditVars, trailVars>>

=============================================================================
