------------------------------ MODULE StorageMC ------------------------------
(***************************************************************************)
(* For TLC: what is kept in two places or written in several steps: the    *)
(* backup catalogue, the RCON credentials, the schema, a world archive as  *)
(* it is extracted; and the table of login attempts, which is kept in      *)
(* memory.  They share no state here, so TLC looks at one of them at a     *)
(* time while the others rest.                                             *)
(***************************************************************************)
EXTENDS BackupCatalogMC, RconCredentials, Migrations, Extraction, LoginLimiter

VARIABLE focus  \* the part that takes steps

MCInit ==
  /\ focus \in {"catalog", "credentials", "schema", "extraction", "limiter"}
  /\ Init /\ RconInit /\ SchemaInit /\ ExtractionInit /\ LimiterInit
  /\ focus # "schema" => applied = 0

MCNext ==
  /\ \/ focus = "catalog" /\ Next
        /\ UNCHANGED <<rconVars, schemaVars, extractionVars, limiterVars>>
     \/ focus = "credentials" /\ RconNext
        /\ UNCHANGED <<vars, schemaVars, extractionVars, limiterVars>>
     \/ focus = "schema" /\ SchemaNext
        /\ UNCHANGED <<vars, rconVars, extractionVars, limiterVars>>
     \/ focus = "extraction" /\ ExtractionNext
        /\ UNCHANGED <<vars, rconVars, schemaVars, limiterVars>>
     \/ focus = "limiter" /\ LimiterNext
        /\ UNCHANGED <<vars, rconVars, schemaVars, extractionVars>>
  /\ UNCHANGED focus

MCSpec ==
  MCInit /\ [][MCNext]_<<focus, vars, rconVars, schemaVars, extractionVars, limiterVars>>

=============================================================================
