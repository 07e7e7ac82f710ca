------------------------------- MODULE Migrations -------------------------------
(***************************************************************************)
(* The schema of the database and the starts that bring it up to date: one *)
(* transaction for each version, with foreign keys off, and a check of all *)
(* references after the last (store/migrate.go, store.go).  A process may  *)
(* die anywhere, and a build may be older than the database.               *)
(***************************************************************************)
EXTENDS Integers

CONSTANT Builds  \* the last versions the builds that are started understand

ASSUME BuildConstants == Builds \subseteq Nat \ {0}

VARIABLES
  applied,      \* the highest version in schema_migrations
  times,        \* how often each version's statements took effect
  orphans,      \* rows refer to rows that are not there
  process,      \* the running process and how far its start has come
  foreignKeys   \* the pragma on its connection

schemaVars == <<applied, times, orphans, process, foreignKeys>>

Versions == UNION {1..b : b \in Builds}

NoProcess == [state |-> "down", build |-> 0, migrated |-> FALSE]

(* A new database, or one of any version, its references intact. *)
SchemaInit ==
  /\ applied \in Versions \union {0}
  /\ times = [v \in Versions |-> IF v <= applied THEN 1 ELSE 0]
  /\ orphans = FALSE
  /\ process = NoProcess /\ foreignKeys = TRUE

(* Open and the beginning of migrate; a build that finds a schema newer than its own
   gives up before it has changed anything (ErrSchemaTooNew). *)
OpenStore(b) ==
  /\ process = NoProcess
  /\ applied <= b
  /\ process' = [state |-> IF applied = b THEN "serving" ELSE "migrating",
                 build |-> b, migrated |-> applied < b]
  /\ foreignKeys' = (applied = b)
  /\ UNCHANGED <<applied, times, orphans>>

(* applyMigration: statements, adoption and record in one transaction; a rebuilt
   table may leave references that lead nowhere. *)
ApplyMigration ==
  /\ process.state = "migrating" /\ applied < process.build
  /\ times' = [times EXCEPT ![applied + 1] = @ + 1]
  /\ applied' = applied + 1
  /\ orphans' \in {orphans, TRUE}
  /\ UNCHANGED <<process, foreignKeys>>

CheckSkipped ==  \* variant: the references are not checked
  /\ process.state = "migrating" /\ applied = process.build
  /\ foreignKeys' = TRUE
  /\ process' = [process EXCEPT !.state = "serving"]
  /\ UNCHANGED <<applied, times, orphans>>

(* Foreign keys on again and the check. *)
CheckReferences ==
  /\ process.state = "migrating" /\ applied = process.build
  /\ foreignKeys' = TRUE
  /\ process' = IF orphans THEN NoProcess ELSE [process EXCEPT !.state = "serving"]
  /\ UNCHANGED <<applied, times, orphans>>

(* A statement, a pragma or a commit fails and the start with it, the server row
   does not match the environment, or the process ends. *)
ProcessEnds ==
  /\ process # NoProcess
  /\ process' = NoProcess /\ foreignKeys' = TRUE
  /\ UNCHANGED <<applied, times, orphans>>

SchemaNext ==
  \/ \E b \in Builds : OpenStore(b)
  \/ ApplyMigration \/ CheckReferences \/ ProcessEnds

SchemaSpec == SchemaInit /\ [][SchemaNext]_schemaVars

-----------------------------------------------------------------------------
(* Properties *)

SchemaTypeOK ==
  /\ applied \in Versions \union {0}
  /\ orphans \in BOOLEAN /\ foreignKeys \in BOOLEAN
  /\ process.state \in {"down", "migrating", "serving"}
  /\ process.state = "down" => process = NoProcess

(* Every version up to the recorded one took effect exactly once and no other did,
   wherever starts were cut short and whichever builds made them: "Migrations run
   once each, in version order" (migrate.go:15-17). *)
MigratedOnce == \A v \in Versions : times[v] = IF v <= applied THEN 1 ELSE 0

(* A process serves the schema it was built for, with foreign keys on, and no
   reference that leads nowhere if it has migrated itself.  A start that finds
   such references, or that dies before it looks for them, gives up; the next one
   has nothing to migrate and does not look (migrate.go:275-277, 296-303). *)
ServesItsSchema ==
  process.state = "serving" =>
    /\ applied = process.build /\ foreignKeys
    /\ process.migrated => ~orphans

(* Whatever starts went before, what is served is the schema of the build, every
   version of it applied once. *)
SchemaServed == MigratedOnce /\ ServesItsSchema

=============================================================================
