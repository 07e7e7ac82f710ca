---------------------------- MODULE BackupCatalog ----------------------------
(***************************************************************************)
(* The backup catalogue: archive files in BackupDir and rows in SQLite,    *)
(* written one after the other by CreateBackup and DeleteBackup and read   *)
(* by RestoreBackup and downloadBackup (operations/archives.go,            *)
(* httpapi/world_handlers.go, store/backups.go).  Any of the steps can     *)
(* fail and the process can die between two of them.                       *)
(***************************************************************************)
EXTENDS Naturals

CONSTANTS
  Requests,   \* HTTP requests in flight
  Ids,        \* backup identifiers; bounds the backups ever created
  Nil,        \* no request, no backup
  Faults      \* what the environment may do wrong, a subset of FaultKinds

FaultKinds == {
  "archive",    \* writing the archive fails
  "publish",    \* renaming the finished archive fails
  "stat",       \* the renamed archive cannot be read back
  "insert",     \* the row is not inserted: cancelled request, full disk
  "remove",     \* an archive file cannot be removed
  "lookup",     \* the row or the file cannot be read
  "deleteRow",  \* the row is not deleted: cancelled request, full disk
  "crash" }     \* the dashboard process dies

ASSUME ConstantsOK ==
  /\ Nil \notin Requests \cup Ids
  /\ Faults \subseteq FaultKinds

VARIABLES
  pc,       \* where each request is
  op,       \* what it does
  target,   \* the backup it is about
  mutex,    \* operationMu
  files,    \* BackupDir/<id>.tar.gz
  rows,     \* the backups table
  used,     \* identifiers NewID has returned
  torn      \* history: backups left half made or half deleted by a failure

vars == <<pc, op, target, mutex, files, rows, used, torn>>
storage == <<files, rows, used, torn>>

Phases == {"idle", "waiting", "lookup", "archive", "publish", "insert",
           "unlink", "deleteRow", "extract", "open", "serve"}
Unlocked == {"idle", "waiting", "open", "serve"}
Operations == {"create", "delete", "restore", "download"}
Failed(kind) == kind \in Faults

TypeOK ==
  /\ pc \in [Requests -> Phases]
  /\ op \in [Requests -> Operations]
  /\ target \in [Requests -> Ids \cup {Nil}]
  /\ mutex = Nil \/ (mutex \in Requests /\ pc[mutex] \notin Unlocked)
  /\ files \subseteq Ids
  /\ rows \subseteq Ids
  /\ used \subseteq Ids
  /\ torn \subseteq Ids

Init ==
  /\ pc = [r \in Requests |-> "idle"]
  /\ op = [r \in Requests |-> "create"]
  /\ target = [r \in Requests |-> Nil]
  /\ mutex = Nil
  /\ files = {} /\ rows = {} /\ used = {} /\ torn = {}

Goto(r, phase) == pc' = [pc EXCEPT ![r] = phase]

(* Only a holder of operationMu has a deferred Unlock to run. *)
Return(r) ==
  /\ Goto(r, "idle")
  /\ mutex' = IF mutex = r THEN Nil ELSE mutex

-----------------------------------------------------------------------------
(* Arrival and the mutex *)

(* A request names any identifier; a creation has none yet. *)
Arrive(r) ==
  /\ pc[r] = "idle"
  /\ \E o \in Operations :
       /\ op' = [op EXCEPT ![r] = o]
       /\ \E id \in IF o = "create" THEN {Nil} ELSE Ids :
            target' = [target EXCEPT ![r] = id]
       /\ Goto(r, IF o = "download" THEN "lookup" ELSE "waiting")
  /\ UNCHANGED <<mutex, storage>>

LockOnlyCreations(r) ==  \* variant: only creations take the mutex
  /\ pc[r] = "waiting"
  /\ \/ /\ op[r] = "create" /\ mutex = Nil /\ mutex' = r
        /\ \E id \in Ids \ used : /\ target' = [target EXCEPT ![r] = id]
                                  /\ used' = used \cup {id}
        /\ Goto(r, "archive")
     \/ /\ op[r] # "create"
        /\ Goto(r, "lookup")
        /\ UNCHANGED <<mutex, target, used>>
  /\ UNCHANGED <<op, files, rows, torn>>

LockReusingIds(r) ==  \* variant: NewID may return an identifier again
  /\ pc[r] = "waiting" /\ mutex = Nil /\ mutex' = r
  /\ \/ /\ op[r] = "create"
        /\ \E id \in Ids : /\ target' = [target EXCEPT ![r] = id]
                           /\ used' = used \cup {id}
        /\ Goto(r, "archive")
     \/ /\ op[r] # "create"
        /\ Goto(r, "lookup")
        /\ UNCHANGED <<target, used>>
  /\ UNCHANGED <<op, files, rows, torn>>

(* A creation draws its identifier, 16 random bytes never drawn before, or
   ends here: no directory, no identifier, no staging file. *)
Lock(r) ==
  /\ pc[r] = "waiting" /\ mutex = Nil
  /\ \/ /\ op[r] = "create" /\ mutex' = r
        /\ \E id \in Ids \ used : /\ target' = [target EXCEPT ![r] = id]
                                  /\ used' = used \cup {id}
        /\ Goto(r, "archive")
     \/ /\ op[r] = "create"
        /\ Goto(r, "idle")
        /\ UNCHANGED <<mutex, target, used>>
     \/ /\ op[r] # "create" /\ mutex' = r
        /\ Goto(r, "lookup")
        /\ UNCHANGED <<target, used>>
  /\ UNCHANGED <<op, files, rows, torn>>

-----------------------------------------------------------------------------
(* CreateBackup *)

WriteArchive(r) ==
  /\ pc[r] = "archive"
  /\ \/ Goto(r, "publish") /\ UNCHANGED mutex
     \/ Failed("archive") /\ Return(r)
  /\ UNCHANGED <<op, target, storage>>

(* Rename to the final name; a stat that fails afterwards returns without
   removing the file. *)
Publish(r) ==
  /\ pc[r] = "publish"
  /\ \/ /\ files' = files \cup {target[r]}
        /\ Goto(r, "insert")
        /\ UNCHANGED <<mutex, torn>>
     \/ /\ Failed("stat")
        /\ files' = files \cup {target[r]} /\ torn' = torn \cup {target[r]}
        /\ Return(r)
     \/ Failed("publish") /\ Return(r) /\ UNCHANGED <<files, torn>>
  /\ UNCHANGED <<op, target, rows, used>>

InsertLeavingFile(r) ==  \* variant: the error path does not remove the file
  /\ pc[r] = "insert"
  /\ \/ target[r] \notin rows /\ rows' = rows \cup {target[r]}
     \/ Failed("insert") /\ UNCHANGED rows
  /\ Return(r)
  /\ UNCHANGED <<op, target, files, used, torn>>

(* Insert the row; on an error, a duplicate key included, remove the file. *)
Insert(r) ==
  /\ pc[r] = "insert"
  /\ \/ /\ target[r] \notin rows
        /\ rows' = rows \cup {target[r]}
        /\ UNCHANGED <<files, torn>>
     \/ /\ target[r] \in rows \/ Failed("insert")
        /\ \/ files' = files \ {target[r]} /\ UNCHANGED torn
           \/ /\ Failed("remove")
              /\ torn' = torn \cup {target[r]} /\ UNCHANGED files
        /\ UNCHANGED rows
  /\ Return(r)
  /\ UNCHANGED <<op, target, used>>

-----------------------------------------------------------------------------
(* DeleteBackup, RestoreBackup, downloadBackup *)

(* BackupPath: the row must be there and so must the file. *)
Lookup(r) ==
  /\ pc[r] = "lookup"
  /\ \/ /\ target[r] \in rows \cap files
        /\ Goto(r, CASE op[r] = "delete" -> "unlink"
                     [] op[r] = "restore" -> "extract"
                     [] op[r] = "download" -> "open")
        /\ UNCHANGED mutex
     \/ /\ target[r] \notin rows \cap files \/ Failed("lookup")
        /\ Return(r)
  /\ UNCHANGED <<op, target, storage>>

(* os.Remove; a file that is already gone is no error. *)
Unlink(r) ==
  /\ pc[r] = "unlink"
  /\ \/ files' = files \ {target[r]} /\ Goto(r, "deleteRow") /\ UNCHANGED mutex
     \/ Failed("remove") /\ Return(r) /\ UNCHANGED files
  /\ UNCHANGED <<op, target, rows, used, torn>>

DeleteRow(r) ==
  /\ pc[r] = "deleteRow"
  /\ \/ rows' = rows \ {target[r]} /\ UNCHANGED torn
     \/ /\ Failed("deleteRow")
        /\ torn' = torn \cup {target[r]} /\ UNCHANGED rows
  /\ Return(r)
  /\ UNCHANGED <<op, target, files, used>>

(* The archive has been read to its end; installing it is WorldSwap's. *)
Extracted(r) ==
  /\ pc[r] = "extract"
  /\ Return(r)
  /\ UNCHANGED <<op, target, storage>>

(* A download opens the file without the mutex; once open it stays readable. *)
Open(r) ==
  /\ pc[r] = "open"
  /\ \/ target[r] \in files /\ Goto(r, "serve") /\ UNCHANGED mutex
     \/ target[r] \notin files /\ Return(r)
  /\ UNCHANGED <<op, target, storage>>

Serve(r) ==
  /\ pc[r] = "serve"
  /\ Return(r)
  /\ UNCHANGED <<op, target, storage>>

InProgress(id, ops) ==
  \E r \in Requests : mutex = r /\ target[r] = id /\ op[r] \in ops

Crash ==
  /\ Failed("crash")
  /\ pc' = [r \in Requests |-> "idle"]
  /\ mutex' = Nil
  /\ torn' = torn \cup {id \in Ids : InProgress(id, {"create", "delete"})}
  /\ UNCHANGED <<op, target, files, rows, used>>

Work(r) ==
  \/ WriteArchive(r) \/ Publish(r) \/ Insert(r) \/ Lookup(r) \/ Unlink(r)
  \/ DeleteRow(r) \/ Extracted(r) \/ Open(r) \/ Serve(r)

Next == (\E r \in Requests : Arrive(r) \/ Lock(r) \/ Work(r)) \/ Crash

Spec == Init /\ [][Next]_vars

-----------------------------------------------------------------------------
(* Properties *)

(* Between operations the catalogue lists exactly the archives on disk: no    *)
(* listed backup without its file, no file nobody can reach (CreateBackup     *)
(* undoes a failed insert, DeleteBackup removes both).  A failure that cannot *)
(* be undone, or a crash, leaves at most the backup it was about apart.       *)
CatalogMatchesDisk ==
  mutex = Nil => \A id \in Ids \ torn : id \in rows <=> id \in files

(* The archive a restore is reading is not deleted under it, nor an archive   *)
(* that is about to be recorded: operationMu covers the whole operation.      *)
ReadsStoredArchive ==
  \A r \in Requests : pc[r] \in {"extract", "insert"} => target[r] \in files

(* A delete is refused as not found only for a backup that is not listed, so  *)
(* a delete that failed half way can be repeated.                             *)
RefusedOnlyIfUnlisted ==
  [][\A r \in Requests :
       op[r] = "delete" /\ pc[r] = "lookup" /\ pc'[r] = "idle"
         => target[r] \notin rows]_vars

(* A request that is still creating this backup. *)
Creating(id) ==
  \E r \in Requests : /\ op[r] = "create" /\ target[r] = id
                      /\ pc[r] \in {"archive", "publish", "insert"}

Status == [id \in Ids |->
  IF id \in rows \cap files THEN "stored"
  ELSE IF id \in used /\ ~Creating(id) THEN "gone"
  ELSE "unborn"]

Abstract == INSTANCE BackupStore WITH status <- Status

(* Files and rows together implement BackupStore: a backup appears whole, is  *)
(* there until it is deleted and never returns, under every failure.          *)
StoredOnce == Abstract!Spec

(* A stored backup disappears only through a delete of that backup. *)
StoredUntilDeleted ==
  [][\A id \in Ids : id \in rows \cap files /\ id \notin (rows \cap files)' =>
       \E r \in Requests : op[r] = "delete" /\ target[r] = id /\ pc[r] = "unlink"]_vars
=============================================================================
