--------------------------- MODULE WorldOperations ---------------------------
(***************************************************************************)
(* The world operations of operations/archives.go around operationMu: an   *)
(* archive of the worlds (CreateBackup, PrepareWorldDownload) under        *)
(* withConsistentWorld, and a replacement of the worlds (RestoreBackup,    *)
(* ReplaceWorldZip), here in coarse steps; WorldSwap has the renames.     *)
(*                                                                         *)
(* The game server runs beside them.  It holds changes in memory (dirty)   *)
(* and writes them to disk when its auto-save is on, when it is told to    *)
(* flush, when it starts and when it stops.  Starting turns auto-save on.  *)
(***************************************************************************)
EXTENDS Naturals, FiniteSets

CONSTANTS
  Requests,   \* HTTP requests in flight
  Free,       \* the mutex is not held
  Faults,     \* what the environment may do wrong, a subset of FaultKinds
  Lifecycle   \* lifecycle requests of other operators (ContainerAction)

FaultKinds == {
  "inspect",      \* the Docker guard does not answer an inspect
  "rcon",         \* an RCON exchange fails before the command is sent
  "saveOffLost",  \* save-off takes effect, its answer is late or lost
  "flushLost",    \* save-all flush takes effect, its answer is late or lost
  "saveOn",       \* the deferred save-on fails
  "archive",      \* the archive fails: cancelled request, full disk
  "docker",       \* a stop or start request fails without effect
  "stopLost",     \* the container stops, the answer is late or lost
  "startLost",    \* the container starts, the answer is late or lost
  "crash" }       \* the dashboard process dies

ASSUME ConstantsOK ==
  /\ Free \notin Requests
  /\ Faults \subseteq FaultKinds
  /\ Lifecycle \subseteq {"start", "stop", "restart"}

VARIABLES
  pc,        \* where each request is
  job,       \* "archive" or "replace"
  result,    \* how the last job of each request ended
  whole,     \* the archive of each request is one consistent state of the world
  mutex,     \* operationMu: the request that holds it
  running,   \* the container is up
  autosave,  \* the server's save mode; save-off clears it
  dirty      \* the server holds changes that are not on disk

vars == <<pc, job, result, whole, mutex, running, autosave, dirty>>
server == <<running, autosave, dirty>>

Phases == {"idle", "waiting", "inspect", "saveOff", "flush", "archive",
           "archiveStopped", "saveOn", "stop", "replace", "start", "rollback"}
Reading == {"archive", "archiveStopped"}
Inside == Phases \ {"idle", "waiting"}
SavesSuspended == {"flush", "archive", "saveOn"}

TypeOK ==
  /\ pc \in [Requests -> Phases]
  /\ job \in [Requests -> {"archive", "replace"}]
  /\ result \in [Requests -> {"none", "ok", "error"}]
  /\ whole \in [Requests -> BOOLEAN]
  /\ mutex = Free \/ (mutex \in Requests /\ pc[mutex] \in Inside)
  /\ running \in BOOLEAN
  /\ autosave \in BOOLEAN
  /\ dirty \in BOOLEAN

Init ==
  /\ pc = [r \in Requests |-> "idle"]
  /\ job = [r \in Requests |-> "archive"]
  /\ result = [r \in Requests |-> "none"]
  /\ whole = [r \in Requests |-> FALSE]
  /\ mutex = Free
  /\ running \in BOOLEAN
  /\ autosave = TRUE
  /\ dirty = FALSE

-----------------------------------------------------------------------------
(* Disk and requests *)

(* World files change: every archive that is being read is torn. *)
DiskChanges ==
  whole' = [r \in Requests |-> whole[r] /\ pc[r] \notin Reading]

Goto(r, phase) == pc' = [pc EXCEPT ![r] = phase]

ReturnHoldingMutex(r, how) ==  \* variant: a return path without the Unlock
  /\ Goto(r, "idle")
  /\ result' = [result EXCEPT ![r] = how]
  /\ UNCHANGED mutex

(* The operation returns: its deferred Unlock runs. *)
Return(r, how) ==
  /\ Goto(r, "idle")
  /\ result' = [result EXCEPT ![r] = how]
  /\ mutex' = Free

Arrive(r) ==
  /\ pc[r] = "idle"
  /\ \E j \in {"archive", "replace"} : job' = [job EXCEPT ![r] = j]
  /\ result' = [result EXCEPT ![r] = "none"]
  /\ whole' = [whole EXCEPT ![r] = FALSE]
  /\ Goto(r, "waiting")
  /\ UNCHANGED <<mutex, server>>

Lock(r) ==
  /\ pc[r] = "waiting"
  /\ mutex = Free
  /\ mutex' = r
  /\ Goto(r, IF job[r] = "archive" THEN "inspect" ELSE "stop")
  /\ UNCHANGED <<job, result, whole, server>>

-----------------------------------------------------------------------------
(* withConsistentWorld *)

(* Opening the archive; it is whole if the disk holds all there is. *)
BeginReading(r, phase) ==
  /\ Goto(r, phase)
  /\ whole' = [whole EXCEPT ![r] = ~dirty']

(* Only an answer that says "not running" selects the direct path. *)
Inspect(r) ==
  /\ pc[r] = "inspect"
  /\ \/ /\ ~running
        /\ dirty' = dirty
        /\ BeginReading(r, "archiveStopped")
     \/ /\ running \/ "inspect" \in Faults
        /\ Goto(r, "saveOff")
        /\ UNCHANGED <<dirty, whole>>
  /\ UNCHANGED <<job, result, mutex, running, autosave>>

(* save-off.  An error returns before the deferred save-on is registered. *)
SaveOff(r) ==
  /\ pc[r] = "saveOff"
  /\ \/ /\ running
        /\ autosave' = FALSE
        /\ Goto(r, "flush")
        /\ UNCHANGED <<result, mutex>>
     \/ /\ ~running \/ "rcon" \in Faults
        /\ Return(r, "error")
        /\ UNCHANGED autosave
     \/ /\ running /\ "saveOffLost" \in Faults
        /\ autosave' = FALSE
        /\ Return(r, "error")
  /\ UNCHANGED <<job, whole, running, dirty>>

FlushSkipped(r) ==  \* variant: the archive is taken without a flush
  /\ pc[r] = "flush"
  /\ dirty' = dirty
  /\ BeginReading(r, "archive")
  /\ UNCHANGED <<job, result, mutex, running, autosave>>

FlushReturning(r) ==  \* variant: save-on is not deferred but comes last
  /\ pc[r] = "flush"
  /\ \/ /\ running /\ dirty' = FALSE
        /\ BeginReading(r, "archive")
        /\ UNCHANGED <<result, mutex>>
     \/ /\ ~running \/ "rcon" \in Faults
        /\ dirty' = dirty
        /\ Return(r, "error")
        /\ UNCHANGED whole
  /\ UNCHANGED <<job, running, autosave>>

(* save-all flush; on an error the deferred save-on still runs. *)
Flush(r) ==
  /\ pc[r] = "flush"
  /\ \/ /\ running
        /\ dirty' = FALSE
        /\ BeginReading(r, "archive")
        /\ UNCHANGED result
     \/ /\ ~running \/ "rcon" \in Faults
        /\ Goto(r, "saveOn")
        /\ result' = [result EXCEPT ![r] = "error"]
        /\ UNCHANGED <<dirty, whole>>
     \/ /\ running /\ "flushLost" \in Faults
        /\ dirty' = FALSE
        /\ Goto(r, "saveOn")
        /\ result' = [result EXCEPT ![r] = "error"]
        /\ UNCHANGED whole
  /\ UNCHANGED <<job, mutex, running, autosave>>

(* The archive function returns. *)
EndArchive(r) ==
  /\ pc[r] = "archive"
  /\ \E how \in {"ok"} \cup (IF "archive" \in Faults THEN {"error"} ELSE {}) :
       result' = [result EXCEPT ![r] = how]
  /\ Goto(r, "saveOn")
  /\ UNCHANGED <<job, whole, mutex, server>>

EndArchiveStopped(r) ==
  /\ pc[r] = "archiveStopped"
  /\ \E how \in {"ok"} \cup (IF "archive" \in Faults THEN {"error"} ELSE {}) :
       Return(r, how)
  /\ UNCHANGED <<job, whole, server>>

(* The deferred save-on, in a context of its own; its error is ignored. *)
SaveOn(r) ==
  /\ pc[r] = "saveOn"
  /\ \/ running /\ autosave' = TRUE
     \/ (~running \/ "saveOn" \in Faults) /\ UNCHANGED autosave
  /\ Return(r, result[r])
  /\ UNCHANGED <<job, whole, running, dirty>>

-----------------------------------------------------------------------------
(* Restore and replacement: stop, swap the directories, start *)

(* The container goes down saving everything; a stop of a stopped container
   succeeds. *)
ServerStops ==
  /\ running' = FALSE /\ dirty' = FALSE
  /\ IF running THEN DiskChanges ELSE UNCHANGED whole
  /\ UNCHANGED autosave

(* The container comes up with auto-save on and writes its world. *)
Boots == running' = TRUE /\ autosave' = TRUE /\ dirty' = FALSE

ServerStarts == Boots /\ DiskChanges

(* A stop that reports an error ends the operation, whatever the container did. *)
Stop(r) ==
  /\ pc[r] = "stop"
  /\ \/ /\ ServerStops
        /\ Goto(r, "replace")
        /\ UNCHANGED <<result, mutex>>
     \/ /\ "docker" \in Faults
        /\ Return(r, "error")
        /\ UNCHANGED <<whole, server>>
     \/ /\ "stopLost" \in Faults
        /\ ServerStops
        /\ Return(r, "error")
  /\ UNCHANGED job

(* The directories are moved aside and the staged ones installed, or one of the
   renames fails. *)
Replace(r) ==
  /\ pc[r] = "replace"
  /\ DiskChanges
  /\ \E next \in {"start", "rollback"} : Goto(r, next)
  /\ UNCHANGED <<job, result, mutex, server>>

(* docker start of a container that is up does nothing. *)
StartContainer == IF running THEN UNCHANGED <<whole, server>> ELSE ServerStarts

(* Only a start that is answered ends the operation. *)
Start(r) ==
  /\ pc[r] = "start"
  /\ \/ /\ StartContainer
        /\ Return(r, "ok")
     \/ /\ "docker" \in Faults
        /\ Goto(r, "rollback")
        /\ UNCHANGED <<result, whole, mutex, server>>
     \/ /\ "startLost" \in Faults
        /\ StartContainer
        /\ Goto(r, "rollback")
        /\ UNCHANGED <<result, mutex>>
  /\ UNCHANGED job

(* rollbackWorlds, under a server that is up if its start was not answered, and
   another start, whose error is ignored. *)
RollBack(r) ==
  /\ pc[r] = "rollback"
  /\ DiskChanges
  /\ \/ ~running /\ Boots
     \/ (running \/ "docker" \in Faults) /\ UNCHANGED server
  /\ Return(r, "error")
  /\ UNCHANGED job

(* The process dies with every request in it. *)
Crash ==
  /\ "crash" \in Faults
  /\ pc' = [r \in Requests |-> "idle"]
  /\ result' = [r \in Requests |->
                  IF pc[r] = "idle" THEN result[r] ELSE "error"]
  /\ mutex' = Free
  /\ UNCHANGED <<job, whole, server>>

-----------------------------------------------------------------------------
(* The game server and the other operators *)

Play ==
  /\ running
  /\ dirty' = TRUE
  /\ UNCHANGED <<pc, job, result, whole, mutex, running, autosave>>

AutoSave ==
  /\ running /\ autosave /\ dirty
  /\ dirty' = FALSE
  /\ DiskChanges
  /\ UNCHANGED <<pc, job, result, mutex, running, autosave>>

(* ContainerAction does not take operationMu. *)
OperatorAction ==
  /\ \E action \in Lifecycle :
       \/ action = "stop" /\ ServerStops
       \/ action = "start" /\ ~running /\ ServerStarts
       \/ action = "restart" /\ ServerStarts
  /\ UNCHANGED <<pc, job, result, mutex>>

Work(r) ==
  \/ Inspect(r) \/ SaveOff(r) \/ Flush(r) \/ EndArchive(r)
  \/ EndArchiveStopped(r) \/ SaveOn(r) \/ Stop(r) \/ Replace(r) \/ Start(r)
  \/ RollBack(r)

Next ==
  \/ \E r \in Requests : Arrive(r) \/ Lock(r) \/ Work(r)
  \/ Crash \/ Play \/ AutoSave \/ OperatorAction

Spec == Init /\ [][Next]_vars

(* A handler goroutine goes on, each of its calls being bounded by a time-out;
   sync.Mutex hands the lock to a waiter that keeps losing it. *)
FairSpec ==
  /\ Spec
  /\ \A r \in Requests : WF_vars(Work(r)) /\ SF_vars(Lock(r))

-----------------------------------------------------------------------------
(* Properties *)

(* An archive that is reported as made holds one consistent state of the
   worlds: nothing was written while it was read and the server held nothing
   back when it was opened (withConsistentWorld, "Consistent backup"). *)
WholeArchives ==
  \A r \in Requests : job[r] = "archive" /\ result[r] = "ok" => whole[r]

(* Once no operation is in progress a running server saves its world again:
   no backup strands it in save-off. *)
SavesResumed == mutex = Free /\ running => autosave

(* Nobody waits for operationMu forever: every operation that arrives is
   answered, whatever the ones before it ran into. *)
Answered == \A r \in Requests : pc[r] = "waiting" ~> pc[r] = "idle"
=============================================================================
