------------------------------ MODULE WorldSwap ------------------------------
(***************************************************************************)
(* Replacing the Minecraft world directories: RestoreBackup and            *)
(* ReplaceWorldZip (operations/archives.go) followed by                    *)
(* installStagedWorlds (operations/worlds.go).                             *)
(*                                                                         *)
(* One replacement runs at a time (operationMu); pc = "idle" is the free   *)
(* mutex.  Beside it run the game container, which creates the directories *)
(* it misses whenever it is up, and the lifecycle requests of other        *)
(* operators, which do not take operationMu.                               *)
(***************************************************************************)
EXTENDS Naturals

CONSTANTS
  N,          \* world directories: worldNames() is 1..N and 1 is WorldName
  Saves,      \* identities of the world directories an archive can hold
  Absent,     \* no directory of that name
  Fresh,      \* a directory the game server created at boot
  Faults,     \* what the environment may do wrong, a subset of FaultKinds
  Lifecycle   \* lifecycle requests other operators may issue meanwhile

FaultKinds == {
  "extract",    \* the archive is unreadable, unsafe or too large
  "stop",       \* the stop request fails and the container keeps its state
  "stopLost",   \* the container stops, the answer is lost or times out
  "aside",      \* stat or rename of a current world directory fails
  "install",    \* stat or rename of a staged world directory fails
  "start",      \* the start request fails and the container stays down
  "startLost",  \* the container starts, the answer is lost or times out
  "undo",       \* RemoveAll or the rename back fails while rolling back
  "restart",    \* the start request that ends a rollback fails
  "crash" }     \* the dashboard process dies

Dirs == 1..N
Directory == Saves \cup {Fresh}
Slot == Directory \cup {Absent}
Empty == [d \in Dirs |-> Absent]
Archives == [Dirs -> Saves \cup {Absent}]

ASSUME ConstantsOK ==
  /\ N \in Nat \ {0}
  /\ Saves # {}
  /\ Absent \notin Saves \cup {Fresh}
  /\ Fresh \notin Saves
  /\ Faults \subseteq FaultKinds
  /\ Lifecycle \subseteq {"start", "stop", "restart"}

VARIABLES
  pc,        \* where the replacement is
  idx,       \* the world name the current loop is at
  running,   \* the container is up
  live,      \* MinecraftDataDir/<name>
  aside,     \* .blockops-rollback-*/<name>
  staging,   \* .blockops-restore-*/<name> or .blockops-upload-*/<name>
  attic,     \* what rollback directories nobody removed still hold
  archive,   \* what the archive of the current or last replacement holds
  prior,     \* history: the live directories when that replacement began
  outcome    \* how the last replacement ended

vars == <<pc, idx, running, live, aside, staging, attic, archive, prior, outcome>>
disk == <<live, aside, staging>>
request == <<attic, archive, prior>>

Phases == {"idle", "stop", "aside", "install", "start",
           "undoRemove", "undoRename", "undoStart"}
Outcomes == {"none", "pending", "ok", "error", "crashed"}

TypeOK ==
  /\ pc \in Phases
  /\ idx \in Dirs
  /\ running \in BOOLEAN
  /\ live \in [Dirs -> Slot]
  /\ aside \in [Dirs -> Slot]
  /\ staging \in Archives
  /\ attic \in [Dirs -> SUBSET Directory]
  /\ archive \in Archives
  /\ prior \in [Dirs -> Slot]
  /\ outcome \in Outcomes

Init ==
  /\ pc = "idle" /\ idx = 1
  /\ running \in BOOLEAN
  /\ live \in Archives
  /\ aside = Empty /\ staging = Empty
  /\ attic = [d \in Dirs |-> {}]
  /\ archive = Empty
  /\ prior = live
  /\ outcome = "none"

-----------------------------------------------------------------------------
(* The replacement *)

ReturnCleaningUp(result) ==  \* variant: the rollback directory is always removed
  /\ pc' = "idle" /\ idx' = 1 /\ outcome' = result
  /\ staging' = Empty /\ aside' = Empty
  /\ UNCHANGED attic

(* The loop over worldNames(): go on with the next name, or leave for then. *)
NextDir(again, then) ==
  IF idx < N THEN pc' = again /\ idx' = idx + 1
             ELSE pc' = then /\ idx' = 1

(* The handler returns and its deferred RemoveAll(staging) runs.  A rollback
   directory that is not empty by then stays where it is. *)
Return(result) ==
  /\ pc' = "idle" /\ idx' = 1
  /\ outcome' = result
  /\ staging' = Empty
  /\ aside' = Empty
  /\ attic' = [d \in Dirs |-> attic[d] \cup ({aside[d]} \ {Absent})]

(* Unpack and validate an archive; requireWorld refuses one whose WorldName
   directory has no level.dat. *)
Stage ==
  /\ pc = "idle"
  /\ archive' \in Archives
  /\ prior' = live
  /\ \/ /\ archive'[1] # Absent
        /\ pc' = "stop" /\ staging' = archive' /\ outcome' = "pending"
     \/ /\ archive'[1] = Absent \/ "extract" \in Faults
        /\ pc' = "idle" /\ staging' = Empty /\ outcome' = "error"
  /\ UNCHANGED <<idx, running, live, aside, attic>>

StopServerUnchecked ==  \* the error of the stop is dropped
  /\ pc = "stop"
  /\ \/ running' = FALSE
     \/ "stop" \in Faults /\ UNCHANGED running
  /\ pc' = "aside" /\ idx' = 1
  /\ UNCHANGED <<disk, request, outcome>>

(* A stop that reports an error returns at once, whatever the container did. *)
StopServer ==
  /\ pc = "stop"
  /\ \/ /\ running' = FALSE
        /\ pc' = "aside" /\ idx' = 1
        /\ UNCHANGED <<aside, staging, attic, outcome>>
     \/ "stop" \in Faults /\ Return("error") /\ UNCHANGED running
     \/ "stopLost" \in Faults /\ Return("error") /\ running' = FALSE
  /\ UNCHANGED <<live, archive, prior>>

MoveAsideReplaced ==  \* only the worlds the archive replaces are moved aside
  /\ pc = "aside"
  /\ IF staging[idx] = Absent
       THEN UNCHANGED <<live, aside>>
       ELSE /\ live' = [live EXCEPT ![idx] = Absent]
            /\ aside' = [aside EXCEPT ![idx] = live[idx]]
  /\ NextDir("aside", "install")
  /\ UNCHANGED <<running, staging, request, outcome>>

(* Rename one current world into the rollback directory; a missing one is
   skipped. *)
MoveAside ==
  /\ pc = "aside"
  /\ live' = [live EXCEPT ![idx] = Absent]
  /\ aside' = [aside EXCEPT ![idx] = live[idx]]
  /\ NextDir("aside", "install")
  /\ UNCHANGED <<running, staging, request, outcome>>

MoveAsideFails ==
  /\ pc = "aside" /\ "aside" \in Faults
  /\ pc' = "undoRemove" /\ idx' = 1
  /\ UNCHANGED <<running, disk, request, outcome>>

(* Rename one staged world into place; rename does not replace a directory
   that is there. *)
Install ==
  /\ pc = "install"
  /\ IF staging[idx] = Absent
       THEN UNCHANGED <<live, staging>>
       ELSE /\ live[idx] = Absent
            /\ live' = [live EXCEPT ![idx] = staging[idx]]
            /\ staging' = [staging EXCEPT ![idx] = Absent]
  /\ NextDir("install", "start")
  /\ UNCHANGED <<running, aside, request, outcome>>

InstallFailsReturning ==  \* no deferred rollback
  /\ pc = "install"
  /\ \/ "install" \in Faults
     \/ staging[idx] # Absent /\ live[idx] # Absent
  /\ Return("error")
  /\ UNCHANGED <<running, live, archive, prior>>

InstallFails ==
  /\ pc = "install"
  /\ \/ "install" \in Faults
     \/ staging[idx] # Absent /\ live[idx] # Absent
  /\ pc' = "undoRemove" /\ idx' = 1
  /\ UNCHANGED <<running, disk, request, outcome>>

(* The start commits the replacement: the rollback directory is removed. *)
StartServer ==
  /\ pc = "start"
  /\ running' = TRUE
  /\ pc' = "idle" /\ idx' = 1 /\ outcome' = "ok"
  /\ aside' = Empty /\ staging' = Empty
  /\ UNCHANGED <<live, request>>

StartFails ==
  /\ pc = "start"
  /\ \/ "start" \in Faults /\ UNCHANGED running
     \/ "startLost" \in Faults /\ running' = TRUE
  /\ pc' = "undoRemove" /\ idx' = 1
  /\ UNCHANGED <<disk, request, outcome>>

(* rollbackWorlds: for every name RemoveAll(live), then rename the old
   directory back if there is one.  Both errors are ignored. *)
UndoRemove ==
  /\ pc = "undoRemove"
  /\ \/ live' = [live EXCEPT ![idx] = Absent]
     \/ "undo" \in Faults /\ UNCHANGED live
  /\ pc' = "undoRename"
  /\ UNCHANGED <<idx, running, aside, staging, request, outcome>>

UndoRename ==
  /\ pc = "undoRename"
  /\ \/ /\ aside[idx] # Absent /\ live[idx] = Absent
        /\ live' = [live EXCEPT ![idx] = aside[idx]]
        /\ aside' = [aside EXCEPT ![idx] = Absent]
     \/ /\ aside[idx] = Absent \/ live[idx] # Absent \/ "undo" \in Faults
        /\ UNCHANGED <<live, aside>>
  /\ NextDir("undoRemove", "undoStart")
  /\ UNCHANGED <<running, staging, request, outcome>>

UndoStartSkipped ==  \* the rollback ends without a start
  /\ pc = "undoStart"
  /\ Return("error")
  /\ UNCHANGED <<running, live, archive, prior>>

(* The start after a rollback; its error is ignored. *)
UndoStart ==
  /\ pc = "undoStart"
  /\ \/ running' = TRUE
     \/ "restart" \in Faults /\ UNCHANGED running
  /\ Return("error")
  /\ UNCHANGED <<live, archive, prior>>

(* The process dies: no deferred call runs and nothing resumes the work. *)
Crash ==
  /\ pc # "idle" /\ "crash" \in Faults
  /\ Return("crashed")
  /\ UNCHANGED <<running, live, archive, prior>>

Replacement ==
  \/ StopServer \/ MoveAside \/ MoveAsideFails \/ Install \/ InstallFails
  \/ StartServer \/ StartFails \/ UndoRemove \/ UndoRename \/ UndoStart

-----------------------------------------------------------------------------
(* Around it *)

(* ContainerAction goes straight to the Docker guard. *)
OperatorAction ==
  /\ \E action \in Lifecycle : running' = (action # "stop")
  /\ UNCHANGED <<pc, idx, disk, request, outcome>>

(* A running server creates a world directory it does not find. *)
CreateMissing ==
  /\ running
  /\ \E d \in Dirs :
       /\ live[d] = Absent
       /\ live' = [live EXCEPT ![d] = Fresh]
  /\ UNCHANGED <<pc, idx, running, aside, staging, request, outcome>>

Next == Stage \/ Replacement \/ Crash \/ OperatorAction \/ CreateMissing

Spec == Init /\ [][Next]_vars

(* A handler that started goes on: every Docker call in it is bounded by the
   45 second client limit and the file system answers. *)
FairSpec == Spec /\ WF_vars(Replacement)

-----------------------------------------------------------------------------
(* Properties *)

(* The directories are those of the set worlds, up to what the server
   creates itself. *)
Holds(dirs, worlds) ==
  \A d \in Dirs : \/ dirs[d] = worlds[d]
                  \/ worlds[d] = Absent /\ dirs[d] = Fresh

(* No replacement that did not succeed loses a world: each directory that was
   live when it began is live, in the rollback directory, or in a rollback
   directory left behind (installStagedWorlds removes nothing it has not
   moved or installed itself). *)
PriorKept ==
  outcome # "ok" =>
    \A d \in Dirs : \/ prior[d] = Absent
                    \/ prior[d] \in {live[d], aside[d]} \cup attic[d]

(* A running server never serves a half-replaced set: the old overworld with
   the new nether, or a world that is missing while it is being moved. *)
ServesWholeSet ==
  running => Holds(live, prior) \/ Holds(live, archive)

(* A replacement that reports an error leaves the directories that were live
   before it in place ("restores prior directories", ARCHITECTURE.md). *)
ErrorRestoresPrior ==
  pc = "idle" /\ outcome = "error" => Holds(live, prior)

(* Downtime ends: once the worlds are being moved the container comes up
   again, whatever fails on the way. *)
DowntimeEnds == pc = "aside" ~> pc = "idle" /\ running

(* The set of worlds a reader of the docs thinks of: what is live, except that
   directories moved aside still count until the replacement commits. *)
Effective == [d \in Dirs |->
  IF \/ pc \in {"idle", "stop", "undoStart"}
     \/ pc = "aside" /\ d >= idx
     \/ pc \in {"undoRemove", "undoRename"} /\ d < idx
  THEN live[d] ELSE aside[d]]

Abstract == INSTANCE WorldReplacement WITH worlds <- Effective, serving <- running

(* The renames implement an atomic replacement by the whole archive
   (WorldReplacement), when every failure is one the server reports truly. *)
AtomicReplacement == Abstract!Spec
=============================================================================
