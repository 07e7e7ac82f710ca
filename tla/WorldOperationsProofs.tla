------------------------ MODULE WorldOperationsProofs ------------------------
(***************************************************************************)
(* Theorems about WorldOperations for any set of concurrent requests.      *)
(***************************************************************************)
EXTENDS WorldOperations, TLAPS

(* operationMu is held by exactly the request that is inside. *)
MutexInv == \A r \in Requests : pc[r] \in Inside => mutex = r

(* What holds of the server while an archive is made, when only the world    *)
(* operations start and stop it.                                             *)
ArchiveInv ==
  /\ ~running => ~dirty
  /\ \A r \in Requests :
       /\ pc[r] = "flush" => running /\ ~autosave
       /\ pc[r] = "archive" => whole[r] /\ running /\ ~autosave
       /\ pc[r] = "archiveStopped" => whole[r] /\ ~running
       /\ job[r] = "archive" => pc[r] \notin {"stop", "replace", "start", "rollback"}
       /\ pc[r] \in Reading \cup {"inspect", "saveOff", "flush", "saveOn"} =>
            job[r] = "archive"
       /\ job[r] = "archive" /\ result[r] = "ok" =>
            whole[r] /\ pc[r] \in {"idle", "saveOn"}

(* Where a running server may be without auto-save. *)
SavesInv ==
  running /\ ~autosave =>
    \E r \in Requests : mutex = r /\ pc[r] \in SavesSuspended

-----------------------------------------------------------------------------

(* What returning does to the variables it touches. *)
LEMMA ReturnEffect ==
  ASSUME TypeOK, NEW r \in Requests, NEW how \in {"none", "ok", "error"},
         Return(r, how)
  PROVE  /\ pc' \in [Requests -> Phases]
         /\ result' \in [Requests -> {"none", "ok", "error"}]
         /\ mutex' = Free
BY DEF TypeOK, Return, Goto, Phases

(* Torn archives are still typed. *)
LEMMA DiskChangesType ==
  ASSUME TypeOK, DiskChanges
  PROVE  whole' \in [Requests -> BOOLEAN]
BY DEF TypeOK, DiskChanges

(* Every variable keeps its type. *)
THEOREM TypeCorrect == Spec => []TypeOK
<1>1. Init => TypeOK
  BY DEF Init, TypeOK, Phases
<1>2. TypeOK /\ [Next]_vars => TypeOK'
  <2> SUFFICES ASSUME TypeOK, [Next]_vars PROVE TypeOK'
    OBVIOUS
  <2>1. ASSUME NEW r \in Requests, Arrive(r) PROVE TypeOK'
    BY <2>1 DEF TypeOK, Inside, Arrive, Goto, Phases, server
  <2>2. ASSUME NEW r \in Requests, Lock(r) PROVE TypeOK'
    BY <2>2 DEF TypeOK, Inside, Lock, Goto, Phases, server
  <2>3. ASSUME NEW r \in Requests, Inspect(r) PROVE TypeOK'
    BY <2>3 DEF TypeOK, Inside, Inspect, BeginReading, Goto, Phases
  <2>4. ASSUME NEW r \in Requests, SaveOff(r) PROVE TypeOK'
    BY <2>4 DEF TypeOK, Inside, SaveOff, Return, Goto, Phases
  <2>5. ASSUME NEW r \in Requests, Flush(r) PROVE TypeOK'
    BY <2>5 DEF TypeOK, Inside, Flush, BeginReading, Goto, Phases
  <2>6. ASSUME NEW r \in Requests, EndArchive(r) PROVE TypeOK'
    BY <2>6 DEF TypeOK, Inside, EndArchive, Goto, Phases, server
  <2>7. ASSUME NEW r \in Requests, EndArchiveStopped(r) PROVE TypeOK'
    BY <2>7 DEF TypeOK, Inside, EndArchiveStopped, Return, Goto, Phases, server
  <2>8. ASSUME NEW r \in Requests, SaveOn(r) PROVE TypeOK'
    BY <2>8 DEF TypeOK, Inside, SaveOn, Return, Goto, Phases
  <2>9. ASSUME NEW r \in Requests, Stop(r) PROVE TypeOK'
    <3>1. /\ pc' \in [Requests -> Phases]
          /\ result' \in [Requests -> {"none", "ok", "error"}]
          /\ mutex' = Free \/ (mutex' \in Requests /\ pc'[mutex'] \in Inside)
      BY <2>9, ReturnEffect DEF Stop, TypeOK, Inside, Goto, Phases
    <3>2. whole' \in [Requests -> BOOLEAN]
      BY <2>9, DiskChangesType DEF Stop, ServerStops, TypeOK
    <3>3. running' \in BOOLEAN /\ autosave' \in BOOLEAN /\ dirty' \in BOOLEAN
      BY <2>9 DEF Stop, ServerStops, TypeOK, server
    <3>4. QED BY <2>9, <3>1, <3>2, <3>3 DEF Stop, TypeOK
  <2>10. ASSUME NEW r \in Requests, Replace(r) PROVE TypeOK'
    BY <2>10 DEF TypeOK, Inside, Replace, DiskChanges, Goto, Phases, server
  <2>11. ASSUME NEW r \in Requests, Start(r) PROVE TypeOK'
    <3>1. /\ pc' \in [Requests -> Phases]
          /\ result' \in [Requests -> {"none", "ok", "error"}]
          /\ mutex' = Free \/ (mutex' \in Requests /\ pc'[mutex'] \in Inside)
      BY <2>11, ReturnEffect DEF Start, TypeOK, Inside, Goto, Phases
    <3>2. whole' \in [Requests -> BOOLEAN]
      BY <2>11, DiskChangesType DEF Start, StartContainer, ServerStarts, TypeOK
    <3>3. running' \in BOOLEAN /\ autosave' \in BOOLEAN /\ dirty' \in BOOLEAN
      BY <2>11 DEF Start, StartContainer, ServerStarts, Boots, TypeOK, server
    <3>4. QED BY <2>11, <3>1, <3>2, <3>3 DEF Start, TypeOK
  <2>12. ASSUME NEW r \in Requests, RollBack(r) PROVE TypeOK'
    <3>1. /\ pc' \in [Requests -> Phases]
          /\ result' \in [Requests -> {"none", "ok", "error"}]
          /\ mutex' = Free
      BY <2>12, ReturnEffect DEF RollBack
    <3>2. whole' \in [Requests -> BOOLEAN]
      BY <2>12, DiskChangesType DEF RollBack
    <3>3. running' \in BOOLEAN /\ autosave' \in BOOLEAN /\ dirty' \in BOOLEAN
      BY <2>12 DEF RollBack, Boots, TypeOK, server
    <3>4. QED BY <2>12, <3>1, <3>2, <3>3 DEF RollBack, TypeOK
  <2>13. CASE Crash
    BY <2>13 DEF TypeOK, Inside, Crash, Phases, server
  <2>14. CASE Play
    BY <2>14 DEF TypeOK, Inside, Play
  <2>15. CASE AutoSave
    BY <2>15 DEF TypeOK, Inside, AutoSave, DiskChanges
  <2>16. CASE OperatorAction
    BY <2>16 DEF TypeOK, Inside, OperatorAction, ServerStops, ServerStarts, Boots, DiskChanges
  <2>17. CASE UNCHANGED vars
    BY <2>17 DEF TypeOK, Inside, vars
  <2>18. QED
    BY <2>1, <2>2, <2>3, <2>4, <2>5, <2>6, <2>7, <2>8, <2>9, <2>10, <2>11,
       <2>12, <2>13, <2>14, <2>15, <2>16, <2>17 DEF Next, Work
<1>3. QED BY <1>1, <1>2, PTL DEF Spec

-----------------------------------------------------------------------------

(* Mutual exclusion is inductive: Lock waits for Free, and every return path *)
(* and a crash leave nobody inside.                                          *)
LEMMA MutexStep ==
  ASSUME TypeOK, MutexInv, [Next]_vars PROVE MutexInv'
<1> USE DEF MutexInv, TypeOK, Inside, Phases, Goto
<1>1. ASSUME NEW r \in Requests, Arrive(r) PROVE MutexInv'
  BY <1>1 DEF Arrive
<1>2. ASSUME NEW r \in Requests, Lock(r) PROVE MutexInv'
  BY <1>2, ConstantsOK DEF Lock
<1>3. ASSUME NEW r \in Requests,
             Inspect(r) \/ SaveOff(r) \/ Flush(r) \/ EndArchive(r)
             \/ EndArchiveStopped(r) \/ SaveOn(r)
      PROVE  MutexInv'
  BY <1>3, ConstantsOK DEF Inspect, SaveOff, Flush, EndArchive,
     EndArchiveStopped, SaveOn, Return, BeginReading
<1>4. ASSUME NEW r \in Requests, Stop(r) \/ Replace(r) \/ Start(r) \/ RollBack(r)
      PROVE  MutexInv'
  BY <1>4, ConstantsOK DEF Stop, Replace, Start, RollBack, Return
<1>5. CASE Crash
  BY <1>5 DEF Crash
<1>6. CASE Play \/ AutoSave \/ OperatorAction \/ UNCHANGED vars
  BY <1>6 DEF Play, AutoSave, OperatorAction, vars
<1>7. QED BY <1>1, <1>2, <1>3, <1>4, <1>5, <1>6 DEF Next, Work
-----------------------------------------------------------------------------

(* A disk write tears no archive but those being read. *)
LEMMA DiskChangesWhole ==
  ASSUME TypeOK, DiskChanges, NEW r \in Requests
  PROVE  /\ pc[r] \notin Reading => whole'[r] = whole[r]
         /\ pc[r] \in Reading => whole'[r] = FALSE
BY DEF TypeOK, DiskChanges

(* With no lifecycle request beside them the world operations keep the disk  *)
(* still while an archive is read, whatever fails and wherever they die.     *)
LEMMA ArchiveStep ==
  ASSUME TypeOK, MutexInv, ArchiveInv, [Next]_vars, Lifecycle = {}
  PROVE  ArchiveInv'
<1> USE DEF ArchiveInv, Reading
<1>0. \A r, s \in Requests : pc[r] \in Inside /\ pc[s] \in Inside => r = s
  BY DEF MutexInv
<1>1. ASSUME NEW r \in Requests, Arrive(r) PROVE ArchiveInv'
  BY <1>1 DEF Arrive, Goto, TypeOK, Phases, server
<1>2. ASSUME NEW r \in Requests, Lock(r) PROVE ArchiveInv'
  BY <1>2 DEF Lock, Goto, TypeOK, Phases, server
<1>3. ASSUME NEW r \in Requests, Inspect(r) PROVE ArchiveInv'
  <2>1. \/ pc' = [pc EXCEPT ![r] = "archiveStopped"] /\ ~running
           /\ whole' = [whole EXCEPT ![r] = ~dirty]
        \/ pc' = [pc EXCEPT ![r] = "saveOff"] /\ whole' = whole
    BY <1>3 DEF Inspect, BeginReading, Goto
  <2>2. CASE pc' = [pc EXCEPT ![r] = "saveOff"] /\ whole' = whole
    BY <1>3, <2>2 DEF Inspect, TypeOK
  <2>3. CASE pc' = [pc EXCEPT ![r] = "archiveStopped"] /\ ~running
             /\ whole' = [whole EXCEPT ![r] = ~dirty]
    <3>1. whole' = [whole EXCEPT ![r] = TRUE]
      BY <2>3
    <3>2. QED BY <1>3, <2>3, <3>1 DEF Inspect, TypeOK
  <2>4. QED BY <2>1, <2>2, <2>3
<1>4. ASSUME NEW r \in Requests, SaveOff(r) PROVE ArchiveInv'
  BY <1>0, <1>4 DEF SaveOff, Return, Goto, TypeOK, Phases, Inside
<1>5. ASSUME NEW r \in Requests, Flush(r) PROVE ArchiveInv'
  BY <1>0, <1>5 DEF Flush, BeginReading, Goto, TypeOK, Phases, Inside
<1>6. ASSUME NEW r \in Requests, EndArchive(r) \/ EndArchiveStopped(r)
      PROVE  ArchiveInv'
  BY <1>6 DEF EndArchive, EndArchiveStopped, Return, Goto, TypeOK, Phases, server
<1>7. ASSUME NEW r \in Requests, SaveOn(r) PROVE ArchiveInv'
  BY <1>0, <1>7 DEF SaveOn, Return, Goto, TypeOK, Phases, Inside
<1>8. ASSUME NEW r \in Requests, Stop(r) \/ Replace(r) \/ Start(r) \/ RollBack(r)
      PROVE  ArchiveInv'
  <2>1. pc[r] \in {"stop", "replace", "start", "rollback"} /\ job[r] = "replace" /\ job' = job
    BY <1>8 DEF Stop, Replace, Start, RollBack, TypeOK, Phases
  <2>2. \A s \in Requests : s # r => pc[s] \in {"idle", "waiting"} /\ pc'[s] = pc[s]
                                    /\ result'[s] = result[s]
    BY <1>0, <1>8, <2>1 DEF Stop, Replace, Start, RollBack, Return, Goto, TypeOK, Inside, Phases
  <2>3. \A s \in Requests : whole'[s] = whole[s]
    BY <1>8, <2>1, <2>2, DiskChangesWhole
       DEF Stop, Replace, Start, RollBack, StartContainer, ServerStops, ServerStarts
  <2>4. pc'[r] \in {"idle", "replace", "start", "rollback"}
    BY <1>8 DEF Stop, Replace, Start, RollBack, Return, Goto, TypeOK
  <2>5. ~running' => ~dirty'
    BY <1>8
       DEF Stop, Replace, Start, RollBack, StartContainer, ServerStops, ServerStarts, Boots, server
  <2>6. QED BY <2>1, <2>2, <2>3, <2>4, <2>5
<1>9. CASE Crash
  BY <1>9 DEF Crash, TypeOK, server
<1>10. CASE Play
  BY <1>10 DEF Play
<1>11. CASE AutoSave
  <2>1. \A r \in Requests : pc[r] \notin Reading
    BY <1>11 DEF AutoSave
  <2>2. \A r \in Requests : whole'[r] = whole[r]
    BY <1>11, <2>1, DiskChangesWhole DEF AutoSave
  <2>3. QED BY <1>11, <2>1, <2>2 DEF AutoSave
<1>12. CASE OperatorAction
  BY <1>12 DEF OperatorAction
<1>13. CASE UNCHANGED vars
  BY <1>13 DEF vars
<1>14. QED
  BY <1>1, <1>2, <1>3, <1>4, <1>5, <1>6, <1>7, <1>8, <1>9, <1>10, <1>11,
     <1>12, <1>13 DEF Next, Work

(* Every archive reported as made is whole, for any number of requests and   *)
(* any combination of failures, as long as nobody starts or stops the        *)
(* container beside the world operations.                                    *)
THEOREM ArchivesAreWhole ==
  ASSUME Lifecycle = {} PROVE Spec => []WholeArchives
<1>1. Init => MutexInv /\ ArchiveInv
  BY DEF Init, MutexInv, ArchiveInv, Inside, Phases, Reading
<1>2. TypeOK /\ MutexInv /\ ArchiveInv /\ [Next]_vars => MutexInv' /\ ArchiveInv'
  BY MutexStep, ArchiveStep
<1>3. ArchiveInv => WholeArchives
  BY DEF ArchiveInv, WholeArchives
<1>4. QED BY <1>1, <1>2, <1>3, TypeCorrect, PTL DEF Spec

(* One step keeps SavesInv: save-off is only ever in effect on behalf of the *)
(* operation that holds the mutex.                                           *)
LEMMA SavesStep ==
  ASSUME TypeOK, MutexInv, SavesInv, [Next]_vars,
         Faults \cap {"saveOffLost", "saveOn", "crash"} = {}
  PROVE  SavesInv'
<1> USE DEF SavesInv, SavesSuspended, TypeOK, Goto
<1>0. \A r \in Requests : pc[r] \in Inside => mutex = r
  BY DEF MutexInv
<1>1. ASSUME NEW r \in Requests, Arrive(r) PROVE SavesInv'
  BY <1>1 DEF Arrive, server
<1>2. ASSUME NEW r \in Requests, Lock(r) PROVE SavesInv'
  BY <1>2, ConstantsOK DEF Lock, server
<1>3. ASSUME NEW r \in Requests, Inspect(r) PROVE SavesInv'
  BY <1>0, <1>3 DEF Inspect, BeginReading, Inside, Phases
<1>4. ASSUME NEW r \in Requests, SaveOff(r) PROVE SavesInv'
  BY <1>0, <1>4 DEF SaveOff, Return, Inside, Phases
<1>5. ASSUME NEW r \in Requests, Flush(r) PROVE SavesInv'
  BY <1>0, <1>5 DEF Flush, BeginReading, Inside, Phases
<1>6. ASSUME NEW r \in Requests, EndArchive(r) \/ EndArchiveStopped(r)
      PROVE  SavesInv'
  BY <1>0, <1>6 DEF EndArchive, EndArchiveStopped, Return, Inside, Phases, server
<1>7. ASSUME NEW r \in Requests, SaveOn(r) PROVE SavesInv'
  BY <1>7 DEF SaveOn
<1>8. ASSUME NEW r \in Requests, Stop(r) PROVE SavesInv'
  BY <1>0, <1>8 DEF Stop, ServerStops, Return, Inside, Phases, server
<1>9. ASSUME NEW r \in Requests, Replace(r) \/ Start(r) \/ RollBack(r)
      PROVE  SavesInv'
  BY <1>0, <1>9 DEF Replace, Start, RollBack, StartContainer, ServerStarts, Boots, Return,
     Inside, Phases, server
<1>10. CASE Crash
  BY <1>10 DEF Crash
<1>11. CASE Play \/ AutoSave \/ UNCHANGED vars
  BY <1>11 DEF Play, AutoSave, vars
<1>12. CASE OperatorAction
  BY <1>12 DEF OperatorAction, ServerStops, ServerStarts, Boots
<1>13. QED
  BY <1>1, <1>2, <1>3, <1>4, <1>5, <1>6, <1>7, <1>8, <1>9, <1>10, <1>11,
     <1>12 DEF Next, Work

(* Whatever the operators do to the container, no operation ends with a      *)
(* running server that does not save, when every RCON answer is truthful and *)
(* the deferred save-on gets through.                                        *)
THEOREM NoSaveOffStranded ==
  ASSUME Faults \cap {"saveOffLost", "saveOn", "crash"} = {}
  PROVE  Spec => []SavesResumed
<1>1. Init => MutexInv /\ SavesInv
  BY DEF Init, MutexInv, SavesInv, Inside, Phases
<1>2. TypeOK /\ MutexInv /\ SavesInv /\ [Next]_vars => MutexInv' /\ SavesInv'
  BY MutexStep, SavesStep
<1>3. SavesInv => SavesResumed
  BY ConstantsOK DEF SavesInv, SavesResumed
<1>4. QED BY <1>1, <1>2, <1>3, TypeCorrect, PTL DEF Spec

(* Whatever fails and whatever operators do, operationMu is held exactly while one    *)
(* request is inside: no two are, none is left holding it by an error or a crash, and *)
(* who waits for it waits for a request that is at work (archives.go:18-19, 63-64,    *)
(* 107-108, 120-121, 141-142: each lock with its deferred unlock).                    *)
THEOREM HeldWhileInside ==
  Spec => [](\A r \in Requests : pc[r] \in Inside <=> mutex = r)
<1>1. Init => MutexInv
  BY DEF Init, MutexInv, Inside, Phases
<1>2. TypeOK /\ MutexInv /\ [Next]_vars => MutexInv'
  BY MutexStep
<1>3. TypeOK /\ MutexInv => \A r \in Requests : pc[r] \in Inside <=> mutex = r
  BY ConstantsOK DEF TypeOK, MutexInv
<1>4. QED BY <1>1, <1>2, <1>3, TypeCorrect, PTL DEF Spec

=============================================================================
