--------------------------- MODULE WorldSwapProofs ---------------------------
(***************************************************************************)
(* Theorems about WorldSwap for every number of world directories, every   *)
(* archive and every lifecycle request of other operators.                 *)
(***************************************************************************)
EXTENDS WorldSwap, TLAPS

(* Where the prior directory d is in every phase, when no rename into the  *)
(* rollback directory fails: still live, moved aside, or restored.         *)
PriorWhere(d) ==
  /\ pc = "stop" => live[d] = prior[d]
  /\ pc = "aside" /\ d >= idx => live[d] = prior[d]
  /\ pc = "aside" /\ d < idx => aside[d] = prior[d]
  /\ pc \in {"install", "start"} => aside[d] = prior[d]
  /\ pc \in {"undoRemove", "undoRename"} /\ d >= idx => aside[d] = prior[d]
  /\ pc \in {"undoRemove", "undoRename"} /\ d < idx =>
       prior[d] \in {live[d], aside[d]}
  /\ pc = "undoStart" => prior[d] \in {live[d], aside[d]}
  /\ pc = "idle" /\ outcome # "ok" => prior[d] \in {live[d]} \cup attic[d]

PriorInv ==
  /\ pc # "idle" => outcome = "pending"
  /\ \A d \in Dirs : prior[d] # Absent => PriorWhere(d)

-----------------------------------------------------------------------------

(* The next loop index stays a directory. *)
LEMMA NextDirType ==
  ASSUME idx \in Dirs, NEW again, NEW then, NextDir(again, then)
  PROVE  idx' \in Dirs
BY ConstantsOK DEF NextDir, Dirs

(* Returning leaves well-typed directories. *)
LEMMA ReturnType ==
  ASSUME TypeOK, NEW result \in Outcomes, Return(result)
  PROVE  /\ pc' = "idle" /\ idx' \in Dirs /\ outcome' \in Outcomes
         /\ staging' \in Archives /\ aside' \in [Dirs -> Slot]
         /\ attic' \in [Dirs -> SUBSET Directory]
BY ConstantsOK DEF TypeOK, Return, Dirs, Archives, Empty, Slot, Directory

(* Every variable keeps its type. *)
THEOREM TypeCorrect == Spec => []TypeOK
<1>1. Init => TypeOK
  BY ConstantsOK DEF Init, TypeOK, Dirs, Archives, Empty, Slot, Directory,
     Phases, Outcomes
<1>2. TypeOK /\ [Next]_vars => TypeOK'
  <2> SUFFICES ASSUME TypeOK, [Next]_vars PROVE TypeOK'
    OBVIOUS
  <2> USE DEF TypeOK, Phases, Outcomes
  <2>1. CASE Stage
    BY <2>1, ConstantsOK DEF Stage, Archives, Slot, Empty
  <2>2. CASE StopServer
    <3>1. CASE Return("error") /\ UNCHANGED <<live, archive, prior>> /\ running' \in BOOLEAN
      BY <3>1, ReturnType
    <3>2. CASE UNCHANGED <<aside, staging, attic, outcome, live, archive, prior>>
               /\ running' = FALSE /\ pc' = "aside" /\ idx' = 1
      <4>1. running' \in BOOLEAN
        BY <3>2
      <4>2. idx' \in Dirs
        BY <3>2, ConstantsOK DEF Dirs
      <4>3. QED BY <3>2, <4>1, <4>2
    <3>3. QED BY <2>2, <3>1, <3>2 DEF StopServer
  <2>3. CASE MoveAside
    <3>1. pc' \in Phases /\ idx' \in Dirs
      BY <2>3, NextDirType DEF MoveAside, NextDir
    <3>2. QED BY <2>3, <3>1 DEF MoveAside, Slot, request
  <2>4. CASE MoveAsideFails
    BY <2>4, ConstantsOK DEF MoveAsideFails, Dirs, disk, request
  <2>5. CASE Install
    <3>1. pc' \in Phases /\ idx' \in Dirs
      BY <2>5, NextDirType DEF Install, NextDir
    <3>2. live' \in [Dirs -> Slot] /\ staging' \in Archives
      BY <2>5 DEF Install, Slot, Directory, Archives
    <3>3. QED BY <2>5, <3>1, <3>2 DEF Install, request
  <2>6. CASE InstallFails
    BY <2>6, ConstantsOK DEF InstallFails, Dirs, disk, request
  <2>7. CASE StartServer
    BY <2>7, ConstantsOK DEF StartServer, Dirs, request, Empty, Slot, Archives
  <2>8. CASE StartFails
    <3>1. running' \in BOOLEAN
      BY <2>8 DEF StartFails
    <3>2. idx' \in Dirs
      BY <2>8, ConstantsOK DEF StartFails, Dirs
    <3>3. QED BY <2>8, <3>1, <3>2 DEF StartFails, disk, request
  <2>9. CASE UndoRemove
    BY <2>9 DEF UndoRemove, Slot, request
  <2>10. CASE UndoRename
    <3>1. pc' \in Phases /\ idx' \in Dirs
      BY <2>10, NextDirType DEF UndoRename, NextDir
    <3>2. live' \in [Dirs -> Slot] /\ aside' \in [Dirs -> Slot]
      BY <2>10 DEF UndoRename, Slot
    <3>3. QED BY <2>10, <3>1, <3>2 DEF UndoRename, request
  <2>11. CASE UndoStart
    BY <2>11, ReturnType DEF UndoStart
  <2>12. CASE Crash
    BY <2>12, ReturnType DEF Crash
  <2>13. CASE OperatorAction
    BY <2>13 DEF OperatorAction, disk, request
  <2>14. CASE CreateMissing
    BY <2>14 DEF CreateMissing, Slot, Directory, request
  <2>15. CASE UNCHANGED vars
    BY <2>15 DEF vars
  <2>16. QED
    BY <2>1, <2>2, <2>3, <2>4, <2>5, <2>6, <2>7, <2>8, <2>9, <2>10, <2>11,
       <2>12, <2>13, <2>14, <2>15 DEF Next, Replacement
<1>3. QED BY <1>1, <1>2, PTL DEF Spec

-----------------------------------------------------------------------------

(* What leaves the rollback directory behind stays in the attic. *)
LEMMA ReturnKeeps ==
  ASSUME TypeOK, NEW result, Return(result), UNCHANGED <<live, prior>>,
         NEW d \in Dirs, prior[d] # Absent,
         prior[d] \in {live[d], aside[d]}
  PROVE  prior'[d] \in {live'[d]} \cup attic'[d]
BY DEF Return, TypeOK

(* A step taken while moving worlds aside cannot fail half way: the set of   *)
(* faults leaves "aside" out.  Any other fault, a crash included, and any    *)
(* lifecycle request are allowed.                                            *)
LEMMA PriorInvStep ==
  ASSUME TypeOK, PriorInv, [Next]_vars, "aside" \notin Faults
  PROVE  PriorInv'
<1> USE DEF PriorInv, PriorWhere
<1>0. idx \in Dirs /\ Dirs = 1..N /\ N \in Nat \ {0}
  BY ConstantsOK DEF TypeOK, Dirs
<1>1. CASE Stage
  BY <1>1 DEF Stage
<1>2. CASE StopServer
  <2>1. CASE Return("error") /\ UNCHANGED <<live, archive, prior>>
    <3>1. pc' = "idle"
      BY <2>1 DEF Return
    <3>2. \A d \in Dirs : prior[d] # Absent => prior'[d] \in {live'[d]} \cup attic'[d]
      BY <1>2, <2>1, ReturnKeeps DEF StopServer
    <3>3. QED BY <2>1, <3>1, <3>2
  <2>2. CASE running' = FALSE /\ pc' = "aside" /\ idx' = 1
             /\ UNCHANGED <<aside, staging, attic, outcome, live, archive, prior>>
    BY <1>0, <1>2, <2>2 DEF StopServer
  <2>3. QED BY <1>2, <2>1, <2>2 DEF StopServer
<1>3. CASE MoveAside
  BY <1>0, <1>3 DEF MoveAside, NextDir, TypeOK, request
<1>4. CASE MoveAsideFails
  BY <1>4 DEF MoveAsideFails
<1>5. CASE Install
  BY <1>0, <1>5 DEF Install, NextDir, TypeOK, request
<1>6. CASE InstallFails
  BY <1>0, <1>6 DEF InstallFails, disk, request
<1>7. CASE StartServer
  BY <1>7 DEF StartServer
<1>8. CASE StartFails
  BY <1>0, <1>8 DEF StartFails, disk, request
<1>9. CASE UndoRemove
  BY <1>0, <1>9 DEF UndoRemove, TypeOK, request
<1>10. CASE UndoRename
  BY <1>0, <1>10 DEF UndoRename, NextDir, TypeOK, request
<1>11. CASE UndoStart
  <2>1. \A d \in Dirs : prior[d] # Absent => prior'[d] \in {live'[d]} \cup attic'[d]
    BY <1>11, ReturnKeeps DEF UndoStart
  <2>2. QED BY <1>11, <2>1 DEF UndoStart, Return
<1>12. CASE Crash
  <2>1. ASSUME NEW d \in Dirs, prior[d] # Absent
        PROVE  prior[d] \in {live[d], aside[d]}
    BY <1>0, <1>12, <2>1 DEF Crash, TypeOK, Phases
  <2>2. \A d \in Dirs : prior[d] # Absent => prior'[d] \in {live'[d]} \cup attic'[d]
    BY <1>12, <2>1, ReturnKeeps DEF Crash
  <2>3. QED BY <1>12, <2>2 DEF Crash, Return
<1>13. CASE OperatorAction
  BY <1>13 DEF OperatorAction, disk, request
<1>14. CASE CreateMissing
  BY <1>14 DEF CreateMissing, TypeOK, request
<1>15. CASE UNCHANGED vars
  BY <1>15 DEF vars
<1>16. QED
  BY <1>1, <1>2, <1>3, <1>4, <1>5, <1>6, <1>7, <1>8, <1>9, <1>10, <1>11,
     <1>12, <1>13, <1>14, <1>15 DEF Next, Replacement

(* No failed replacement loses a world: whatever fails other than a rename   *)
(* into the rollback directory, wherever the process dies and whatever the   *)
(* operators do to the container, each prior world directory stays on disk.  *)
THEOREM PriorNeverLost ==
  ASSUME "aside" \notin Faults PROVE Spec => []PriorKept
<1>1. Init => PriorInv
  BY DEF Init, PriorInv, PriorWhere
<1>2. TypeOK /\ PriorInv /\ [Next]_vars => PriorInv'
  BY PriorInvStep
<1>3. TypeOK /\ PriorInv => PriorKept
  <2> SUFFICES ASSUME TypeOK, PriorInv, outcome # "ok", NEW d \in Dirs,
                      prior[d] # Absent
               PROVE  prior[d] \in {live[d], aside[d]} \cup attic[d]
    BY DEF PriorKept
  <2> QED BY ConstantsOK DEF PriorInv, PriorWhere, TypeOK, Phases, Dirs
<1>4. QED BY <1>1, <1>2, <1>3, TypeCorrect, PTL DEF Spec

-----------------------------------------------------------------------------
(* The renames look like one step.                                           *)

(* Failures the handler is told of and its rollback undoes: no rename fails  *)
(* while worlds are moved aside or put back, no start takes effect behind an *)
(* error, the process lives, and operators only stop the container.          *)
Reported ==
  /\ Faults \cap {"aside", "startLost", "undo", "crash"} = {}
  /\ Lifecycle \subseteq {"stop"}

(* What each phase has done to the directories before idx and has yet to do  *)
(* to the others.  The server is down while there is more than one set.      *)
Progress ==
  /\ pc \notin {"idle", "stop"} => ~running
  /\ pc # "idle" => archive[1] # Absent /\ outcome = "pending"
  /\ pc \in {"stop", "aside"} => staging = archive
  /\ pc = "start" => live = archive
  /\ \A d \in Dirs :
       /\ pc = "aside" /\ d < idx => live[d] = Absent
       /\ pc = "install" /\ d < idx => live[d] = archive[d]
       /\ pc = "install" /\ d >= idx => live[d] = Absent /\ staging[d] = archive[d]
       /\ pc = "undoRename" /\ d = idx => live[d] = Absent

LEMMA InitProgress == Init => Progress
BY DEF Init, Progress

LEMMA ProgressStep ==
  ASSUME TypeOK, Progress, [Next]_vars, Reported
  PROVE  Progress'
<1> USE DEF Progress
<1>0. idx \in Dirs /\ Dirs = 1..N /\ N \in Nat \ {0}
  BY ConstantsOK DEF TypeOK, Dirs
<1>1. CASE Stage
  BY <1>1 DEF Stage
<1>2. CASE StopServer
  BY <1>0, <1>2 DEF StopServer, Return
<1>3. CASE MoveAside
  <2>1. live' = [live EXCEPT ![idx] = Absent] /\ UNCHANGED <<staging, archive, running, outcome>>
    BY <1>3 DEF MoveAside, request
  <2>2. CASE idx < N /\ pc' = "aside" /\ idx' = idx + 1
    BY <1>0, <1>3, <2>1, <2>2 DEF MoveAside, TypeOK
  <2>3. CASE ~(idx < N) /\ pc' = "install" /\ idx' = 1
    BY <1>0, <1>3, <2>1, <2>3 DEF MoveAside, TypeOK
  <2> QED
    BY <1>3, <2>2, <2>3 DEF MoveAside, NextDir
<1>4. CASE Install
  <2>1. UNCHANGED <<archive, running, outcome>>
    BY <1>4 DEF Install, request
  <2>2. /\ live'[idx] = archive[idx]
        /\ \A d \in Dirs \ {idx} : live'[d] = live[d] /\ staging'[d] = staging[d]
    BY <1>0, <1>4 DEF Install, TypeOK, Archives
  <2>3. CASE idx < N /\ pc' = "install" /\ idx' = idx + 1
    BY <1>0, <1>4, <2>1, <2>2, <2>3 DEF Install
  <2>4. CASE ~(idx < N) /\ pc' = "start" /\ idx' = 1
    <3>1. \A d \in Dirs : live'[d] = archive[d]
      BY <1>0, <1>4, <2>2, <2>4 DEF Install
    <3>2. live' = [d \in Dirs |-> live'[d]] /\ archive = [d \in Dirs |-> archive[d]]
      BY <1>4 DEF Install, TypeOK, Archives
    <3>3. live' = archive
      BY <3>1, <3>2
    <3> QED
      BY <1>0, <1>4, <2>1, <2>4, <3>3 DEF Install
  <2> QED
    BY <1>4, <2>3, <2>4 DEF Install, NextDir
<1>5. CASE InstallFails \/ StartFails
  BY <1>0, <1>5 DEF InstallFails, StartFails, disk, request, Reported
<1>6. CASE StartServer \/ UndoStart
  BY <1>6 DEF StartServer, UndoStart, Return
<1>7. CASE UndoRemove
  BY <1>0, <1>7 DEF UndoRemove, TypeOK, request, Reported
<1>8. CASE UndoRename
  BY <1>0, <1>8 DEF UndoRename, NextDir, request
<1>9. CASE OperatorAction
  BY <1>9 DEF OperatorAction, disk, request, Reported
<1>10. CASE CreateMissing
  BY <1>10 DEF CreateMissing, request
<1>11. CASE UNCHANGED vars
  BY <1>11 DEF vars
<1> QED
  BY <1>1, <1>2, <1>3, <1>4, <1>5, <1>6, <1>7, <1>8, <1>9, <1>10, <1>11
     DEF Next, Replacement, MoveAsideFails, Crash, Reported

(* The directories as two functions on the same names. *)
LEMMA EffectiveShape ==
  /\ Effective = [d \in Dirs |-> Effective[d]]
  /\ pc \in {"idle", "stop", "undoStart"} /\ TypeOK => Effective = live
BY DEF Effective, TypeOK

(* Only the start that commits and a directory the server creates change the *)
(* set of worlds.                                                            *)
LEMMA EffectiveStep ==
  ASSUME TypeOK, Progress, Next, Reported, ~StartServer, ~CreateMissing
  PROVE  UNCHANGED Effective
<1>0. idx \in Dirs /\ Dirs = 1..N /\ N \in Nat \ {0}
  BY ConstantsOK DEF TypeOK, Dirs
<1> SUFFICES ASSUME NEW d \in Dirs
             PROVE  Effective'[d] = Effective[d]
  BY DEF Effective
<1> USE DEF Effective, Progress, TypeOK
<1>1. CASE Stage
  BY <1>1 DEF Stage
<1>2. CASE StopServer
  BY <1>0, <1>2 DEF StopServer, Return
<1>3. CASE MoveAside
  BY <1>0, <1>3 DEF MoveAside, NextDir
<1>4. CASE Install
  BY <1>0, <1>4 DEF Install, NextDir
<1>5. CASE InstallFails \/ StartFails
  BY <1>0, <1>5 DEF InstallFails, StartFails, disk
<1>6. CASE UndoStart
  BY <1>6 DEF UndoStart, Return
<1>7. CASE UndoRemove
  BY <1>0, <1>7 DEF UndoRemove
<1>8. CASE UndoRename
  BY <1>0, <1>8 DEF UndoRename, NextDir, Reported
<1>9. CASE OperatorAction
  BY <1>9 DEF OperatorAction, disk
<1> QED
  BY <1>1, <1>2, <1>3, <1>4, <1>5, <1>6, <1>7, <1>8, <1>9
     DEF Next, Replacement, MoveAsideFails, Crash, Reported

(* The start that commits a replacement. *)
LEMMA CommitStep ==
  ASSUME TypeOK, Progress, StartServer
  PROVE  /\ Effective' = archive /\ archive' = archive /\ archive[1] # Absent
         /\ ~running /\ running' = TRUE
BY DEF StartServer, Progress, Effective, TypeOK, request, Archives

(* The server creates a directory only while there is one set of worlds. *)
LEMMA CreateStep ==
  ASSUME TypeOK, Progress, CreateMissing
  PROVE  /\ Effective = live /\ Effective' = live'
         /\ running /\ UNCHANGED <<running, archive, pc, idx, outcome, prior>>
<1>1. pc \in {"idle", "stop"} /\ running
  BY DEF Progress, CreateMissing
<1> QED
  BY <1>1 DEF CreateMissing, Effective, TypeOK, request

(* Under reported failures the renames implement WorldReplacement: the set of *)
(* worlds changes in one step, to the whole archive, while the server is down. *)
THEOREM SwapIsAtomic ==
  ASSUME Reported PROVE Spec => AtomicReplacement
<1>1. Init => Abstract!Init
  BY DEF Init, Abstract!Init, Effective, Archives, Abstract!Archives, Dirs, Empty
<1>2. TypeOK /\ TypeOK' /\ Progress /\ [Next]_vars => [Abstract!Next]_(Abstract!abstractVars)
  <2> SUFFICES ASSUME TypeOK, TypeOK', Progress, [Next]_vars
               PROVE  Abstract!Next \/ UNCHANGED Abstract!abstractVars
    OBVIOUS
  <2> USE DEF Abstract!abstractVars
  <2>1. CASE StartServer
    <3>1. Abstract!Replace
      BY <2>1, CommitStep DEF Abstract!Replace
    <3> QED
      BY <3>1 DEF Abstract!Next
  <2>2. CASE CreateMissing
    <3>1. Abstract!CreateMissing
      BY <2>2, CreateStep DEF Abstract!CreateMissing, CreateMissing, Dirs
    <3> QED
      BY <3>1 DEF Abstract!Next
  <2>3. CASE UNCHANGED vars
    BY <2>3 DEF vars, Effective
  <2>4. CASE Stage
    <3>1. UNCHANGED Effective
      <4>1. ~StartServer
        BY <2>4 DEF Stage, StartServer
      <4>2. ~CreateMissing
        BY <2>4, ConstantsOK DEF Stage, CreateMissing, TypeOK
      <4> QED
        BY <2>4, <4>1, <4>2, EffectiveStep DEF Next
    <3>2. Abstract!Supply
      BY <2>4, <3>1 DEF Stage, Abstract!Supply, Archives, Abstract!Archives, Dirs
    <3> QED
      BY <3>2 DEF Abstract!Next
  <2>5. CASE Next /\ ~StartServer /\ ~CreateMissing /\ ~Stage
    <3>1. UNCHANGED Effective
      BY <2>5, EffectiveStep
    <3>2. UNCHANGED archive
      BY <2>5 DEF Next, Replacement, StopServer, MoveAside, MoveAsideFails, Install,
         InstallFails, StartFails, UndoRemove, UndoRename, UndoStart, Crash,
         OperatorAction, disk, request
    <3>3. running' \in BOOLEAN
      BY DEF TypeOK
    <3>4. Abstract!StartOrStop
      BY <3>1, <3>2, <3>3 DEF Abstract!StartOrStop
    <3> QED
      BY <3>4 DEF Abstract!Next
  <2> QED
    BY <2>1, <2>2, <2>3, <2>4, <2>5
<1>3. TypeOK /\ Progress /\ [Next]_vars => Progress'
  BY ProgressStep
<1> QED
  BY <1>1, <1>2, <1>3, InitProgress, TypeCorrect, PTL
     DEF Spec, AtomicReplacement, Abstract!Spec

(* The worlds a reader of the docs thinks of are those before the replacement *)
(* until it commits, those of the archive afterwards.                         *)
OneSet == IF outcome = "ok" THEN Holds(live, archive) ELSE Holds(Effective, prior)

LEMMA OneSetStep ==
  ASSUME TypeOK, Progress, OneSet, [Next]_vars, Reported
  PROVE  OneSet'
<1> USE DEF OneSet, Holds
<1>1. CASE Stage
  <2>1. pc = "idle" /\ pc' \in {"idle", "stop"} /\ outcome' # "ok"
        /\ prior' = live /\ live' = live
    BY <1>1 DEF Stage
  <2>2. \A d \in Dirs : Effective'[d] = live[d]
    BY <2>1 DEF Effective
  <2> QED
    BY <2>1, <2>2
<1>2. CASE StartServer
  BY <1>2 DEF StartServer, Progress, request
<1>3. CASE CreateMissing
  <2>1. PICK c \in Dirs : live[c] = Absent /\ live' = [live EXCEPT ![c] = Fresh]
    BY <1>3 DEF CreateMissing
  <2>2. \A d \in Dirs : \/ live'[d] = live[d]
                        \/ live[d] = Absent /\ live'[d] = Fresh
    BY <2>1 DEF TypeOK
  <2> QED
    BY <1>3, <2>2, CreateStep, ConstantsOK
<1>4. CASE UNCHANGED vars
  BY <1>4 DEF vars, Effective
<1>5. CASE Next /\ ~Stage /\ ~StartServer /\ ~CreateMissing
  <2>1. UNCHANGED <<Effective, archive, prior>>
    BY <1>5, EffectiveStep
       DEF Next, Replacement, StopServer, MoveAside, MoveAsideFails, Install,
           InstallFails, StartFails, UndoRemove, UndoRename, UndoStart, Crash,
           OperatorAction, disk, request
  <2>2. CASE OperatorAction
    BY <2>1, <2>2 DEF OperatorAction, disk
  <2>3. CASE Replacement
    <3>1. outcome = "pending"
      BY <2>3 DEF Progress, Replacement, StopServer, MoveAside, MoveAsideFails, Install,
         InstallFails, StartServer, StartFails, UndoRemove, UndoRename, UndoStart
    <3>2. outcome' # "ok"
      BY <1>5, <2>3, <3>1 DEF Replacement, StopServer, MoveAside, MoveAsideFails, Install,
         InstallFails, StartFails, UndoRemove, UndoRename, UndoStart, Return
    <3> QED
      BY <2>1, <3>1, <3>2
  <2> QED
    BY <1>5, <2>2, <2>3 DEF Next, Crash, Reported
<1> QED
  BY <1>1, <1>2, <1>3, <1>4, <1>5

LEMMA OneSetInvariant ==
  ASSUME Reported PROVE Spec => [](TypeOK /\ Progress /\ OneSet)
<1>1. Init => OneSet
  BY DEF Init, OneSet, Holds, Effective
<1>2. TypeOK /\ Progress /\ [Next]_vars => Progress'
  BY ProgressStep
<1>3. TypeOK /\ Progress /\ OneSet /\ [Next]_vars => OneSet'
  BY OneSetStep
<1> QED
  BY <1>1, <1>2, <1>3, InitProgress, TypeCorrect, PTL DEF Spec

(* Under reported failures a running server serves the old set of worlds or   *)
(* the new one, and no mix of the two.                                        *)
THEOREM OneSetServed ==
  ASSUME Reported PROVE Spec => []ServesWholeSet
<1>1. TypeOK /\ Progress /\ OneSet => ServesWholeSet
  <2> SUFFICES ASSUME TypeOK, Progress, OneSet, running
               PROVE  Holds(live, prior) \/ Holds(live, archive)
    BY DEF ServesWholeSet
  <2>1. Effective = live
    BY EffectiveShape DEF Progress
  <2> QED
    BY <2>1 DEF OneSet
<1> QED
  BY <1>1, OneSetInvariant, PTL

(* Under reported failures a replacement that reports an error has put the    *)
(* worlds back that were live before it.                                      *)
THEOREM ErrorsUndone ==
  ASSUME Reported PROVE Spec => []ErrorRestoresPrior
<1>1. TypeOK /\ Progress /\ OneSet => ErrorRestoresPrior
  BY EffectiveShape DEF OneSet, ErrorRestoresPrior
<1> QED
  BY <1>1, OneSetInvariant, PTL
=============================================================================
