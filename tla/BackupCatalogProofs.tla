------------------------ MODULE BackupCatalogProofs ------------------------
(***************************************************************************)
(* Theorems about BackupCatalog for any requests, identifiers and faults.  *)
(* The argument is operationMu: between its Lock and its return no other   *)
(* request writes files or rows, so what a request has looked up or        *)
(* created is still so at its next step.                                   *)
(***************************************************************************)
EXTENDS BackupCatalog, TLAPS

Creation == {"archive", "publish", "insert"}

(* The request is past its Lock; a download never takes it. *)
Holds(r) ==
  \/ pc[r] \in Creation \cup {"unlink", "deleteRow", "extract"}
  \/ pc[r] = "lookup" /\ op[r] # "download"

MutexHeld == \A r \in Requests : Holds(r) <=> mutex = r

StepsOfOperation ==
  \A r \in Requests :
    /\ pc[r] \in Creation => op[r] = "create" /\ target[r] \in Ids \cap used
    /\ pc[r] = "lookup" => op[r] # "create"
    /\ pc[r] = "waiting" => op[r] # "download"
    /\ pc[r] \in {"unlink", "deleteRow"} => op[r] = "delete"
    /\ op[r] # "create" => target[r] \in Ids

(* What the holder of the mutex may rely on. *)
HolderKnows ==
  \A r \in Requests :
    /\ pc[r] \in Creation => target[r] \notin rows
    /\ pc[r] \in {"extract", "insert"} => target[r] \in files
    /\ pc[r] = "deleteRow" => target[r] \notin files

CatalogInv ==
  /\ TypeOK /\ MutexHeld /\ StepsOfOperation /\ HolderKnows
  /\ rows \subseteq used

LEMMA InitCatalog == Init => CatalogInv
BY ConstantsOK DEF Init, CatalogInv, TypeOK, MutexHeld, Holds, StepsOfOperation, HolderKnows,
       Creation, Phases, Operations

LEMMA CatalogStep ==
  ASSUME CatalogInv, Next
  PROVE  CatalogInv'
<1> USE DEF CatalogInv, TypeOK, MutexHeld, Holds, StepsOfOperation, HolderKnows,
            Creation, Phases, Unlocked, Operations, storage
<1>1. ASSUME NEW r \in Requests, Arrive(r)
      PROVE  CatalogInv'
  <2>1. PICK o \in Operations, id \in Ids \cup {Nil} :
          /\ o # "create" => id \in Ids
          /\ op' = [op EXCEPT ![r] = o] /\ target' = [target EXCEPT ![r] = id]
          /\ pc' = [pc EXCEPT ![r] = IF o = "download" THEN "lookup" ELSE "waiting"]
    BY <1>1 DEF Arrive, Goto
  <2>2. ~Holds(r) /\ ~Holds(r)' /\ mutex # r
    BY <1>1, <2>1 DEF Arrive
  <2>3. \A q \in Requests \ {r} :
          pc'[q] = pc[q] /\ op'[q] = op[q] /\ target'[q] = target[q]
    BY <2>1
  <2>4. UNCHANGED <<mutex, files, rows, used, torn>>
    BY <1>1 DEF Arrive
  <2>5. TypeOK'
    <3>1. pc' \in [Requests -> Phases] /\ op' \in [Requests -> Operations]
      BY <2>1
    <3>2. target' \in [Requests -> Ids \cup {Nil}]
      BY <2>1
    <3>3. mutex' = Nil \/ (mutex' \in Requests /\ pc'[mutex'] \notin Unlocked)
      BY <2>2, <2>3, <2>4
    <3> QED
      BY <2>4, <3>1, <3>2, <3>3
  <2>6. MutexHeld'
    BY <2>2, <2>3, <2>4
  <2>7. StepsOfOperation' /\ HolderKnows'
    BY <1>1, <2>1, <2>3, <2>4 DEF Arrive
  <2> QED
    BY <2>4, <2>5, <2>6, <2>7
<1>2. ASSUME NEW r \in Requests, Lock(r)
      PROVE  CatalogInv'
  BY <1>2, ConstantsOK DEF Lock, Goto
<1>3. ASSUME NEW r \in Requests, WriteArchive(r)
      PROVE  CatalogInv'
  BY <1>3, ConstantsOK DEF WriteArchive, Goto, Return
<1>4. ASSUME NEW r \in Requests, Publish(r)
      PROVE  CatalogInv'
  BY <1>4, ConstantsOK DEF Publish, Goto, Return
<1>5. ASSUME NEW r \in Requests, Insert(r)
      PROVE  CatalogInv'
  BY <1>5, ConstantsOK DEF Insert, Goto, Return
<1>6. ASSUME NEW r \in Requests, Lookup(r)
      PROVE  CatalogInv'
  <2>1. CASE UNCHANGED mutex /\ Goto(r, CASE op[r] = "delete" -> "unlink"
                                          [] op[r] = "restore" -> "extract"
                                          [] op[r] = "download" -> "open")
    <3>1. CASE op[r] = "delete" /\ Goto(r, "unlink")
      BY <1>6, <2>1, <3>1, ConstantsOK DEF Lookup, Goto, Return
    <3>2. CASE op[r] = "restore" /\ Goto(r, "extract")
      BY <1>6, <2>1, <3>2, ConstantsOK DEF Lookup, Goto, Return
    <3>3. CASE op[r] = "download" /\ Goto(r, "open")
      BY <1>6, <2>1, <3>3, ConstantsOK DEF Lookup, Goto, Return
    <3> QED
      BY <1>6, <2>1, <3>1, <3>2, <3>3 DEF Lookup
  <2>2. CASE Return(r)
    BY <1>6, <2>2, ConstantsOK DEF Lookup, Goto, Return
  <2> QED
    BY <1>6, <2>1, <2>2 DEF Lookup
<1>7. ASSUME NEW r \in Requests, Unlink(r)
      PROVE  CatalogInv'
  BY <1>7, ConstantsOK DEF Unlink, Goto, Return
<1>8. ASSUME NEW r \in Requests, DeleteRow(r)
      PROVE  CatalogInv'
  BY <1>8, ConstantsOK DEF DeleteRow, Goto, Return
<1>9. ASSUME NEW r \in Requests, Extracted(r) \/ Open(r) \/ Serve(r)
      PROVE  CatalogInv'
  BY <1>9, ConstantsOK DEF Extracted, Open, Serve, Goto, Return
<1>10. CASE Crash
  BY <1>10, ConstantsOK DEF Crash
<1> QED
  BY <1>1, <1>2, <1>3, <1>4, <1>5, <1>6, <1>7, <1>8, <1>9, <1>10 DEF Next, Work

LEMMA CatalogInvariant == Spec => []CatalogInv
<1>1. CatalogInv /\ UNCHANGED vars => CatalogInv'
  BY DEF CatalogInv, TypeOK, MutexHeld, Holds, StepsOfOperation, HolderKnows,
         vars, storage
<1> QED
  BY <1>1, InitCatalog, CatalogStep, PTL DEF Spec

(* The type invariant of BackupCatalog. *)
THEOREM TypeCorrect == Spec => []TypeOK
BY CatalogInvariant, PTL DEF CatalogInv

(* Whatever fails, operationMu is held exactly from the Lock of one creation, deletion
   or restore to its return, and never by a download (archives.go:18-19, 107-108,
   120-121). *)
THEOREM HeldWhileAtWork == Spec => []MutexHeld
BY CatalogInvariant, PTL DEF CatalogInv

(* No archive disappears while a restore reads it or a creation is about to
   record it. *)
THEOREM ReadersKeepArchive == Spec => []ReadsStoredArchive
<1>1. CatalogInv => ReadsStoredArchive
  BY DEF CatalogInv, HolderKnows, ReadsStoredArchive
<1> QED
  BY <1>1, CatalogInvariant, PTL

(* File and row agree for every backup but those a failure has torn and the
   one whose file has been written and whose row has not. *)
AgreeElsewhere ==
  \A id \in Ids \ torn :
    \/ id \in rows <=> id \in files
    \/ \E r \in Requests : /\ mutex = r /\ target[r] = id
                           /\ pc[r] \in {"insert", "deleteRow"}

LEMMA AgreementStep ==
  ASSUME CatalogInv, AgreeElsewhere, Next
  PROVE  AgreeElsewhere'
<1> USE DEF CatalogInv, TypeOK, MutexHeld, Holds, StepsOfOperation, HolderKnows,
            AgreeElsewhere, Creation, Unlocked, storage, Goto, Return
<1>1. ASSUME NEW r \in Requests, Arrive(r) \/ Lock(r)
      PROVE  AgreeElsewhere'
  BY <1>1, ConstantsOK DEF Arrive, Lock
<1>2. ASSUME NEW r \in Requests, Publish(r)
      PROVE  AgreeElsewhere'
  BY <1>2, ConstantsOK DEF Publish
<1>3. ASSUME NEW r \in Requests, Insert(r)
      PROVE  AgreeElsewhere'
  BY <1>3, ConstantsOK DEF Insert
<1>4. ASSUME NEW r \in Requests, Unlink(r)
      PROVE  AgreeElsewhere'
  BY <1>4, ConstantsOK DEF Unlink
<1>5. ASSUME NEW r \in Requests, DeleteRow(r)
      PROVE  AgreeElsewhere'
  BY <1>5, ConstantsOK DEF DeleteRow
<1>6. ASSUME NEW r \in Requests,
             WriteArchive(r) \/ Lookup(r) \/ Extracted(r) \/ Open(r) \/ Serve(r)
      PROVE  AgreeElsewhere'
  BY <1>6, ConstantsOK DEF WriteArchive, Lookup, Extracted, Open, Serve
<1>7. CASE Crash
  BY <1>7, ConstantsOK DEF Crash, InProgress
<1> QED
  BY <1>1, <1>2, <1>3, <1>4, <1>5, <1>6, <1>7 DEF Next, Work

(* Between operations rows and files agree, but for the backups that a failure
   or a crash has left half made or half deleted. *)
THEOREM FailuresStayConfined == Spec => []CatalogMatchesDisk
<1>1. Init => AgreeElsewhere
  BY DEF Init, AgreeElsewhere
<1>2. CatalogInv /\ AgreeElsewhere /\ [Next]_vars => AgreeElsewhere'
  <2>1. AgreeElsewhere /\ UNCHANGED vars => AgreeElsewhere'
    BY DEF AgreeElsewhere, vars, storage
  <2> QED
    BY <2>1, AgreementStep
<1>3. AgreeElsewhere => CatalogMatchesDisk
  BY ConstantsOK DEF AgreeElsewhere, CatalogMatchesDisk
<1> QED
  BY <1>1, <1>2, <1>3, CatalogInvariant, PTL DEF Spec

(* A stored backup disappears only when a delete of it removes its file. *)
THEOREM DeletedOnPurpose == Spec => StoredUntilDeleted
<1> DEFINE Deliberate ==
      \A id \in Ids : id \in rows \cap files /\ id \notin (rows \cap files)' =>
        \E r \in Requests : op[r] = "delete" /\ target[r] = id /\ pc[r] = "unlink"
<1>1. ASSUME CatalogInv, Next
      PROVE  Deliberate
  <2> USE <1>1 DEF CatalogInv, StepsOfOperation, HolderKnows, Creation
  <2>1. ASSUME NEW r \in Requests, Insert(r)
        PROVE  Deliberate
    BY <2>1 DEF Insert
  <2>2. ASSUME NEW r \in Requests, Unlink(r)
        PROVE  Deliberate
    BY <2>2 DEF Unlink
  <2>3. ASSUME NEW r \in Requests, DeleteRow(r)
        PROVE  Deliberate
    BY <2>3 DEF DeleteRow
  <2>4. ASSUME NEW r \in Requests, Publish(r) \/ Lock(r)
        PROVE  Deliberate
    BY <2>4 DEF Publish, Lock
  <2>5. CASE UNCHANGED <<files, rows>>
    BY <2>5
  <2> QED
    BY <2>1, <2>2, <2>3, <2>4, <2>5
       DEF Next, Work, Arrive, WriteArchive, Lookup, Extracted, Open, Serve,
           Crash, storage
<1>2. ASSUME CatalogInv, [Next]_vars
      PROVE  [Deliberate]_vars
  BY <1>1, <1>2
<1> QED
  BY <1>2, CatalogInvariant, PTL DEF Spec, StoredUntilDeleted

-----------------------------------------------------------------------------
(* BackupCatalog implements BackupStore. *)

(* The life of a backup, as one step may change it. *)
Move(before, after) ==
  \/ after = before
  \/ before = "unborn" /\ after \in {"stored", "gone"}
  \/ before = "stored" /\ after = "gone"

LEMMA StatusType == Status \in [Ids -> {"unborn", "stored", "gone"}]
BY DEF Status

(* A step that moves at most one backup is a step of BackupStore. *)
LEMMA OneMove ==
  ASSUME NEW id \in Ids,
         \A j \in Ids \ {id} : Status'[j] = Status[j],
         Move(Status[id], Status'[id])
  PROVE  Abstract!Next \/ UNCHANGED Status
<1>1. /\ Status = [j \in Ids |-> Status[j]]
      /\ Status' = [j \in Ids |-> Status'[j]]
  BY DEF Status
<1>2. CASE Status'[id] = Status[id]
  BY <1>1, <1>2
<1>3. CASE Status[id] = "unborn" /\ Status'[id] = "stored"
  BY <1>1, <1>3 DEF Abstract!Next, Abstract!Store
<1>4. CASE Status[id] = "unborn" /\ Status'[id] = "gone"
  <2>1. Abstract!Abandon({id})
    BY <1>1, <1>4 DEF Abstract!Abandon
  <2> QED
    BY <2>1 DEF Abstract!Next
<1>5. CASE Status[id] = "stored" /\ Status'[id] = "gone"
  BY <1>1, <1>5 DEF Abstract!Next, Abstract!Delete
<1> QED
  BY <1>2, <1>3, <1>4, <1>5 DEF Move

Makes(r, id) == op[r] = "create" /\ target[r] = id /\ pc[r] \in Creation

(* Only the request that steps can change who is creating what. *)
LEMMA CreatingFrame ==
  ASSUME NEW r \in Requests, NEW id, Makes(r, id)' = Makes(r, id),
         \A q \in Requests \ {r} :
           pc'[q] = pc[q] /\ op'[q] = op[q] /\ target'[q] = target[q]
  PROVE  Creating(id)' = Creating(id)
BY DEF Creating, Makes, Creation

(* Steps that create and remove no backup. *)
LEMMA QuietStep ==
  ASSUME (rows \cap files)' = rows \cap files, UNCHANGED used,
         \A id \in Ids : Creating(id)' = Creating(id)
  PROVE  UNCHANGED Status
BY DEF Status

LEMMA Frame ==
  ASSUME CatalogInv, NEW r \in Requests, Arrive(r) \/ Lock(r) \/ Work(r)
  PROVE  \A q \in Requests \ {r} :
           pc'[q] = pc[q] /\ op'[q] = op[q] /\ target'[q] = target[q]
<1> USE DEF CatalogInv, TypeOK
<1>1. CASE Arrive(r)
  BY <1>1 DEF Arrive, Goto
<1>2. CASE Lock(r)
  BY <1>2 DEF Lock, Goto
<1>3. CASE Work(r)
  BY <1>3 DEF Work, WriteArchive, Publish, Insert, Lookup, Unlink, DeleteRow,
              Extracted, Open, Serve, Goto, Return
<1> QED
  BY <1>1, <1>2, <1>3

LEMMA RequestStep ==
  ASSUME CatalogInv, NEW r \in Requests, Arrive(r) \/ Lock(r) \/ Work(r)
  PROVE  Abstract!Next \/ UNCHANGED Status
<1> DEFINE NotMaking == \A id \in Ids : ~Makes(r, id) /\ ~Makes(r, id)'
<1> USE DEF CatalogInv, TypeOK, StepsOfOperation, HolderKnows
<1>1. CASE NotMaking /\ (rows \cap files)' = rows \cap files /\ UNCHANGED used
  <2>1. \A id \in Ids : Makes(r, id)' = Makes(r, id)
    BY <1>1 DEF Makes
  <2>2. \A id \in Ids : Creating(id)' = Creating(id)
    BY <2>1, Frame, CreatingFrame
  <2> QED
    BY <1>1, <2>2, QuietStep
<1>2. CASE Lock(r) /\ op[r] = "create" /\ mutex' = r
  <2>1. PICK id \in Ids \ used : /\ target' = [target EXCEPT ![r] = id]
                                /\ used' = used \cup {id}
    BY <1>2, ConstantsOK DEF Lock
  <2>2. Makes(r, id)' /\ \A j \in Ids \ {id} : Makes(r, j)' = Makes(r, j)
    BY <1>2, <2>1 DEF Lock, Goto, Makes, Creation
  <2>3. Creating(id)' /\ \A j \in Ids \ {id} : Creating(j)' = Creating(j)
    <3>1. Creating(id)'
      BY <2>2 DEF Creating, Makes, Creation
    <3> QED
      BY <3>1, <2>2, Frame, CreatingFrame
  <2>4. UNCHANGED <<rows, files>>
    BY <1>2 DEF Lock
  <2> QED
    BY <2>1, <2>3, <2>4 DEF Status
<1>3. CASE /\ pc[r] \in Creation /\ pc'[r] \in Creation
           /\ UNCHANGED <<op, target, rows, used>>
           /\ files' \subseteq files \cup {target[r]} /\ files \subseteq files'
  <2>1. \A id \in Ids : Makes(r, id)' = Makes(r, id)
    BY <1>3 DEF Makes
  <2>2. \A id \in Ids : Creating(id)' = Creating(id)
    BY <2>1, Frame, CreatingFrame
  <2> QED
    BY <1>3, <2>2, QuietStep
<1>4. CASE /\ pc[r] \in Creation /\ pc'[r] = "idle"
           /\ UNCHANGED <<op, target, used>>
           /\ rows' \subseteq rows \cup {target[r]} /\ rows \subseteq rows'
           /\ files \ {target[r]} \subseteq files'
           /\ files' \subseteq files \cup {target[r]}
  <2> DEFINE id == target[r]
  <2>1. /\ id \in Ids \cap used /\ id \notin rows /\ Creating(id)
        /\ op[r] = "create"
    BY <1>4 DEF Creating, Creation
  <2>2. ~Makes(r, id)' /\ \A j \in Ids \ {id} : Makes(r, j)' = Makes(r, j)
    BY <1>4 DEF Makes, Creation
  <2>3. \A j \in Ids \ {id} : Creating(j)' = Creating(j)
    BY <2>2, Frame, CreatingFrame
  <2>4. ~Creating(id)'
    <3>1. \A q \in Requests \ {r} : pc[q] \notin Creation
      BY <1>4 DEF MutexHeld, Holds
    <3> QED
      BY <1>4, <3>1, Frame DEF Creating, Creation
  <2>5. \A j \in Ids \ {id} : Status'[j] = Status[j]
    BY <1>4, <2>3 DEF Status
  <2>6. Status[id] = "unborn" /\ Status'[id] \in {"stored", "gone"}
    BY <1>4, <2>1, <2>4 DEF Status
  <2> QED
    BY <2>1, <2>5, <2>6, OneMove DEF Move
<1>5. CASE Unlink(r) /\ pc'[r] = "deleteRow"
  <2>1. NotMaking /\ UNCHANGED <<rows, used>> /\ files' = files \ {target[r]}
    BY <1>5 DEF Unlink, Return, Goto, Makes, Creation
  <2>2. \A id \in Ids : Makes(r, id)' = Makes(r, id)
    BY <2>1 DEF Makes
  <2>3. \A id \in Ids : Creating(id)' = Creating(id)
    BY <2>2, Frame, CreatingFrame
  <2>4. CASE target[r] \notin rows \cap files
    <3>1. (rows \cap files)' = rows \cap files
      BY <2>1, <2>4
    <3> QED
      BY <2>1, <2>3, <3>1, QuietStep
  <2>5. CASE target[r] \in rows \cap files
    <3> DEFINE id == target[r]
    <3>1. id \in Ids
      BY <2>5
    <3>2. ~Creating(id)
      BY <2>5 DEF Creating, Creation
    <3>3. Status[id] = "stored" /\ Status'[id] = "gone"
      BY <2>1, <2>3, <2>5, <3>1, <3>2 DEF Status
    <3>4. \A j \in Ids \ {id} : Status'[j] = Status[j]
      BY <2>1, <2>3 DEF Status
    <3> QED
      BY <3>1, <3>3, <3>4, OneMove DEF Move
  <2> QED
    BY <2>4, <2>5
<1>6. CASE Arrive(r)
  <2>1. NotMaking /\ UNCHANGED <<rows, files, used>>
    BY <1>6 DEF Arrive, Goto, Makes, Creation, storage
  <2> QED
    BY <1>1, <2>1
<1>7. CASE Lock(r) /\ ~(op[r] = "create" /\ mutex' = r)
  <2>1. NotMaking /\ UNCHANGED <<rows, files, used>>
    BY <1>7 DEF Lock, Goto, Makes, Creation
  <2> QED
    BY <1>1, <2>1
<1>8. CASE WriteArchive(r) \/ Publish(r) \/ Insert(r)
  <2>1. CASE WriteArchive(r)
    BY <1>3, <1>4, <2>1 DEF WriteArchive, Goto, Return, Creation, storage
  <2>2. CASE Publish(r)
    BY <1>3, <1>4, <2>2 DEF Publish, Goto, Return, Creation
  <2>3. CASE Insert(r)
    BY <1>4, <2>3 DEF Insert, Goto, Return, Creation
  <2> QED
    BY <1>8, <2>1, <2>2, <2>3
<1>9. CASE \/ Lookup(r) \/ Extracted(r) \/ Open(r) \/ Serve(r)
           \/ Unlink(r) /\ pc'[r] # "deleteRow"
  <2>1. NotMaking /\ UNCHANGED <<rows, files, used>>
    BY <1>9 DEF Lookup, Extracted, Open, Serve, Unlink, Goto, Return, Makes,
                Creation, storage
  <2> QED
    BY <1>1, <2>1
<1>10. CASE DeleteRow(r)
  <2>1. /\ NotMaking /\ UNCHANGED used
        /\ (rows \cap files)' = rows \cap files
    BY <1>10 DEF DeleteRow, Return, Goto, Makes, Creation
  <2> QED
    BY <1>1, <2>1
<1> QED
  BY <1>2, <1>5, <1>6, <1>7, <1>8, <1>9, <1>10 DEF Work

(* A crash abandons every creation in progress at once. *)
LEMMA CrashStep ==
  ASSUME CatalogInv, Crash
  PROVE  Abstract!Next \/ UNCHANGED Status
<1> DEFINE Lost == {id \in Ids : Creating(id)}
<1>1. \A id \in Ids : ~Creating(id)'
  BY DEF Crash, Creating
<1>2. UNCHANGED <<rows, files, used>>
  BY DEF Crash, storage
<1>3. \A id \in Lost : id \in used /\ id \notin rows /\ Status[id] = "unborn"
  BY DEF CatalogInv, StepsOfOperation, HolderKnows, Creating, Creation, Status
<1>4. Status' = [id \in Ids |-> IF id \in Lost THEN "gone" ELSE Status[id]]
  BY <1>1, <1>2, <1>3 DEF Status
<1>5. Abstract!Abandon(Lost)
  BY <1>3, <1>4 DEF Abstract!Abandon
<1> QED
  BY <1>5 DEF Abstract!Next

(* Files and rows, written one after the other under every failure and crash,
   implement BackupStore: a backup appears whole and once, stays until it is
   deleted and never returns. *)
THEOREM ImplementsStore == Spec => StoredOnce
<1>1. Init => Abstract!Init
  BY DEF Init, Abstract!Init, Status
<1>2. CatalogInv /\ [Next]_vars => [Abstract!Next]_Status
  <2> SUFFICES ASSUME CatalogInv, [Next]_vars
               PROVE  Abstract!Next \/ UNCHANGED Status
    OBVIOUS
  <2>1. CASE UNCHANGED vars
    BY <2>1 DEF vars, storage, Status, Creating
  <2>2. CASE Crash
    BY <2>2, CrashStep
  <2>3. ASSUME NEW r \in Requests, Arrive(r) \/ Lock(r) \/ Work(r)
        PROVE  Abstract!Next \/ UNCHANGED Status
    BY <2>3, RequestStep
  <2> QED
    BY <2>1, <2>2, <2>3 DEF Next
<1> QED
  BY <1>1, <1>2, CatalogInvariant, PTL DEF Spec, StoredOnce, Abstract!Spec
=============================================================================
