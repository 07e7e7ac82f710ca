----------------------------- MODULE BackupStore -----------------------------
(***************************************************************************)
(* What the backup catalogue promises: a backup comes into being whole,    *)
(* once, can be restored and downloaded until it is deleted, and never     *)
(* comes back.  BackupCatalog, with its files and rows written one by one, *)
(* is shown to implement this under every failure and crash.               *)
(***************************************************************************)
CONSTANT Ids
VARIABLE status

Init == status = [id \in Ids |-> "unborn"]

Store(id) ==
  /\ status[id] = "unborn"
  /\ status' = [status EXCEPT ![id] = "stored"]

(* A creation that fails: nobody ever sees the backup. *)
Abandon(ids) ==
  /\ \A id \in ids : status[id] = "unborn"
  /\ status' = [id \in Ids |-> IF id \in ids THEN "gone" ELSE status[id]]

Delete(id) ==
  /\ status[id] = "stored"
  /\ status' = [status EXCEPT ![id] = "gone"]

Next ==
  \/ \E id \in Ids : Store(id) \/ Delete(id)
  \/ \E ids \in SUBSET Ids : Abandon(ids)

Spec == Init /\ [][Next]_status
=============================================================================
