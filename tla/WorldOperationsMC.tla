-------------------------- MODULE WorldOperationsMC --------------------------
(* Instances of WorldOperations for TLC: two requests overlap, a third is     *)
(* there to be overtaken.                                                     *)
EXTENDS WorldOperations, TLC

(* Everything that fails without leaving the server in another save mode     *)
(* than its answer says.                                                      *)
Visible == {"inspect", "rcon", "flushLost", "archive", "docker", "stopLost", "startLost"}

Symmetric == Permutations(Requests)
None == {}
AnyLifecycle == {"start", "stop", "restart"}
SaveOffLostOnly == {"saveOffLost"}
OperatorStarts == {"start"}
=============================================================================
