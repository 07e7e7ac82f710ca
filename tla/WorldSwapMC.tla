----------------------------- MODULE WorldSwapMC -----------------------------
(* Instances of WorldSwap for TLC: two world directories are the smallest    *)
(* number for which a loop over worldNames can stop half way; three are the  *)
(* names the code uses.                                                       *)
EXTENDS WorldSwap

(* Everything but a rename that fails while worlds are moved aside. *)
AsideReliable == FaultKinds \ {"aside"}

(* Requests that fail visibly: the container did what the answer said. *)
CleanFailures == {"extract", "stop", "install", "start"}

(* Failures that change no directory behind the handler's back. *)
Truthful == CleanFailures \cup {"stopLost", "restart"}

(* Every failure but that of the last start and the end of the process. *)
Recoverable == FaultKinds \ {"restart", "crash"}

AnyLifecycle == {"start", "stop", "restart"}
None == {}
OperatorStops == {"stop"}
AsideOnly == {"aside"}
=============================================================================
