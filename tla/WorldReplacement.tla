-------------------------- MODULE WorldReplacement --------------------------
(***************************************************************************)
(* What replacing the worlds promises: the set of world directories        *)
(* changes in one step, to exactly what a valid archive holds, while the   *)
(* server is down, and the server comes up on it.  A replacement that      *)
(* fails is a step that changes nothing.  WorldSwap, the renames of        *)
(* operations/worlds.go, is shown to implement this.                       *)
(***************************************************************************)
EXTENDS Naturals

CONSTANTS N, Saves, Absent, Fresh

VARIABLES worlds, serving, archive

abstractVars == <<worlds, serving, archive>>

Archives == [1..N -> Saves \cup {Absent}]

Init ==
  /\ worlds \in Archives
  /\ serving \in BOOLEAN
  /\ archive \in Archives

(* A caller supplies an archive. *)
Supply ==
  /\ archive' \in Archives
  /\ UNCHANGED <<worlds, serving>>

(* The worlds become those of the archive, which holds the main world. *)
Replace ==
  /\ ~serving /\ archive[1] # Absent
  /\ worlds' = archive /\ serving' = TRUE
  /\ UNCHANGED archive

StartOrStop ==
  /\ serving' \in BOOLEAN
  /\ UNCHANGED <<worlds, archive>>

(* A running server creates a world it does not find. *)
CreateMissing ==
  /\ serving
  /\ \E d \in 1..N : /\ worlds[d] = Absent
                     /\ worlds' = [worlds EXCEPT ![d] = Fresh]
  /\ UNCHANGED <<serving, archive>>

Next == Supply \/ Replace \/ StartOrStop \/ CreateMissing

Spec == Init /\ [][Next]_abstractVars
=============================================================================
