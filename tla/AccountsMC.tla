----------------------------- MODULE AccountsMC -----------------------------
(* Instances of Accounts for TLC. *)
EXTENDS Accounts, TLC

Symmetric == Permutations(Users) \cup Permutations(Tokens) \cup Permutations(Requests)
=============================================================================
