--------------------------- MODULE BackupCatalogMC ---------------------------
(* Instances of BackupCatalog for TLC.                                        *)
EXTENDS BackupCatalog, TLC

DeleteRowOnly == {"deleteRow"}
Symmetric == Permutations(Requests) \cup Permutations(Ids)
=============================================================================
