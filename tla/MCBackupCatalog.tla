--------------------------- MODULE MCBackupCatalog ---------------------------
(***************************************************************************)
(* Two workers; what the database holds and who works on it is symmetric.  *)
(***************************************************************************)
EXTENDS BackupCatalog, TLC

Symmetry == Permutations(Workers) \union Permutations(Snapshots)
=============================================================================
