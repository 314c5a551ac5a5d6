--------------------------- MODULE MCPiInstaller ---------------------------
(* Small instance of PiInstaller: versions and backup names are interchangeable. *)
EXTENDS PiInstaller, TLC

Symmetry == Permutations(Versions) \union Permutations(Backups) \union Permutations(Callers)
=============================================================================
