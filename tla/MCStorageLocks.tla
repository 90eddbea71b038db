--------------------------- MODULE MCStorageLocks ---------------------------
(* Instances of the storage manager's locks for TLC.                       *)
EXTENDS StorageLocks
=============================================================================
