-------------------------- MODULE MCStorageServer --------------------------
(***************************************************************************)
(* Instances of StorageServer.  The upload with a packet without data is   *)
(* left out: there PendingFile may use an object it has deleted.           *)
(***************************************************************************)
EXTENDS StorageServer

CONSTANTS c1, c2, c3, f1, f2

\* The number is MaxLen of StorageConn.
INSTANCE Uploads WITH MaxLen <- 8141

ServerTraffics == {OneUpload(0), OneUpload(4096), OverSameConnections, OverNewConnection}
=============================================================================
