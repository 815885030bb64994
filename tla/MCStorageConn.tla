--------------------------- MODULE MCStorageConn ---------------------------
(***************************************************************************)
(* Instances of StorageConn: one upload or two over two or three           *)
(* connections.                                                            *)
(***************************************************************************)
EXTENDS StorageConn

CONSTANTS c1, c2, c3, f1, f2

INSTANCE Uploads

MCTraffics == {OneUpload(0), OneUpload(4096), FullPacket,
               OverSameConnections, OverNewConnection}

ASSUME UploadsAssumption == UploadsWhole
=============================================================================
