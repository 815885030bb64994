--------------------------- MODULE MCTransferConn ---------------------------
(***************************************************************************)
(* An instance of TransferConn with a header of three bytes and a block of  *)
(* eight: one client sends the name, two packets of data and the end of a   *)
(* file, the other one packet of data less.  The network splits a stream in  *)
(* a header, between it and its payload, or in a payload; what is taken for  *)
(* a header has no payload, a short one, or one that the buffer has no room  *)
(* for.                                                                    *)
(***************************************************************************)
EXTENDS TransferConn, TLC

CONSTANTS c1, c2

MCPayloads == (c1 :> <<1, 5, 2, 0>> @@ c2 :> <<1, 5, 0>>)
=============================================================================
