---------------------------- MODULE MCTransfers -----------------------------
(***************************************************************************)
(* Small instances of Transfers for TLC.  With a chunk of three bytes and a *)
(* header of one, the newline after a description of two bytes begins the  *)
(* viewer's next chunk, and one of three bytes ends inside that chunk; a    *)
(* file may have become one byte longer or shorter than was announced.      *)
(***************************************************************************)
EXTENDS Transfers, TLC

=============================================================================
