----------------------------- MODULE MCNftlBlock -----------------------------
(* Small instances of NftlBlock.                                           *)
EXTENDS NftlBlock
=============================================================================
