---------------------------- MODULE MCInfoStore ----------------------------
(* Small instances of InfoStore: bbt and ncnf are FULL_BLK, nenv FULL_PAGE. *)
EXTENDS InfoStore

TwoPages == [i \in Items |-> 2]
EnvOfTwo == [i \in Items |-> IF i = "nenv" THEN 2 ELSE 1]
=============================================================================
