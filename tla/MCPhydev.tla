------------------------------ MODULE MCPhydev ------------------------------
(* Small instances of Phydev.                                              *)
EXTENDS Phydev

MCThreads == Devs \cup {EnvUser, Platform}
MCModes == {"CHIP_READING", "CHIP_WRITING", "CHIP_ERASING", "CHIP_SHUTDOWN"}

(* Every operation; the two that matter for the races.                     *)
Everything == AllOps
ReadsAndWrites == {"read", "write"}
=============================================================================
