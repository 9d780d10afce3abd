---------------------------- MODULE MCChipLock ----------------------------
(* Small instances of ChipLock.                                            *)
EXTENDS ChipLock, TLC

ThreadSymmetry == Permutations(Threads)
=============================================================================
