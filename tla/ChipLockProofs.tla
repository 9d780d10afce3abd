--------------------------- MODULE ChipLockProofs ---------------------------
(***************************************************************************)
(* Proofs about ChipLock, for any number of threads and any chip modes.    *)
(*                                                                         *)
(* StateInv is what the chip state and the wait queue guarantee whatever   *)
(* fails; MutexInv is what the mutex, the flag and the pins guarantee as   *)
(* long as test_block_reserved gets its buffer.                            *)
(***************************************************************************)
EXTENDS ChipLock, TLAPS

(* The thread set the chip state and has not reset it.                     *)
OwnsState(t) == pc[t] \in {"getchip", "holding", "nested", "testing"}

StateInv ==
  /\ LockTypeOK
  /\ \A t, u \in Threads : OwnsState(t) /\ OwnsState(u) => t = u
  /\ \A t \in Threads : OwnsState(t) => chip_state # READY
  /\ \A t \in Threads :
       pc[t] = "asleep" => t \in amlnf_wq /\ chip_state # READY

MutexInv ==
  /\ \A t \in Threads :
       /\ pc[t] \in {"holding", "nested", "release", "unlock"} =>
            spi_nand_mutex = t
       /\ pc[t] \in {"holding", "nested", "release"} => nand_idleflag
       /\ pc[t] \in {"holding", "nested"} => pins = "nand"
       /\ pc[t] # "testing"
  /\ spi_nand_mutex # NoThread =>
       pc[spi_nand_mutex] \in {"getchip", "holding", "nested", "release",
                               "unlock"}

-----------------------------------------------------------------------------
LEMMA StateInvInit == LockInit => StateInv
  BY LockAssumption
  DEF LockInit, StateInv, LockTypeOK, OwnsState, Locations

(* One step per action; the chip state changes hands only from READY, and  *)
(* going back to READY wakes every sleeper.                                *)
LEMMA StateInvStep == StateInv /\ [LockNext]_lockVars => StateInv'
<1> SUFFICES ASSUME StateInv, [LockNext]_lockVars PROVE StateInv'
  OBVIOUS
<1> USE LockAssumption DEF StateInv, LockTypeOK, OwnsState, Locations, Goto
<1>1. CASE UNCHANGED lockVars
  BY <1>1 DEF lockVars
<1>2. ASSUME NEW t \in Threads, CallGetDevice(t) PROVE StateInv'
  BY <1>2 DEF CallGetDevice
<1>3. ASSUME NEW t \in Threads, NEW m \in Modes, TakeState(t, m)
      PROVE  StateInv'
  <2>1. /\ pc' = [pc EXCEPT ![t] = "getchip"]
        /\ chip_state' = m
        /\ \A u \in Threads : ~OwnsState(u) /\ pc[u] # "asleep"
    BY <1>3 DEF TakeState
  <2> QED
    BY <1>3, <2>1 DEF TakeState
<1>4. ASSUME NEW t \in Threads, Sleep(t) PROVE StateInv'
  BY <1>4 DEF Sleep
<1>5. ASSUME NEW t \in Threads, LeaveQueue(t) PROVE StateInv'
  BY <1>5 DEF LeaveQueue
<1>6. ASSUME NEW t \in Threads, NandGetChip(t) PROVE StateInv'
  BY <1>6 DEF NandGetChip
<1>7. ASSUME NEW t \in Threads, NandGetChipFails(t) PROVE StateInv'
  BY <1>7 DEF NandGetChipFails
<1>8. ASSUME NEW t \in Threads, TestBlockReserved(t) PROVE StateInv'
  BY <1>8 DEF TestBlockReserved
<1>9. ASSUME NEW t \in Threads, TestBlockExit(t) PROVE StateInv'
  BY <1>9 DEF TestBlockExit
<1>10. ASSUME NEW t \in Threads, ReleaseDevice(t) PROVE StateInv'
  <2>1. pc' \in [Threads -> Locations]
    BY <1>10 DEF ReleaseDevice
  <2>2. \A u \in Threads : pc'[u] # "asleep" /\ ~OwnsState(u)'
    BY <1>10 DEF ReleaseDevice
  <2> QED
    BY <1>10, <2>1, <2>2 DEF ReleaseDevice
<1>11. ASSUME NEW t \in Threads, NandReleaseChip(t) PROVE StateInv'
  BY <1>11 DEF NandReleaseChip
<1>12. ASSUME NEW t \in Threads, UnlockMutex(t) PROVE StateInv'
  BY <1>12 DEF UnlockMutex
<1> QED
  BY <1>1, <1>2, <1>3, <1>4, <1>5, <1>6, <1>7, <1>8, <1>9, <1>10, <1>11,
     <1>12
  DEF LockNext, GetDevice, GiveBack

(* Types hold in every state, whatever fails.                              *)
THEOREM LockTypeCorrect == LockSpec => []LockTypeOK
<1>1. StateInv => LockTypeOK
  BY DEF StateInv
<1> QED
  BY StateInvInit, StateInvStep, <1>1, PTL DEF LockSpec

(* amlnand_get_device gives the chip to one thread at a time, for any      *)
(* number of threads and whatever the pins, the mutex or memory do.        *)
THEOREM ChipIsExclusive == LockSpec => []MutualExclusion
<1>1. StateInv => MutualExclusion
  BY DEF StateInv, MutualExclusion, OnChip, OwnsState
<1> QED
  BY StateInvInit, StateInvStep, <1>1, PTL DEF LockSpec

(* amlnand_release_device leaves no sleeper behind on a free chip.         *)
THEOREM WakeupsAreKept == LockSpec => []NoLostWakeup
<1>1. StateInv => NoLostWakeup
  BY DEF StateInv, NoLostWakeup
<1> QED
  BY StateInvInit, StateInvStep, <1>1, PTL DEF LockSpec

-----------------------------------------------------------------------------
LEMMA MutexInvInit == LockInit => MutexInv
  BY DEF LockInit, MutexInv

LEMMA MutexInvStep ==
  ASSUME "no_memory" \notin Faults
  PROVE  StateInv /\ MutexInv /\ [LockNext]_lockVars => MutexInv'
<1> SUFFICES ASSUME StateInv, MutexInv, [LockNext]_lockVars PROVE MutexInv'
  OBVIOUS
<1> USE LockAssumption DEF MutexInv, StateInv, LockTypeOK, OwnsState, Goto
<1>1. CASE UNCHANGED lockVars
  BY <1>1 DEF lockVars
<1>2. ASSUME NEW t \in Threads, CallGetDevice(t) PROVE MutexInv'
  BY <1>2 DEF CallGetDevice
<1>3. ASSUME NEW t \in Threads, NEW m \in Modes, TakeState(t, m)
      PROVE  MutexInv'
  BY <1>3 DEF TakeState
<1>4. ASSUME NEW t \in Threads, Sleep(t) PROVE MutexInv'
  BY <1>4 DEF Sleep
<1>5. ASSUME NEW t \in Threads, LeaveQueue(t) PROVE MutexInv'
  BY <1>5 DEF LeaveQueue
<1>6. ASSUME NEW t \in Threads, NandGetChip(t) PROVE MutexInv'
  (* The mutex is free, so t is not nested and nobody is releasing.        *)
  BY <1>6 DEF NandGetChip
<1>7. ASSUME NEW t \in Threads, NandGetChipFails(t) PROVE MutexInv'
  BY <1>7 DEF NandGetChipFails
<1>8. ASSUME NEW t \in Threads, TestBlockReserved(t) PROVE MutexInv'
  BY <1>8 DEF TestBlockReserved
<1>9. ASSUME NEW t \in Threads, TestBlockExit(t) PROVE MutexInv'
  BY <1>9 DEF TestBlockExit
<1>10. ASSUME NEW t \in Threads, ReleaseDevice(t) PROVE MutexInv'
  <2>1. pc'[t] = "release" /\ spi_nand_mutex = t
    BY <1>10 DEF ReleaseDevice
  <2>2. \A u \in Threads \ {t} : pc'[u] = pc[u] \/ pc'[u] = "woken"
    BY <1>10 DEF ReleaseDevice
  <2> QED
    BY <1>10, <2>1, <2>2 DEF ReleaseDevice
<1>11. ASSUME NEW t \in Threads, NandReleaseChip(t) PROVE MutexInv'
  BY <1>11 DEF NandReleaseChip
<1>12. ASSUME NEW t \in Threads, UnlockMutex(t) PROVE MutexInv'
  BY <1>12 DEF UnlockMutex
<1> QED
  BY <1>1, <1>2, <1>3, <1>4, <1>5, <1>6, <1>7, <1>8, <1>9, <1>10, <1>11,
     <1>12
  DEF LockNext, GetDevice, GiveBack

(* The late nand_release_chip of a previous owner never takes the pins     *)
(* from the thread that is on the chip.                                    *)
THEOREM PinsStayWithHolder ==
  ASSUME "no_memory" \notin Faults
  PROVE  LockSpec => []HolderHasPins
<1>1. StateInv /\ MutexInv => HolderHasPins
  BY DEF StateInv, MutexInv, OwnsState, HolderHasPins, OnChip
<1> QED
  BY StateInvInit, StateInvStep, MutexInvInit, MutexInvStep, <1>1, PTL
  DEF LockSpec

(* Nobody leaves the chip with spi_nand_mutex locked.                      *)
THEOREM MutexIsGivenBack ==
  ASSUME "no_memory" \notin Faults
  PROVE  LockSpec => []NoMutexLeak
<1>1. StateInv /\ MutexInv => NoMutexLeak
  BY DEF MutexInv, NoMutexLeak
<1> QED
  BY StateInvInit, StateInvStep, MutexInvInit, MutexInvStep, <1>1, PTL
  DEF LockSpec

=============================================================================
