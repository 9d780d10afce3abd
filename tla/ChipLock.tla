------------------------------ MODULE ChipLock ------------------------------
(***************************************************************************)
(* Exclusive access to the NAND chip (dev/amlnf_ctrl.c).                   *)
(*                                                                         *)
(* Two locks are layered.  amlnand_get_device takes the logical one: the   *)
(* chip state leaves CHIP_READY, under the spinlock amlnf_lock, and a      *)
(* thread that finds the chip taken sleeps on amlnf_wq.  nand_get_chip     *)
(* then takes the physical one, spi_nand_mutex, and switches the pins to   *)
(* the NAND.  amlnand_release_device gives them back in the same order, so *)
(* a second thread can already own the chip state while the first still    *)
(* has the pins.                                                           *)
(*                                                                         *)
(* One step of the model is one critical section of amlnf_lock or one      *)
(* operation on the mutex or the pins.                                     *)
(***************************************************************************)

CONSTANTS
  Threads,            \* callers: block-device workers, FTL threads, env users
  Modes,              \* values of the new_state argument: CHIP_READING, CHIP_WRITING...
  READY,              \* CHIP_READY
  NoThread,           \* spi_nand_mutex is free
  Faults              \* what may go wrong, a subset of LockFaults

(* pinctrl     pinctrl_select_state may return an error                    *)
(* test_block  a page program fails while a holder saves metadata, and     *)
(*             test_block_reserved runs                                    *)
(* no_memory   the buffer test_block_reserved asks for cannot be had       *)
LockFaults == {"pinctrl", "test_block", "no_memory"}

ASSUME LockAssumption ==
  /\ READY \notin Modes
  /\ NoThread \notin Threads
  /\ Faults \subseteq LockFaults

VARIABLES
  chip_state,      \* aml_chip->state
  amlnf_wq,        \* threads on the wait queue
  spi_nand_mutex,  \* owner of the mutex, or NoThread
  nand_idleflag,   \* the flag nand_release_chip tests
  pins,            \* pin multiplexing: "nand" or "idle"
  pc               \* where each thread is

lockVars == <<chip_state, amlnf_wq, spi_nand_mutex, nand_idleflag, pins, pc>>

(* pc values: out      not using the chip                                  *)
(*            retry    in amlnand_get_device, about to take amlnf_lock     *)
(*            asleep   on amlnf_wq, in schedule()                          *)
(*            woken    made runnable by wake_up, still on amlnf_wq         *)
(*            getchip  owns the chip state, in nand_get_chip               *)
(*            holding  may touch the chip                                  *)
(*            nested   holding, and in nand_get_chip a second time         *)
(*            testing  holding, and in test_block_reserved after that call *)
(*            release  gave the chip state back, in nand_release_chip      *)
(*            unlock   pins given back, about to unlock the mutex          *)
Locations == {"out", "retry", "asleep", "woken", "getchip", "holding",
              "nested", "testing", "release", "unlock"}

Goto(t, l) == pc' = [pc EXCEPT ![t] = l]

LockInit ==
  /\ chip_state = READY
  /\ amlnf_wq = {}
  /\ spi_nand_mutex = NoThread
  /\ nand_idleflag = FALSE
  /\ pins = "idle"
  /\ pc = [t \in Threads |-> "out"]

-----------------------------------------------------------------------------
(* A thread calls amlnand_get_device(aml_chip, new_state).                 *)
CallGetDevice(t) ==
  /\ pc[t] = "out"
  /\ Goto(t, "retry")
  /\ UNCHANGED <<chip_state, amlnf_wq, spi_nand_mutex, nand_idleflag, pins>>

(* The chip is free: take its state, leave amlnf_lock, go for the mutex.   *)
TakeState(t, new_state) ==
  /\ pc[t] = "retry"
  /\ chip_state = READY
  /\ chip_state' = new_state
  /\ Goto(t, "getchip")
  /\ UNCHANGED <<amlnf_wq, spi_nand_mutex, nand_idleflag, pins>>

(* Mutant of Sleep: the chip state was tested before amlnf_lock was taken. *)
SleepOnStaleState(t) ==
  /\ pc[t] = "retry"
  /\ amlnf_wq' = amlnf_wq \cup {t}
  /\ Goto(t, "asleep")
  /\ UNCHANGED <<chip_state, spi_nand_mutex, nand_idleflag, pins>>

(* The chip is taken: queue and mark asleep before amlnf_lock is dropped.  *)
Sleep(t) ==
  /\ pc[t] = "retry"
  /\ chip_state # READY
  /\ amlnf_wq' = amlnf_wq \cup {t}
  /\ Goto(t, "asleep")
  /\ UNCHANGED <<chip_state, spi_nand_mutex, nand_idleflag, pins>>

(* Mutant of LeaveQueue: no goto retry, the woken thread just returns.     *)
LeaveQueueNoRetry(t) ==
  /\ pc[t] = "woken"
  /\ amlnf_wq' = amlnf_wq \ {t}
  /\ Goto(t, "holding")
  /\ UNCHANGED <<chip_state, spi_nand_mutex, nand_idleflag, pins>>

(* schedule() returned: leave the wait queue and start over.               *)
LeaveQueue(t) ==
  /\ pc[t] = "woken"
  /\ amlnf_wq' = amlnf_wq \ {t}
  /\ Goto(t, "retry")
  /\ UNCHANGED <<chip_state, spi_nand_mutex, nand_idleflag, pins>>

(* Mutant of NandGetChip: the mutex is not taken.                          *)
NandGetChipNoMutex(t) ==
  /\ pc[t] \in {"getchip", "nested"}
  /\ nand_idleflag' = TRUE
  /\ pins' = "nand"
  /\ Goto(t, IF pc[t] = "nested" THEN "testing" ELSE "holding")
  /\ UNCHANGED <<chip_state, amlnf_wq, spi_nand_mutex>>

(* Mutant of NandGetChip: nand_idleflag is not set.                        *)
NandGetChipNoFlag(t) ==
  /\ pc[t] \in {"getchip", "nested"}
  /\ spi_nand_mutex = NoThread
  /\ spi_nand_mutex' = t
  /\ pins' = "nand"
  /\ Goto(t, IF pc[t] = "nested" THEN "testing" ELSE "holding")
  /\ UNCHANGED <<chip_state, amlnf_wq, nand_idleflag>>

(* nand_get_chip, the pins were switched: the loop ends.                   *)
NandGetChip(t) ==
  /\ pc[t] \in {"getchip", "nested"}
  /\ spi_nand_mutex = NoThread
  /\ spi_nand_mutex' = t
  /\ nand_idleflag' = TRUE
  /\ pins' = "nand"
  /\ Goto(t, IF pc[t] = "nested" THEN "testing" ELSE "holding")
  /\ UNCHANGED <<chip_state, amlnf_wq>>

(* nand_get_chip, the pins were not switched: the loop goes round again    *)
(* and locks the mutex it has not released.                                *)
NandGetChipFails(t) ==
  /\ "pinctrl" \in Faults
  /\ pc[t] \in {"getchip", "nested"}
  /\ spi_nand_mutex = NoThread
  /\ spi_nand_mutex' = t
  /\ nand_idleflag' = TRUE
  /\ UNCHANGED <<chip_state, amlnf_wq, pins, pc>>

(* A holder saves metadata, a page program fails, and test_block_reserved  *)
(* calls nand_get_chip although its caller has the chip.                   *)
TestBlockReserved(t) ==
  /\ "test_block" \in Faults
  /\ pc[t] = "holding"
  /\ Goto(t, "nested")
  /\ UNCHANGED <<chip_state, amlnf_wq, spi_nand_mutex, nand_idleflag, pins>>

(* The exit label of test_block_reserved: nand_release_chip.  It is        *)
(* reached without nand_get_chip when the buffer could not be allocated.   *)
TestBlockExit(t) ==
  /\ "test_block" \in Faults
  /\ \/ pc[t] = "testing"
     \/ pc[t] = "holding" /\ "no_memory" \in Faults
  /\ pins' = IF nand_idleflag THEN "idle" ELSE pins
  /\ spi_nand_mutex' = IF nand_idleflag THEN NoThread ELSE spi_nand_mutex
  /\ nand_idleflag' = FALSE
  /\ Goto(t, "holding")
  /\ UNCHANGED <<chip_state, amlnf_wq>>

(* Mutant of ReleaseDevice: wake_up is forgotten.                          *)
ReleaseDeviceNoWakeUp(t) ==
  /\ pc[t] = "holding"
  /\ chip_state' = READY
  /\ Goto(t, "release")
  /\ UNCHANGED <<amlnf_wq, spi_nand_mutex, nand_idleflag, pins>>

(* amlnand_release_device, the part under amlnf_lock: CHIP_READY, and      *)
(* wake_up makes every sleeper of the queue runnable.                      *)
ReleaseDevice(t) ==
  /\ pc[t] = "holding"
  /\ chip_state' = READY
  /\ pc' = [u \in Threads |->
              IF u = t THEN "release"
              ELSE IF u \in amlnf_wq /\ pc[u] = "asleep" THEN "woken"
              ELSE pc[u]]
  /\ UNCHANGED <<amlnf_wq, spi_nand_mutex, nand_idleflag, pins>>

(* nand_release_chip: nothing at all happens when nand_idleflag is clear.  *)
(* An error from pinctrl_select_state is only reported.                    *)
NandReleaseChip(t) ==
  /\ pc[t] = "release"
  /\ pins' \in IF nand_idleflag
               THEN {"idle"} \cup {p \in {pins} : "pinctrl" \in Faults}
               ELSE {pins}
  /\ nand_idleflag' = FALSE
  /\ Goto(t, IF nand_idleflag THEN "unlock" ELSE "out")
  /\ UNCHANGED <<chip_state, amlnf_wq, spi_nand_mutex>>

(* The end of nand_release_chip.                                           *)
UnlockMutex(t) ==
  /\ pc[t] = "unlock"
  /\ spi_nand_mutex' = NoThread
  /\ Goto(t, "out")
  /\ UNCHANGED <<chip_state, amlnf_wq, nand_idleflag, pins>>

-----------------------------------------------------------------------------
(* What a thread does on its own once it asked for the chip.               *)
GetDevice(t) ==
  \/ \E new_state \in Modes : TakeState(t, new_state)
  \/ Sleep(t)
  \/ LeaveQueue(t)
  \/ NandGetChip(t)

GiveBack(t) ==
  \/ ReleaseDevice(t)
  \/ NandReleaseChip(t)
  \/ UnlockMutex(t)

LockNext ==
  \E t \in Threads :
    \/ CallGetDevice(t)
    \/ GetDevice(t)
    \/ NandGetChipFails(t)
    \/ TestBlockReserved(t)
    \/ TestBlockExit(t)
    \/ GiveBack(t)

LockSpec == LockInit /\ [][LockNext]_lockVars

(* The scheduler runs a runnable thread, a mutex waiter gets a free mutex, *)
(* and a chip operation ends: quene_rb and the DMA waits all time out.     *)
(* Nothing says that a thread ever asks for the chip.                      *)
LockFairness ==
  \A t \in Threads : WF_lockVars(GetDevice(t)) /\ WF_lockVars(GiveBack(t))

LockFairSpec == LockSpec /\ LockFairness

-----------------------------------------------------------------------------
(* Every variable of the lock has its type: aml_chip->state is a chip      *)
(* state and every waiter is a thread.                                     *)
LockTypeOK ==
  /\ chip_state \in Modes \cup {READY}
  /\ amlnf_wq \subseteq Threads
  /\ spi_nand_mutex \in Threads \cup {NoThread}
  /\ nand_idleflag \in BOOLEAN
  /\ pins \in {"nand", "idle"}
  /\ pc \in [Threads -> Locations]

(* The thread may be issuing commands to the chip.                         *)
OnChip(t) == pc[t] \in {"holding", "nested", "testing"}

(* amlnand_get_device promises exclusive access ("Get the device and lock  *)
(* it for exclusive access"): two threads are never on the chip together,  *)
(* although the chip state is free again before the mutex is.              *)
MutualExclusion ==
  \A t, u \in Threads : OnChip(t) /\ OnChip(u) => t = u

(* While a thread is on the chip the pins stay switched to the NAND: the   *)
(* nand_release_chip of the previous owner, which runs after the chip      *)
(* state was handed over, cannot switch them away.                         *)
HolderHasPins ==
  \A t \in Threads : OnChip(t) => pins = "nand" /\ chip_state # READY

(* No wake-up is lost: a free chip leaves nobody asleep on amlnf_wq, since *)
(* queueing and wake_up both happen under amlnf_lock.                      *)
NoLostWakeup ==
  chip_state = READY => \A t \in Threads : pc[t] # "asleep"

(* The mutex is owned by a thread that is still going to unlock it, never  *)
(* by one that left: nand_idleflag is set whenever nand_release_chip       *)
(* tests it.                                                               *)
NoMutexLeak ==
  spi_nand_mutex # NoThread =>
    pc[spi_nand_mutex] \in {"getchip", "holding", "nested", "testing",
                           "release", "unlock"}

(* No thread waits for the mutex it owns: a block test in the middle of a  *)
(* save comes back to the save ("test block 3 times", chipenv.c).          *)
NoSelfWait ==
  \A t \in Threads : pc[t] \in {"getchip", "nested"} => spi_nand_mutex # t

(* Whoever owns the chip state is served: the wait in nand_get_chip for    *)
(* the previous owner's unlock ends.                                       *)
StateOwnerServed ==
  \A t \in Threads : pc[t] = "getchip" ~> pc[t] = "holding"

(* The chip never stands still while threads want it: somebody gets it,    *)
(* unless its holder hangs in its own block test.  (Not every waiter does: *)
(* wake_up wakes all and the chip state goes to the first to come, a       *)
(* newcomer included.)                                                     *)
SomeoneServed ==
  (\E t \in Threads : pc[t] \in {"retry", "asleep", "woken"})
    ~> (\E t \in Threads : pc[t] \in {"holding", "nested"})
=============================================================================
