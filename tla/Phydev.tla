------------------------------- MODULE Phydev -------------------------------
(***************************************************************************)
(* The operations of the physical NAND devices (dev/phydev.c), the U-Boot  *)
(* environment device (dev/amlnf_env.c) and the shutdown hook              *)
(* (dev/amlnf_dev.c), all on one chip whose lock is ChipLock.              *)
(*                                                                         *)
(* Every operation has the same frame: argument checks, amlnand_get_device,*)
(* memset of the chip-wide parameter block ops_para, a loop of chip        *)
(* primitives, amlnand_release_device, and a return value.  The loop body  *)
(* is a sequence of primitives here; addresses and buffers are left out.   *)
(*                                                                         *)
(* Thread d stands for all callers of phydev d: they fill the one          *)
(* phydev->ops under the lock of the block layer above, one at a time.     *)
(***************************************************************************)
EXTENDS ChipLock, Naturals, Sequences

CONSTANTS
  Devs,       \* physical devices, and the threads that work for them
  EnvUser,    \* a process reading or writing /dev/nand_env
  Platform,   \* the thread that runs amlnf_shutdown
  Ops,        \* the operations of phydev the callers use
  MaxPages    \* bound: pages in one request

AllOps == {"read", "write", "erase", "block_isbad", "block_markbad",
           "block_modifybbt", "update_bbt", "test_block"}

ASSUME PhyAssumption ==
  /\ Threads = Devs \cup {EnvUser, Platform}
  /\ EnvUser \notin Devs
  /\ Platform \notin Devs \cup {EnvUser}
  /\ Ops \subseteq AllOps
  /\ MaxPages \in Nat
  /\ {"CHIP_READING", "CHIP_WRITING", "CHIP_ERASING", "CHIP_SHUTDOWN"}
       \subseteq Modes

VARIABLES
  op,         \* op[t]: the operation t is in, or none
  step,       \* step[t]: idle, start, loop or return
  todo,       \* todo[t]: primitives of the operation still to be issued
  own,        \* own[t]: what t's own primitives reported
  ops_para,   \* aml_chip->ops_para: who filled it, ecc_err, bit_flip
  shut_down,  \* shut_down[d]: NAND_SHUT_DOWN in phydev->option
  late        \* late[d]: operations of d that got past the NAND_SHUT_DOWN
              \* test and reached the chip after the flag was set

phyVars == <<op, step, todo, own, ops_para, shut_down, late>>
vars == <<lockVars, phyVars>>

PhyInit ==
  /\ LockInit
  /\ op = [t \in Threads |-> "none"]
  /\ step = [t \in Threads |-> "idle"]
  /\ todo = [t \in Threads |-> <<>>]
  /\ own = [t \in Threads |-> "ok"]
  /\ ops_para = [by |-> NoThread, ecc_err |-> FALSE, bit_flip |-> FALSE]
  /\ shut_down = [d \in Devs |-> FALSE]
  /\ late = [d \in Devs |-> 0]

-----------------------------------------------------------------------------
(* The operations that test NAND_SHUT_DOWN before they ask for the chip.   *)
ShutDownTested == {"write", "erase", "block_isbad", "block_markbad",
                   "test_block"}

(* The operations whose length matters.                                    *)
Sized == {"read", "write", "erase"}

(* The new_state each operation passes to amlnand_get_device.              *)
ModeOf(o) == CASE o \in {"write", "env_write"} -> "CHIP_WRITING"
               [] o = "erase" -> "CHIP_ERASING"
               [] o = "shutdown" -> "CHIP_SHUTDOWN"
               [] OTHER -> "CHIP_READING"

(* The chip primitives an operation on n pages (or blocks) issues.         *)
Primitives(o, n) ==
  CASE o = "read"       -> [i \in 1..n |-> "read_page"]
    [] o = "write"      -> [i \in 1..n |-> "write_page"]
    [] o = "erase"      -> [i \in 1..n |-> "erase_block"]
    [] o = "test_block" -> <<"erase_block", "write_page", "read_page",
                             "erase_block">>
    [] o = "env_read"   -> <<"read_info">>
    [] o = "env_write"  -> <<"read_info", "save_info">>
    [] OTHER            -> <<o>>

(* What a primitive may report.  read_page returns success with ecc_err    *)
(* set when the data could not be corrected, or with bit_flip set.         *)
Reports(p) == CASE p = "read_page" -> {"ok", "flip", "ecc", "error"}
                [] p = "read_info" -> {"ok", "ecc", "error"}
                [] OTHER -> {"ok", "error"}

(* Out of space: an error.  Length zero, or the device is shut down:       *)
(* NAND_SUCCESS.  Either way the operation leaves everything as it is.     *)
ReturnsAtOnce(d, o, n) ==
  \/ o \in Sized /\ n \notin 1..MaxPages
  \/ o \in ShutDownTested /\ shut_down[d]

(* The checks passed: t enters amlnand_get_device.                         *)
Enter(t, o, prims) ==
  /\ step[t] = "idle"
  /\ CallGetDevice(t)
  /\ op' = [op EXCEPT ![t] = o]
  /\ step' = [step EXCEPT ![t] = "start"]
  /\ todo' = [todo EXCEPT ![t] = prims]
  /\ UNCHANGED <<own, ops_para, shut_down, late>>

(* Mutant of StartOp: the NAND_SHUT_DOWN test is missing.                  *)
StartOpUntested(d, o, n) ==
  /\ o \in Sized => n \in 1..MaxPages
  /\ Enter(d, o, Primitives(o, n))

(* Lengths worth telling apart.                                            *)
Lengths(o) == IF o \in Sized THEN 0..MaxPages + 1 ELSE {1}

(* A caller of phydev d starts an operation on n pages.                    *)
StartOp(d, o, n) ==
  /\ ~ReturnsAtOnce(d, o, n)
  /\ Enter(d, o, Primitives(o, n))

(* uboot_env_read and uboot_env_write.                                     *)
StartEnv(o) == Enter(EnvUser, o, Primitives(o, 1))

(* amlnf_shutdown goes to the next device of the list.                     *)
StartShutdown(d) ==
  /\ ~shut_down[d]
  /\ Enter(Platform, "shutdown", <<d>>)

(* Acquiring the chip, and giving the mutex and the pins back.             *)
LockStep(t) ==
  /\ \/ TakeState(t, ModeOf(op[t]))
     \/ Sleep(t)
     \/ LeaveQueue(t)
     \/ NandGetChip(t)
     \/ NandReleaseChip(t)
     \/ UnlockMutex(t)
  /\ UNCHANGED phyVars

(* Mutant of ClearOpsPara: memset before amlnand_get_device returned.      *)
ClearOpsParaEarly(t) ==
  /\ pc[t] = "retry"
  /\ step[t] = "start"
  /\ op[t] # "shutdown"
  /\ ops_para' = [by |-> t, ecc_err |-> FALSE, bit_flip |-> FALSE]
  /\ step' = [step EXCEPT ![t] = "loop"]
  /\ UNCHANGED <<lockVars, op, todo, own, shut_down, late>>

(* amlnand_get_device returned: memset(ops_para), then the parameters.     *)
ClearOpsPara(t) ==
  /\ pc[t] = "holding"
  /\ step[t] = "start"
  /\ op[t] # "shutdown"
  /\ ops_para' = [by |-> t, ecc_err |-> FALSE, bit_flip |-> FALSE]
  /\ step' = [step EXCEPT ![t] = "loop"]
  /\ late' = [d \in Devs |->
                IF d = t /\ shut_down[d] /\ op[d] \in ShutDownTested
                THEN late[d] + 1 ELSE late[d]]
  /\ UNCHANGED <<lockVars, op, todo, own, shut_down>>

(* Mutant of Primitive: the loop goes on whatever the length.              *)
PrimitiveForever(t) ==
  /\ pc[t] = "holding"
  /\ step[t] = "loop"
  /\ todo[t] # <<>>
  /\ UNCHANGED vars

(* One primitive of the loop returns.  An error, or an uncorrectable page, ends    *)
(* the loop; amlnand_read_info_by_name reports an uncorrectable page as    *)
(* success.  The save and read of metadata clear ops_para for each page.   *)
Primitive(t) ==
  /\ pc[t] = "holding"
  /\ step[t] = "loop"
  /\ todo[t] # <<>>
  /\ \E r \in Reports(Head(todo[t])) :
       LET p == Head(todo[t]) IN
       /\ own' = [own EXCEPT ![t] = IF r = "ok" THEN @ ELSE r]
       /\ ops_para' = [by |-> t,
                       ecc_err |-> r = "ecc",
                       bit_flip |-> r = "flip" \/
                         (p = "read_page" /\ ops_para.bit_flip)]
       /\ todo' = [todo EXCEPT ![t] =
                     IF r = "error" \/ (r = "ecc" /\ p = "read_page")
                     THEN <<>> ELSE Tail(@)]
  /\ UNCHANGED <<lockVars, op, step, shut_down, late>>

(* The primitives that save metadata, and the operations that call them.   *)
Saving == {"save_info", "block_markbad", "update_bbt"}
SavingOps == {"env_write", "block_markbad", "update_bbt"}

(* A page program or an erase of a save fails, and the save tests the      *)
(* block: ChipLock says where that leads.  (The lack of memory in the test *)
(* is in ChipLock only.)                                                   *)
BlockTest(t) ==
  /\ step[t] = "loop"
  /\ todo[t] # <<>>
  /\ Head(todo[t]) \in Saving
  /\ TestBlockReserved(t)
  /\ UNCHANGED phyVars

(* phy_dev->option |= NAND_SHUT_DOWN, by the thread that has the chip.     *)
SetShutDown ==
  /\ pc[Platform] = "holding"
  /\ step[Platform] = "start"
  /\ shut_down' = [shut_down EXCEPT ![Head(todo[Platform])] = TRUE]
  /\ step' = [step EXCEPT ![Platform] = "loop"]
  /\ todo' = [todo EXCEPT ![Platform] = <<>>]
  /\ UNCHANGED <<lockVars, op, own, ops_para, late>>

(* The loop is over: amlnand_release_device.                               *)
Release(t) ==
  /\ step[t] = "loop"
  /\ todo[t] = <<>>
  /\ ReleaseDevice(t)
  /\ step' = [step EXCEPT ![t] = "return"]
  /\ UNCHANGED <<op, todo, own, ops_para, shut_down, late>>

(* The end of nand_read: the return value when no primitive failed.        *)
VerdictOf(ecc_err, bit_flip) ==
  IF ecc_err THEN "NAND_ECC_FAILURE"
  ELSE IF bit_flip THEN "EUCLEAN"
  ELSE "NAND_SUCCESS"

(* The value the operation of t returns if it returns now: nand_read looks *)
(* at ops_para after amlnand_release_device.                               *)
ReturnValue(t) ==
  IF own[t] = "error" THEN "error"
  ELSE IF op[t] = "read" THEN VerdictOf(ops_para.ecc_err, ops_para.bit_flip)
  ELSE "NAND_SUCCESS"

(* The operation returns to its caller.                                    *)
Return(t) ==
  /\ pc[t] = "out"
  /\ step[t] = "return"
  /\ op' = [op EXCEPT ![t] = "none"]
  /\ own' = [own EXCEPT ![t] = "ok"]
  /\ step' = [step EXCEPT ![t] = "idle"]
  /\ UNCHANGED <<lockVars, todo, ops_para, shut_down, late>>

-----------------------------------------------------------------------------
(* What a thread does on its own once its operation started.               *)
Proceed(t) ==
  \/ LockStep(t)
  \/ ClearOpsPara(t)
  \/ Primitive(t)
  \/ BlockTest(t)
  \/ t = Platform /\ SetShutDown
  \/ Release(t)
  \/ Return(t)

PhyNext ==
  \/ \E d \in Devs, o \in Ops : \E n \in Lengths(o) :
       StartOp(d, o, n)
  \/ \E o \in {"env_read", "env_write"} : StartEnv(o)
  \/ \E d \in Devs : StartShutdown(d)
  \/ \E t \in Threads : Proceed(t)

PhySpec == PhyInit /\ [][PhyNext]_vars

(* As in ChipLock: a started operation goes on, none has to start.         *)
PhyFairSpec == PhySpec /\ \A t \in Threads : WF_vars(Proceed(t))

-----------------------------------------------------------------------------
(* Every variable has its type: whatever its primitives report, an         *)
(* operation is left in one of the outcomes its end distinguishes.         *)
PhyTypeOK ==
  /\ LockTypeOK
  /\ op \in [Threads -> AllOps \cup {"none", "env_read", "env_write",
                                     "shutdown"}]
  /\ step \in [Threads -> {"idle", "start", "loop", "return"}]
  /\ own \in [Threads -> {"ok", "flip", "ecc", "error"}]
  /\ ops_para \in [by : Threads \cup {NoThread}, ecc_err : BOOLEAN,
                   bit_flip : BOOLEAN]
  /\ shut_down \in [Devs -> BOOLEAN]
  /\ late \in [Devs -> Nat]

(* "Get/release chip function ensure only one entry to nand chip": between *)
(* the memset and the release, the parameter block every primitive works   *)
(* on is the one the running operation filled.                             *)
OpsParaPrivate ==
  \A t \in Threads :
    step[t] = "loop" /\ op[t] # "shutdown" => ops_para.by = t

(* After amlnf_shutdown marked a device, at most one of its guarded        *)
(* operations still reaches the chip: the one that had passed the          *)
(* NAND_SHUT_DOWN test and was waiting in amlnand_get_device.              *)
LateOpBound == \A d \in Devs : late[d] <= 1

(* A read reports what its own pages reported: uncorrectable data is never *)
(* returned as good data, nor good data as a failure.                      *)
ReadVerdictOwn ==
  \A d \in Devs :
    op[d] = "read" /\ step[d] = "return" /\ pc[d] = "out" =>
      ReturnValue(d) = IF own[d] = "error" THEN "error"
                       ELSE VerdictOf(own[d] = "ecc", own[d] = "flip")

(* An operation that got the chip state comes to its end, whatever its     *)
(* pages report and whoever else waits.  The one exception is a save of    *)
(* metadata in which a program or an erase fails: it hangs in its own      *)
(* block test (NoSelfWait).  Reads, writes, erases, block tests of the     *)
(* device, look-ups in the table and the shutdown hook always return.      *)
HolderReturns ==
  \A t \in Threads :
    pc[t] = "getchip" ~>
      (step[t] = "idle" \/ (pc[t] = "nested" /\ op[t] \in SavingOps))
=============================================================================
