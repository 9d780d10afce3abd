---------------------------- MODULE PhydevProofs ----------------------------
(***************************************************************************)
(* Proofs about Phydev, for any number of devices and any request length.  *)
(* Phydev takes only steps of ChipLock on the lock's variables, so what    *)
(* ChipLockProofs shows of the lock holds here and carries the rest.       *)
(***************************************************************************)
EXTENDS Phydev, ChipLockProofs

(* A thread with the chip, in its loop or in the block test of a save.     *)
InOperation == {"holding", "nested", "testing"}

(* The loop of an operation runs inside the lock, on its own parameters.   *)
LoopInv ==
  /\ \A t \in Threads :
       step[t] = "loop" =>
         pc[t] \in InOperation /\ (op[t] # "shutdown" => ops_para.by = t)
  /\ step[Platform] # "idle" => op[Platform] = "shutdown"

(* A late operation has begun, and no guarded one can start after it.      *)
LateInv ==
  \A d \in Devs :
    /\ late[d] <= 1
    /\ late[d] = 1 => /\ shut_down[d]
                      /\ ~(step[d] = "start" /\ op[d] \in ShutDownTested)

PhyInv == StateInv /\ PhyTypeOK /\ LoopInv /\ LateInv

-----------------------------------------------------------------------------
(* Every step of Phydev is a step of the lock or leaves the lock alone.    *)
LEMMA PhyStepIsLockStep == [PhyNext]_vars => [LockNext]_lockVars
<1> SUFFICES ASSUME [PhyNext]_vars PROVE [LockNext]_lockVars
  OBVIOUS
<1> USE PhyAssumption
<1>1. CASE UNCHANGED vars
  BY <1>1 DEF vars
<1>2. ASSUME NEW t \in Threads, NEW o, NEW prims, Enter(t, o, prims)
      PROVE  LockNext
  BY <1>2 DEF Enter, LockNext
<1>3. ASSUME NEW d \in Devs, NEW o \in Ops, NEW n, StartOp(d, o, n)
      PROVE  LockNext
  BY <1>2, <1>3 DEF StartOp
<1>4. ASSUME NEW o, StartEnv(o) PROVE LockNext
  BY <1>2, <1>4 DEF StartEnv
<1>5. ASSUME NEW d \in Devs, StartShutdown(d) PROVE LockNext
  BY <1>2, <1>5 DEF StartShutdown
<1>6. ASSUME NEW t \in Threads, Proceed(t) PROVE [LockNext]_lockVars
  <2>1. CASE LockStep(t)
    <3>1. ModeOf(op[t]) \in Modes
      BY DEF ModeOf
    <3> QED
      BY <2>1, <3>1 DEF LockStep, LockNext, GetDevice, GiveBack
  <2>2. CASE Release(t)
    BY <2>2 DEF Release, LockNext, GiveBack
  <2>3. CASE ClearOpsPara(t) \/ Primitive(t) \/ SetShutDown \/ Return(t)
    BY <2>3 DEF ClearOpsPara, Primitive, SetShutDown, Return
  <2>4. CASE BlockTest(t)
    BY <2>4 DEF BlockTest, LockNext
  <2> QED
    BY <1>6, <2>1, <2>2, <2>3, <2>4 DEF Proceed
<1> QED
  BY <1>1, <1>3, <1>4, <1>5, <1>6 DEF PhyNext

LEMMA PhyInvInit == PhyInit => PhyInv
<1> SUFFICES ASSUME PhyInit PROVE PhyInv
  OBVIOUS
<1>1. StateInv
  BY StateInvInit DEF PhyInit
<1> QED
  BY <1>1, PhyAssumption
  DEF PhyInit, PhyInv, PhyTypeOK, LoopInv, LateInv, StateInv

(* Entering an operation: PhyTypeOK, LoopInv and LateInv.                  *)
LEMMA EnterStep ==
  ASSUME PhyInv, StateInv', NEW t \in Threads, NEW o, NEW prims,
         Enter(t, o, prims),
         o \in AllOps \cup {"env_read", "env_write", "shutdown"},
         t = Platform => o = "shutdown",
         t \in Devs /\ shut_down[t] => o \notin ShutDownTested
  PROVE  PhyInv'
<1> USE PhyAssumption DEF PhyInv, PhyTypeOK, StateInv, Enter, CallGetDevice,
        Goto
<1>1. PhyTypeOK'
  OBVIOUS
<1>2. LoopInv'
  BY DEF LoopInv, LockTypeOK
<1>3. LateInv'
  BY DEF LateInv
<1> QED
  BY <1>1, <1>2, <1>3

(* One step per action; the lock's own steps leave holders where they are. *)
LEMMA PhyInvStep == PhyInv /\ [PhyNext]_vars => PhyInv'
<1> SUFFICES ASSUME PhyInv, [PhyNext]_vars PROVE PhyInv'
  OBVIOUS
<1>0. StateInv'
  BY PhyStepIsLockStep, StateInvStep DEF PhyInv
<1> USE PhyAssumption DEF PhyInv
<1>1. CASE UNCHANGED vars
  BY <1>0, <1>1
  DEF vars, lockVars, phyVars, PhyTypeOK, LockTypeOK, LoopInv, LateInv
<1>2. ASSUME NEW d \in Devs, NEW o \in Ops, NEW n \in Lengths(o),
             StartOp(d, o, n)
      PROVE  PhyInv'
  <2>1. o \in AllOps /\ d \in Threads /\ d # Platform
    OBVIOUS
  <2>2. shut_down[d] => o \notin ShutDownTested
    BY <1>2 DEF StartOp, ReturnsAtOnce
  <2> QED
    BY <1>0, <1>2, <2>1, <2>2, EnterStep DEF StartOp
<1>3. ASSUME NEW o \in {"env_read", "env_write"}, StartEnv(o) PROVE PhyInv'
  BY <1>0, <1>3, EnterStep DEF StartEnv
<1>4. ASSUME NEW d \in Devs, StartShutdown(d) PROVE PhyInv'
  BY <1>0, <1>4, EnterStep DEF StartShutdown
<1>5. ASSUME NEW t \in Threads, LockStep(t) PROVE PhyInv'
  <2>1. \A u \in Threads : pc[u] \in InOperation => pc'[u] \in InOperation
    BY <1>5 DEF InOperation, LockStep, TakeState, Sleep, LeaveQueue, NandGetChip,
       NandReleaseChip, UnlockMutex, Goto, StateInv, LockTypeOK
  <2>2. LockTypeOK'
    BY <1>0 DEF StateInv
  <2> QED
    BY <1>0, <1>5, <2>1, <2>2
    DEF LockStep, phyVars, PhyTypeOK, LoopInv, LateInv
<1>6. ASSUME NEW t \in Threads, ClearOpsPara(t) PROVE PhyInv'
  <2>1. \A u \in Threads : step[u] = "loop" => u = t
    BY <1>6 DEF ClearOpsPara, LoopInv, StateInv, OwnsState, InOperation
  <2>2. PhyTypeOK'
    BY <1>6 DEF ClearOpsPara, PhyTypeOK, LockTypeOK, lockVars
  <2>3. LoopInv'
    BY <1>6, <2>1 DEF ClearOpsPara, LoopInv, PhyTypeOK, lockVars, InOperation
  <2>4. LateInv'
    BY <1>6 DEF ClearOpsPara, LateInv, PhyTypeOK
  <2> QED
    BY <1>0, <2>2, <2>3, <2>4
<1>7. ASSUME NEW t \in Threads, Primitive(t) PROVE PhyInv'
  <2>1. PICK r \in Reports(Head(todo[t])) :
          /\ own' = [own EXCEPT ![t] = IF r = "ok" THEN @ ELSE r]
          /\ ops_para' = [by |-> t, ecc_err |-> r = "ecc",
                          bit_flip |-> r = "flip" \/
                            (Head(todo[t]) = "read_page" /\ ops_para.bit_flip)]
    BY <1>7 DEF Primitive
  <2>2. r \in {"ok", "flip", "ecc", "error"}
    BY DEF Reports
  <2>3. own' \in [Threads -> {"ok", "flip", "ecc", "error"}]
    BY <2>1, <2>2 DEF PhyTypeOK
  <2>4. /\ ops_para' \in [by : Threads \cup {NoThread}, ecc_err : BOOLEAN,
                          bit_flip : BOOLEAN]
        /\ ops_para'.by = t
    BY <2>1 DEF PhyTypeOK
  <2>5. PhyTypeOK'
    BY <1>7, <2>3, <2>4 DEF Primitive, PhyTypeOK, LockTypeOK, lockVars
  <2>6. \A u \in Threads : step[u] = "loop" => u = t
    BY <1>7 DEF Primitive, LoopInv, StateInv, OwnsState, InOperation
  <2>7. LoopInv'
    BY <1>7, <2>4, <2>6 DEF Primitive, LoopInv, lockVars
  <2>8. LateInv'
    BY <1>7 DEF Primitive, LateInv
  <2> QED
    BY <1>0, <2>5, <2>7, <2>8
<1>8. CASE SetShutDown
  <2>1. PhyTypeOK'
    BY <1>8 DEF SetShutDown, PhyTypeOK, LockTypeOK, lockVars
  <2>2. op[Platform] = "shutdown"
    BY <1>8 DEF SetShutDown, LoopInv
  <2>3. LoopInv'
    BY <1>8, <2>2 DEF SetShutDown, LoopInv, PhyTypeOK, lockVars,
       InOperation
  <2>4. LateInv'
    BY <1>8 DEF SetShutDown, LateInv, PhyTypeOK
  <2> QED
    BY <1>0, <2>1, <2>3, <2>4
<1>9. ASSUME NEW t \in Threads, Release(t) PROVE PhyInv'
  <2>1. /\ \A u \in Threads \ {t} :
             pc[u] \in InOperation => pc'[u] \in InOperation
        /\ step' = [step EXCEPT ![t] = "return"]
    BY <1>9 DEF InOperation, Release, ReleaseDevice
  <2>2. PhyTypeOK'
    BY <1>0, <1>9, <2>1 DEF Release, PhyTypeOK, StateInv
  <2>3. LoopInv'
    BY <1>9, <2>1 DEF Release, LoopInv, PhyTypeOK
  <2>4. LateInv'
    BY <1>9 DEF Release, LateInv, PhyTypeOK
  <2> QED
    BY <1>0, <2>2, <2>3, <2>4
<1>10. ASSUME NEW t \in Threads, Return(t) PROVE PhyInv'
  <2>1. PhyTypeOK'
    BY <1>10 DEF Return, PhyTypeOK, LockTypeOK, lockVars
  <2>2. LoopInv'
    BY <1>10 DEF Return, LoopInv, PhyTypeOK, lockVars
  <2>3. LateInv'
    BY <1>10 DEF Return, LateInv, PhyTypeOK
  <2> QED
    BY <1>0, <2>1, <2>2, <2>3
<1>11. ASSUME NEW t \in Threads, BlockTest(t) PROVE PhyInv'
  <2>1. \A u \in Threads : pc[u] \in InOperation => pc'[u] \in InOperation
    BY <1>11 DEF InOperation, BlockTest, TestBlockReserved, Goto, StateInv,
       LockTypeOK
  <2>2. LockTypeOK'
    BY <1>0 DEF StateInv
  <2> QED
    BY <1>0, <1>11, <2>1, <2>2
    DEF BlockTest, phyVars, PhyTypeOK, LoopInv, LateInv
<1> QED
  BY <1>1, <1>2, <1>3, <1>4, <1>5, <1>6, <1>7, <1>8, <1>9, <1>10, <1>11
  DEF PhyNext, Proceed

(* Types, for any devices and any bound on requests.                       *)
THEOREM PhyTypeCorrect == PhySpec => []PhyTypeOK
<1>1. PhyInv => PhyTypeOK
  BY DEF PhyInv
<1> QED
  BY PhyInvInit, PhyInvStep, <1>1, PTL DEF PhySpec

(* Only one operation at a time has the chip's parameter block, although   *)
(* it is one global structure: the loop of nand_read, nand_write and the   *)
(* others never runs on another thread's parameters.                       *)
THEOREM ParametersArePrivate == PhySpec => []OpsParaPrivate
<1>1. PhyInv => OpsParaPrivate
  BY DEF PhyInv, LoopInv, OpsParaPrivate
<1> QED
  BY PhyInvInit, PhyInvStep, <1>1, PTL DEF PhySpec

(* At most one guarded operation per device outlives amlnf_shutdown.       *)
THEOREM OneLateOperation == PhySpec => []LateOpBound
<1>1. PhyInv => LateOpBound
  BY DEF PhyInv, LateInv, LateOpBound
<1> QED
  BY PhyInvInit, PhyInvStep, <1>1, PTL DEF PhySpec
=============================================================================
