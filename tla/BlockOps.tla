------------------------------- MODULE BlockOps -------------------------------
(***************************************************************************)
(* Writes, erases and bad block marks from the FTL (through the ntd device *)
(* and the phydev) down to the chips: write_page, erase_block, block_isbad *)
(* and block_markbad of phy/chip_operation.c, with the table of bad blocks *)
(* they use and change, its copy on flash, and restarts.  At the start     *)
(* repair_reserved_bad_block (phy/chipenv.c) tests blocks of the metadata  *)
(* area again, then the devices are laid out (Layout).                     *)
(*                                                                         *)
(* One operation has the chip at a time (ChipLock), so an operation is a   *)
(* sequence of steps that only a restart cuts short.                       *)
(***************************************************************************)
EXTENDS Layout

CONSTANTS
  Tables,       \* block tables on flash before the first start
  Guards,       \* values of the parameters readonly, allow_markbad, allow_meta
  MetaBlocks,   \* numbers of reserved blocks that hold metadata
  RepairLimit,  \* marked reserved blocks that start a repair, less one
  MaxTry,       \* NAND_STATUS_MAX_TRY
  MaxFail,      \* bound: blocks that fail to erase in one save of the table
  MaxOps,       \* bound: operations and parameter changes
  MaxBoots      \* bound: restarts

ASSUME BlockAssumption ==
  /\ Guards \subseteq [readonly : BOOLEAN, allow_markbad : BOOLEAN,
                       allow_meta : BOOLEAN]
  /\ MetaBlocks \subseteq Nat
  /\ {RepairLimit, MaxTry, MaxFail, MaxOps, MaxBoots} \subseteq Nat

VARIABLES
  saved,   \* the table of bad blocks as it is on flash
  guard,   \* the module parameters
  todo,    \* reserved blocks still to be tested by the repair
  job,     \* the operation that has the chip
  result,  \* how the last operation ended, until the next one starts
  last,    \* blocks the last command to a chip erased or programmed
  marked,  \* units the FTL had marked, and whether the mark is on flash
  first,   \* the devices of the first start
  ops, boots

opVars == <<saved, guard, todo, job, result, last, marked, first>>
counters == <<ops, boots>>
vars == <<layoutVars, opVars, counters>>

NoJob == [op |-> "none"]
NoResult == [op |-> "none", ret |-> "ok", wrong |-> FALSE, sent |-> <<>>]

(* A table gives the addresses that are bad; all others are good.          *)
TableOf(t) ==
  [a \in Addresses |-> IF a \in t.factory THEN "factory_bad"
                       ELSE IF a \in t.used THEN "used_bad" ELSE "good"]

UsedReserved ==
  {n \in BootBlks..LastReserve - 1 : GetBlockStatus(ReservedAddr(n)) = "used_bad"}

BlockInit ==
  /\ chip_num \in ChipNums
  /\ config \in Configs
  /\ \E t \in Tables : blk_status = TableOf(t)
  /\ saved = blk_status
  /\ guard \in Guards
  /\ phase = "repair"
  /\ todo = IF Cardinality(UsedReserved) > RepairLimit THEN UsedReserved ELSE {}
  /\ devs = <<BootDevice>>
  /\ job = NoJob
  /\ result = NoResult
  /\ last = {}
  /\ marked = {}
  /\ first = <<>>
  /\ ops = 0
  /\ boots = 0

-----------------------------------------------------------------------------
(* The blocks the metadata store moves the table among.                    *)
StoreBlocks ==
  {ReservedAddr(n) : n \in {m \in (BootBlks..LastReserve - 1) \ MetaBlocks :
                              GetBlockStatus(ReservedAddr(m)) # "factory_bad"}}

(* Free blocks that amlnand_get_free_block fails to erase and has marked;  *)
(* with readonly these are all of them, but the one of the table itself.   *)
EraseFails ==
  IF ~guard.allow_markbad THEN {{}}
  ELSE IF guard.readonly THEN {StoreBlocks \ {b} : b \in StoreBlocks}
  ELSE {e \in SUBSET StoreBlocks : Cardinality(e) <= MaxFail}

(* amlnand_update_bbt: the table goes to flash, if that is allowed and the *)
(* save does not fail.  No caller looks at the result.                     *)
UpdateBbt(table) ==
  \/ /\ ~guard.allow_meta
     /\ blk_status' = table
     /\ UNCHANGED saved
  \/ /\ guard.allow_meta
     /\ \E e \in EraseFails :
          blk_status' = [a \in Addresses |->
                           IF a \in e THEN "used_bad" ELSE table[a]]
     /\ \/ UNCHANGED saved
        \/ ~guard.readonly /\ saved' = blk_status'

(* blk_modify_bbt_chip_op for a single block.                              *)
ModifyBbt(a, value) ==
  IF guard.allow_markbad THEN [blk_status EXCEPT ![a] = value] ELSE blk_status

(* repair_reserved_bad_block for one marked block, up to the step that     *)
(* fails.  page_addr goes up before each access, so that the pages used    *)
(* are the second one to the first one of the next block.                  *)
RepairBlock ==
  /\ phase = "repair"
  /\ todo # {}
  /\ LET a == ReservedAddr(Min(todo))
         next == <<a[1], a[2] + 1>>
         After(table) == IF Cardinality(todo) = 1 THEN UpdateBbt(table)
                         ELSE blk_status' = table /\ UNCHANGED saved
     IN /\ todo' = todo \ {Min(todo)}
        /\ \/ After(blk_status) /\ UNCHANGED last      \* the erase fails
           \/ /\ ~guard.readonly                       \* a later step fails
              /\ last' \in {{a}, {a, next}}
              /\ After(blk_status)
           \/ /\ ~guard.readonly                       \* the block is good
              /\ last' = {a, next}
              /\ After(ModifyBbt(a, "good"))
  /\ UNCHANGED <<chip_num, config, devs, phase, guard, job, result, marked,
                 first, counters>>

RepairDone ==
  /\ phase = "repair"
  /\ todo = {}
  /\ phase' = "layout"
  /\ UNCHANGED <<chip_num, config, blk_status, devs, opVars, counters>>

(* amlnand_phydev_init; the devices of the first start are kept.           *)
Lay ==
  /\ AddDevice
  /\ first' = IF phase' = "up" /\ first = <<>> THEN devs' ELSE first
  /\ UNCHANGED <<saved, guard, todo, job, result, last, marked, counters>>

-----------------------------------------------------------------------------
(* The FTL (external) works on units that nand_is_blk_good calls good.     *)
GoodUnit(d, u) == BlockIsbad(UnitBlocks(Row(d, u))) = "good"

Job(op, d, u, blocks, planes) ==
  [op |-> op, dev |-> d, unit |-> u, blocks |-> blocks, planes |-> planes,
   at |-> "command", k |-> 0, st_cnt |-> 0, wrong |-> FALSE, sent |-> <<>>]

Refused(op) == result' = [NoResult EXCEPT !.op = op, !.ret = "error"]

MayStart == phase = "up" /\ job = NoJob /\ ops < MaxOps

Target(d, u) == UnitBlocks(Row(d, u))

(* nand_write_page, nand_erase_superblk to write_page and erase_block.     *)
(* The test of NAND_SHUT_DOWN, which makes an operation of a device that   *)
(* was shut down a success without an access, comes before all this: it is *)
(* ReturnsAtOnce of Phydev, and here no device has been shut down.         *)
Access(op, d, u) ==
  /\ MayStart
  /\ GoodUnit(d, u)
  /\ ops' = ops + 1
  /\ IF guard.readonly
     THEN Refused(op) /\ UNCHANGED job
     ELSE job' = Job(op, d, u, Target(d, u), PlaneNum) /\ result' = NoResult
  /\ last' = {}
  /\ UNCHANGED <<layoutVars, saved, guard, todo, marked, first, boots>>

(* What is marked: every block of the unit.                                *)
(* Mutant of Marks: the blocks of the row's number, not shifted.           *)
MarksUnshifted(blocks) ==
  [a \in Addresses |-> IF \E k \in DOMAIN blocks :
                            a = <<blocks[k][1], blocks[k][2] \div PlaneNum>>
                       THEN "used_bad" ELSE blk_status[a]]

Marks(blocks) ==
  [a \in Addresses |-> IF a \in SetOf(blocks) THEN "used_bad" ELSE blk_status[a]]

Noted(d, u, kept) ==
  IF d = 0 THEN {} ELSE {[dev |-> d, unit |-> u, kept |-> kept]}

(* Where the mark is programmed: amlnand_update_bbt leaves in ops_para the *)
(* address of the last block the store used, unless it was refused.        *)
MarkJobs(d, u, blocks, planes) ==
  IF guard.allow_meta THEN {Job("mark", d, u, <<b>>, 1) : b \in StoreBlocks}
                      ELSE {Job("mark", d, u, blocks, planes)}

(* block_markbad.  number is the block whose status decides whether there  *)
(* is something to do; it is taken before the shift to the plane pair.     *)
Markbad(d, u, number, blocks, planes) ==
  /\ ops' = ops + 1
  /\ IF ~guard.allow_markbad
     THEN Refused("mark") /\ UNCHANGED <<blk_status, saved, marked, job>>
     ELSE IF GetBlockStatus(number) # "good"
     THEN /\ result' = [NoResult EXCEPT !.op = "mark"]
          /\ marked' = marked \union Noted(d, u, FALSE)
          /\ UNCHANGED <<blk_status, saved, job>>
     ELSE /\ UpdateBbt(Marks(blocks))
          /\ marked' = marked \union Noted(d, u, saved' = blk_status')
          /\ IF guard.readonly
             THEN Refused("mark") /\ UNCHANGED job
             ELSE job' \in MarkJobs(d, u, blocks, planes) /\ result' = NoResult
  /\ last' = {}
  /\ UNCHANGED <<chip_num, config, devs, phase, guard, todo, first, boots>>

(* nand_mark_bad_blk, part_block_markbad, nand_block_markbad.              *)
MarkUnit(d, u) ==
  /\ MayStart
  /\ GoodUnit(d, u)
  /\ Markbad(d, u, <<0, Row(d, u)>>, Target(d, u), PlaneNum)

(* A save marks a block that failed to program, or its old block that      *)
(* failed to erase.                                                        *)
MarkReserved(n) ==
  /\ MayStart
  /\ guard.allow_meta
  /\ n \in BootBlks..LastReserve - 1
  /\ GetBlockStatus(ReservedAddr(n)) # "factory_bad"
  /\ Markbad(0, n, ReservedAddr(n), <<ReservedAddr(n)>>, 1)

-----------------------------------------------------------------------------
(* The loops of write_page and erase_block, a chip at a time.              *)
JobChips == Len(job.blocks) \div job.planes

Return(ret, wrong) ==
  /\ result' = [op |-> job.op, ret |-> ret, wrong |-> wrong, sent |-> job.sent]
  /\ job' = NoJob

jobSame == <<layoutVars, saved, guard, todo, marked, first, counters>>

(* The first loop: the pages of all planes are loaded, then the chip is    *)
(* told to program or to erase them.                                       *)
SendCommand ==
  /\ job # NoJob
  /\ job.at = "command"
  /\ LET planes == [p \in 1..job.planes |-> job.blocks[job.k * job.planes + p]]
         done == job.k + 1 = JobChips
     IN /\ last' = SetOf(planes)
        /\ job' = [job EXCEPT !.sent = @ \o planes,
                              !.k = IF done THEN 0 ELSE @ + 1,
                              !.at = IF done THEN "status" ELSE "command"]
  /\ UNCHANGED <<jobSame, result>>

(* A wait for the chip, or the transfer of a page, fails.                  *)
ChipBusy ==
  /\ job # NoJob
  /\ Return("error", FALSE)
  /\ UNCHANGED <<jobSame, last>>

(* On to the next chip, or to the end; wrong: a chip reported a failure.   *)
NextChip(wrong) ==
  IF job.k + 1 = JobChips
  THEN Return("ok", wrong)
  ELSE /\ job' = [job EXCEPT !.k = @ + 1, !.st_cnt = 0, !.wrong = wrong]
       /\ UNCHANGED result

(* The second loop: the status of each chip.                               *)
StatusRight ==
  /\ job # NoJob
  /\ job.at = "status"
  /\ NextChip(job.wrong)
  /\ UNCHANGED <<jobSame, last>>

(* NAND_STATUS_FAILED, the one value with a fail bit that ends the loop.   *)
StatusFailed ==
  /\ job # NoJob
  /\ job.at = "status"
  /\ Return("error", TRUE)
  /\ UNCHANGED <<jobSame, last>>

(* Any other value is read again; after the last try it passes, whether or *)
(* not one of its fail bits is set.                                        *)
StatusOdd ==
  /\ job # NoJob
  /\ job.at = "status"
  /\ IF job.st_cnt < MaxTry
     THEN job' = [job EXCEPT !.st_cnt = @ + 1] /\ UNCHANGED result
     ELSE \E fail_bit \in BOOLEAN : NextChip(job.wrong \/ fail_bit)
  /\ UNCHANGED <<jobSame, last>>

-----------------------------------------------------------------------------
(* The parameters can be written while the driver runs.                    *)
SetParameters ==
  /\ ops < MaxOps
  /\ ops' = ops + 1
  /\ guard' \in Guards \ {guard}
  /\ UNCHANGED <<layoutVars, saved, todo, job, result, last, marked, first, boots>>

(* Power goes, or the system restarts.  The table is read from flash; the  *)
(* start fails when it, or the configuration, is not found.                *)
Restart ==
  /\ boots < MaxBoots
  /\ boots' = boots + 1
  /\ UNCHANGED <<chip_num, config, saved, guard, first, ops>>
  /\ blk_status' = saved
  /\ phase' \in {"repair", "unread"}
  /\ todo' = IF phase' = "repair" /\ Cardinality(UsedReserved') > RepairLimit
             THEN UsedReserved' ELSE {}
  /\ devs' = <<BootDevice>>
  /\ job' = NoJob
  /\ result' = NoResult
  /\ last' = {}
  /\ marked' = {m \in marked : m.kept}

-----------------------------------------------------------------------------
Devices == 2..Len(devs)

Request ==
  \/ \E d \in Devices : \E u \in 0..Units(d) - 1 :
       \/ \E op \in {"write", "erase"} : Access(op, d, u)
       \/ MarkUnit(d, u)
  \/ \E n \in BootBlks..LastReserve - 1 : MarkReserved(n)

ChipStep == SendCommand \/ ChipBusy \/ StatusRight \/ StatusFailed \/ StatusOdd

BlockNext == RepairBlock \/ RepairDone \/ Lay \/ Request \/ ChipStep
               \/ SetParameters \/ Restart

BlockSpec == BlockInit /\ [][BlockNext]_vars

-----------------------------------------------------------------------------
(* The devices, the table and the operation in progress are well formed.   *)
BlockTypeOK ==
  /\ blk_status \in [Addresses -> {"good", "used_bad", "factory_bad"}]
  /\ saved \in [Addresses -> {"good", "used_bad", "factory_bad"}]
  /\ phase \in {"repair", "layout", "up", "failed", "unread"}
  /\ devs \in Seq([offset : 0..ChipSize, size : 0..ChipSize])
  /\ todo \subseteq BootBlks..ChipSize
  /\ job # NoJob => job.k \in 0..JobChips - 1 /\ job.st_cnt \in 0..MaxTry

(* The areas amlnand_phydev_init gives to the devices are disjoint, on the *)
(* chip and apart from the boot area; with one chip they are also apart    *)
(* from the blocks the metadata store takes, whose end is computed         *)
(* elsewhere (get_last_reserve_block), whatever blocks are bad.            *)
AreasDisjoint ==
  phase = "up" =>
    \A d \in Devices :
      /\ DevArea(d) \subseteq Addresses \ BootArea
      /\ chip_num = 1 => DevArea(d) \intersect ReservedArea = {}
      /\ \A e \in Devices \ {d} : DevArea(d) \intersect DevArea(e) = {}

(* A row of the devices that has both a block of the metadata area and one *)
(* that is bad from the factory.  With one chip there is none.             *)
MixedRow(r) ==
  /\ FirstOffset <= Unit * r
  /\ SetOf(UnitBlocks(r)) \intersect ReservedArea # {}
  /\ \E a \in SetOf(UnitBlocks(r)) : GetBlockStatus(a) = "factory_bad"

(* After every restart the devices are where they were at the first start: *)
(* blocks that are marked, repaired or lost from the table in between move *)
(* nothing.  With several chips, where the first device starts inside the  *)
(* metadata area, this needs that no row is mixed: a mark of its block of  *)
(* metadata hides from block_isbad the one that is bad from the factory.   *)
LayoutStable ==
  \/ /\ phase = "up" => devs = first
     /\ phase = "failed" => first = <<>>
  \/ \E r \in 0..BlkNum : MixedRow(r)

(* A device has as many units that are not bad from the factory as its     *)
(* partitions and the FTL ask for.                                         *)
DeviceHasRoom ==
  phase = "up" =>
    \A d \in 2..Len(config) + 1 :
      Cardinality({u \in 0..Units(d) - 1 :
                     BlockIsbad(UnitBlocks(Row(d, u))) # "factory_bad"})
        >= Asked(config[d - 1])

(* A unit that was marked is bad for block_isbad from then on, also after  *)
(* a restart if the table was saved (one chip).  The exception is a unit   *)
(* whose number is, taken as the number of a block, a bad block:           *)
(* block_markbad looks at that block and has nothing to do.                *)
MarkIsSeen ==
  phase = "up" /\ chip_num = 1 =>
    \A m \in marked :
      \/ ~GoodUnit(m.dev, m.unit)
      \/ ~m.kept /\ GetBlockStatus(<<0, Row(m.dev, m.unit)>>) # "good"

(* A write or erase that returns success was sent to all chips, and no     *)
(* chip reported a failure: no status byte that was accepted had one of    *)
(* the bits NAND_STATUS_FAIL and NAND_STATUS_FAIL_N1.                      *)
VerdictTrue ==
  result.ret = "ok" /\ result.op \in {"write", "erase"} =>
    ~result.wrong /\ Len(result.sent) = Unit

(* The mark of a unit is programmed into pages of that unit.               *)
MarkInPlace ==
  job # NoJob /\ job.op = "mark" /\ job.dev \in Devices =>
    SetOf(job.sent) \subseteq SetOf(Target(job.dev, job.unit))

(* Without allow_meta nothing erases or programs the blocks of metadata.   *)
MetaKept ==
  ~guard.allow_meta =>
    last \intersect {ReservedAddr(n) : n \in MetaBlocks} = {}
=============================================================================
