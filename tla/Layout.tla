-------------------------------- MODULE Layout --------------------------------
(***************************************************************************)
(* How the flash is divided: amlnand_phydev_init (dev/phydev.c) gives each *)
(* device its offset and size, chipenv.c and chip_operation.c compute the  *)
(* place of the metadata and the status of blocks from the same table.     *)
(*                                                                         *)
(* Everything is counted in blocks.  A block is at <<chip, number>>; the   *)
(* devices of partitions use units of one block per chip and plane.        *)
(***************************************************************************)
EXTENDS Integers, Sequences, FiniteSets, FiniteSetsExt

CONSTANTS
  ChipNums,     \* controller->chip_num, found at probe
  PlaneNum,     \* 2 with NAND_MULTI_PLANE_MODE, else 1
  BlkNum,       \* blocks of a chip
  BootBlks,     \* tmp_blk: blocks of the boot area
  ReservedCnt,  \* RESERVED_BLOCK_CNT
  AdjustPart,   \* ADJUST_PART_SIZE
  AdjustNum,    \* ADJUST_BLOCK_NUM
  Wrap,         \* blocks in 4 GiB: tmp_offset has 32 bits
  Configs       \* partition sizes of all devices but the boot and last one

ASSUME LayoutAssumption ==
  /\ ChipNums \subseteq Nat \ {0}
  /\ PlaneNum \in {1, 2}
  /\ {BlkNum, BootBlks, ReservedCnt, AdjustPart, AdjustNum, Wrap}
        \subseteq Nat \ {0}
  /\ Configs \subseteq Seq(Nat)
  /\ \A c \in ChipNums : BootBlks % (c * PlaneNum) = 0

VARIABLES
  chip_num,
  config,      \* element of Configs
  blk_status,  \* blk_status[<<chip, blk>>]: good, used_bad or factory_bad
  devs,        \* devices made so far, the first one is the boot area
  phase        \* repair, layout, up; failed, unread: how far the driver is

layoutVars == <<chip_num, config, blk_status, devs, phase>>

Chips == 0..chip_num - 1
Addresses == Chips \X (0..BlkNum - 1)
Unit == chip_num * PlaneNum
ChipSize == chip_num * BlkNum

BootDevice == [offset |-> 0, size |-> BootBlks]

-----------------------------------------------------------------------------
(* The status of blocks.  Behind the last block the table holds zeros.     *)
GetBlockStatus(a) == IF a \in DOMAIN blk_status THEN blk_status[a] ELSE "good"

(* The blocks of a unit, in the order in which they are looked at.         *)
UnitBlocks(row) ==
  [k \in 1..Unit |-> <<(k - 1) \div PlaneNum,
                       PlaneNum * row + ((k - 1) % PlaneNum)>>]

(* The first block that is not good decides.                               *)
BlockIsbad(blocks) ==
  LET bad == {k \in DOMAIN blocks : GetBlockStatus(blocks[k]) # "good"}
  IN IF bad = {} THEN "good" ELSE GetBlockStatus(blocks[Min(bad)])

(* The number after the one at which count numbers not in bad are passed.  *)
ScanEnd(bad, from, count) ==
  Min({m \in from..from + count + Cardinality(bad) :
         Cardinality((from..m - 1) \ bad) = count})

RoundUp(n, m) == ((n - 1) \div m + 1) * m

(* The boot area lies on every chip, but is counted on one: the reserved   *)
(* blocks before the first device make up for the others (48 of them, 1024 *)
(* pages of boot area, at most 4 chips, at least 64 pages in a block).     *)
ASSUME BootAssumption ==
  \A c \in ChipNums : BootBlks * (c - 1) <= RoundUp(ReservedCnt, c * PlaneNum)

-----------------------------------------------------------------------------
(* The metadata area: block n of it, counted over the chips, and the end,  *)
(* past ReservedCnt blocks that are not bad from the factory.              *)
ReservedAddr(n) ==
  <<n % chip_num, n \div chip_num + BootBlks - BootBlks \div chip_num>>

FactoryBadReserved ==
  {n \in BootBlks..ChipSize : GetBlockStatus(ReservedAddr(n)) = "factory_bad"}

LastReserve == ScanEnd(FactoryBadReserved, BootBlks, ReservedCnt)

(* The same scan in amlnand_phydev_init, from the start of the chip: the   *)
(* row comes from the block number with the boot area, the chip from the   *)
(* one without.                                                            *)
ScanAddr(n) == <<n % chip_num, ReservedAddr(n + BootBlks)[2]>>

FirstOffset ==
  LET bad == {n \in 0..ChipSize : GetBlockStatus(ScanAddr(n)) = "factory_bad"}
  IN RoundUp(ScanEnd(bad, 0, ReservedCnt), Unit) + BootBlks

-----------------------------------------------------------------------------
(* Units a device asks for: its partitions and the part the FTL needs.     *)
Asked(size) ==
  LET total == size \div Unit
  IN total + (total + AdjustPart - 1) \div AdjustPart + AdjustNum

(* Mutant of FactoryBadRows: blocks that went bad in use count too.        *)
AnyBadRows == {r \in 0..BlkNum : BlockIsbad(UnitBlocks(r)) # "good"}

FactoryBadRows == {r \in 0..BlkNum : BlockIsbad(UnitBlocks(r)) = "factory_bad"}

(* Mutant of SizeFor: bad rows are not made up for.                        *)
SizeForNoSkip(offset, size) == RoundUp(Asked(size), Unit) * Unit

(* The size of a device that starts at offset: rows that are bad from the  *)
(* factory are made up for.                                                *)
SizeFor(offset, size) ==
  LET from == offset \div Unit
      end == ScanEnd(FactoryBadRows \ (0..from - 1), from, Asked(size))
  IN RoundUp(end - from + (offset - (offset % Wrap)) \div Unit, Unit) * Unit

Last == devs[Len(devs)]

(* Mutant of NextOffset: the reserved area is not scanned for bad blocks.  *)
NextOffsetFixed ==
  IF Len(devs) = 1 THEN RoundUp(ReservedCnt, Unit) + BootBlks
                   ELSE Last.offset + Last.size

NextOffset ==
  IF Len(devs) = 1 THEN FirstOffset ELSE Last.offset + Last.size

(* One device.  The last one gets what the one before leaves.              *)
AddDevice ==
  LET k == Len(devs)
      last == k > Len(config)
      size == IF last THEN ChipSize - Last.offset - Last.size
                      ELSE SizeFor(NextOffset, config[k])
  IN /\ phase = "layout"
     /\ IF NextOffset + size > ChipSize
        THEN phase' = "failed" /\ UNCHANGED devs
        ELSE /\ devs' = Append(devs, [offset |-> NextOffset, size |-> size])
             /\ phase' = IF last THEN "up" ELSE "layout"
     /\ UNCHANGED <<chip_num, config, blk_status>>

-----------------------------------------------------------------------------
(* The blocks an address of a device stands for.                           *)
Units(d) == devs[d].size \div Unit
Row(d, u) == (devs[d].offset + u * Unit) \div Unit

SetOf(seq) == {seq[k] : k \in DOMAIN seq}

BootArea == {<<0, b>> : b \in 0..BootBlks - 1}
ReservedArea == {ReservedAddr(n) : n \in BootBlks..LastReserve - 1}
DevArea(d) == UNION {SetOf(UnitBlocks(Row(d, u))) : u \in 0..Units(d) - 1}
=============================================================================
