----------------------------- MODULE InfoStore -----------------------------
(***************************************************************************)
(* The metadata store (phy/chipenv.c): the bad block table, the chip       *)
(* configuration and the U-Boot environment in the reserved blocks.        *)
(*                                                                         *)
(* A FULL_BLK item fills a freshly erased block with copies on every save; *)
(* a FULL_PAGE item appends two copies to its block and moves when the     *)
(* block is full.  The old block is erased after the new copy is written.  *)
(* A boot finds an item by scanning the out-of-band name and timestamp of  *)
(* the first readable page of each block.                                  *)
(*                                                                         *)
(* One step is one page program or one block erase; power may fail at any  *)
(* moment, in the middle of either.  Page contents are a version number.   *)
(***************************************************************************)
EXTENDS Naturals, FiniteSets, FiniteSetsExt, TLC

CONSTANTS
  Items,         \* names: bbt, ncnf, nenv ...
  FullBlk,       \* the items of type FULL_BLK; the others are FULL_PAGE
  Saved,         \* the items that are saved while the system runs
  Required,      \* the items without which the driver does not come up: bbt
  arg_pages,     \* arg_pages[i]: pages of one copy
  StartBlk,      \* the first reserved block
  ReservedCnt,   \* RESERVED_BLOCK_CNT
  FactoryBad,    \* blocks shipped bad
  pages_read,    \* usable pages of a block
  allow_meta,    \* amlnf_allow_meta
  Faults,        \* a subset of StoreFaults
  MaxSaves,      \* bound: saves per item
  MaxCrashes,    \* bound: power failures
  MaxFaults,     \* bound: failing programs and erases, rotten pages
  MaxTests,      \* block tests in one save (3 in the code)
  TsMod,         \* modulus of the timestamp (2^16 in the code)
  Key            \* the item nkey, or NoKey: present on flash, never scanned

(* program  a page program fails                                           *)
(* erase    the erase of a block about to be used fails                    *)
(* old      the erase of the block of the old copy fails                   *)
(* rot      a copy of a FULL_BLK item becomes unreadable at rest           *)
StoreFaults == {"program", "erase", "old", "rot"}

(* The blocks amlnand_check_info_by_name scans, and those that             *)
(* amlnand_get_free_block chooses from: get_last_reserve_block goes on     *)
(* until it has seen RESERVED_BLOCK_CNT blocks that were not shipped bad.  *)
ScanBlocks == {b \in StartBlk .. StartBlk + ReservedCnt - 1 :
                 b \notin FactoryBad}
LastReserved ==
  Min({e \in StartBlk .. StartBlk + ReservedCnt + Cardinality(FactoryBad) :
         Cardinality((StartBlk .. e - 1) \ FactoryBad) = ReservedCnt})
AllBlocks == StartBlk .. LastReserved - 1
Pages == 0 .. pages_read - 1

ASSUME StoreAssumption ==
  /\ FullBlk \subseteq Items
  /\ Saved \subseteq Items
  /\ Required \subseteq Items
  /\ arg_pages \in [Items -> 1 .. pages_read]
  /\ StartBlk \in Nat \ {0}
  /\ ReservedCnt \in Nat
  /\ IsFiniteSet(FactoryBad)
  /\ pages_read \in Nat \ {0}
  /\ TsMod \in Nat \ {0, 1}
  /\ MaxTests \in Nat
  /\ allow_meta \in BOOLEAN
  /\ Faults \subseteq StoreFaults
  /\ {Key, "blank", "torn"} \cap Items = {}

VARIABLES
  flash,     \* flash[b][p]: contents of a page
  found,     \* found[i]: the version of i a boot would find on flash
  arg_info,  \* arg_info[i]: struct _nand_arg_info, in RAM
  reserved,  \* the blocks listed in aml_chip->reserved_blk
  job,       \* the save in progress, or NoJob
  repair,    \* items amlnand_info_error_handle still has to save again
  saves,     \* saves[i]: versions of i handed out so far
  acked,     \* acked[i]: version of the last save that returned success
  doubt,     \* the items that need not be found as they were acknowledged
  faulted,   \* those of them whose saves met a failing program or erase
  flawed,    \* the items a save of which met one since the last boot
  crashes,   \* power failures so far
  faults     \* faults so far

vars == <<flash, found, arg_info, reserved, job, repair, saves, acked,
          doubt, faulted, flawed, crashes, faults>>

(* doubt, faulted and flawed are history: the code has no such state.  An  *)
(* item is in doubt from the moment a save of it begins until that save,   *)
(* or a later one, returns success and no save of it met a failing program *)
(* or erase since the boot.                                                *)

Page(i, t, v) == [name |-> i, timestamp |-> t, version |-> v]
Blank == Page("blank", 0, 0)   \* erased: readable, but no name
Torn  == Page("torn", 0, 0)    \* read_page reports an uncorrectable error
Named(c, i) == c.name = i

NoJob == [phase |-> "none"]

-----------------------------------------------------------------------------
(* amlnand_check_info_by_name                                              *)

(* The pages the scan of item i visits: the first of every copy.           *)
Slots(i) == {p \in Pages : p % arg_pages[i] = 0}

(* The first of them that can be read.                                     *)
FirstReadable(f, b, i) == {p \in Slots(i) :
  f[b][p] # Torn /\ \A q \in Slots(i) : q < p => f[b][q] = Torn}

(* The blocks whose first readable page carries the name.                  *)
Holders(f, i) ==
  {b \in ScanBlocks : \E p \in FirstReadable(f, b, i) : Named(f[b][p], i)}

FirstTimestamp(f, b, i) ==
  f[b][CHOOSE p \in FirstReadable(f, b, i) : TRUE].timestamp

(* FULL_BLK stops at the first holder; FULL_PAGE goes on and takes a later *)
(* block only if its timestamp is greater.                                 *)
ScanBlock(f, i) ==
  IF i \in FullBlk THEN Min(Holders(f, i))
  ELSE Min({b \in Holders(f, i) :
              \A c \in Holders(f, i) :
                FirstTimestamp(f, c, i) <= FirstTimestamp(f, b, i)})

(* FULL_PAGE follows the copies up to the first readable page without the  *)
(* name and takes the last; FULL_BLK takes the first.                      *)
CopiesEnd(f, b, i) ==
  Min({pages_read} \cup {p \in Slots(i) : f[b][p] # Torn /\ ~Named(f[b][p], i)})

Copies(f, b, i) ==
  {p \in Slots(i) : p < CopiesEnd(f, b, i) /\ Named(f[b][p], i)}

ScanPage(f, b, i) ==
  IF i \in FullBlk THEN Min(Copies(f, b, i)) ELSE Max(Copies(f, b, i))

(* Unreadable pages on the way set update_flag.                            *)
UpdateFlag(f, b, i) ==
  \E p \in Slots(i) :
    /\ f[b][p] = Torn
    /\ p < IF i \in FullBlk THEN ScanPage(f, b, i) ELSE CopiesEnd(f, b, i)

Unknown == [arg_valid |-> FALSE, valid_blk_addr |-> 0, valid_page_addr |-> 0,
            timestamp |-> 0, update_flag |-> FALSE]

CheckInfo(f, i) ==
  IF Holders(f, i) = {} THEN Unknown
  ELSE LET b == ScanBlock(f, i)
           p == ScanPage(f, b, i)
       IN [arg_valid |-> TRUE, valid_blk_addr |-> b, valid_page_addr |-> p,
           timestamp |-> f[b][p].timestamp,
           update_flag |-> UpdateFlag(f, b, i)]

(* What amlnand_read_info_by_name delivers for an arg_info: per page the   *)
(* version there, or 0 when the page has not the name, cannot be read or   *)
(* lies behind the block (a test pattern has the name in every page).      *)
ReadInfo(f, a, i) ==
  [k \in 0 .. arg_pages[i] - 1 |->
     LET p == a.valid_page_addr + k
     IN IF p \in Pages /\ Named(f[a.valid_blk_addr][p], i)
        THEN f[a.valid_blk_addr][p].version ELSE 0]

(* The version a boot would find; 0 when there is none, or when what it    *)
(* reads is not one whole copy of one save.                                *)
Version(f, i) ==
  LET a == CheckInfo(f, i)
      r == ReadInfo(f, a, i)
  IN IF a.arg_valid /\ \A k \in DOMAIN r : r[k] = r[0] THEN r[0] ELSE 0

Found(f) == [i \in Items |-> Version(f, i)]
SetFlash(f) == flash' = f /\ found' = Found(f)

-----------------------------------------------------------------------------
(* Boot: amlnand_get_dev_configs scans every item with fresh arg_infos and *)
(* then saves a FULL_BLK item again whose update_flag is set.  It gives up *)
(* when the bad block table is not found; a checksum error of the table is *)
(* only reported.                                                          *)
BootFrom(f) ==
  /\ arg_info' = [i \in Items |-> CheckInfo(f, i)]
  /\ reserved' = {CheckInfo(f, i).valid_blk_addr :
                     i \in {j \in Items : CheckInfo(f, j).arg_valid}}
  /\ repair' = {i \in FullBlk : CheckInfo(f, i).update_flag}
  /\ job' = NoJob

DriverUp == \A i \in Required : arg_info[i].arg_valid

(* What a power failure leaves of the operation it interrupts.             *)
WritePos(j) ==
  (IF j.fresh THEN 0
   ELSE arg_info[j.item].valid_page_addr + arg_pages[j.item]) + j.written

(* Mutant of FreeBlock: reserved_blk is not looked at.                     *)
FreeBlockUnlisted(j) ==
  {b \in AllBlocks \ (FactoryBad \cup {j.blk}) : b >= j.from}

(* The blocks amlnand_get_free_block may still try.                        *)
FreeBlock(j) ==
  {b \in AllBlocks \ (reserved \cup FactoryBad \cup {j.blk}) : b >= j.from}

HalfErased(b) == {[p \in Pages |-> IF p \in T THEN Torn ELSE flash[b][p]] :
                    T \in SUBSET Pages}

AfterPowerLoss ==
  {flash} \cup
  CASE job.phase = "write" ->
         {[flash EXCEPT ![job.blk][WritePos(job)] = Torn]}
    [] job.phase = "alloc" /\ FreeBlock(job) # {} ->
         {[flash EXCEPT ![Min(FreeBlock(job))] = h] :
            h \in HalfErased(Min(FreeBlock(job)))}
    [] job.phase = "erase_old" ->
         {[flash EXCEPT ![job.old] = h] : h \in HalfErased(job.old)}
    [] OTHER -> {}

Crash ==
  /\ crashes < MaxCrashes
  /\ crashes' = crashes + 1
  /\ \E f \in AfterPowerLoss : SetFlash(f) /\ BootFrom(f)
  /\ flawed' = {}
  /\ UNCHANGED <<saves, acked, doubt, faulted, faults>>

(* A page of a block full of copies cannot be read any more; the first     *)
(* page of another copy in that block still can.  A boot passes over a     *)
(* copy whose first page is lost, but not over one that lost another page. *)
Rot(b, p) ==
  /\ "rot" \in Faults
  /\ faults < MaxFaults
  /\ job = NoJob
  /\ \E i \in FullBlk :
       /\ Named(flash[b][p], i)
       /\ \E q \in Slots(i) \ {p} : Named(flash[b][q], i)
       /\ doubt' = IF p \in Slots(i) THEN doubt ELSE doubt \cup {i}
  /\ faults' = faults + 1
  /\ SetFlash([flash EXCEPT ![b][p] = Torn])
  /\ UNCHANGED <<arg_info, reserved, job, repair, saves, acked, faulted,
                 flawed, crashes>>

-----------------------------------------------------------------------------
(* amlnand_save_info_by_name                                               *)

(* Mutant of Appends: update_flag is not looked at.                        *)
AppendsIgnoringFlag(a, i) ==
  /\ a.arg_valid
  /\ i \notin FullBlk
  /\ a.valid_page_addr + 2 * arg_pages[i] <= pages_read

(* From write_again and get_free_blk: where one copy of item i goes.  a is *)
(* its arg_info.                                                           *)
Appends(a, i) ==
  /\ a.arg_valid
  /\ ~a.update_flag
  /\ i \notin FullBlk
  /\ a.valid_page_addr + 2 * arg_pages[i] <= pages_read

Copy(a, i, v, boot, n, last) ==
  [phase   |-> IF Appends(a, i) THEN "write" ELSE "alloc",
   item    |-> i,
   version |-> v,
   boot    |-> boot,                \* called while the chip is CHIP_READY
   copy    |-> n,                   \* write_page_cnt
   blk     |-> IF Appends(a, i) THEN a.valid_blk_addr ELSE last,
   fresh   |-> ~Appends(a, i),      \* goes to a new block
   from    |-> StartBlk,            \* start_blk of amlnand_get_free_block
   written |-> 0,
   tests   |-> 0,                   \* test_cnt
   old     |-> 0]                   \* tmp_blk_addr

Stamp(a) == [a EXCEPT !.timestamp = (@ + 1) % TsMod]

(* amlnand_info_error_handle also clears update_flag, which no FULL_BLK    *)
(* save looks at.                                                          *)
BeginSave(i, v, boot) ==
  /\ allow_meta
  /\ DriverUp
  /\ job = NoJob
  /\ arg_info' = [arg_info EXCEPT ![i] =
                    [Stamp(arg_info[i]) EXCEPT
                       !.update_flag = arg_info[i].update_flag /\ ~boot]]
  /\ job' = Copy(arg_info[i], i, v, boot, 0, 0)
  /\ doubt' = doubt \cup {i}

(* A save while the system runs: the environment device, or the bad block  *)
(* table after a block went bad.                                           *)
Save(i) ==
  /\ repair = {}
  /\ saves[i] < MaxSaves
  /\ saves' = [saves EXCEPT ![i] = @ + 1]
  /\ BeginSave(i, saves[i] + 1, FALSE)
  /\ UNCHANGED <<flash, found, reserved, repair, acked, faulted, flawed,
                 crashes, faults>>

(* Mutant of Repair: saves the last contents this system wrote, not what   *)
(* was read.                                                               *)
RepairStale(i) ==
  /\ i \in repair
  /\ repair' = repair \ {i}
  /\ BeginSave(i, acked[i], TRUE)
  /\ UNCHANGED <<flash, found, reserved, saves, acked, faulted, flawed,
                 crashes, faults>>

(* amlnand_info_error_handle: what was just read is saved again.           *)
Repair(i) ==
  /\ i \in repair
  /\ repair' = repair \ {i}
  /\ BeginSave(i, found[i], TRUE)
  /\ UNCHANGED <<flash, found, reserved, saves, acked, faulted, flawed,
                 crashes, faults>>

Flaw ==
  /\ faulted' = faulted \cup {job.item}
  /\ flawed' = flawed \cup {job.item}

(* amlnand_get_free_block erases the lowest block that is not listed.      *)
GetFreeBlock ==
  /\ job.phase = "alloc"
  /\ FreeBlock(job) # {}
  /\ LET b == Min(FreeBlock(job)) IN
       /\ SetFlash([flash EXCEPT ![b] = [p \in Pages |-> Blank]])
       /\ job' = [job EXCEPT !.phase = "write", !.blk = b, !.written = 0]
  /\ UNCHANGED <<arg_info, reserved, repair, saves, acked, doubt, faulted,
                 flawed, crashes, faults>>

(* The erase fails, with any part of the block done: block_markbad,        *)
(* refused without amlnf_allow_markbad, and on to the next block.          *)
FreeBlockEraseFails ==
  /\ "erase" \in Faults
  /\ faults < MaxFaults
  /\ job.phase = "alloc"
  /\ FreeBlock(job) # {}
  /\ faults' = faults + 1
  /\ LET b == Min(FreeBlock(job)) IN
       /\ \E h \in HalfErased(b) : SetFlash([flash EXCEPT ![b] = h])
       /\ job' = [job EXCEPT !.from = b + 1]
  /\ Flaw
  /\ UNCHANGED <<arg_info, reserved, repair, saves, acked, doubt, crashes>>

(* The save failed; amlnand_info_error_handle saves nothing more.          *)
GiveUp == job' = NoJob /\ repair' = {}

NoFreeBlock ==
  /\ job.phase = "alloc"
  /\ FreeBlock(job) = {}
  /\ GiveUp
  /\ UNCHANGED <<flash, found, arg_info, reserved, saves, acked, doubt,
                 faulted, flawed, crashes, faults>>

(* Pages one pass writes: one copy, or a block full of copies.             *)
PassLength(i) == IF i \in FullBlk
                 THEN (pages_read \div arg_pages[i]) * arg_pages[i]
                 ELSE arg_pages[i]

WritePage ==
  /\ job.phase = "write"
  /\ SetFlash([flash EXCEPT ![job.blk][WritePos(job)] =
                 Page(job.item, arg_info[job.item].timestamp, job.version)])
  /\ job' = [job EXCEPT !.written = @ + 1,
                !.phase = IF job.written + 1 = PassLength(job.item)
                          THEN "commit" ELSE "write"]
  /\ UNCHANGED <<arg_info, reserved, repair, saves, acked, doubt, faulted,
                 flawed, crashes, faults>>

(* The caller waits for the chip it has.                                   *)
Hang == job' = [job EXCEPT !.phase = "hung"] /\ UNCHANGED repair

(* What test_block_reserved leaves of a block: erased, when it passes;     *)
(* half erased; or with its pattern in the first k pages.  The pattern is  *)
(* written with the out-of-band bytes the save left in user_oob_buf, the   *)
(* name and the timestamp of the item.                                     *)
Tested(b) ==
  LET pattern == Page(job.item, arg_info[job.item].timestamp, 0)
  IN HalfErased(b) \cup
     {[p \in Pages |-> IF p < k THEN pattern ELSE IF p = k THEN Torn
                       ELSE Blank] : k \in 0..pages_read} \cup
     {[p \in Pages |-> Blank]}

(* The program fails.  While the system runs the caller has the chip, and  *)
(* test_block_reserved never returns from nand_get_chip (ChipLock).        *)
(* During boot the block is tested and another one is taken, whatever the  *)
(* test says (block_markbad is refused), MaxTests times at most.           *)
WritePageFails ==
  /\ "program" \in Faults
  /\ faults < MaxFaults
  /\ job.phase = "write"
  /\ faults' = faults + 1
  /\ IF job.boot /\ job.tests < MaxTests
     THEN /\ \E c \in Tested(job.blk) :
               SetFlash([flash EXCEPT ![job.blk] = c])
          /\ job' = [job EXCEPT !.phase = "alloc", !.from = StartBlk,
                                !.tests = @ + 1]
          /\ UNCHANGED repair
     ELSE /\ SetFlash([flash EXCEPT ![job.blk][WritePos(job)] = Torn])
          /\ IF job.boot THEN GiveUp ELSE Hang
  /\ Flaw
  /\ UNCHANGED <<arg_info, reserved, saves, acked, doubt, crashes>>

(* Mutant of Commit: the new block is not listed in reserved_blk.          *)
CommitUnlisted ==
  /\ job.phase = "commit"
  /\ LET i == job.item
         a == arg_info[i]
     IN /\ arg_info' = [arg_info EXCEPT ![i].valid_blk_addr = job.blk,
                          ![i].valid_page_addr =
                            IF job.fresh THEN 0 ELSE @ + arg_pages[i]]
        /\ job' = [job EXCEPT
                     !.phase = IF job.fresh /\ a.arg_valid
                               THEN "erase_old" ELSE "finish",
                     !.old = a.valid_blk_addr]
  /\ UNCHANGED <<flash, found, reserved, repair, saves, acked, doubt, faulted,
                 flawed, crashes, faults>>

(* "write success": update reserved_blk and arg_info.                      *)
Commit ==
  /\ job.phase = "commit"
  /\ LET i == job.item
         a == arg_info[i]
     IN /\ arg_info' = [arg_info EXCEPT ![i].valid_blk_addr = job.blk,
                          ![i].valid_page_addr =
                            IF job.fresh THEN 0 ELSE @ + arg_pages[i]]
        /\ job' = [job EXCEPT
                     !.phase = IF job.fresh /\ a.arg_valid
                               THEN "erase_old" ELSE "finish",
                     !.old = a.valid_blk_addr]
  /\ reserved' = reserved \cup {job.blk}
  /\ UNCHANGED <<flash, found, repair, saves, acked, doubt, faulted,
                 flawed, crashes, faults>>

EraseOld ==
  /\ job.phase = "erase_old"
  /\ SetFlash([flash EXCEPT ![job.old] = [p \in Pages |-> Blank]])
  /\ reserved' = reserved \ {job.old}
  /\ job' = [job EXCEPT !.phase = "finish"]
  /\ UNCHANGED <<arg_info, repair, saves, acked, doubt, faulted,
                 flawed, crashes, faults>>

(* A FULL_PAGE item is written once more; otherwise the save returns 0.    *)
Finish ==
  /\ job.phase = "finish"
  /\ LET i == job.item
         a == [arg_info[i] EXCEPT !.arg_valid = TRUE,
                 !.update_flag = IF i \in FullBlk THEN @ ELSE FALSE]
     IN IF i \notin FullBlk /\ job.copy = 0
        THEN /\ job' = Copy(a, i, job.version, job.boot, 1, job.blk)
             /\ arg_info' = [arg_info EXCEPT ![i] = Stamp(a)]
             /\ UNCHANGED <<acked, doubt, faulted>>
        ELSE /\ job' = NoJob
             /\ arg_info' = [arg_info EXCEPT ![i] = a]
             /\ acked' = [acked EXCEPT ![i] = job.version]
             /\ doubt' = IF i \in flawed THEN doubt ELSE doubt \ {i}
             /\ faulted' = IF i \in flawed THEN faulted ELSE faulted \ {i}
  /\ UNCHANGED <<flash, found, reserved, repair, saves, flawed, crashes,
                 faults>>

(* The erase fails: test_block_reserved hangs while the system runs;       *)
(* during boot it fails too, block_markbad is refused, the save fails.     *)
(* (Where the test passes, the step is EraseOld.)                          *)
EraseOldFails ==
  /\ "old" \in Faults
  /\ faults < MaxFaults
  /\ job.phase = "erase_old"
  /\ faults' = faults + 1
  /\ \E c \in IF job.boot THEN Tested(job.old) ELSE HalfErased(job.old) :
       SetFlash([flash EXCEPT ![job.old] = c])
  /\ IF job.boot THEN GiveUp ELSE Hang
  /\ Flaw
  /\ UNCHANGED <<arg_info, reserved, saves, acked, doubt, crashes>>

-----------------------------------------------------------------------------
(* A chip as U-Boot leaves it: the FULL_BLK items in place, one block      *)
(* each, the others not yet there, the keys behind them.                   *)
Factory ==
  LET place == CHOOSE f \in [FullBlk -> ScanBlocks] :
                 /\ \A i, j \in FullBlk : i # j => f[i] # f[j]
                 /\ \A b \in ScanBlocks, i \in FullBlk :
                      b < f[i] => \E j \in FullBlk : f[j] = b
      keyblk == Min(ScanBlocks \ {place[i] : i \in FullBlk})
  IN [b \in AllBlocks |-> [p \in Pages |->
        IF \E i \in FullBlk : place[i] = b /\ p < PassLength(i)
        THEN Page(CHOOSE i \in FullBlk : place[i] = b, 1, 1)
        ELSE IF Key # "none" /\ b = keyblk /\ p = 0 THEN Page(Key, 1, 1)
        ELSE Blank]]

StoreInit ==
  /\ flash = Factory
  /\ found = Found(flash)
  /\ arg_info = [i \in Items |-> CheckInfo(flash, i)]
  /\ reserved = {arg_info[i].valid_blk_addr :
                    i \in {j \in Items : arg_info[j].arg_valid}}
  /\ job = NoJob
  /\ repair = {}
  /\ saves = [i \in Items |-> IF i \in FullBlk THEN 1 ELSE 0]
  /\ acked = saves
  /\ doubt = {}
  /\ faulted = {}
  /\ flawed = {}
  /\ crashes = 0
  /\ faults = 0

SaveStep ==
  \/ GetFreeBlock \/ FreeBlockEraseFails \/ NoFreeBlock
  \/ WritePage \/ WritePageFails
  \/ Commit
  \/ EraseOld \/ EraseOldFails
  \/ Finish

StoreNext ==
  \/ \E i \in Saved : Save(i)
  \/ \E i \in FullBlk : Repair(i)
  \/ SaveStep
  \/ Crash
  \/ \E b \in AllBlocks, p \in Pages : Rot(b, p)

StoreSpec == StoreInit /\ [][StoreNext]_vars

-----------------------------------------------------------------------------
(* The state has its types: an arg_info points to the first page of a      *)
(* copy in a reserved block, and only FULL_BLK items are saved at boot.    *)
StoreTypeOK ==
  /\ \A b \in AllBlocks, p \in Pages :
       flash[b][p] \in [name : Items \cup {Key, "blank", "torn"},
                        timestamp : 0..TsMod - 1, version : Nat]
  /\ \A i \in Items :
       /\ arg_info[i].valid_blk_addr \in AllBlocks \cup {0}
       /\ arg_info[i].valid_page_addr \in Slots(i)
       /\ arg_info[i].timestamp \in 0..TsMod - 1
  /\ reserved \subseteq AllBlocks
  /\ repair \subseteq FullBlk
  /\ acked \in [Items -> Nat]
  /\ doubt \subseteq Items
  /\ faulted \cup flawed \subseteq Items

(* What was acknowledged is what the next boot finds, whole, until the     *)
(* next save of the same item begins: no save of another item, no failing  *)
(* program or erase in it, no power failure and no repair at boot changes  *)
(* it, although blocks given up by earlier saves carry the name too.       *)
Durable == \A i \in Items \ doubt : found[i] = acked[i]

(* The strict form: a boot finds the acknowledged version or a later one   *)
(* also while a save of the item is under way or was interrupted.          *)
NeverLost == \A i \in Items : found[i] >= acked[i]

(* No page is programmed twice without an erase, although the place to     *)
(* append comes from a scan that skips unreadable pages.                   *)
NoOverprogram ==
  job.phase = "write" => flash[job.blk][WritePos(job)] = Blank

(* amlnand_get_free_block spares what is listed in reserved_blk: the block *)
(* that holds the current copy of an item is always listed, and no two     *)
(* items share one.                                                        *)
CurrentIsReserved ==
  /\ \A i \in Items : arg_info[i].arg_valid =>
       arg_info[i].valid_blk_addr \in reserved
  /\ \A i, j \in Items :
       i # j /\ arg_info[i].arg_valid /\ arg_info[j].arg_valid =>
         arg_info[i].valid_blk_addr # arg_info[j].valid_blk_addr

(* The keys, which nothing can put back, stay on the flash.                *)
KeysKept ==
  Key # "none" => \E b \in AllBlocks : Named(flash[b][0], Key)

(* While an item is saved, and whatever fails in the middle, the power     *)
(* included, no page of the block with another item's current copy         *)
(* changes.                                                                *)
OthersUntouched ==
  [][job # NoJob =>
       \A i \in Items \ {job.item} : arg_info[i].arg_valid =>
         flash'[arg_info[i].valid_blk_addr] = flash[arg_info[i].valid_blk_addr]
    ]_vars

(* The store implements RegularStore, with the version a boot would find   *)
(* as the contents of the register.                                        *)
Abstract == INSTANCE RegularStore WITH installed <- found
ImplementsRegularStore == Abstract!StoreSpec
=============================================================================
