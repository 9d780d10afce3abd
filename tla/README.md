# A TLA+ model of the amlnf NAND driver

`amlnf` is Amlogic's raw NAND driver ported to Linux 6.12: it reads and writes a
NAND in the vendor's format, through a closed flash translation layer (FTL), and
keeps the vendor's metadata (bad block table, configuration, U-Boot environment)
in a range of reserved blocks. There are no tests in the repository. This
directory holds models of the parts in which the order of events matters: locks
and wait queues, the metadata on flash under power loss, the layout of the flash
and its bad blocks, reads with their retries, the boot area, the request queue,
and the way up from the probe and down to a reboot.

The models are of the build the Makefile makes: `AML_NAND_UBOOT`,
`AML_NAND_RB_IRQ`, `CONFIG_AML_NAND_KEY` and `CONFIG_SECURE_NAND` are not
defined. Unless said otherwise the parameters are the ones the repository's README
recommends, `readonly=0 allow_markbad=0`.

## 1. Inventory

| Part | State | Operations | What is hard |
|---|---|---|---|
| chip lock, `dev/amlnf_ctrl.c` | chip state under a spinlock, wait queue, `spi_nand_mutex`, `nand_idleflag`, pins | `amlnand_get_device`, `amlnand_release_device`, `nand_get_chip`, `nand_release_chip` | two locks taken and given back in the same order; lost wakeups; nested use |
| physical devices, `dev/phydev.c` | one `ops_para` per chip, `option` per device | layout at the start; read, write, erase, isbad, markbad, bbt operations, test | shared parameter block; flags tested before a wait; a layout computed anew at every start |
| environment device, probe, shutdown, `dev/amlnf_env.c`, `dev/amlnf_dev.c` | file position; `nphy_dev_list`, `NAND_SHUT_DOWN` | read, write; probe; shutdown | same chip, other callers; a probe that fails half way |
| metadata store, `phy/chipenv.c` | pages of the reserved blocks; `arg_info` per item and `reserved_blk` in RAM | save, read, scan, boot, repair | power loss at every program and erase; failing pages and blocks; stale copies |
| chip operations, `phy/chip_operation.c` | chip status, bad block table in RAM | read/write page with retry, erase, isbad, markbad, test | several chips and planes; error reporting; read retry; table in RAM and on flash |
| block layer, `ntd/aml_ntd_blkdevs.c` | request list, work item, `dev->lock`, `open`, reference count | `ntd_queue_rq`, worker, open, close | worker and submitter interleave; order |
| NFTL block driver, `block/aml_nftl_block.c`, `block/aml_nftl_init.c` | `aml_nftl_lock`, `reboot_flag`, `nftl_thread`, the disks | attach; requests, flush on close, background thread, reboot notifier | four kinds of users of a single threaded FTL; shutdown, perhaps during the attachment |
| FTL core, `nftl/*.o` | mapping, caches | called under `aml_nftl_lock` | closed source |
| device tables, `ntd/aml_ntdcore.c`, `ntd/aml_ntdpart.c` | idr, use counts | add, delete, get, put; read, write, erase, isbad, markbad | reference counts |
| module parameters, `nfc_map.c` | `readonly`, `allow_markbad`, `allow_meta`, `parts`; clocks | written at any time; mapping | what each of them really stops |
| boot area, `phy/boot_operation.c` | copies of U-Boot, the controller's ECC settings | write | copies, bad blocks and failing pages; settings shared with everyone |
| controller, `phy/hw_controller.c` | ECC mode, steps, `user_buf` | choice of the mode, transfer of user bytes; registers, DMA | sizes that have to fit for every chip |
| chip tables, `phy/new_nand.c`, `phy/id_table.c` | retry tables and counters | next read level, back to the default | six different ways to step through a table |

The parts call downwards: block layer → NFTL block driver → FTL → partition →
physical device → chip operation → controller. The environment device and the
shutdown hook enter at the physical device, the metadata store is entered by the
environment device, by bad block updates and by the boot. All of it meets at the
chip lock. Requests come from the kernel's block layer; the background thread
and the reboot notifier enter at the NFTL block driver.

What makes each part correct:

* chip lock: one thread at a time on the chip, with the pins switched; whoever
  waits is woken; every lock is given back.
* physical devices: an operation works on its own parameters and reports its own
  result; nothing is done to a device that was shut down; devices, boot area and
  metadata do not overlap, and every start finds them in the same place.
* metadata store: what the last save of an item wrote is what a boot finds until the
  next save of that item, whatever happens to the others; no save goes back to an
  older version; current copies are never chosen for erasure; no page is programmed
  twice.
* chip operations: the pages of a read are delivered to their places, and what could
  not be corrected is reported; the read level does not stay changed; the user bytes
  come back; a marked block is known as bad from then on.
* boot area: a page that fails harms its own copy only; page 0 leads the ROM to the
  pages of every other copy; the controller's settings come back.
* controller: with every setting, the ECC steps of a page lie inside page, spare area
  and buffers.
* block layer: each request completes once, in order, under `dev->lock`.
* NFTL block driver: one user of the FTL at a time; acknowledged writes are
  kept and reach the flash before a reboot, or the reboot says that they did not;
  the reboot is not held up.
* probe and shutdown: whatever failed, a later reboot finds no half made device;
  the reboot reaches all devices and ends; disks do not overlap.

## 2. Modules

| Module | Models | Extends |
|---|---|---|
| `ChipLock` | the chip lock | |
| `Phydev` | operations of the physical devices, environment device, shutdown | `ChipLock` |
| `RegularStore` | what the metadata store promises: one register per item, in doubt while it is saved | |
| `InfoStore` | the metadata store, page by page | |
| `EccLayout` | ECC mode, page layout, info words, user bytes | |
| `ReadPage` | `read_page` with its retries, for every maker's hooks | `EccLayout` |
| `BootArea` | the boot area and its writer | `EccLayout` |
| `Layout` | the layout of the flash and the status of its blocks | |
| `BlockOps` | writes, erases, bad block marks, repair at the start, write guards | `Layout` |
| `RequestQueue` | what the block layer promises: a FIFO per disk | |
| `BlkTrans` | the block layer | |
| `NftlBlock` | the NFTL block driver over the block layer | `BlkTrans` |
| `Startup` | probe, attachment, reboot and shutdown | |
| `ChipLockProofs`, `PhydevProofs`, `InfoStoreProofs`, `ReadPageProofs`, `BootAreaProofs`, `BlockOpsProofs`, `NftlBlockProofs`, `StartupProofs` | theorems | the module they are about |
| `MC*` | instances for TLC | the module they instantiate |

Definitions that a plausible bug would change have a mutated form beside them,
marked "Mutant of"; each property is violated when one of them takes the place
of the original.

### ChipLock

One step is one critical section of `amlnf_lock` or one operation on the mutex
or the pins. `pc[t]` says where thread t is. `CallGetDevice`, `TakeState`,
`Sleep`, `LeaveQueue` and `NandGetChip` are the path through
`amlnand_get_device`; `ReleaseDevice`, `NandReleaseChip`, `UnlockMutex` the one
through `amlnand_release_device`. `wake_up` wakes all sleepers since
`add_wait_queue` queues them as non-exclusive. `Faults` turns on failing pin
switches (`NandGetChipFails`), the nested use of the lock by
`test_block_reserved` (`TestBlockReserved`, `TestBlockExit`) and its lack of
memory.

### Phydev

Every operation of `phydev.c` has one frame: checks that return at once
(`ReturnsAtOnce`), `amlnand_get_device`, the memset of `ops_para` (`ClearOpsPara`), a
loop of primitives (`Primitive`), release, verdict (`ReturnValue`, `Return`).
`Primitives`, `ModeOf`, `ShutDownTested` and `Sized` say how the operations differ.
What a primitive reports is free within `Reports`. A primitive that saves metadata may
also fail a program or an erase and test the block (`BlockTest`); `ChipLock` says
where that leads: the thread waits for the mutex it holds and never returns. One
thread stands for all callers of a device, which share `phydev->ops` and are
serialised above it. The environment device and `amlnf_shutdown` are two more threads.
Left out: addresses, buffers, the write-verify debug path; the loop of
`nand_test_block`, which has no caller, is taken once.

### InfoStore

`flash[b][p]` is a page with the name and timestamp of its out-of-band bytes and
a version number for its contents; `Torn` is a page that `read_page` reports as
uncorrectable. `job` is the save in progress: free block search and erase
(`GetFreeBlock`), page programs (`WritePage`), bookkeeping (`Commit`), erase of
the old block (`EraseOld`), second copy or return (`Finish`). `Crash` stops it
between or in the middle of any of them and boots: `CheckInfo` is the scan of
`amlnand_check_info_by_name`, `BootFrom` the use `amlnand_get_dev_configs` makes
of it, `Repair` the save `amlnand_info_error_handle` makes. `found` is a history
variable: the version a boot would find now, 0 where what it would read is not
one whole copy of one save. `Faults` turns on failing programs, failing erases of
the block to be used or of the old one, and pages of a block full of copies that
become unreadable (`Rot`).

Three more history variables say what may be asked of an item. It is in `doubt` from
the beginning of a save of it to the end of one that returned success, and longer if
a save of it met a failing program or erase since the boot (`flawed`); a page lost
inside a copy puts it in doubt as well. `faulted` are the items in doubt whose saves
met a fault. A save that ends well after a fault is not trusted: it can leave a second
block with the name behind, which a later boot may prefer.

A program that fails while the chip is held ends in the deadlock `ChipLock`
shows (`Hang`; only a reboot follows). At boot, when the chip state is
`CHIP_READY`, `test_block_reserved` runs and leaves the block as `Tested` says.

Left out: the dummy pages of one Hynix chip type; the jump of the scan after
eight unreadable copies (blocks are shorter here); the shipped bad block table,
which is never written by this build; `repair_reserved_bad_block`; blocks marked
bad in use.

### ReadPage

A call of `read_page` chooses the condition of every page of the request: at which
read levels it can be corrected and at which, uncorrectable, it passes as erased. The
code counts the zero bits after every sense, so a disturbed erased page may pass at a
level of the table only. The pages of a request need not agree: an interrupted
program leaves some written and some erased (`Mixed`). `SendCommand` is the first loop;
`Plane0`, `LastPlane`, their `Erased` forms (the jumps to `plane0_ff` and
`page_ff`) and `Retry` (the jump to `RETRY_PLANE_CMD` or `RETRY_CMD`) are the
second. The two branches for Micron/Intel and for other makers differ in commands
only. `ChipBusy` is a wait that times out; `HandleBusy` and `ExitBusy` are the same
inside the hooks, where it is only reported, and `Resets` the `nand_reset` of Hynix
chips. `page_ff` passes over the exit hook, after retries too: `strayed` are the chips
a read left in the middle of their retries, and `clean` says that there was none when
the current read began and that no wait of it timed out; both are history variables.

`Handle` and `Exit` are the hooks of `new_nand.c`. A read level is a number, 0 the
default; a maker's table and counters are what they make of it (`TableLevel`,
`NextLevel`, `NextCnt`): the tables of Toshiba and Samsung start with the default
level; Hynix counts on beyond the table and the 20 and 1y nm chips go through it
several times (`HynixEntry`, `OpCnt`). Intel's hook never changes a register and
the counter of SanDisk's A19 chips never moves; see the observations below.

`PageOob` and `OobRead` follow the user bytes of a request: `write_page` deals them
out over the pages, the controller puts them in `user_buf` (`SetUserByte`,
`Transferred`, `GetUserByte` of `EccLayout`), `read_page` gathers them.

Left out: reads of the out-of-band bytes alone, reads without error correction, the
bit flip limit of chips without a retry table, SLC mode, errors of the DMA
(`BUG()`).

### EccLayout

Operators without state: `EccConfirm` is the mode `controller_ecc_confirm` chooses
for a page and spare size, `ShortSettings` the one of page 0 of a boot copy;
`InfoWords` and `UserBufWords` are what a transfer needs and what `nand_buf_init`
gets. The geometries are all those of `id_table.c`.

### BootArea

`uboot_write` is one sequence of steps, as it has the chip: `CheckLen`, `EraseBlock`
for every block, `BeginCopies`, then for each copy `ConfigPage` and `DataPage`, and
`SumUp`, `Restore`, `Release`. A step fails (`PageFails`, the fault disjuncts) or
the power does. `controller` are the settings every other operation uses; `flash`
keeps for each page what was programmed and with which settings, so that
`RomReads` can say what the ROM makes of a copy: it reads page 0 with the short
mode and takes the other settings and the page list from there. The ROM is
external: this is what `nand_boot_info_prepare` writes for it, a list of
`NAND_PAGELIST_CNT` entries (one less on SanDisk chips, zeros on chips that are not
used as SLC). Where the list ends page 0 does not say how to go on (`RomKnows`).
`PageOf` and
`Skipped` are the page lists of Hynix and SanDisk SLC use. `readonly` refuses
erases and programs as in `chip_operation.c`.

### Layout and BlockOps

`Layout` counts in blocks, at `<<chip, number>>`. `AddDevice` is one turn of the
loop of `amlnand_phydev_init`; `ScanEnd` is its loop over blocks until enough of
them are not bad from the factory, which `get_last_reserve_block` has too.
`UnitBlocks` are the blocks a unit of a partition stands for, one per chip and
plane. The first device of a configuration is the boot area, as on every chip the
vendor ships; device options are multi-plane and multi-chip, as in the tables of
the driver, so SLC mode never applies, and folding of page addresses
(`internal_page_nums`) is the identity on these chips.

`BlockOps` starts with the table of bad blocks from flash. `RepairBlock` is one block
of `repair_reserved_bad_block`; then the devices are laid out (`Lay`). After that the
FTL writes, erases (`Access`) and marks (`MarkUnit`) units it found good, and the
metadata store marks blocks of its own (`MarkReserved`). `job` is the operation that
has the chip: a loop of commands to all chips (`SendCommand`) and a loop of status
reads (`StatusRight`, `StatusFailed`, `StatusOdd`), either of which a busy chip ends
(`ChipBusy`). Only the status 0xe1 is a failure to the code; another value may have
fail bits too, is read again, and passes after the last try. `Restart` may come at any
step; the start fails if the table is not found (`unread`). A save of the table is one
step here (`UpdateBbt`), its inside is `InfoStore`: it succeeds or not, and marks
blocks it failed to erase (`EraseFails`). It also leaves its own address in
`ops_para`, so `block_markbad` then programs its zeros into a block of the store
(`MarkJobs`). `nand_status` is never set to anything but normal in this build.
`marked` and `first` are history variables.

### BlkTrans and NftlBlock

A disk has a list of requests, a work item (`kicks`, `work`) that the kernel
runs at most once at a time, and a worker. The steps are the critical sections
of `queue_lock` and `dev->lock`. Users open and close the disk; the last close
flushes. In `BlkTrans` the service of a request is one step with a free outcome;
`NftlBlock` replaces it by the steps of `do_nftltrans_request` under
`aml_nftl_lock`, and adds the background thread and the reboot notifier. Of the
FTL it keeps where an acknowledged write is, in the cache or on the flash. A flush may
fail (`FlushFails`): part of the cache is then on the flash and the rest still in the
cache. Closes and the thread drop the error; the notifier ORs it into its result
(`error`) and sets `reboot_flag` all the same.

### Startup

`pc` walks the probe: `MapNfc`, `PhyInit` (all of `amlnf_phy_init`, one step that
may fail after some devices are listed), `LogicInit` and `DevInit` for every
device, `InitNftl`, and for every NTD entry `Attach`, `Initialize`, `SetFlags`,
`RunThread`, `AddDisk`. Each failing step does what the code does then: most end in
a probe that returns 0 with what it built left standing. `Reboot` may come at any
moment: `NotifierFlush`, `NotifierStop`, `NotifierEnd` are
`aml_nftl_reboot_notifier` of one device after the other, with `kthread_stop`
waiting for `ThreadExit`; `ShutDevice` and `Shutdown` are `amlnf_shutdown`, which
waits for the chip before each device. `ChipHangs` is the holder that `ChipLock` shows
waiting for itself: from then on the chip is not given back. What the kernel promises
is in the guards: registering and unregistering a notifier wait while the chain is
walked, `device_shutdown` waits for a probe that runs and lets none begin. `hit`
and `oops` are history variables: which steps failed, and what killed the reboot.
The inside of the service of requests is `NftlBlock`, which starts where this
module ends.

## 3. Runs

Violation runs state what a document, a message or a comment of the repository
says, and show that the code does otherwise; the findings in `PROJECT.json`
quote the line. All others pass.

| Run | Instance | Shows |
|---|---|---|
| `phy_ops` | 1 device, environment, shutdown, every operation, up to 2 pages, saves that fail, fair | exclusion, pins with the holder, no lost wakeup, no mutex leak; `ops_para` private to the running operation; at most one late operation; every operation that got the chip returns, and some waiter is always served, unless a save hangs in its block test |
| `lock_faults` | 3 threads, all faults | exclusion holds whatever fails |
| `lock_nested` | violation: 2 threads, block tests | a block test by a holder waits for the holder's own mutex |
| `store_saves` | 2 items of two pages, 6 blocks of 4 pages (one bad), 2 saves each, 2 power failures, 1 fault of any kind | a clean save is found until the next save of the item; refinement of `RegularStore` |
| `store_allfaults` | an item of one and one of two pages, 3 blocks, 2 saves each, 2 faults of any kind, 1 power failure | current copies spared, no page programmed twice, other items untouched |
| `store_torn` | violation: 2 items of two pages, no faults | a power failure in the erase of the old bad block table hides the new one |
| `read_page` | 2 chips, 1 or 2 planes, 3 retry levels, 6 makers, 3 reads, 1 time-out, 12 geometries, fair | each page in its place, but on and behind a mixed chip; lost pages reported; user bytes back; default read level restored; the read returns |
| `block_ops` | 1 or 2 chips of 24 blocks with 2 planes, 3 configurations, 2 tables, with bad blocks in every area, 2 operations or parameter changes, 1 restart | areas disjoint and stable, room for every device, marks seen |
| `repair` | violation: 1 chip, 2 marked reserved blocks, all guards shut | the repair at the start programs a page of a block it does not test |
| `nftl` | 1 disk, 1 user, 2 requests, a reboot, flushes that fail, write cache on, fair | order, no stranded request, every request completes, refinement of `RequestQueue`; one user of the FTL; early writes on flash; nothing forgotten; the notifier returns |
| `boot` | 4 copies of 8 pages, 7 chip kinds, lists of 2 entries, images of 2, 8 and 9 pages, a bad block or none, 2 writes, 2 faults of any kind | other copies whole, settings restored, steps fit |
| `startup` | a boot device and three others, one not selected, 16 kinds of failure, 2 probes, a reboot at any moment, fair | no half made device, the reboot reaches all and ends, disks placed |

### Other instances

The constants reach more than the runs keep. TLC also shows:

* `LockTypeOK`, `PhyTypeOK`, `StoreTypeOK`, `ReadTypeOK`, `BlockTypeOK`, `BlkTypeOK`,
  `NftlTypeOK` and `StartTypeOK` hold on the instances of the runs of their modules;
  so do `CurrentIsReserved`, `NoOverprogram` and `OthersUntouched` in `store_saves`.
* All properties of the store hold in `store_saves` with 2 faults and 1 power failure;
  `Durable` also with 3 saves of each item, with an environment of one and of three
  pages. All properties of `read_page` hold with 2 time-outs, those of `nftl` with a
  second call of the notifier.
* With 4 threads on the chip lock, `StateOwnerServed`: the owner of the chip state
  gets the pins. With two users of a disk, `RefBalance` and `ServedUnderLock`: opens
  and closes balance, and requests are served under `dev->lock`.
* `Faults = {"pinctrl"}` violates `NoSelfWait`: the retry loop of `nand_get_chip`
  (`dev/amlnf_ctrl.c:156`) locks the mutex it holds.
* `Faults = {"test_block", "no_memory"}` violates `HolderHasPins`: without memory
  `test_block_reserved` (`phy/chip_operation.c:1776`) gives back a chip it did not
  get.
* In `store_saves`, `TsMod = 4`, three saves and no faults violate
  `ImplementsRegularStore`: when the timestamp wraps while an item moves to a new
  block, a power failure brings the older contents back.
* In `store_saves`, `ReservedCnt = 4` violates `Durable`: with a factory bad block
  the range to allocate from reaches beyond the range the boot scans.
* `NeverLost`, violated in `store_torn`, holds for items of one page as long as no
  program and no erase fails. With a failing program it is violated for them too: the
  repair at boot can leave the pattern of `test_block_reserved` on flash under the name
  of the bad block table. With a failing erase of the old block as well: that block
  keeps the name and, when it lies lower, a boot takes it.
* In `read_page`, `EveryPageInPlace` is violated. A second plane that passes as erased
  jumps to `page_ff` past the reset of `plane0_retry_flag` (`phy/chip_operation.c:685`,
  `:757`), so the first page of the next chip is left out; an erased first plane is
  delivered without setting the flag (`:339`), and a retry of the second plane
  delivers it twice. `PagesInPlace` names these chips as its exception.
* In `read_page`, `LevelRestored` without `strayed` is violated: a disturbed erased
  page that passes at a level of the table leaves the chip there, as `page_ff` passes
  over the exit hook (`phy/chip_operation.c:844`).
* In `phy_ops` with two devices that read and write, `ReadVerdictOwn` is violated:
  `nand_read` looks at `ecc_err` and `bit_flip` (`dev/phydev.c:202`) after it
  released the chip, when they may describe another caller's pages.
* In `store_saves`, `Key = "nkey"` violates `KeysKept`: `amlnand_get_free_block`
  (`phy/chipenv.c:374`) spares listed blocks only, and without
  `CONFIG_AML_NAND_KEY` nothing lists the block of the keys; a save that reaches it
  erases them.
* In `block_ops`, `MarkInPlace` is violated: with `allow_meta` set a mark is programmed
  into a block of the metadata store and not into the marked unit
  (`phy/chip_operation.c:1406` to `:1429`), though `nfc_map.c:48` says that it "writes
  zeros into the out-of-band area of the block's first page". The table has it right
  (`MarkIsSeen`).
* In `block_ops`, `VerdictTrue` is violated: a status with fail bits that is not 0xe1
  passes after `NAND_STATUS_MAX_TRY` tries, and the write or erase returns success
  (`phy/chip_operation.c:1153`).
* In `block_ops`, without the exception in `MarkIsSeen` the invariant is violated:
  `block_markbad` (`phy/chip_operation.c:1365`) does nothing for a unit whose number
  is, taken as a block's, a bad block.
* In `block_ops`, `AreasDisjoint` without `chip_num = 1` is violated: with two chips
  the boot area is counted once but taken from both (`dev/phydev.c:1169`), so that the
  first device starts inside the metadata. With `ReservedCnt = 4` and no bad blocks
  the same holds of `MarkIsSeen`: the repair of the metadata area clears marks of that
  device.
* In `block_ops`, `LayoutStable` without its exception is violated with two chips and
  a factory bad block at `<<1, 5>>`, in the configuration `<<8>>`: that block's row
  starts with a block of metadata, a mark of which hides it from `block_isbad`
  (`phy/chip_operation.c:1269`), and after the next restart the device is smaller.
* In `block_ops`, the configuration `<<>>` (boot area and one device) never comes
  up: the size of the last device leaves out the metadata area
  (`dev/phydev.c:1153`) and is out of space.
* On two planes, or after a wait that timed out in a retry, `ecc_err` is not exact
  (`VerdictRight` claims it for the other cases only): the second plane is sensed
  first at the level the first one needed and never at the default one, so a page
  that only the default level corrects is reported lost.
* `LateOpBound` is tight: one operation does reach the chip after the shutdown
  flag (`dev/phydev.c:234`).
* `EarlyWritesSurvive` speaks of writes before the reboot notifier only: a later
  one may be served from `SkipRequest` (`block/aml_nftl_block.c:192`), which
  acknowledges it and does nothing. Without `error` it is violated: a flush that fails
  in the notifier does not keep it from setting `reboot_flag`.

* In `boot`, `AckedIsStored` is violated in several ways. All copies are erased
  before any is written (`phy/boot_operation.c:298`), so a power failure in between
  leaves none. `write_uboot` returns 1 when two or more copies failed, and
  `uboot_write` takes only negative results for errors: with every copy lost, or
  with `readonly` set and nothing written, it reports success. Without memory it
  returns `count`. An image longer than a block less one page is cut short.
* In `boot`, without `starved` `ControllerRestored` is violated: when `write_uboot`
  gets no memory its caller returns before it switches OOB mode on again.
* In `boot`, a copy in a block shipped bad, or in one that could not be erased, is
  programmed all the same. Pages behind a short image are taken from beyond the
  caller's buffer: `devops->len` is already `write_len` when `fill_buf` could be used.
* In `boot`, the short mode needs 35 info words on the chip with 16384 + 1664 bytes,
  and `user_buf` has 34: `StepsFit` leaves spare areas of 1536 bytes and more out.
* In `boot`, `RomPageFits` is violated: `oob_fill_boot` is what a page has left after
  one step of 512 bytes, and it is sent after all the steps of the ROM's page
  (`phy/hw_controller.c:616`), beyond the spare area on every chip of the tables but
  the one with 16384 + 1280 bytes.
* In `read_page` with `"intel"`, a page that another level could correct is lost:
  `set_reg_value_micron` (`phy/new_nand.c:794`) returns at once for its chips. With
  `"a19"` only the first entry of 29 or 30 is tried: `retry_cnt_up` is never set, so
  the counter goes back to 0 after each retry (`phy/new_nand.c:1106`). With
  `"toshiba"` and `"samsung"` the first retry is at the default level once more; with
  `"hynix20"` a page has to take 48 of 49 retries to be reported as worn, and all
  levels were tried after 7. `VerdictRight` is stated over the levels that are
  `Reached`.
* In `startup`, a reboot while the probe attaches a device can call a function that
  is not set yet (`block/aml_nftl_block.c:473`), or flush and flag a device whose
  flag the probe clears again before it starts a flush thread nobody stops (`:482`,
  `:485`; "add stop thread to ensure nftl quit safely", `:326`). `NoOops` and
  `RebootReachesAll` claim nothing for it. They also name what else the code leaves:
  an error pointer for a thread (`:486`), a device freed on `nphy_dev_list`
  (`dev/amlnf_dev.c:84`), a flush error whose bits end the walk (`:334`).
* In `startup`, `ClocksOn` is violated: when a clock is not there at the first probe,
  the second one finds `amlnf_core_clk` set and goes on without enabling anything
  (`nfc_map.c:167`); it may then wait for the command FIFO for good. `RebootEnds` has
  this and a chip that a holder keeps as its two exceptions.

Read off the code and not part of a model: an uncorrectable page of the environment
is reported as success (`phy/chipenv.c:566`), and a later save writes the damaged
buffer back; a save of the bad block table calls itself once per free block that
cannot be erased (`phy/chipenv.c:426`); `write_page` copies `ecc_steps * 2` user
bytes, for page 0 of a boot copy more than `write_uboot`'s buffer holds on large
pages; `oob_fill_boot` is cut to 14 bits on 16 KiB pages, as are raw transfers;
`controller_ecc_confirm`
divides by zero for pages of 512 bytes; `controller_quene_rb` reports a chip that got
ready in its last turn as busy; the wait for the info words in `controller_dma_read`
has no limit; a failing SLC program of a Hynix chip returns without
`slc_info->exit`; a failing `init_ntd` leaves an idr entry and is not tried again.

### Bounds

Threads, disks and users are interchangeable; two give every pairwise race, a third
(and for the lock a fourth) shows that a waiter among several is not forgotten. In
`phy_ops` the three users of the chip are a device, the environment device and the
shutdown; the proofs cover any number of devices. In the store, items of two pages in
blocks of four can be torn between their pages, and fill their block and move with
each save; two saves of either item and two power failures let a save, or the repair
at boot, after one failure meet a second one; the blocks of `store_saves` allow for
two items with an old and a new copy each and for one given up, those of
`store_allfaults` are too few, so that a save finds none. `MaxRequests`, `MaxCalls`,
`MaxSaves`, `MaxCrashes` and `MaxFaults` stop counters only; two requests let one be
queued while the other is served. `TsMod` is 100 and never reached: 2^16 saves are out
of reach, and the wrap is one of the instances above. `MaxTests`, 3 in the code, is 1
in the passing runs, so that faults use the retries up. In `block_ops` two operations
let a mark meet another mark, a parameter change or an operation before or after a
restart; at most one free block fails to erase per save (`MaxFail`); `Wrap` lies
inside the chip so that a device can start behind it; two marked blocks start a repair
(`RepairLimit`, 7 in the code). In `read_page` three entries let a table wrap and, for
Hynix, be gone through three times; a read of one or two planes and reads of one plane
after it (`ThenSingle`) show what a time-out or a skipped exit leaves behind; Samsung
and SanDisk's 19 nm chips step as Toshiba and Micron do. In `boot` two faults let a
page fail in two copies, or a write meet a second write after a power failure; copies
of 8 pages give every page list a page it skips and pages beyond its entries. In
`startup` two probes let the second find what the first left (`MaxProbes`), and the
partitions of the devices fit, are cut, and begin behind the end.

Runs of the store do not check deadlock: a store whose saves are used up, that
hangs, or that does not come up stops; `read_page` stops after its reads, `boot`
after its writes, `startup` when the machine is down, and `block_ops` after its
operations or when there is no room for a device. Lock runs with faults stop in the
deadlocks they are about, and `phy_ops` where a save hangs in its block test (what is
still promised then is `HolderReturns`). `nftl` checks it.

### Fairness

`LockFairSpec`, `PhyFairSpec`: weak fairness of what a thread does once it asked
for the chip (kernel threads are scheduled, the spinlock is short, a mutex
unlocked is handed to some waiter). Nobody has to ask. Not assumed: fairness
among waiters; `wake_up` wakes all and the fastest wins, so starvation of one
thread is possible and only `SomeoneServed` is claimed. `BlkFairSpec`: the
kernel runs queued work and runnable threads (weak) and hands a mutex out in turn
(strong; kernel mutexes hand off to starving waiters). `ReadFairSpec`: the caller
has the chip and is scheduled (weak). `NftlFairSpec`: the same for the work items,
whoever is inside the FTL comes out, and workers, users, the thread and the notifier
run and get `aml_nftl_lock` in turn (strong, for the same reason). Nobody has to
open a disk, submit a request or reboot. `StartSpec`: the probe, the reboot and the
flush threads run when they can (weak); the thread wakes up at least when its
timeout ends. No probe and no reboot has to begin, and nothing is assumed of anybody
who may need the chip once a holder keeps it, nor of a probe on dead clocks.

## 4. Proofs

TLAPS proves, for every value of the constants that satisfies the assumptions
named in the modules:

* `LockTypeCorrect`, `ChipIsExclusive`, `WakeupsAreKept` for any set of threads
  and any faults. The argument: `StateInv` counts the threads that own the chip
  state (at most one, and then the state is not `CHIP_READY`), and `WaitInv` says
  that sleepers are on the queue and the chip taken.
* `PinsStayWithHolder` and `MutexIsGivenBack` when the block test never lacks
  memory, from `MutexInv`, which ties the owner of the mutex, `nand_idleflag` and
  the pins to `pc`. It is needed because the owner of the chip state and the owner
  of the mutex are different threads for a while. With `no_memory`
  in `Faults` TLC finds both violated, so the condition is needed.
* `PhyTypeCorrect`, `ParametersArePrivate`, `OneLateOperation` for any devices,
  operations and request lengths. The first part of each is that every step of
  `Phydev` is a step of `ChipLock` or leaves its variables alone, so exclusion
  carries over; the bound on late operations needs that an operation which has
  not passed its test when the flag is set never passes it.

* `RequestsInOrder`, `RequestsNotStranded` and `FlushExcludesService` for any disks,
  users and requests, and `DiskIsAQueue`, the refinement of `RequestQueue` (its safety
  part). `QueueInv` numbers the requests: those completed, the one being served and
  those listed continue each other up to the last one submitted; `InOrder` alone does
  not say that the worker holds a request wherever it serves one. `LockInv` ties the
  owner of `dev->lock` to the places of workers and users.
* `NftlImplementsBlk`: every step of `NftlBlock` is a step of `BlkTrans` or leaves its
  variables alone, so all of this holds of the NFTL driver (`NftlDisksInOrder`).
  `FtlIsExclusive` and `FtlLockIsReturnable` come from `FtlLockInv`.
  `NoForgottenWrite` and `RebootKeepsEarlyWrites`, with the write cache on or off and
  whichever flushes fail (the second one: if the notifier's own does not), need
  `KeptInv` (a write that the FTL accepted but that is not yet acknowledged is stored
  too) and `NotifierInv` (after the notifier's flush the early writes are on flash, and
  stay there while it waits for the thread).
* `StepsStayInside` for pages of up to 32 KB with 16 to 127 spare bytes to a KB
  (`SpareSizes`; all sizes in `id_table.c` are of this kind). `DataSettings` finds the
  mode `controller_ecc_confirm` chooses, which then has exactly one step for each KB;
  the mode of the ROM's page has a step for each 512 bytes of page and spare area, and
  its info words fit only with OOB mode off, which `ModeInv` says it is.
* `SettingsAreRestored` for any copies, pages and faults of the boot area.
  `SettingsInv` says at each place of the writer what the controller is set to and
  what was saved to put it back. `FailuresStayInTheirCopy` says that a page that fails
  to program or to erase spoils its own copy and no other: `WriterInv` gives for each
  page of the area what has been erased and what the copies written so far hold. It
  needs that the slots of all copies and the pages filled behind them are different
  pages, for each page list; `BootAssumption` says for that that a copy is a multiple
  of 8 pages (256 in the code).
* `OopsHasACause`, `RebootIsComplete` and `EveryPartitionHasItsDisk` for any list of
  devices with any partitions. `NtdInv` and `ChainReady` describe what the probe has
  built at each of its places; `CauseInv` adds what a failed step leaves behind.
  `WalkInv` and `ShutInv` say that the devices before the walk's position are flushed
  and stopped. `DiskInv` says that the disks of a device end at or before the loop's
  offset (no two overlap), and `CompleteInv` that the partitions the loop has passed
  have their disks, each where the sizes before it add up to; that those sums exist
  and grow is shown by a least number argument.
* `RetryStaysInTable` and `ReadsLeaveDefaultLevel` for any number of chips, every
  maker and any table: `ReadAssumption` bounds its length by what an `unsigned char`
  counts. `LevelInv` says that of the chips no read left behind (`strayed`) only the one
  being retried is off its level, for pages in any condition. `PagesLandInPlace` and
  `LossesAreReported`, too, hold for any conditions, with the exception of mixed chips
  in their statements. They rest on `PlaceInv` (up to the first mixed chip the buffer
  holds the pages in order, and the flag is right) and `CountInv` (the counters agree
  with the pages delivered so far). That no page is given
  up too early needs `WalkInv`: each retry of a page started from counter 0 and the
  default level, so the levels tried are the first ones of the maker's walk, and all of
  them when the retries are used up. `UserBytesSurvive` holds if in addition the
  controller has a mode for every chip (`ModeFound`): `HowInv` says which pages of the
  buffer were found erased, `UserBytesEven` that a page has an even number of user
  bytes, and `UserBytesThrough` that `controller_get_user_byte` takes out of the info
  words what `controller_set_user_byte` put there.
* `DevicesHaveRoom` and `AreasAreDisjoint` follow from `AreaInv`: devices
  lie behind each other in whole units, RAM and flash agree on the factory bad
  blocks, and the scan that sized a device counted what was asked for. That the first
  device lies behind the boot area needs `BootAssumption`: with c chips the boot area
  is counted once but taken from each. The code's numbers satisfy it: 48 reserved
  blocks, 1024 boot pages, at most 4 chips and 64 pages per block or more.
* `LayoutIsStable` on any number of chips, as long as no row of the devices has both a
  reserved and a factory bad block (section 3 shows what happens otherwise); with one
  chip there is no such row (`OneChipNeverMoves`). `RowInv` says that RAM
  and flash agree on each row of the devices that has a factory bad block, so that no
  step changes which rows count as factory bad, and `Built` that the devices are the
  ones this table gives; a restart repeats the same computation. `MarksAreSeen` with
  one chip: `MarkedInv` follows marks through RAM, the saved table and the restart.
* `StoreIsTyped` and `CurrentCopyIsSpared` for any items, sizes, factory bad blocks,
  faults and power failures. Addresses are lost when the power fails and found again
  by a scan for names, so `CurrentIsReserved` is inductive only with the flash:
  `OwnInv` says that each known item owns a listed block with its name and that no
  block carries two names; `JobInv` that a save writes its name only into a block that
  is its own or nobody's.
* `SavesAreIsolated` for the same: every step of a save, a fault or a power failure in
  it included, writes to and erases only the block the save works in, a free one, or
  the item's own old block, and `OwnInv` and `JobInv` keep these apart from the blocks
  of the other items.
* `PagesAreWrittenOnce` for the same, as long as `2 * MaxSaves < TsMod`: a save uses
  up at most two timestamps, so they do not wrap. Where the next copy goes is computed
  from timestamps found by a scan, so the invariant, `LogInv`, orders the copies:
  those of an item that fills its pages have growing timestamps within a block and
  from block to block, and only the newest block is open, with readable copies up to a
  free place and erased pages behind it. The `arg_info` knows that place, or that a
  new block is due, and `BootLog` says that the boot scan finds it again. Other blocks
  may be torn by an interrupted erase; no scan chooses them.

The other invariants and the refinement of `RequestQueue` are thus proved for all values
of the constants, under the conditions named. Two safety properties of the store are
model-checked only: `Durable` and the refinement of `RegularStore`. They need, beyond
`LogInv`, which of several blocks with a name a scan prefers after any history of
faults. Liveness is only model-checked, too
(`EveryRequestCompletes`, `NotifierReturns`, `RebootEnds`, `ReadReturns`,
`HolderReturns`, `SomeoneServed`): fairness and `ENABLED` are beyond the prover.

## 5. Not modelled

The FTL core (binary); register sequences, timing and DMA of the controller and chip
detection (effects of the hardware, with little control of their own); identification
data and vendor commands of the chip tables; key and secure storage (not compiled);
sysfs and debug entry points; suspend and resume (never called); removal of the driver
(`amlnf_exit` is empty), and with it deletion of ntd devices. `PROJECT.json` lists
every part.

## 6. Plan

1. Proofs: `Durable` and the refinement of `RegularStore`. A save that meets no fault
   takes the lowest free block the scan reaches, and the blocks given up by earlier
   saves lie above it or are erased first; the invariant has to say so of every item
   that is not in doubt. `MarkIsSeen` for several chips whose devices lie behind the
   metadata.
2. Blocks marked bad in use in `InfoStore`, with `allow_markbad` set.
