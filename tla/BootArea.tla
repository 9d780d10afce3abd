------------------------------- MODULE BootArea -------------------------------
(***************************************************************************)
(* The boot loader's area and its character device (phy/boot_operation.c): *)
(* uboot_write erases the whole area and programs BOOT_COPY_NUM copies of  *)
(* the image.  The first page of a copy holds the configuration the boot   *)
(* ROM needs to read the rest, and is programmed with ECC settings of its  *)
(* own; they are the controller's, which every other operation uses too.   *)
(*                                                                         *)
(* The writer has the chip (ChipLock), so it is one sequence of steps that *)
(* only a power failure cuts short.  Pages are numbered as on the flash,   *)
(* slots as the writer counts them.                                        *)
(***************************************************************************)
EXTENDS EccLayout, FiniteSets

CONSTANTS
  BOOT_COPY_NUM, BOOT_PAGES_PER_COPY,
  NAND_PAGELIST_CNT,  \* entries of the page list in page 0
  Chips,        \* kinds of chip: [kind, pages_per_blk, oob_mod]
  Images,       \* lengths of images written, in pages
  BadBlocks,    \* sets of blocks shipped bad
  ReadOnly,     \* values of the parameter readonly
  Faults,       \* what may fail: "program", "erase", "memory", "power"
  MaxFails,     \* bound: faults
  MaxWrites     \* bound: writes

ASSUME BootAssumption ==
  /\ {BOOT_COPY_NUM, BOOT_PAGES_PER_COPY, NAND_PAGELIST_CNT} \subseteq Nat \ {0}
  /\ BOOT_PAGES_PER_COPY % 8 = 0
  /\ Chips \subseteq [kind : {"mlc", "list", "list_fill", "sandisk"},
                      pages_per_blk : {BOOT_PAGES_PER_COPY \div 2,
                                       BOOT_PAGES_PER_COPY},
                      oob_mod : BOOLEAN]
  /\ Images \subseteq Nat
  /\ ReadOnly \subseteq BOOLEAN
  /\ Faults \subseteq {"program", "erase", "memory", "power"}
  /\ {MaxFails, MaxWrites} \subseteq Nat

VARIABLES
  chip, bad, readonly,   \* the instance, chosen at the start
  pc,         \* where the writer is; "idle": the chip is free
  image,      \* the image being written: [id, pages]
  len,        \* write_len, in pages
  blk,        \* the next block to erase
  copy, slot, \* the copy and the slot in it to program next
  datbuf,     \* the part of the image the next data page takes
  controller, \* [ecc, oob_mod]: settings every operation uses
  tmp_ecc, oob_set,  \* what write_uboot and roomboot_nand_write saved
  page0,      \* page0_buf: [ecc, pagelist, list]
  status,     \* write_boot_status
  ret,        \* result of write_uboot
  flash,      \* contents of the pages of the area
  fresh,      \* history: blocks the current write erased
  acked,      \* history: the image of the last write that reported success
  starved,    \* history: write_uboot got no memory since the start
  writes, fails

inst == <<chip, bad, readonly>>
job == <<image, len, blk, copy, slot, datbuf, tmp_ecc, oob_set, page0, status>>
vars == <<inst, pc, job, controller, ret, flash, fresh, acked, starved, writes,
          fails>>

Copies == 0..BOOT_COPY_NUM - 1
Pages == 0..BOOT_COPY_NUM * BOOT_PAGES_PER_COPY - 1
Blocks == 0..Cardinality(Pages) \div chip.pages_per_blk - 1
BlockOf(p) == p \div chip.pages_per_blk

(* DEV_SLC_MODE: the chips whose blocks are used as half as many slots.    *)
Slc == chip.kind # "mlc"

(* slc_info->pagelist, the two tables of new_nand.c.                       *)
PageList(i) ==
  CASE chip.kind = "list_fill" -> IF i = 0 THEN 0 ELSE 2 * i - 1
    [] chip.kind = "list" -> IF i < 2 THEN i
                             ELSE IF i % 2 = 0 THEN 2 * i - 2 ELSE 2 * i - 3
    [] OTHER -> i

(* The page that slot s of copy c is programmed to.                        *)
PageOf(c, s) ==
  LET addr == BOOT_PAGES_PER_COPY * c + s
      base == (addr \div chip.pages_per_blk) * chip.pages_per_blk
  IN CASE chip.kind \in {"list", "list_fill"} -> base + PageList(s)
       [] chip.kind = "sandisk" -> base + 2 * (addr % chip.pages_per_blk)
       [] OTHER -> addr

(* nand_boot_info_prepare: the ECC settings of the data pages and, for the *)
(* SLC chips, a flag and the pages of the first slots after page 0, one    *)
(* slot less on SanDisk chips.                                             *)
BootInfo ==
  [ecc |-> controller.ecc,
   pagelist |-> Slc,
   list |-> [s \in 1..NAND_PAGELIST_CNT |->
               CASE chip.kind = "sandisk" -> IF s < NAND_PAGELIST_CNT THEN 2 * s ELSE 0
                 [] chip.kind \in {"list", "list_fill"} -> PageList(s)
                 [] OTHER -> 0]]

(* A page is erased, or holds data programmed with some settings, or can   *)
(* no longer be read.                                                      *)
Erased == [is |-> "erased"]
Garbled == [is |-> "garbled"]
Holding(d, ecc, oob) == [is |-> "programmed", data |-> d, ecc |-> ecc, oob_mod |-> oob]
Config(info) == [is |-> "config", info |-> info]
Part(id, n) == [is |-> "part", id |-> id, n |-> n]
Fill == [is |-> "fill"]

NoImage == [id |-> 0, pages |-> 0]
NoInfo == [ecc |-> "data", pagelist |-> FALSE, list |-> <<>>]

BootInit ==
  /\ chip \in Chips
  /\ bad \in BadBlocks
  /\ readonly \in ReadOnly
  /\ pc = "idle"
  /\ image = NoImage
  /\ len = 0 /\ blk = 0 /\ copy = 0 /\ slot = 0 /\ datbuf = 1
  /\ controller = [ecc |-> "data", oob_mod |-> chip.oob_mod]
  /\ tmp_ecc = "data"
  /\ oob_set = FALSE
  /\ page0 = NoInfo
  /\ status = {}
  /\ ret = 0
  /\ flash = [p \in Pages |-> Garbled]
  /\ fresh = {}
  /\ acked = NoImage
  /\ starved = FALSE
  /\ writes = 0
  /\ fails = 0

Fault(f) == f \in Faults /\ fails < MaxFails /\ fails' = fails + 1

-----------------------------------------------------------------------------
(* uboot_write: the buffer, the parameters, amlnand_get_device.  Without   *)
(* memory it returns count, as if all had been written.                    *)
UbootWrite(n) ==
  /\ pc = "idle"
  /\ writes < MaxWrites
  /\ writes' = writes + 1
  /\ LET i == [id |-> writes', pages |-> n] IN
     \/ /\ image' = i
        /\ pc' = "check"
        /\ ret' = 0
        /\ fresh' = {}
        /\ UNCHANGED <<acked, fails>>
     \/ /\ Fault("memory")
        /\ acked' = i
        /\ UNCHANGED <<image, pc, ret, fresh>>
  /\ UNCHANGED <<inst, starved, len, blk, copy, slot, datbuf, tmp_ecc, oob_set, page0,
                 status, controller, flash>>

(* roomboot_nand_write: at least a block is written, half a block on SLC   *)
(* chips whatever the image; a copy must fit; OOB mode is switched off.    *)
WriteLen == IF Slc THEN chip.pages_per_blk \div 2
            ELSE IF image.pages < chip.pages_per_blk THEN chip.pages_per_blk
            ELSE image.pages

CheckLen ==
  /\ pc = "check"
  /\ \/ /\ WriteLen > BOOT_PAGES_PER_COPY
        /\ ret' = -1
        /\ pc' = "release"
        /\ UNCHANGED <<len, oob_set, controller, blk>>
     \/ /\ WriteLen <= BOOT_PAGES_PER_COPY
        /\ len' = WriteLen
        /\ oob_set' = controller.oob_mod
        /\ controller' = [controller EXCEPT !.oob_mod = FALSE]
        /\ blk' = 0
        /\ pc' = "erase"
        /\ UNCHANGED ret
  /\ UNCHANGED <<inst, starved, image, copy, slot, datbuf, tmp_ecc, page0, status,
                 flash, fresh, acked, writes, fails>>

(* A block shipped bad is passed over; one that cannot be erased is only   *)
(* reported, and programmed all the same.                                  *)
EraseBlock ==
  /\ pc = "erase"
  /\ blk' = blk + 1
  /\ pc' = IF blk' \in Blocks THEN "erase" ELSE "begin"
  /\ \/ /\ blk \notin bad /\ ~readonly
        /\ flash' = [p \in Pages |-> IF BlockOf(p) = blk THEN Erased ELSE flash[p]]
        /\ fresh' = fresh \cup {blk}
        /\ UNCHANGED fails
     \/ /\ blk \notin bad /\ ~readonly
        /\ Fault("erase")
        /\ flash' = [p \in Pages |-> IF BlockOf(p) = blk THEN Garbled ELSE flash[p]]
        /\ UNCHANGED fresh
     \/ /\ blk \in bad \/ readonly
        /\ UNCHANGED <<flash, fresh, fails>>
  /\ UNCHANGED <<inst, starved, image, len, copy, slot, datbuf, tmp_ecc, oob_set, page0,
                 status, controller, ret, acked, writes>>

(* write_uboot: save the ECC settings, get the buffers, prepare page 0.    *)
BeginCopies ==
  /\ pc = "begin"
  /\ tmp_ecc' = controller.ecc
  /\ \/ /\ page0' = BootInfo
        /\ status' = {}
        /\ copy' = 0 /\ slot' = 0 /\ datbuf' = 1
        /\ pc' = "page"
        /\ UNCHANGED <<ret, starved, fails>>
     \/ /\ Fault("memory")
        /\ starved' = TRUE
        /\ ret' = -1
        /\ pc' = "restore"
        /\ UNCHANGED <<page0, status, copy, slot, datbuf>>
  /\ UNCHANGED <<inst, image, len, blk, oob_set, controller, flash, fresh,
                 acked, writes>>

-----------------------------------------------------------------------------
(* The pages of a copy.  A page that is not erased cannot be programmed.   *)

Programmed(p, d, ecc) ==
  IF flash[p] = Erased THEN Holding(d, ecc, controller.oob_mod) ELSE Garbled

(* On to the next copy: the image is taken from its start again.           *)
NextCopyFrom(d) ==
  /\ copy' = copy + 1
  /\ slot' = 0
  /\ datbuf' = d
  /\ pc' = IF copy' \in Copies THEN "page" ELSE "sum"

(* Mutant of NextCopy: datbuf is not reset.                                *)
NextCopyOnward == NextCopyFrom(datbuf + 1)

NextCopy == NextCopyFrom(1)

(* The pages that list_fill chips skip are filled without ECC before the   *)
(* page itself, and their result is not looked at.                         *)
Skipped ==
  IF chip.kind = "list_fill" /\ slot > 1
  THEN PageOf(copy, slot - 1) + 1 .. PageOf(copy, slot) - 1 ELSE {}
WithFill == [p \in Pages |-> IF p \in Skipped /\ ~readonly
                             THEN Programmed(p, Fill, "none") ELSE flash[p]]

(* operation->write_page reports an error: the copy is given up, and the   *)
(* controller keeps the settings of the page.  A failing program leaves    *)
(* the page unreadable; with readonly nothing reaches the chip.            *)
PageFails(p) ==
  /\ \/ readonly /\ UNCHANGED <<flash, fails>>
     \/ /\ ~readonly
        /\ Fault("program")
        /\ flash' = [WithFill EXCEPT ![p] = Garbled]
  /\ status' = status \cup {copy}
  /\ NextCopy

(* Page 0 of a copy: page0_buf with the settings for the ROM.              *)
ConfigPage ==
  LET p == PageOf(copy, 0) IN
  /\ pc = "page" /\ slot = 0
  /\ \/ /\ PageFails(p)
        /\ controller' = [controller EXCEPT !.ecc = "short"]
     \/ /\ ~readonly
        /\ flash' = [flash EXCEPT ![p] = Programmed(p, Config(page0), "short")]
        /\ slot' = 1
        /\ controller' = [controller EXCEPT !.ecc = tmp_ecc]
        /\ UNCHANGED <<pc, copy, datbuf, status, fails>>
  /\ UNCHANGED <<inst, starved, image, len, blk, tmp_ecc, oob_set, page0, ret, fresh,
                 acked, writes>>

(* What lies at datbuf: a page of the image, or what follows the buffer,   *)
(* which is never replaced by fill_buf since devops->len is write_len.     *)
AtDatbuf == Part(image.id, IF datbuf <= image.pages THEN datbuf ELSE 0)

(* After the fill the saved settings are set again.                        *)
DataEcc == IF chip.kind = "list_fill" /\ slot > 1 THEN tmp_ecc ELSE controller.ecc

(* A copy ends with its length or at the end of the block.                 *)
LastSlot ==
  \/ slot >= len - 1
  \/ (slot + 1) % (chip.pages_per_blk \div (IF Slc THEN 2 ELSE 1)) = 0

DataPage ==
  LET p == PageOf(copy, slot) IN
  /\ pc = "page" /\ slot > 0
  /\ controller' = [controller EXCEPT !.ecc = DataEcc]
  /\ \/ PageFails(p)
     \/ /\ ~readonly
        /\ flash' = [WithFill EXCEPT ![p] = Programmed(p, AtDatbuf, DataEcc)]
        /\ \/ LastSlot /\ NextCopy
           \/ /\ ~LastSlot
              /\ slot' = slot + 1
              /\ datbuf' = datbuf + 1
              /\ UNCHANGED <<pc, copy>>
        /\ UNCHANGED <<status, fails>>
  /\ UNCHANGED <<inst, starved, image, len, blk, tmp_ecc, oob_set, page0, ret, fresh,
                 acked, writes>>

-----------------------------------------------------------------------------
(* One lost copy is a success, more are a positive result.                 *)
SumUp ==
  /\ pc = "sum"
  /\ ret' = IF Cardinality(status) < 2 THEN 0 ELSE 1
  /\ pc' = "restore"
  /\ UNCHANGED <<inst, starved, job, controller, flash, fresh, acked, writes, fails>>

(* Mutant of Restore: only after success are the ECC settings restored.    *)
RestoreOnSuccess ==
  /\ pc = "restore"
  /\ controller' = [ecc |-> IF ret = 0 THEN tmp_ecc ELSE controller.ecc,
                    oob_mod |-> IF ret < 0 THEN controller.oob_mod ELSE oob_set]
  /\ pc' = "release"
  /\ UNCHANGED <<inst, starved, job, ret, flash, fresh, acked, writes, fails>>

(* error_exit of write_uboot restores the ECC settings on every path; its  *)
(* caller restores OOB mode, but not after an error.                       *)
Restore ==
  /\ pc = "restore"
  /\ controller' = [ecc |-> tmp_ecc,
                    oob_mod |-> IF ret < 0 THEN controller.oob_mod ELSE oob_set]
  /\ pc' = "release"
  /\ UNCHANGED <<inst, starved, job, ret, flash, fresh, acked, writes, fails>>

(* The end of uboot_write: a negative result is reported as nothing        *)
(* written, any other as all of it; amlnand_release_device.                *)
Release ==
  /\ pc = "release"
  /\ acked' = IF ret < 0 THEN NoImage ELSE image
  /\ pc' = "idle"
  /\ UNCHANGED <<inst, starved, job, controller, ret, flash, fresh, writes, fails>>

(* The power fails, perhaps in the middle of a page; the driver starts     *)
(* again, and with it the settings of the controller.                      *)
PowerFailure ==
  /\ pc # "idle"
  /\ Fault("power")
  /\ pc' = "idle"
  /\ controller' = [ecc |-> "data", oob_mod |-> chip.oob_mod]
  /\ acked' = NoImage
  /\ starved' = FALSE
  /\ \/ UNCHANGED flash
     \/ /\ pc = "page" /\ ~readonly
        /\ flash' = [flash EXCEPT ![PageOf(copy, slot)] = Garbled]
  /\ UNCHANGED <<inst, job, ret, fresh, writes>>

BootNext ==
  \/ \E n \in Images : UbootWrite(n)
  \/ CheckLen \/ EraseBlock \/ BeginCopies
  \/ ConfigPage \/ DataPage
  \/ SumUp \/ Restore \/ Release
  \/ PowerFailure

BootSpec == BootInit /\ [][BootNext]_vars

-----------------------------------------------------------------------------
(* What the boot ROM makes of copy c: it reads page 0 with the short mode, *)
(* and with the settings and the page list found there the other pages.    *)
ConfigOf(c) == flash[BOOT_PAGES_PER_COPY * c]

RomCanStart(c) ==
  /\ ConfigOf(c).is = "programmed"
  /\ ConfigOf(c).data.is = "config"
  /\ ConfigOf(c).ecc = "short"
  /\ ~ConfigOf(c).oob_mod

(* Where the ROM looks for data page s: as long as page 0 has a list, in   *)
(* the list; otherwise the pages follow each other.  Beyond the entries of *)
(* the list page 0 does not say.                                           *)
RomKnows(c, s) ==
  LET info == ConfigOf(c).data.info
  IN info.pagelist => s \in DOMAIN info.list /\ info.list[s] # 0

RomPage(c, s) ==
  LET info == ConfigOf(c).data.info
  IN flash[BOOT_PAGES_PER_COPY * c + IF info.pagelist THEN info.list[s] ELSE s]

(* What data page s of image i is on the flash, with the settings page 0   *)
(* of copy c names.                                                        *)
Readable(c, i, s) == Holding(Part(i.id, s), ConfigOf(c).data.info.ecc, FALSE)

(* The copy gives the ROM the first n pages of image i, as far as page 0   *)
(* leads it.                                                               *)
RomReads(c, i, n) ==
  /\ RomCanStart(c)
  /\ \A s \in 1..n : RomKnows(c, s) => RomPage(c, s) = Readable(c, i, s)

(* Pages of data that fit into a copy.                                     *)
Capacity == IF Slc THEN chip.pages_per_blk \div 2 - 1 ELSE chip.pages_per_blk - 1

(* When the writer is done, every copy in a block it could erase and in    *)
(* which no page failed has every page of the image in its slot, and the   *)
(* ROM finds through page 0 the pages that page 0 leads to: a page that    *)
(* fails, page 0 with its own settings included, harms its own copy only.  *)
OtherCopiesWhole ==
  pc = "restore" /\ ret >= 0 =>
    \A c \in Copies \ status :
      BlockOf(PageOf(c, 0)) \in fresh =>
        LET n == IF image.pages < Capacity THEN image.pages ELSE Capacity
        IN /\ RomReads(c, image, n)
           /\ \A s \in 1..n : flash[PageOf(c, s)] = Readable(c, image, s)

(* Whoever gets the chip after the boot writer finds the ECC settings of   *)
(* the data, whichever page failed and however the write ended, and the    *)
(* OOB mode too unless a writer got no memory since the start.             *)
ControllerRestored ==
  pc = "idle" => /\ controller.ecc = "data"
                 /\ starved \/ controller.oob_mod = chip.oob_mod

(* The settings of the transfer the writer makes next, or would make if    *)
(* another operation had the chip now.                                     *)
RomSettings == controller.ecc = "short" \/ (pc = "page" /\ slot = 0)
Settings(g) == IF RomSettings THEN ShortSettings(g) ELSE EccConfirm(g)

(* The steps of a transfer take no more than the caller's page, lie on the *)
(* flash inside the page and its spare area, and have their info words     *)
(* inside user_buf (those of the ROM's page on spare areas below 1536      *)
(* bytes only, and only because OOB mode is off).  Data pages are covered  *)
(* to the last byte by the steps and the fill.  Of the ROM's page this     *)
(* says nothing about the fill that follows the steps (RomPageFits).       *)
StepsFit ==
  \A g \in {h \in Geometries : OobMod(h) = chip.oob_mod} :
    LET s == Settings(g)
        data == s.ecc_steps * s.mode.unit_size
    IN /\ data <= g.pagesize
       /\ s.ecc_steps * StepSize(s.mode) <= Whole(g)
       /\ ~RomSettings => data = g.pagesize /\ OobFill(g, s) >= 0
       /\ (RomSettings => g.oobsize < 1536)
            => InfoWords(s, controller.oob_mod) <= UserBufWords(g)

(* The fill after the steps of the ROM's page completes the spare area, as *)
(* it does for the data pages: no more bytes are sent than the page takes. *)
RomPageFits ==
  pc = "page" /\ slot = 0 =>
    \A g \in {h \in Geometries : OobMod(h) = chip.oob_mod} :
      Settings(g).ecc_steps * StepSize(Settings(g).mode) + OobFillBoot(g) <= Whole(g)

(* A write that is reported as done can be started from.                   *)
AckedIsStored ==
  pc = "idle" /\ acked # NoImage => \E c \in Copies : RomReads(c, acked, acked.pages)
=============================================================================
