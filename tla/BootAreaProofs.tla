--------------------------- MODULE BootAreaProofs ---------------------------
(***************************************************************************)
(* Proofs about BootArea, for any number of copies, pages and faults.      *)
(*                                                                         *)
(* Writing a boot copy switches the controller to the ECC settings of the  *)
(* ROM's page and OOB mode off, and back. SettingsInv says at each place   *)
(* of the writer what the controller is set to and what has been saved to  *)
(* restore it.                                                             *)
(*                                                                         *)
(* WriterInv says what the copies hold: those before the current one are   *)
(* whole unless a page of theirs failed, the current one is written up to  *)
(* its slot, the rest of what could be erased is blank. It needs that the  *)
(* slots of all copies, and the pages filled between them, are different   *)
(* pages (AtDiffers, FillIsApart), whichever page list the chip has.       *)
(*                                                                         *)
(* ModeInv says that the settings of the ROM's page are met only with OOB  *)
(* mode off; what a transfer takes with either settings is arithmetic on   *)
(* the sizes of the page and its spare area.                               *)
(***************************************************************************)
EXTENDS BootArea, TLAPS

(* What each place of the boot copy loop knows of the settings. The ECC    *)
(* mode is the one of data outside the pages and after the restore; while  *)
(* the pages are written the saved value is what the restore puts back.    *)
(* The OOB mode is the chip's own wherever a call can return, unless a     *)
(* writer got no memory since the start, and the value to put back is      *)
(* known between the two settings.                                         *)
SettingsInv ==
  /\ pc \in {"idle", "check", "erase", "begin", "page", "sum", "restore",
             "release"}
  /\ ret \in {-1, 0, 1}
  /\ starved \in BOOLEAN
  /\ controller = [ecc |-> controller.ecc, oob_mod |-> controller.oob_mod]
  /\ pc \in {"idle", "check", "erase", "begin", "release"} =>
       controller.ecc = "data"
  /\ pc \in {"page", "sum", "restore"} => tmp_ecc = "data"
  /\ pc \in {"idle", "check", "release"} =>
       starved \/ controller.oob_mod = chip.oob_mod
  /\ pc \in {"erase", "begin", "page", "sum", "restore"} =>
       starved \/ oob_set = chip.oob_mod
  /\ pc = "restore" => starved \/ ret >= 0

(* The settings are right before the first call.                           *)
LEMMA SettingsInvInit == BootInit => SettingsInv
<1> SUFFICES ASSUME BootInit PROVE SettingsInv
  OBVIOUS
<1>1. /\ controller = [ecc |-> "data", oob_mod |-> chip.oob_mod]
      /\ pc = "idle" /\ ret = 0 /\ starved = FALSE
  BY DEF BootInit
<1>2. controller.ecc = "data" /\ controller.oob_mod = chip.oob_mod
  BY <1>1
<1> QED
  BY <1>1, <1>2 DEF SettingsInv

(* Each step of write_uboot, of roomboot_nand_write and of the calls       *)
(* between them keeps the settings as its place promises.                  *)
LEMMA SettingsInvStep == SettingsInv /\ [BootNext]_vars => SettingsInv'
<1> SUFFICES ASSUME SettingsInv, [BootNext]_vars PROVE SettingsInv'
  OBVIOUS
<1> USE DEF SettingsInv, inst, job
<1>1. ASSUME NEW n \in Images, UbootWrite(n) PROVE SettingsInv'
  BY <1>1 DEF UbootWrite
<1>2. ASSUME CheckLen PROVE SettingsInv'
  BY <1>2 DEF CheckLen
<1>3. ASSUME EraseBlock PROVE SettingsInv'
  BY <1>3 DEF EraseBlock
<1>4. ASSUME BeginCopies PROVE SettingsInv'
  BY <1>4 DEF BeginCopies
<1>5. ASSUME ConfigPage PROVE SettingsInv'
  BY <1>5 DEF ConfigPage, PageFails, NextCopy, NextCopyFrom
<1>6. ASSUME DataPage PROVE SettingsInv'
  BY <1>6 DEF DataPage, PageFails, NextCopy, NextCopyFrom
<1>7. ASSUME SumUp PROVE SettingsInv'
  BY <1>7 DEF SumUp
<1>8. ASSUME Restore PROVE SettingsInv'
  BY <1>8 DEF Restore
<1>9. ASSUME Release PROVE SettingsInv'
  BY <1>9 DEF Release
<1>10. ASSUME PowerFailure PROVE SettingsInv'
  BY <1>10 DEF PowerFailure
<1>11. CASE UNCHANGED vars
  BY <1>11 DEF vars
<1> HIDE DEF SettingsInv, inst, job
<1> QED
  BY <1>1, <1>2, <1>3, <1>4, <1>5, <1>6, <1>7, <1>8, <1>9, <1>10, <1>11
  DEF BootNext

(* Whatever fails on the way (erase, program, a wait for the chip), a      *)
(* write of the boot area leaves the controller with the ECC settings of   *)
(* the data, and with the OOB mode of the chip unless a writer got no      *)
(* memory: the error exit of write_uboot puts the ECC back and             *)
(* roomboot_nand_write the OOB mode.                                       *)
THEOREM SettingsAreRestored == BootSpec => []ControllerRestored
<1>1. SettingsInv => ControllerRestored
  BY DEF SettingsInv, ControllerRestored
<1> QED
  BY SettingsInvInit, SettingsInvStep, <1>1, PTL DEF BootSpec

-----------------------------------------------------------------------------
(* The pages of the copies.                                                *)

(* The slots of a copy.                                                    *)
SlotNum == chip.pages_per_blk \div (IF Slc THEN 2 ELSE 1)
CopySlots == 0..SlotNum - 1

(* The page of slot s in its copy, and on the flash.                       *)
Off(s) == IF chip.kind = "sandisk" THEN 2 * s ELSE PageList(s)
At(c, s) == BOOT_PAGES_PER_COPY * c + Off(s)

(* The number of blocks in a copy.                                         *)
BlksPerCopy == IF chip.pages_per_blk = BOOT_PAGES_PER_COPY THEN 1 ELSE 2

(* The block a copy is in.                                                 *)
Home(c) == BlksPerCopy * c

(* What a division with remainder is.                                      *)
LEMMA DivFacts ==
  ASSUME NEW a \in Int, NEW m \in Nat \ {0}
  PROVE  /\ a \div m \in Int /\ a % m \in Int /\ a = m * (a \div m) + (a % m)
         /\ 0 <= a % m /\ a % m < m
  BY Z3

(* Comparing multiples.                                                    *)
LEMMA Cancel ==
  ASSUME NEW a \in Int, NEW b \in Int, NEW m \in Nat \ {0}, m * a < m * b + m
  PROVE  a <= b
<1> SUFFICES ASSUME a >= b + 1 PROVE FALSE
  OBVIOUS
<1>1. PICK d \in Nat : a = b + 1 + d
  <2>1. a - b - 1 \in Nat /\ a = b + 1 + (a - b - 1)
    OBVIOUS
  <2> QED
    BY <2>1
<1>2. m * a = m * b + m + m * d /\ m * d >= 0 /\ m * b \in Int /\ m * d \in Int
  BY <1>1, Z3
<1> QED
  BY <1>2, Z3

(* Quotient and remainder are the only numbers with their property.        *)
LEMMA DivUnique ==
  ASSUME NEW m \in Nat \ {0}, NEW q \in Int, NEW r \in Int, 0 <= r, r < m
  PROVE  (m * q + r) \div m = q /\ (m * q + r) % m = r
<1> DEFINE a == m * q + r
           p == a \div m
           t == a % m
<1>1. m * q \in Int /\ a \in Int
  BY Z3
<1>2. p \in Int /\ t \in Int /\ a = m * p + t /\ 0 <= t /\ t < m
  <2> HIDE DEF a
  <2> QED
    BY <1>1, DivFacts
<1>3. m * p \in Int
  BY <1>2, Z3
<1> HIDE DEF p, t
<1>4. m * p < m * q + m /\ m * q < m * p + m
  BY <1>1, <1>2, <1>3
<1>5. p <= q /\ q <= p
  BY <1>2, <1>4, Cancel
<1>6. p = q
  BY <1>2, <1>5
<1>7. t = r
  BY <1>1, <1>2, <1>6
<1> QED
  BY <1>6, <1>7 DEF p, t

(* The sizes: a copy is one or two blocks and a slot is a page or two.     *)
LEMMA Sizes ==
  ASSUME chip \in Chips
  PROVE  /\ BOOT_PAGES_PER_COPY \in Nat \ {0} /\ BOOT_COPY_NUM \in Nat \ {0}
         /\ chip.pages_per_blk \in Nat \ {0}
         /\ BlksPerCopy \in {1, 2}
         /\ BOOT_PAGES_PER_COPY = BlksPerCopy * chip.pages_per_blk
         /\ chip.pages_per_blk <= BOOT_PAGES_PER_COPY
         /\ SlotNum \in Nat /\ SlotNum >= 2 /\ SlotNum <= chip.pages_per_blk
         /\ Slc => chip.pages_per_blk = 2 * SlotNum /\ chip.pages_per_blk \div 2 = SlotNum
         /\ ~Slc => chip.pages_per_blk = SlotNum
         /\ chip.kind \in {"mlc", "list", "list_fill", "sandisk"}
         /\ chip.oob_mod \in BOOLEAN
<1>1. /\ chip \in [kind : {"mlc", "list", "list_fill", "sandisk"},
                   pages_per_blk : {BOOT_PAGES_PER_COPY \div 2, BOOT_PAGES_PER_COPY},
                   oob_mod : BOOLEAN]
      /\ BOOT_PAGES_PER_COPY \in Nat \ {0} /\ BOOT_COPY_NUM \in Nat \ {0}
      /\ BOOT_PAGES_PER_COPY % 8 = 0
  BY BootAssumption
<1> DEFINE b == BOOT_PAGES_PER_COPY
           k == b \div 8
           n == chip.pages_per_blk
<1>2. k \in Int /\ b = 8 * k
  BY <1>1, Z3
<1> HIDE DEF k
<1>3. k \in Nat \ {0}
  BY <1>1, <1>2
<1>4. b \div 2 = 4 * k
  BY <1>2, <1>3, Z3
<1>5. n \in {4 * k, 8 * k} /\ n \div 2 \in {2 * k, 4 * k} /\ n \div 1 = n
  <2>1. n \in {4 * k, 8 * k}
    BY <1>1, <1>2, <1>4
  <2> HIDE DEF n
  <2> QED
    BY <1>3, <2>1, Z3
<1>6. chip.kind \in {"mlc", "list", "list_fill", "sandisk"} /\ chip.oob_mod \in BOOLEAN
  BY <1>1
<1>7. n \in Nat \ {0} /\ 2 * (n \div 2) = n /\ n \div 2 >= 2 /\ n \div 2 \in Nat
      /\ n >= 2 /\ n <= b
  <2> HIDE DEF n
  <2>1. 2 * (n \div 2) = n
    BY <1>3, <1>5, Z3
  <2> QED
    BY <1>2, <1>3, <1>5, <2>1
<1>8. BlksPerCopy \in {1, 2} /\ b = BlksPerCopy * n
  BY <1>2, <1>3, <1>5 DEF BlksPerCopy
<1>9. SlotNum = IF Slc THEN n \div 2 ELSE n
  BY <1>5 DEF SlotNum
<1> HIDE DEF n, b
<1>10. /\ SlotNum \in Nat /\ SlotNum >= 2 /\ SlotNum <= n
       /\ Slc => n = 2 * SlotNum /\ n \div 2 = SlotNum
       /\ ~Slc => n = SlotNum
  BY <1>7, <1>9
<1> QED
  BY <1>1, <1>6, <1>7, <1>8, <1>10 DEF n, b

(* A remainder by two is 0 or 1.                                           *)
LEMMA Parity == ASSUME NEW s \in Nat
                PROVE  s % 2 \in {0, 1} /\ \E h \in Nat : s = 2 * h + (s % 2)
<1>1. s % 2 \in {0, 1} /\ s \div 2 \in Nat /\ s = 2 * (s \div 2) + (s % 2)
  BY Z3
<1> QED
  BY <1>1

(* The slots of a copy have pages of their own in the block of the copy.   *)
LEMMA OffFacts ==
  ASSUME chip \in Chips
  PROVE  /\ \A s \in CopySlots : Off(s) \in Nat /\ Off(s) < chip.pages_per_blk
         /\ \A s, t \in CopySlots : Off(s) = Off(t) => s = t
         /\ Off(0) = 0
<1> USE Sizes
<1>1. CASE chip.kind \in {"mlc", "sandisk"}
  BY <1>1 DEF Off, PageList, CopySlots, Slc
<1>2. CASE chip.kind = "list_fill"
  <2>1. \A s \in CopySlots : s \in Nat /\ Off(s) = IF s = 0 THEN 0 ELSE 2 * s - 1
    BY <1>2 DEF Off, PageList, CopySlots
  <2>2. \A s \in CopySlots : 2 * s + 2 <= chip.pages_per_blk
    BY <1>2 DEF CopySlots, Slc
  <2>3. \A s \in CopySlots : Off(s) \in Nat /\ Off(s) < chip.pages_per_blk
    <3> SUFFICES ASSUME NEW s \in CopySlots
                 PROVE  Off(s) \in Nat /\ Off(s) < chip.pages_per_blk
      OBVIOUS
    <3>1. Off(s) \in Nat /\ Off(s) <= 2 * s /\ s \in Nat
      BY <2>1
    <3> QED
      BY <2>2, <3>1
  <2>4. \A s, t \in CopySlots : Off(s) = Off(t) => s = t
    BY <2>1
  <2>5. 0 \in CopySlots
    BY DEF CopySlots
  <2> QED
    BY <2>1, <2>3, <2>4, <2>5
<1>3. CASE chip.kind = "list"
  <2>1. \A s \in CopySlots : /\ s \in Nat /\ s % 2 \in {0, 1}
                         /\ Off(s) = IF s < 2 THEN s
                                     ELSE IF s % 2 = 0 THEN 2 * s - 2 ELSE 2 * s - 3
    BY <1>3, Parity DEF Off, PageList, CopySlots
  <2>2. \A s \in CopySlots : 2 * s + 2 <= chip.pages_per_blk
    BY <1>3 DEF CopySlots, Slc
  <2>3. \A s \in CopySlots : Off(s) \in Nat /\ Off(s) < chip.pages_per_blk
    <3> SUFFICES ASSUME NEW s \in CopySlots
                 PROVE  Off(s) \in Nat /\ Off(s) < chip.pages_per_blk
      OBVIOUS
    <3>1. Off(s) \in Nat /\ Off(s) <= 2 * s /\ s \in Nat
      BY <2>1
    <3> QED
      BY <2>2, <3>1
  <2>4. ASSUME NEW s \in CopySlots, NEW t \in CopySlots, Off(s) = Off(t) PROVE s = t
    <3>1. CASE s < 2 \/ t < 2 \/ s % 2 = t % 2
      BY <2>1, <2>4, <3>1
    <3>2. CASE s >= 2 /\ t >= 2 /\ s % 2 = 0 /\ t % 2 = 1
      BY <2>1, <2>4, <3>2
    <3>3. CASE s >= 2 /\ t >= 2 /\ s % 2 = 1 /\ t % 2 = 0
      BY <2>1, <2>4, <3>3
    <3> QED
      BY <2>1, <3>1, <3>2, <3>3
  <2>5. 0 \in CopySlots
    BY DEF CopySlots
  <2> QED
    BY <2>1, <2>3, <2>4, <2>5
<1> QED
  BY <1>1, <1>2, <1>3

(* Pages of different copies are different pages of the area, and the      *)
(* first block of the copy has its first pages.                            *)
LEMMA CopyFacts ==
  ASSUME chip \in Chips, NEW c \in Copies, NEW o \in Nat, o < chip.pages_per_blk
  PROVE  /\ BOOT_PAGES_PER_COPY * c + o \in Pages
         /\ BlockOf(BOOT_PAGES_PER_COPY * c + o) = Home(c)
         /\ (BOOT_PAGES_PER_COPY * c + o) % chip.pages_per_blk = o
         /\ Home(c) * chip.pages_per_blk = BOOT_PAGES_PER_COPY * c
         /\ Home(c) \in Nat
<1> DEFINE b == BOOT_PAGES_PER_COPY
           n == chip.pages_per_blk
           h == Home(c)
           k == BOOT_COPY_NUM
<1>1. /\ b \in Nat \ {0} /\ n \in Nat \ {0} /\ n <= b /\ BlksPerCopy \in {1, 2}
      /\ b = BlksPerCopy * n /\ k \in Nat \ {0} /\ c \in Nat /\ c < k
  BY Sizes DEF Copies
<1>2. h \in Nat /\ n * h = b * c /\ h * n = b * c
  <2>1. CASE BlksPerCopy = 1
    BY <1>1, <2>1 DEF Home
  <2>2. CASE BlksPerCopy = 2
    <3>1. h = 2 * c /\ b = 2 * n
      BY <1>1, <2>2 DEF Home
    <3> HIDE DEF h, b, n
    <3>2. n * (2 * c) = (2 * n) * c /\ (2 * c) * n = (2 * n) * c
      BY <1>1, Z3
    <3> QED
      BY <1>1, <3>1, <3>2
  <2> QED
    BY <1>1, <2>1, <2>2
<1>3. b * c + o = n * h + o
  BY <1>2
<1>4. (n * h + o) \div n = h /\ (n * h + o) % n = o
  <2> HIDE DEF n, h, b, k
  <2>1. o < n
    BY DEF n
  <2> QED
    BY <1>1, <1>2, <2>1, DivUnique
<1>5. b * c + o \in Pages
  <2> HIDE DEF n, h, b, k
  <2>0. o < n
    BY DEF n
  <2>1. b * c + b <= k * b /\ b * c \in Nat /\ k * b \in Nat
    <3>1. PICK d \in Nat : k = c + 1 + d
      <4>1. k - c - 1 \in Nat /\ k = c + 1 + (k - c - 1)
        BY <1>1
      <4> QED
        BY <4>1
    <3>2. (c + 1 + d) * b = b * c + b + b * d /\ b * d \in Nat /\ b * c \in Nat
      BY <1>1, Z3
    <3> QED
      BY <1>1, <3>1, <3>2
  <2>2. b * c + o \in 0..k * b - 1
    BY <1>1, <2>0, <2>1
  <2> QED
    BY <2>2 DEF Pages, b, k
<1> QED
  BY <1>2, <1>3, <1>4, <1>5 DEF BlockOf

(* Where the writer puts the slots of the copies.                          *)
LEMMA AtFacts ==
  ASSUME chip \in Chips, NEW c \in Copies, NEW s \in CopySlots
  PROVE  /\ PageOf(c, s) = At(c, s)
         /\ At(c, s) \in Pages
         /\ BlockOf(At(c, s)) = Home(c) /\ Home(c) \in Nat
<1>1. Off(s) \in Nat /\ Off(s) < chip.pages_per_blk
  BY OffFacts
<1>2. s \in Nat /\ s < chip.pages_per_blk
  BY Sizes DEF CopySlots
<1>3. /\ At(c, s) \in Pages
      /\ BlockOf(At(c, s)) = Home(c) /\ Home(c) \in Nat
  BY <1>1, CopyFacts DEF At
<1> DEFINE addr == BOOT_PAGES_PER_COPY * c + s
           base == (addr \div chip.pages_per_blk) * chip.pages_per_blk
<1>4. addr \div chip.pages_per_blk = Home(c) /\ addr % chip.pages_per_blk = s
      /\ base = BOOT_PAGES_PER_COPY * c
  BY <1>2, CopyFacts DEF BlockOf
<1>5. PageOf(c, s) = CASE chip.kind \in {"list", "list_fill"} -> base + PageList(s)
                       [] chip.kind = "sandisk" -> base + 2 * (addr % chip.pages_per_blk)
                       [] OTHER -> addr
  BY DEF PageOf
<1> HIDE DEF addr, base
<1>6. PageOf(c, s) = At(c, s)
  <2>1. CASE chip.kind \in {"list", "list_fill"}
    BY <1>4, <1>5, <2>1 DEF At, Off
  <2>2. CASE chip.kind = "sandisk"
    BY <1>4, <1>5, <2>2 DEF At, Off
  <2>3. CASE chip.kind = "mlc"
    BY <1>5, <2>3 DEF At, Off, PageList, addr
  <2> QED
    BY <2>1, <2>2, <2>3, Sizes
<1> QED
  BY <1>3, <1>6

(* No two slots share a page.                                              *)
LEMMA PlacesDiffer ==
  ASSUME chip \in Chips, NEW c \in Copies, NEW d \in Copies,
         NEW o \in Nat, NEW q \in Nat, o < chip.pages_per_blk, q < chip.pages_per_blk,
         BOOT_PAGES_PER_COPY * c + o = BOOT_PAGES_PER_COPY * d + q
  PROVE  c = d /\ o = q
<1> DEFINE b == BOOT_PAGES_PER_COPY
<1>1. /\ b \in Nat \ {0} /\ o < b /\ q < b /\ c \in Int /\ d \in Int
      /\ o \in Int /\ q \in Int /\ 0 <= o /\ 0 <= q
  BY Sizes DEF Copies
<1> HIDE DEF b
<1>2. (b * c + o) \div b = c /\ (b * c + o) % b = o
  BY <1>1, DivUnique
<1>4. (b * d + q) \div b = d /\ (b * d + q) % b = q
  BY <1>1, DivUnique
<1>3. b * c + o = b * d + q
  BY DEF b
<1> QED
  BY <1>2, <1>3, <1>4

(* The pages of slots are different.                                       *)
LEMMA AtDiffers ==
  ASSUME chip \in Chips, NEW c \in Copies, NEW d \in Copies,
         NEW s \in CopySlots, NEW t \in CopySlots, At(c, s) = At(d, t)
  PROVE  c = d /\ s = t
<1>1. Off(s) \in Nat /\ Off(s) < chip.pages_per_blk /\ Off(t) \in Nat /\ Off(t) < chip.pages_per_blk
  BY OffFacts
<1>2. c = d /\ Off(s) = Off(t)
  BY <1>1, PlacesDiffer DEF At
<1> QED
  BY <1>2, OffFacts

(* The pages that are filled are pages of no slot.                         *)
LEMMA FillIsApart ==
  ASSUME chip \in Chips, copy \in Copies, slot \in CopySlots, NEW p \in Skipped,
         NEW d \in Copies, NEW t \in CopySlots
  PROVE  At(d, t) # p
<1>1. /\ chip.kind = "list_fill" /\ slot > 1
      /\ p \in PageOf(copy, slot - 1) + 1 .. PageOf(copy, slot) - 1
  BY DEF Skipped
<1>2. slot - 1 \in CopySlots /\ slot \in Nat /\ slot - 1 # 0 /\ slot # 0
  BY <1>1, Sizes DEF CopySlots
<1>3. PageOf(copy, slot - 1) = At(copy, slot - 1) /\ PageOf(copy, slot) = At(copy, slot)
  BY <1>2, AtFacts
<1>4. Off(slot - 1) = 2 * slot - 3 /\ Off(slot) = 2 * slot - 1
  BY <1>1, <1>2 DEF Off, PageList
<1> DEFINE x == BOOT_PAGES_PER_COPY * copy
           o == 2 * slot - 2
<1>5. x \in Int
  BY Sizes DEF Copies
<1>6. p = x + o
  <2>1. p \in (x + (2 * slot - 3)) + 1 .. (x + (2 * slot - 1)) - 1
    BY <1>1, <1>3, <1>4 DEF At
  <2> HIDE DEF x
  <2> QED
    BY <1>2, <1>5, <2>1
<1>7. o \in Nat /\ o < chip.pages_per_blk
  <2>1. Off(slot) < chip.pages_per_blk /\ chip.pages_per_blk \in Nat
    BY OffFacts, Sizes
  <2> QED
    BY <1>1, <1>2, <1>4, <2>1
<1> SUFFICES ASSUME At(d, t) = p PROVE FALSE
  OBVIOUS
<1>8. Off(t) \in Nat /\ Off(t) < chip.pages_per_blk
  BY OffFacts
<1>9. Off(t) = o
  <2> HIDE DEF o
  <2> QED
    BY <1>6, <1>7, <1>8, PlacesDiffer DEF At
<1>10. t \in Nat /\ Off(t) = IF t = 0 THEN 0 ELSE 2 * t - 1
  BY <1>1, Sizes DEF Off, PageList, CopySlots
<1> QED
  BY <1>2, <1>1, <1>9, <1>10

-----------------------------------------------------------------------------
(* The contents of the copies.                                             *)

(* The configuration the ROM needs, and what slot s of a whole copy holds. *)
RomList == [s \in 1..NAND_PAGELIST_CNT |->
              CASE chip.kind = "sandisk" -> IF s < NAND_PAGELIST_CNT THEN 2 * s ELSE 0
                [] chip.kind \in {"list", "list_fill"} -> PageList(s)
                [] OTHER -> 0]
RomInfo == [ecc |-> "data", pagelist |-> Slc, list |-> RomList]
Stored(s) ==
  IF s = 0 THEN Holding(Config(RomInfo), "short", FALSE)
  ELSE Holding(Part(image.id, IF s <= image.pages THEN s ELSE 0), "data", FALSE)

Written(c, s) == flash[At(c, s)] = Stored(s)
Blank(c, s) == flash[At(c, s)] = Erased

(* The blocks erased so far, of those before the next one.                 *)
ErasedInv ==
  /\ blk \in Nat
  /\ \A b \in fresh : b \in Nat /\ b < blk
  /\ \A c \in Copies, s \in CopySlots : Home(c) \in fresh => Blank(c, s)

(* The copies in blocks that could be erased: those before the current one *)
(* are whole unless a page failed, the current one is written up to the    *)
(* slot, and the rest is blank.                                            *)
CopiesInv ==
  /\ copy \in Copies /\ slot \in CopySlots
  /\ datbuf = (IF slot = 0 THEN 1 ELSE slot)
  /\ page0 = RomInfo
  /\ slot > 0 => controller.ecc = "data"
  /\ \A c \in Copies, s \in CopySlots : Home(c) \in fresh =>
       /\ c < copy /\ c \notin status => Written(c, s)
       /\ c = copy /\ s < slot => Written(c, s)
       /\ c = copy /\ s >= slot => Blank(c, s)
       /\ c > copy => Blank(c, s)

(* The copies without a failed page are whole.                             *)
WholeInv ==
  \A c \in Copies, s \in CopySlots :
    Home(c) \in fresh /\ c \notin status => Written(c, s)

(* What each place of the writer knows of the copies.                      *)
WriterInv ==
  /\ chip \in Chips
  /\ flash = [p \in Pages |-> flash[p]]
  /\ image.pages \in Nat
  /\ pc = "check" => fresh = {}
  /\ pc \in {"erase", "begin", "page", "sum"} => controller.oob_mod = FALSE
  /\ pc \in {"erase", "begin", "page"} => len \in Nat /\ len >= SlotNum
  /\ pc \in {"erase", "begin"} => ErasedInv
  /\ pc = "page" => CopiesInv
  /\ pc = "sum" \/ (pc = "restore" /\ ret >= 0) => WholeInv

(* The places depend on the chip only, the contents on the image too.      *)
LEMMA SameChip ==
  ASSUME chip' = chip
  PROVE  /\ CopySlots' = CopySlots /\ SlotNum' = SlotNum /\ RomInfo' = RomInfo
         /\ \A c : Home(c)' = Home(c)
         /\ \A c, s : At(c, s)' = At(c, s)
         /\ image' = image => \A s : Stored(s)' = Stored(s)
<1>1. SlotNum' = SlotNum /\ CopySlots' = CopySlots /\ BlksPerCopy' = BlksPerCopy
  BY DEF CopySlots, SlotNum, Slc, BlksPerCopy
<1>2. \A s : Off(s)' = Off(s)
  BY DEF Off, PageList
<1>3. RomInfo' = RomInfo
  BY DEF RomInfo, RomList, Slc, PageList
<1>4. \A c : Home(c)' = Home(c)
  BY <1>1 DEF Home
<1>5. \A c, s : At(c, s)' = At(c, s)
  BY <1>2 DEF At
<1>6. image' = image => \A s : Stored(s)' = Stored(s)
  BY <1>3 DEF Stored, Holding, Config, Part
<1> QED
  BY <1>1, <1>3, <1>4, <1>5, <1>6

(* Programming a page leaves the pages of the other slots alone.           *)
LEMMA OthersKept ==
  ASSUME chip \in Chips, copy \in Copies, slot \in CopySlots,
         flash = [p \in Pages |-> flash[p]], ConfigPage \/ DataPage
  PROVE  /\ flash' = [p \in Pages |-> flash'[p]]
         /\ \A c \in Copies, s \in CopySlots :
              c # copy \/ s # slot => flash'[At(c, s)] = flash[At(c, s)]
<1>1. PageOf(copy, slot) = At(copy, slot) /\ At(copy, slot) \in Pages
  BY AtFacts
<1>2. \/ flash' = flash
      \/ \E x : flash' = [WithFill EXCEPT ![At(copy, slot)] = x]
      \/ \E x : flash' = [flash EXCEPT ![At(copy, slot)] = x]
  BY <1>1 DEF ConfigPage, DataPage, PageFails
<1>3. ASSUME NEW c \in Copies, NEW s \in CopySlots
      PROVE  At(c, s) \in Pages /\ WithFill[At(c, s)] = flash[At(c, s)]
  <2>1. At(c, s) \in Pages /\ At(c, s) \notin Skipped
    BY AtFacts, FillIsApart
  <2> QED
    BY <2>1 DEF WithFill
<1>4. WithFill = [p \in Pages |-> WithFill[p]]
  BY DEF WithFill
<1>5. ASSUME NEW c \in Copies, NEW s \in CopySlots, c # copy \/ s # slot
      PROVE  At(c, s) # At(copy, slot)
  BY <1>5, AtDiffers
<1> HIDE DEF WithFill
<1>6. flash' = [p \in Pages |-> flash'[p]]
  <2>1. CASE flash' = flash
    BY <2>1
  <2>2. ASSUME NEW x, flash' = [WithFill EXCEPT ![At(copy, slot)] = x]
        PROVE  flash' = [p \in Pages |-> flash'[p]]
    BY <1>4, <2>2
  <2>3. ASSUME NEW x, flash' = [flash EXCEPT ![At(copy, slot)] = x]
        PROVE  flash' = [p \in Pages |-> flash'[p]]
    BY <2>3
  <2> QED
    BY <1>2, <2>1, <2>2, <2>3
<1>7. ASSUME NEW c \in Copies, NEW s \in CopySlots, c # copy \/ s # slot
      PROVE  flash'[At(c, s)] = flash[At(c, s)]
  <2>1. At(c, s) # At(copy, slot) /\ At(c, s) \in Pages /\ WithFill[At(c, s)] = flash[At(c, s)]
    BY <1>3, <1>5, <1>7
  <2>2. CASE flash' = flash
    BY <2>2
  <2>3. ASSUME NEW x, flash' = [WithFill EXCEPT ![At(copy, slot)] = x]
        PROVE  flash'[At(c, s)] = flash[At(c, s)]
    BY <1>4, <2>1, <2>3
  <2>4. ASSUME NEW x, flash' = [flash EXCEPT ![At(copy, slot)] = x]
        PROVE  flash'[At(c, s)] = flash[At(c, s)]
    BY <2>1, <2>4
  <2> QED
    BY <1>2, <2>2, <2>3, <2>4
<1> QED
  BY <1>6, <1>7

(* On to the next copy: a copy that was not written to its end is counted  *)
(* as failed.                                                              *)
LEMMA NextCopyKeeps ==
  ASSUME WriterInv, pc = "page", ConfigPage \/ DataPage, NextCopy,
         chip' = chip, image' = image, fresh' = fresh, page0' = page0, len' = len,
         controller'.oob_mod = FALSE, status \subseteq status',
         copy \notin status' /\ Home(copy) \in fresh =>
           \A s \in CopySlots : flash'[At(copy, s)] = Stored(s)
  PROVE  WriterInv'
<1>1. /\ chip \in Chips /\ copy \in Copies /\ slot \in CopySlots
      /\ flash = [p \in Pages |-> flash[p]] /\ CopiesInv /\ image.pages \in Nat
      /\ len \in Nat /\ len >= SlotNum
  BY DEF WriterInv, CopiesInv
<1>2. /\ flash' = [p \in Pages |-> flash'[p]]
      /\ \A c \in Copies, s \in CopySlots :
           c # copy => flash'[At(c, s)] = flash[At(c, s)]
  BY <1>1, OthersKept
<1>3. copy' = copy + 1 /\ slot' = 0 /\ datbuf' = 1 /\ pc' \in {"page", "sum"}
      /\ (pc' = "page" <=> copy' \in Copies)
  BY DEF NextCopy, NextCopyFrom
<1>4. ASSUME NEW c \in Copies, NEW s \in CopySlots, Home(c) \in fresh, c < copy + 1, c \notin status'
      PROVE  flash'[At(c, s)] = Stored(s)
  <2>1. c < copy \/ c = copy
    BY <1>1, <1>4 DEF Copies
  <2>2. CASE c < copy
    <3>1. Written(c, s) /\ c # copy
      BY <1>1, <1>4, <2>2 DEF CopiesInv, Copies
    <3> QED
      BY <1>2, <3>1 DEF Written
  <2>3. CASE c = copy
    BY <1>4, <2>3
  <2> QED
    BY <2>1, <2>2, <2>3
<1>5. ASSUME NEW c \in Copies, NEW s \in CopySlots, Home(c) \in fresh, c >= copy + 1
      PROVE  flash'[At(c, s)] = Erased
  <2>1. c > copy /\ c # copy
    BY <1>1, <1>5 DEF Copies
  <2>2. Blank(c, s)
    BY <1>1, <1>5, <2>1 DEF CopiesInv
  <2> QED
    BY <1>2, <2>1, <2>2 DEF Blank
<1>6. /\ CopySlots' = CopySlots /\ SlotNum' = SlotNum /\ RomInfo' = RomInfo
      /\ \A c : Home(c)' = Home(c)
      /\ \A c, s : At(c, s)' = At(c, s)
      /\ \A s : Stored(s)' = Stored(s)
  BY SameChip
<1>7. /\ \A c, s : Written(c, s)' <=> flash'[At(c, s)] = Stored(s)
      /\ \A c, s : Blank(c, s)' <=> flash'[At(c, s)] = Erased
  BY <1>6 DEF Written, Blank, Erased
<1>8. CASE pc' = "page"
  <2>1. 0 \in CopySlots /\ copy' \in Copies
    BY <1>1, <1>3, <1>8, Sizes DEF CopySlots
  <2>2. ASSUME NEW c \in Copies, NEW s \in CopySlots, Home(c) \in fresh
        PROVE  /\ c < copy' /\ c \notin status' => Written(c, s)'
               /\ c = copy' /\ s < 0 => Written(c, s)'
               /\ c = copy' /\ s >= 0 => Blank(c, s)'
               /\ c > copy' => Blank(c, s)'
    <3>1. ~(s < 0)
      BY DEF CopySlots
    <3>2. c = copy' \/ c > copy' => c >= copy + 1
      BY <1>1, <1>3 DEF Copies
    <3> QED
      BY <1>3, <1>4, <1>5, <1>7, <2>2, <3>1, <3>2
  <2>3. page0' = RomInfo'
    BY <1>1, <1>6 DEF CopiesInv
  <2>4. CopiesInv'
    BY <1>3, <1>6, <2>1, <2>2, <2>3 DEF CopiesInv
  <2> QED
    BY <1>1, <1>2, <1>6, <1>8, <2>4 DEF WriterInv
<1>9. CASE pc' = "sum"
  <2>1. copy + 1 \notin Copies
    BY <1>3, <1>9
  <2>2. \A c \in Copies : c < copy + 1
    BY <1>1, <2>1, Sizes DEF Copies
  <2>3. WholeInv'
    BY <1>4, <1>6, <1>7, <2>2 DEF WholeInv
  <2> QED
    BY <1>1, <1>2, <1>9, <2>3 DEF WriterInv
<1> QED
  BY <1>3, <1>8, <1>9

(* A copy ends with its last slot, since what is written is at least as    *)
(* long as the slots of a block.                                           *)
LEMMA LastSlotIs ==
  ASSUME chip \in Chips, slot \in CopySlots, len \in Nat, len >= SlotNum
  PROVE  /\ LastSlot => slot = SlotNum - 1
         /\ ~LastSlot => slot + 1 \in CopySlots
<1> DEFINE n == SlotNum
<1>1. n \in Nat \ {0} /\ slot \in Nat /\ slot <= n - 1
  BY Sizes DEF CopySlots
<1>2. LastSlot <=> slot >= len - 1 \/ (slot + 1) % n = 0
  BY DEF LastSlot, SlotNum
<1> HIDE DEF n
<1>3. n % n = 0
  <2>1. n * 1 + 0 = n
    BY <1>1
  <2>2. (n * 1 + 0) % n = 0
    BY <1>1, DivUnique
  <2> QED
    BY <2>1, <2>2
<1>4. ASSUME slot + 1 < n PROVE (slot + 1) % n = slot + 1
  <2> DEFINE r == slot + 1
  <2>1. n * 0 + r = r /\ r \in Int /\ 0 <= r /\ r < n
    BY <1>1, <1>4
  <2> HIDE DEF r
  <2>2. (n * 0 + r) % n = r
    BY <1>1, <2>1, DivUnique
  <2> QED
    BY <2>1, <2>2 DEF r
<1>5. LastSlot => slot = n - 1
  <2> SUFFICES ASSUME LastSlot, slot # n - 1 PROVE FALSE
    OBVIOUS
  <2>1. slot + 1 < n
    BY <1>1
  <2>2. ~(slot >= len - 1)
    BY <1>1, <2>1 DEF n
  <2>3. (slot + 1) % n # 0
    BY <1>1, <1>4, <2>1
  <2> QED
    BY <1>2, <2>2, <2>3
<1>6. ~LastSlot => slot + 1 <= n - 1
  <2> SUFFICES ASSUME ~LastSlot, slot = n - 1 PROVE FALSE
    BY <1>1
  <2>1. slot + 1 = n
    BY <1>1
  <2> QED
    BY <1>2, <1>3, <2>1
<1> QED
  BY <1>1, <1>5, <1>6 DEF n, CopySlots

(* A page that was programmed: on to the next slot.                        *)
LEMMA NextSlotKeeps ==
  ASSUME WriterInv, pc = "page", ConfigPage \/ DataPage,
         pc' = "page", copy' = copy, slot' = slot + 1, slot + 1 \in CopySlots,
         datbuf' = slot + 1, controller'.ecc = "data", controller'.oob_mod = FALSE,
         chip' = chip, image' = image, fresh' = fresh, page0' = page0, len' = len,
         status' = status,
         Home(copy) \in fresh => flash'[At(copy, slot)] = Stored(slot)
  PROVE  WriterInv'
<1>1. /\ chip \in Chips /\ copy \in Copies /\ slot \in CopySlots /\ slot \in Nat
      /\ flash = [p \in Pages |-> flash[p]] /\ CopiesInv /\ image.pages \in Nat
      /\ len \in Nat /\ len >= SlotNum
  BY DEF WriterInv, CopiesInv, CopySlots
<1>2. /\ flash' = [p \in Pages |-> flash'[p]]
      /\ \A c \in Copies, s \in CopySlots :
           c # copy \/ s # slot => flash'[At(c, s)] = flash[At(c, s)]
  BY <1>1, OthersKept
<1>3. /\ CopySlots' = CopySlots /\ SlotNum' = SlotNum /\ RomInfo' = RomInfo
      /\ \A c : Home(c)' = Home(c)
      /\ \A c, s : At(c, s)' = At(c, s)
      /\ \A s : Stored(s)' = Stored(s)
  BY SameChip
<1>4. /\ \A c, s : Written(c, s)' <=> flash'[At(c, s)] = Stored(s)
      /\ \A c, s : Blank(c, s)' <=> flash'[At(c, s)] = Erased
  BY <1>3 DEF Written, Blank, Erased
<1>5. ASSUME NEW c \in Copies, NEW s \in CopySlots, Home(c) \in fresh
      PROVE  /\ c < copy /\ c \notin status => Written(c, s)'
             /\ c = copy /\ s < slot + 1 => Written(c, s)'
             /\ c = copy /\ s >= slot + 1 => Blank(c, s)'
             /\ c > copy => Blank(c, s)'
  <2>1. /\ c < copy /\ c \notin status => Written(c, s)
        /\ c = copy /\ s < slot => Written(c, s)
        /\ c = copy /\ s >= slot => Blank(c, s)
        /\ c > copy => Blank(c, s)
    BY <1>1, <1>5 DEF CopiesInv
  <2>2. c \in Nat /\ copy \in Nat /\ s \in Nat
    BY <1>1 DEF Copies, CopySlots
  <2>3. CASE c = copy /\ s = slot
    BY <1>1, <1>4, <1>5, <2>2, <2>3
  <2>4. CASE c # copy \/ s # slot
    <3>1. flash'[At(c, s)] = flash[At(c, s)]
      BY <1>2, <2>4
    <3>2. (Written(c, s)' <=> Written(c, s)) /\ (Blank(c, s)' <=> Blank(c, s))
      BY <1>4, <3>1 DEF Written, Blank
    <3>3. (s < slot + 1 /\ s # slot => s < slot) /\ (s >= slot + 1 => s >= slot)
      BY <1>1, <2>2
    <3> QED
      BY <2>1, <2>4, <3>2, <3>3
  <2> QED
    BY <2>3, <2>4
<1>6. page0' = RomInfo' /\ slot + 1 # 0
  BY <1>1, <1>3 DEF CopiesInv
<1>7. CopiesInv'
  BY <1>1, <1>3, <1>5, <1>6 DEF CopiesInv
<1> QED
  BY <1>1, <1>2, <1>3, <1>7 DEF WriterInv

(* Page 0.                                                                 *)
LEMMA ConfigPageKeeps ==
  ASSUME SettingsInv, WriterInv, ConfigPage PROVE WriterInv'
<1>1. /\ pc = "page" /\ slot = 0 /\ chip' = chip /\ image' = image /\ fresh' = fresh
      /\ page0' = page0 /\ len' = len
  BY DEF ConfigPage, inst
<1>2. /\ chip \in Chips /\ copy \in Copies /\ slot \in CopySlots
      /\ flash = [p \in Pages |-> flash[p]] /\ CopiesInv
      /\ controller.oob_mod = FALSE /\ tmp_ecc = "data"
      /\ controller = [ecc |-> controller.ecc, oob_mod |-> controller.oob_mod]
  BY <1>1 DEF WriterInv, CopiesInv, SettingsInv
<1>3. PageOf(copy, 0) = At(copy, 0) /\ At(copy, 0) \in Pages
  BY <1>1, <1>2, AtFacts
<1>4. CASE PageFails(PageOf(copy, 0)) /\ controller' = [controller EXCEPT !.ecc = "short"]
  <2>1. NextCopy /\ status' = status \cup {copy}
    BY <1>4 DEF PageFails
  <2>2. controller'.oob_mod = FALSE
    BY <1>2, <1>4
  <2> QED
    BY <1>1, <2>1, <2>2, NextCopyKeeps
<1>5. CASE /\ flash' = [flash EXCEPT ![PageOf(copy, 0)] =
                          Programmed(PageOf(copy, 0), Config(page0), "short")]
           /\ slot' = 1 /\ controller' = [controller EXCEPT !.ecc = tmp_ecc]
           /\ UNCHANGED <<pc, copy, datbuf, status>>
  <2>1. controller'.ecc = "data" /\ controller'.oob_mod = FALSE
    BY <1>2, <1>5
  <2>2. 1 \in CopySlots
    BY <1>2, Sizes DEF CopySlots
  <2>3. datbuf' = 1 /\ page0 = RomInfo
    BY <1>1, <1>2, <1>5 DEF CopiesInv
  <2>4. ASSUME Home(copy) \in fresh PROVE flash'[At(copy, 0)] = Stored(0)
    <3>1. flash[At(copy, 0)] = Erased
      BY <1>1, <1>2, <2>4 DEF CopiesInv, Blank
    <3>2. Programmed(At(copy, 0), Config(page0), "short") = Stored(0)
      BY <1>2, <2>3, <3>1 DEF Programmed, Stored, Holding, Config
    <3>3. flash'[At(copy, 0)] = Programmed(At(copy, 0), Config(page0), "short")
      BY <1>2, <1>3, <1>5
    <3> QED
      BY <3>2, <3>3
  <2>5. /\ slot' = slot + 1 /\ slot + 1 \in CopySlots /\ datbuf' = slot + 1 /\ pc' = "page"
        /\ Home(copy) \in fresh => flash'[At(copy, slot)] = Stored(slot)
    BY <1>1, <1>5, <2>2, <2>3, <2>4
  <2> QED
    BY <1>1, <1>5, <2>1, <2>5, NextSlotKeeps
<1> QED
  BY <1>4, <1>5 DEF ConfigPage

(* The other pages.                                                        *)
LEMMA DataPageKeeps ==
  ASSUME SettingsInv, WriterInv, DataPage PROVE WriterInv'
<1>1. /\ pc = "page" /\ slot > 0 /\ chip' = chip /\ image' = image /\ fresh' = fresh
      /\ page0' = page0 /\ len' = len
      /\ controller' = [controller EXCEPT !.ecc = DataEcc]
  BY DEF DataPage, inst
<1>2. /\ chip \in Chips /\ copy \in Copies /\ slot \in CopySlots /\ slot \in Nat
      /\ flash = [p \in Pages |-> flash[p]] /\ CopiesInv
      /\ controller.oob_mod = FALSE /\ tmp_ecc = "data" /\ controller.ecc = "data"
      /\ controller = [ecc |-> controller.ecc, oob_mod |-> controller.oob_mod]
      /\ len \in Nat /\ len >= SlotNum /\ datbuf = slot
  BY <1>1 DEF WriterInv, CopiesInv, SettingsInv, CopySlots
<1>3. PageOf(copy, slot) = At(copy, slot) /\ At(copy, slot) \in Pages
  BY <1>2, AtFacts
<1>4. controller'.ecc = "data" /\ controller'.oob_mod = FALSE /\ DataEcc = "data"
  BY <1>1, <1>2 DEF DataEcc
<1>5. CASE PageFails(PageOf(copy, slot))
  <2>1. NextCopy /\ status' = status \cup {copy}
    BY <1>5 DEF PageFails
  <2> QED
    BY <1>1, <1>4, <2>1, NextCopyKeeps
<1>6. CASE /\ flash' = [WithFill EXCEPT ![PageOf(copy, slot)] =
                          Programmed(PageOf(copy, slot), AtDatbuf, DataEcc)]
           /\ status' = status
           /\ \/ LastSlot /\ NextCopy
              \/ ~LastSlot /\ slot' = slot + 1 /\ datbuf' = datbuf + 1 /\ UNCHANGED <<pc, copy>>
  <2>1. ASSUME Home(copy) \in fresh PROVE flash'[At(copy, slot)] = Stored(slot)
    <3>1. flash[At(copy, slot)] = Erased
      BY <1>2, <2>1 DEF CopiesInv, Blank
    <3>2. Programmed(At(copy, slot), AtDatbuf, DataEcc) = Stored(slot)
      <4>1. AtDatbuf = Part(image.id, IF slot <= image.pages THEN slot ELSE 0)
        BY <1>2 DEF AtDatbuf
      <4>2. Stored(slot) = Holding(AtDatbuf, "data", FALSE)
        <5>1. slot # 0
          BY <1>1
        <5> QED
          BY <4>1, <5>1 DEF Stored
      <4> QED
        BY <1>2, <1>4, <3>1, <4>2 DEF Programmed
    <3>3. flash'[At(copy, slot)] = Programmed(At(copy, slot), AtDatbuf, DataEcc)
      BY <1>2, <1>3, <1>6 DEF WithFill
    <3> QED
      BY <3>2, <3>3
  <2>2. CASE LastSlot /\ NextCopy
    <3>1. slot = SlotNum - 1
      BY <1>2, <2>2, LastSlotIs
    <3>2. ASSUME Home(copy) \in fresh, NEW s \in CopySlots
          PROVE  flash'[At(copy, s)] = Stored(s)
      <4>1. s = slot \/ s < slot
        BY <1>2, <3>1, Sizes DEF CopySlots
      <4>2. CASE s = slot
        BY <2>1, <3>2, <4>2
      <4>3. CASE s < slot
        <5>1. flash'[At(copy, s)] = flash[At(copy, s)]
          BY <1>2, <4>3, OthersKept
        <5>2. Written(copy, s)
          BY <1>2, <3>2, <4>3 DEF CopiesInv
        <5> QED
          BY <5>1, <5>2 DEF Written
      <4> QED
        BY <4>1, <4>2, <4>3
    <3> QED
      BY <1>1, <1>4, <1>6, <2>2, <3>2, NextCopyKeeps
  <2>3. CASE ~LastSlot /\ slot' = slot + 1 /\ datbuf' = datbuf + 1 /\ UNCHANGED <<pc, copy>>
    <3>1. slot + 1 \in CopySlots /\ datbuf' = slot + 1
      BY <1>2, <2>3, LastSlotIs
    <3> QED
      BY <1>1, <1>4, <1>6, <2>1, <2>3, <3>1, NextSlotKeeps
  <2> QED
    BY <1>6, <2>2, <2>3
<1> QED
  BY <1>5, <1>6 DEF DataPage

(* The length to write is at least the slots of a block.                   *)
LEMMA LenEnough ==
  ASSUME chip \in Chips, image.pages \in Nat
  PROVE  WriteLen \in Nat /\ WriteLen >= SlotNum
  BY Sizes DEF WriteLen

(* Erasing a block.                                                        *)
LEMMA EraseKeeps ==
  ASSUME WriterInv, EraseBlock PROVE WriterInv'
<1>1. /\ pc = "erase" /\ pc' \in {"erase", "begin"} /\ blk' = blk + 1
      /\ UNCHANGED <<chip, image, len, controller>>
  BY DEF EraseBlock, inst
<1>2. /\ chip \in Chips /\ image.pages \in Nat /\ len \in Nat /\ len >= SlotNum
      /\ flash = [p \in Pages |-> flash[p]] /\ ErasedInv /\ controller.oob_mod = FALSE
  BY <1>1 DEF WriterInv
<1>3. /\ CopySlots' = CopySlots /\ SlotNum' = SlotNum
      /\ \A c : Home(c)' = Home(c)
      /\ \A c, s : At(c, s)' = At(c, s)
  BY <1>1, SameChip
<1>4. \A c, s : Blank(c, s)' <=> flash'[At(c, s)] = Erased
  BY <1>3 DEF Blank, Erased
<1>5. \A c \in Copies, s \in CopySlots :
        At(c, s) \in Pages /\ BlockOf(At(c, s)) = Home(c) /\ Home(c) \in Nat
  BY <1>2, AtFacts
<1>6. /\ blk \in Nat /\ \A b \in fresh : b \in Nat /\ b < blk
      /\ \A c \in Copies, s \in CopySlots : Home(c) \in fresh => flash[At(c, s)] = Erased
  BY <1>2 DEF ErasedInv, Blank
<1>7. /\ flash' = [p \in Pages |-> flash'[p]]
      /\ \A b \in fresh' : b \in Nat /\ b < blk + 1
      /\ \A c \in Copies, s \in CopySlots : Home(c) \in fresh' => flash'[At(c, s)] = Erased
  <2>1. CASE /\ flash' = [p \in Pages |-> IF BlockOf(p) = blk THEN Erased ELSE flash[p]]
             /\ fresh' = fresh \cup {blk}
    BY <1>5, <1>6, <2>1
  <2>2. CASE /\ flash' = [p \in Pages |-> IF BlockOf(p) = blk THEN Garbled ELSE flash[p]]
             /\ fresh' = fresh
    <3>1. \A c \in Copies : Home(c) \in fresh => Home(c) # blk
      BY <1>6
    <3> QED
      BY <1>5, <1>6, <2>2, <3>1
  <2>3. CASE UNCHANGED <<flash, fresh>>
    BY <1>2, <1>6, <2>3
  <2> QED
    BY <2>1, <2>2, <2>3 DEF EraseBlock
<1>8. ErasedInv'
  BY <1>1, <1>3, <1>4, <1>6, <1>7 DEF ErasedInv
<1> QED
  BY <1>1, <1>2, <1>3, <1>7, <1>8 DEF WriterInv

(* The page list of the configuration.                                     *)
LEMMA InfoIsRight ==
  ASSUME controller.ecc = "data" PROVE BootInfo = RomInfo
  BY DEF BootInfo, RomInfo, RomList

(* The loop over the copies begins: what could be erased is blank.         *)
LEMMA BeginKeeps ==
  ASSUME SettingsInv, WriterInv, BeginCopies PROVE WriterInv'
<1>1. pc = "begin" /\ UNCHANGED <<chip, image, len, controller, fresh, flash>>
  BY DEF BeginCopies, inst
<1>2. /\ chip \in Chips /\ image.pages \in Nat /\ len \in Nat /\ len >= SlotNum
      /\ flash = [p \in Pages |-> flash[p]] /\ ErasedInv /\ controller.oob_mod = FALSE
      /\ controller.ecc = "data"
  BY <1>1 DEF WriterInv, SettingsInv
<1>3. /\ CopySlots' = CopySlots /\ SlotNum' = SlotNum /\ RomInfo' = RomInfo
      /\ \A c : Home(c)' = Home(c)
      /\ \A c, s : At(c, s)' = At(c, s)
  BY <1>1, SameChip
<1>4. CASE ret' = -1 /\ pc' = "restore"
  BY <1>1, <1>2, <1>4 DEF WriterInv
<1>5. CASE /\ page0' = BootInfo /\ copy' = 0 /\ slot' = 0 /\ datbuf' = 1 /\ pc' = "page"
  <2>1. page0' = RomInfo'
    BY <1>2, <1>3, <1>5, InfoIsRight
  <2>2. 0 \in Copies /\ 0 \in CopySlots
    BY <1>2, Sizes DEF Copies, CopySlots
  <2>3. ASSUME NEW c \in Copies, NEW s \in CopySlots, Home(c) \in fresh
        PROVE  Blank(c, s)' /\ ~(c < 0) /\ ~(s < 0)
    <3>1. Blank(c, s) /\ ~(c < 0) /\ ~(s < 0)
      BY <1>2, <2>3 DEF ErasedInv, Copies, CopySlots
    <3> QED
      BY <1>1, <1>3, <3>1 DEF Blank, Erased
  <2>4. CopiesInv'
    BY <1>1, <1>3, <1>5, <2>1, <2>2, <2>3 DEF CopiesInv
  <2> QED
    BY <1>1, <1>2, <1>3, <1>5, <2>4 DEF WriterInv
<1> QED
  BY <1>4, <1>5 DEF BeginCopies

(* Every step of the writer keeps this.                                    *)
LEMMA WriterInvStep ==
  SettingsInv /\ WriterInv /\ [BootNext]_vars => WriterInv'
<1> SUFFICES ASSUME SettingsInv, WriterInv, [BootNext]_vars PROVE WriterInv'
  OBVIOUS
<1>0. chip \in Chips /\ flash = [p \in Pages |-> flash[p]] /\ image.pages \in Nat
  BY DEF WriterInv
<1>1. ASSUME NEW n \in Images, UbootWrite(n) PROVE WriterInv'
  <2>1. n \in Nat /\ UNCHANGED <<chip, flash>>
    BY <1>1, BootAssumption DEF UbootWrite, inst
  <2>2. CASE pc' = "check" /\ fresh' = {} /\ image' = [id |-> writes', pages |-> n]
    BY <1>0, <2>1, <2>2 DEF WriterInv
  <2>3. CASE UNCHANGED <<image, pc>> /\ pc = "idle"
    BY <1>0, <2>1, <2>3 DEF WriterInv
  <2> QED
    BY <1>1, <2>2, <2>3 DEF UbootWrite
<1>2. CASE CheckLen
  <2>1. pc = "check" /\ UNCHANGED <<chip, flash, image, fresh>> /\ fresh = {}
    BY <1>2 DEF CheckLen, inst, WriterInv
  <2>2. CASE pc' = "release"
    BY <1>0, <2>1, <2>2 DEF WriterInv
  <2>3. CASE /\ pc' = "erase" /\ blk' = 0 /\ len' = WriteLen
             /\ controller' = [controller EXCEPT !.oob_mod = FALSE]
    <3>1. controller'.oob_mod = FALSE
      BY <2>3 DEF SettingsInv
    <3>2. len' \in Nat /\ len' >= SlotNum'
      BY <1>0, <2>1, <2>3, LenEnough, SameChip
    <3>3. ErasedInv'
      BY <2>1, <2>3 DEF ErasedInv
    <3> QED
      BY <1>0, <2>1, <2>3, <3>1, <3>2, <3>3 DEF WriterInv
  <2> QED
    BY <1>2, <2>2, <2>3 DEF CheckLen
<1>3. CASE SumUp
  <2>1. /\ pc = "sum" /\ pc' = "restore" /\ WholeInv
        /\ UNCHANGED <<chip, flash, image, fresh, status>>
    BY <1>3 DEF SumUp, WriterInv, inst, job
  <2>2. /\ CopySlots' = CopySlots
        /\ \A c : Home(c)' = Home(c)
        /\ \A c, s : At(c, s)' = At(c, s)
        /\ \A s : Stored(s)' = Stored(s)
    BY <2>1, SameChip
  <2>3. \A c, s : Written(c, s)' <=> Written(c, s)
    BY <2>1, <2>2 DEF Written
  <2>4. WholeInv'
    BY <2>1, <2>2, <2>3 DEF WholeInv
  <2> QED
    BY <1>0, <2>1, <2>4 DEF WriterInv
<1>4. CASE Restore \/ Release
  <2>1. pc' \in {"release", "idle"} /\ UNCHANGED <<chip, flash, image>>
    BY <1>4 DEF Restore, Release, inst, job
  <2> QED
    BY <1>0, <2>1 DEF WriterInv
<1>5. CASE PowerFailure
  <2>1. pc' = "idle" /\ UNCHANGED <<chip, image>>
    BY <1>5 DEF PowerFailure, inst, job
  <2>2. flash' = [p \in Pages |-> flash'[p]]
    <3>1. CASE flash' = flash
      BY <1>0, <3>1
    <3>2. CASE flash' = [flash EXCEPT ![PageOf(copy, slot)] = Garbled]
      BY <1>0, <3>2
    <3> QED
      BY <1>5, <3>1, <3>2 DEF PowerFailure
  <2> QED
    BY <1>0, <2>1, <2>2 DEF WriterInv
<1>6. CASE UNCHANGED vars
  <2>1. UNCHANGED <<chip, flash, image, pc, fresh, controller, len, blk, copy, slot, datbuf, page0, status, ret>>
    BY <1>6 DEF vars, inst, job
  <2>2. /\ CopySlots' = CopySlots /\ SlotNum' = SlotNum /\ RomInfo' = RomInfo
        /\ \A c : Home(c)' = Home(c)
        /\ \A c, s : At(c, s)' = At(c, s)
        /\ \A s : Stored(s)' = Stored(s)
    BY <2>1, SameChip
  <2>3. /\ \A c, s : Written(c, s)' <=> Written(c, s)
        /\ \A c, s : Blank(c, s)' <=> Blank(c, s)
    BY <2>1, <2>2 DEF Written, Blank, Erased
  <2>4. (ErasedInv' <=> ErasedInv) /\ (CopiesInv' <=> CopiesInv) /\ (WholeInv' <=> WholeInv)
    BY <2>1, <2>2, <2>3 DEF ErasedInv, CopiesInv, WholeInv
  <2> QED
    BY <2>1, <2>2, <2>4 DEF WriterInv
<1> QED
  BY <1>1, <1>2, <1>3, <1>4, <1>5, <1>6, EraseKeeps, BeginKeeps, ConfigPageKeeps,
     DataPageKeeps DEF BootNext

(* A copy whose slots hold what they should has the image in place and is  *)
(* read by the ROM: where the list has an entry it is the page of the      *)
(* slot, and without a list the slots follow each other.                   *)
LEMMA WholeCopyIsRead ==
  ASSUME chip \in Chips, image.pages \in Nat, NEW c \in Copies,
         \A s \in CopySlots : Written(c, s)
  PROVE  LET n == IF image.pages < Capacity THEN image.pages ELSE Capacity
         IN /\ RomReads(c, image, n)
            /\ \A s \in 1..n : flash[PageOf(c, s)] = Readable(c, image, s)
<1> DEFINE n == IF image.pages < Capacity THEN image.pages ELSE Capacity
           info == RomInfo
<1>1. SlotNum \in Nat /\ SlotNum >= 2 /\ Capacity = SlotNum - 1
  BY Sizes DEF Capacity
<1>2. n \in Nat /\ n <= SlotNum - 1 /\ n <= image.pages
  BY <1>1
<1>3. At(c, 0) = BOOT_PAGES_PER_COPY * c
  <2>1. BOOT_PAGES_PER_COPY * c \in Int
    BY Sizes DEF Copies
  <2> QED
    BY <2>1, OffFacts DEF At
<1>4. ConfigOf(c) = Holding(Config(info), "short", FALSE)
  <2>1. 0 \in CopySlots
    BY <1>1 DEF CopySlots
  <2> QED
    BY <1>3, <2>1 DEF Written, Stored, ConfigOf
<1>5. RomCanStart(c) /\ ConfigOf(c).data.info = info
  <2> HIDE DEF info
  <2> QED
    BY <1>4 DEF RomCanStart, Holding, Config
<1>6. info.list = RomList /\ info.ecc = "data" /\ info.pagelist = Slc
  BY DEF RomInfo
<1> HIDE DEF n, info
<1>7. ASSUME NEW s \in 1..n
      PROVE  /\ flash[At(c, s)] = Readable(c, image, s)
             /\ PageOf(c, s) = At(c, s)
             /\ RomKnows(c, s) => RomPage(c, s) = flash[At(c, s)]
  <2>1. s \in 1..SlotNum - 1 /\ s \in CopySlots /\ s # 0 /\ s <= image.pages /\ s \in Nat
    BY <1>1, <1>2 DEF CopySlots
  <2>2. flash[At(c, s)] = Readable(c, image, s)
    BY <1>5, <1>6, <2>1 DEF Written, Stored, Readable
  <2>3. PageOf(c, s) = At(c, s)
    BY <2>1, AtFacts
  <2>4. ASSUME RomKnows(c, s) PROVE RomPage(c, s) = flash[At(c, s)]
    <3>1. CASE Slc
      <4>1. s \in DOMAIN info.list /\ info.list[s] # 0
        BY <1>5, <1>6, <2>4, <3>1 DEF RomKnows
      <4>2. info.list[s] = Off(s)
        BY <1>6, <2>1, <3>1, <4>1, Sizes DEF RomList, Off, Slc
      <4> QED
        BY <1>5, <1>6, <3>1, <4>2 DEF RomPage, At
    <3>2. CASE ~Slc
      <4>1. Off(s) = s
        BY <3>2 DEF Slc, Off, PageList
      <4> QED
        BY <1>5, <1>6, <3>2, <4>1 DEF RomPage, At
    <3> QED
      BY <3>1, <3>2
  <2> QED
    BY <2>2, <2>3, <2>4
<1>8. RomReads(c, image, n) /\ \A s \in 1..n : flash[PageOf(c, s)] = Readable(c, image, s)
  BY <1>5, <1>7 DEF RomReads
<1> QED
  BY <1>8 DEF n

(* When write_uboot is done, every copy in a block that could be erased    *)
(* and in which no page failed has the image in its slots and leads the    *)
(* ROM to them as far as its page list goes, for any number of copies, of  *)
(* pages, of list entries and of faults: a failed page, page 0 with the    *)
(* settings of its own included, costs its own copy only.                  *)
THEOREM FailuresStayInTheirCopy == BootSpec => []OtherCopiesWhole
<1> DEFINE Inv == SettingsInv /\ WriterInv
<1>1. BootInit => Inv
  <2> SUFFICES ASSUME BootInit PROVE WriterInv
    BY SettingsInvInit
  <2>1. flash = [p \in Pages |-> flash[p]]
    BY DEF BootInit
  <2> QED
    BY <2>1 DEF BootInit, WriterInv, NoImage
<1>2. Inv /\ [BootNext]_vars => Inv'
  BY SettingsInvStep, WriterInvStep
<1>3. Inv => OtherCopiesWhole
  <2> SUFFICES ASSUME Inv, pc = "restore", ret >= 0, NEW c \in Copies \ status,
                      BlockOf(PageOf(c, 0)) \in fresh
               PROVE  LET n == IF image.pages < Capacity THEN image.pages ELSE Capacity
                      IN /\ RomReads(c, image, n)
                         /\ \A s \in 1..n : flash[PageOf(c, s)] = Readable(c, image, s)
    BY DEF OtherCopiesWhole
  <2>1. chip \in Chips /\ image.pages \in Nat /\ WholeInv
    BY DEF WriterInv
  <2>2. 0 \in CopySlots
    BY <2>1, Sizes DEF CopySlots
  <2>3. Home(c) \in fresh
    BY <2>1, <2>2, AtFacts
  <2>4. \A s \in CopySlots : Written(c, s)
    BY <2>1, <2>3 DEF WholeInv
  <2> QED
    BY <2>1, <2>4, WholeCopyIsRead
<1> QED
  <2> HIDE DEF Inv
  <2> QED
    BY <1>1, <1>2, <1>3, PTL DEF BootSpec

-----------------------------------------------------------------------------
(* The transfers of a page.                                                *)

(* The page and spare sizes the modes of bch_list are made for: pages of   *)
(* up to 32 KB, with at least 16 and less than 128 spare bytes to a KB.    *)
SpareSizes ==
  \A g \in Geometries : LET n == g.pagesize \div 1024
                        IN n <= 32 /\ 16 * n <= g.oobsize /\ g.oobsize < 128 * n

(* What it is that a division is at least b.                               *)
LEMMA DivAtLeast ==
  ASSUME NEW a \in Nat, NEW d \in Nat, d > 0, NEW b \in Nat
  PROVE  a \div d >= b <=> a >= b * d
<1> DEFINE q == a \div d
           r == a % d
<1>1. q \in Nat /\ r \in 0..d - 1 /\ a = d * q + r
  BY Z3
<1> HIDE DEF q, r
<1>2. q * d \in Nat /\ q * d = d * q /\ b * d \in Nat
  BY <1>1, Z3
<1>3. CASE q >= b
  <2>1. q * d >= b * d
    BY <1>1, <1>3, Z3
  <2> QED
    BY <1>1, <1>2, <1>3, <2>1 DEF q
<1>4. CASE q + 1 <= b
  <2>1. (q + 1) * d <= b * d
    BY <1>1, <1>4, Z3
  <2>2. (q + 1) * d = q * d + d
    BY <1>1, Z3
  <2> QED
    BY <1>1, <1>2, <1>4, <2>1, <2>2 DEF q
<1> QED
  BY <1>1, <1>3, <1>4

(* The size of a page in KB.                                               *)
LEMMA PageSize ==
  ASSUME SpareSizes, NEW g \in Geometries
  PROVE  LET n == g.pagesize \div 1024
         IN /\ n \in 1..32 /\ g.pagesize = 1024 * n
            /\ g.oobsize \in Nat /\ 16 * n <= g.oobsize /\ g.oobsize < 128 * n
<1>1. g.pagesize \in Nat /\ g.oobsize \in Nat /\ g.pagesize >= 1024
      /\ g.pagesize % 1024 = 0
  BY GeometryAssumption
<1>2. g.pagesize \div 1024 \in Nat \ {0} /\ g.pagesize = 1024 * (g.pagesize \div 1024)
  BY <1>1
<1> QED
  BY <1>1, <1>2 DEF SpareSizes

(* Of the modes, those of 1 KB steps fit if their bytes do; the one of 384 *)
(* bytes never fits.                                                       *)
LEMMA ModesThatFit ==
  ASSUME SpareSizes, NEW g \in Geometries
  PROVE  LET n == g.pagesize \div 1024
         IN /\ \A i \in 2..7 : EccFits(g, bch_list[i]) <=>
                                 g.oobsize >= (bch_list[i].bytes + 2) * n
            /\ ~EccFits(g, bch_list[8])
<1> DEFINE n == g.pagesize \div 1024
           o == g.oobsize
<1>1. /\ n \in 1..32 /\ n \in Nat /\ n > 0 /\ g.pagesize = 1024 * n
      /\ o \in Nat /\ 16 * n <= o /\ o < 128 * n
  BY PageSize
<1>2. ASSUME NEW i \in 2..7
      PROVE  EccFits(g, bch_list[i]) <=> o >= (bch_list[i].bytes + 2) * n
  <2>1. /\ bch_list[i].unit_size = 1024 /\ bch_list[i].usr_mode = 2
        /\ bch_list[i].bytes \in Nat
    <3>1. i \in {2, 3, 4, 5, 6, 7}
      OBVIOUS
    <3> QED
      BY <3>1 DEF bch_list, EccMode
  <2> DEFINE b == bch_list[i].bytes + 2
  <2>2. b \in Nat
    BY <2>1
  <2>3. EccFits(g, bch_list[i]) <=> o \div n >= b
    BY <2>1 DEF EccFits
  <2> HIDE DEF b, n, o
  <2>4. o \div n >= b <=> o >= b * n
    BY <1>1, <2>2, DivAtLeast
  <2> QED
    BY <2>3, <2>4 DEF b
<1>3. ~EccFits(g, bch_list[8])
  <2> DEFINE d == g.pagesize \div 384
  <2>1. bch_list[8] = [unit_size |-> 384, bytes |-> 106, usr_mode |-> 2]
    BY DEF bch_list, EccMode
  <2>2. EccFits(g, bch_list[8]) <=> o \div d >= 108
    BY <2>1 DEF EccFits
  <2>3. d \in Nat /\ d >= 2 * n /\ d > 0
    <3>1. \A k \in Nat : (1024 * k) \div 384 \in Nat /\ (1024 * k) \div 384 >= 2 * k
      BY Z3
    <3> HIDE DEF n
    <3>2. d \in Nat /\ d >= 2 * n
      BY <1>1, <3>1
    <3> QED
      BY <1>1, <3>2
  <2> HIDE DEF d, n, o
  <2>4. o \div d >= 108 <=> o >= 108 * d
    BY <1>1, <2>3, DivAtLeast
  <2> QED
    BY <1>1, <2>2, <2>3, <2>4
<1> QED
  BY <1>2, <1>3

(* The mode of the data pages has a step for each KB of the page.          *)
LEMMA DataSettings ==
  ASSUME SpareSizes, NEW g \in Geometries
  PROVE  LET n == g.pagesize \div 1024
         IN \E b \in {14, 42, 54, 70, 88, 106} :
              /\ EccConfirm(g) = [mode |-> EccMode(1024, b), ecc_steps |-> n]
              /\ g.oobsize >= (b + 2) * n
<1> DEFINE Fit(i) == EccFits(g, bch_list[i])
           S == {i \in DOMAIN bch_list : Fit(i)}
           n == g.pagesize \div 1024
           o == g.oobsize
<1>1. DOMAIN bch_list = 1..8
  BY DEF bch_list
<1>2. /\ n \in 1..32 /\ g.pagesize = 1024 * n
      /\ o \in Nat /\ 16 * n <= o /\ o < 128 * n
  BY PageSize
<1>3. /\ bch_list[2] = EccMode(1024, 14) /\ bch_list[3] = EccMode(1024, 42)
      /\ bch_list[4] = EccMode(1024, 54) /\ bch_list[5] = EccMode(1024, 70)
      /\ bch_list[6] = EccMode(1024, 88) /\ bch_list[7] = EccMode(1024, 106)
  BY DEF bch_list
<1>4. /\ Fit(2) <=> o >= 16 * n
      /\ Fit(3) <=> o >= 44 * n
      /\ Fit(4) <=> o >= 56 * n
      /\ Fit(5) <=> o >= 72 * n
      /\ Fit(6) <=> o >= 90 * n
      /\ Fit(7) <=> o >= 108 * n
      /\ ~Fit(8)
  <2>1. /\ \A i \in 2..7 : Fit(i) <=> o >= (bch_list[i].bytes + 2) * n
        /\ ~Fit(8)
    BY ModesThatFit
  <2> HIDE DEF Fit, o, n
  <2>2. \A b : EccMode(1024, b).bytes = b
    BY DEF EccMode
  <2> QED
    BY <1>3, <2>1, <2>2
<1> HIDE DEF Fit
<1>5. PICK m \in 1..8 : Fit(m) /\ \A j \in 1..8 : Fit(j) => m >= j
  <2>1. Fit(2)
    BY <1>2, <1>4
  <2>2. \A i \in 1..8 : i \in {1, 2, 3, 4, 5, 6, 7, 8}
    OBVIOUS
  <2> QED
    BY <2>1, <2>2
<1>6. m \in S /\ \A y \in S : m >= y
  BY <1>1, <1>5
<1>7. Max(S) = m
  <2>1. Max(S) \in S /\ \A y \in S : Max(S) >= y
    BY <1>6 DEF Max
  <2>2. Max(S) \in 1..8 /\ Max(S) >= m /\ m >= Max(S)
    BY <1>1, <1>6, <2>1
  <2> QED
    BY <2>2
<1>8. EccConfirm(g) = [mode |-> bch_list[m], ecc_steps |-> Whole(g) \div StepSize(bch_list[m])]
  BY <1>7 DEF EccConfirm, Fit
<1>9. ASSUME NEW b \in {14, 42, 54, 70, 88, 106},
             bch_list[m] = EccMode(1024, b), o >= (b + 2) * n,
             o - (b + 2) * n < 1026 + b
      PROVE  /\ EccConfirm(g) = [mode |-> EccMode(1024, b), ecc_steps |-> n]
             /\ o >= (b + 2) * n
  <2>1. StepSize(bch_list[m]) = 1026 + b
    BY <1>9 DEF StepSize, EccMode
  <2>2. Whole(g) = 1024 * n + o
    BY <1>2 DEF Whole
  <2> HIDE DEF n, o
  <2>3. (1024 * n + o) \div (1026 + b) = n
    BY <1>2, <1>9
  <2> QED
    BY <1>8, <1>9, <2>1, <2>2, <2>3
<1>10. m \in {2, 3, 4, 5, 6, 7}
  BY <1>2, <1>4, <1>5
<1> HIDE DEF n, o
<1>11. \/ m = 2 /\ o >= 16 * n /\ o < 44 * n
       \/ m = 3 /\ o >= 44 * n /\ o < 56 * n
       \/ m = 4 /\ o >= 56 * n /\ o < 72 * n
       \/ m = 5 /\ o >= 72 * n /\ o < 90 * n
       \/ m = 6 /\ o >= 90 * n /\ o < 108 * n
       \/ m = 7 /\ o >= 108 * n /\ o < 128 * n
  BY <1>2, <1>4, <1>5, <1>10
<1>12. \E b \in {14, 42, 54, 70, 88, 106} :
         /\ bch_list[m] = EccMode(1024, b) /\ o >= (b + 2) * n
         /\ o - (b + 2) * n < 1026 + b
  BY <1>2, <1>3, <1>11
<1> QED
  BY <1>9, <1>12 DEF n, o

(* With the settings of the data a transfer covers the page exactly and    *)
(* leaves the rest of the spare area to be filled; its info words fit in   *)
(* either OOB mode.                                                        *)
LEMMA DataTransferFits ==
  ASSUME SpareSizes, NEW g \in Geometries, NEW oob_mod
  PROVE  LET s == EccConfirm(g)
             data == s.ecc_steps * s.mode.unit_size
         IN /\ data = g.pagesize
            /\ data <= g.pagesize
            /\ s.ecc_steps * StepSize(s.mode) <= Whole(g)
            /\ OobFill(g, s) >= 0
            /\ InfoWords(s, oob_mod) <= UserBufWords(g)
<1> DEFINE n == g.pagesize \div 1024
           o == g.oobsize
           s == EccConfirm(g)
<1>1. /\ n \in 1..32 /\ g.pagesize = 1024 * n /\ o \in Nat
  BY PageSize
<1>2. PICK b \in {14, 42, 54, 70, 88, 106} :
             /\ s = [mode |-> EccMode(1024, b), ecc_steps |-> n]
             /\ o >= (b + 2) * n
  BY DataSettings
<1>3. UserBufWords(g) = 2 * n + 2
  <2>1. (1024 * n) \div 512 = 2 * n
    BY <1>1
  <2> QED
    BY <1>1, <2>1 DEF UserBufWords
<1> HIDE DEF n, s
<1>4. /\ s.ecc_steps = n /\ s.mode.unit_size = 1024 /\ s.mode.bytes = b
      /\ s.mode.usr_mode = 2
  BY <1>2 DEF EccMode
<1>5. s.ecc_steps * s.mode.unit_size = g.pagesize
  BY <1>1, <1>4
<1>6. StepSize(s.mode) = 1026 + b
  BY <1>4 DEF StepSize
<1>7. s.ecc_steps * StepSize(s.mode) <= Whole(g)
  <2>1. n * (1026 + b) <= 1024 * n + o
    BY <1>1, <1>2
  <2> QED
    BY <1>1, <1>4, <1>6, <2>1 DEF Whole
<1>8. OobFill(g, s) >= 0
  <2>1. OobFill(g, s) = o - n * (b + 2)
    BY <1>4 DEF OobFill
  <2> QED
    BY <1>1, <1>2, <2>1
<1>9. InfoWords(s, oob_mod) <= 2 * n + 2
  <2>1. InfoWords(s, oob_mod) \in {n, n + 2}
    BY <1>1, <1>4 DEF InfoWords
  <2> QED
    BY <1>1, <2>1
<1>10. g.pagesize <= g.pagesize
  BY <1>1
<1> QED
  BY <1>3, <1>5, <1>7, <1>8, <1>9, <1>10 DEF s

(* With the settings of the ROM's page, which has a step for each 512      *)
(* bytes but takes 384 of the page with it, a transfer stays inside too;   *)
(* its info words fit without the block of the OOB mode.                   *)
LEMMA ShortTransferFits ==
  ASSUME SpareSizes, NEW g \in Geometries, NEW oob_mod, ~oob_mod
  PROVE  LET s == ShortSettings(g)
         IN /\ s.ecc_steps * s.mode.unit_size <= g.pagesize
            /\ s.ecc_steps * StepSize(s.mode) <= Whole(g)
            /\ g.oobsize < 1536 => InfoWords(s, oob_mod) <= UserBufWords(g)
<1> DEFINE n == g.pagesize \div 1024
           o == g.oobsize
           t == Whole(g) \div 512
           s == ShortSettings(g)
<1>1. /\ n \in 1..32 /\ g.pagesize = 1024 * n /\ o \in Nat /\ o < 128 * n
  BY PageSize
<1>2. Whole(g) = 1024 * n + o
  BY <1>1 DEF Whole
<1>3. UserBufWords(g) = 2 * n + 2
  <2>1. (1024 * n) \div 512 = 2 * n
    BY <1>1
  <2> QED
    BY <1>1, <2>1 DEF UserBufWords
<1>4. s = [mode |-> EccMode(384, 106), ecc_steps |-> t]
  BY DEF ShortSettings, bch_list
<1> HIDE DEF n, o, s
<1>5. t \in Nat /\ 512 * t <= 1024 * n + o
  BY <1>1, <1>2
<1> HIDE DEF t
<1>6. /\ s.ecc_steps = t /\ s.mode.unit_size = 384 /\ StepSize(s.mode) = 492
  BY <1>4 DEF EccMode, StepSize
<1>7. 384 * t <= 1024 * n /\ 492 * t <= 1024 * n + o
      /\ (o < 1536 => t <= 2 * n + 2)
  BY <1>1, <1>5
<1>8. InfoWords(s, oob_mod) = t
  BY <1>5, <1>6 DEF InfoWords
<1>9. s.ecc_steps * s.mode.unit_size <= g.pagesize
  BY <1>1, <1>5, <1>6, <1>7
<1>10. s.ecc_steps * StepSize(s.mode) <= Whole(g)
  BY <1>2, <1>5, <1>6, <1>7
<1>11. o < 1536 => InfoWords(s, oob_mod) <= UserBufWords(g)
  BY <1>3, <1>7, <1>8
<1> QED
  BY <1>9, <1>10, <1>11 DEF s, o

(* The ROM's settings are the controller's only where OOB mode is off.     *)
ModeInv ==
  /\ controller.ecc \in {"data", "short"}
  /\ controller.ecc = "short" => pc \in {"page", "sum", "restore"}
  /\ pc \in {"erase", "begin", "page", "sum", "restore"} => ~controller.oob_mod

(* Each step keeps it so.                                                  *)
LEMMA ModeInvStep ==
  ASSUME SettingsInv, ModeInv, [BootNext]_vars PROVE ModeInv'
<1> USE DEF SettingsInv, ModeInv, inst, job
<1>1. ASSUME NEW n \in Images, UbootWrite(n) PROVE ModeInv'
  BY <1>1 DEF UbootWrite
<1>2. ASSUME CheckLen PROVE ModeInv'
  BY <1>2 DEF CheckLen
<1>3. ASSUME EraseBlock PROVE ModeInv'
  BY <1>3 DEF EraseBlock
<1>4. ASSUME BeginCopies PROVE ModeInv'
  BY <1>4 DEF BeginCopies
<1>5. ASSUME ConfigPage PROVE ModeInv'
  BY <1>5 DEF ConfigPage, PageFails, NextCopy, NextCopyFrom
<1>6. ASSUME DataPage PROVE ModeInv'
  BY <1>6 DEF DataPage, PageFails, NextCopy, NextCopyFrom, DataEcc
<1>7. ASSUME SumUp PROVE ModeInv'
  BY <1>7 DEF SumUp
<1>8. ASSUME Restore PROVE ModeInv'
  BY <1>8 DEF Restore
<1>9. ASSUME Release PROVE ModeInv'
  BY <1>9 DEF Release
<1>10. ASSUME PowerFailure PROVE ModeInv'
  BY <1>10 DEF PowerFailure
<1>11. CASE UNCHANGED vars
  BY <1>11 DEF vars
<1> HIDE DEF SettingsInv, ModeInv, inst, job
<1> QED
  BY <1>1, <1>2, <1>3, <1>4, <1>5, <1>6, <1>7, <1>8, <1>9, <1>10, <1>11
  DEF BootNext

(* Whatever fails or is cut short, with the settings the controller has at *)
(* any moment of a write of the boot area the steps of a transfer stay     *)
(* inside the caller's page, the page on the flash and user_buf, for every *)
(* page and spare size of SpareSizes, which those of id_table.c are: the   *)
(* mode that controller_ecc_confirm chooses has exactly one step for each  *)
(* KB, and the settings of the ROM's page are never met in OOB mode.  The  *)
(* fill that follows the steps completes a data page; that of the ROM's    *)
(* page does not fit (RomPageFits).                                        *)
THEOREM StepsStayInside ==
  ASSUME SpareSizes PROVE BootSpec => []StepsFit
<1> DEFINE Inv == SettingsInv /\ ModeInv
<1>1. BootInit => Inv
  <2> SUFFICES ASSUME BootInit PROVE ModeInv
    BY SettingsInvInit
  <2>1. controller.ecc = "data" /\ pc = "idle"
    BY DEF BootInit
  <2> QED
    BY <2>1 DEF ModeInv
<1>2. Inv /\ [BootNext]_vars => Inv'
  BY SettingsInvStep, ModeInvStep
<1>3. Inv => StepsFit
  <2> SUFFICES ASSUME ModeInv, NEW g \in Geometries
      PROVE  LET s == Settings(g)
                 data == s.ecc_steps * s.mode.unit_size
             IN /\ data <= g.pagesize
                /\ s.ecc_steps * StepSize(s.mode) <= Whole(g)
                /\ ~RomSettings => data = g.pagesize /\ OobFill(g, s) >= 0
                /\ (RomSettings => g.oobsize < 1536)
                     => InfoWords(s, controller.oob_mod) <= UserBufWords(g)
    BY DEF StepsFit
  <2>1. CASE RomSettings
    <3>1. ~controller.oob_mod
      BY <2>1 DEF ModeInv, RomSettings
    <3> DEFINE s == ShortSettings(g)
    <3>2. /\ s.ecc_steps * s.mode.unit_size <= g.pagesize
          /\ s.ecc_steps * StepSize(s.mode) <= Whole(g)
          /\ g.oobsize < 1536 =>
               InfoWords(s, controller.oob_mod) <= UserBufWords(g)
      BY <3>1, ShortTransferFits
    <3>3. Settings(g) = s
      BY <2>1 DEF Settings
    <3> HIDE DEF s
    <3> QED
      BY <2>1, <3>2, <3>3
  <2>2. CASE ~RomSettings
    <3>1. Settings(g) = EccConfirm(g)
      BY <2>2 DEF Settings
    <3> QED
      BY <2>2, <3>1, DataTransferFits
  <2> QED
    BY <2>1, <2>2
<1> QED
  BY <1>1, <1>2, <1>3, PTL DEF BootSpec
=============================================================================
