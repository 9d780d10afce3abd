------------------------------ MODULE EccLayout ------------------------------
(***************************************************************************)
(* How the controller lays a page out: the ECC mode controller_ecc_confirm *)
(* chooses for a chip, the steps a page is transferred in, the info words  *)
(* a transfer has in user_buf, and the way of the user bytes through them  *)
(* (phy/hw_controller.c, phy/chip.c).  Sizes are in bytes.                 *)
(***************************************************************************)
EXTENDS Integers, FiniteSetsExt

CONSTANT Geometries   \* [pagesize, oobsize] of the chips of id_table.c

ASSUME GeometryAssumption ==
  /\ Geometries \subseteq [pagesize : Nat, oobsize : Nat]
  /\ \A g \in Geometries : g.pagesize >= 1024 /\ g.pagesize % 1024 = 0

BYTES_OF_USER_PER_PAGE == 16

(* bch_list without its entry 0, the raw mode.                             *)
EccMode(unit_size, bytes) ==
  [unit_size |-> unit_size, bytes |-> bytes, usr_mode |-> 2]
bch_list ==
  <<EccMode(512, 14), EccMode(1024, 14), EccMode(1024, 42), EccMode(1024, 54),
    EccMode(1024, 70), EccMode(1024, 88), EccMode(1024, 106), EccMode(384, 106)>>

(* Mutant of EccFits: the user bytes are forgotten.                        *)
EccFitsNoUser(g, m) ==
  g.oobsize \div (g.pagesize \div m.unit_size) >= m.bytes

EccFits(g, m) ==
  g.oobsize \div (g.pagesize \div m.unit_size) >= m.bytes + m.usr_mode

StepSize(m) == m.unit_size + m.bytes + m.usr_mode
Whole(g) == g.pagesize + g.oobsize

(* controller_ecc_confirm: the last mode of the list that fits; and the    *)
(* mode write_uboot sets for the first page of a copy.                     *)
EccConfirm(g) ==
  LET mode == bch_list[Max({i \in DOMAIN bch_list : EccFits(g, bch_list[i])})]
  IN [mode |-> mode, ecc_steps |-> Whole(g) \div StepSize(mode)]

ShortSettings(g) == [mode |-> bch_list[8], ecc_steps |-> Whole(g) \div 512]

(* oob_fill_data: the bytes that complete a page; and oob_fill_boot, in    *)
(* the 14 bits that the command of a raw transfer has for it.              *)
OobFill(g, s) == g.oobsize - s.ecc_steps * (s.mode.bytes + s.mode.usr_mode)
OobFillBoot(g) == (Whole(g) - 512) % 2^14

(* controller_adjust_timing: large pages have the user bytes in a block of *)
(* their own, ahead of the info words.                                     *)
OobMod(g) == g.pagesize > 4096

(* The words of 8 bytes a transfer needs in user_buf, and the words        *)
(* nand_buf_init gets for it.                                              *)
InfoWords(s, oob_mod) == s.ecc_steps + IF oob_mod THEN 2 ELSE 0
UserBufWords(g) == g.pagesize \div 512 + 2

(* user_byte_num of read_page and write_page; oobavail of a chip.          *)
UserByteNum(g) == EccConfirm(g).ecc_steps * EccConfirm(g).mode.usr_mode

(* controller_set_user_byte: oob goes to user_buf as it is, or two bytes   *)
(* to the word of each step.                                               *)
SetUserByte(g, oob) ==
  IF OobMod(g) THEN oob
  ELSE [w \in 0..UserByteNum(g) \div 2 - 1 |-> <<oob[2 * w], oob[2 * w + 1]>>]

(* What the hardware stores of it and hands back: the block has            *)
(* BYTES_OF_USER_PER_PAGE bytes, and info words follow.                    *)
Transferred(g, user_buf) ==
  [k \in DOMAIN user_buf |->
     IF OobMod(g) /\ k >= BYTES_OF_USER_PER_PAGE THEN "info" ELSE user_buf[k]]

(* controller_get_user_byte.                                               *)
GetUserByte(g, user_buf) ==
  IF OobMod(g) THEN user_buf
  ELSE [k \in 0..UserByteNum(g) - 1 |-> user_buf[k \div 2][(k % 2) + 1]]
=============================================================================
