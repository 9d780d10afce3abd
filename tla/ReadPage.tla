------------------------------ MODULE ReadPage ------------------------------
(***************************************************************************)
(* read_page (phy/chip_operation.c): a read over the chips and planes of a *)
(* request, with read retry (phy/new_nand.c).                              *)
(*                                                                         *)
(* First every chip is told to sense its page; then the pages are fetched  *)
(* from the chips' registers one by one and corrected.  An uncorrectable   *)
(* page makes the chip sense again at the next read level, and jumps back  *)
(* into the middle of the first loop.  The locals that keep track of it,   *)
(* retry_cnt and plane0_retry_flag, live across the iterations.            *)
(***************************************************************************)
EXTENDS EccLayout, Sequences, FiniteSets

CONSTANTS
  ChipNum,      \* controller->chip_num
  PlaneNums,    \* plane_num: 1, or 2 with DEV_MULTI_PLANE_MODE
  RetryCnt,     \* retry_info->retry_cnt_lp: entries of the retry table
  Makers,       \* retry tables and hooks, see Maker
  HasRetry,     \* retry_info->flag, and not in SLC mode
  Conditions,   \* conditions a page may be in, see Cond
  MaxReads,     \* bound: MaxReads[n], the last call that may be on n planes
  MaxBusy       \* bound: waits for a chip that time out

Chips == 1..ChipNum
Levels == 0..RetryCnt   \* 0: the default read level

(* The hooks of new_nand.c.  "hynix20" are the 20 and 1y nm chips, whose   *)
(* table comes from the chip; "sandisk" has a table for either kind of     *)
(* page and keeps to the one of the request.                               *)
Maker == {"micron", "intel", "samsung", "toshiba", "sandisk", "a19",
          "hynix26", "hynix20"}

(* What is to know of a page: the levels at which it can be corrected, and *)
(* those at which, uncorrectable, it passes as erased: fewer zero bits in  *)
(* the first step that fails than can be corrected.  An erased page that   *)
(* was disturbed does so at some levels and not at others.                 *)
Cond == [blank : SUBSET Levels, ok : SUBSET Levels]

ASSUME ReadAssumption ==
  /\ ChipNum \in Nat \ {0}
  /\ PlaneNums \subseteq {1, 2}
  /\ RetryCnt \in 2..255   \* unsigned chars, as retry_cnt is
  /\ "hynix20" \in Makers => RetryCnt * RetryCnt <= 255
  /\ Makers \subseteq Maker
  /\ HasRetry \in BOOLEAN
  /\ Conditions \subseteq Cond
  /\ MaxReads \in [PlaneNums -> Nat]
  /\ MaxBusy \in Nat

VARIABLES
  maker,      \* of the chips; does not change
  level,      \* level[c]: the read level chip c is set to
  cur_cnt,    \* cur_cnt[c]: retry_info->cur_cnt_lp, or cur_cnt_up of a19
  sensed,     \* sensed[c]: the level at which its registers were sensed
  page,       \* page[c][p]: condition of the page of this read
  plane_num,  \* planes of this read
  at,         \* idle, command, plane0 or plane1 (the only or the second one)
  chipnr,     \* the chip the loop is at
  retry_cnt,
  plane0_retry_flag,
  buf,        \* pages delivered so far
  ecc_err, bit_flip,
  reads,      \* calls so far
  busy,       \* waits that timed out so far
  strayed,    \* chips a read left, after a retry, without a completed exit
  clean       \* no chip had strayed when this read began, no wait timed out

chipVars == <<level, cur_cnt, sensed>>
callVars == <<maker, page, plane_num, reads>>
vars == <<chipVars, callVars, at, chipnr, retry_cnt, plane0_retry_flag, buf,
          ecc_err, bit_flip, busy, strayed, clean>>

ReadInit ==
  /\ maker \in Makers
  /\ level = [c \in Chips |-> 0]
  /\ cur_cnt = [c \in Chips |-> 0]
  /\ sensed = [c \in Chips |-> 0]
  /\ page = [c \in Chips |-> <<>>]
  /\ plane_num = 1
  /\ at = "idle"
  /\ chipnr = 1
  /\ retry_cnt = 0
  /\ plane0_retry_flag = FALSE
  /\ buf = <<>>
  /\ ecc_err = 0
  /\ bit_flip = 0
  /\ reads = 0
  /\ busy = 0
  /\ strayed = {}
  /\ clean = TRUE

-----------------------------------------------------------------------------
(* The table: the level of its entry i, counted from 0.  The first one of  *)
(* some tables is the default level.                                       *)
TableLevel(i) == IF maker \in {"samsung", "toshiba"} THEN i ELSE i + 1

(* readretry_handle_hynix: the counter runs on, and behind the end of the  *)
(* table each round starts one entry later.                                *)
Hynix == maker \in {"hynix26", "hynix20"}
HynixEntry(n) ==
  IF n < RetryCnt THEN n ELSE ((n \div RetryCnt) + (n % RetryCnt)) % RetryCnt

(* retry_op_cnt                                                            *)
OpCnt == IF maker = "hynix20" THEN RetryCnt * RetryCnt ELSE RetryCnt

(* readretry_handle_intel: set_reg_value_micron does nothing for its chips. *)
IntelLevel(c) == level[c]

(* The level a retry sets, and the counter after it.                       *)
NextLevel(c) ==
  CASE maker = "intel" -> IntelLevel(c)
    [] Hynix -> TableLevel(HynixEntry(cur_cnt[c]))
    [] OTHER -> TableLevel(cur_cnt[c])

(* readretry_handle_a19_sandisk: its limit, retry_cnt_up, is never set.    *)
A19Cnt == 0

NextCnt(c) ==
  CASE maker = "a19" -> A19Cnt
    [] Hynix -> (cur_cnt[c] + 1) % 256
    [] OTHER -> (cur_cnt[c] + 1) % RetryCnt

(* retry_info->handle: the next level of the table; retry_info->exit: back *)
(* to the default, and the counters of all chips to the start.             *)
Handle(c) ==
  /\ level' = [level EXCEPT ![c] = NextLevel(c)]
  /\ cur_cnt' = [cur_cnt EXCEPT ![c] = NextCnt(c)]

(* The same when the chip is busy before or after the registers are set;   *)
(* some hooks do not notice, and the caller only says so.                  *)
HandleBusy(c) ==
  /\ level' \in {level, [level EXCEPT ![c] = NextLevel(c)]}
  /\ cur_cnt' = IF Hynix \/ maker = "a19"
                THEN [cur_cnt EXCEPT ![c] = NextCnt(c)] ELSE cur_cnt

(* Mutant of Exit: the registers of the chip keep the level.               *)
ExitCountersOnly(c) ==
  /\ cur_cnt' = [d \in Chips |-> 0]
  /\ UNCHANGED level

(* Mutant of Exit: the counters run on.                                    *)
ExitLevelOnly(c) ==
  /\ level' = [level EXCEPT ![c] = 0]
  /\ UNCHANGED cur_cnt

Exit(c) ==
  /\ level' = [level EXCEPT ![c] = 0]
  /\ cur_cnt' = [d \in Chips |-> 0]

(* A busy chip makes exit return early, and the caller only says so: at    *)
(* its first wait, which only the Hynix hook has behind the counters, or   *)
(* before or after the registers are set.                                  *)
ExitBusy(c) ==
  \/ ~Hynix /\ UNCHANGED <<level, cur_cnt>>
  \/ /\ cur_cnt' = [d \in Chips |-> 0]
     /\ level' \in {level, [level EXCEPT ![c] = 0]}

-----------------------------------------------------------------------------
(* A call of read_page, for pages in any condition: a program that was     *)
(* interrupted leaves some of them written and some erased.                *)
ReadCall ==
  /\ at = "idle"
  /\ plane_num' \in PlaneNums
  /\ reads < MaxReads[plane_num']
  /\ reads' = reads + 1
  /\ page' \in [Chips -> [1..plane_num' -> Conditions]]
  /\ at' = "command"
  /\ chipnr' = 1
  /\ retry_cnt' = 0
  /\ plane0_retry_flag' = FALSE
  /\ buf' = <<>>
  /\ ecc_err' = 0
  /\ bit_flip' = 0
  /\ clean' = (strayed = {})
  /\ UNCHANGED <<maker, chipVars, busy, strayed>>

(* The page that is fetched first after a chip was sensed, or after it was *)
(* sensed again: the first plane is left out when the flag is set.         *)
FetchFrom(flag) == IF plane_num = 2 /\ ~flag THEN "plane0" ELSE "plane1"

(* The first loop: NAND_CMD_READ0 for every chip, at its current level.    *)
SendCommand ==
  /\ at = "command"
  /\ sensed' = [sensed EXCEPT ![chipnr] = level[chipnr]]
  /\ IF chipnr < ChipNum
     THEN chipnr' = chipnr + 1 /\ UNCHANGED at
     ELSE chipnr' = 1 /\ at' = FetchFrom(plane0_retry_flag)
  /\ retry_cnt' = 0
  /\ UNCHANGED <<level, cur_cnt, callVars, plane0_retry_flag, buf, ecc_err,
                 bit_flip, busy, strayed, clean>>

TimesOut == busy < MaxBusy /\ busy' = busy + 1 /\ clean' = FALSE
NoTimeOut == UNCHANGED <<busy, clean>>

(* A chip that is left while it is being retried.                          *)
Leave == strayed' = IF retry_cnt > 0 THEN strayed \union {chipnr} ELSE strayed

(* quene_rb fails: read_page returns the error.                            *)
ChipBusy ==
  /\ at \in {"command", "plane0", "plane1"}
  /\ at = "plane1" /\ plane_num = 2 =>   \* no wait between the planes
       plane0_retry_flag /\ (retry_cnt > 0 \/ buf[Len(buf)][1] # chipnr)
  /\ TimesOut
  /\ Leave
  /\ at' = "idle"
  /\ UNCHANGED <<chipVars, callVars, chipnr, retry_cnt, plane0_retry_flag,
                 buf, ecc_err, bit_flip>>

(* The page to be fetched, and what hwecc_correct makes of it: corrected,  *)
(* failed but with few enough zero bits to pass as erased, or failed.      *)
Plane == IF at = "plane0" THEN 1 ELSE plane_num
Here == page[chipnr][Plane]
Corrected == sensed[chipnr] \in Here.ok
Blank == sensed[chipnr] \in Here.blank \ Here.ok
Uncorrected == ~Corrected /\ ~Blank

Deliver(how) == buf' = Append(buf, <<chipnr, Plane, how>>)

(* Mutant of NeedRetry: one level too few.                                 *)
NeedRetryOneLess == HasRetry /\ retry_cnt + 1 < OpCnt

NeedRetry == HasRetry /\ retry_cnt < OpCnt

(* Mutant of Retry: retry_cnt is not counted.                              *)
RetryUncounted ==
  /\ at \in {"plane0", "plane1"}
  /\ Uncorrected
  /\ NeedRetry
  /\ Handle(chipnr)
  /\ sensed' = [sensed EXCEPT ![chipnr] = level'[chipnr]]
  /\ at' = FetchFrom(plane0_retry_flag)
  /\ UNCHANGED <<callVars, chipnr, retry_cnt, plane0_retry_flag, buf, ecc_err,
                 bit_flip, busy, strayed, clean>>

(* An uncorrectable page is sensed again, with the other plane, and the    *)
(* fetch starts over.                                                      *)
Retry ==
  /\ at \in {"plane0", "plane1"}
  /\ Uncorrected
  /\ NeedRetry
  /\ retry_cnt' = retry_cnt + 1
  /\ \/ Handle(chipnr) /\ NoTimeOut
     \/ HandleBusy(chipnr) /\ TimesOut
  /\ sensed' = [sensed EXCEPT ![chipnr] = level'[chipnr]]
  /\ at' = FetchFrom(plane0_retry_flag)
  /\ UNCHANGED <<callVars, chipnr, plane0_retry_flag, buf, ecc_err, bit_flip,
                 strayed>>

(* The count that is left when a page is done with, one above the number   *)
(* of retries when they were all used.                                     *)
Tries == IF Uncorrected /\ HasRetry THEN retry_cnt + 1 ELSE retry_cnt

(* nand_reset after a page of a Hynix chip is lost, but not one of the     *)
(* first of two planes.  It leaves the registers to the exit hook, which   *)
(* follows whether or not its wait times out.                              *)
Resets == Hynix /\ at = "plane1" /\ Uncorrected

ExitRetry ==
  IF Tries = 0 THEN NoTimeOut /\ UNCHANGED <<level, cur_cnt, strayed>>
  ELSE \/ /\ Exit(chipnr)
          /\ strayed' = strayed \ {chipnr}
          /\ NoTimeOut \/ (Resets /\ TimesOut)
       \/ /\ ExitBusy(chipnr)
          /\ TimesOut
          /\ strayed' = strayed \union {chipnr}

(* ecc_err counts pages that are lost, bit_flip the pages that took one of *)
(* the last two levels.                                                    *)
Count ==
  /\ ecc_err' = IF Uncorrected THEN ecc_err + 1 ELSE ecc_err
  /\ bit_flip' = IF Corrected /\ retry_cnt > 0 /\ retry_cnt + 2 > OpCnt
                 THEN bit_flip + 1 ELSE bit_flip

(* The next chip, or the end of the second loop; retry_cnt starts anew.    *)
Advance ==
  /\ retry_cnt' = 0
  /\ IF chipnr < ChipNum
     THEN chipnr' = chipnr + 1 /\ at' = FetchFrom(plane0_retry_flag')
     ELSE at' = "idle" /\ UNCHANGED chipnr

Done == Corrected \/ (Uncorrected /\ ~NeedRetry)
How == IF Corrected THEN "data" ELSE "garbage"

(* Mutant of Plane0: plane0_retry_flag is not set.                         *)
Plane0Unflagged ==
  /\ at = "plane0"
  /\ Done
  /\ Count
  /\ ExitRetry
  /\ Deliver(How)
  /\ retry_cnt' = 0
  /\ at' = "plane1"
  /\ UNCHANGED <<sensed, callVars, chipnr, plane0_retry_flag>>

(* The first of two planes.                                                *)
Plane0 ==
  /\ at = "plane0"
  /\ Done
  /\ Count
  /\ ExitRetry
  /\ Deliver(How)
  /\ plane0_retry_flag' = TRUE
  /\ retry_cnt' = 0
  /\ at' = "plane1"
  /\ UNCHANGED <<sensed, callVars, chipnr>>

(* plane0_ff: a first plane that passes as erased is delivered; the flag,  *)
(* the count and the level of its retries stay.                            *)
Plane0Erased ==
  /\ at = "plane0"
  /\ Blank
  /\ Deliver("ff")
  /\ at' = "plane1"
  /\ UNCHANGED <<chipVars, callVars, chipnr, retry_cnt, plane0_retry_flag,
                 ecc_err, bit_flip, busy, strayed, clean>>

(* The second of two planes, or the only one.                              *)
LastPlane ==
  /\ at = "plane1"
  /\ Done
  /\ Count
  /\ ExitRetry
  /\ Deliver(How)
  /\ plane0_retry_flag' = FALSE
  /\ Advance
  /\ UNCHANGED <<sensed, callVars>>

(* page_ff: the same here; exit is passed over, after retries too, and     *)
(* flag and level stay.                                                    *)
LastPlaneErased ==
  /\ at = "plane1"
  /\ Blank
  /\ Deliver("ff")
  /\ Leave
  /\ UNCHANGED <<chipVars, callVars, plane0_retry_flag, ecc_err, bit_flip,
                 busy, clean>>
  /\ Advance

-----------------------------------------------------------------------------
ReadStep == SendCommand \/ Retry \/ Plane0 \/ Plane0Erased
              \/ LastPlane \/ LastPlaneErased

ReadNext == ReadCall \/ ReadStep \/ ChipBusy

ReadSpec == ReadInit /\ [][ReadNext]_vars

(* The caller has the chip and the processor.                              *)
ReadFairSpec == ReadSpec /\ WF_vars(ReadStep)

-----------------------------------------------------------------------------
Slots == {<<c, p>> : c \in Chips, p \in 1..plane_num}
Returned == at = "idle" /\ reads > 0
Success == Returned /\ Len(buf) = Cardinality(Slots)

(* The locals have their types.                                            *)
ReadTypeOK ==
  /\ level \in [Chips -> Levels]
  /\ sensed \in [Chips -> Levels]
  /\ maker \in Makers
  /\ cur_cnt \in [Chips -> 0..255]
  /\ ~Hynix => \A c \in Chips : cur_cnt[c] < RetryCnt
  /\ at \in {"idle", "command", "plane0", "plane1"}
  /\ at = "plane0" => plane_num = 2
  /\ chipnr \in Chips
  /\ retry_cnt \in 0..OpCnt
  /\ strayed \subseteq Chips

(* The two pages of a chip are mixed if one of them may pass as erased and *)
(* they do not both do so at every level.                                  *)
Mixed(c) ==
  /\ plane_num = 2
  /\ \E p \in 1..2 : page[c][p].blank # {}
  /\ \E p \in 1..2 : page[c][p].blank # Levels \/ page[c][p].ok # {}

InPlace(k) == k = (buf[k][1] - 1) * plane_num + buf[k][2]

(* Whatever was retried, each page lands in its own part of the buffer:    *)
(* none is delivered twice or left out.  A mixed chip is the exception: it *)
(* moves its own second page and all that follow (see EveryPageInPlace);   *)
(* the chips before it are in place.                                       *)
PagesInPlace ==
  /\ \A k \in DOMAIN buf :
       (\A c \in 1..buf[k][1] : ~Mixed(c)) => InPlace(k)
  /\ (\A c \in Chips : ~Mixed(c)) => Len(buf) <= Cardinality(Slots)

(* The same without the exception.  read_page says of itself that it       *)
(* contains multi-plane and multi-chip mode.                               *)
EveryPageInPlace == \A k \in DOMAIN buf : InPlace(k)

(* The levels a page is sensed at if it stays uncorrectable, and how many  *)
(* retries come up to a level.                                             *)
Reached ==
  IF ~HasRetry THEN {0} ELSE
  CASE maker = "intel" -> {0}
    [] maker = "a19" -> {0, 1}
    [] maker \in {"samsung", "toshiba"} -> 0..RetryCnt - 1
    [] OTHER -> Levels
RetriesTo(l) == IF l > 0 /\ maker \in {"samsung", "toshiba"} THEN l + 1 ELSE l

(* A page is lost if no level the maker's hook reaches corrects it or      *)
(* makes it pass as erased; it is worn if the first one that does corrects *)
(* it, after at least all but one of the retries.                          *)
Ends(cond) == (cond.ok \union cond.blank) \cap Reached
Lost(cond) == Ends(cond) = {}
Worn(cond) ==
  /\ Ends(cond) # {}
  /\ Min(Ends(cond)) \in cond.ok
  /\ RetriesTo(Min(Ends(cond))) >= OpCnt - 1

(* The verdict of a read that comes to its end, on chips that are not      *)
(* mixed.  A lost page is reported, whatever happened to the pages before  *)
(* it.  On one plane, if the read found all chips as an exit leaves them   *)
(* and no wait timed out, ecc_err counts exactly the lost pages and        *)
(* bit_flip the worn ones: every level is reached from wherever the        *)
(* counters, which all chips share, were left.                             *)
VerdictRight ==
  LET lost == {s \in Slots : Lost(page[s[1]][s[2]])}
      worn == {s \in Slots : Worn(page[s[1]][s[2]])}
  IN Success /\ (\A c \in Chips : ~Mixed(c)) =>
       /\ ecc_err >= Cardinality(lost)
       /\ plane_num = 1 /\ clean =>
            ecc_err = Cardinality(lost) /\ bit_flip = Cardinality(worn)

(* The user bytes of a request.  write_page gives each page the next       *)
(* user_byte_num bytes of the caller's buffer; read_page puts what it      *)
(* fetched in the same order and returns the first                         *)
(* BYTES_OF_USER_PER_PAGE, or 0x22 after an uncorrectable page.  A byte is *)
(* named by its place in the caller's buffer.                              *)

(* Mutant of PageOob: oob_buf is not advanced.                             *)
PageOobFirst(g, c, p) == [k \in 0..UserByteNum(g) - 1 |-> k]

PageOob(g, c, p) ==
  LET n == UserByteNum(g)
  IN [k \in 0..n - 1 |-> ((c - 1) * plane_num + p - 1) * n + k]

OobRead(g) ==
  [i \in 0..BYTES_OF_USER_PER_PAGE - 1 |->
     LET n == UserByteNum(g)
         part == buf[i \div n + 1]
         oob == SetUserByte(g, PageOob(g, part[1], part[2]))
     IN CASE ecc_err > 0 -> 34
          [] part[3] = "ff" -> 255
          [] OTHER -> GetUserByte(g, Transferred(g, oob))[i % n]]

(* The FTL takes a device only if it has that many user bytes.             *)
FtlTakes(g) ==
  UserByteNum(g) * plane_num * ChipNum >= BYTES_OF_USER_PER_PAGE

(* On every device the FTL takes, the user bytes of a request that was     *)
(* read without an error are the ones it was written with, whichever pages *)
(* were retried and over however many pages they were spread; those of a   *)
(* page that no level corrects, and that so was taken for erased, read as  *)
(* 0xff.  (The chips are not mixed.)                                       *)
UserBytesBack ==
  Success /\ ecc_err = 0 /\ (\A c \in Chips : ~Mixed(c)) =>
    \A g \in {h \in Geometries : FtlTakes(h)} :
      \A i \in 0..BYTES_OF_USER_PER_PAGE - 1 :
        LET k == i \div UserByteNum(g)
            from == page[k \div plane_num + 1][(k % plane_num) + 1]
        IN /\ from.blank = {} => OobRead(g)[i] = i
           /\ from.ok = {} => OobRead(g)[i] = 255

(* A read leaves every chip at the default level, so that the retries for  *)
(* one page never disturb the next request, but for two cases: a wait for  *)
(* the chip timed out during its retries, or a page passed as erased only  *)
(* at a level of the table, for which page_ff skips the exit.  The next    *)
(* read that retries and exits brings such a chip back, too.               *)
LevelRestored == Returned => \A c \in Chips \ strayed : level[c] = 0

(* Every call of read_page returns, although retries jump backwards.       *)
ReadReturns == at = "command" ~> at = "idle"
=============================================================================
