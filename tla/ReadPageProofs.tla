--------------------------- MODULE ReadPageProofs ---------------------------
(***************************************************************************)
(* Proofs about ReadPage, for any number of chips, retry tables of any     *)
(* length a byte can count, and each maker's handlers.                     *)
(*                                                                         *)
(* RetryInv keeps the walk of the retry table in bounds and CallInv        *)
(* describes the local variables of the read loop. LevelInv says which     *)
(* chip may be off its default level, and PlaceInv how the buffer fills    *)
(* up. WalkInv follows the levels a page is tried at, and CountInv ties    *)
(* the counters of the verdict to the pages delivered so far. HowInv tells *)
(* the erased ones among these; the user bytes then only need that what    *)
(* goes into user_buf comes out again (UserBytesThrough).                  *)
(***************************************************************************)
EXTENDS ReadPage, FiniteSetTheorems, TLAPS

(* A retry counter of one byte for each chip.                              *)
Counts == [Chips -> 0..255]

(* The read level each chip is set to.                                     *)
LevelOf == [Chips -> Levels]

(* The levels and the counters of the read retry stay within the table of  *)
(* the maker.                                                              *)
RetryInv ==
  /\ level \in LevelOf
  /\ cur_cnt \in Counts
  /\ ~Hynix => \A c \in Chips : cur_cnt[c] < RetryCnt
  /\ maker \in Makers

(* The remainder is below the divisor.                                     *)
LEMMA ModBound ==
  ASSUME NEW n \in Nat, NEW m \in Nat \ {0}
  PROVE  n % m \in Nat /\ n % m < m /\ n \div m \in Nat
  BY Z3

(* The entry the Hynix handlers pick is in the table, for every value of   *)
(* the counter.                                                            *)
LEMMA EntryInTable ==
  ASSUME NEW n \in Nat
  PROVE  HynixEntry(n) \in 0..RetryCnt - 1
<1>1. RetryCnt \in Nat \ {0}
  BY ReadAssumption
<1> DEFINE q == n \div RetryCnt
           r == n % RetryCnt
<1>2. q \in Nat /\ r \in Nat
  BY <1>1, ModBound
<1>3. HynixEntry(n) = IF n < RetryCnt THEN n ELSE (q + r) % RetryCnt
  BY DEF HynixEntry
<1> HIDE DEF q, r
<1>4. (q + r) % RetryCnt \in 0..RetryCnt - 1
  <2>1. q + r \in Nat
    BY <1>2
  <2> QED
    BY <1>1, <2>1, ModBound
<1> QED
  BY <1>1, <1>3, <1>4

(* One more retry sets a level that is in the table and keeps the counter  *)
(* a byte.                                                                 *)
LEMMA NextInTable ==
  ASSUME RetryInv, NEW c \in Chips
  PROVE  /\ NextLevel(c) \in Levels
         /\ NextCnt(c) \in 0..255
         /\ ~Hynix => NextCnt(c) < RetryCnt
<1>0. RetryCnt \in 2..255
  BY ReadAssumption
<1>1. /\ cur_cnt[c] \in 0..255 /\ level[c] \in Levels
      /\ ~Hynix => cur_cnt[c] < RetryCnt
  BY DEF RetryInv, Counts, LevelOf
<1>2. \A i \in 0..RetryCnt - 1 : TableLevel(i) \in Levels
  BY <1>0 DEF TableLevel, Levels
<1>3. NextLevel(c) \in Levels
  <2>1. HynixEntry(cur_cnt[c]) \in 0..RetryCnt - 1
    BY <1>1, EntryInTable
  <2>2. TableLevel(HynixEntry(cur_cnt[c])) \in Levels
    BY <1>2, <2>1
  <2>3. ~Hynix => TableLevel(cur_cnt[c]) \in Levels
    <3>1. ~Hynix => cur_cnt[c] \in 0..RetryCnt - 1
      BY <1>0, <1>1
    <3> QED
      BY <1>2, <3>1
  <2> QED
    BY <1>1, <2>2, <2>3 DEF NextLevel, IntelLevel
<1>4. (cur_cnt[c] + 1) % 256 \in 0..255
  BY <1>1, ModBound
<1>5. (cur_cnt[c] + 1) % RetryCnt \in 0..255 /\ (cur_cnt[c] + 1) % RetryCnt < RetryCnt
  <2>1. cur_cnt[c] + 1 \in Nat /\ RetryCnt \in Nat \ {0}
    BY <1>0, <1>1
  <2> DEFINE r == (cur_cnt[c] + 1) % RetryCnt
  <2>2. r \in Nat /\ r < RetryCnt
    BY <2>1, ModBound
  <2> HIDE DEF r
  <2>3. r \in 0..255
    BY <1>0, <2>2
  <2> QED
    BY <2>2, <2>3 DEF r
<1>6. NextCnt(c) \in 0..255
  BY <1>0, <1>4, <1>5 DEF NextCnt, A19Cnt
<1>7. ~Hynix => NextCnt(c) < RetryCnt
  BY <1>0, <1>5 DEF NextCnt, A19Cnt
<1> QED
  BY <1>3, <1>6, <1>7

(* Every step of a read keeps this.                                        *)
LEMMA RetryInvStep ==
  RetryInv /\ chipnr \in Chips /\ [ReadNext]_vars => RetryInv'
<1> SUFFICES ASSUME RetryInv, chipnr \in Chips, [ReadNext]_vars PROVE RetryInv'
  OBVIOUS
<1>0. /\ 0 \in Levels /\ 0 \in 0..255 /\ 0 < RetryCnt
      /\ level \in LevelOf /\ cur_cnt \in Counts
  BY ReadAssumption DEF Levels, RetryInv
<1>m. maker' = maker /\ maker \in Makers
  BY DEF ReadNext, ReadCall, ReadStep, ChipBusy, SendCommand, Retry, Plane0,
     Plane0Erased, LastPlane, LastPlaneErased, vars, callVars, RetryInv
<1>1. ASSUME level' \in LevelOf, cur_cnt' \in Counts,
             ~Hynix => \A c \in Chips : cur_cnt'[c] < RetryCnt
      PROVE  RetryInv'
  BY <1>m, <1>1 DEF RetryInv, Hynix
<1>2. CASE Retry
  <2>1. /\ [level EXCEPT ![chipnr] = NextLevel(chipnr)] \in LevelOf
        /\ [cur_cnt EXCEPT ![chipnr] = NextCnt(chipnr)] \in Counts
    BY <1>0, NextInTable DEF LevelOf, Counts
  <2>2. /\ level' \in {level, [level EXCEPT ![chipnr] = NextLevel(chipnr)]}
        /\ cur_cnt' \in {cur_cnt, [cur_cnt EXCEPT ![chipnr] = NextCnt(chipnr)]}
    BY <1>2 DEF Retry, Handle, HandleBusy
  <2>3. ~Hynix => \A c \in Chips : cur_cnt'[c] < RetryCnt
    BY <1>0, <2>2, NextInTable DEF Counts, RetryInv
  <2> QED
    BY <1>0, <1>1, <2>1, <2>2, <2>3
<1>3. CASE /\ level' \in {level, [level EXCEPT ![chipnr] = 0]}
           /\ cur_cnt' \in {cur_cnt, [d \in Chips |-> 0]}
  <2>1. level' \in LevelOf
    BY <1>0, <1>3 DEF LevelOf
  <2>2. cur_cnt' \in Counts
    BY <1>0, <1>3 DEF Counts
  <2>3. ~Hynix => \A c \in Chips : cur_cnt'[c] < RetryCnt
    BY <1>0, <1>3 DEF RetryInv
  <2> QED
    BY <1>1, <2>1, <2>2, <2>3
<1>4. ASSUME ExitRetry
      PROVE  /\ level' \in {level, [level EXCEPT ![chipnr] = 0]}
             /\ cur_cnt' \in {cur_cnt, [d \in Chips |-> 0]}
  BY <1>4 DEF ExitRetry, Exit, ExitBusy
<1>5. Retry \/ UNCHANGED <<level, cur_cnt>> \/ ExitRetry
  BY DEF ReadNext, ReadCall, ReadStep, ChipBusy, SendCommand, Plane0, Plane0Erased,
     LastPlane, LastPlaneErased, vars, chipVars
<1> QED
  BY <1>2, <1>3, <1>4, <1>5

-----------------------------------------------------------------------------

(* The local variables of read_page: the planes belong together, retries   *)
(* are at most the number of operations, and the flag of plane 0 is set    *)
(* only past plane 0.                                                      *)
CallInv ==
  /\ at \in {"idle", "command", "plane0", "plane1"}
  /\ chipnr \in Chips
  /\ plane_num \in {1, 2}
  /\ retry_cnt \in Nat /\ retry_cnt <= OpCnt
  /\ busy \in Nat /\ reads \in Nat
  /\ plane0_retry_flag \in BOOLEAN
  /\ strayed \subseteq Chips
  /\ sensed \in LevelOf
  /\ at = "plane0" => plane_num = 2 /\ ~plane0_retry_flag
  /\ at = "command" => ~plane0_retry_flag /\ retry_cnt = 0

(* A read is tried at least once.                                          *)
LEMMA OpCntNat == OpCnt \in Nat /\ OpCnt > 0
<1>1. RetryCnt \in Nat /\ RetryCnt > 0
  BY ReadAssumption
<1>2. RetryCnt * RetryCnt \in Nat /\ RetryCnt * RetryCnt > 0
  BY <1>1, Z3
<1> QED
  BY <1>1, <1>2 DEF OpCnt

(* The chips are numbered from 1 on.                                       *)
LEMMA ChipsFacts ==
  /\ ChipNum \in Nat \ {0} /\ 1 \in Chips
  /\ \A c \in Chips : c \in Nat /\ c > 0 /\ c <= ChipNum
                      /\ (c < ChipNum => c + 1 \in Chips)
<1>1. ChipNum \in Nat \ {0}
  BY ReadAssumption
<1> QED
  BY <1>1 DEF Chips

(* Both invariants hold before the first read.                             *)
LEMMA CallInvInit == ReadInit => CallInv /\ RetryInv
<1> SUFFICES ASSUME ReadInit PROVE CallInv /\ RetryInv
  OBVIOUS
<1>0. 0 \in Levels /\ 0 \in 0..255 /\ 0 < RetryCnt
  BY ReadAssumption DEF Levels
<1>1. level \in LevelOf /\ sensed \in LevelOf
  BY <1>0 DEF ReadInit, LevelOf
<1>2. cur_cnt \in Counts /\ \A c \in Chips : cur_cnt[c] < RetryCnt
  BY <1>0 DEF ReadInit, Counts
<1>3. plane0_retry_flag \in BOOLEAN
  BY DEF ReadInit
<1>4. RetryInv
  BY <1>1, <1>2 DEF RetryInv, ReadInit
<1>5. CallInv
  BY <1>1, <1>3, OpCntNat, ChipsFacts DEF CallInv, ReadInit
<1> QED
  BY <1>4, <1>5

(* Every step keeps both.                                                  *)
LEMMA CallInvStep ==
  RetryInv /\ CallInv /\ [ReadNext]_vars => CallInv' /\ RetryInv'
<1> SUFFICES ASSUME RetryInv, CallInv, [ReadNext]_vars PROVE CallInv' /\ RetryInv'
  OBVIOUS
<1>r. RetryInv'
  BY RetryInvStep DEF CallInv
<1>l. level \in LevelOf /\ level' \in LevelOf
  BY <1>r DEF RetryInv
<1>o. OpCnt' = OpCnt
  BY DEF ReadNext, ReadCall, ReadStep, ChipBusy, SendCommand, Retry, Plane0,
     Plane0Erased, LastPlane, LastPlaneErased, vars, callVars, OpCnt
<1> USE OpCntNat, ChipsFacts
<1>1. CASE ReadCall
  <2>1. plane_num' \in {1, 2}
    BY <1>1, ReadAssumption DEF ReadCall
  <2>2. plane0_retry_flag' = FALSE
    BY <1>1 DEF ReadCall
  <2>3. plane0_retry_flag' \in BOOLEAN /\ ~plane0_retry_flag'
    BY <2>2
  <2>4. /\ at' = "command" /\ chipnr' = 1 /\ retry_cnt' = 0
        /\ UNCHANGED <<busy, sensed, strayed>> /\ reads' = reads + 1
    BY <1>1 DEF ReadCall, chipVars
  <2> QED
    BY <1>r, <1>o, <2>1, <2>3, <2>4 DEF CallInv
<1>2. CASE SendCommand
  <2>1. sensed' \in LevelOf
    BY <1>2, <1>l DEF SendCommand, CallInv, LevelOf
  <2>2. /\ UNCHANGED <<plane_num, plane0_retry_flag, busy, reads, strayed>>
        /\ retry_cnt' = 0 /\ at = "command"
    BY <1>2 DEF SendCommand, callVars
  <2>3. chipnr' \in Chips /\ at' \in {"command", "plane0", "plane1"}
    BY <1>2 DEF SendCommand, CallInv, FetchFrom
  <2>4. at' = "plane0" => plane_num = 2
    BY <1>2 DEF SendCommand, FetchFrom
  <2> QED
    BY <1>r, <1>o, <2>1, <2>2, <2>3, <2>4 DEF CallInv
<1>3. CASE Retry
  <2>1. sensed' \in LevelOf
    BY <1>3, <1>l DEF Retry, CallInv, LevelOf
  <2>2. /\ UNCHANGED <<plane_num, plane0_retry_flag, reads, chipnr, strayed>>
        /\ retry_cnt' = retry_cnt + 1 /\ retry_cnt < OpCnt
        /\ busy' \in {busy, busy + 1}
    BY <1>3 DEF Retry, callVars, NeedRetry, TimesOut, NoTimeOut
  <2>3. /\ at' \in {"plane0", "plane1"}
        /\ at' = "plane0" => plane_num = 2 /\ ~plane0_retry_flag
    BY <1>3 DEF Retry, FetchFrom
  <2> QED
    BY <1>r, <1>o, <2>1, <2>2, <2>3 DEF CallInv
<1>e. ASSUME ExitRetry
      PROVE  busy' \in {busy, busy + 1} /\ strayed' \subseteq Chips
  <2>1. busy' \in {busy, busy + 1}
    BY <1>e DEF ExitRetry, TimesOut, NoTimeOut
  <2>2. strayed' \in {strayed, strayed \ {chipnr}, strayed \union {chipnr}}
    BY <1>e DEF ExitRetry
  <2> QED
    BY <2>1, <2>2 DEF CallInv
<1>4. CASE Plane0
  <2>1. /\ UNCHANGED <<plane_num, reads, chipnr, sensed>>
        /\ retry_cnt' = 0 /\ plane0_retry_flag' = TRUE /\ at' = "plane1"
        /\ ExitRetry
    BY <1>4 DEF Plane0, callVars
  <2> QED
    BY <1>r, <1>o, <1>e, <2>1 DEF CallInv
<1>5. CASE Plane0Erased
  BY <1>r, <1>o, <1>5 DEF Plane0Erased, CallInv, callVars, chipVars
<1>6. CASE LastPlane
  <2>1. /\ UNCHANGED <<plane_num, reads, sensed>>
        /\ retry_cnt' = 0 /\ plane0_retry_flag' = FALSE
        /\ ExitRetry
    BY <1>6 DEF LastPlane, callVars, Advance
  <2>2. chipnr' \in Chips /\ at' \in {"plane0", "plane1", "idle"}
        /\ (at' = "plane0" => plane_num = 2)
    BY <1>6 DEF LastPlane, Advance, FetchFrom, CallInv
  <2>3. plane0_retry_flag' \in BOOLEAN /\ ~plane0_retry_flag'
    BY <2>1
  <2> QED
    BY <1>r, <1>o, <1>e, <2>1, <2>2, <2>3 DEF CallInv
<1>l2. ASSUME Leave PROVE strayed' \subseteq Chips
  BY <1>l2 DEF Leave, CallInv
<1>7. CASE LastPlaneErased
  <2>1. UNCHANGED <<plane_num, reads, sensed, plane0_retry_flag, busy>> /\ retry_cnt' = 0
    BY <1>7 DEF LastPlaneErased, callVars, chipVars, Advance
  <2>2. chipnr' \in Chips /\ at' \in {"plane0", "plane1", "idle"}
        /\ (at' = "plane0" => plane_num = 2 /\ ~plane0_retry_flag)
    BY <1>7, <2>1 DEF LastPlaneErased, Advance, FetchFrom, CallInv
  <2>3. strayed' \subseteq Chips
    BY <1>7, <1>l2 DEF LastPlaneErased
  <2> QED
    BY <1>r, <1>o, <2>1, <2>2, <2>3 DEF CallInv
<1>8. CASE ChipBusy
  <2>1. strayed' \subseteq Chips
    BY <1>8, <1>l2 DEF ChipBusy
  <2> QED
    BY <1>r, <1>o, <1>8, <2>1 DEF ChipBusy, CallInv, callVars, chipVars, TimesOut
<1>9. CASE UNCHANGED vars
  BY <1>r, <1>o, <1>9 DEF CallInv, vars, callVars, chipVars
<1> QED
  BY <1>1, <1>2, <1>3, <1>4, <1>5, <1>6, <1>7, <1>8, <1>9 DEF ReadNext, ReadStep

(* The type invariant of the reads: with a table of any length a byte can  *)
(* count, the retry never looks past its end, for each maker's way of      *)
(* walking it.                                                             *)
THEOREM RetryStaysInTable == ReadSpec => []ReadTypeOK
<1>1. CallInv /\ RetryInv => ReadTypeOK
  BY OpCntNat DEF CallInv, RetryInv, ReadTypeOK, LevelOf, Counts
<1> QED
  BY CallInvInit, CallInvStep, <1>1, PTL DEF ReadSpec

-----------------------------------------------------------------------------
(* At which level the chips are: of those no read has left without a       *)
(* completed exit, only the one being retried is off its default level or  *)
(* has counted a retry. A clean read has left only chips behind it so.     *)
LevelInv ==
  /\ \A d \in Chips \ strayed :
       (d # chipnr \/ retry_cnt = 0 \/ at \in {"idle", "command"})
         => level[d] = 0 /\ cur_cnt[d] = 0
  /\ clean /\ at = "command" => strayed = {}
  /\ clean /\ at \in {"plane0", "plane1"} => \A d \in strayed : d < chipnr

(* An exit, completed or not, keeps this of the chips.                     *)
LEMMA ExitLevels ==
  ASSUME RetryInv, CallInv, LevelInv, at \in {"plane0", "plane1"}, ExitRetry
  PROVE  /\ \A d \in Chips \ strayed' : level'[d] = 0 /\ cur_cnt'[d] = 0
         /\ clean' => clean /\ strayed' \subseteq strayed
<1>0. /\ level \in LevelOf /\ cur_cnt \in Counts /\ chipnr \in Chips
      /\ retry_cnt \in Nat
  BY DEF RetryInv, CallInv
<1>1. CASE Tries = 0
  <2>1. retry_cnt = 0 /\ UNCHANGED <<level, cur_cnt, strayed, clean>>
    BY <1>0, <1>1 DEF ExitRetry, Tries, NoTimeOut
  <2> QED
    BY <2>1 DEF LevelInv
<1>2. CASE Tries # 0 /\ Exit(chipnr) /\ strayed' = strayed \ {chipnr}
           /\ (NoTimeOut \/ TimesOut)
  <2>1. /\ level' = [level EXCEPT ![chipnr] = 0]
        /\ cur_cnt' = [d \in Chips |-> 0]
    BY <1>2 DEF Exit
  <2>2. \A d \in Chips \ strayed' : d = chipnr \/ d \in Chips \ strayed
    BY <1>2
  <2>3. \A d \in Chips \ strayed' : level'[d] = 0 /\ cur_cnt'[d] = 0
    BY <1>0, <2>1, <2>2 DEF LevelInv, LevelOf
  <2>4. clean' => clean
    BY <1>2 DEF NoTimeOut, TimesOut
  <2> QED
    BY <1>2, <2>3, <2>4
<1>3. CASE Tries # 0 /\ ExitBusy(chipnr) /\ TimesOut
           /\ strayed' = strayed \union {chipnr}
  <2>1. /\ level' \in {level, [level EXCEPT ![chipnr] = 0]}
        /\ cur_cnt' \in {cur_cnt, [d \in Chips |-> 0]}
    BY <1>3 DEF ExitBusy
  <2>2. \A d \in Chips \ strayed' : d # chipnr /\ d \in Chips \ strayed
    BY <1>3
  <2>3. \A d \in Chips \ strayed' : level'[d] = 0 /\ cur_cnt'[d] = 0
    BY <1>0, <2>1, <2>2 DEF LevelInv, LevelOf
  <2>4. ~clean'
    BY <1>3 DEF TimesOut
  <2> QED
    BY <2>3, <2>4
<1> QED
  BY <1>1, <1>2, <1>3 DEF ExitRetry

(* Every step keeps this.                                                  *)
LEMMA LevelInvStep ==
  RetryInv /\ CallInv /\ LevelInv /\ [ReadNext]_vars => LevelInv'
<1> SUFFICES ASSUME RetryInv, CallInv, LevelInv, [ReadNext]_vars
             PROVE  LevelInv'
  OBVIOUS
<1>0. /\ level \in LevelOf /\ cur_cnt \in Counts /\ chipnr \in Chips
      /\ retry_cnt \in Nat /\ strayed \subseteq Chips
  BY DEF RetryInv, CallInv
<1>1. CASE ReadCall
  <2>1. /\ UNCHANGED <<level, cur_cnt, strayed>> /\ at = "idle"
        /\ at' = "command" /\ (clean' <=> strayed = {})
    BY <1>1 DEF ReadCall, chipVars
  <2> QED
    BY <2>1 DEF LevelInv
<1>2. CASE SendCommand
  <2>1. /\ UNCHANGED <<level, cur_cnt, strayed, clean>> /\ at = "command"
        /\ retry_cnt' = 0
    BY <1>2 DEF SendCommand
  <2>2. clean => strayed = {}
    BY <2>1 DEF LevelInv
  <2> QED
    BY <2>1, <2>2 DEF LevelInv
<1>3. CASE Retry
  <2>1. /\ level' \in {level, [level EXCEPT ![chipnr] = NextLevel(chipnr)]}
        /\ cur_cnt' \in {cur_cnt, [cur_cnt EXCEPT ![chipnr] = NextCnt(chipnr)]}
    BY <1>3 DEF Retry, Handle, HandleBusy
  <2>2. /\ UNCHANGED <<chipnr, strayed>>
        /\ retry_cnt' = retry_cnt + 1
        /\ at \in {"plane0", "plane1"} /\ at' \in {"plane0", "plane1"}
        /\ clean' => clean
    BY <1>3 DEF Retry, FetchFrom, TimesOut, NoTimeOut
  <2>3. \A d \in Chips \ strayed : d # chipnr => level'[d] = 0 /\ cur_cnt'[d] = 0
    BY <1>0, <2>1 DEF LevelInv, LevelOf, Counts
  <2>4. retry_cnt' # 0
    BY <1>0, <2>2
  <2> QED
    BY <2>2, <2>3, <2>4 DEF LevelInv
<1>4. CASE Plane0
  <2>1. at = "plane0" /\ at' = "plane1" /\ ExitRetry /\ UNCHANGED chipnr
    BY <1>4 DEF Plane0
  <2> QED
    BY <2>1, ExitLevels DEF LevelInv
<1>5. ASSUME Advance, clean', clean, at = "plane1", at' \in {"plane0", "plane1"},
             strayed' \subseteq strayed \union {chipnr}
      PROVE  \A d \in strayed' : d < chipnr'
  <2>1. chipnr' = chipnr + 1
    BY <1>5 DEF Advance
  <2>2. \A d \in strayed : d < chipnr /\ d \in Chips
    BY <1>0, <1>5 DEF LevelInv
  <2> QED
    BY <1>0, <1>5, <2>1, <2>2, ChipsFacts
<1>6. CASE LastPlane
  <2>1. at = "plane1" /\ Advance /\ ExitRetry
    BY <1>6 DEF LastPlane
  <2>2. at' \in {"plane0", "plane1", "idle"}
    BY <2>1 DEF Advance, FetchFrom
  <2> QED
    BY <1>5, <2>1, <2>2, ExitLevels DEF LevelInv
<1>7. CASE Plane0Erased
  <2>1. /\ UNCHANGED <<level, cur_cnt, chipnr, retry_cnt, strayed, clean>>
        /\ at = "plane0" /\ at' = "plane1"
    BY <1>7 DEF Plane0Erased, chipVars
  <2> QED
    BY <2>1 DEF LevelInv
<1>l. ASSUME Leave, UNCHANGED <<level, cur_cnt>>
      PROVE  /\ \A d \in Chips \ strayed' :
                  (at # "idle" /\ at # "command") \/ retry_cnt = 0
                    => level'[d] = 0 /\ cur_cnt'[d] = 0
             /\ strayed' \subseteq strayed \union {chipnr}
  BY <1>0, <1>l DEF Leave, LevelInv
<1>8. CASE LastPlaneErased
  <2>1. /\ UNCHANGED <<level, cur_cnt, clean>> /\ Leave /\ at = "plane1" /\ Advance
    BY <1>8 DEF LastPlaneErased, chipVars
  <2>2. at' \in {"plane0", "plane1", "idle"}
    BY <2>1 DEF Advance, FetchFrom
  <2> QED
    BY <1>5, <1>l, <2>1, <2>2 DEF LevelInv
<1>9. CASE ChipBusy
  <2>1. /\ UNCHANGED <<level, cur_cnt>> /\ Leave /\ at' = "idle" /\ ~clean'
        /\ at \in {"command", "plane0", "plane1"}
    BY <1>9 DEF ChipBusy, TimesOut, chipVars
  <2>2. at = "command" => retry_cnt = 0
    BY DEF CallInv
  <2> QED
    BY <1>l, <2>1, <2>2 DEF LevelInv
<1>10. CASE UNCHANGED vars
  BY <1>10 DEF LevelInv, vars, callVars, chipVars
<1> QED
  BY <1>1, <1>2, <1>3, <1>4, <1>6, <1>7, <1>8, <1>9, <1>10 DEF ReadNext, ReadStep

(* Between two reads every chip is back at its default level that no read  *)
(* has left off it: by a wait that timed out in its retries, or by a page  *)
(* that passed as erased after a retry. Whichever planes fail, and however *)
(* often, the exit of the maker has run on the others.                     *)
THEOREM ReadsLeaveDefaultLevel == ReadSpec => []LevelRestored
<1> DEFINE Inv == RetryInv /\ CallInv /\ LevelInv
<1>1. ReadInit => Inv
  <2> SUFFICES ASSUME ReadInit PROVE LevelInv
    BY CallInvInit
  <2> QED
    BY DEF ReadInit, LevelInv
<1>2. Inv /\ [ReadNext]_vars => Inv'
  BY CallInvStep, LevelInvStep
<1>3. Inv => LevelRestored
  BY DEF LevelInv, LevelRestored, Returned
<1> QED
  BY <1>1, <1>2, <1>3, PTL DEF ReadSpec

-----------------------------------------------------------------------------

(* What a slot of the buffer can hold: the chip and the plane it came      *)
(* from, and the bytes.                                                    *)
Entries == Chips \X {1, 2} \X {"data", "garbage", "ff"}

(* No chip up to n is mixed; both pages of a chip that is not mixed and of *)
(* which one may pass as erased are erased at every level.                 *)
Pure(n) == \A c \in Chips : c <= n => ~Mixed(c)
AlwaysBlank(c, p) == page[c][p].blank = Levels /\ page[c][p].ok = {}

(* The slot of the buffer that belongs to plane p of chip c.               *)
Pos(c, p) == (c - 1) * plane_num + p

(* Up to the first mixed chip the buffer is filled in order: each slot     *)
(* holds the page of its own chip and plane, and the next one to be        *)
(* written is the one being read. The flag is set there exactly if the     *)
(* first page was not erased.                                              *)
PlaceInv ==
  /\ buf \in Seq(Entries)
  /\ at = "command" => buf = <<>>
  /\ Pure(chipnr) =>
       /\ at = "plane0" => Len(buf) + 1 = Pos(chipnr, 1)
       /\ at = "plane1" => Len(buf) + 1 = Pos(chipnr, plane_num)
       /\ at = "plane1" /\ plane_num = 2 =>
            /\ ~plane0_retry_flag => page[chipnr][1].blank # {}
            /\ plane0_retry_flag => ~AlwaysBlank(chipnr, 1)
  /\ Pure(ChipNum) => Len(buf) <= Pos(ChipNum, plane_num)
  /\ \A k \in 1..Len(buf) : Pure(buf[k][1]) => k = Pos(buf[k][1], buf[k][2])

(* The slots of the chips and planes follow each other.                    *)
LEMMA PosFacts ==
  ASSUME plane_num \in {1, 2}, NEW c \in Nat \ {0}, NEW d \in Nat \ {0}, c <= d
  PROVE  /\ Pos(c, 1) \in Nat /\ Pos(c, plane_num) \in Nat
         /\ Pos(1, 1) = 1
         /\ plane_num = 1 => Pos(c, plane_num) = Pos(c, 1)
         /\ plane_num = 2 => Pos(c, plane_num) = Pos(c, 1) + 1
         /\ Pos(c + 1, 1) = Pos(c, plane_num) + 1
         /\ Pos(c, plane_num) <= Pos(d, plane_num)
         /\ Pos(c, 1) <= Pos(d, plane_num)
<1>1. CASE plane_num = 1
  BY <1>1 DEF Pos
<1>2. CASE plane_num = 2
  BY <1>2 DEF Pos
<1> QED
  BY <1>1, <1>2

(* The chips before a chip that is pure are pure, and a pure chip one of   *)
(* whose two pages may pass as erased is erased.                           *)
LEMMA PureFacts ==
  ASSUME NEW c \in Chips, Pure(c)
  PROVE  /\ \A d \in Chips : d <= c => Pure(d)
         /\ plane_num = 2 /\ (page[c][1].blank # {} \/ page[c][2].blank # {})
              => AlwaysBlank(c, 1) /\ AlwaysBlank(c, 2)
<1>1. c \in Nat /\ \A d \in Chips : d \in Nat
  BY ChipsFacts
<1>2. \A d \in Chips : d <= c => Pure(d)
  BY <1>1 DEF Pure
<1>3. ~Mixed(c)
  BY <1>1 DEF Pure
<1> QED
  BY <1>2, <1>3 DEF Mixed, AlwaysBlank

(* Which chips are pure depends only on the pages.                         *)
LEMMA PureStays ==
  ASSUME UNCHANGED <<page, plane_num>>
  PROVE  /\ \A n : Pure(n)' <=> Pure(n)
         /\ \A c, q : AlwaysBlank(c, q)' <=> AlwaysBlank(c, q)
         /\ \A c, q : Pos(c, q)' = Pos(c, q)
BY DEF Pure, Mixed, AlwaysBlank, Pos

(* A page that is delivered goes to its own slot.                          *)
LEMMA DeliverInPlace ==
  ASSUME RetryInv, CallInv, PlaceInv, at \in {"plane0", "plane1"},
         UNCHANGED <<page, plane_num>>,
         NEW how \in {"data", "garbage", "ff"}, Deliver(how)
  PROVE  /\ buf' \in Seq(Entries) /\ Len(buf') = Len(buf) + 1
         /\ Pure(chipnr) => Len(buf') = Pos(chipnr, Plane)
         /\ Pure(ChipNum) => Len(buf') <= Pos(ChipNum, plane_num)
         /\ \A k \in 1..Len(buf') :
              Pure(buf'[k][1]) => k = Pos(buf'[k][1], buf'[k][2])
<1>1. /\ chipnr \in Chips /\ chipnr \in Nat \ {0} /\ chipnr <= ChipNum
      /\ ChipNum \in Nat \ {0} /\ plane_num \in {1, 2} /\ Plane \in {1, 2}
      /\ ChipNum \in Chips
  BY ChipsFacts DEF CallInv, Plane, Chips
<1> DEFINE e == <<chipnr, Plane, how>>
<1>2. e \in Entries /\ e[1] = chipnr /\ e[2] = Plane
  BY <1>1 DEF Entries
<1>3. buf' = Append(buf, e) /\ buf \in Seq(Entries)
  BY DEF Deliver, PlaceInv
<1> HIDE DEF e
<1>4. /\ buf' \in Seq(Entries) /\ Len(buf') = Len(buf) + 1 /\ Len(buf) \in Nat
      /\ buf'[Len(buf) + 1] = e
      /\ \A k \in 1..Len(buf) : buf'[k] = buf[k]
  BY <1>2, <1>3
<1>5. Pure(chipnr) => Len(buf') = Pos(chipnr, Plane)
  BY <1>4 DEF PlaceInv, Plane, CallInv
<1>6. Pure(ChipNum) => Len(buf') <= Pos(ChipNum, plane_num)
  <2>1. Plane = 1 \/ Plane = plane_num
    BY DEF Plane
  <2>2. /\ Pos(chipnr, 1) <= Pos(ChipNum, plane_num)
        /\ Pos(chipnr, plane_num) <= Pos(ChipNum, plane_num)
    BY <1>1, PosFacts
  <2>3. Pure(ChipNum) => Pure(chipnr)
    BY <1>1, PureFacts
  <2> QED
    BY <1>5, <2>1, <2>2, <2>3
<1>7. ASSUME NEW k \in 1..Len(buf'), Pure(buf'[k][1])
      PROVE  k = Pos(buf'[k][1], buf'[k][2])
  <2>1. CASE k \in 1..Len(buf)
    BY <1>4, <1>7, <2>1 DEF PlaceInv
  <2>2. CASE k = Len(buf) + 1
    BY <1>2, <1>4, <1>5, <1>7, <2>2
  <2> QED
    BY <1>4, <2>1, <2>2
<1> QED
  BY <1>4, <1>5, <1>6, <1>7

(* Every step keeps the buffer so.                                         *)
LEMMA PlaceInvStep ==
  ASSUME RetryInv, CallInv, PlaceInv, [ReadNext]_vars
  PROVE  PlaceInv'
<1>0. /\ chipnr \in Chips /\ chipnr \in Nat \ {0} /\ chipnr <= ChipNum
      /\ ChipNum \in Nat \ {0} /\ plane_num \in {1, 2}
      /\ chipnr < ChipNum => chipnr + 1 \in Chips
  BY ChipsFacts DEF CallInv
<1>s. sensed[chipnr] \in Levels
  BY <1>0 DEF CallInv, LevelOf
<1>1. CASE ReadCall
  <2>1. /\ at' = "command" /\ buf' = <<>> /\ plane_num' \in {1, 2}
    BY <1>1, ReadAssumption DEF ReadCall
  <2>3. (Pos(ChipNum, plane_num))' >= 0
    <3>1. CASE plane_num' = 1
      BY <1>0, <3>1 DEF Pos
    <3>2. CASE plane_num' = 2
      BY <1>0, <3>2 DEF Pos
    <3> QED
      BY <2>1, <3>1, <3>2
  <2>4. buf' \in Seq(Entries) /\ Len(buf') = 0
    BY <2>1
  <2> QED
    BY <2>1, <2>3, <2>4 DEF PlaceInv
<1>2. CASE SendCommand
  <2>1. /\ UNCHANGED <<page, plane_num, plane0_retry_flag, buf>>
        /\ at = "command" /\ ~plane0_retry_flag /\ buf = <<>>
    BY <1>2 DEF SendCommand, callVars, CallInv, PlaceInv
  <2>2. \/ at' = "command"
        \/ chipnr' = 1 /\ plane_num = 2 /\ at' = "plane0"
        \/ chipnr' = 1 /\ plane_num = 1 /\ at' = "plane1"
    BY <1>0, <1>2, <2>1 DEF SendCommand, FetchFrom
  <2>4. Pure(ChipNum)' => Len(buf') <= (Pos(ChipNum, plane_num))'
    BY <2>1, PureStays DEF PlaceInv
  <2>5. at' = "plane0" => Len(buf') + 1 = (Pos(chipnr, 1))'
    BY <2>1, <2>2 DEF Pos
  <2>6. at' = "plane1" => Len(buf') + 1 = (Pos(chipnr, plane_num))'
    BY <2>1, <2>2 DEF Pos
  <2>7. buf' \in Seq(Entries) /\ buf' = <<>>
    BY <2>1
  <2> QED
    BY <2>1, <2>2, <2>4, <2>5, <2>6, <2>7 DEF PlaceInv
<1>3. CASE Retry
  <2>1. /\ UNCHANGED <<page, plane_num, plane0_retry_flag, buf, chipnr>>
        /\ at \in {"plane0", "plane1"} /\ Uncorrected
        /\ at' = FetchFrom(plane0_retry_flag)
    BY <1>3 DEF Retry, callVars
  <2>2. at' \in {"plane0", "plane1"}
    BY <2>1 DEF FetchFrom
  <2>3. ASSUME Pure(chipnr) PROVE at' = at
    <3>1. CASE at = "plane0"
      BY <2>1, <3>1 DEF FetchFrom, CallInv
    <3>2. CASE at = "plane1" /\ plane_num = 2
      <4>1. ~AlwaysBlank(chipnr, 2)
        BY <1>s, <2>1, <3>2 DEF Here, Plane, Uncorrected, Corrected, Blank, AlwaysBlank
      <4>2. page[chipnr][1].blank = {}
        BY <1>0, <2>3, <3>2, <4>1, PureFacts
      <4> QED
        BY <2>1, <2>3, <3>2, <4>2 DEF PlaceInv, FetchFrom
    <3>3. CASE at = "plane1" /\ plane_num = 1
      BY <2>1, <3>3 DEF FetchFrom
    <3> QED
      BY <1>0, <2>1, <3>1, <3>2, <3>3
  <2> QED
    BY <2>1, <2>2, <2>3, PureStays DEF PlaceInv
<1>4. CASE Plane0 \/ Plane0Erased
  <2>1. /\ UNCHANGED <<page, plane_num, chipnr>> /\ at = "plane0" /\ at' = "plane1"
        /\ \E how \in {"data", "garbage", "ff"} : Deliver(how)
        /\ plane_num = 2 /\ Plane = 1 /\ ~plane0_retry_flag
    BY <1>4 DEF Plane0, Plane0Erased, callVars, How, CallInv, Plane
  <2>2. /\ ~plane0_retry_flag' => page[chipnr][1].blank # {}
        /\ plane0_retry_flag' => ~AlwaysBlank(chipnr, 1)
    <3>1. CASE Plane0
      <4>1. plane0_retry_flag' /\ Done
        BY <3>1 DEF Plane0
      <4>2. ~AlwaysBlank(chipnr, 1)
        BY <1>s, <2>1, <4>1
        DEF Done, Corrected, Uncorrected, Blank, Here, AlwaysBlank
      <4> QED
        BY <4>1, <4>2
    <3>2. CASE Plane0Erased
      <4>1. UNCHANGED plane0_retry_flag /\ Blank
        BY <3>2 DEF Plane0Erased
      <4>2. page[chipnr][1].blank # {}
        BY <2>1, <4>1 DEF Blank, Here
      <4> QED
        BY <2>1, <4>1, <4>2
    <3> QED
      BY <1>4, <3>1, <3>2
  <2>4. Pure(chipnr) => Len(buf') + 1 = Pos(chipnr, plane_num)
    <3>1. Pure(chipnr) => Len(buf') = Pos(chipnr, 1)
      BY <2>1, DeliverInPlace
    <3>2. Pos(chipnr, plane_num) = Pos(chipnr, 1) + 1
      BY <1>0, <2>1, PosFacts
    <3>3. Pos(chipnr, 1) \in Nat
      BY <1>0, PosFacts
    <3> QED
      BY <3>1, <3>2, <3>3
  <2>5. /\ buf' \in Seq(Entries)
        /\ Pure(ChipNum) => Len(buf') <= Pos(ChipNum, plane_num)
        /\ \A k \in 1..Len(buf') :
             Pure(buf'[k][1]) => k = Pos(buf'[k][1], buf'[k][2])
    BY <2>1, DeliverInPlace
  <2> QED
    BY <2>1, <2>2, <2>4, <2>5, PureStays DEF PlaceInv
<1>5. CASE LastPlane \/ LastPlaneErased
  <2>1. /\ UNCHANGED <<page, plane_num>> /\ at = "plane1"
        /\ \E how \in {"data", "garbage", "ff"} : Deliver(how)
        /\ Plane = plane_num
        /\ Advance
    BY <1>5 DEF LastPlane, LastPlaneErased, callVars, How, Plane
  <2>2. Pure(chipnr) /\ plane_num = 2 => ~plane0_retry_flag'
    <3>1. CASE LastPlane
      BY <3>1 DEF LastPlane
    <3>2. CASE LastPlaneErased
      <4>1. page[chipnr][plane_num].blank # {} /\ UNCHANGED plane0_retry_flag
        BY <2>1, <3>2 DEF LastPlaneErased, Blank, Here
      <4>2. Pure(chipnr) /\ plane_num = 2 => AlwaysBlank(chipnr, 1)
        BY <1>0, <4>1, PureFacts
      <4> QED
        BY <2>1, <4>1, <4>2 DEF PlaceInv
    <3> QED
      BY <1>5, <3>1, <3>2
  <2>4. /\ buf' \in Seq(Entries)
        /\ Pure(ChipNum) => Len(buf') <= Pos(ChipNum, plane_num)
        /\ \A k \in 1..Len(buf') :
             Pure(buf'[k][1]) => k = Pos(buf'[k][1], buf'[k][2])
        /\ Pure(chipnr) => Len(buf') = Pos(chipnr, plane_num)
    BY <2>1, DeliverInPlace
  <2>5. CASE chipnr < ChipNum /\ chipnr' = chipnr + 1 /\ at' = FetchFrom(plane0_retry_flag')
    <3>0. at' \in {"plane0", "plane1"} /\ chipnr' \in Chips
      BY <1>0, <2>5 DEF FetchFrom
    <3>1. Pure(chipnr') => Pure(chipnr)
      <4>1. chipnr <= chipnr'
        BY <1>0, <2>5
      <4> QED
        BY <1>0, <3>0, <4>1, PureFacts
    <3>2. ASSUME Pure(chipnr')
          PROVE  /\ at' = "plane0" => Len(buf') + 1 = Pos(chipnr', 1)
                 /\ at' = "plane1" => plane_num = 1 /\ Len(buf') + 1 = Pos(chipnr', plane_num)
      <4>1. Len(buf') + 1 = Pos(chipnr + 1, 1)
        <5>1. Pos(chipnr + 1, 1) = Pos(chipnr, plane_num) + 1
          BY <1>0, PosFacts
        <5> QED
          BY <2>4, <3>1, <3>2, <5>1
      <4>2. plane_num = 2 => at' = "plane0"
        BY <2>2, <2>5, <3>1, <3>2 DEF FetchFrom
      <4>3. plane_num = 1 => Pos(chipnr', plane_num) = Pos(chipnr', 1)
        OBVIOUS
      <4> QED
        BY <1>0, <2>5, <4>1, <4>2, <4>3
    <3> QED
      BY <2>1, <2>4, <3>0, <3>2, PureStays DEF PlaceInv
  <2>6. CASE at' = "idle"
    BY <2>1, <2>4, <2>6, PureStays DEF PlaceInv
  <2> QED
    BY <2>1, <2>5, <2>6 DEF Advance
<1>6. CASE ChipBusy
  <2>1. UNCHANGED <<buf, page, plane_num>> /\ at' = "idle"
    BY <1>6 DEF ChipBusy, callVars
  <2> QED
    BY <2>1, PureStays DEF PlaceInv
<1>7. CASE UNCHANGED vars
  BY <1>7, PureStays DEF vars, callVars, PlaceInv
<1> QED
  BY <1>1, <1>2, <1>3, <1>4, <1>5, <1>6, <1>7 DEF ReadNext, ReadStep

(* The pages of a unit fill the buffer exactly.                            *)
LEMMA SlotCount ==
  ASSUME plane_num \in {1, 2}
  PROVE  Cardinality(Slots) = Pos(ChipNum, plane_num)
<1>1. Slots = Chips \X (1..plane_num)
  BY DEF Slots
<1>2. ChipNum \in Nat /\ plane_num \in Nat
  BY ChipsFacts
<1>3. IsFiniteSet(Chips) /\ Cardinality(Chips) = ChipNum
  BY <1>2, ChipsFacts, FS_Interval DEF Chips
<1>4. IsFiniteSet(1..plane_num) /\ Cardinality(1..plane_num) = plane_num
  BY <1>2, FS_Interval
<1>5. Cardinality(Slots) = ChipNum * plane_num
  BY <1>1, <1>3, <1>4, FS_Product
<1> QED
  BY <1>2, <1>5 DEF Pos

(* Whatever read_page retries and whichever pages are erased, on any       *)
(* number of chips with one or two planes, each page of the chips before   *)
(* the first mixed one lands in its own part of the buffer, and if there   *)
(* is none, none behind its end.                                           *)
THEOREM PagesLandInPlace == ReadSpec => []PagesInPlace
<1> DEFINE Inv == RetryInv /\ CallInv /\ PlaceInv
<1>1. ReadInit => Inv
  <2> SUFFICES ASSUME ReadInit PROVE PlaceInv
    BY CallInvInit
  <2>1. Pos(ChipNum, plane_num) >= 0
    BY ChipsFacts DEF ReadInit, Pos
  <2> QED
    BY <2>1 DEF ReadInit, PlaceInv
<1>2. Inv /\ [ReadNext]_vars => Inv'
  BY CallInvStep, PlaceInvStep
<1>3. Inv => PagesInPlace
  <2> SUFFICES ASSUME Inv PROVE PagesInPlace
    OBVIOUS
  <2>0. ChipNum \in Nat \ {0} /\ Chips = 1..ChipNum
    BY ChipsFacts DEF Chips
  <2>1. ASSUME NEW k \in DOMAIN buf, \A c \in 1..buf[k][1] : ~Mixed(c)
        PROVE  InPlace(k)
    <3>1. k \in 1..Len(buf) /\ buf[k] \in Entries
      BY DEF PlaceInv
    <3>2. buf[k][1] \in Chips
      BY <3>1 DEF Entries
    <3>3. Pure(buf[k][1])
      BY <2>0, <2>1, <3>2 DEF Pure
    <3> QED
      BY <3>1, <3>3 DEF PlaceInv, InPlace, Pos
  <2>2. (\A c \in Chips : ~Mixed(c)) => Len(buf) <= Cardinality(Slots)
    BY SlotCount DEF PlaceInv, CallInv, Pure
  <2> QED
    BY <2>1, <2>2 DEF PagesInPlace
<1> QED
  BY <1>1, <1>2, <1>3, PTL DEF ReadSpec

-----------------------------------------------------------------------------

(* The level after r retries that started from the counter 0, and the      *)
(* counter then, in the first round through the table.                     *)
First(m, r) ==
  CASE m = "intel" -> 0
    [] m = "a19" -> IF r = 0 THEN 0 ELSE 1
    [] m \in {"samsung", "toshiba"} -> IF r = 0 THEN 0 ELSE r - 1
    [] OTHER -> r
CntFirst(m, r) ==
  CASE m = "a19" -> 0
    [] m \in {"hynix26", "hynix20"} -> r
    [] OTHER -> IF r = RetryCnt THEN 0 ELSE r

(* No page is ever sensed at a level outside Reached.                      *)
ReachedInv ==
  /\ \A c \in Chips : level[c] \in Reached /\ sensed[c] \in Reached
  /\ maker = "a19" => \A c \in Chips : cur_cnt[c] = 0

(* A clean read of one plane: the levels of the first round have been      *)
(* tried one after the other, each in vain.                                *)
WalkInv ==
  clean =>
    /\ at = "command" => \A d \in Chips : d < chipnr => sensed[d] = 0
    /\ at = "plane1" /\ plane_num = 1 =>
         /\ \A d \in Chips : d > chipnr => sensed[d] = 0
         /\ retry_cnt > 0 => HasRetry
         /\ retry_cnt <= RetryCnt =>
              /\ sensed[chipnr] = First(maker, retry_cnt)
              /\ level[chipnr] = First(maker, retry_cnt)
              /\ cur_cnt[chipnr] = CntFirst(maker, retry_cnt)
         /\ \A q \in 0..RetryCnt :
              q < retry_cnt =>
                First(maker, q) \notin page[chipnr][1].ok \union page[chipnr][1].blank

(* What the walk of the table relies on.                                   *)
LEMMA WalkFacts ==
  ASSUME maker \in Makers
  PROVE  /\ 0 \in Reached
         /\ First(maker, 0) = 0 /\ CntFirst(maker, 0) = 0
         /\ \A l \in Reached : \E q \in 0..RetryCnt :
              First(maker, q) = l /\ (~HasRetry => q = 0)
         /\ \A q, r \in 0..RetryCnt : First(maker, q) < First(maker, r) => q < r
         /\ \A r \in 0..RetryCnt : First(maker, r) \in Nat
         /\ \A r \in 0..RetryCnt :
              (\A q \in 0..RetryCnt : q < r => First(maker, q) # First(maker, r))
                => RetriesTo(First(maker, r)) = r
<1>0. RetryCnt \in 2..255 /\ HasRetry \in BOOLEAN
  BY ReadAssumption
<1>1. 0 \in Reached
  BY <1>0 DEF Reached, Levels
<1>2. First(maker, 0) = 0 /\ CntFirst(maker, 0) = 0
  BY <1>0 DEF First, CntFirst
<1>3. ASSUME NEW l \in Reached
      PROVE  \E q \in 0..RetryCnt : First(maker, q) = l /\ (~HasRetry => q = 0)
  <2>1. CASE ~HasRetry \/ maker = "intel"
    <3>1. Reached = {0}
      BY <2>1 DEF Reached
    <3>2. l = 0 /\ 0 \in 0..RetryCnt
      BY <1>0, <1>3, <3>1
    <3> QED
      BY <1>2, <3>2
  <2>2. CASE HasRetry /\ maker = "a19"
    <3>1. l \in {0, 1} /\ First(maker, l) = l /\ l \in 0..RetryCnt
      BY <1>0, <1>3, <2>2 DEF Reached, First
    <3> QED
      BY <2>2, <3>1
  <2>3. CASE HasRetry /\ maker \in {"samsung", "toshiba"}
    <3>1. l \in 0..RetryCnt - 1
      BY <1>3, <2>3 DEF Reached
    <3>2. l + 1 \in 0..RetryCnt /\ First(maker, l + 1) = l
      BY <1>0, <2>3, <3>1 DEF First
    <3> QED
      BY <2>3, <3>2
  <2>4. CASE HasRetry /\ maker \notin {"intel", "a19", "samsung", "toshiba"}
    <3>1. l \in 0..RetryCnt /\ First(maker, l) = l
      BY <1>3, <2>4 DEF Reached, First, Levels
    <3> QED
      BY <2>4, <3>1
  <2> QED
    BY <2>1, <2>2, <2>3, <2>4
<1>4. \A q, r \in 0..RetryCnt : First(maker, q) < First(maker, r) => q < r
  BY <1>0 DEF First
<1>5. \A r \in 0..RetryCnt : First(maker, r) \in Nat
  BY <1>0 DEF First
<1>6. ASSUME NEW r \in 0..RetryCnt,
             \A q \in 0..RetryCnt : q < r => First(maker, q) # First(maker, r)
      PROVE  RetriesTo(First(maker, r)) = r
  <2>1. /\ 0 \in 0..RetryCnt /\ 1 \in 0..RetryCnt /\ r \in Nat
        /\ 0 < r => First(maker, 0) # First(maker, r)
        /\ 1 < r => First(maker, 1) # First(maker, r)
    BY <1>0, <1>6
  <2>2. CASE maker = "intel"
    BY <2>1, <2>2 DEF First, RetriesTo
  <2>3. CASE maker = "a19"
    BY <2>1, <2>3 DEF First, RetriesTo
  <2>4. CASE maker \in {"samsung", "toshiba"}
    BY <2>1, <2>4 DEF First, RetriesTo
  <2>5. CASE maker \notin {"intel", "a19", "samsung", "toshiba"}
    BY <2>1, <2>5 DEF First, RetriesTo
  <2> QED
    BY <2>2, <2>3, <2>4, <2>5
<1> QED
  BY <1>1, <1>2, <1>3, <1>4, <1>5, <1>6

(* A counter that is increased and cut to the table.                       *)
LEMMA ModNext ==
  ASSUME NEW n \in Nat, NEW m \in Nat \ {0}, n < m
  PROVE  (n + 1) % m = IF n + 1 = m THEN 0 ELSE n + 1
<1>1. m % m = 0
  BY Z3
<1>2. ASSUME NEW k \in Nat, k < m PROVE k % m = k
  BY <1>2, Z3
<1>3. CASE n + 1 = m
  BY <1>1, <1>3
<1>4. CASE n + 1 # m
  <2>1. n + 1 \in Nat /\ n + 1 < m
    BY <1>4
  <2> QED
    BY <1>2, <1>4, <2>1
<1> QED
  BY <1>3, <1>4

(* One more retry in the first round goes to the next level of the walk.   *)
LEMMA NextOfWalk ==
  ASSUME RetryInv, NEW c \in Chips, NEW r \in 0..RetryCnt - 1,
         level[c] = First(maker, r), cur_cnt[c] = CntFirst(maker, r)
  PROVE  NextLevel(c) = First(maker, r + 1) /\ NextCnt(c) = CntFirst(maker, r + 1)
<1>0. RetryCnt \in 2..255 /\ r \in Nat /\ r < RetryCnt
  BY ReadAssumption
<1>1. CASE maker = "intel"
  <2>1. cur_cnt[c] = r
    BY <1>0, <1>1 DEF CntFirst, Hynix
  <2>2. NextCnt(c) = (r + 1) % RetryCnt
    BY <1>1, <2>1 DEF NextCnt, Hynix
  <2>3. (r + 1) % RetryCnt = IF r + 1 = RetryCnt THEN 0 ELSE r + 1
    <3>1. RetryCnt \in Nat \ {0}
      BY <1>0
    <3> QED
      BY <1>0, <3>1, ModNext
  <2>4. NextCnt(c) = CntFirst(maker, r + 1)
    BY <1>1, <2>2, <2>3 DEF CntFirst, Hynix
  <2> QED
    BY <1>1, <2>4 DEF NextLevel, First, IntelLevel, Hynix
<1>2. CASE maker = "a19"
  BY <1>0, <1>2 DEF NextLevel, NextCnt, First, CntFirst, TableLevel, A19Cnt, Hynix
<1>3. CASE Hynix
  <2>1. maker \notin {"intel", "a19", "samsung", "toshiba"}
    BY <1>3 DEF Hynix
  <2>2. cur_cnt[c] = r
    BY <1>3, <2>1 DEF CntFirst, Hynix
  <2>3. HynixEntry(r) = r
    BY <1>0 DEF HynixEntry
  <2>4. (r + 1) % 256 = r + 1
    BY <1>0, Z3
  <2>5. NextCnt(c) = CntFirst(maker, r + 1)
    BY <1>3, <2>1, <2>2, <2>4 DEF CntFirst, NextCnt, Hynix
  <2>6. NextLevel(c) = First(maker, r + 1)
    BY <1>3, <2>1, <2>2, <2>3 DEF NextLevel, First, TableLevel
  <2> QED
    BY <2>5, <2>6
<1>4. CASE ~Hynix /\ maker \notin {"intel", "a19"}
  <2>1. cur_cnt[c] = r
    BY <1>0, <1>4 DEF CntFirst, Hynix
  <2>2. NextCnt(c) = (r + 1) % RetryCnt
    BY <1>4, <2>1 DEF NextCnt
  <2>3. (r + 1) % RetryCnt = IF r + 1 = RetryCnt THEN 0 ELSE r + 1
    <3>1. RetryCnt \in Nat \ {0}
      BY <1>0
    <3> QED
      BY <1>0, <3>1, ModNext
  <2>4. NextCnt(c) = CntFirst(maker, r + 1)
    BY <1>4, <2>2, <2>3 DEF CntFirst, Hynix
  <2>5. NextLevel(c) = TableLevel(r)
    BY <1>4, <2>1 DEF NextLevel
  <2>6. TableLevel(r) = First(maker, r + 1)
    BY <1>0, <1>4 DEF TableLevel, First
  <2> QED
    BY <2>4, <2>5, <2>6
<1> QED
  BY <1>1, <1>2, <1>3, <1>4

(* Every step stays within the levels of Reached.                          *)
LEMMA ReachedInvStep ==
  ASSUME RetryInv, CallInv, ReachedInv, [ReadNext]_vars
  PROVE  ReachedInv'
<1>0. /\ level \in LevelOf /\ cur_cnt \in Counts /\ sensed \in LevelOf
      /\ chipnr \in Chips /\ maker \in Makers
      /\ RetryCnt \in 2..255
  BY ReadAssumption DEF RetryInv, CallInv
<1>m. UNCHANGED <<maker, Reached>>
  BY DEF ReadNext, ReadCall, ReadStep, ChipBusy, SendCommand, Retry, Plane0,
     Plane0Erased, LastPlane, LastPlaneErased, vars, callVars, Reached
<1>z. 0 \in Reached
  BY <1>0, WalkFacts
<1>1. CASE Retry
  <2>1. HasRetry
    BY <1>1 DEF Retry, NeedRetry
  <2>2. NextLevel(chipnr) \in Reached
    <3>1. CASE maker = "intel"
      BY <1>0, <3>1 DEF NextLevel, IntelLevel, ReachedInv, Hynix
    <3>2. CASE maker = "a19"
      BY <1>0, <2>1, <3>2 DEF NextLevel, TableLevel, Reached, ReachedInv, Hynix
    <3>3. CASE maker \in {"samsung", "toshiba"}
      <4> DEFINE n == cur_cnt[chipnr]
      <4>0. n \in 0..255 /\ n < RetryCnt
        BY <1>0, <3>3 DEF RetryInv, Hynix, Counts
      <4> HIDE DEF n
      <4>1. n \in 0..RetryCnt - 1
        BY <1>0, <4>0
      <4>2. NextLevel(chipnr) = n
        BY <3>3 DEF n, NextLevel, Hynix, TableLevel
      <4>3. Reached = 0..RetryCnt - 1
        BY <2>1, <3>3 DEF Reached
      <4> QED
        BY <4>1, <4>2, <4>3
    <3>4. CASE maker \notin {"intel", "a19", "samsung", "toshiba"}
      <4>1. NextLevel(chipnr) \in Levels
        BY <1>0, NextInTable
      <4> QED
        BY <2>1, <3>4, <4>1 DEF Reached
    <3> QED
      BY <3>1, <3>2, <3>3, <3>4
  <2>3. level' \in {level, [level EXCEPT ![chipnr] = NextLevel(chipnr)]}
    BY <1>1 DEF Retry, Handle, HandleBusy
  <2>4. cur_cnt' \in {cur_cnt, [cur_cnt EXCEPT ![chipnr] = NextCnt(chipnr)]}
    BY <1>1 DEF Retry, Handle, HandleBusy
  <2>5. \A c \in Chips : level'[c] \in Reached
    BY <1>0, <2>2, <2>3 DEF ReachedInv, LevelOf
  <2>6. sensed' = [sensed EXCEPT ![chipnr] = level'[chipnr]]
    BY <1>1 DEF Retry
  <2>7. \A c \in Chips : sensed'[c] \in Reached
    BY <1>0, <2>5, <2>6 DEF ReachedInv, LevelOf
  <2>8. maker = "a19" => \A c \in Chips : cur_cnt'[c] = 0
    BY <1>0, <2>4 DEF ReachedInv, NextCnt, A19Cnt, Counts, Hynix
  <2> QED
    BY <1>m, <2>5, <2>7, <2>8 DEF ReachedInv
<1>2. CASE SendCommand
  <2>1. /\ sensed' = [sensed EXCEPT ![chipnr] = level[chipnr]]
        /\ UNCHANGED <<level, cur_cnt>>
    BY <1>2 DEF SendCommand
  <2>2. \A c \in Chips : sensed'[c] \in Reached
    BY <1>0, <2>1 DEF ReachedInv, LevelOf
  <2> QED
    BY <1>m, <2>1, <2>2 DEF ReachedInv
<1>3. CASE UNCHANGED chipVars
  BY <1>m, <1>3 DEF ReachedInv, chipVars
<1>4. CASE ExitRetry /\ UNCHANGED sensed
  <2>0. /\ level' \in {level, [level EXCEPT ![chipnr] = 0]}
        /\ cur_cnt' \in {cur_cnt, [d \in Chips |-> 0]}
    BY <1>4 DEF ExitRetry, Exit, ExitBusy
  <2>1. \A c \in Chips : level'[c] \in Reached
    BY <1>0, <1>z, <2>0 DEF ReachedInv, LevelOf
  <2>2. maker = "a19" => \A c \in Chips : cur_cnt'[c] = 0
    BY <2>0 DEF ReachedInv
  <2> QED
    BY <1>m, <1>4, <2>1, <2>2 DEF ReachedInv
<1>5. Retry \/ SendCommand \/ UNCHANGED chipVars \/ (ExitRetry /\ UNCHANGED sensed)
  BY DEF ReadNext, ReadCall, ReadStep, ChipBusy, Plane0, Plane0Erased,
     LastPlane, LastPlaneErased, vars, chipVars
<1> QED
  BY <1>1, <1>2, <1>3, <1>4, <1>5

(* Every step goes on with the walk or starts a new one.                   *)
LEMMA WalkInvStep ==
  ASSUME RetryInv, CallInv, LevelInv, WalkInv, LevelInv', [ReadNext]_vars
  PROVE  WalkInv'
<1> SUFFICES ASSUME clean'
             PROVE  /\ at' = "command" => \A d \in Chips : d < chipnr' => sensed'[d] = 0
                    /\ at' = "plane1" /\ plane_num' = 1 =>
                         /\ \A d \in Chips : d > chipnr' => sensed'[d] = 0
                         /\ retry_cnt' > 0 => HasRetry
                         /\ retry_cnt' <= RetryCnt =>
                              /\ sensed'[chipnr'] = First(maker', retry_cnt')
                              /\ level'[chipnr'] = First(maker', retry_cnt')
                              /\ cur_cnt'[chipnr'] = CntFirst(maker', retry_cnt')
                         /\ \A q \in 0..RetryCnt :
                              q < retry_cnt' => First(maker', q) \notin
                                page'[chipnr'][1].ok \union page'[chipnr'][1].blank
  BY DEF WalkInv
<1>0. /\ level \in LevelOf /\ cur_cnt \in Counts /\ sensed \in LevelOf
      /\ chipnr \in Chips /\ maker \in Makers /\ RetryCnt \in 2..255
      /\ retry_cnt \in Nat /\ plane_num \in {1, 2}
  BY ReadAssumption DEF RetryInv, CallInv
<1>n. ~TimesOut
  BY DEF TimesOut
<1>b. clean \/ ReadCall
  BY <1>n DEF ReadNext, ReadStep, ChipBusy, SendCommand, Retry, Plane0, Plane0Erased,
     LastPlane, LastPlaneErased, vars, ExitRetry, NoTimeOut
<1>f. First(maker, 0) = 0 /\ CntFirst(maker, 0) = 0
  BY <1>0, WalkFacts
<1>1. CASE ReadCall
  <2>1. at' = "command" /\ chipnr' = 1
    BY <1>1 DEF ReadCall
  <2>2. \A d \in Chips : ~(d < 1)
    BY ChipsFacts
  <2> QED
    BY <2>1, <2>2
<1>2. CASE SendCommand
  <2>1. /\ sensed' = [sensed EXCEPT ![chipnr] = level[chipnr]]
        /\ at = "command" /\ retry_cnt' = 0 /\ UNCHANGED <<maker, level, cur_cnt>>
        /\ \A d \in Chips : level[d] = 0 /\ cur_cnt[d] = 0
        /\ \A d \in Chips : d < chipnr => sensed[d] = 0
    <3>1. at = "command" /\ clean
      BY <1>2, <1>b DEF SendCommand, ReadCall
    <3>2. strayed = {}
      BY <3>1 DEF LevelInv
    <3> QED
      BY <1>2, <3>1, <3>2 DEF SendCommand, callVars, LevelInv, WalkInv
  <2>2. \A d \in Chips : d <= chipnr => sensed'[d] = 0
    <3>1. \A d \in Chips : d <= chipnr => d < chipnr \/ d = chipnr
      BY ChipsFacts, <1>0
    <3> QED
      BY <1>0, <2>1, <3>1 DEF LevelOf
  <2>3. CASE chipnr < ChipNum
    <3>1. chipnr' = chipnr + 1 /\ at' = "command"
      BY <1>2, <2>3 DEF SendCommand
    <3>2. \A d \in Chips : d < chipnr + 1 => d <= chipnr
      BY ChipsFacts, <1>0
    <3> QED
      BY <2>2, <3>1, <3>2
  <2>4. CASE ~(chipnr < ChipNum)
    <3>1. chipnr' = 1 /\ at' # "command"
      BY <1>2, <2>4 DEF SendCommand, FetchFrom
    <3>2. \A d \in Chips : d <= chipnr
      BY ChipsFacts, <1>0, <2>4
    <3>3. 1 \in Chips
      BY ChipsFacts
    <3> QED
      BY <1>0, <1>f, <2>1, <2>2, <3>1, <3>2, <3>3
  <2> QED
    BY <2>3, <2>4
<1>3. CASE Retry /\ plane_num = 1
  <2>1. /\ at = "plane1" /\ at' = "plane1" /\ HasRetry
        /\ UNCHANGED <<maker, page, plane_num, chipnr>>
        /\ retry_cnt' = retry_cnt + 1
        /\ sensed' = [sensed EXCEPT ![chipnr] = level'[chipnr]]
        /\ level' = [level EXCEPT ![chipnr] = NextLevel(chipnr)]
        /\ cur_cnt' = [cur_cnt EXCEPT ![chipnr] = NextCnt(chipnr)]
        /\ sensed[chipnr] \notin page[chipnr][1].ok \union page[chipnr][1].blank
        /\ clean
    BY <1>3, <1>n, <1>b DEF Retry, Handle, callVars, NeedRetry, FetchFrom, CallInv,
       Uncorrected, Corrected, Blank, Here, Plane, ReadCall
  <2>2. /\ \A d \in Chips : d > chipnr => sensed[d] = 0
        /\ retry_cnt <= RetryCnt =>
             /\ sensed[chipnr] = First(maker, retry_cnt)
             /\ level[chipnr] = First(maker, retry_cnt)
             /\ cur_cnt[chipnr] = CntFirst(maker, retry_cnt)
        /\ \A q \in 0..RetryCnt :
             q < retry_cnt =>
               First(maker, q) \notin page[chipnr][1].ok \union page[chipnr][1].blank
    BY <1>3, <2>1 DEF WalkInv
  <2>3. \A d \in Chips : d > chipnr => sensed'[d] = 0
    <3>1. \A d \in Chips : d > chipnr => d # chipnr
      BY ChipsFacts, <1>0
    <3> QED
      BY <1>0, <2>1, <2>2, <3>1 DEF LevelOf
  <2>4. ASSUME retry_cnt' <= RetryCnt
        PROVE  /\ sensed'[chipnr] = First(maker, retry_cnt')
               /\ level'[chipnr] = First(maker, retry_cnt')
               /\ cur_cnt'[chipnr] = CntFirst(maker, retry_cnt')
    <3>1. retry_cnt \in 0..RetryCnt - 1 /\ retry_cnt <= RetryCnt
      BY <1>0, <2>1, <2>4
    <3>2. /\ NextLevel(chipnr) = First(maker, retry_cnt + 1)
          /\ NextCnt(chipnr) = CntFirst(maker, retry_cnt + 1)
      BY <1>0, <2>2, <3>1, NextOfWalk
    <3> QED
      BY <1>0, <2>1, <3>2 DEF LevelOf, Counts
  <2>5. ASSUME NEW q \in 0..RetryCnt, q < retry_cnt'
        PROVE  First(maker, q) \notin page[chipnr][1].ok \union page[chipnr][1].blank
    <3>1. q < retry_cnt \/ (q = retry_cnt /\ retry_cnt <= RetryCnt)
      BY <1>0, <2>1, <2>5
    <3> QED
      BY <2>1, <2>2, <3>1
  <2> QED
    BY <2>1, <2>3, <2>4, <2>5
<1>4. CASE Retry /\ plane_num # 1
  <2>1. plane_num' # 1 /\ at' \in {"plane0", "plane1"}
    BY <1>4 DEF Retry, FetchFrom, callVars
  <2> QED
    BY <2>1
<1>5. CASE Plane0 \/ Plane0Erased
  <2>1. plane_num' = 2 /\ at' = "plane1"
    BY <1>5 DEF Plane0, Plane0Erased, callVars, CallInv
  <2> QED
    BY <2>1
<1>6. CASE LastPlane \/ LastPlaneErased
  <2>1. /\ at = "plane1" /\ Advance /\ UNCHANGED <<sensed, maker, plane_num>>
        /\ retry_cnt' = 0 /\ clean
    BY <1>6, <1>b DEF LastPlane, LastPlaneErased, callVars, chipVars, Advance, ReadCall
  <2>2. CASE at' = "idle"
    BY <2>2
  <2>3. CASE chipnr < ChipNum /\ chipnr' = chipnr + 1 /\ at' \in {"plane0", "plane1"}
    <3>1. chipnr + 1 \in Chips /\ \A d \in Chips : d > chipnr + 1 => d > chipnr
      BY <1>0, <2>3, ChipsFacts
    <3>2. level'[chipnr + 1] = 0 /\ cur_cnt'[chipnr + 1] = 0
      <4>1. chipnr + 1 \notin strayed'
        BY <1>0, <2>3, ChipsFacts DEF LevelInv
      <4> QED
        BY <2>1, <3>1, <4>1 DEF LevelInv
    <3>3. plane_num = 1 => \A d \in Chips : d > chipnr => sensed[d] = 0
      BY <2>1 DEF WalkInv
    <3>4. chipnr + 1 > chipnr
      BY <1>0, ChipsFacts
    <3>5. plane_num = 1 => sensed[chipnr + 1] = 0
      BY <3>1, <3>3, <3>4
    <3> QED
      BY <1>0, <1>f, <2>1, <2>3, <3>1, <3>2, <3>3, <3>5
  <2> QED
    BY <2>1, <2>2, <2>3 DEF Advance, FetchFrom
<1>7. CASE ChipBusy
  BY <1>7, <1>n DEF ChipBusy
<1>8. CASE UNCHANGED vars
  BY <1>8 DEF WalkInv, vars, callVars, chipVars
<1> QED
  BY <1>1, <1>2, <1>3, <1>4, <1>5, <1>6, <1>7, <1>8 DEF ReadNext, ReadStep

-----------------------------------------------------------------------------

(* A lost page is uncorrectable whenever it is fetched.                    *)
LEMMA LostIsUncorrected ==
  ASSUME CallInv, ReachedInv, Lost(Here)
  PROVE  Uncorrected
<1>1. sensed[chipnr] \in Reached
  BY DEF CallInv, ReachedInv
<1> QED
  BY <1>1 DEF Lost, Ends, Uncorrected, Corrected, Blank

(* The verdict on a page of one plane in a clean read: it is given up only *)
(* when every level was tried, and the number of retries it took is that   *)
(* of the lowest level that corrects it or makes it pass as erased.        *)
LEMMA VerdictOfPage ==
  ASSUME RetryInv, CallInv, ReachedInv, WalkInv, clean, plane_num = 1,
         at = "plane1", Done \/ Blank
  PROVE  /\ Uncorrected => Lost(Here)
         /\ (Corrected /\ retry_cnt > 0 /\ retry_cnt + 2 > OpCnt) <=> Worn(Here)
<1>0. /\ chipnr \in Chips /\ maker \in Makers /\ RetryCnt \in 2..255
      /\ retry_cnt \in Nat /\ OpCnt \in Nat /\ HasRetry \in BOOLEAN
  BY ReadAssumption, OpCntNat DEF RetryInv, CallInv
<1>o. OpCnt >= RetryCnt /\ OpCnt >= 2
  <2>1. RetryCnt * RetryCnt >= RetryCnt
    BY <1>0, Z3
  <2> QED
    BY <1>0, <2>1 DEF OpCnt
<1>h. Here = page[chipnr][1]
  BY DEF Here, Plane
<1>w. /\ retry_cnt > 0 => HasRetry
      /\ retry_cnt <= RetryCnt => sensed[chipnr] = First(maker, retry_cnt)
      /\ \A q \in 0..RetryCnt :
           q < retry_cnt => First(maker, q) \notin Here.ok \union Here.blank
  BY <1>h DEF WalkInv
<1>r. /\ \A l \in Reached : \E q \in 0..RetryCnt :
           First(maker, q) = l /\ (~HasRetry => q = 0)
      /\ \A q, r \in 0..RetryCnt : First(maker, q) < First(maker, r) => q < r
      /\ \A r \in 0..RetryCnt : First(maker, r) \in Nat
      /\ \A r \in 0..RetryCnt :
           (\A q \in 0..RetryCnt : q < r => First(maker, q) # First(maker, r))
             => RetriesTo(First(maker, r)) = r
  BY <1>0, WalkFacts
<1>1. ASSUME Uncorrected PROVE Lost(Here)
  <2>1. sensed[chipnr] \notin Here.ok \union Here.blank /\ ~NeedRetry
    BY <1>1 DEF Uncorrected, Done, Corrected, Blank
  <2>2. ASSUME NEW l \in Reached PROVE l \notin Here.ok \union Here.blank
    <3>1. PICK q \in 0..RetryCnt : First(maker, q) = l /\ (~HasRetry => q = 0)
      BY <1>r
    <3>2. CASE HasRetry
      <4>1. retry_cnt >= RetryCnt
        BY <1>0, <1>o, <2>1, <3>2 DEF NeedRetry
      <4>2. q < retry_cnt \/ (q = retry_cnt /\ retry_cnt <= RetryCnt)
        BY <1>0, <4>1
      <4> QED
        BY <1>w, <2>1, <3>1, <4>2
    <3>3. CASE ~HasRetry
      <4>1. retry_cnt = 0 /\ q = 0
        BY <1>0, <1>w, <3>1, <3>3
      <4> QED
        BY <1>0, <1>w, <2>1, <3>1, <4>1
    <3> QED
      BY <3>2, <3>3
  <2> QED
    BY <2>1, <2>2 DEF Lost, Ends
<1>2. ASSUME Corrected \/ Blank
      PROVE  (Corrected /\ retry_cnt > 0 /\ retry_cnt + 2 > OpCnt) <=> Worn(Here)
  <2>1. /\ sensed[chipnr] \in Here.ok \union Here.blank
        /\ sensed[chipnr] \in Reached
    BY <1>0, <1>2 DEF Corrected, Blank, ReachedInv
  <2>2. PICK q \in 0..RetryCnt : First(maker, q) = sensed[chipnr]
    BY <1>r, <2>1
  <2>3. retry_cnt \in 0..RetryCnt
    BY <1>0, <1>w, <2>1, <2>2
  <2> DEFINE l == First(maker, retry_cnt)
             S == Ends(Here)
  <2>4. l = sensed[chipnr] /\ l \in S /\ l \in Nat
    BY <1>0, <1>r, <1>w, <2>1, <2>3 DEF Ends
  <2>5. ASSUME NEW k \in S PROVE l <= k /\ k \in Nat
    <3>1. PICK p \in 0..RetryCnt : First(maker, p) = k
      BY <1>r DEF Ends
    <3>2. ~(p < retry_cnt)
      BY <1>w, <3>1 DEF Ends
    <3>3. ~(k < l) /\ k \in Nat
      BY <1>r, <2>3, <3>1, <3>2
    <3> QED
      BY <2>4, <3>3
  <2>6. RetriesTo(l) = retry_cnt
    <3>1. \A p \in 0..RetryCnt : p < retry_cnt => First(maker, p) # l
      BY <1>w, <2>1, <2>4
    <3> QED
      BY <1>r, <2>3, <3>1
  <2> HIDE DEF l, S
  <2>7. Min(S) = l
    <3>1. \A k \in S : (\A j \in S : k =< j) => k = l
      BY <2>4, <2>5
    <3>2. \A k \in S : l =< k
      BY <2>5
    <3> QED
      BY <2>4, <3>1, <3>2 DEF Min
  <2>8. Worn(Here) <=> Corrected /\ retry_cnt >= OpCnt - 1
    <3>1. S # {}
      BY <2>4
    <3>2. Corrected <=> l \in Here.ok
      BY <2>4 DEF Corrected
    <3> QED
      BY <2>6, <2>7, <3>1, <3>2 DEF Worn, S
  <2> QED
    BY <1>0, <1>o, <2>8
<1>3. ASSUME Uncorrected PROVE ~Worn(Here)
  BY <1>1, <1>3 DEF Lost, Worn
<1>4. Uncorrected => ~Corrected
  BY DEF Uncorrected, Corrected
<1> QED
  BY <1>1, <1>2, <1>3, <1>4 DEF Uncorrected

(* The pages among the first n of the buffer that are lost, or worn.       *)
LostBy(n) ==
  {s \in Slots : Pos(s[1], s[2]) <= n /\ Lost(page[s[1]][s[2]])}
WornBy(n) ==
  {s \in Slots : Pos(s[1], s[2]) <= n /\ Worn(page[s[1]][s[2]])}

(* The counters agree with the pages delivered so far, if no chip is       *)
(* mixed.                                                                  *)
CountInv ==
  /\ ecc_err \in Nat /\ bit_flip \in Nat
  /\ Pure(ChipNum) => ecc_err >= Cardinality(LostBy(Len(buf)))
  /\ Pure(ChipNum) /\ plane_num = 1 /\ clean =>
       /\ ecc_err = Cardinality(LostBy(Len(buf)))
       /\ bit_flip = Cardinality(WornBy(Len(buf)))

(* Each page of a unit has a place of its own in the buffer.               *)
LEMMA PosUnique ==
  ASSUME plane_num \in {1, 2}, NEW s \in Slots, NEW t \in Slots,
         Pos(s[1], s[2]) = Pos(t[1], t[2])
  PROVE  s = t
<1>1. PICK c \in Chips, p \in 1..plane_num : s = <<c, p>>
  BY DEF Slots
<1>2. PICK d \in Chips, q \in 1..plane_num : t = <<d, q>>
  BY DEF Slots
<1>3. /\ c \in Nat \ {0} /\ d \in Nat \ {0}
      /\ p \in {1, 2} /\ q \in {1, 2} /\ p <= plane_num /\ q <= plane_num
  BY ChipsFacts
<1>4. (c - 1) * plane_num + p = (d - 1) * plane_num + q
  BY <1>1, <1>2 DEF Pos
<1>5. CASE plane_num = 1
  BY <1>1, <1>2, <1>3, <1>4, <1>5
<1>6. CASE plane_num = 2
  BY <1>1, <1>2, <1>3, <1>4, <1>6
<1> QED
  BY <1>5, <1>6

(* The pages of a unit are finitely many, and their places lie in the      *)
(* buffer.                                                                 *)
LEMMA SlotsFinite ==
  ASSUME plane_num \in {1, 2}
  PROVE  /\ IsFiniteSet(Slots)
         /\ \A s \in Slots : /\ Pos(s[1], s[2]) \in Nat \ {0}
                             /\ Pos(s[1], s[2]) <= Pos(ChipNum, plane_num)
<1>1. Slots = Chips \X (1..plane_num) /\ ChipNum \in Nat \ {0}
  BY ChipsFacts DEF Slots
<1>2. IsFiniteSet(Chips) /\ IsFiniteSet(1..plane_num)
  BY <1>1, FS_Interval DEF Chips
<1>3. ASSUME NEW c \in Chips, NEW p \in 1..plane_num
      PROVE  Pos(c, p) \in Nat \ {0} /\ Pos(c, p) <= Pos(ChipNum, plane_num)
  <2>1. c \in Nat \ {0} /\ c <= ChipNum /\ p \in {1, 2} /\ p <= plane_num
    BY <1>3, ChipsFacts
  <2>2. CASE plane_num = 1
    BY <1>1, <2>1, <2>2 DEF Pos
  <2>3. CASE plane_num = 2
    BY <1>1, <2>1, <2>3 DEF Pos
  <2> QED
    BY <2>2, <2>3
<1> QED
  BY <1>1, <1>2, <1>3, FS_Product

(* What is in LostBy and WornBy depends only on the maker and the pages.   *)
LEMMA VerdictsStay ==
  ASSUME UNCHANGED <<maker, page, plane_num>>
  PROVE  /\ (LostBy(Len(buf)))' = LostBy(Len(buf'))
         /\ (WornBy(Len(buf)))' = WornBy(Len(buf'))
BY DEF LostBy, WornBy, Lost, Worn, Ends, Slots, Pos, Reached, RetriesTo, OpCnt

(* The next page of the buffer is the one that is fetched: it is added to  *)
(* the lost or the worn ones, or to neither.                               *)
LEMMA NextPageCounts ==
  ASSUME CallInv, PlaceInv, Pure(ChipNum), at \in {"plane0", "plane1"},
         NEW n, n = Len(buf)
  PROVE  /\ IsFiniteSet(LostBy(n)) /\ IsFiniteSet(WornBy(n))
         /\ Cardinality(LostBy(n + 1)) =
              Cardinality(LostBy(n)) + (IF Lost(Here) THEN 1 ELSE 0)
         /\ Cardinality(WornBy(n + 1)) =
              Cardinality(WornBy(n)) + (IF Worn(Here) THEN 1 ELSE 0)
<1> DEFINE t == <<chipnr, Plane>>
<1>0. /\ plane_num \in {1, 2} /\ chipnr \in Chips /\ Plane \in 1..plane_num
      /\ buf \in Seq(Entries)
  BY DEF CallInv, Plane, PlaceInv
<1>1. t \in Slots /\ t[1] = chipnr /\ t[2] = Plane
  BY <1>0 DEF Slots
<1>2. n \in Nat /\ Pos(t[1], t[2]) = n + 1
  <2>1. ChipNum \in Chips /\ chipnr <= ChipNum
    BY <1>0, ChipsFacts DEF Chips
  <2>2. Pure(chipnr)
    BY <1>0, <2>1, PureFacts
  <2> QED
    BY <1>0, <1>1, <2>2 DEF PlaceInv, Plane, CallInv
<1>3. Here = page[t[1]][t[2]]
  BY <1>1 DEF Here
<1> HIDE DEF t
<1>4. \A s \in Slots : Pos(s[1], s[2]) <= n + 1 <=> (Pos(s[1], s[2]) <= n \/ s = t)
  <2>1. ASSUME NEW s \in Slots
        PROVE  Pos(s[1], s[2]) <= n + 1 <=> (Pos(s[1], s[2]) <= n \/ s = t)
    <3>1. Pos(s[1], s[2]) \in Nat
      BY <1>0, SlotsFinite
    <3>2. Pos(s[1], s[2]) = n + 1 => s = t
      BY <1>0, <1>1, <1>2, PosUnique
    <3> QED
      BY <1>2, <3>1, <3>2
  <2> QED
    BY <2>1
<1>5. ~(Pos(t[1], t[2]) <= n)
  BY <1>2
<1>6. IsFiniteSet(Slots)
  BY <1>0, SlotsFinite
<1>7. IsFiniteSet(LostBy(n)) /\ IsFiniteSet(WornBy(n))
  BY <1>6, FS_Subset DEF LostBy, WornBy
<1>8. Cardinality(LostBy(n)) \in Nat /\ Cardinality(WornBy(n)) \in Nat
  BY <1>7, FS_CardinalityType
<1>9. t \notin LostBy(n) /\ t \notin WornBy(n)
  BY <1>5 DEF LostBy, WornBy
<1>10. LostBy(n + 1) = IF Lost(Here) THEN LostBy(n) \cup {t} ELSE LostBy(n)
  BY <1>1, <1>3, <1>4 DEF LostBy
<1>11. WornBy(n + 1) = IF Worn(Here) THEN WornBy(n) \cup {t} ELSE WornBy(n)
  BY <1>1, <1>3, <1>4 DEF WornBy
<1>12. /\ Cardinality(LostBy(n) \cup {t}) = Cardinality(LostBy(n)) + 1
       /\ Cardinality(WornBy(n) \cup {t}) = Cardinality(WornBy(n)) + 1
  BY <1>7, <1>9, FS_AddElement
<1> QED
  BY <1>7, <1>8, <1>10, <1>11, <1>12

(* An empty buffer holds no lost page.                                     *)
LEMMA NothingYet ==
  plane_num \in {1, 2} => Cardinality(LostBy(0)) = 0 /\ Cardinality(WornBy(0)) = 0
<1> SUFFICES ASSUME plane_num \in {1, 2}
             PROVE  Cardinality(LostBy(0)) = 0 /\ Cardinality(WornBy(0)) = 0
  OBVIOUS
<1>1. LostBy(0) = {} /\ WornBy(0) = {}
  BY SlotsFinite DEF LostBy, WornBy
<1> QED
  BY <1>1, FS_EmptySet

(* Every step keeps the counters right.                                    *)
LEMMA CountInvStep ==
  ASSUME RetryInv, CallInv, PlaceInv, ReachedInv, WalkInv, CountInv, CallInv',
         [ReadNext]_vars
  PROVE  CountInv'
<1>1. CASE ReadCall
  <2>1. ecc_err' = 0 /\ bit_flip' = 0 /\ Len(buf') = 0 /\ plane_num' \in {1, 2}
    BY <1>1 DEF ReadCall, CallInv
  <2>2. (Cardinality(LostBy(0)) = 0 /\ Cardinality(WornBy(0)) = 0)'
    <3>1. (plane_num \in {1, 2})'
      BY <2>1
    <3> QED
      BY <3>1, NothingYet, PTL
  <2> QED
    BY <2>1, <2>2 DEF CountInv
<1>2. CASE UNCHANGED <<buf, page, maker, ecc_err, bit_flip, plane_num>>
           /\ (clean' => clean)
  <2>1. /\ (LostBy(Len(buf)))' = LostBy(Len(buf))
        /\ (WornBy(Len(buf)))' = WornBy(Len(buf))
        /\ Pure(ChipNum)' <=> Pure(ChipNum)
    BY <1>2, VerdictsStay, PureStays
  <2> QED
    BY <1>2, <2>1 DEF CountInv
<1>3. CASE (Plane0 \/ Plane0Erased \/ LastPlane \/ LastPlaneErased) /\ Pure(ChipNum)
  <2>1. /\ UNCHANGED <<page, plane_num, maker>> /\ at \in {"plane0", "plane1"}
    BY <1>3 DEF Plane0, Plane0Erased, LastPlane, LastPlaneErased, callVars
  <2>2. PICK how \in {"data", "garbage", "ff"} : Deliver(how)
    BY <1>3 DEF Plane0, Plane0Erased, LastPlane, LastPlaneErased, How
  <2> DEFINE n == Len(buf)
             l == IF Lost(Here) THEN 1 ELSE 0
             w == IF Worn(Here) THEN 1 ELSE 0
             a == Cardinality(LostBy(n))
             b == Cardinality(WornBy(n))
  <2>3. n \in Nat /\ Len(buf') = n + 1
    BY <2>2 DEF Deliver, PlaceInv
  <2>4. a \in Nat /\ b \in Nat
    BY <1>3, <2>1, NextPageCounts, FS_CardinalityType
  <2>5. /\ Cardinality((LostBy(Len(buf)))') = a + l
        /\ Cardinality((WornBy(Len(buf)))') = b + w
    BY <1>3, <2>1, <2>3, NextPageCounts, VerdictsStay
  <2>6. ecc_err' \in {ecc_err, ecc_err + 1} /\ bit_flip' \in {bit_flip, bit_flip + 1}
    BY <1>3 DEF Plane0, Plane0Erased, LastPlane, LastPlaneErased, Count
  <2>7. ecc_err' >= ecc_err + l
    <3>1. CASE Lost(Here)
      <4>1. Uncorrected
        BY <3>1, LostIsUncorrected
      <4>2. ecc_err' = ecc_err + 1
        BY <1>3, <4>1 DEF Plane0, Plane0Erased, LastPlane, LastPlaneErased, Count,
           Uncorrected
      <4> QED
        BY <3>1, <4>2 DEF CountInv
    <3>2. CASE ~Lost(Here)
      BY <2>6, <3>2 DEF CountInv
    <3> QED
      BY <3>1, <3>2
  <2>8. ASSUME plane_num = 1, clean'
        PROVE  /\ clean
               /\ ecc_err' = ecc_err + l
               /\ bit_flip' = bit_flip + w
    <3>1. clean
      BY <1>3, <2>8 DEF Plane0, Plane0Erased, LastPlane, LastPlaneErased,
         ExitRetry, TimesOut, NoTimeOut
    <3>2. at = "plane1"
      BY <2>1, <2>8 DEF CallInv
    <3>3. CASE LastPlane
      <4>1. Done /\ Count
        BY <3>3 DEF LastPlane
      <4>2. /\ Uncorrected => Lost(Here)
            /\ (Corrected /\ retry_cnt > 0 /\ retry_cnt + 2 > OpCnt) <=> Worn(Here)
        BY <2>8, <3>1, <3>2, <4>1, VerdictOfPage
      <4>3. Lost(Here) => Uncorrected
        BY LostIsUncorrected
      <4> QED
        BY <3>1, <4>1, <4>2, <4>3 DEF Count, CountInv
    <3>4. CASE LastPlaneErased
      <4>1. UNCHANGED <<ecc_err, bit_flip>> /\ Blank /\ ~Corrected /\ ~Uncorrected
        BY <3>4 DEF LastPlaneErased, Blank, Corrected, Uncorrected
      <4>2. ~Worn(Here)
        BY <2>8, <3>1, <3>2, <4>1, VerdictOfPage
      <4>3. ~Lost(Here)
        BY <4>1, LostIsUncorrected
      <4> QED
        BY <3>1, <4>1, <4>2, <4>3 DEF CountInv
    <3> QED
      BY <1>3, <3>2, <3>3, <3>4 DEF Plane0, Plane0Erased
  <2>9. l \in Nat /\ w \in Nat
    OBVIOUS
  <2> HIDE DEF n, l, w
  <2>10. /\ ecc_err \in Nat /\ bit_flip \in Nat /\ ecc_err >= a
         /\ plane_num = 1 /\ clean => ecc_err = a /\ bit_flip = b
    BY <1>3 DEF CountInv, n
  <2> HIDE DEF a, b
  <2>11. ecc_err' \in Nat /\ bit_flip' \in Nat /\ ecc_err' >= a + l
    BY <2>4, <2>6, <2>7, <2>9, <2>10
  <2>12. plane_num' = 1 /\ clean' => ecc_err' = a + l /\ bit_flip' = b + w
    BY <2>1, <2>8, <2>10
  <2> QED
    BY <2>5, <2>11, <2>12 DEF CountInv
<1>4. CASE (Plane0 \/ Plane0Erased \/ LastPlane \/ LastPlaneErased) /\ ~Pure(ChipNum)
  <2>1. /\ UNCHANGED <<page, plane_num>>
        /\ ecc_err' \in {ecc_err, ecc_err + 1} /\ bit_flip' \in {bit_flip, bit_flip + 1}
    BY <1>4 DEF Plane0, Plane0Erased, LastPlane, LastPlaneErased, Count, callVars
  <2> QED
    BY <1>4, <2>1, PureStays DEF CountInv
<1>5. \/ ReadCall \/ Plane0 \/ Plane0Erased \/ LastPlane \/ LastPlaneErased
      \/ UNCHANGED <<buf, page, maker, ecc_err, bit_flip, plane_num>>
           /\ (clean' => clean)
  BY DEF ReadNext, ReadStep, ChipBusy, SendCommand, Retry, vars, callVars,
     TimesOut, NoTimeOut
<1> QED
  BY <1>1, <1>2, <1>3, <1>4, <1>5

(* A page that no level can correct is counted in ecc_err whatever was     *)
(* retried before it, on any number of chips with one or two planes; and   *)
(* on one plane, if the read is clean, ecc_err and bit_flip count exactly  *)
(* the lost and the worn pages, for each maker's table of any length.      *)
THEOREM LossesAreReported == ReadSpec => []VerdictRight
<1> DEFINE Inv == /\ RetryInv /\ CallInv /\ LevelInv /\ PlaceInv
                  /\ ReachedInv /\ WalkInv /\ CountInv
<1>1. ReadInit => Inv
  <2> SUFFICES ASSUME ReadInit
               PROVE  LevelInv /\ PlaceInv /\ ReachedInv /\ WalkInv /\ CountInv
    BY CallInvInit
  <2>0. CallInv /\ RetryInv
    BY CallInvInit
  <2>1. Pos(ChipNum, plane_num) >= 0
    BY ChipsFacts DEF ReadInit, Pos
  <2>2. LevelInv /\ PlaceInv
    BY <2>1 DEF ReadInit, LevelInv, PlaceInv
  <2>3. ReachedInv
    BY <2>0, WalkFacts DEF ReadInit, ReachedInv, RetryInv
  <2>4. WalkInv
    BY DEF ReadInit, WalkInv
  <2>5. CountInv
    <3>1. Len(buf) = 0 /\ ecc_err = 0 /\ bit_flip = 0
      BY DEF ReadInit
    <3>2. Cardinality(LostBy(0)) = 0 /\ Cardinality(WornBy(0)) = 0
      BY <2>0, NothingYet DEF CallInv
    <3> QED
      BY <3>1, <3>2 DEF CountInv
  <2> QED
    BY <2>2, <2>3, <2>4, <2>5
<1>2. Inv /\ [ReadNext]_vars => Inv'
  BY CallInvStep, LevelInvStep, PlaceInvStep, ReachedInvStep, WalkInvStep, CountInvStep
<1>3. Inv => VerdictRight
  <2> SUFFICES ASSUME Inv, Success, \A c \in Chips : ~Mixed(c) PROVE VerdictRight
    BY DEF VerdictRight
  <2>0. Pure(ChipNum)
    BY DEF Pure
  <2>1. plane_num \in {1, 2} /\ Len(buf) = Pos(ChipNum, plane_num)
    BY SlotCount DEF CallInv, Success
  <2> DEFINE n == Len(buf)
             lost == {s \in Slots : Lost(page[s[1]][s[2]])}
             worn == {s \in Slots : Worn(page[s[1]][s[2]])}
  <2>2. \A s \in Slots : Pos(s[1], s[2]) <= n
    BY <2>1, SlotsFinite
  <2>3. lost = LostBy(n)
    BY <2>2 DEF LostBy
  <2>4. worn = WornBy(n)
    BY <2>2 DEF WornBy
  <2>5. /\ ecc_err >= Cardinality(LostBy(n))
        /\ plane_num = 1 /\ clean =>
             ecc_err = Cardinality(LostBy(n)) /\ bit_flip = Cardinality(WornBy(n))
    BY <2>0 DEF CountInv
  <2> QED
    BY <2>3, <2>4, <2>5 DEF VerdictRight
<1> QED
  BY <1>1, <1>2, <1>3, PTL DEF ReadSpec

-----------------------------------------------------------------------------
(* The user bytes.                                                         *)

(* controller_ecc_confirm finds a mode for every chip.                     *)
ModeFound ==
  \A g \in Geometries : \E i \in DOMAIN bch_list : EccFits(g, bch_list[i])

(* The settings controller_ecc_confirm leaves are those of a mode of the   *)
(* list, the last one that fits.                                           *)
LEMMA ModeChosen ==
  ASSUME NEW g, \E i \in DOMAIN bch_list : EccFits(g, bch_list[i])
  PROVE  \E i \in 1..8 :
           EccConfirm(g) = [mode |-> bch_list[i],
                            ecc_steps |-> Whole(g) \div StepSize(bch_list[i])]
<1> DEFINE Fit(i) == EccFits(g, bch_list[i])
           S == {i \in DOMAIN bch_list : Fit(i)}
<1>1. DOMAIN bch_list = 1..8
  BY DEF bch_list
<1> HIDE DEF Fit
<1>2. PICK m \in 1..8 : Fit(m) /\ \A j \in 1..8 : Fit(j) => m >= j
  <2>1. \E i \in 1..8 : Fit(i)
    BY <1>1 DEF Fit
  <2>2. \A i \in 1..8 : i \in {1, 2, 3, 4, 5, 6, 7, 8}
    OBVIOUS
  <2> QED
    BY <2>1, <2>2
<1>3. m \in S /\ \A y \in S : m >= y
  BY <1>1, <1>2
<1>4. Max(S) \in S
  BY <1>3 DEF Max
<1>5. EccConfirm(g) = [mode |-> bch_list[Max(S)],
                       ecc_steps |-> Whole(g) \div StepSize(bch_list[Max(S)])]
  BY DEF EccConfirm, Fit
<1>6. Max(S) \in 1..8
  BY <1>1, <1>4
<1> QED
  BY <1>5, <1>6

(* A page has two user bytes for each of its steps.                        *)
LEMMA UserBytesEven ==
  ASSUME ModeFound, NEW g \in Geometries
  PROVE  \E h \in Nat : UserByteNum(g) = 2 * h
<1>1. PICK i \in 1..8 :
           EccConfirm(g) = [mode |-> bch_list[i],
                            ecc_steps |-> Whole(g) \div StepSize(bch_list[i])]
  BY ModeChosen DEF ModeFound
<1>2. /\ bch_list[i].usr_mode = 2
      /\ StepSize(bch_list[i]) \in Nat /\ StepSize(bch_list[i]) > 0
  <2>1. i \in {1, 2, 3, 4, 5, 6, 7, 8}
    BY <1>1
  <2> QED
    BY <2>1 DEF bch_list, EccMode, StepSize
<1>3. Whole(g) \in Nat
  BY GeometryAssumption DEF Whole
<1>4. \A w \in Nat : \A s \in Nat : s > 0 => w \div s \in Nat
  BY Z3
<1>5. Whole(g) \div StepSize(bch_list[i]) \in Nat
  BY <1>2, <1>3, <1>4
<1>6. UserByteNum(g) = (Whole(g) \div StepSize(bch_list[i])) * 2
  BY <1>1, <1>2 DEF UserByteNum
<1>7. UserByteNum(g) = 2 * (Whole(g) \div StepSize(bch_list[i]))
  BY <1>5, <1>6
<1> QED
  BY <1>5, <1>7

(* What set_user_byte puts into user_buf for a page, get_user_byte takes   *)
(* out again, for the bytes that user_buf has room for.                    *)
LEMMA UserBytesThrough ==
  ASSUME NEW g, NEW h \in Nat, UserByteNum(g) = 2 * h, NEW oob,
         DOMAIN oob = 0..2 * h - 1, NEW k \in 0..2 * h - 1, k < 16
  PROVE  GetUserByte(g, Transferred(g, SetUserByte(g, oob)))[k] = oob[k]
<1>1. CASE OobMod(g)
  <2>1. SetUserByte(g, oob) = oob
    BY <1>1 DEF SetUserByte
  <2>2. Transferred(g, oob)[k] = oob[k]
    BY <1>1 DEF Transferred, BYTES_OF_USER_PER_PAGE
  <2> QED
    BY <1>1, <2>1, <2>2 DEF GetUserByte
<1>2. CASE ~OobMod(g)
  <2>0. (2 * h) \div 2 = h
    OBVIOUS
  <2>1. SetUserByte(g, oob) = [w \in 0..h - 1 |-> <<oob[2 * w], oob[2 * w + 1]>>]
    BY <1>2, <2>0 DEF SetUserByte
  <2>2. Transferred(g, SetUserByte(g, oob)) = SetUserByte(g, oob)
    BY <1>2, <2>1 DEF Transferred
  <2>3. GetUserByte(g, SetUserByte(g, oob))[k] =
          SetUserByte(g, oob)[k \div 2][(k % 2) + 1]
    BY <1>2 DEF GetUserByte
  <2>4. k \div 2 \in 0..h - 1
    OBVIOUS
  <2>5. SetUserByte(g, oob)[k \div 2] = <<oob[2 * (k \div 2)], oob[2 * (k \div 2) + 1]>>
    BY <2>1, <2>4
  <2>6. \/ k % 2 = 0 /\ k = 2 * (k \div 2)
        \/ k % 2 = 1 /\ k = 2 * (k \div 2) + 1
    OBVIOUS
  <2> QED
    BY <2>2, <2>3, <2>5, <2>6
<1> QED
  BY <1>1, <1>2

(* What is delivered as data can be corrected at some level, what is       *)
(* delivered as 0xff passes as erased at some, and the rest is counted.    *)
HowInv ==
  /\ ecc_err \in Nat
  /\ \A k \in 1..Len(buf) :
       /\ buf[k][1] \in Chips /\ buf[k][2] \in 1..plane_num
       /\ \/ buf[k][3] = "data" /\ page[buf[k][1]][buf[k][2]].ok # {}
          \/ buf[k][3] = "ff" /\ page[buf[k][1]][buf[k][2]].blank # {}
          \/ buf[k][3] = "garbage" /\ ecc_err > 0

(* Every step keeps it so: a retry delivers nothing.                       *)
LEMMA HowInvStep ==
  ASSUME CallInv, PlaceInv, HowInv, [ReadNext]_vars
  PROVE  HowInv'
<1>1. CASE ReadCall
  <2>1. Len(buf') = 0 /\ ecc_err' = 0
    BY <1>1 DEF ReadCall
  <2> QED
    BY <2>1 DEF HowInv
<1>2. CASE UNCHANGED <<buf, page, plane_num, ecc_err>>
  BY <1>2 DEF HowInv
<1>3. CASE Plane0 \/ Plane0Erased \/ LastPlane \/ LastPlaneErased
  <2>1. /\ UNCHANGED <<page, plane_num>> /\ at \in {"plane0", "plane1"}
    BY <1>3 DEF Plane0, Plane0Erased, LastPlane, LastPlaneErased, callVars
  <2>0. ecc_err' \in {ecc_err, ecc_err + 1} /\ ecc_err \in Nat
    BY <1>3 DEF Plane0, Plane0Erased, LastPlane, LastPlaneErased, Count, HowInv
  <2>2. PICK how \in {"data", "garbage", "ff"} :
               /\ Deliver(how)
               /\ \/ how = "data" /\ Here.ok # {}
                  \/ how = "ff" /\ Here.blank # {}
                  \/ how = "garbage" /\ ecc_err' > 0
    <3>1. CASE Plane0 \/ LastPlane
      <4>1. Deliver(How) /\ Done /\ Count
        BY <3>1 DEF Plane0, LastPlane
      <4>2. CASE Corrected
        BY <4>1, <4>2 DEF How, Corrected
      <4>3. CASE ~Corrected
        BY <2>0, <4>1, <4>3 DEF How, Done, Count
      <4> QED
        BY <4>2, <4>3
    <3>2. CASE Plane0Erased \/ LastPlaneErased
      BY <3>2 DEF Plane0Erased, LastPlaneErased, Blank
    <3> QED
      BY <1>3, <3>1, <3>2
  <2>3. chipnr \in Chips /\ Plane \in 1..plane_num /\ Plane \in {1, 2}
    BY DEF CallInv, Plane
  <2> DEFINE e == <<chipnr, Plane, how>>
  <2>4. e \in Entries /\ e[1] = chipnr /\ e[2] = Plane /\ e[3] = how
    BY <2>3 DEF Entries
  <2>5. buf' = Append(buf, e) /\ buf \in Seq(Entries)
    BY <2>2 DEF Deliver, PlaceInv
  <2> HIDE DEF e
  <2>6. /\ Len(buf') = Len(buf) + 1 /\ Len(buf) \in Nat /\ buf'[Len(buf) + 1] = e
        /\ \A k \in 1..Len(buf) : buf'[k] = buf[k]
    BY <2>4, <2>5
  <2>7. Here = page[chipnr][Plane]
    BY DEF Here
  <2>8. ASSUME NEW k \in 1..Len(buf')
        PROVE  /\ buf'[k][1] \in Chips /\ buf'[k][2] \in 1..plane_num
               /\ \/ buf'[k][3] = "data" /\ page[buf'[k][1]][buf'[k][2]].ok # {}
                  \/ buf'[k][3] = "ff" /\ page[buf'[k][1]][buf'[k][2]].blank # {}
                  \/ buf'[k][3] = "garbage" /\ ecc_err' > 0
    <3>1. CASE k \in 1..Len(buf)
      <4>1. /\ buf'[k] = buf[k]
            /\ ecc_err > 0 => ecc_err' > 0
        BY <2>0, <2>6, <3>1
      <4> QED
        BY <3>1, <4>1 DEF HowInv
    <3>2. CASE k = Len(buf) + 1
      BY <2>2, <2>3, <2>4, <2>6, <2>7, <3>2
    <3> QED
      BY <2>6, <3>1, <3>2
  <2> QED
    BY <2>0, <2>1, <2>8 DEF HowInv
<1>4. \/ ReadCall \/ Plane0 \/ Plane0Erased \/ LastPlane \/ LastPlaneErased
      \/ UNCHANGED <<buf, page, plane_num, ecc_err>>
  BY DEF ReadNext, ReadStep, ChipBusy, SendCommand, Retry, vars, callVars
<1> QED
  BY <1>1, <1>2, <1>3, <1>4

(* The page of the request that byte i of the user bytes lies in.          *)
LEMMA ByteInPage ==
  ASSUME NEW i \in Nat, NEW n \in Nat, n > 0, NEW m \in Nat, i < n * m
  PROVE  /\ i \div n \in Nat /\ i \div n < m
         /\ i % n \in 0..n - 1 /\ i % n <= i
         /\ (i \div n) * n + (i % n) = i
<1> DEFINE q == i \div n
           r == i % n
<1>1. q \in Nat /\ r \in 0..n - 1 /\ i = n * q + r
  BY Z3
<1> HIDE DEF q, r
<1>2. q * n \in Nat /\ q * n = n * q
  BY <1>1, Z3
<1>3. q < m
  <2> SUFFICES ASSUME m <= q PROVE FALSE
    BY <1>1
  <2>1. n * m <= n * q
    BY <1>1, Z3
  <2> QED
    BY <1>1, <1>2, <2>1
<1> QED
  BY <1>1, <1>2, <1>3 DEF q, r

(* On a device of any number of chips, with one or two planes and any page *)
(* and spare size the controller has a mode for, the user bytes of a       *)
(* request that was read without an error are those it was written with:   *)
(* over however many pages they are spread, whichever pages were retried   *)
(* or erased, and through the words of user_buf in either OOB mode.        *)
THEOREM UserBytesSurvive ==
  ASSUME ModeFound PROVE ReadSpec => []UserBytesBack
<1> DEFINE Inv == RetryInv /\ CallInv /\ PlaceInv /\ HowInv
<1>1. ReadInit => Inv
  <2> SUFFICES ASSUME ReadInit PROVE PlaceInv /\ HowInv
    BY CallInvInit
  <2>1. Pos(ChipNum, plane_num) >= 0
    BY ChipsFacts DEF ReadInit, Pos
  <2> QED
    BY <2>1 DEF ReadInit, PlaceInv, HowInv
<1>2. Inv /\ [ReadNext]_vars => Inv'
  BY CallInvStep, PlaceInvStep, HowInvStep
<1>3. Inv => UserBytesBack
  <2> SUFFICES ASSUME Inv, Success, ecc_err = 0, \A c \in Chips : ~Mixed(c),
                      NEW g \in Geometries, FtlTakes(g),
                      NEW i \in 0..BYTES_OF_USER_PER_PAGE - 1
               PROVE  LET k == i \div UserByteNum(g)
                          from == page[k \div plane_num + 1][(k % plane_num) + 1]
                      IN /\ from.blank = {} => OobRead(g)[i] = i
                         /\ from.ok = {} => OobRead(g)[i] = 255
    BY DEF UserBytesBack
  <2> DEFINE n == UserByteNum(g)
             m == plane_num * ChipNum
             q == i \div n
             part == buf[q + 1]
             oob == PageOob(g, part[1], part[2])
             got == GetUserByte(g, Transferred(g, SetUserByte(g, oob)))[i % n]
  <2>1. /\ i \in Nat /\ i < 16 /\ plane_num \in {1, 2} /\ ChipNum \in Nat \ {0}
        /\ m \in Nat /\ m > 0
    BY ChipsFacts DEF BYTES_OF_USER_PER_PAGE, CallInv
  <2>2. PICK h \in Nat : n = 2 * h
    BY UserBytesEven
  <2>3. n \in Nat /\ n > 0 /\ i < n * m
    <3>1. n * plane_num * ChipNum >= 16
      BY DEF FtlTakes, BYTES_OF_USER_PER_PAGE
    <3>2. n * plane_num * ChipNum = n * m
      BY <2>1, <2>2, Z3
    <3>3. n \in Nat
      BY <2>2
    <3>4. n # 0
      BY <2>1, <3>1, Z3
    <3> QED
      BY <2>1, <3>1, <3>2, <3>3, <3>4
  <2> HIDE DEF n, m
  <2>4. /\ q \in Nat /\ q < m /\ i % n \in 0..n - 1 /\ i % n <= i
        /\ q * n + (i % n) = i
    BY <2>1, <2>3, ByteInPage
  <2>5. Len(buf) = m
    BY <2>1, SlotCount DEF Success, Pos, m
  <2> HIDE DEF q
  <2>6. q + 1 \in 1..Len(buf)
    BY <2>1, <2>4, <2>5
  <2>7. /\ part[1] \in Chips /\ part[2] \in 1..plane_num
        /\ \/ part[3] = "data" /\ page[part[1]][part[2]].ok # {}
           \/ part[3] = "ff" /\ page[part[1]][part[2]].blank # {}
        /\ q + 1 = Pos(part[1], part[2])
    <3>1. Pure(part[1])
      BY DEF Pure
    <3>2. ~(ecc_err > 0)
      OBVIOUS
    <3> QED
      BY <2>6, <3>1, <3>2 DEF HowInv, PlaceInv
  <2> HIDE DEF part
  <2>8. part[1] \in Nat \ {0} /\ part[2] \in {1, 2} /\ part[2] <= plane_num
    BY <2>1, <2>7, ChipsFacts
  <2>9. /\ q \div plane_num + 1 = part[1] /\ (q % plane_num) + 1 = part[2]
        /\ (part[1] - 1) * plane_num + part[2] - 1 = q
    <3>1. CASE plane_num = 1
      BY <2>4, <2>7, <2>8, <3>1 DEF Pos
    <3>2. CASE plane_num = 2
      BY <2>4, <2>7, <2>8, <3>2 DEF Pos
    <3> QED
      BY <2>1, <3>1, <3>2
  <2>10. oob = [k \in 0..n - 1 |-> q * n + k]
    BY <2>9 DEF PageOob, n
  <2>11. oob[i % n] = i /\ DOMAIN oob = 0..n - 1
    BY <2>4, <2>10
  <2> HIDE DEF oob
  <2>12. got = oob[i % n]
    BY <2>1, <2>2, <2>4, <2>11, UserBytesThrough DEF n
  <2>13. OobRead(g)[i] = CASE ecc_err > 0 -> 34
                           [] part[3] = "ff" -> 255
                           [] OTHER -> got
    BY DEF OobRead, n, q, part, oob
  <2>14. /\ page[part[1]][part[2]].blank = {} => OobRead(g)[i] = i
         /\ page[part[1]][part[2]].ok = {} => OobRead(g)[i] = 255
    BY <2>7, <2>11, <2>12, <2>13
  <2> QED
    BY <2>9, <2>14 DEF n, q
<1> QED
  BY <1>1, <1>2, <1>3, PTL DEF ReadSpec
=============================================================================
